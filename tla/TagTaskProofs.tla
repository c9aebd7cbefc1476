---------------------------- MODULE TagTaskProofs ----------------------------
(***************************************************************************)
(* The safety properties of TagTask, for every set of tags, of messages    *)
(* and of capacities, every number of sectors and size of a byte, and any  *)
(* number of failed exchanges and calls of the user.                       *)
(*                                                                         *)
(* TaskInv says what a tag can hold and what the plan of an operation is   *)
(* made of; the other parts relate what a tag holds already to what the    *)
(* plan still has: a cell that an operation is to change has its new       *)
(* contents or is written by the rest of the plan, unless an exchange      *)
(* failed.                                                                 *)
(***************************************************************************)
EXTENDS TagTask, MifareProofs, FiniteSetTheorems

-----------------------------------------------------------------------------
(* What tags hold *)

IsChunk(x) == x[3] \in Nat \ {0} /\ x[2] \in Messages /\ x = Chunk(x[2], x[3])

Keys == {Trailer("factory"), Trailer("mad"), Trailer("ndef"), Trailer("foreign")}

FillsBlock(b, x) ==
  IF b = TrailerOf(b) THEN x \in Keys
  ELSE x \in {Blank, EmptyNdef, Mad(1), Mad(2)} \/ IsChunk(x)

ClassicShape(memory) ==
  /\ memory = [b \in Blocks |-> memory[b]]
  /\ \A b \in Blocks : FillsBlock(b, memory[b])

LastPage(bytes) == 3 + bytes \div MIFARE_ULTRALIGHT_PAGE_SIZE

UlShape(memory) ==
  \E bytes \in Capacities :
    /\ memory = [p \in 3..LastPage(bytes) |-> memory[p]]
    /\ memory[3] = CapabilityContainer(bytes)
    /\ \A p \in 4..LastPage(bytes) : memory[p] = Blank \/ IsChunk(memory[p])

MemInv ==
  /\ mem = [t \in Tags |-> mem[t]]
  /\ \A t \in Classic : ClassicShape(mem[t])
  /\ \A t \in Ultralight : UlShape(mem[t])

-----------------------------------------------------------------------------
(* The variables apart from the tags' contents, and how they hang together *)

VarsInv ==
  /\ pc \in {"loop", "task", "on_tag", "on_finished_write", "end"}
  /\ next_task \in Tasks
  /\ next_task_message_to_write \in Messages \cup {NoMsg}
  /\ attempted \in Messages \cup {NoMsg}
  /\ present \in Tags \cup {NoTag}
  /\ working \in Tags \cup {NoTag}
  /\ stage \in {"none", "clean", "format", "write", "read"}
  /\ status \in {"OK", "FAILED"}
  /\ trig_called \in [Tags -> BOOLEAN]
  /\ written \in [Tags -> Messages \cup {NoMsg}]
  /\ touched \subseteq Tags
  /\ disturbed \in BOOLEAN
  /\ faults \in 0..MaxFaults
  /\ calls \in 0..MaxCalls

WorkInv ==
  /\ pc \in {"task", "on_tag", "on_finished_write"} => working \in Tags
  /\ pc = "task" => stage # "none"
  /\ pc = "task" /\ next_task = "EP_WRITE" => next_task_message_to_write \in Messages
  /\ pc = "task" /\ stage = "write" =>
       attempted \in Messages /\ next_task_message_to_write = attempted
  /\ pc = "on_tag" => stage = "read"
  /\ pc = "on_finished_write" => stage = "write" /\ attempted \in Messages

-----------------------------------------------------------------------------
(* The plan of the operation that runs *)

StepsFor(t, op, m, memory) ==
  IF t \in Classic
  THEN CASE op = "clean"  -> CleanSteps
         [] op = "format" -> FormatSteps
         [] op = "write"  -> WriteSteps(m)
         [] op = "read"   -> ReadSteps(Announced(memory))
  ELSE CASE op \in {"clean", "format"} -> UlCleanSteps(memory)
         [] op = "write"  -> UlWriteSteps(m)
         [] op = "read"   -> UlReadSteps(ReadsBeyond(AnnouncedBytes(memory)))

\* The order that matters to cleaning and writing a Classic tag
Ordered(t, op, m, p) ==
  /\ t \in Classic /\ op = "clean" => InOrder(p, BySector)
  /\ t \in Classic /\ op = "write" => InOrder(p, Rising(m))

PlanInv ==
  pc = "task" =>
    /\ plan \in Seq(StepsFor(working, stage, attempted, mem[working]))
    /\ Ordered(working, stage, attempted, plan)

OneTagInv ==
  /\ \A s, t \in touched : s = t
  /\ pc = "loop" /\ next_task # "EP_READ" => touched = {}
  /\ pc = "task" /\ stage # "read" => touched \subseteq {working}

TaskInv ==
  /\ MemInv
  /\ VarsInv
  /\ WorkInv
  /\ PlanInv
  /\ OneTagInv

-----------------------------------------------------------------------------
(* Erasing: what is done is done for good, what is not is still planned *)

DoneOrPlanned(c, x) == mem[working][c] = x \/ Writes(plan, c, x)

Running(op) == pc = "task" /\ stage = op

FormatInv ==
  Running("format") /\ working \in Classic /\ status = "OK" =>
    \A b \in 1..LastBlock : DoneOrPlanned(b, FormattedAt(b))

\* The sector of b refused the key and was passed over.
PassedOver(b) ==
  /\ mem[working][TrailerOf(b)] = Trailer("foreign")
  /\ \A i \in 1..Len(plan) : sect_to_auth(plan[i].cell) # sect_to_auth(b)

CleanInv ==
  Running("clean") /\ working \in Classic /\ status = "OK" /\ ~disturbed =>
    \A b \in 1..LastBlock : DoneOrPlanned(b, CleanedAt(b)) \/ PassedOver(b)

UlCleanInv ==
  (Running("clean") \/ Running("format"))
  /\ working \in Ultralight /\ status = "OK" /\ ~disturbed =>
    \A p \in 4..(CleanEnd(mem[working]) - 1) : DoneOrPlanned(p, Blank)

LockoutInv ==
  Running("format") /\ ~disturbed =>
    status = "OK" \/ (plan = <<>> /\ ~Ours(working))

EraseInv == FormatInv /\ CleanInv /\ UlCleanInv /\ LockoutInv

-----------------------------------------------------------------------------
(* Writing: the first n pieces are on the tag, the others are planned *)

Wrote(n) ==
  /\ \A i \in 1..n : DataBlock(i) \in Blocks /\ mem[working][DataBlock(i)] = Chunk(attempted, i)
  /\ \A b \in 1..LastBlock :
       (\A i \in 1..n : DataBlock(i) # b) => mem[working][b] = FormattedAt(b)

Rest(n) ==
  /\ \A i \in 1..Len(plan) :
       plan[i].do = "write" =>
         \E k \in n + 1..BlocksFor(attempted) :
           plan[i].cell = DataBlock(k) /\ plan[i].data = Chunk(attempted, k)
  /\ status = "OK" =>
       \A k \in n + 1..BlocksFor(attempted) : Writes(plan, DataBlock(k), Chunk(attempted, k))
  /\ status = "FAILED" => plan = <<>>

PrefixInv ==
  /\ Running("write") /\ working \in Classic =>
       \E n \in 0..BlocksFor(attempted) : Wrote(n) /\ Rest(n)
  /\ pc = "on_finished_write" /\ working \in Classic =>
       \E n \in 0..BlocksFor(attempted) :
         Wrote(n) /\ (status = "OK" => n = BlocksFor(attempted))

UlWriteInv ==
  Running("write") /\ working \in Ultralight /\ status = "OK" /\ ~disturbed =>
    /\ Fits(mem[working], attempted)
    /\ \A i \in 1..PagesFor(attempted) : DoneOrPlanned(DataPage(i), Chunk(attempted, i))

\* The tag t holds the message m.
HoldsMessage(t, m) ==
  IF t \in Classic
  THEN \A i \in 1..BlocksFor(m) :
         /\ DataBlock(i) \in Blocks
         /\ mem[t][DataBlock(i)] = Chunk(m, i)
         /\ mem[t][TrailerOf(DataBlock(i))] = Trailer("ndef")
  ELSE /\ Fits(mem[t], m)
       /\ \A i \in 1..PagesFor(m) : mem[t][DataPage(i)] = Chunk(m, i)

WrittenInv ==
  \A t \in Tags : written[t] # NoMsg => HoldsMessage(t, written[t])

ReadInv ==
  (Running("read") \/ pc = "on_tag") /\ ~disturbed
  /\ written[working] # NoMsg
  /\ ~(working \in Ultralight /\ IsLong(written[working])) =>
    status = "OK"

WriteInv == PrefixInv /\ UlWriteInv /\ WrittenInv /\ ReadInv

-----------------------------------------------------------------------------
(* The constants *)

LEMMA Constants ==
  /\ Sectors \in Nat /\ Sectors > 1 /\ LastBlock \in Nat /\ LastBlock >= 7
  /\ BYTE \in Nat /\ BYTE > 1
  /\ Messages \subseteq Nat /\ NoMsg \notin Messages
  /\ Classic \cap Ultralight = {}
  /\ MaxFaults \in Nat /\ MaxCalls \in Nat
  /\ \A bytes \in Capacities : bytes \in Nat /\ bytes >= 4
<1>1. Sectors \in Nat /\ Sectors > 1 /\ BYTE \in Nat /\ BYTE > 1
  BY ClassicAssumption
<1>2. LastBlock \in Nat /\ LastBlock >= 7
  BY <1>1 DEF LastBlock
<1> QED
  BY <1>1, <1>2, TaskAssumption DEF NoMsg, MIFARE_ULTRALIGHT_PAGE_SIZE

LEMMA TrailerInBlocks ==
  ASSUME NEW b \in Blocks
  PROVE  TrailerOf(b) \in Blocks /\ TrailerOf(TrailerOf(b)) = TrailerOf(b)
<1>1. b \in 0..LastBlock /\ Sectors \in Nat
  BY Constants DEF Blocks
<1>2. PICK s \in 0..Sectors - 1 : \E i \in 0..3 : b = 4 * s + i
  BY <1>1, BlockInSector
<1>3. PICK i \in 0..3 : b = 4 * s + i
  BY <1>2
<1>4. s \in Nat /\ s <= Sectors - 1 /\ 3 \in 0..3
  BY <1>1
<1>5. TrailerOf(4 * s + i) = 4 * s + 3 /\ TrailerOf(4 * s + 3) = 4 * s + 3
  BY <1>4, SectorOf
<1>6. 4 * s + 3 \in Blocks
  BY <1>1, <1>4 DEF Blocks, LastBlock
<1> QED
  BY <1>3, <1>5, <1>6

LEMMA FirstDataBlock == DataBlock(1) = 4 /\ 4 \in Blocks /\ TrailerOf(4) = 7 /\ DataPage(1) = 4
<1>1. DataBlock(1) = 4 /\ DataPage(1) = 4
  BY DEF DataBlock, DataPage, MIFARE_ULTRALIGHT_DATA_START_PAGE
<1>2. TrailerOf(4) = 7
  BY DEF TrailerOf, sect_to_auth
<1> QED
  BY <1>1, <1>2, Constants DEF Blocks

-----------------------------------------------------------------------------
(* What tags hold *)

LEMMA ClassicAnnounced ==
  ASSUME NEW memory, ClassicShape(memory)
  PROVE  Announced(memory) \in Nat
<1> DEFINE header == memory[DataBlock(1)]
<1>1. FillsBlock(4, memory[4]) /\ 4 # TrailerOf(4)
  BY FirstDataBlock DEF ClassicShape
<1>2. header \in {Blank, EmptyNdef, Mad(1), Mad(2)} \/ IsChunk(header)
  BY <1>1, FirstDataBlock DEF FillsBlock
<1>3. Announced(memory) = CASE header = EmptyNdef -> 1
                            [] header[1] = "chunk" /\ header[3] = 1 -> BlocksFor(header[2])
                            [] OTHER -> 0
  BY DEF Announced, BlocksFor
<1> HIDE DEF header
<1>4. CASE header \in {Blank, EmptyNdef, Mad(1), Mad(2)}
  <2>1. header[1] # "chunk"
    BY <1>4 DEF Blank, EmptyNdef, Mad, Content
  <2> QED
    BY <1>3, <2>1
<1>5. CASE IsChunk(header)
  <2>1. BlocksFor(header[2]) \in Nat
    BY <1>5, Constants, CellsNat DEF IsChunk
  <2>2. header # EmptyNdef
    BY <1>5 DEF IsChunk, Chunk, EmptyNdef, Content
  <2> QED
    BY <1>3, <2>1, <2>2
<1> QED
  BY <1>2, <1>4, <1>5

LEMMA UlShapeIs ==
  ASSUME NEW memory, UlShape(memory)
  PROVE  \E last \in Nat :
           /\ last >= 4
           /\ DOMAIN memory = 3..last
           /\ EndOfData(memory) = last + 1
           /\ CleanEnd(memory) \in Nat /\ CleanEnd(memory) <= last + 1
           /\ EndOfData(memory) < BYTE => CleanEnd(memory) = last + 1
           /\ \A p \in 4..last : memory[p] = Blank \/ IsChunk(memory[p])
           /\ memory[3][1] = "capacity"
           /\ \A n \in Nat : 4 * n <= Capacity(memory) => n + 3 <= last
<1>1. PICK bytes \in Capacities :
        /\ memory = [p \in 3..LastPage(bytes) |-> memory[p]]
        /\ memory[3] = CapabilityContainer(bytes)
        /\ \A p \in 4..LastPage(bytes) : memory[p] = Blank \/ IsChunk(memory[p])
  BY DEF UlShape
<1>2. bytes \in Nat /\ bytes >= 4
  BY Constants
<1>3. Capacity(memory) = bytes /\ memory[3][1] = "capacity"
  <2>1. memory[3] = <<"capacity", 0, bytes>>
    BY <1>1 DEF CapabilityContainer
  <2>2. memory[3][1] = "capacity" /\ memory[3][3] = bytes
    BY <2>1
  <2> QED
    BY <2>2 DEF Capacity
<1> DEFINE last == LastPage(bytes)
           end == EndOfData(memory)
<1>4. bytes \div 4 \in Nat /\ bytes \div 4 >= 1 /\ \A n \in Nat : 4 * n <= bytes => n <= bytes \div 4
  BY <1>2
<1>5. last = 3 + (bytes \div 4) /\ end = (bytes \div 4) + 4
  BY <1>3 DEF LastPage, EndOfData, MIFARE_ULTRALIGHT_PAGE_SIZE, MIFARE_ULTRALIGHT_DATA_START_PAGE
<1>6. DOMAIN memory = 3..last
  BY <1>1
<1>7. CleanEnd(memory) = end % BYTE
  BY DEF CleanEnd
<1> HIDE DEF last, end
<1>8. last \in Nat /\ last >= 4 /\ end \in Nat /\ end = last + 1
  BY <1>4, <1>5
<1>9. /\ end % BYTE \in Nat /\ end % BYTE <= end
      /\ end < BYTE => end % BYTE = end
  <2>1. \A x, y \in Nat : y > 1 => /\ x % y \in Nat /\ x % y <= x
                                   /\ x < y => x % y = x
    OBVIOUS
  <2> QED
    BY <1>8, <2>1, Constants
<1>10. \A n \in Nat : 4 * n <= Capacity(memory) => n + 3 <= last
  BY <1>3, <1>4, <1>5
<1> QED
  BY <1>1, <1>3, <1>6, <1>7, <1>8, <1>9, <1>10 DEF last, end

LEMMA UlAnnounced ==
  ASSUME NEW memory, UlShape(memory)
  PROVE  AnnouncedBytes(memory) \in Nat
<1>1. memory[4] = Blank \/ IsChunk(memory[4])
  <2>1. PICK last \in Nat :
          last >= 4 /\ \A p \in 4..last : memory[p] = Blank \/ IsChunk(memory[p])
    BY UlShapeIs
  <2>2. 4 \in 4..last
    BY <2>1
  <2> QED
    BY <2>1, <2>2
<1> DEFINE header == memory[4]
<1>2. AnnouncedBytes(memory) =
        IF header[1] = "chunk" /\ header[3] = 1
        THEN IF IsLong(header[2]) THEN BYTE - 1 ELSE header[2]
        ELSE 0
  BY FirstDataBlock DEF AnnouncedBytes
<1> HIDE DEF header
<1>3. BYTE - 1 \in Nat
  BY Constants
<1>4. CASE header = Blank
  BY <1>2, <1>4 DEF Blank, Content
<1>5. CASE IsChunk(header)
  <2>1. header[2] \in Nat
    BY <1>5, Constants DEF IsChunk
  <2> QED
    BY <1>2, <1>3, <2>1
<1> QED
  BY <1>1, <1>4, <1>5 DEF header

LEMMA ClassicChanges ==
  ASSUME NEW memory, ClassicShape(memory), NEW c \in Blocks, NEW x, FillsBlock(c, x)
  PROVE  ClassicShape([memory EXCEPT ![c] = x])
<1> DEFINE after == [memory EXCEPT ![c] = x]
<1>1. DOMAIN memory = Blocks
  BY DEF ClassicShape
<1>2. after = [b \in Blocks |-> IF b = c THEN x ELSE memory[b]]
  BY <1>1
<1>3. \A b \in Blocks : after[b] = IF b = c THEN x ELSE memory[b]
  BY <1>2
<1> HIDE DEF after
<1>4. after = [b \in Blocks |-> after[b]]
  BY <1>2
<1>5. \A b \in Blocks : FillsBlock(b, after[b])
  BY <1>3 DEF ClassicShape
<1> QED
  BY <1>4, <1>5 DEF ClassicShape, after

LEMMA UlChanges ==
  ASSUME NEW memory, UlShape(memory), NEW c \in DOMAIN memory, c # 3,
         NEW x, x = Blank \/ IsChunk(x)
  PROVE  /\ UlShape([memory EXCEPT ![c] = x])
         /\ [memory EXCEPT ![c] = x][3] = memory[3]
<1> DEFINE after == [memory EXCEPT ![c] = x]
<1>1. PICK bytes \in Capacities :
        /\ memory = [p \in 3..LastPage(bytes) |-> memory[p]]
        /\ memory[3] = CapabilityContainer(bytes)
        /\ \A p \in 4..LastPage(bytes) : memory[p] = Blank \/ IsChunk(memory[p])
  BY DEF UlShape
<1>2. DOMAIN memory = 3..LastPage(bytes)
  BY <1>1
<1>3. after = [p \in 3..LastPage(bytes) |-> IF p = c THEN x ELSE memory[p]]
  BY <1>2
<1>4. \A p \in 3..LastPage(bytes) : after[p] = IF p = c THEN x ELSE memory[p]
  BY <1>3
<1>5. 3 \in 3..LastPage(bytes) /\ 4..LastPage(bytes) \subseteq 3..LastPage(bytes)
  <2>1. bytes \in Nat
    BY Constants
  <2>2. bytes \div 4 \in Nat
    BY <2>1
  <2>3. LastPage(bytes) \in Nat /\ LastPage(bytes) >= 3
    BY <2>2 DEF LastPage, MIFARE_ULTRALIGHT_PAGE_SIZE
  <2> QED
    BY <2>3
<1> HIDE DEF after
<1>6. after = [p \in 3..LastPage(bytes) |-> after[p]]
  BY <1>3
<1>7. after[3] = memory[3]
  BY <1>4, <1>5
<1>8. \A p \in 4..LastPage(bytes) : after[p] = Blank \/ IsChunk(after[p])
  BY <1>1, <1>4, <1>5
<1> QED
  BY <1>1, <1>6, <1>7, <1>8 DEF UlShape, after

LEMMA FormattedFills ==
  ASSUME NEW b \in 1..LastBlock
  PROVE  FillsBlock(b, FormattedAt(b)) /\ FillsBlock(b, CleanedAt(b))
<1>1. b \in Nat /\ b # 0
  BY Constants
<1>2. TrailerOf(1) = 3 /\ TrailerOf(2) = 3 /\ TrailerOf(3) = 3 /\ TrailerOf(4) = 7
  BY DEF TrailerOf, sect_to_auth
<1>3. \/ b = 1 /\ FormattedAt(b) = Mad(1)
      \/ b = 2 /\ FormattedAt(b) = Mad(2)
      \/ b = 3 /\ FormattedAt(b) = Trailer("mad")
      \/ b = 4 /\ FormattedAt(b) = EmptyNdef
      \/ b > 4 /\ FormattedAt(b) = IF b = TrailerOf(b) THEN Trailer("ndef") ELSE Blank
  BY <1>1 DEF FormattedAt
<1>4. FillsBlock(b, FormattedAt(b))
  BY <1>2, <1>3 DEF FillsBlock, Keys
<1>5. FillsBlock(b, CleanedAt(b))
  BY DEF FillsBlock, Keys, CleanedAt
<1> QED
  BY <1>4, <1>5

Operations == {"clean", "format", "write", "read"}

\* What a step of a task may be and may do to a tag
LEMMA StepIs ==
  ASSUME NEW t \in Tags, NEW op \in Operations, NEW m, op = "write" => m \in Messages,
         NEW memory, NEW e \in StepsFor(t, op, m, memory)
  PROVE  /\ e.fail \in {"abort", "remember", "skip", "end"}
         /\ e.do = "write" => op # "read"
         /\ t \in Classic /\ e.do = "write" /\ e.cell \in Blocks => FillsBlock(e.cell, e.data)
         /\ t \notin Classic /\ e.do = "write" => e.cell # 3 /\ (e.data = Blank \/ IsChunk(e.data))
<1>1. CASE t \in Classic /\ op = "clean"
  <2>1. e \in CleanSteps
    BY <1>1 DEF StepsFor
  <2> QED
    BY <1>1, <2>1, CleanStepIs, FormattedFills
<1>2. CASE t \in Classic /\ op = "format"
  <2>1. e \in FormatSteps
    BY <1>2 DEF StepsFor
  <2> QED
    BY <1>2, <2>1, FormatStepIs, FormattedFills
<1>3. \A i : \A n : i \in 1..n /\ m \in Messages => IsChunk(Chunk(m, i)) \/ n \notin Nat
  BY DEF IsChunk, Chunk
<1>4. CASE t \in Classic /\ op = "write"
  <2>1. e \in WriteSteps(m)
    BY <1>4 DEF StepsFor
  <2>2. m \in Messages /\ BlocksFor(m) \in Nat
    BY <1>4, Constants, CellsNat
  <2>3. \A i \in 1..BlocksFor(m) : FillsBlock(DataBlock(i), Chunk(m, i))
    <3> SUFFICES ASSUME NEW i \in 1..BlocksFor(m)
                 PROVE  FillsBlock(DataBlock(i), Chunk(m, i))
      OBVIOUS
    <3>1. i \in Nat \ {0}
      BY <2>2
    <3>2. DataBlock(i) # TrailerOf(DataBlock(i))
      BY <3>1, DataBlockFacts
    <3> QED
      BY <1>3, <2>2, <3>2 DEF FillsBlock
  <2> QED
    BY <1>4, <2>1, <2>3, WriteStepIs
<1>5. CASE t \in Classic /\ op = "read"
  <2>1. e \in ReadSteps(Announced(memory))
    BY <1>5 DEF StepsFor
  <2> QED
    BY <1>5, <2>1, ReadStepIs
<1>6. CASE t \notin Classic /\ op \in {"clean", "format"}
  <2>1. e \in UlCleanSteps(memory)
    BY <1>6 DEF StepsFor
  <2>2. 3 \notin 4..(CleanEnd(memory) - 1)
    OBVIOUS
  <2> QED
    BY <1>6, <2>1, <2>2, UlCleanStepIs
<1>7. CASE t \notin Classic /\ op = "write"
  <2>1. e \in UlWriteSteps(m)
    BY <1>7 DEF StepsFor
  <2>2. m \in Messages /\ PagesFor(m) \in Nat
    BY <1>7, Constants, CellsNat
  <2>3. \A i \in 1..PagesFor(m) : DataPage(i) # 3 /\ IsChunk(Chunk(m, i))
    <3>1. \A i \in 1..PagesFor(m) : DataPage(i) # 3
      BY <2>2 DEF DataPage, MIFARE_ULTRALIGHT_DATA_START_PAGE
    <3> QED
      BY <1>3, <2>2, <3>1
  <2> QED
    BY <1>7, <2>1, <2>3, UlWriteStepIs
<1>8. CASE t \notin Classic /\ op = "read"
  <2>1. e \in UlReadSteps(ReadsBeyond(AnnouncedBytes(memory)))
    BY <1>8 DEF StepsFor
  <2> QED
    BY <1>8, <2>1, UlReadStepIs
<1> QED
  BY <1>1, <1>2, <1>4, <1>5, <1>6, <1>7, <1>8 DEF Operations

\* The plan an operation starts with
LEMMA PlanStarts ==
  ASSUME MemInv, NEW t \in Tags, NEW op \in Operations, NEW m, op = "write" => m \in Messages
  PROVE  /\ PlanOf(t, op, m).steps \in Seq(StepsFor(t, op, m, mem[t]))
         /\ Ordered(t, op, m, PlanOf(t, op, m).steps)
         /\ PlanOf(t, op, m).status \in {"OK", "FAILED"}
<1> DEFINE P == PlanOf(t, op, m)
           good == /\ P.steps \in Seq(StepsFor(t, op, m, mem[t]))
                   /\ Ordered(t, op, m, P.steps)
                   /\ P.status \in {"OK", "FAILED"}
<1>1. CASE t \in Classic /\ op = "clean"
  <2>1. P.steps = CleanPlan /\ P.status = "OK"
    BY <1>1 DEF PlanOf
  <2>2. StepsFor(t, op, m, mem[t]) = CleanSteps
    BY <1>1 DEF StepsFor
  <2> QED
    BY <1>1, <2>1, <2>2, CleanPlanIs DEF Ordered
<1>2. CASE t \in Classic /\ op = "format"
  <2>1. P.steps = FormatPlan /\ P.status = "OK"
    BY <1>2 DEF PlanOf
  <2>2. StepsFor(t, op, m, mem[t]) = FormatSteps
    BY <1>2 DEF StepsFor
  <2> QED
    BY <1>2, <2>1, <2>2, FormatPlanIs DEF Ordered
<1>3. CASE t \in Classic /\ op = "write"
  <2>1. P.steps = WritePlan(m) /\ P.status = "OK"
    BY <1>3 DEF PlanOf
  <2>2. StepsFor(t, op, m, mem[t]) = WriteSteps(m)
    BY <1>3 DEF StepsFor
  <2>3. m \in Nat
    BY <1>3, Constants
  <2> QED
    BY <1>3, <2>1, <2>2, <2>3, WritePlanIs DEF Ordered
<1>4. CASE t \in Classic /\ op = "read"
  <2>1. P.steps = ReadPlan(mem[t]) /\ P.status \in {"OK", "FAILED"}
    BY <1>4 DEF PlanOf
  <2>2. StepsFor(t, op, m, mem[t]) = ReadSteps(Announced(mem[t]))
    BY <1>4 DEF StepsFor
  <2>3. Announced(mem[t]) \in Nat
    BY <1>4, ClassicAnnounced DEF MemInv
  <2> QED
    BY <1>4, <2>1, <2>2, <2>3, ReadPlanIs DEF Ordered
<1>5. t \notin Classic => UlShape(mem[t])
  BY DEF MemInv, Tags
<1>6. CASE t \notin Classic /\ op \in {"clean", "format"}
  <2>1. P.steps = UlCleanPlan(mem[t]) /\ P.status = "OK"
    BY <1>6 DEF PlanOf
  <2>2. StepsFor(t, op, m, mem[t]) = UlCleanSteps(mem[t])
    BY <1>6 DEF StepsFor
  <2>3. CleanEnd(mem[t]) \in Nat
    BY <1>5, <1>6, UlShapeIs
  <2> QED
    BY <1>6, <2>1, <2>2, <2>3, UlCleanPlanIs DEF Ordered
<1>7. CASE t \notin Classic /\ op = "write"
  <2>1. P.steps \in {UlWritePlan(m), <<ReadCapacity("abort")>>} /\ P.status \in {"OK", "FAILED"}
    BY <1>7 DEF PlanOf
  <2>2. StepsFor(t, op, m, mem[t]) = UlWriteSteps(m)
    BY <1>7 DEF StepsFor
  <2>3. ReadCapacity("abort") \in UlWriteSteps(m)
    BY DEF UlWriteSteps
  <2>4. <<ReadCapacity("abort")>> \in Seq(UlWriteSteps(m))
    BY <2>3, One
  <2>5. UlWritePlan(m) \in Seq(UlWriteSteps(m))
    BY <1>7, Constants, UlWritePlanIs
  <2> QED
    BY <1>7, <2>1, <2>2, <2>4, <2>5 DEF Ordered
<1>8. CASE t \notin Classic /\ op = "read"
  <2>1. P.steps = UlReadPlan(mem[t]) /\ P.status \in {"OK", "FAILED"}
    BY <1>8 DEF PlanOf
  <2>2. StepsFor(t, op, m, mem[t]) = UlReadSteps(ReadsBeyond(AnnouncedBytes(mem[t])))
    BY <1>8 DEF StepsFor
  <2>3. AnnouncedBytes(mem[t]) \in Nat
    BY <1>5, <1>8, UlAnnounced
  <2> QED
    BY <1>8, <2>1, <2>2, <2>3, UlReadPlanIs DEF Ordered
<1> QED
  BY <1>1, <1>2, <1>3, <1>4, <1>6, <1>7, <1>8 DEF Operations

-----------------------------------------------------------------------------
(* Exchanges *)

\* Where a skip goes on: everything before belongs to the same sector.
LEMMA NextSectorIs ==
  ASSUME NEW S, plan \in Seq(S), plan # << >>
  PROVE  /\ NextSector \in 2..Len(plan) + 1
         /\ \A i \in 1..Len(plan) :
              i < NextSector => sect_to_auth(plan[i].cell) = sect_to_auth(Current.cell)
         /\ NextSector <= Len(plan) =>
              sect_to_auth(plan[NextSector].cell) # sect_to_auth(Current.cell)
<1> DEFINE n == Len(plan)
           T == {i \in 1..n + 1 :
                   i \in DOMAIN plan => sect_to_auth(plan[i].cell) # sect_to_auth(Current.cell)}
<1>1. n \in Nat /\ n >= 1 /\ DOMAIN plan = 1..n
  OBVIOUS
<1>2. NextSector = Min(T)
  BY DEF NextSector
<1>3. \A i \in 1..n + 1 : i \notin T => i \in 1..n /\ sect_to_auth(plan[i].cell) = sect_to_auth(Current.cell)
  BY <1>1
<1>4. \A i \in T : i \in 1..n => sect_to_auth(plan[i].cell) # sect_to_auth(Current.cell)
  BY <1>1
<1>5. n + 1 \in T /\ T \subseteq 1..n + 1 /\ T \subseteq Nat
  BY <1>1
<1>6. 1 \notin T
  BY <1>1 DEF Current
<1> HIDE DEF T, n
<1>7. \E x \in T : \A y \in T : x <= y
  BY <1>5, NatLeast
<1>8. NextSector \in T /\ \A y \in T : NextSector <= y
  BY <1>2, <1>7 DEF Min
<1> DEFINE k == NextSector
<1> HIDE DEF k
<1>9. k \in T /\ \A y \in T : k <= y
  BY <1>8 DEF k
<1>10. k \in 1..n + 1 /\ k # 1
  BY <1>5, <1>6, <1>9
<1>11. k \in 2..n + 1
  BY <1>1, <1>10
<1>12. ASSUME NEW i \in 1..n, i < k
       PROVE  sect_to_auth(plan[i].cell) = sect_to_auth(Current.cell)
  <2>1. i \in 1..n + 1 /\ ~(k <= i)
    BY <1>1, <1>11, <1>12
  <2> QED
    BY <1>3, <1>9, <2>1
<1>13. k <= n => sect_to_auth(plan[k].cell) # sect_to_auth(Current.cell)
  <2>1. k <= n => k \in 1..n
    BY <1>1, <1>10
  <2> QED
    BY <1>4, <1>9, <2>1
<1> QED
  BY <1>11, <1>12, <1>13 DEF k, n

LEMMA ReactIs ==
  ASSUME NEW S, plan \in Seq(S), plan # << >>, React,
         Current.fail \in {"abort", "remember", "skip", "end"}
  PROVE  /\ plan' \in Seq(S) /\ \E k : Suffix(plan', plan, k)
         /\ status' = status \/ status' = "FAILED"
         /\ Current.fail = "abort" => plan' = << >> /\ status' = "FAILED"
         /\ Current.fail = "remember" => plan' = Tail(plan) /\ status' = "FAILED"
         /\ Current.fail = "end" => plan' = << >> /\ status' = status
         /\ Current.fail = "skip" =>
              status' = status /\ Suffix(plan', plan, NextSector)
<1>1. CASE Current.fail = "abort"
  <2>1. plan' = << >> /\ status' = "FAILED"
    BY <1>1 DEF React, Reaction
  <2> QED
    BY <1>1, <2>1, EmptySuffix
<1>2. CASE Current.fail = "remember"
  <2>1. plan' = Tail(plan) /\ status' = "FAILED"
    BY <1>2 DEF React, Reaction
  <2>2. Tail(plan) \in Seq(S) /\ Suffix(Tail(plan), plan, 2)
    BY TailIs
  <2> QED
    BY <1>2, <2>1, <2>2
<1>3. CASE Current.fail = "end"
  <2>1. plan' = << >> /\ status' = status
    BY <1>3 DEF React, Reaction
  <2> QED
    BY <1>3, <2>1, EmptySuffix
<1>4. CASE Current.fail = "skip"
  <2>1. plan' = SubSeq(plan, NextSector, Len(plan)) /\ status' = status
    BY <1>4 DEF React, Reaction
  <2>2. NextSector \in 2..Len(plan) + 1
    BY NextSectorIs
  <2> DEFINE q == SubSeq(plan, NextSector, Len(plan))
  <2>3. q \in Seq(S) /\ Suffix(q, plan, NextSector)
    BY <2>2, SubSeqIs
  <2> HIDE DEF q
  <2>4. plan' = q
    BY <2>1 DEF q
  <2> QED
    BY <1>4, <2>1, <2>3, <2>4
<1> QED
  BY <1>1, <1>2, <1>3, <1>4

Exchange == Succeeds \/ Refused \/ Garbled \/ TakenForDone

\* The tag takes the write of the current exchange.
TakesWrite ==
  /\ Current.do = "write" /\ Understands(working, Current)
  /\ mem' = [mem EXCEPT ![working][Current.cell] = Current.data]
  /\ touched' = touched \cup {working}
  /\ written' = [written EXCEPT ![working] = NoMsg]

LEMMA EffectIs ==
  ASSUME Understands(working, Current), mem' = Effect(Current), Touch(Current)
  PROVE  TakesWrite \/ UNCHANGED <<mem, touched, written>>
BY DEF Effect, Touch, TakesWrite

LEMMA CurrentIs ==
  ASSUME TaskInv, pc = "task", plan # << >>
  PROVE  /\ working \in Tags /\ stage \in Operations
         /\ plan \in Seq(StepsFor(working, stage, attempted, mem[working]))
         /\ Current \in StepsFor(working, stage, attempted, mem[working])
         /\ Current.fail \in {"abort", "remember", "skip", "end"}
<1>1. working \in Tags /\ stage \in Operations /\ (stage = "write" => attempted \in Messages)
  BY DEF TaskInv, VarsInv, WorkInv, Operations
<1>2. plan \in Seq(StepsFor(working, stage, attempted, mem[working]))
  BY DEF TaskInv, PlanInv
<1>3. Current \in StepsFor(working, stage, attempted, mem[working])
  BY <1>2, TailIs DEF Current
<1>4. Current.fail \in {"abort", "remember", "skip", "end"}
  BY <1>1, <1>3, StepIs
<1> QED
  BY <1>1, <1>2, <1>3, <1>4

\* What every exchange leaves as it is, and what it may change
LEMMA ExchangeIs ==
  ASSUME TaskInv, Exchange
  PROVE  /\ pc = "task" /\ plan # << >>
         /\ UNCHANGED <<pc, working, stage, present, next_task, next_task_message_to_write,
                        trig_called, calls, attempted>>
         /\ plan' \in Seq(StepsFor(working, stage, attempted, mem[working]))
         /\ \E k : Suffix(plan', plan, k)
         /\ status' = status \/ status' = "FAILED"
         /\ disturbed' \in BOOLEAN /\ (disturbed => disturbed')
         /\ faults' \in 0..MaxFaults
         /\ TakesWrite \/ UNCHANGED <<mem, touched, written>>
<1> DEFINE S == StepsFor(working, stage, attempted, mem[working])
<1>1. pc = "task" /\ plan # << >>
  BY DEF Exchange, Succeeds, Refused, Garbled, TakenForDone
<1>2. plan \in Seq(S) /\ Current.fail \in {"abort", "remember", "skip", "end"}
  BY <1>1, CurrentIs
<1>3. disturbed \in BOOLEAN /\ faults \in 0..MaxFaults /\ MaxFaults \in Nat
  BY Constants DEF TaskInv, VarsInv
<1> HIDE DEF S
<1>4. Tail(plan) \in Seq(S) /\ Suffix(Tail(plan), plan, 2)
  BY <1>1, <1>2, TailIs
<1>5. React => /\ plan' \in Seq(S) /\ \E k : Suffix(plan', plan, k)
               /\ status' = status \/ status' = "FAILED"
  BY <1>1, <1>2, ReactIs
<1>6. faults > 0 => faults - 1 \in 0..MaxFaults
  BY <1>3
<1>7. CASE Succeeds
  <2>1. TakesWrite \/ UNCHANGED <<mem, touched, written>>
    BY <1>7, EffectIs DEF Succeeds
  <2> QED
    BY <1>1, <1>3, <1>4, <1>7, <2>1 DEF Succeeds, request, S
<1>8. CASE Refused
  <2>1. UNCHANGED <<mem, touched, written>>
    BY <1>8 DEF Refused, tag, history
  <2>2. disturbed' \in BOOLEAN /\ (disturbed => disturbed')
    BY <1>8 DEF Refused
  <2>3. React
    BY <1>8 DEF Refused
  <2> QED
    BY <1>1, <1>3, <1>5, <1>8, <2>1, <2>2, <2>3 DEF Refused, request, S, tag, history
<1>9. CASE Garbled
  <2>1. TakesWrite \/ UNCHANGED <<mem, touched, written>>
    BY <1>9, EffectIs DEF Garbled
  <2>2. disturbed' = TRUE /\ React /\ faults' \in 0..MaxFaults
    BY <1>6, <1>9 DEF Garbled
  <2> QED
    BY <1>1, <1>5, <1>9, <2>1, <2>2 DEF Garbled, request, S
<1>10. CASE TakenForDone
  <2>1. disturbed' = TRUE /\ faults' \in 0..MaxFaults
    BY <1>3, <1>6, <1>10 DEF TakenForDone
  <2> QED
    BY <1>1, <1>4, <1>10, <2>1 DEF TakenForDone, request, S, history
<1> QED
  BY <1>7, <1>8, <1>9, <1>10 DEF Exchange

-----------------------------------------------------------------------------
(* TaskInv *)

LEMMA TagKinds ==
  ASSUME NEW t \in Tags
  PROVE  t \in Ultralight <=> t \notin Classic
BY Constants DEF Tags

\* A write leaves other tags and other cells alone, and the tag in shape.
LEMMA WriteIs ==
  ASSUME TaskInv, pc = "task", plan # << >>, TakesWrite
  PROVE  /\ Current.cell \in DOMAIN mem[working]
         /\ mem'[working] = [mem[working] EXCEPT ![Current.cell] = Current.data]
         /\ \A t \in Tags : t # working => mem'[t] = mem[t]
         /\ MemInv'
         /\ working \notin Classic => mem'[working][3] = mem[working][3]
<1>1. working \in Tags /\ stage \in Operations /\ (stage = "write" => attempted \in Messages)
  BY CurrentIs DEF TaskInv, WorkInv
<1>2. Current \in StepsFor(working, stage, attempted, mem[working]) /\ Current.do = "write"
  BY CurrentIs DEF TakesWrite
<1> DEFINE c == Current.cell
           x == Current.data
           old == mem[working]
           new == [old EXCEPT ![c] = x]
<1>3. c \in DOMAIN old
  BY DEF TakesWrite, Understands, Accepts, UlAccepts
<1>4. DOMAIN mem = Tags /\ mem = [t \in Tags |-> mem[t]]
  BY DEF TaskInv, MemInv
<1>5. mem' = [mem EXCEPT ![working] = new]
  BY DEF TakesWrite
<1> HIDE DEF new
<1>6. mem' = [t \in Tags |-> IF t = working THEN new ELSE mem[t]]
  BY <1>4, <1>5
<1>7. mem'[working] = new /\ \A t \in Tags : t # working => mem'[t] = mem[t]
  BY <1>1, <1>6
<1>8. /\ working \in Classic => ClassicShape(new)
      /\ working \notin Classic => UlShape(new) /\ new[3] = old[3]
  <2>1. CASE working \in Classic
    <3>1. ClassicShape(old)
      BY <2>1 DEF TaskInv, MemInv
    <3>2. c \in Blocks
      BY <1>3, <3>1 DEF ClassicShape
    <3>3. FillsBlock(c, x)
      BY <1>1, <1>2, <2>1, <3>2, StepIs
    <3> QED
      BY <2>1, <3>1, <3>2, <3>3, ClassicChanges DEF new
  <2>2. CASE working \notin Classic
    <3>1. UlShape(old)
      BY <1>1, <2>2 DEF TaskInv, MemInv, Tags
    <3>2. c # 3 /\ (x = Blank \/ IsChunk(x))
      BY <1>1, <1>2, <2>2, StepIs
    <3> QED
      BY <1>3, <2>2, <3>1, <3>2, UlChanges DEF new
  <2> QED
    BY <2>1, <2>2
<1>9. MemInv'
  <2>1. (mem = [t \in Tags |-> mem[t]])'
    BY <1>6
  <2>2. \A t \in Classic : ClassicShape(mem'[t])
    BY <1>7, <1>8 DEF TaskInv, MemInv, Tags
  <2>3. \A t \in Ultralight : UlShape(mem'[t])
    <3> SUFFICES ASSUME NEW t \in Ultralight
                 PROVE  UlShape(mem'[t])
      OBVIOUS
    <3>1. t \in Tags /\ t \notin Classic
      BY TagKinds DEF Tags
    <3> QED
      BY <1>7, <1>8, <3>1 DEF TaskInv, MemInv
  <2> QED
    BY <2>1, <2>2, <2>3 DEF MemInv
<1> QED
  BY <1>3, <1>7, <1>8, <1>9 DEF new

\* Reading a tag writes nothing to it.
LEMMA ReadingWritesNot ==
  ASSUME NEW t \in Tags, NEW op \in Operations, NEW m, op = "write" => m \in Messages,
         NEW memory, NEW e \in StepsFor(t, op, m, memory), e.do = "write"
  PROVE  op # "read"
BY StepIs

\* The steps an operation may still make do not depend on what it writes.
LEMMA StepsStay ==
  ASSUME TaskInv, pc = "task", plan # << >>, TakesWrite
  PROVE  StepsFor(working, stage, attempted, mem'[working]) =
           StepsFor(working, stage, attempted, mem[working])
<1>1. working \in Tags /\ stage \in Operations /\ (stage = "write" => attempted \in Messages)
  BY CurrentIs DEF TaskInv, WorkInv
<1>2. Current \in StepsFor(working, stage, attempted, mem[working]) /\ Current.do = "write"
  BY CurrentIs DEF TakesWrite
<1>3. stage # "read"
  BY Zenon, <1>1, <1>2, ReadingWritesNot
<1>4. CASE working \in Classic
  BY <1>1, <1>3, <1>4 DEF StepsFor, Operations
<1>5. CASE working \notin Classic
  <2>1. mem'[working][3] = mem[working][3]
    BY <1>5, WriteIs
  <2>2. UlCleanSteps(mem'[working]) = UlCleanSteps(mem[working])
    BY <2>1 DEF UlCleanSteps, CleanEnd, EndOfData, Capacity
  <2> QED
    BY <1>1, <1>3, <1>5, <2>2 DEF StepsFor, Operations
<1> QED
  BY <1>4, <1>5

LEMMA TaskExchange ==
  ASSUME TaskInv, Exchange
  PROVE  TaskInv'
<1>1. /\ pc = "task" /\ plan # << >>
      /\ UNCHANGED <<pc, working, stage, present, next_task, next_task_message_to_write,
                     trig_called, calls, attempted>>
      /\ plan' \in Seq(StepsFor(working, stage, attempted, mem[working]))
      /\ \E k : Suffix(plan', plan, k)
      /\ status' = status \/ status' = "FAILED"
      /\ disturbed' \in BOOLEAN
      /\ faults' \in 0..MaxFaults
      /\ TakesWrite \/ UNCHANGED <<mem, touched, written>>
  BY ExchangeIs
<1>2. working \in Tags /\ stage \in Operations
      /\ plan \in Seq(StepsFor(working, stage, attempted, mem[working]))
  BY <1>1, CurrentIs
<1>3. TakesWrite => stage # "read"
  <2>1. /\ Current \in StepsFor(working, stage, attempted, mem[working])
        /\ stage = "write" => attempted \in Messages
    BY <1>1, CurrentIs DEF TaskInv, WorkInv
  <2>2. Current.do = "write" => stage # "read"
    BY Zenon, <1>2, <2>1, ReadingWritesNot
  <2> QED
    BY <2>2 DEF TakesWrite
<1>4. MemInv'
  <2>1. CASE TakesWrite
    BY <1>1, <2>1, WriteIs
  <2>2. CASE UNCHANGED <<mem, touched, written>>
    BY <2>2 DEF TaskInv, MemInv
  <2> QED
    BY <1>1, <2>1, <2>2
<1>5. VarsInv'
  <2>1. touched' \subseteq Tags /\ written' \in [Tags -> Messages \cup {NoMsg}]
    BY <1>1, <1>2 DEF TaskInv, VarsInv, TakesWrite
  <2>2. calls' \in 0..MaxCalls /\ trig_called' \in [Tags -> BOOLEAN]
    BY <1>1 DEF TaskInv, VarsInv
  <2> QED
    BY <1>1, <2>1, <2>2 DEF TaskInv, VarsInv
<1>6. WorkInv'
  BY <1>1 DEF TaskInv, WorkInv
<1>7. PlanInv'
  <2>1. StepsFor(working', stage', attempted', mem'[working']) =
          StepsFor(working, stage, attempted, mem[working])
    <3>1. CASE TakesWrite
      BY <1>1, <3>1, StepsStay
    <3>2. CASE UNCHANGED <<mem, touched, written>>
      BY <1>1, <3>2
    <3> QED
      BY <1>1, <3>1, <3>2
  <2>2. plan' \in Seq(StepsFor(working', stage', attempted', mem'[working']))
    BY <1>1, <2>1
  <2>3. \A R : InOrder(plan, R) => InOrder(plan', R)
    BY <1>1, <1>2, SuffixIs
  <2>4. Ordered(working', stage', attempted', plan')
    BY <1>1, <2>3 DEF TaskInv, PlanInv, Ordered
  <2> QED
    BY <2>2, <2>4 DEF PlanInv
<1>8. OneTagInv'
  <2>1. CASE TakesWrite
    <3>1. stage # "read" /\ touched \subseteq {working} /\ touched' = touched \cup {working}
      BY <1>1, <1>3, <2>1 DEF TaskInv, OneTagInv, TakesWrite
    <3> QED
      BY <1>1, <3>1 DEF OneTagInv
  <2>2. CASE UNCHANGED <<mem, touched, written>>
    BY <1>1, <2>2 DEF TaskInv, OneTagInv
  <2> QED
    BY <1>1, <2>1, <2>2
<1> QED
  BY <1>4, <1>5, <1>6, <1>7, <1>8 DEF TaskInv

\* An operation begins.
LEMMA BeginIs ==
  ASSUME MemInv, NEW t \in Tags, NEW op \in Operations, NEW m, op = "write" => m \in Messages,
         Begin(t, op, m), mem' = mem
  PROVE  /\ pc' = "task" /\ working' = t /\ stage' = op /\ disturbed' = FALSE
         /\ plan' = PlanOf(t, op, m).steps /\ status' = PlanOf(t, op, m).status
         /\ status' \in {"OK", "FAILED"}
         /\ plan' \in Seq(StepsFor(working', stage', m, mem'[working']))
         /\ Ordered(working', stage', m, plan')
<1>1. /\ pc' = "task" /\ working' = t /\ stage' = op /\ disturbed' = FALSE
      /\ plan' = PlanOf(t, op, m).steps /\ status' = PlanOf(t, op, m).status
  BY DEF Begin
<1> QED
  BY <1>1, PlanStarts

LEMMA FirstOperationIs ==
  ASSUME next_task \in Tasks
  PROVE  /\ FirstOperation \in {"clean", "format", "read"}
         /\ FirstOperation = "read" <=> next_task = "EP_READ"
         /\ next_task = "EP_WRITE" => FirstOperation = "format"
BY DEF FirstOperation, Tasks

LEMMA TaskActivated ==
  ASSUME TaskInv, Activated
  PROVE  TaskInv'
<1>1. /\ pc = "loop" /\ present \in Tags /\ ~NothingToDo
      /\ Begin(present, FirstOperation, next_task_message_to_write)
      /\ UNCHANGED <<mem, present, faults, next_task, next_task_message_to_write,
                     trig_called, calls, touched, attempted, written>>
  BY DEF Activated, Waiting, TaskInv, VarsInv, tag, request, history
<1>2. /\ FirstOperation \in Operations /\ FirstOperation # "write"
      /\ FirstOperation # "read" => next_task # "EP_READ"
      /\ FirstOperation # "none"
  BY FirstOperationIs DEF TaskInv, VarsInv, Operations
<1>3. /\ pc' = "task" /\ working' = present /\ stage' = FirstOperation /\ disturbed' = FALSE
      /\ status' \in {"OK", "FAILED"}
      /\ plan' \in Seq(StepsFor(working', stage', next_task_message_to_write, mem'[working']))
      /\ Ordered(working', stage', next_task_message_to_write, plan')
  BY <1>1, <1>2, BeginIs DEF TaskInv
<1>4. MemInv'
  BY <1>1 DEF TaskInv, MemInv
<1>5. VarsInv'
  BY <1>1, <1>2, <1>3 DEF TaskInv, VarsInv, Operations
<1>6. WorkInv'
  BY <1>1, <1>2, <1>3 DEF TaskInv, VarsInv, WorkInv, NothingToDo
<1>7. PlanInv'
  <2>1. StepsFor(working', stage', next_task_message_to_write, mem'[working']) =
          StepsFor(working', stage', attempted', mem'[working'])
    BY <1>2, <1>3 DEF StepsFor, Operations
  <2>2. Ordered(working', stage', attempted', plan')
    BY <1>2, <1>3 DEF Ordered
  <2> QED
    BY <1>3, <2>1, <2>2 DEF PlanInv
<1>8. OneTagInv'
  BY <1>1, <1>2, <1>3 DEF TaskInv, OneTagInv
<1> QED
  BY <1>4, <1>5, <1>6, <1>7, <1>8 DEF TaskInv

LEMMA TaskFormatted ==
  ASSUME TaskInv, FormattedForWriting
  PROVE  TaskInv'
<1>1. /\ pc = "task" /\ stage = "format" /\ working \in Tags
      /\ next_task = "EP_WRITE" /\ next_task_message_to_write \in Messages
      /\ Begin(working, "write", next_task_message_to_write)
      /\ attempted' = next_task_message_to_write
      /\ UNCHANGED <<mem, present, faults, next_task, next_task_message_to_write,
                     trig_called, calls, touched, written>>
  BY DEF FormattedForWriting, Returns, TaskInv, WorkInv, tag, request
<1>2. "write" \in Operations
  BY DEF Operations
<1>3. /\ pc' = "task" /\ working' = working /\ stage' = "write" /\ disturbed' = FALSE
      /\ status' \in {"OK", "FAILED"}
      /\ plan' \in Seq(StepsFor(working', stage', attempted', mem'[working']))
      /\ Ordered(working', stage', attempted', plan')
  BY <1>1, <1>2, BeginIs DEF TaskInv
<1>4. MemInv'
  BY <1>1 DEF TaskInv, MemInv
<1>5. VarsInv'
  BY <1>1, <1>3 DEF TaskInv, VarsInv
<1>6. WorkInv'
  BY <1>1, <1>3 DEF WorkInv
<1>7. PlanInv'
  BY <1>3 DEF PlanInv
<1>8. OneTagInv'
  BY <1>1, <1>3 DEF TaskInv, OneTagInv
<1> QED
  BY <1>4, <1>5, <1>6, <1>7, <1>8 DEF TaskInv

\* The steps that neither run an exchange nor begin an operation
LEMMA TaskOther ==
  ASSUME TaskInv,
         \/ ActivatedForNothing \/ ErasingReturns \/ FinishedWrite \/ FinishedRead
         \/ AutomationReturns \/ End \/ User \/ World \/ UNCHANGED vars
  PROVE  TaskInv'
<1>1. mem' = mem
  BY DEF ActivatedForNothing, ErasingReturns, FinishedWrite, FinishedRead, AutomationReturns,
         End, User, SetMode, SetTagWriteMessage, World, Leaves, Arrives, Expires, vars, tag
<1>2. MemInv'
  BY <1>1 DEF TaskInv, MemInv
<1> USE DEF TaskInv
<1>3. CASE ActivatedForNothing
  <2>1. /\ pc = "loop" /\ pc' = "end"
        /\ UNCHANGED <<tag, task, request, trig_called, history>>
    BY <1>3 DEF ActivatedForNothing, Waiting
  <2>2. VarsInv' /\ WorkInv' /\ PlanInv' /\ OneTagInv'
    BY <2>1 DEF VarsInv, WorkInv, PlanInv, OneTagInv, tag, task, request, history
  <2> QED
    BY <1>2, <2>2
<1>4. CASE ErasingReturns
  <2>1. /\ pc = "task" /\ pc' = "end"
        /\ UNCHANGED <<tag, task, request, trig_called, history>>
    BY <1>4 DEF ErasingReturns, Returns
  <2>2. VarsInv' /\ WorkInv' /\ PlanInv' /\ OneTagInv'
    BY <2>1 DEF VarsInv, WorkInv, PlanInv, OneTagInv, tag, task, request, history
  <2> QED
    BY <1>2, <2>2
<1>5. CASE FinishedWrite
  <2>1. /\ pc = "task" /\ stage = "write" /\ pc' = "on_finished_write"
        /\ next_task_message_to_write' = NoMsg
        /\ \/ written' = [written EXCEPT ![working] = attempted]
           \/ written' = written
        /\ UNCHANGED <<tag, task, next_task, trig_called, calls, touched, attempted>>
    BY <1>5 DEF FinishedWrite, Returns
  <2>2. VarsInv'
    BY <2>1 DEF VarsInv, tag, task
  <2>3. WorkInv' /\ PlanInv' /\ OneTagInv'
    BY <2>1 DEF WorkInv, PlanInv, OneTagInv, tag, task
  <2> QED
    BY <1>2, <2>2, <2>3
<1>6. CASE FinishedRead
  <2>1. /\ pc = "task" /\ stage = "read" /\ pc' = "on_tag"
        /\ trig_called' = [trig_called EXCEPT ![working] = TRUE]
        /\ UNCHANGED <<tag, task, request, history>>
    BY <1>6 DEF FinishedRead, Returns
  <2>2. VarsInv'
    BY <2>1 DEF VarsInv, tag, task, request, history
  <2>3. WorkInv' /\ PlanInv' /\ OneTagInv'
    BY <2>1 DEF WorkInv, PlanInv, OneTagInv, tag, task, request, history
  <2> QED
    BY <1>2, <2>2, <2>3
<1>7. CASE AutomationReturns
  <2>1. /\ pc # "loop" /\ pc # "task" /\ pc' = "end"
        /\ UNCHANGED <<tag, task, request, trig_called, history>>
    BY <1>7 DEF AutomationReturns
  <2>2. VarsInv' /\ WorkInv' /\ PlanInv' /\ OneTagInv'
    BY <2>1 DEF VarsInv, WorkInv, PlanInv, OneTagInv, tag, task, request, history
  <2> QED
    BY <1>2, <2>2
<1>8. CASE End
  <2>1. /\ pc' = "loop" /\ next_task' = "EP_READ"
        /\ working' = NoTag /\ stage' = "none" /\ status' = "OK" /\ disturbed' = FALSE
        /\ attempted' = NoMsg
        /\ UNCHANGED <<tag, next_task_message_to_write, trig_called, calls, touched, written>>
    BY <1>8 DEF End
  <2>2. VarsInv' /\ WorkInv' /\ PlanInv' /\ OneTagInv'
    BY <2>1 DEF VarsInv, WorkInv, PlanInv, OneTagInv, tag, Tasks
  <2> QED
    BY <1>2, <2>2
<1>9. CASE User
  <2>1. /\ pc \in {"loop", "on_tag", "on_finished_write"} /\ calls < MaxCalls /\ calls' = calls + 1
        /\ UNCHANGED <<pc, tag, task, trig_called, attempted, written>>
        /\ \/ /\ next_task' \in Tasks /\ touched' = {}
              /\ UNCHANGED next_task_message_to_write
           \/ /\ next_task_message_to_write' \in Messages
              /\ UNCHANGED <<next_task, touched>>
    BY <1>9 DEF User, SetMode, SetTagWriteMessage, UserCalls
  <2>2. calls' \in 0..MaxCalls
    BY <2>1, Constants DEF VarsInv
  <2>3. VarsInv'
    BY <2>1, <2>2 DEF VarsInv, tag, task
  <2>4. WorkInv' /\ PlanInv' /\ OneTagInv'
    BY <2>1 DEF WorkInv, PlanInv, OneTagInv, tag, task
  <2> QED
    BY <1>2, <2>3, <2>4
<1>10. CASE World
  <2>1. /\ UNCHANGED <<pc, mem, faults, task, request, history>>
        /\ present' \in Tags \cup {NoTag} /\ trig_called' \in [Tags -> BOOLEAN]
    BY <1>10 DEF World, Leaves, Arrives, Expires, VarsInv, tag
  <2>2. VarsInv'
    BY <2>1 DEF VarsInv, task, request, history
  <2>3. WorkInv' /\ PlanInv' /\ OneTagInv'
    BY <2>1 DEF WorkInv, PlanInv, OneTagInv, task, request, history
  <2> QED
    BY <1>2, <2>2, <2>3
<1>11. CASE UNCHANGED vars
  <2>1. VarsInv' /\ WorkInv' /\ PlanInv' /\ OneTagInv'
    BY <1>11 DEF VarsInv, WorkInv, PlanInv, OneTagInv, vars, tag, task, request, history
  <2> QED
    BY <1>2, <2>1
<1> QED
  BY <1>3, <1>4, <1>5, <1>6, <1>7, <1>8, <1>9, <1>10, <1>11

\* A tag in the state it comes in, with or without a message on it
LEMMA ClassicComes ==
  ASSUME NEW t \in Classic, NEW memory \in InitialMem(t)
  PROVE  ClassicShape(memory)
<1> DEFINE F == FactoryClassic
<1>1. F = [b \in Blocks |-> IF b = TrailerOf(b) THEN Trailer("factory") ELSE Blank]
  BY DEF FactoryClassic
<1>2. ClassicShape(F)
  <2>1. \A b \in Blocks : F[b] = IF b = TrailerOf(b) THEN Trailer("factory") ELSE Blank
    BY <1>1
  <2>2. F = [b \in Blocks |-> F[b]]
    BY <1>1
  <2> HIDE DEF F
  <2>3. \A b \in Blocks : FillsBlock(b, F[b])
    BY <2>1 DEF FillsBlock, Keys
  <2> QED
    BY <2>2, <2>3 DEF ClassicShape
<1>3. ClassicShape(ForeignClassic)
  <2>1. LastBlock \in Blocks
    BY Constants DEF Blocks
  <2>2. LastBlock = TrailerOf(LastBlock)
    <3>1. Sectors - 1 \in Nat /\ 3 \in 0..3 /\ LastBlock = 4 * (Sectors - 1) + 3
      BY Constants DEF LastBlock
    <3> QED
      BY <3>1, SectorOf
  <2>3. FillsBlock(LastBlock, Trailer("foreign"))
    BY <2>2 DEF FillsBlock, Keys
  <2> HIDE DEF F
  <2> QED
    BY <1>2, <2>1, <2>3, ClassicChanges DEF ForeignClassic, F
<1> DEFINE G == Formatted(FactoryClassic)
<1>4. ClassicShape(G)
  <2>1. DOMAIN F = Blocks
    BY <1>1
  <2>2. G = [b \in Blocks |-> IF b = 0 THEN F[0] ELSE FormattedAt(b)]
    <3>1. \A b \in Blocks : b \in Nat
      BY Constants DEF Blocks
    <3>2. \A b \in Blocks :
            (CASE b = 0 -> F[0]
               [] b \in 1..2 -> Mad(b)
               [] b = 3 -> Trailer("mad")
               [] b = 4 -> EmptyNdef
               [] b > 4 -> IF b = TrailerOf(b) THEN Trailer("ndef") ELSE Blank)
            = IF b = 0 THEN F[0] ELSE FormattedAt(b)
      <4> HIDE DEF F
      <4> QED
        BY <3>1 DEF FormattedAt
    <3> HIDE DEF F
    <3> QED
      BY <2>1, <3>2 DEF Formatted, F
  <2> HIDE DEF F, G
  <2>3. \A b \in Blocks : G[b] = IF b = 0 THEN F[0] ELSE FormattedAt(b)
    BY <2>2
  <2>4. G = [b \in Blocks |-> G[b]]
    BY <2>2
  <2>5. \A b \in Blocks : FillsBlock(b, G[b])
    <3>1. \A b \in Blocks : b # 0 => b \in 1..LastBlock
      BY Constants DEF Blocks
    <3>2. 0 \in Blocks
      BY Constants DEF Blocks
    <3>3. FillsBlock(0, F[0])
      BY <1>2, <3>2 DEF ClassicShape
    <3> QED
      BY <2>3, <3>1, <3>3, FormattedFills
  <2> QED
    BY <2>4, <2>5 DEF ClassicShape
<1>5. ASSUME NEW m \in Messages
      PROVE  ClassicShape(Holds(G, DataBlock, m, MIFARE_CLASSIC_BLOCK_SIZE))
  <2> DEFINE n == BlocksFor(m)
             piece(b) == CHOOSE i \in 1..n : DataBlock(i) = b
             H == Holds(G, DataBlock, m, MIFARE_CLASSIC_BLOCK_SIZE)
  <2>1. DOMAIN G = Blocks
    BY <1>4 DEF ClassicShape
  <2>2. H = [b \in Blocks |-> IF \E i \in 1..n : DataBlock(i) = b THEN Chunk(m, piece(b)) ELSE G[b]]
    <3> HIDE DEF G
    <3> QED
      BY <2>1 DEF Holds, BlocksFor
  <2> HIDE DEF G, H
  <2>3. \A b \in Blocks : H[b] = IF \E i \in 1..n : DataBlock(i) = b THEN Chunk(m, piece(b)) ELSE G[b]
    BY <2>2
  <2>4. H = [b \in Blocks |-> H[b]]
    BY <2>2
  <2>5. ASSUME NEW b \in Blocks
        PROVE  FillsBlock(b, H[b])
    <3>1. CASE \E i \in 1..n : DataBlock(i) = b
      <4> DEFINE i == piece(b)
      <4>1. i \in 1..n /\ DataBlock(i) = b
        BY <3>1
      <4>2. H[b] = Chunk(m, i)
        BY <2>3, <3>1
      <4> HIDE DEF i
      <4>3. n \in Nat /\ m \in Messages
        BY Constants, CellsNat
      <4>4. i \in Nat \ {0}
        BY <4>1, <4>3
      <4>5. b # TrailerOf(b)
        BY <4>1, <4>4, DataBlockFacts
      <4>6. IsChunk(Chunk(m, i))
        BY <4>4 DEF IsChunk, Chunk
      <4> QED
        BY <4>2, <4>5, <4>6 DEF FillsBlock
    <3>2. CASE ~\E i \in 1..n : DataBlock(i) = b
      BY <1>4, <2>3, <3>2 DEF ClassicShape
    <3> QED
      BY <3>1, <3>2
  <2> QED
    BY <2>4, <2>5 DEF ClassicShape, H
<1>6. InitialMem(t) =
        {FactoryClassic, ForeignClassic}
          \cup {Holds(G, DataBlock, m, MIFARE_CLASSIC_BLOCK_SIZE) : m \in Messages}
  BY DEF InitialMem
<1> HIDE DEF G
<1>7. CASE memory \in {Holds(G, DataBlock, m, MIFARE_CLASSIC_BLOCK_SIZE) : m \in Messages}
  <2>1. PICK m \in Messages : memory = Holds(G, DataBlock, m, MIFARE_CLASSIC_BLOCK_SIZE)
    BY <1>7, Zenon
  <2> QED
    BY <1>5, <2>1
<1>8. CASE memory \in {FactoryClassic, ForeignClassic}
  BY <1>2, <1>3, <1>8
<1> QED
  BY <1>6, <1>7, <1>8

LEMMA UlComes ==
  ASSUME NEW t, t \notin Classic, NEW memory \in InitialMem(t)
  PROVE  UlShape(memory)
<1> DEFINE F(bytes) == FactoryUl(bytes)
           H(bytes, m) == Holds(FactoryUl(bytes), DataPage, m, MIFARE_ULTRALIGHT_PAGE_SIZE)
<1>1. ASSUME NEW bytes \in Capacities
      PROVE  /\ DOMAIN F(bytes) = 3..LastPage(bytes)
             /\ 3 \in 3..LastPage(bytes) /\ LastPage(bytes) \in Nat
             /\ F(bytes) = [p \in 3..LastPage(bytes) |->
                              IF p = 3 THEN CapabilityContainer(bytes) ELSE Blank]
             /\ UlShape(F(bytes))
  <2> DEFINE f == F(bytes)
  <2>1. bytes \in Nat
    BY Constants
  <2>2. bytes \div 4 \in Nat
    BY <2>1
  <2>3. LastPage(bytes) \in Nat /\ LastPage(bytes) >= 3
    BY <2>2 DEF LastPage, MIFARE_ULTRALIGHT_PAGE_SIZE
  <2>4. 3 \in 3..LastPage(bytes) /\ \A p \in 4..LastPage(bytes) : p \in 3..LastPage(bytes) /\ p # 3
    BY <2>3
  <2>5. f = [p \in 3..LastPage(bytes) |-> IF p = 3 THEN CapabilityContainer(bytes) ELSE Blank]
    BY DEF FactoryUl, LastPage
  <2> HIDE DEF f
  <2>6. \A p \in 3..LastPage(bytes) : f[p] = IF p = 3 THEN CapabilityContainer(bytes) ELSE Blank
    BY <2>5
  <2>7. f = [p \in 3..LastPage(bytes) |-> f[p]] /\ DOMAIN f = 3..LastPage(bytes)
    BY <2>5
  <2>8. UlShape(f)
    BY <2>4, <2>6, <2>7 DEF UlShape
  <2> QED
    BY <2>3, <2>4, <2>5, <2>7, <2>8 DEF f
<1>2. ASSUME NEW bytes \in Capacities, NEW m \in Messages
      PROVE  UlShape(H(bytes, m))
  <2> DEFINE n == PagesFor(m)
             piece(b) == CHOOSE i \in 1..n : DataPage(i) = b
             f == F(bytes)
             h == H(bytes, m)
  <2>1. DOMAIN f = 3..LastPage(bytes)
    BY <1>1
  <2>2. h = [b \in 3..LastPage(bytes) |->
               IF \E i \in 1..n : DataPage(i) = b THEN Chunk(m, piece(b)) ELSE f[b]]
    <3> HIDE DEF F
    <3> QED
      BY <2>1 DEF Holds, PagesFor, F
  <2>3. \A b \in 3..LastPage(bytes) : f[b] = IF b = 3 THEN CapabilityContainer(bytes) ELSE Blank
    BY <1>1
  <2> HIDE DEF f, h
  <2>4. \A b \in 3..LastPage(bytes) :
          h[b] = IF \E i \in 1..n : DataPage(i) = b THEN Chunk(m, piece(b)) ELSE f[b]
    BY <2>2
  <2>5. h = [b \in 3..LastPage(bytes) |-> h[b]]
    BY <2>2
  <2>6. n \in Nat
    BY Constants, CellsNat
  <2>7. \A i \in 1..n : DataPage(i) # 3
    BY <2>6 DEF DataPage, MIFARE_ULTRALIGHT_DATA_START_PAGE
  <2>8. h[3] = CapabilityContainer(bytes)
    BY <1>1, <2>3, <2>4, <2>7
  <2>9. ASSUME NEW b \in 4..LastPage(bytes)
        PROVE  h[b] = Blank \/ IsChunk(h[b])
    <3>1. b \in 3..LastPage(bytes) /\ b # 3
      BY <1>1
    <3>2. CASE \E i \in 1..n : DataPage(i) = b
      <4> DEFINE i == piece(b)
      <4>1. i \in 1..n
        BY <3>2
      <4>2. h[b] = Chunk(m, i)
        BY <2>4, <3>1, <3>2
      <4> HIDE DEF i
      <4>3. IsChunk(Chunk(m, i))
        BY <2>6, <4>1 DEF IsChunk, Chunk
      <4> QED
        BY <4>2, <4>3
    <3>3. CASE ~\E i \in 1..n : DataPage(i) = b
      BY <2>3, <2>4, <3>1, <3>3
    <3> QED
      BY <3>2, <3>3
  <2> QED
    BY <2>5, <2>8, <2>9 DEF UlShape, h
<1>3. InitialMem(t) =
        UNION {{FactoryUl(bytes)}
                 \cup {Holds(FactoryUl(bytes), DataPage, m, MIFARE_ULTRALIGHT_PAGE_SIZE) :
                         m \in {m \in Messages : Fits(FactoryUl(bytes), m)}} :
               bytes \in Capacities}
  BY DEF InitialMem
<1>4. PICK bytes \in Capacities :
        \/ memory = FactoryUl(bytes)
        \/ memory \in {Holds(FactoryUl(bytes), DataPage, m, MIFARE_ULTRALIGHT_PAGE_SIZE) :
                         m \in {m \in Messages : Fits(FactoryUl(bytes), m)}}
  BY <1>3, Zenon
<1>5. CASE memory = FactoryUl(bytes)
  BY <1>1, <1>5
<1>6. CASE memory \in {Holds(FactoryUl(bytes), DataPage, m, MIFARE_ULTRALIGHT_PAGE_SIZE) :
                         m \in {m \in Messages : Fits(FactoryUl(bytes), m)}}
  <2>1. PICK m \in {m \in Messages : Fits(FactoryUl(bytes), m)} : memory = H(bytes, m)
    BY <1>6, Zenon
  <2> HIDE DEF H
  <2> QED
    BY <1>2, <2>1
<1> QED
  BY <1>4, <1>5, <1>6

LEMMA TaskInit ==
  Init => TaskInv
<1> SUFFICES ASSUME Init
             PROVE  TaskInv
  OBVIOUS
<1>1. MemInv
  <2>1. mem \in [Tags -> UNION {InitialMem(t) : t \in Tags}]
    BY DEF Init
  <2>2. \A t \in Tags : mem[t] \in InitialMem(t)
    BY DEF Init
  <2>3. mem = [t \in Tags |-> mem[t]]
    BY <2>1
  <2>4. \A t \in Classic : ClassicShape(mem[t])
    BY <2>2, ClassicComes DEF Tags
  <2>5. \A t \in Ultralight : UlShape(mem[t])
    <3> SUFFICES ASSUME NEW t \in Ultralight
                 PROVE  UlShape(mem[t])
      OBVIOUS
    <3>1. t \in Tags /\ t \notin Classic
      BY TagKinds DEF Tags
    <3> QED
      BY <2>2, <3>1, UlComes
  <2> QED
    BY <2>3, <2>4, <2>5 DEF MemInv
<1>2. VarsInv
  <2>1. /\ pc = "loop" /\ next_task = "EP_READ" /\ next_task_message_to_write = NoMsg
        /\ present = NoTag /\ working = NoTag /\ stage = "none"
        /\ status = "OK" /\ disturbed = FALSE /\ touched = {} /\ attempted = NoMsg
        /\ faults = MaxFaults /\ calls = 0
    BY DEF Init
  <2>2. trig_called \in [Tags -> BOOLEAN] /\ written \in [Tags -> Messages \cup {NoMsg}]
    BY DEF Init
  <2>3. faults \in 0..MaxFaults /\ calls \in 0..MaxCalls
    BY <2>1, Constants
  <2> QED
    BY <2>1, <2>2, <2>3 DEF VarsInv, Tasks
<1>3. WorkInv /\ PlanInv /\ OneTagInv
  BY DEF Init, WorkInv, PlanInv, OneTagInv
<1> QED
  BY <1>1, <1>2, <1>3 DEF TaskInv

LEMMA TaskStep ==
  TaskInv /\ [Next]_vars => TaskInv'
<1> SUFFICES ASSUME TaskInv, [Next]_vars
             PROVE  TaskInv'
  OBVIOUS
<1>1. CASE Exchange
  BY <1>1, TaskExchange
<1>2. CASE Activated
  BY <1>2, TaskActivated
<1>3. CASE FormattedForWriting
  BY <1>3, TaskFormatted
<1>4. CASE \/ ActivatedForNothing \/ ErasingReturns \/ FinishedWrite \/ FinishedRead
           \/ AutomationReturns \/ End \/ User \/ World \/ UNCHANGED vars
  BY <1>4, TaskOther
<1> QED
  BY <1>1, <1>2, <1>3, <1>4 DEF Next, Task, Exchange

\* Tags keep their shape, the variables their types, and the plan of the
\* operation that runs consists of steps of that operation, in their order;
\* only the tag of the task was written to since it was asked for.
THEOREM TaskInvariant ==
  Spec => []TaskInv
<1>1. Init => TaskInv
  BY TaskInit
<1>2. TaskInv /\ [Next]_vars => TaskInv'
  BY TaskStep
<1> QED
  BY <1>1, <1>2, PTL DEF Spec

-----------------------------------------------------------------------------
(* What follows from TaskInv *)

\* Every variable keeps its type: in particular no operation puts data where a
\* Classic tag keeps its keys, or keys where it keeps data.
THEOREM TypeCorrect ==
  Spec => []TypeOK
<1>1. TaskInv => TypeOK
  <2> SUFFICES ASSUME TaskInv
               PROVE  TypeOK
    OBVIOUS
  <2>1. ASSUME NEW t \in Tags, NEW c \in DOMAIN mem[t]
        PROVE  mem[t][c][1] \in IF IsTrailer(t, c) THEN {"factory", "mad", "ndef", "foreign"}
                                ELSE {"blank", "empty", "mad", "chunk", "capacity"}
    <3> DEFINE x == mem[t][c]
    <3>1. \A y : IsChunk(y) => y[1] = "chunk"
      BY DEF IsChunk, Chunk
    <3>2. CASE t \in Classic
      <4>1. c \in Blocks /\ FillsBlock(c, x)
        BY <3>2 DEF TaskInv, MemInv, ClassicShape
      <4> HIDE DEF x
      <4>2. CASE c = TrailerOf(c)
        <5>1. x \in Keys
          BY <4>1, <4>2 DEF FillsBlock
        <5>2. x[1] \in {"factory", "mad", "ndef", "foreign"}
          BY <5>1 DEF Keys, Trailer, Content
        <5> QED
          BY <3>2, <4>2, <5>2 DEF IsTrailer, x
      <4>3. CASE c # TrailerOf(c)
        <5>1. x \in {Blank, EmptyNdef, Mad(1), Mad(2)} \/ IsChunk(x)
          BY <4>1, <4>3 DEF FillsBlock
        <5>2. x[1] \in {"blank", "empty", "mad", "chunk"}
          BY <3>1, <5>1 DEF Blank, EmptyNdef, Mad, Content
        <5> QED
          BY <4>3, <5>2 DEF IsTrailer, x
      <4> QED
        BY <4>2, <4>3
    <3>3. CASE t \notin Classic
      <4>1. UlShape(mem[t])
        BY <3>3 DEF TaskInv, MemInv, Tags
      <4>2. PICK last \in Nat :
              /\ DOMAIN mem[t] = 3..last
              /\ \A p \in 4..last : mem[t][p] = Blank \/ IsChunk(mem[t][p])
              /\ mem[t][3][1] = "capacity"
        BY <4>1, UlShapeIs
      <4>3. c = 3 \/ c \in 4..last
        BY <4>2
      <4>4. x[1] \in {"blank", "chunk", "capacity"}
        BY <3>1, <4>2, <4>3 DEF Blank, Content
      <4> QED
        BY <3>3, <4>4 DEF IsTrailer
    <3> QED
      BY <3>2, <3>3
  <2>2. VarsInv
    BY DEF TaskInv
  <2> QED
    BY <2>1, <2>2 DEF VarsInv, TypeOK
<1> QED
  BY <1>1, TaskInvariant, PTL

\* A request to clean, format or write changes one tag at most.
THEOREM OneTagPerRequestCorrect ==
  Spec => []OneTagPerRequest
<1>1. TaskInv => OneTagPerRequest
  <2> SUFFICES ASSUME TaskInv
               PROVE  OneTagPerRequest
    OBVIOUS
  <2>1. \A s, t \in touched : s = t
    BY DEF TaskInv, OneTagInv
  <2>2. CASE touched = {}
    BY <2>2, FS_EmptySet DEF OneTagPerRequest
  <2>3. CASE touched # {}
    <3>1. PICK t : t \in touched
      BY <2>3
    <3>2. touched = {t}
      BY <2>1, <3>1
    <3>3. Cardinality({t}) = 1
      BY FS_Singleton
    <3> QED
      BY <3>2, <3>3 DEF OneTagPerRequest
  <2> QED
    BY <2>2, <2>3
<1> QED
  BY <1>1, TaskInvariant, PTL

\* A message is dropped only after the driver tried to write it.
THEOREM DroppedOnlyWrittenCorrect ==
  Spec => DroppedOnlyWritten
<1> DEFINE Kept == next_task_message_to_write' = NoMsg /\ next_task_message_to_write # NoMsg
                     => next_task_message_to_write = attempted
<1>1. TaskInv /\ [Next]_vars => [Kept]_vars
  <2> SUFFICES ASSUME TaskInv, Next, ~UNCHANGED next_task_message_to_write,
                      next_task_message_to_write' = NoMsg
               PROVE  next_task_message_to_write = attempted
    BY DEF vars, request
  <2>1. CASE FinishedWrite
    BY <2>1 DEF FinishedWrite, Returns, TaskInv, WorkInv
  <2>2. CASE User
    BY <2>2, Constants DEF User, SetMode, SetTagWriteMessage
  <2>3. CASE Exchange
    BY <2>3, ExchangeIs
  <2>4. CASE World
    BY <2>4 DEF World, Leaves, Arrives, Expires, request
  <2>5. CASE \/ Activated \/ ActivatedForNothing \/ ErasingReturns \/ FormattedForWriting
             \/ FinishedRead \/ AutomationReturns \/ End
    BY <2>5 DEF Activated, ActivatedForNothing, ErasingReturns, FormattedForWriting,
                FinishedRead, AutomationReturns, End, request
  <2> QED
    BY <2>1, <2>2, <2>3, <2>4, <2>5 DEF Next, Task, Exchange
<1>2. Spec => [][Kept]_vars
  BY <1>1, TaskInvariant, PTL DEF Spec
<1> QED
  BY <1>2 DEF DroppedOnlyWritten

\* The driver waits in write mode only with a message to write.
THEOREM WriteModeHasMessageCorrect ==
  Spec => []WriteModeHasMessage
<1>1. Init => WriteModeHasMessage
  BY DEF Init, WriteModeHasMessage
<1>2. TaskInv /\ WriteModeHasMessage /\ [Next]_vars => WriteModeHasMessage'
  <2> SUFFICES ASSUME TaskInv, WriteModeHasMessage, [Next]_vars,
                      pc' = "loop", next_task' = "EP_WRITE"
               PROVE  next_task_message_to_write' # NoMsg
    BY DEF WriteModeHasMessage
  <2>1. CASE User
    BY <2>1, Constants DEF User, SetMode, SetTagWriteMessage, WriteModeHasMessage
  <2>2. CASE World \/ UNCHANGED vars
    BY <2>2 DEF World, Leaves, Arrives, Expires, vars, request, WriteModeHasMessage
  <2>3. CASE Exchange
    BY <2>3, ExchangeIs
  <2>4. CASE \/ Activated \/ ActivatedForNothing \/ ErasingReturns \/ FormattedForWriting
             \/ FinishedWrite \/ FinishedRead \/ AutomationReturns \/ End
    BY <2>4 DEF Activated, ActivatedForNothing, ErasingReturns, FormattedForWriting, Begin,
                FinishedWrite, FinishedRead, AutomationReturns, End
  <2> QED
    BY <2>1, <2>2, <2>3, <2>4 DEF Next, Task, Exchange
<1> QED
  BY <1>1, <1>2, TaskInvariant, PTL DEF Spec

-----------------------------------------------------------------------------
(* Erasing *)

LEMMA ClassicDomain ==
  ASSUME TaskInv, NEW t \in Classic
  PROVE  /\ DOMAIN mem[t] = Blocks
         /\ \A b \in 1..LastBlock : b \in Blocks
         /\ \A b \in Blocks : b \in Nat /\ (b = 0 \/ b \in 1..LastBlock)
<1>1. ClassicShape(mem[t])
  BY DEF TaskInv, MemInv
<1>2. DOMAIN mem[t] = Blocks
  BY <1>1 DEF ClassicShape
<1> QED
  BY <1>2, Constants DEF Blocks


\* An exchange that succeeds does what was planned, and undoes nothing.
LEMMA DoneAfter ==
  ASSUME TaskInv, Succeeds, NEW c, NEW x, c \in DOMAIN mem[working], DoneOrPlanned(c, x),
         Current.do = "write" /\ Current.cell = c => Current.data = x
  PROVE  DoneOrPlanned(c, x)'
<1>1. pc = "task" /\ plan # << >> /\ plan' = Tail(plan) /\ UNCHANGED working
  BY DEF Succeeds
<1>2. working \in Tags /\ plan \in Seq(StepsFor(working, stage, attempted, mem[working]))
  BY <1>1, CurrentIs
<1>3. \/ TakesWrite
      \/ Current.do # "write" /\ mem' = mem
  BY DEF Succeeds, Effect, Touch, TakesWrite
<1>4. Current.do = "write" /\ Current.cell = c => mem'[working][c] = x
  <2> SUFFICES ASSUME Current.do = "write", Current.cell = c
               PROVE  mem'[working][c] = x
    OBVIOUS
  <2>1. mem'[working] = [mem[working] EXCEPT ![c] = Current.data]
    BY <1>1, <1>3, WriteIs
  <2> QED
    BY <2>1
<1>5. ~(Current.do = "write" /\ Current.cell = c) => mem'[working][c] = mem[working][c]
  <2>1. CASE TakesWrite
    <3>1. mem'[working] = [mem[working] EXCEPT ![Current.cell] = Current.data]
      BY <1>1, <2>1, WriteIs
    <3> QED
      BY <2>1, <3>1 DEF TakesWrite
  <2> QED
    BY <1>3, <2>1
<1>6. Writes(plan, c, x) => \/ Current.do = "write" /\ Current.cell = c
                            \/ Writes(plan', c, x)
  BY <1>1, <1>2, TailIs DEF Current
<1> QED
  BY <1>1, <1>4, <1>5, <1>6 DEF DoneOrPlanned

\* With the tag still there, only a foreign key makes it refuse an exchange of
\* a cleaning or formatting task.
LEMMA RefusedIs ==
  ASSUME TaskInv, Refused, ~disturbed', stage \in {"clean", "format"}
  PROVE  /\ working \in Classic /\ Current.do = "auth"
         /\ Current.cell \in Blocks
         /\ mem[working][TrailerOf(Current.cell)] = Trailer("foreign")
<1>1. pc = "task" /\ plan # << >> /\ ~Understands(working, Current)
  BY DEF Refused
<1>2. working \in Tags /\ Current \in StepsFor(working, stage, attempted, mem[working])
  BY <1>1, CurrentIs
<1>3. CASE working \in Classic
  <2>1. ClassicShape(mem[working])
    BY <1>3 DEF TaskInv, MemInv
  <2>2. DOMAIN mem[working] = Blocks
    BY <2>1 DEF ClassicShape
  <2>3. /\ Current.cell \in Blocks
        /\ Current.do = "write" \/ (Current.do = "auth" /\ Current.data = Content("default B"))
    <3>0. \A b : b \in 1..LastBlock \/ b \in 0..LastBlock => b \in Blocks
      BY Constants DEF Blocks
    <3>1. CASE stage = "clean"
      <4>1. Current \in CleanSteps
        BY <1>2, <1>3, <3>1 DEF StepsFor
      <4> QED
        BY <3>0, <4>1, CleanStepIs
    <3>2. CASE stage = "format"
      <4>1. Current \in FormatSteps
        BY <1>2, <1>3, <3>2 DEF StepsFor
      <4> QED
        BY <3>0, <4>1, FormatStepIs
    <3> QED
      BY <3>1, <3>2
  <2>4. ~Accepts(mem[working], Current)
    BY <1>1, <1>3 DEF Understands
  <2>5. Current.do = "auth" /\ ~HasKey(mem[working][TrailerOf(Current.cell)], Current.data[1])
    BY <2>2, <2>3, <2>4 DEF Accepts
  <2>6. Current.data[1] = "default B"
    <3>1. Content("default B")[1] = "default B"
      BY DEF Content
    <3>2. Current.data = Content("default B")
      BY <2>3, <2>5
    <3> QED
      BY <3>1, <3>2
  <2>7. mem[working][TrailerOf(Current.cell)] \in Keys
    <3> DEFINE b == TrailerOf(Current.cell)
    <3>1. b \in Blocks /\ TrailerOf(b) = b
      BY <2>3, TrailerInBlocks
    <3> HIDE DEF b
    <3>2. mem[working][b] \in Keys
      BY <2>1, <3>1 DEF ClassicShape, FillsBlock
    <3> QED
      BY <3>2 DEF b
  <2> QED
    BY <1>3, <2>3, <2>5, <2>6, <2>7 DEF HasKey, Keys
<1>4. CASE working \notin Classic
  <2>1. UlShape(mem[working])
    BY <1>2, <1>4 DEF TaskInv, MemInv, Tags
  <2>2. Current \in UlCleanSteps(mem[working])
    BY <1>2, <1>4 DEF StepsFor
  <2>3. PICK last \in Nat :
          /\ last >= 4 /\ DOMAIN mem[working] = 3..last
          /\ CleanEnd(mem[working]) \in Nat /\ CleanEnd(mem[working]) <= last + 1
    BY <2>1, UlShapeIs
  <2>4. Current.cell = 3 \/ Current.cell \in 4..(CleanEnd(mem[working]) - 1)
    BY <2>2, UlCleanStepIs
  <2>5. Current.cell \in DOMAIN mem[working]
    BY <2>3, <2>4
  <2> QED
    BY <1>1, <1>4, <2>5 DEF Understands, UlAccepts
<1> QED
  BY <1>3, <1>4

LEMMA FormatExchange ==
  ASSUME TaskInv, FormatInv, Exchange
  PROVE  FormatInv'
<1> SUFFICES ASSUME Running("format")', working' \in Classic, status' = "OK",
                    NEW b \in 1..LastBlock
             PROVE  DoneOrPlanned(b, FormattedAt(b))'
  BY DEF FormatInv
<1>1. /\ pc = "task" /\ plan # << >> /\ stage = "format" /\ working \in Classic
      /\ UNCHANGED working
  BY ExchangeIs DEF Running
<1>2. plan \in Seq(FormatSteps) /\ Current \in FormatSteps
  BY <1>1, CurrentIs DEF StepsFor
<1>3. React => FALSE
  <2>1. Current.fail \in {"abort", "remember"}
    BY <1>2, FormatStepIs
  <2> QED
    BY <1>1, <1>2, <2>1, ReactIs
<1>4. ~TakenForDone
  BY <1>1, TagKinds DEF TakenForDone, Tags
<1>5. Succeeds
  BY <1>3, <1>4 DEF Exchange, Refused, Garbled
<1>6. DoneOrPlanned(b, FormattedAt(b))
  BY <1>1, <1>5 DEF FormatInv, Running, Succeeds
<1>7. b \in DOMAIN mem[working]
  BY <1>1, ClassicDomain
<1>8. Current.do = "write" /\ Current.cell = b => Current.data = FormattedAt(b)
  BY <1>2, FormatStepIs
<1> QED
  BY <1>5, <1>6, <1>7, <1>8, DoneAfter

LEMMA SameSector ==
  ASSUME NEW b \in Blocks
  PROVE  sect_to_auth(TrailerOf(b)) = sect_to_auth(b) /\ sect_to_auth(b) \in Nat
<1>1. b \in 0..LastBlock /\ Sectors \in Nat
  BY Constants DEF Blocks
<1>2. PICK s \in 0..Sectors - 1 : \E i \in 0..3 : b = 4 * s + i
  BY <1>1, BlockInSector
<1>3. PICK i \in 0..3 : b = 4 * s + i
  BY <1>2
<1>4. s \in Nat /\ 3 \in 0..3
  BY <1>1
<1>5. sect_to_auth(4 * s + i) = s /\ TrailerOf(4 * s + i) = 4 * s + 3 /\ sect_to_auth(4 * s + 3) = s
  BY <1>4, SectorOf
<1> QED
  BY <1>3, <1>4, <1>5

LEMMA CleanExchange ==
  ASSUME TaskInv, CleanInv, Exchange
  PROVE  CleanInv'
<1> SUFFICES ASSUME Running("clean")', working' \in Classic, status' = "OK", ~disturbed',
                    NEW b \in 1..LastBlock
             PROVE  (DoneOrPlanned(b, CleanedAt(b)) \/ PassedOver(b))'
  BY DEF CleanInv
<1>1. /\ pc = "task" /\ plan # << >> /\ stage = "clean" /\ working \in Classic /\ ~disturbed
      /\ UNCHANGED working /\ (status' = status \/ status' = "FAILED")
  BY ExchangeIs DEF Running
<1>2. /\ plan \in Seq(CleanSteps) /\ Current \in CleanSteps /\ InOrder(plan, BySector)
  BY <1>1, CurrentIs DEF StepsFor, TaskInv, PlanInv, Ordered
<1>3. DoneOrPlanned(b, CleanedAt(b)) \/ PassedOver(b)
  BY <1>1 DEF CleanInv, Running
<1>4. b \in Blocks /\ DOMAIN mem[working] = Blocks
  BY <1>1, ClassicDomain
<1>5. plan[1] = Current /\ 1 \in 1..Len(plan) /\ Len(plan) \in Nat
  BY <1>1, <1>2 DEF Current
<1>6. \A i \in 1..Len(plan') : \E j \in 1..Len(plan) : plan'[i] = plan[j]
  <2>1. PICK k : Suffix(plan', plan, k)
    BY ExchangeIs
  <2>2. \A i \in 1..Len(plan') : i + k - 1 \in 1..Len(plan) /\ plan'[i] = plan[i + k - 1]
    BY <1>5, <2>1 DEF Suffix
  <2> QED
    BY <2>2
<1>7. CASE Succeeds
  <2>1. CASE DoneOrPlanned(b, CleanedAt(b))
    <3>1. Current.do = "write" /\ Current.cell = b => Current.data = CleanedAt(b)
      BY <1>2, CleanStepIs
    <3> QED
      BY <1>4, <1>7, <2>1, <3>1, DoneAfter
  <2>2. CASE PassedOver(b)
    <3>1. sect_to_auth(Current.cell) # sect_to_auth(b)
      BY <1>5, <2>2 DEF PassedOver
    <3>2. Current.cell # TrailerOf(b)
      BY <1>4, <3>1, SameSector
    <3>3. mem'[working][TrailerOf(b)] = mem[working][TrailerOf(b)]
      <4>1. CASE TakesWrite
        <5>1. mem'[working] = [mem[working] EXCEPT ![Current.cell] = Current.data]
          BY <1>1, <4>1, WriteIs
        <5>2. TrailerOf(b) \in DOMAIN mem[working]
          BY <1>4, TrailerInBlocks
        <5> QED
          BY <3>2, <5>1, <5>2
      <4> QED
        BY <4>1, ExchangeIs
    <3>4. \A i \in 1..Len(plan') : sect_to_auth(plan'[i].cell) # sect_to_auth(b)
      BY <1>6, <2>2 DEF PassedOver
    <3>5. PassedOver(b)'
      BY <1>1, <2>2, <3>3, <3>4 DEF PassedOver
    <3> QED
      BY <3>5
  <2> QED
    BY <1>3, <2>1, <2>2
<1>8. CASE Refused
  <2> DEFINE e == Current
             k == NextSector
  <2>1. /\ e.do = "auth" /\ e.cell \in Blocks
        /\ mem[working][TrailerOf(e.cell)] = Trailer("foreign")
    BY <1>1, <1>8, RefusedIs
  <2>2. e.fail = "skip" /\ React /\ UNCHANGED mem
    BY <1>2, <1>8, <2>1, CleanStepIs DEF Refused, tag
  <2>3. Suffix(plan', plan, k)
    BY <1>1, <1>2, <2>2, ReactIs
  <2>4. /\ k \in 2..Len(plan) + 1
        /\ \A i \in 1..Len(plan) : i < k => sect_to_auth(plan[i].cell) = sect_to_auth(e.cell)
        /\ k <= Len(plan) => sect_to_auth(plan[k].cell) # sect_to_auth(e.cell)
    BY <1>1, <1>2, NextSectorIs
  <2> HIDE DEF e, k
  <2>5. \A i \in 1..Len(plan) : plan[i] \in CleanSteps
    BY <1>2
  <2>6. \A x \in CleanSteps : x.cell \in Blocks
    <3>1. \A y : y \in 0..LastBlock \/ y \in 1..LastBlock => y \in Blocks
      BY Constants DEF Blocks
    <3> QED
      BY <3>1, CleanStepIs
  <2>7. \A i, j \in 1..Len(plan) : i < j =>
          sect_to_auth(plan[i].cell) <= sect_to_auth(plan[j].cell)
    <3> SUFFICES ASSUME NEW i \in 1..Len(plan), NEW j \in 1..Len(plan), i < j
                 PROVE  sect_to_auth(plan[i].cell) <= sect_to_auth(plan[j].cell)
      OBVIOUS
    <3>1. <<plan[i], plan[j]>> \in BySector
      BY <1>2 DEF InOrder
    <3> QED
      BY <3>1 DEF BySector
  <2>8. \A i \in 1..Len(plan') : sect_to_auth(plan'[i].cell) # sect_to_auth(e.cell)
    <3> SUFFICES ASSUME NEW i \in 1..Len(plan')
                 PROVE  sect_to_auth(plan'[i].cell) # sect_to_auth(e.cell)
      OBVIOUS
    <3> DEFINE j == i + k - 1
    <3>1. j \in 1..Len(plan) /\ k <= j /\ k \in 1..Len(plan) /\ plan'[i] = plan[j]
      BY <1>5, <2>3, <2>4 DEF Suffix
    <3> HIDE DEF j
    <3> DEFINE sj == sect_to_auth(plan[j].cell)
               sk == sect_to_auth(plan[k].cell)
               se == sect_to_auth(e.cell)
    <3>2. sj \in Nat /\ sk \in Nat /\ se \in Nat
      BY <2>1, <2>5, <2>6, <3>1, SameSector
    <3>3. sk # se
      BY <2>4, <3>1
    <3>4. se <= sk
      <4>1. 1 < k
        BY <1>5, <2>4
      <4> QED
        BY <1>5, <2>7, <3>1, <4>1 DEF e
    <3>5. sk <= sj
      <4>1. k = j \/ k < j
        BY <2>4, <3>1
      <4> QED
        BY <2>7, <3>1, <3>2, <4>1
    <3> HIDE DEF sj, sk, se
    <3>6. sj # se
      BY <3>2, <3>3, <3>4, <3>5
    <3> QED
      BY <3>1, <3>6 DEF sj, se
  <2>9. CASE mem[working][b] = CleanedAt(b)
    BY <1>1, <2>2, <2>9 DEF DoneOrPlanned
  <2>10. CASE PassedOver(b)
    <3>1. PassedOver(b)'
      BY <1>1, <1>6, <2>2, <2>10 DEF PassedOver
    <3> QED
      BY <3>1
  <2>11. CASE Writes(plan, b, CleanedAt(b))
    <3>1. PICK i \in 1..Len(plan) :
            plan[i].do = "write" /\ plan[i].cell = b /\ plan[i].data = CleanedAt(b)
      BY <2>11 DEF Writes
    <3>2. CASE i < k
      <4>1. sect_to_auth(b) = sect_to_auth(e.cell)
        BY <2>4, <3>1, <3>2
      <4>2. TrailerOf(b) = TrailerOf(e.cell)
        BY <4>1 DEF TrailerOf
      <4>3. PassedOver(b)'
        BY <1>1, <2>1, <2>2, <2>8, <4>1, <4>2 DEF PassedOver
      <4> QED
        BY <4>3
    <3>3. CASE ~(i < k)
      <4> DEFINE j == i + 1 - k
      <4>1. j \in 1..Len(plan') /\ j + k - 1 = i
        BY <1>5, <2>3, <2>4, <3>3 DEF Suffix
      <4> HIDE DEF j
      <4>2. plan'[j] = plan[i]
        BY <2>3, <4>1 DEF Suffix
      <4>3. Writes(plan', b, CleanedAt(b))
        BY <3>1, <4>1, <4>2 DEF Writes
      <4> QED
        BY <4>3 DEF DoneOrPlanned
    <3> QED
      BY <3>2, <3>3
  <2> QED
    BY <1>3, <2>9, <2>10, <2>11 DEF DoneOrPlanned
<1>9. ~Garbled /\ ~TakenForDone
  BY DEF Garbled, TakenForDone
<1> QED
  BY <1>7, <1>8, <1>9 DEF Exchange

LEMMA UlCleanExchange ==
  ASSUME TaskInv, UlCleanInv, Exchange
  PROVE  UlCleanInv'
<1> SUFFICES ASSUME (Running("clean") \/ Running("format"))', working' \in Ultralight,
                    status' = "OK", ~disturbed',
                    NEW p \in 4..(CleanEnd(mem'[working']) - 1)
             PROVE  DoneOrPlanned(p, Blank)'
  BY DEF UlCleanInv
<1>1. /\ pc = "task" /\ plan # << >> /\ stage \in {"clean", "format"} /\ working \in Ultralight
      /\ ~disturbed /\ UNCHANGED working
      /\ TakesWrite \/ UNCHANGED <<mem, touched, written>>
  BY ExchangeIs DEF Running
<1>2. working \in Tags /\ working \notin Classic /\ UlShape(mem[working])
  BY <1>1, TagKinds DEF Tags, TaskInv, MemInv
<1>3. Current \in UlCleanSteps(mem[working])
  BY <1>1, <1>2, CurrentIs DEF StepsFor
<1>4. CleanEnd(mem'[working]) = CleanEnd(mem[working])
  <2>1. mem'[working][3] = mem[working][3]
    BY <1>1, <1>2, WriteIs
  <2> QED
    BY <2>1 DEF CleanEnd, EndOfData, Capacity
<1>5. p \in 4..(CleanEnd(mem[working]) - 1)
  BY <1>1, <1>4
<1>6. p \in DOMAIN mem[working]
  <2>1. PICK last \in Nat :
          /\ DOMAIN mem[working] = 3..last
          /\ CleanEnd(mem[working]) \in Nat /\ CleanEnd(mem[working]) <= last + 1
    BY <1>2, UlShapeIs
  <2> QED
    BY <1>5, <2>1
<1>7. CASE Succeeds
  <2>1. status = "OK"
    BY <1>7 DEF Succeeds
  <2>2. DoneOrPlanned(p, Blank)
    BY <1>1, <1>5, <2>1 DEF UlCleanInv, Running
  <2>3. Current.do = "write" => Current.data = Blank
    BY <1>3, UlCleanStepIs
  <2> QED
    BY <1>6, <1>7, <2>2, <2>3, DoneAfter
<1>8. ~Refused /\ ~Garbled /\ ~TakenForDone
  <2>1. ~Refused
    BY <1>1, <1>2, RefusedIs
  <2> QED
    BY <2>1 DEF Garbled, TakenForDone
<1> QED
  BY <1>7, <1>8 DEF Exchange

LEMMA LockoutExchange ==
  ASSUME TaskInv, LockoutInv, Exchange
  PROVE  LockoutInv'
<1> SUFFICES ASSUME Running("format")', ~disturbed'
             PROVE  (status = "OK" \/ (plan = << >> /\ ~Ours(working)))'
  BY DEF LockoutInv
<1>1. /\ pc = "task" /\ plan # << >> /\ stage = "format" /\ ~disturbed /\ UNCHANGED working
  BY ExchangeIs DEF Running
<1>2. status = "OK"
  BY <1>1 DEF LockoutInv, Running
<1>3. CASE Succeeds
  BY <1>2, <1>3 DEF Succeeds
<1>4. CASE Refused
  <2>1. /\ working \in Classic /\ Current.do = "auth" /\ Current.cell \in Blocks
        /\ mem[working][TrailerOf(Current.cell)] = Trailer("foreign")
    BY <1>1, <1>4, RefusedIs
  <2>2. plan \in Seq(FormatSteps) /\ Current \in FormatSteps
    BY <1>1, <2>1, CurrentIs DEF StepsFor
  <2>3. Current.fail = "abort"
    BY <2>1, <2>2, FormatStepIs
  <2>4. React /\ UNCHANGED mem
    BY <1>4 DEF Refused, tag
  <2>5. plan' = << >>
    BY <1>1, <2>2, <2>3, <2>4, ReactIs
  <2> DEFINE b == TrailerOf(Current.cell)
  <2>6. b \in DOMAIN mem[working]
    BY <2>1, ClassicDomain, TrailerInBlocks
  <2>7. mem[working][b] = Trailer("foreign")
    BY <2>1
  <2> HIDE DEF b
  <2>8. ~Ours(working)'
    BY <1>1, <2>4, <2>6, <2>7 DEF Ours
  <2> QED
    BY <2>5, <2>8
<1>5. ~Garbled /\ ~TakenForDone
  BY DEF Garbled, TakenForDone
<1> QED
  BY <1>3, <1>4, <1>5 DEF Exchange

\* An operation begins with all of its work planned.
LEMMA EraseBegins ==
  ASSUME MemInv, NEW t \in Tags, NEW op \in Operations, NEW m, op = "write" => m \in Messages,
         Begin(t, op, m), mem' = mem
  PROVE  EraseInv'
<1>1. /\ pc' = "task" /\ working' = t /\ stage' = op /\ mem'[working'] = mem[t]
      /\ plan' = PlanOf(t, op, m).steps /\ status' = PlanOf(t, op, m).status
  BY BeginIs
<1>2. FormatInv'
  <2> SUFFICES ASSUME op = "format", t \in Classic, NEW b \in 1..LastBlock
               PROVE  Writes(plan', b, FormattedAt(b))
    BY <1>1 DEF FormatInv, Running, DoneOrPlanned
  <2>1. plan' = FormatPlan
    BY <1>1 DEF PlanOf
  <2> QED
    BY <2>1, FormatPlanIs
<1>3. CleanInv'
  <2> SUFFICES ASSUME op = "clean", t \in Classic, NEW b \in 1..LastBlock
               PROVE  Writes(plan', b, CleanedAt(b))
    BY <1>1 DEF CleanInv, Running, DoneOrPlanned
  <2>1. plan' = CleanPlan
    BY <1>1 DEF PlanOf
  <2> QED
    BY <2>1, CleanPlanIs
<1>4. UlCleanInv'
  <2> SUFFICES ASSUME op \in {"clean", "format"}, t \in Ultralight,
                      NEW p \in 4..(CleanEnd(mem[t]) - 1)
               PROVE  Writes(plan', p, Blank)
    BY <1>1 DEF UlCleanInv, Running, DoneOrPlanned
  <2>1. t \notin Classic /\ UlShape(mem[t])
    BY TagKinds DEF MemInv
  <2>2. plan' = UlCleanPlan(mem[t])
    BY <1>1, <2>1 DEF PlanOf
  <2>3. CleanEnd(mem[t]) \in Nat
    BY <2>1, UlShapeIs
  <2> QED
    BY <2>2, <2>3, UlCleanPlanIs
<1>5. LockoutInv'
  <2>1. op = "format" => status' = "OK"
    BY <1>1 DEF PlanOf
  <2> QED
    BY <1>1, <2>1 DEF LockoutInv, Running
<1> QED
  BY <1>2, <1>3, <1>4, <1>5 DEF EraseInv

LEMMA EraseStep ==
  TaskInv /\ EraseInv /\ [Next]_vars => EraseInv'
<1> SUFFICES ASSUME TaskInv, EraseInv, [Next]_vars
             PROVE  EraseInv'
  OBVIOUS
<1>1. CASE Exchange
  BY <1>1, FormatExchange, CleanExchange, UlCleanExchange, LockoutExchange DEF EraseInv
<1>2. CASE Activated
  <2>1. /\ present \in Tags /\ Begin(present, FirstOperation, next_task_message_to_write)
        /\ UNCHANGED mem
    BY <1>2 DEF Activated, Waiting, TaskInv, VarsInv, tag
  <2>2. FirstOperation \in Operations /\ FirstOperation # "write"
    BY FirstOperationIs DEF TaskInv, VarsInv, Operations
  <2> QED
    BY <2>1, <2>2, EraseBegins DEF TaskInv
<1>3. CASE FormattedForWriting
  <2>1. stage' = "write"
    BY <1>3 DEF FormattedForWriting, Begin
  <2> QED
    BY <2>1 DEF EraseInv, FormatInv, CleanInv, UlCleanInv, LockoutInv, Running
<1>4. CASE \/ ActivatedForNothing \/ ErasingReturns \/ FinishedWrite \/ FinishedRead
           \/ AutomationReturns \/ End
  <2>1. pc' # "task"
    BY <1>4 DEF ActivatedForNothing, ErasingReturns, FinishedWrite, FinishedRead,
                AutomationReturns, End
  <2> QED
    BY <2>1 DEF EraseInv, FormatInv, CleanInv, UlCleanInv, LockoutInv, Running
<1>5. CASE User \/ World \/ UNCHANGED vars
  <2>1. UNCHANGED <<pc, task, mem>>
    BY <1>5 DEF User, SetMode, SetTagWriteMessage, World, Leaves, Arrives, Expires, vars, tag
  <2>2. UNCHANGED <<pc, mem, working, stage, plan, status, disturbed>>
    BY <2>1 DEF task
  <2>3. FormatInv' /\ LockoutInv'
    BY <2>2 DEF EraseInv, FormatInv, LockoutInv, Running, DoneOrPlanned, Ours
  <2>4. CleanInv' /\ UlCleanInv'
    BY <2>2 DEF EraseInv, CleanInv, UlCleanInv, Running, DoneOrPlanned, PassedOver
  <2> QED
    BY <2>3, <2>4 DEF EraseInv
<1> QED
  BY <1>1, <1>2, <1>3, <1>4, <1>5 DEF Next, Task, Exchange

LEMMA EraseInvariant ==
  Spec => []EraseInv
<1>1. Init => EraseInv
  BY DEF Init, EraseInv, FormatInv, CleanInv, UlCleanInv, LockoutInv, Running
<1>2. TaskInv /\ EraseInv /\ [Next]_vars => EraseInv'
  BY EraseStep
<1> QED
  BY <1>1, <1>2, TaskInvariant, PTL DEF Spec

LEMMA NothingPlanned ==
  ASSUME NEW c, NEW x, plan = << >>, DoneOrPlanned(c, x)
  PROVE  mem[working][c] = x
<1>1. ~Writes(plan, c, x)
  BY DEF Writes
<1> QED
  BY <1>1 DEF DoneOrPlanned

\* An operation that erases a tag and returns OK has done all its work, but
\* for what it passes over.
THEOREM OkMeansDoneCorrect ==
  Spec => []OkMeansDone
<1>1. TaskInv /\ EraseInv => OkMeansDone
  <2> SUFFICES ASSUME TaskInv, EraseInv, pc = "task", plan = << >>, status = "OK"
               PROVE  /\ stage = "format" /\ working \in Classic
                           => mem[working] = Formatted(mem[working])
                      /\ stage = "clean" /\ working \in Classic /\ ~disturbed /\ Ours(working)
                           => mem[working] = Cleaned(mem[working])
                      /\ stage \in {"clean", "format"} /\ working \in Ultralight /\ ~disturbed
                           /\ EndOfData(mem[working]) < BYTE
                           => mem[working] = UlCleaned(mem[working])
    BY DEF OkMeansDone
  <2> DEFINE memory == mem[working]
  <2>1. ASSUME working \in Classic
        PROVE  /\ memory = [b \in Blocks |-> memory[b]] /\ DOMAIN memory = Blocks
               /\ \A b \in Blocks : b \in Nat /\ (b = 0 \/ b \in 1..LastBlock)
    <3>1. ClassicShape(memory)
      BY <2>1 DEF TaskInv, MemInv
    <3> QED
      BY <2>1, <3>1, ClassicDomain DEF ClassicShape
  <2>2. ASSUME stage = "format", working \in Classic
        PROVE  memory = Formatted(memory)
    <3>1. \A b \in 1..LastBlock : memory[b] = FormattedAt(b)
      BY <2>2, NothingPlanned DEF EraseInv, FormatInv, Running
    <3> HIDE DEF memory
    <3>2. \A b \in Blocks :
            memory[b] = CASE b = 0 -> memory[0]
                          [] b \in 1..2 -> Mad(b)
                          [] b = 3 -> Trailer("mad")
                          [] b = 4 -> EmptyNdef
                          [] b > 4 -> IF b = TrailerOf(b) THEN Trailer("ndef") ELSE Blank
      <4> SUFFICES ASSUME NEW b \in Blocks, b # 0
                   PROVE  FormattedAt(b) = CASE b = 0 -> memory[0]
                                             [] b \in 1..2 -> Mad(b)
                                             [] b = 3 -> Trailer("mad")
                                             [] b = 4 -> EmptyNdef
                                             [] b > 4 -> IF b = TrailerOf(b)
                                                         THEN Trailer("ndef") ELSE Blank
        BY <2>1, <2>2, <3>1
      <4>1. b \in Nat
        BY <2>1, <2>2
      <4> QED
        BY <4>1 DEF FormattedAt
    <3> QED
      BY <2>1, <2>2, <3>2 DEF Formatted
  <2>3. ASSUME stage = "clean", working \in Classic, ~disturbed, Ours(working)
        PROVE  memory = Cleaned(memory)
    <3>1. \A b \in 1..LastBlock : memory[b] = CleanedAt(b)
      <4> SUFFICES ASSUME NEW b \in 1..LastBlock
                   PROVE  memory[b] = CleanedAt(b)
        OBVIOUS
      <4>1. DoneOrPlanned(b, CleanedAt(b)) \/ PassedOver(b)
        BY <2>3 DEF EraseInv, CleanInv, Running
      <4>2. TrailerOf(b) \in DOMAIN memory
        BY <2>3, ClassicDomain, TrailerInBlocks
      <4>3. ~PassedOver(b)
        BY <2>3, <4>2 DEF PassedOver, Ours
      <4> QED
        BY <4>1, <4>3, NothingPlanned
    <3> HIDE DEF memory
    <3>2. \A b \in Blocks :
            memory[b] = IF b = 0 THEN memory[0]
                        ELSE IF b = TrailerOf(b) THEN Trailer("factory") ELSE Blank
      BY <2>1, <2>3, <3>1 DEF CleanedAt
    <3> QED
      BY <2>1, <2>3, <3>2 DEF Cleaned
  <2>4. ASSUME stage \in {"clean", "format"}, working \in Ultralight, ~disturbed,
               EndOfData(memory) < BYTE
        PROVE  memory = UlCleaned(memory)
    <3>1. UlShape(memory)
      BY <2>4 DEF TaskInv, MemInv
    <3>2. PICK last \in Nat :
            /\ DOMAIN memory = 3..last /\ EndOfData(memory) = last + 1
            /\ EndOfData(memory) < BYTE => CleanEnd(memory) = last + 1
      BY <3>1, UlShapeIs
    <3>3. memory = [p \in 3..last |-> memory[p]]
      BY <3>1, <3>2 DEF UlShape
    <3>4. CleanEnd(memory) = last + 1
      BY <2>4, <3>2
    <3>5. \A p \in 4..(CleanEnd(memory) - 1) : memory[p] = Blank
      BY <2>4, NothingPlanned DEF EraseInv, UlCleanInv, Running
    <3> HIDE DEF memory
    <3>6. \A p \in 3..last : p \in Int /\ (p < 4 \/ p \in 4..(CleanEnd(memory) - 1))
      BY <3>4
    <3>7. \A p \in 3..last :
            memory[p] = IF p < MIFARE_ULTRALIGHT_DATA_START_PAGE THEN memory[p] ELSE Blank
      BY <3>5, <3>6 DEF MIFARE_ULTRALIGHT_DATA_START_PAGE
    <3> QED
      BY <3>2, <3>3, <3>7 DEF UlCleaned
  <2> QED
    BY <2>2, <2>3, <2>4
<1> QED
  BY <1>1, TaskInvariant, EraseInvariant, PTL

\* No task locks the driver out: a tag that came with the default keys can be
\* formatted again, whatever was interrupted before.
THEOREM NoLockoutCorrect ==
  Spec => []NoLockout
<1>1. EraseInv => NoLockout
  BY DEF EraseInv, LockoutInv, Running, NoLockout
<1> QED
  BY <1>1, EraseInvariant, PTL

-----------------------------------------------------------------------------
(* Writing *)

LEMMA DataBlocksDiffer ==
  ASSUME NEW i \in Nat \ {0}, NEW j \in Nat \ {0}, DataBlock(i) = DataBlock(j)
  PROVE  i = j
<1>1. ASSUME NEW a \in Nat \ {0}, NEW b \in Nat \ {0}, a < b
      PROVE  DataBlock(a) \in Nat /\ DataBlock(b) \in Nat /\ DataBlock(a) < DataBlock(b)
  BY <1>1, DataBlockOrder, DataBlockFacts
<1>2. i < j \/ j < i \/ i = j
  OBVIOUS
<1>3. \A x, y \in Nat : x < y => x # y
  OBVIOUS
<1> QED
  BY <1>1, <1>2, <1>3

\* Writing to a Classic tag, every exchange that fails is the last.
LEMMA WriteExchange ==
  ASSUME TaskInv, Exchange, stage = "write", working \in Classic
  PROVE  /\ pc = "task" /\ plan # << >> /\ attempted \in Messages
         /\ plan \in Seq(WriteSteps(attempted)) /\ Current \in WriteSteps(attempted)
         /\ InOrder(plan, Rising(attempted))
         /\ \/ /\ plan' = Tail(plan) /\ status' = status
               /\ TakesWrite \/ (Current.do # "write" /\ mem' = mem)
            \/ /\ plan' = << >> /\ status' = "FAILED"
               /\ TakesWrite \/ mem' = mem
<1>1. /\ pc = "task" /\ plan # << >>
      /\ TakesWrite \/ UNCHANGED <<mem, touched, written>>
  BY ExchangeIs
<1>2. attempted \in Messages
  BY <1>1 DEF TaskInv, WorkInv
<1>3. /\ plan \in Seq(WriteSteps(attempted)) /\ Current \in WriteSteps(attempted)
      /\ InOrder(plan, Rising(attempted))
  BY <1>1, CurrentIs DEF StepsFor, TaskInv, PlanInv, Ordered
<1>4. Current.fail = "abort"
  BY <1>3, WriteStepIs
<1>5. React => plan' = << >> /\ status' = "FAILED"
  BY <1>1, <1>3, <1>4, ReactIs
<1>6. ~TakenForDone
  BY TagKinds DEF TakenForDone, Tags
<1>7. CASE Succeeds
  <2>1. plan' = Tail(plan) /\ status' = status
    BY <1>7 DEF Succeeds
  <2>2. TakesWrite \/ (Current.do # "write" /\ mem' = mem)
    BY <1>7 DEF Succeeds, Effect, Touch, TakesWrite
  <2> QED
    BY <1>1, <1>2, <1>3, <2>1, <2>2
<1>8. CASE Refused \/ Garbled
  <2>1. React
    BY <1>8 DEF Refused, Garbled
  <2>2. TakesWrite \/ mem' = mem
    BY <1>1
  <2> QED
    BY <1>1, <1>2, <1>3, <1>5, <2>1, <2>2
<1> QED
  BY <1>6, <1>7, <1>8 DEF Exchange

\* The next piece that is written is the next one of the message, and the rest
\* of the plan writes only later ones.
LEMMA NextPiece ==
  ASSUME NEW m \in Messages, NEW n \in 0..BlocksFor(m),
         plan \in Seq(WriteSteps(m)), plan # << >>, InOrder(plan, Rising(m)),
         attempted = m, status = "OK", Rest(n), Current.do = "write"
  PROVE  /\ n + 1 \in 1..BlocksFor(m)
         /\ Current.cell = DataBlock(n + 1) /\ Current.data = Chunk(m, n + 1)
         /\ \A i \in 2..Len(plan) :
              plan[i].do = "write" =>
                \E k \in n + 2..BlocksFor(m) :
                  plan[i].cell = DataBlock(k) /\ plan[i].data = Chunk(m, k)
<1> DEFINE N == BlocksFor(m)
<1>1. N \in Nat /\ n \in Nat /\ Len(plan) \in Nat /\ 1 \in 1..Len(plan)
  <2>1. N \in Nat
    BY Constants, CellsNat
  <2> QED
    BY <2>1
<1>2. \A i, j \in 1..Len(plan) :
        i < j /\ plan[i].do = "write" /\ plan[j].do = "write" => plan[i].cell < plan[j].cell
  <2> SUFFICES ASSUME NEW i \in 1..Len(plan), NEW j \in 1..Len(plan), i < j,
                      plan[i].do = "write", plan[j].do = "write"
               PROVE  plan[i].cell < plan[j].cell
    OBVIOUS
  <2>1. <<plan[i], plan[j]>> \in Rising(m)
    BY DEF InOrder
  <2> QED
    BY <2>1 DEF Rising
<1>3. plan[1] = Current
  BY DEF Current
<1>4. /\ \A i \in 1..Len(plan) :
           plan[i].do = "write" =>
             \E k \in n + 1..N : plan[i].cell = DataBlock(k) /\ plan[i].data = Chunk(m, k)
      /\ \A k \in n + 1..N : Writes(plan, DataBlock(k), Chunk(m, k))
  BY DEF Rest
<1> HIDE DEF N
<1>5. PICK k \in n + 1..N : Current.cell = DataBlock(k) /\ Current.data = Chunk(m, k)
  BY <1>1, <1>3, <1>4
<1>6. k \in Nat \ {0} /\ n + 1 \in Nat \ {0} /\ n + 1 \in n + 1..N /\ n + 1 \in 1..N
  BY <1>1, <1>5
<1>7. k = n + 1
  <2>1. SUFFICES ASSUME k # n + 1
                 PROVE  FALSE
    OBVIOUS
  <2>2. n + 1 < k
    BY <1>1, <1>5, <2>1
  <2>3. PICK i \in 1..Len(plan) : plan[i].do = "write" /\ plan[i].cell = DataBlock(n + 1)
    BY <1>4, <1>6 DEF Writes
  <2>4. DataBlock(n + 1) < DataBlock(k) /\ DataBlock(n + 1) \in Nat /\ DataBlock(k) \in Nat
    BY <1>6, <2>2, DataBlockOrder, DataBlockFacts
  <2>5. i # 1
    BY <1>3, <1>5, <2>3, <2>4
  <2>6. 1 < i
    BY <1>1, <2>5
  <2>7. DataBlock(k) < DataBlock(n + 1)
    BY <1>1, <1>2, <1>3, <1>5, <2>3, <2>6
  <2> QED
    BY <2>4, <2>7
<1>8. ASSUME NEW i \in 2..Len(plan), plan[i].do = "write"
      PROVE  \E j \in n + 2..N : plan[i].cell = DataBlock(j) /\ plan[i].data = Chunk(m, j)
  <2>1. i \in 1..Len(plan) /\ 1 < i
    BY <1>1
  <2>2. PICK j \in n + 1..N : plan[i].cell = DataBlock(j) /\ plan[i].data = Chunk(m, j)
    BY <1>4, <1>8, <2>1
  <2>3. DataBlock(n + 1) < DataBlock(j) /\ DataBlock(n + 1) \in Nat
    BY <1>1, <1>2, <1>3, <1>5, <1>6, <1>7, <1>8, <2>1, <2>2, DataBlockFacts
  <2>4. j # n + 1
    BY <2>3
  <2>5. j \in n + 2..N
    BY <1>1, <2>4
  <2> QED
    BY <2>2, <2>5
<1> QED
  BY <1>5, <1>6, <1>7, <1>8 DEF N

LEMMA PrefixExchange ==
  ASSUME TaskInv, PrefixInv, Exchange
  PROVE  PrefixInv'
<1>1. pc = "task" /\ UNCHANGED <<pc, stage, working, attempted>>
  BY ExchangeIs
<1> SUFFICES ASSUME stage = "write", working \in Classic
             PROVE  \E n \in 0..BlocksFor(attempted) : Wrote(n)' /\ Rest(n)'
  BY <1>1 DEF PrefixInv, Running
<1> DEFINE m == attempted
           N == BlocksFor(m)
<1>2. /\ plan # << >> /\ m \in Messages
      /\ plan \in Seq(WriteSteps(m)) /\ Current \in WriteSteps(m)
      /\ InOrder(plan, Rising(m))
  BY WriteExchange
<1>3. PICK n \in 0..N : Wrote(n) /\ Rest(n)
  BY <1>1 DEF PrefixInv, Running
<1>4. status = "OK"
  BY <1>2, <1>3 DEF Rest, TaskInv, VarsInv
<1>5. N \in Nat /\ n \in Nat
  BY <1>2, Constants, CellsNat
<1>6. plan' = << >> /\ status' = "FAILED" => \A k : Rest(k)'
  BY DEF Rest
<1>7. /\ plan[1] = Current
      /\ \A i \in 1..Len(Tail(plan)) : i + 1 \in 2..Len(plan) /\ Tail(plan)[i] = plan[i + 1]
      /\ \A c, x : Writes(plan, c, x) =>
           \/ Current.do = "write" /\ Current.cell = c /\ Current.data = x
           \/ Writes(Tail(plan), c, x)
  <2>1. \A i \in 1..Len(Tail(plan)) : i + 1 \in 2..Len(plan) /\ Tail(plan)[i] = plan[i + 1]
    BY <1>2
  <2> QED
    BY <1>2, <2>1, TailIs DEF Current
<1>8. CASE TakesWrite
  <2>1. /\ n + 1 \in 1..N
        /\ Current.cell = DataBlock(n + 1) /\ Current.data = Chunk(m, n + 1)
        /\ \A i \in 2..Len(plan) :
             plan[i].do = "write" =>
               \E k \in n + 2..N : plan[i].cell = DataBlock(k) /\ plan[i].data = Chunk(m, k)
    BY <1>2, <1>3, <1>4, <1>8, NextPiece DEF TakesWrite
  <2>2. /\ Current.cell \in DOMAIN mem[working]
        /\ mem'[working] = [mem[working] EXCEPT ![Current.cell] = Current.data]
    BY <1>1, <1>2, <1>8, WriteIs
  <2>3. DOMAIN mem[working] = Blocks /\ \A b \in 1..LastBlock : b \in Blocks
    BY ClassicDomain
  <2>4. /\ DataBlock(n + 1) \in Blocks
        /\ mem'[working][DataBlock(n + 1)] = Chunk(m, n + 1)
        /\ \A b \in Blocks : b # DataBlock(n + 1) => mem'[working][b] = mem[working][b]
    BY <2>1, <2>2, <2>3
  <2>5. Wrote(n + 1)'
    <3>1. ASSUME NEW i \in 1..n + 1
          PROVE  DataBlock(i) \in Blocks /\ mem'[working][DataBlock(i)] = Chunk(m, i)
      <4>1. CASE i = n + 1
        BY <2>4, <4>1
      <4>2. CASE i # n + 1
        <5>1. i \in 1..n /\ i \in Nat \ {0} /\ n + 1 \in Nat \ {0}
          BY <1>5, <4>2
        <5>2. DataBlock(i) # DataBlock(n + 1)
          BY <4>2, <5>1, DataBlocksDiffer
        <5> QED
          BY <1>3, <2>4, <5>1, <5>2 DEF Wrote
      <4> QED
        BY <4>1, <4>2
    <3>2. ASSUME NEW b \in 1..LastBlock, \A i \in 1..n + 1 : DataBlock(i) # b
          PROVE  mem'[working][b] = FormattedAt(b)
      <4>1. n + 1 \in 1..n + 1 /\ \A i \in 1..n : i \in 1..n + 1
        BY <1>5
      <4>2. mem[working][b] = FormattedAt(b)
        BY <1>3, <3>2, <4>1 DEF Wrote
      <4> QED
        BY <2>3, <2>4, <3>2, <4>1, <4>2
    <3> QED
      BY <1>1, <3>1, <3>2 DEF Wrote
  <2>6. ASSUME plan' = Tail(plan), status' = status
        PROVE  Rest(n + 1)'
    <3>1. ASSUME NEW i \in 1..Len(plan'), plan'[i].do = "write"
          PROVE  \E k \in n + 2..N : plan'[i].cell = DataBlock(k) /\ plan'[i].data = Chunk(m, k)
      BY <1>7, <2>1, <2>6, <3>1
    <3>2. ASSUME NEW k \in n + 2..N
          PROVE  Writes(plan', DataBlock(k), Chunk(m, k))
      <4>1. k \in n + 1..N /\ k \in Nat \ {0} /\ n + 1 \in Nat \ {0} /\ k # n + 1
        BY <1>5
      <4>2. Writes(plan, DataBlock(k), Chunk(m, k))
        BY <1>3, <1>4, <4>1 DEF Rest
      <4>3. DataBlock(k) # DataBlock(n + 1)
        BY <4>1, DataBlocksDiffer
      <4> QED
        BY <1>7, <2>1, <2>6, <4>2, <4>3
    <3>3. (n + 1) + 1 = n + 2
      BY <1>5
    <3> QED
      BY <1>1, <1>4, <2>6, <3>1, <3>2, <3>3 DEF Rest
  <2>7. Rest(n + 1)'
    BY <1>6, <2>6, WriteExchange
  <2>8. n + 1 \in 0..N
    BY <1>5, <2>1
  <2> QED
    BY <2>5, <2>7, <2>8
<1>9. CASE ~TakesWrite
  <2>1. /\ mem' = mem
        /\ \/ plan' = Tail(plan) /\ status' = status /\ Current.do # "write"
           \/ plan' = << >> /\ status' = "FAILED"
    BY <1>9, WriteExchange
  <2>2. Wrote(n)'
    BY <1>1, <1>3, <2>1 DEF Wrote
  <2>3. ASSUME plan' = Tail(plan), status' = status, Current.do # "write"
        PROVE  Rest(n)'
    <3>1. ASSUME NEW i \in 1..Len(plan'), plan'[i].do = "write"
          PROVE  \E k \in n + 1..N : plan'[i].cell = DataBlock(k) /\ plan'[i].data = Chunk(m, k)
      <4> DEFINE j == i + 1
      <4>1. j \in 1..Len(plan) /\ plan'[i] = plan[j]
        BY <1>7, <2>3
      <4> HIDE DEF j
      <4> QED
        BY <1>3, <3>1, <4>1 DEF Rest
    <3>2. ASSUME NEW k \in n + 1..N
          PROVE  Writes(plan', DataBlock(k), Chunk(m, k))
      BY <1>3, <1>4, <1>7, <2>3 DEF Rest
    <3> QED
      BY <1>1, <1>4, <2>3, <3>1, <3>2 DEF Rest
  <2> QED
    BY <1>6, <2>1, <2>2, <2>3
<1> QED
  BY <1>8, <1>9

\* The pages a message takes are there if it fits.
LEMMA FitsIs ==
  ASSUME NEW memory, UlShape(memory), NEW m \in Messages, Fits(memory, m)
  PROVE  /\ \A i \in 1..PagesFor(m) : DataPage(i) \in DOMAIN memory
         /\ \E last \in Nat : DOMAIN memory = 3..last /\ PagesFor(m) + 3 <= last
         /\ PagesFor(m) \in Nat \ {0}
<1>1. PagesFor(m) \in Nat \ {0}
  BY Constants, CellsNat
<1>2. PICK last \in Nat :
        /\ DOMAIN memory = 3..last
        /\ \A n \in Nat : 4 * n <= Capacity(memory) => n + 3 <= last
  BY UlShapeIs
<1>3. PagesFor(m) * 4 <= Capacity(memory)
  BY DEF Fits, PagesFor, MIFARE_ULTRALIGHT_PAGE_SIZE
<1>4. PagesFor(m) * 4 = 4 * PagesFor(m)
  BY <1>1
<1>5. PagesFor(m) + 3 <= last
  BY <1>1, <1>2, <1>3, <1>4
<1>6. \A i \in 1..PagesFor(m) : DataPage(i) \in 3..last
  BY <1>1, <1>5 DEF DataPage, MIFARE_ULTRALIGHT_DATA_START_PAGE
<1> QED
  BY <1>1, <1>2, <1>5, <1>6

LEMMA UlWriteExchange ==
  ASSUME TaskInv, UlWriteInv, Exchange
  PROVE  UlWriteInv'
<1> SUFFICES ASSUME Running("write")', working' \in Ultralight, status' = "OK", ~disturbed',
                    NEW m \in Messages, attempted = m
             PROVE  /\ Fits(mem'[working], m)
                    /\ \A i \in 1..PagesFor(m) : DoneOrPlanned(DataPage(i), Chunk(m, i))'
  <2>1. UNCHANGED <<pc, stage, working, attempted>> /\ pc = "task"
    BY ExchangeIs
  <2>2. stage = "write" => attempted \in Messages
    BY <2>1 DEF TaskInv, WorkInv
  <2> QED
    BY <2>1, <2>2 DEF UlWriteInv, Running, DoneOrPlanned
<1>1. /\ pc = "task" /\ plan # << >> /\ stage = "write" /\ working \in Ultralight
      /\ ~disturbed /\ UNCHANGED working
      /\ TakesWrite \/ UNCHANGED <<mem, touched, written>>
  BY ExchangeIs DEF Running
<1>2. working \in Tags /\ working \notin Classic /\ UlShape(mem[working])
  BY <1>1, TagKinds DEF Tags, TaskInv, MemInv
<1>3. plan \in Seq(UlWriteSteps(m)) /\ Current \in UlWriteSteps(m)
  BY <1>1, <1>2, CurrentIs DEF StepsFor
<1>4. Current.fail = "abort"
  BY <1>3, UlWriteStepIs
<1>5. Capacity(mem'[working]) = Capacity(mem[working])
  <2>1. mem'[working][3] = mem[working][3]
    BY <1>1, <1>2, WriteIs
  <2> QED
    BY <2>1 DEF Capacity
<1>6. CASE Succeeds
  <2>1. status = "OK"
    BY <1>6 DEF Succeeds
  <2>2. /\ Fits(mem[working], m)
        /\ \A i \in 1..PagesFor(m) : DoneOrPlanned(DataPage(i), Chunk(m, i))
    BY <1>1, <2>1 DEF UlWriteInv, Running
  <2>3. Fits(mem'[working], m)
    BY <1>5, <2>2 DEF Fits
  <2>4. ASSUME NEW i \in 1..PagesFor(m)
        PROVE  DoneOrPlanned(DataPage(i), Chunk(m, i))'
    <3>1. DataPage(i) \in DOMAIN mem[working] /\ PagesFor(m) \in Nat
      BY <1>2, <2>2, FitsIs
    <3>2. Current.do = "write" /\ Current.cell = DataPage(i) => Current.data = Chunk(m, i)
      <4> SUFFICES ASSUME Current.do = "write", Current.cell = DataPage(i)
                   PROVE  Current.data = Chunk(m, i)
        OBVIOUS
      <4>1. PICK j \in 1..PagesFor(m) : Current.cell = DataPage(j) /\ Current.data = Chunk(m, j)
        BY <1>3, UlWriteStepIs
      <4>2. j = i
        BY <3>1, <4>1 DEF DataPage, MIFARE_ULTRALIGHT_DATA_START_PAGE
      <4> QED
        BY <4>1, <4>2
    <3> QED
      BY <1>6, <2>2, <3>1, <3>2, DoneAfter
  <2> QED
    BY <2>3, <2>4
<1>7. ~Refused /\ ~Garbled /\ ~TakenForDone
  <2>1. React => status' = "FAILED"
    BY <1>1, <1>3, <1>4, ReactIs
  <2> QED
    BY <2>1 DEF Refused, Garbled, TakenForDone
<1> QED
  BY <1>6, <1>7 DEF Exchange

\* Writing begins on a tag that could be formatted, with every piece planned.
LEMMA WriteBegins ==
  ASSUME TaskInv, EraseInv, FormattedForWriting
  PROVE  PrefixInv' /\ UlWriteInv'
<1>1. /\ pc = "task" /\ stage = "format" /\ plan = << >> /\ status = "OK" /\ working \in Tags
      /\ next_task_message_to_write \in Messages
      /\ Begin(working, "write", next_task_message_to_write)
      /\ attempted' = next_task_message_to_write
      /\ UNCHANGED mem
  BY DEF FormattedForWriting, Returns, TaskInv, WorkInv, tag
<1>2. PICK m \in Messages : m = next_task_message_to_write
  BY <1>1
<1>3. /\ pc' = "task" /\ working' = working /\ stage' = "write"
      /\ plan' = PlanOf(working, "write", m).steps /\ status' = PlanOf(working, "write", m).status
      /\ attempted' = m
  BY <1>1, <1>2 DEF Begin
<1>4. m \in Nat /\ BlocksFor(m) \in Nat /\ PagesFor(m) \in Nat
  BY Constants, CellsNat
<1>5. PrefixInv'
  <2> SUFFICES ASSUME working \in Classic
               PROVE  \E n \in 0..BlocksFor(m) : Wrote(n)' /\ Rest(n)'
    BY <1>3 DEF PrefixInv
  <2>1. plan' = WritePlan(m) /\ status' = "OK"
    BY <1>3 DEF PlanOf
  <2>2. Wrote(0)'
    <3>1. \A b \in 1..LastBlock : mem[working][b] = FormattedAt(b)
      BY <1>1, NothingPlanned DEF EraseInv, FormatInv, Running
    <3> QED
      BY <1>1, <1>3, <3>1 DEF Wrote
  <2>3. Rest(0)'
    <3>1. ASSUME NEW i \in 1..Len(plan'), plan'[i].do = "write"
          PROVE  \E k \in 0 + 1..BlocksFor(m) :
                   plan'[i].cell = DataBlock(k) /\ plan'[i].data = Chunk(m, k)
      <4>1. plan'[i] \in WriteSteps(m)
        BY <1>4, <2>1, WritePlanIs
      <4>2. PICK k \in 1..BlocksFor(m) : plan'[i].cell = DataBlock(k) /\ plan'[i].data = Chunk(m, k)
        BY <3>1, <4>1, WriteStepIs
      <4>3. k \in 0 + 1..BlocksFor(m)
        BY <1>4
      <4> QED
        BY <4>2, <4>3
    <3>2. ASSUME NEW k \in 0 + 1..BlocksFor(m)
          PROVE  Writes(plan', DataBlock(k), Chunk(m, k))
      <4>1. k \in 1..BlocksFor(m)
        BY <1>4
      <4> QED
        BY <1>4, <2>1, <4>1, WritePlanIs
    <3> QED
      BY <1>3, <2>1, <3>1, <3>2 DEF Rest
  <2>4. 0 \in 0..BlocksFor(m)
    BY <1>4
  <2> QED
    BY <2>2, <2>3, <2>4
<1>6. UlWriteInv'
  <2> SUFFICES ASSUME working \in Ultralight, status' = "OK"
               PROVE  /\ Fits(mem[working], m)
                      /\ \A i \in 1..PagesFor(m) : Writes(plan', DataPage(i), Chunk(m, i))
    BY <1>1, <1>3 DEF UlWriteInv, DoneOrPlanned
  <2>1. working \notin Classic
    BY TagKinds DEF Tags
  <2>2. Fits(mem[working], m) /\ plan' = UlWritePlan(m)
    BY <1>3, <2>1 DEF PlanOf
  <2> QED
    BY <1>4, <2>2, UlWritePlanIs
<1> QED
  BY <1>5, <1>6

\* A write that was not disturbed leaves its message.
LEMMA WriteHolds ==
  ASSUME TaskInv, PrefixInv, UlWriteInv, Returns("write"), status = "OK", ~disturbed
  PROVE  HoldsMessage(working, attempted)
<1>1. pc = "task" /\ plan = << >> /\ stage = "write" /\ working \in Tags /\ attempted \in Messages
  BY DEF Returns, TaskInv, WorkInv
<1> DEFINE m == attempted
           N == BlocksFor(m)
<1>2. N \in Nat /\ PagesFor(m) \in Nat
  BY <1>1, Constants, CellsNat
<1>3. CASE working \in Classic
  <2>1. PICK n \in 0..N : Wrote(n) /\ Rest(n)
    BY <1>1, <1>3 DEF PrefixInv, Running
  <2>2. n = N
    <3>1. \A k \in n + 1..N : FALSE
      BY <1>1, <2>1 DEF Rest, Writes
    <3>2. n \in Nat /\ n <= N
      BY <1>2
    <3>3. n < N => n + 1 \in n + 1..N
      BY <1>2, <3>2
    <3> QED
      BY <1>2, <3>1, <3>2, <3>3
  <2>3. ASSUME NEW i \in 1..N
        PROVE  /\ DataBlock(i) \in Blocks
               /\ mem[working][DataBlock(i)] = Chunk(m, i)
               /\ mem[working][TrailerOf(DataBlock(i))] = Trailer("ndef")
    <3>1. DataBlock(i) \in Blocks /\ mem[working][DataBlock(i)] = Chunk(m, i)
      BY <2>1, <2>2, <2>3 DEF Wrote
    <3> DEFINE b == TrailerOf(DataBlock(i))
    <3>2. b \in Blocks /\ TrailerOf(b) = b
      BY <3>1, TrailerInBlocks
    <3>3. b \in Nat /\ b > 4
      <4>1. DataBlock(i) \in Nat /\ DataBlock(i) > 3
        BY <1>2, DataBlockFacts
      <4>2. b = 4 * (DataBlock(i) \div 4) + 3
        BY DEF TrailerOf, sect_to_auth
      <4> QED
        BY <4>1, <4>2
    <3> HIDE DEF b
    <3>4. b \in 1..LastBlock
      BY <1>3, <3>2, <3>3, ClassicDomain
    <3>5. \A j \in 1..n : DataBlock(j) # b
      <4> SUFFICES ASSUME NEW j \in 1..n
                   PROVE  DataBlock(j) # b
        OBVIOUS
      <4>1. j \in Nat \ {0}
        BY <1>2, <2>2
      <4> QED
        BY <3>2, <4>1, DataBlockFacts
    <3>6. mem[working][b] = FormattedAt(b)
      BY <2>1, <3>4, <3>5 DEF Wrote
    <3>7. FormattedAt(b) = Trailer("ndef")
      BY <3>2, <3>3 DEF FormattedAt
    <3> QED
      BY <3>1, <3>6, <3>7 DEF b
  <2> QED
    BY <1>3, <2>3 DEF HoldsMessage
<1>4. CASE working \notin Classic
  <2>1. working \in Ultralight
    BY <1>1, <1>4 DEF Tags
  <2>2. /\ Fits(mem[working], m)
        /\ \A i \in 1..PagesFor(m) : DoneOrPlanned(DataPage(i), Chunk(m, i))
    BY <1>1, <2>1 DEF UlWriteInv, Running
  <2>3. \A i \in 1..PagesFor(m) : mem[working][DataPage(i)] = Chunk(m, i)
    BY <1>1, <2>2, NothingPlanned
  <2> QED
    BY <1>4, <2>2, <2>3 DEF HoldsMessage
<1> QED
  BY <1>3, <1>4

-----------------------------------------------------------------------------
(* Reading *)

\* What the reader makes of a message the driver wrote
LEMMA MessageIs ==
  ASSUME MemInv, NEW t \in Tags, NEW m \in Messages, HoldsMessage(t, m)
  PROVE  /\ t \in Classic => Announced(mem[t]) = BlocksFor(m)
         /\ t \in Ultralight /\ ~IsLong(m) => AnnouncedBytes(mem[t]) = m
         /\ BlocksFor(m) \in Nat \ {0} /\ PagesFor(m) \in Nat \ {0} /\ m \in Nat \ {0}
         /\ Chunk(m, 1)[1] = "chunk" /\ Chunk(m, 1)[2] = m /\ Chunk(m, 1)[3] = 1
<1>1. m \in Nat \ {0} /\ BlocksFor(m) \in Nat \ {0} /\ PagesFor(m) \in Nat \ {0}
  BY Constants, CellsNat DEF NoMsg
<1> DEFINE header == Chunk(m, 1)
<1>2. header[1] = "chunk" /\ header[2] = m /\ header[3] = 1 /\ header # EmptyNdef
  BY DEF Chunk, EmptyNdef, Content
<1> HIDE DEF header
<1>3. CASE t \in Classic
  <2>1. mem[t][DataBlock(1)] = header
    <3>1. 1 \in 1..BlocksFor(m)
      BY <1>1
    <3> QED
      BY <1>3, <3>1 DEF HoldsMessage, header
  <2>2. Announced(mem[t]) = BlocksFor(m)
    BY <1>2, <2>1 DEF Announced, BlocksFor
  <2> QED
    BY <1>1, <1>2, <1>3, <2>2, TagKinds DEF header
<1>4. CASE t \notin Classic
  <2>1. mem[t][DataPage(1)] = header
    <3>1. 1 \in 1..PagesFor(m)
      BY <1>1
    <3> QED
      BY <1>4, <3>1 DEF HoldsMessage, header
  <2>2. ~IsLong(m) => AnnouncedBytes(mem[t]) = m
    BY <1>2, <2>1 DEF AnnouncedBytes
  <2> QED
    BY <1>1, <1>2, <1>4, <2>2 DEF header
<1> QED
  BY <1>3, <1>4

\* A tag that holds a message lets it be read.
LEMMA ReadsMessage ==
  ASSUME MemInv, NEW t \in Tags, NEW m \in Messages, HoldsMessage(t, m),
         ~(t \in Ultralight /\ IsLong(m)), NEW any, NEW e \in StepsFor(t, "read", any, mem[t])
  PROVE  Understands(t, e) /\ e.fail = "abort"
<1>1. /\ BlocksFor(m) \in Nat \ {0} /\ PagesFor(m) \in Nat \ {0} /\ m \in Nat \ {0}
      /\ t \in Classic => Announced(mem[t]) = BlocksFor(m)
      /\ t \in Ultralight /\ ~IsLong(m) => AnnouncedBytes(mem[t]) = m
  BY MessageIs
<1>2. CASE t \in Classic
  <2>1. e \in ReadSteps(BlocksFor(m))
    BY <1>1, <1>2 DEF StepsFor
  <2>2. /\ e.fail = "abort" /\ e.cell \in ReadBlocks(BlocksFor(m))
        /\ e.do = "read" \/ (e.do = "auth" /\ e.data = Content("NDEF A"))
    BY <2>1, ReadStepIs
  <2>3. PICK i \in 1..BlocksFor(m) : e.cell = DataBlock(i)
    <3>1. CASE e.cell = 4
      <4>1. 1 \in 1..BlocksFor(m)
        BY <1>1
      <4> QED
        BY <3>1, <4>1, FirstDataBlock
    <3>2. CASE e.cell \in {DataBlock(i) : i \in 1..BlocksFor(m)}
      BY <3>2, Zenon
    <3> QED
      BY <2>2, <3>1, <3>2 DEF ReadBlocks
  <2>4. e.cell \in Blocks /\ mem[t][TrailerOf(e.cell)] = Trailer("ndef")
    BY <1>2, <2>3 DEF HoldsMessage
  <2>5. DOMAIN mem[t] = Blocks
    BY <1>2 DEF MemInv, ClassicShape
  <2>6. e.do = "auth" => HasKey(mem[t][TrailerOf(e.cell)], e.data[1])
    <3>1. Content("NDEF A")[1] = "NDEF A" /\ HasKey(Trailer("ndef"), "NDEF A")
      BY DEF Content, HasKey
    <3>2. e.do = "auth" => e.data = Content("NDEF A")
      BY <2>2
    <3> QED
      BY <2>4, <3>1, <3>2
  <2> QED
    BY <1>2, <2>2, <2>4, <2>5, <2>6 DEF Understands, Accepts
<1>3. CASE t \notin Classic
  <2>1. t \in Ultralight /\ UlShape(mem[t]) /\ ~IsLong(m)
    BY <1>3, TagKinds DEF MemInv
  <2>2. e \in UlReadSteps(ReadsBeyond(m))
    BY <1>1, <1>3, <2>1 DEF StepsFor
  <2>3. e.fail = "abort" /\ (e.cell = 3 \/ \E i \in 1..ReadsBeyond(m) : e.cell = 7 + 4 * (i - 1))
    BY <2>2, UlReadStepIs
  <2>4. PICK last \in Nat : DOMAIN mem[t] = 3..last /\ PagesFor(m) + 3 <= last
    <3>1. Fits(mem[t], m)
      BY <1>3 DEF HoldsMessage
    <3> QED
      BY <2>1, <3>1, FitsIs
  <2>5. PagesFor(m) = (m + 6) \div 4
    <3>1. m + 3 + 4 - 1 = m + 6
      BY <1>1
    <3> QED
      BY <2>1, <3>1 DEF PagesFor, CellsFor, MIFARE_ULTRALIGHT_PAGE_SIZE
  <2>6. ReadsBeyond(m) \in Nat /\ 4 * ReadsBeyond(m) <= PagesFor(m)
    <3>1. CASE m + 2 > 12
      <4>1. ReadsBeyond(m) = (m + 5) \div 16
        <5>1. m + 2 - 12 + 15 = m + 5
          BY <1>1
        <5> QED
          BY <3>1, <5>1 DEF ReadsBeyond
      <4>2. (m + 5) \div 16 \in Nat /\ 4 * ((m + 5) \div 16) <= (m + 6) \div 4
        BY <1>1
      <4> QED
        BY <2>5, <4>1, <4>2
    <3>2. CASE ~(m + 2 > 12)
      <4>1. ReadsBeyond(m) = (0 + 15) \div 16
        BY <3>2 DEF ReadsBeyond
      <4>2. ReadsBeyond(m) = 0
        BY <4>1
      <4> QED
        BY <1>1, <4>2
    <3> QED
      BY <3>1, <3>2
  <2>7. e.cell \in 3..last
    <3>1. CASE e.cell = 3
      BY <1>1, <2>4, <3>1
    <3>2. CASE \E i \in 1..ReadsBeyond(m) : e.cell = 7 + 4 * (i - 1)
      <4>1. PICK i \in 1..ReadsBeyond(m) : e.cell = 7 + 4 * (i - 1)
        BY <3>2
      <4> DEFINE n == ReadsBeyond(m)
                 p == PagesFor(m)
      <4>2. i \in 1..n /\ n \in Nat /\ 4 * n <= p /\ p \in Nat /\ p + 3 <= last
        BY <1>1, <2>4, <2>6
      <4> HIDE DEF n, p
      <4>3. 7 + 4 * (i - 1) \in 3..last
        BY <4>2
      <4> QED
        BY <4>1, <4>3
    <3> QED
      BY <2>3, <3>1, <3>2
  <2> QED
    BY <1>3, <2>3, <2>4, <2>7 DEF Understands, UlAccepts
<1> QED
  BY <1>2, <1>3

\* Reading changes nothing, and goes wrong only if an exchange does.
LEMMA ReadExchange ==
  ASSUME TaskInv, WrittenInv, ReadInv, Exchange
  PROVE  ReadInv'
<1>1. /\ pc = "task" /\ plan # << >> /\ UNCHANGED <<pc, stage, working, attempted>>
      /\ disturbed => disturbed'
      /\ TakesWrite \/ UNCHANGED <<mem, touched, written>>
  BY ExchangeIs
<1> SUFFICES ASSUME stage = "read", ~disturbed', written'[working] # NoMsg,
                    ~(working \in Ultralight /\ IsLong(written'[working]))
             PROVE  status' = "OK"
  BY <1>1 DEF ReadInv, Running
<1>2. /\ working \in Tags /\ "read" \in Operations
      /\ Current \in StepsFor(working, "read", attempted, mem[working])
  BY <1>1, CurrentIs DEF Operations
<1>3. Current.do # "write"
  BY <1>2, StepIs
<1>4. written' = written
  BY <1>1, <1>3 DEF TakesWrite
<1>5. status = "OK"
  BY <1>1, <1>4 DEF ReadInv, Running
<1>6. CASE Succeeds
  BY <1>5, <1>6 DEF Succeeds
<1>7. ~Refused
  <2>1. written[working] \in Messages
    BY <1>2, <1>4 DEF TaskInv, VarsInv
  <2>2. HoldsMessage(working, written[working])
    BY <1>2, <1>4 DEF WrittenInv
  <2>3. Understands(working, Current)
    BY <1>2, <1>4, <2>1, <2>2, ReadsMessage DEF TaskInv
  <2> QED
    BY <2>3 DEF Refused
<1>8. ~Garbled /\ ~TakenForDone
  BY DEF Garbled, TakenForDone
<1> QED
  BY <1>6, <1>7, <1>8 DEF Exchange

LEMMA ReadBegins ==
  ASSUME TaskInv, WrittenInv, Activated
  PROVE  ReadInv'
<1>1. /\ present \in Tags /\ Begin(present, FirstOperation, next_task_message_to_write)
      /\ UNCHANGED <<mem, written>>
  BY DEF Activated, Waiting, TaskInv, VarsInv, tag, history
<1>2. PICK t \in Tags : t = present
  BY <1>1
<1>3. /\ working' = t /\ stage' = FirstOperation /\ pc' = "task"
      /\ status' = PlanOf(t, FirstOperation, next_task_message_to_write).status
  BY <1>1, <1>2 DEF Begin
<1> SUFFICES ASSUME FirstOperation = "read", written[t] # NoMsg,
                    ~(t \in Ultralight /\ IsLong(written[t]))
             PROVE  status' = "OK"
  BY <1>1, <1>3 DEF ReadInv, Running
<1>4. written[t] \in Messages /\ HoldsMessage(t, written[t])
  BY DEF WrittenInv, TaskInv, VarsInv
<1>5. PICK m \in Messages : m = written[t]
  BY <1>4
<1>6. /\ t \in Classic => Announced(mem[t]) # 0
      /\ t \in Ultralight => AnnouncedBytes(mem[t]) # 0
  BY <1>4, <1>5, MessageIs DEF TaskInv
<1> QED
  BY <1>3, <1>6, TagKinds DEF PlanOf

LEMMA WrittenExchange ==
  ASSUME TaskInv, WrittenInv, Exchange
  PROVE  WrittenInv'
<1>1. /\ pc = "task" /\ plan # << >>
      /\ TakesWrite \/ UNCHANGED <<mem, touched, written>>
  BY ExchangeIs
<1>2. working \in Tags /\ written \in [Tags -> Messages \cup {NoMsg}]
  BY <1>1, CurrentIs DEF TaskInv, VarsInv
<1> SUFFICES ASSUME NEW t \in Tags, written'[t] # NoMsg
             PROVE  HoldsMessage(t, written[t])'
  BY DEF WrittenInv
<1>3. written'[t] = written[t] /\ mem'[t] = mem[t]
  <2>1. CASE TakesWrite
    <3>1. written' = [written EXCEPT ![working] = NoMsg]
      BY <2>1 DEF TakesWrite
    <3>2. t # working
      BY <1>2, <3>1
    <3> QED
      BY <1>1, <1>2, <2>1, <3>1, <3>2, WriteIs
  <2> QED
    BY <1>1, <2>1
<1> QED
  BY <1>3 DEF WrittenInv, HoldsMessage, Fits, Capacity

LEMMA WriteStep ==
  TaskInv /\ EraseInv /\ WriteInv /\ [Next]_vars => WriteInv'
<1> SUFFICES ASSUME TaskInv, EraseInv, WriteInv, [Next]_vars
             PROVE  WriteInv'
  OBVIOUS
<1> USE DEF WriteInv
<1>1. CASE Exchange
  BY <1>1, PrefixExchange, UlWriteExchange, WrittenExchange, ReadExchange
<1>2. CASE Activated
  <2>1. /\ pc' = "task" /\ stage' = FirstOperation /\ UNCHANGED <<mem, written>>
    BY <1>2 DEF Activated, Begin, tag, history
  <2>2. FirstOperation # "write"
    BY FirstOperationIs DEF TaskInv, VarsInv
  <2>3. PrefixInv' /\ UlWriteInv'
    BY <2>1, <2>2 DEF PrefixInv, UlWriteInv, Running
  <2>4. WrittenInv'
    BY <2>1 DEF WrittenInv, HoldsMessage
  <2> QED
    BY <1>2, <2>3, <2>4, ReadBegins
<1>3. CASE FormattedForWriting
  <2>1. /\ pc' = "task" /\ stage' = "write" /\ UNCHANGED <<mem, written>>
    BY <1>3 DEF FormattedForWriting, Begin, tag
  <2>2. WrittenInv' /\ ReadInv'
    BY <2>1 DEF WrittenInv, HoldsMessage, ReadInv, Running
  <2> QED
    BY <1>3, <2>2, WriteBegins
<1>4. CASE FinishedWrite
  <2>1. /\ Returns("write") /\ pc' = "on_finished_write"
        /\ written' = IF status = "OK" /\ ~disturbed
                      THEN [written EXCEPT ![working] = attempted] ELSE written
        /\ UNCHANGED <<mem, working, stage, plan, status, disturbed, attempted>>
    BY <1>4 DEF FinishedWrite, tag, task
  <2>2. pc = "task" /\ stage = "write" /\ plan = << >> /\ working \in Tags /\ attempted \in Messages
    BY <2>1 DEF Returns, TaskInv, WorkInv
  <2>3. UlWriteInv' /\ ReadInv'
    BY <2>1, <2>2 DEF UlWriteInv, ReadInv, Running
  <2>4. PrefixInv'
    <3> SUFFICES ASSUME working \in Classic
                 PROVE  \E n \in 0..BlocksFor(attempted) :
                          Wrote(n)' /\ (status = "OK" => n = BlocksFor(attempted))
      BY <2>1 DEF PrefixInv, Running
    <3>1. PICK n \in 0..BlocksFor(attempted) : Wrote(n) /\ Rest(n)
      BY <2>2 DEF PrefixInv, Running
    <3>2. Wrote(n)'
      BY <2>1, <3>1 DEF Wrote
    <3>3. status = "OK" => n = BlocksFor(attempted)
      <4>1. BlocksFor(attempted) \in Nat
        BY <2>2, Constants, CellsNat
      <4>2. status = "OK" => \A k \in n + 1..BlocksFor(attempted) : FALSE
        BY <2>2, <3>1 DEF Rest, Writes
      <4>3. n < BlocksFor(attempted) => n + 1 \in n + 1..BlocksFor(attempted)
        BY <4>1
      <4> QED
        BY <4>1, <4>2, <4>3
    <3> QED
      BY <3>2, <3>3
  <2>5. WrittenInv'
    <3> SUFFICES ASSUME NEW t \in Tags, written'[t] # NoMsg
                 PROVE  HoldsMessage(t, written[t])'
      BY DEF WrittenInv
    <3>1. HoldsMessage(t, written'[t])
      <4>1. CASE status = "OK" /\ ~disturbed /\ t = working
        <5>1. written'[t] = attempted
          BY <2>1, <2>2, <4>1 DEF TaskInv, VarsInv
        <5> QED
          BY <2>1, <4>1, <5>1, WriteHolds
      <4>2. CASE ~(status = "OK" /\ ~disturbed /\ t = working)
        <5>1. written'[t] = written[t]
          BY <2>1, <4>2 DEF TaskInv, VarsInv
        <5> QED
          BY <5>1 DEF WrittenInv
      <4> QED
        BY <4>1, <4>2
    <3> QED
      BY <2>1, <3>1 DEF HoldsMessage, Fits, Capacity
  <2> QED
    BY <2>3, <2>4, <2>5
<1>5. CASE FinishedRead
  <2>1. /\ pc = "task" /\ stage = "read" /\ pc' = "on_tag"
        /\ UNCHANGED <<mem, working, stage, plan, status, disturbed, attempted, written>>
    BY <1>5 DEF FinishedRead, Returns, tag, task, history
  <2>2. PrefixInv' /\ UlWriteInv' /\ ReadInv'
    BY <2>1 DEF PrefixInv, UlWriteInv, ReadInv, Running
  <2>3. WrittenInv'
    BY <2>1 DEF WrittenInv, HoldsMessage
  <2> QED
    BY <2>2, <2>3
<1>6. CASE ActivatedForNothing \/ ErasingReturns \/ AutomationReturns \/ End
  <2>1. pc' \notin {"task", "on_tag", "on_finished_write"} /\ UNCHANGED <<mem, written>>
    BY <1>6 DEF ActivatedForNothing, ErasingReturns, AutomationReturns, End, tag, history
  <2>2. PrefixInv' /\ UlWriteInv' /\ ReadInv'
    BY <2>1 DEF PrefixInv, UlWriteInv, ReadInv, Running
  <2>3. WrittenInv'
    BY <2>1 DEF WrittenInv, HoldsMessage
  <2> QED
    BY <2>2, <2>3
<1>7. CASE User \/ World \/ UNCHANGED vars
  <2>1. UNCHANGED <<pc, task, mem, attempted, written>>
    BY <1>7 DEF User, SetMode, SetTagWriteMessage, World, Leaves, Arrives, Expires,
                vars, tag, history
  <2>2. UNCHANGED <<pc, mem, working, stage, plan, status, disturbed, attempted, written>>
    BY <2>1 DEF task
  <2>3. PrefixInv'
    BY <2>2 DEF PrefixInv, Running, Wrote, Rest
  <2>4. UlWriteInv' /\ ReadInv'
    BY <2>2 DEF UlWriteInv, ReadInv, Running, DoneOrPlanned
  <2>5. WrittenInv'
    BY <2>2 DEF WrittenInv, HoldsMessage
  <2> QED
    BY <2>3, <2>4, <2>5
<1> QED
  BY <1>1, <1>2, <1>3, <1>4, <1>5, <1>6, <1>7 DEF Next, Task, Exchange

LEMMA WriteInvariant ==
  Spec => []WriteInv
<1>1. Init => WriteInv
  BY DEF Init, WriteInv, PrefixInv, UlWriteInv, WrittenInv, ReadInv, Running
<1>2. TaskInv /\ EraseInv /\ WriteInv /\ [Next]_vars => WriteInv'
  BY WriteStep
<1> QED
  BY <1>1, <1>2, TaskInvariant, EraseInvariant, PTL DEF Spec

\* What a write that returned OK put on a tag is what a later read delivers,
\* and a read without a failed exchange does deliver it.
THEOREM ReadBackCorrect ==
  Spec => []ReadBack
<1>1. TaskInv /\ WriteInv => ReadBack
  <2> SUFFICES ASSUME TaskInv, WriteInv, pc = "on_tag", written[working] # NoMsg,
                      ~(working \in Ultralight /\ IsLong(written[working]))
               PROVE  /\ ~disturbed => status = "OK"
                      /\ \A i \in DOMAIN PiecesOf(working) :
                           PiecesOf(working)[i] = Chunk(written[working], i)
    BY DEF ReadBack
  <2>1. working \in Tags /\ written[working] \in Messages /\ MemInv
    BY DEF TaskInv, VarsInv, WorkInv
  <2>2. PICK t \in Tags : t = working
    BY <2>1
  <2>3. PICK m \in Messages : m = written[working]
    BY <2>1
  <2>4. HoldsMessage(t, m)
    BY <2>2, <2>3 DEF WriteInv, WrittenInv
  <2>5. ~disturbed => status = "OK"
    BY DEF WriteInv, ReadInv
  <2>6. /\ t \in Classic => Announced(mem[t]) = BlocksFor(m)
        /\ PagesFor(m) \in Nat \ {0}
        /\ Chunk(m, 1)[2] = m
    BY <2>1, <2>4, MessageIs
  <2>7. \A i \in DOMAIN PiecesOf(t) : PiecesOf(t)[i] = Chunk(m, i)
    <3>1. CASE t \in Classic
      <4>1. PiecesOf(t) = [i \in 1..BlocksFor(m) |-> mem[t][DataBlock(i)]]
        BY <2>6, <3>1 DEF PiecesOf, Pieces
      <4>2. \A i \in 1..BlocksFor(m) : mem[t][DataBlock(i)] = Chunk(m, i)
        BY <2>4, <3>1 DEF HoldsMessage
      <4> QED
        BY <4>1, <4>2
    <3>2. CASE t \notin Classic
      <4>1. t \in Ultralight /\ ~IsLong(m)
        BY <2>2, <2>3, <3>2, TagKinds
      <4>2. \A i \in 1..PagesFor(m) : mem[t][DataPage(i)] = Chunk(m, i)
        BY <2>4, <3>2 DEF HoldsMessage
      <4>3. mem[t][DataPage(1)][2] = m
        <5>1. 1 \in 1..PagesFor(m)
          BY <2>6
        <5> QED
          BY <2>6, <4>2, <5>1
      <4>4. PiecesOf(t) = [i \in 1..PagesFor(m) |-> mem[t][DataPage(i)]]
        BY <3>2, <4>1, <4>3 DEF PiecesOf, UlPieces, PagesFor
      <4> QED
        BY <4>2, <4>4
    <3> QED
      BY <3>1, <3>2
  <2> QED
    BY <2>2, <2>3, <2>5, <2>7
<1> QED
  BY <1>1, TaskInvariant, WriteInvariant, PTL

\* When on_finished_write is called a Classic tag is freshly formatted but for
\* the first pieces of the new message, all of them if the write returned OK.
THEOREM WriteLeavesPrefixCorrect ==
  Spec => []WriteLeavesPrefix
<1>1. TaskInv /\ WriteInv => WriteLeavesPrefix
  <2> SUFFICES ASSUME TaskInv, WriteInv, pc = "on_finished_write", working \in Classic
               PROVE  \E n \in 0..BlocksFor(attempted) :
                        /\ mem[working] =
                             [b \in Blocks |->
                                IF \E i \in 1..n : DataBlock(i) = b
                                THEN Chunk(attempted, CHOOSE i \in 1..n : DataBlock(i) = b)
                                ELSE Formatted(mem[working])[b]]
                        /\ status = "OK" => n = BlocksFor(attempted)
    BY DEF WriteLeavesPrefix, BlocksFor
  <2>1. PICK n \in 0..BlocksFor(attempted) :
          Wrote(n) /\ (status = "OK" => n = BlocksFor(attempted))
    BY DEF WriteInv, PrefixInv
  <2>2. n \in Nat
    <3>1. BlocksFor(attempted) \in Nat
      BY Constants, CellsNat DEF TaskInv, WorkInv
    <3> QED
      BY <3>1
  <2> DEFINE memory == mem[working]
             piece(b) == CHOOSE i \in 1..n : DataBlock(i) = b
  <2>3. /\ memory = [b \in Blocks |-> memory[b]] /\ DOMAIN memory = Blocks
        /\ \A b \in Blocks : b \in Nat /\ (b = 0 \/ b \in 1..LastBlock)
    <3>1. ClassicShape(memory)
      BY DEF TaskInv, MemInv
    <3> QED
      BY <3>1, ClassicDomain DEF ClassicShape
  <2>4. ASSUME NEW b \in Blocks
        PROVE  memory[b] = IF \E i \in 1..n : DataBlock(i) = b THEN Chunk(attempted, piece(b))
                           ELSE Formatted(memory)[b]
    <3>1. CASE \E i \in 1..n : DataBlock(i) = b
      <4>1. piece(b) \in 1..n /\ DataBlock(piece(b)) = b
        BY <3>1
      <4> QED
        BY <2>1, <3>1, <4>1 DEF Wrote
    <3>2. CASE ~\E i \in 1..n : DataBlock(i) = b
      <4>1. b # 0 => memory[b] = FormattedAt(b)
        BY <2>1, <2>3, <3>2 DEF Wrote
      <4> HIDE DEF memory
      <4>2. Formatted(memory)[b] = CASE b = 0 -> memory[0]
                                     [] b \in 1..2 -> Mad(b)
                                     [] b = 3 -> Trailer("mad")
                                     [] b = 4 -> EmptyNdef
                                     [] b > 4 -> IF b = TrailerOf(b)
                                                 THEN Trailer("ndef") ELSE Blank
        BY <2>3 DEF Formatted
      <4>3. CASE b = 0
        BY <3>2, <4>2, <4>3
      <4>4. CASE b # 0
        <5>1. b \in Nat
          BY <2>3
        <5>2. FormattedAt(b) = Formatted(memory)[b]
          BY <4>2, <4>4, <5>1 DEF FormattedAt
        <5> QED
          BY <3>2, <4>1, <4>4, <5>2
      <4> QED
        BY <4>3, <4>4
    <3> QED
      BY <3>1, <3>2
  <2>5. memory = [b \in Blocks |->
                    IF \E i \in 1..n : DataBlock(i) = b THEN Chunk(attempted, piece(b))
                    ELSE Formatted(memory)[b]]
    BY <2>3, <2>4
  <2> QED
    BY <2>1, <2>5
<1> QED
  BY <1>1, TaskInvariant, WriteInvariant, PTL
=============================================================================
