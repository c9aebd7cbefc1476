------------------------------ MODULE TagTask ------------------------------
(***************************************************************************)
(* What the driver does with an activated tag: next_task_ and the message  *)
(* to write, the task that process_rf_intf_activated_oid_() runs, one      *)
(* exchange with the tag at a time, the automations it calls, and the tag, *)
(* which may leave or fail to be heard at every exchange.                  *)
(*                                                                         *)
(* The task runs inside one call of loop(), so the user's calls come       *)
(* between two tasks or from an automation.  Which tag is activated, and   *)
(* the removal of tags, are TagCache's; here a tag's cache entry is its    *)
(* trig_called.                                                            *)
(***************************************************************************)
EXTENDS MifareUltralight, FiniteSets

CONSTANTS
  Classic, Ultralight,   \* the tags of each kind
  Messages,              \* messages, by their length
  Capacities,            \* of the Ultralight tags, in bytes
  MaxFaults,             \* bound: exchanges that fail in a behaviour
  MaxCalls               \* bound: calls of the user in a behaviour

ASSUME TaskAssumption ==
  /\ Classic \cap Ultralight = {}
  /\ Messages \subseteq Nat \ {0}
  /\ Capacities \subseteq Nat
  /\ \A bytes \in Capacities : bytes >= MIFARE_ULTRALIGHT_PAGE_SIZE   \* page 4 exists
  /\ MaxFaults \in Nat
  /\ MaxCalls \in Nat

Tags == Classic \cup Ultralight
NoTag == "no tag"
NoMsg == 0
Tasks == {"EP_READ", "EP_CLEAN", "EP_FORMAT", "EP_WRITE"}

VARIABLES
  pc,           \* loop, task (exchanging), on_tag, on_finished_write, end
  next_task,
  next_task_message_to_write,
  present,      \* the tag on the reader
  working,      \* the tag of the task: working_endpoint
  stage,        \* the operation that runs: clean, format, write or read
  plan,         \* the exchanges it has still to make
  status,       \* what it will return
  trig_called,
  mem,          \* what each tag holds
  faults,       \* exchanges that have still to fail
  calls,        \* the user's calls so far
  touched,      \* tags written to since a task was last asked for
  disturbed,    \* an exchange of this operation failed, or the tag left
  attempted,    \* the message write_endpoint_() was last called with
  written       \* the message a tag holds after a write without a failed
                \* exchange that returned OK

tag     == <<mem, present, faults>>
task    == <<working, stage, plan, status, disturbed>>
request == <<next_task, next_task_message_to_write>>
history == <<calls, touched, attempted, written>>
vars    == <<pc, tag, task, request, trig_called, history>>

-----------------------------------------------------------------------------
(* read_endpoint_data_(), clean_endpoint_(), format_endpoint_() and         *)
(* write_endpoint_(): the operations by kind of tag                         *)

\* What an operation sends, and what it returns if nothing fails
PlanOf(t, op, m) ==
  IF t \in Classic
  THEN CASE op = "clean"  -> [steps |-> CleanPlan, status |-> "OK"]
         [] op = "format" -> [steps |-> FormatPlan, status |-> "OK"]
         [] op = "write"  -> [steps |-> WritePlan(m), status |-> "OK"]
         [] op = "read"   -> [steps |-> ReadPlan(mem[t]),
                              status |-> IF Announced(mem[t]) = 0 THEN "FAILED" ELSE "OK"]
  ELSE CASE op \in {"clean", "format"} -> [steps |-> UlCleanPlan(mem[t]), status |-> "OK"]
         [] op = "write"  ->
              IF Fits(mem[t], m) THEN [steps |-> UlWritePlan(m), status |-> "OK"]
              ELSE [steps |-> <<ReadCapacity("abort")>>, status |-> "FAILED"]
         [] op = "read"   ->
              [steps |-> UlReadPlan(mem[t]),
               status |-> IF AnnouncedBytes(mem[t]) = 0 THEN "FAILED" ELSE "OK"]

PiecesOf(t) == IF t \in Classic THEN Pieces(mem[t]) ELSE UlPieces(mem[t])

Begin(t, op, m) ==
  /\ pc' = "task"
  /\ working' = t
  /\ stage' = op
  /\ plan' = PlanOf(t, op, m).steps
  /\ status' = PlanOf(t, op, m).status
  /\ disturbed' = FALSE

-----------------------------------------------------------------------------
(* process_rf_intf_activated_oid_() *)

Waiting == pc = "loop" /\ present # NoTag

FirstOperation ==
  CASE next_task = "EP_CLEAN" -> "clean"
    [] next_task \in {"EP_FORMAT", "EP_WRITE"} -> "format"
    [] next_task = "EP_READ" -> "read"

\* EP_READ does nothing with a tag that was reported, EP_WRITE nothing
\* without a message.
NothingToDo ==
  \/ next_task = "EP_READ" /\ trig_called[present]
  \/ next_task = "EP_WRITE" /\ next_task_message_to_write = NoMsg

Activated ==
  /\ Waiting
  /\ ~NothingToDo
  /\ Begin(present, FirstOperation, next_task_message_to_write)
  /\ UNCHANGED <<tag, request, trig_called, history>>

ActivatedForNothing ==
  /\ Waiting
  /\ NothingToDo
  /\ pc' = "end"
  /\ UNCHANGED <<tag, task, request, trig_called, history>>

-----------------------------------------------------------------------------
(* One exchange: transceive_() with the tag *)

Understands(t, e) ==
  IF t \in Classic THEN Accepts(mem[t], e) ELSE UlAccepts(mem[t], e)

Effect(e) == IF e.do = "write" THEN [mem EXCEPT ![working][e.cell] = e.data] ELSE mem

Touch(e) ==
  IF e.do = "write"
  THEN /\ touched' = touched \cup {working}
       /\ written' = [written EXCEPT ![working] = NoMsg]
  ELSE UNCHANGED <<touched, written>>

Current == plan[1]

Succeeds ==
  /\ pc = "task" /\ plan # <<>>
  /\ present = working /\ Understands(working, Current)
  /\ mem' = Effect(Current)
  /\ Touch(Current)
  /\ plan' = Tail(plan)
  /\ UNCHANGED <<pc, present, faults, working, stage, status, disturbed,
                 request, trig_called, calls, attempted>>

BadReaction(fail) ==
  CASE fail = "abort"    -> [plan |-> <<>>, status |-> "FAILED"]
    [] fail = "end"      -> [plan |-> <<>>, status |-> status]
    [] fail \in {"remember", "skip"} -> [plan |-> Tail(plan), status |-> status]

\* Where the exchanges with the next sector begin
NextSector ==
  Min({i \in 1..Len(plan) + 1 :
         i \in DOMAIN plan => sect_to_auth(plan[i].cell) # sect_to_auth(Current.cell)})

\* How the operation goes on after an exchange that failed
Reaction(fail) ==
  CASE fail = "abort"    -> [plan |-> <<>>, status |-> "FAILED"]
    [] fail = "remember" -> [plan |-> Tail(plan), status |-> "FAILED"]
    [] fail = "end"      -> [plan |-> <<>>, status |-> status]
    [] fail = "skip"     -> [plan |-> SubSeq(plan, NextSector, Len(plan)), status |-> status]

React ==
  /\ plan' = Reaction(Current.fail).plan
  /\ status' = Reaction(Current.fail).status

\* The tag left, or refuses
Refused ==
  /\ pc = "task" /\ plan # <<>>
  /\ present # working \/ ~Understands(working, Current)
  /\ React
  /\ disturbed' = (disturbed \/ present # working)
  /\ UNCHANGED <<pc, tag, working, stage, request, trig_called, history>>

\* The exchange is lost on the way to the tag or on the way back.
Garbled ==
  /\ pc = "task" /\ plan # <<>>
  /\ present = working /\ Understands(working, Current)
  /\ faults > 0
  /\ faults' = faults - 1
  /\ \/ mem' = Effect(Current) /\ Touch(Current)
     \/ UNCHANGED <<mem, touched, written>>
  /\ React
  /\ disturbed' = TRUE
  /\ UNCHANGED <<pc, present, working, stage, request, trig_called, calls, attempted>>

\* write_mifare_ultralight_page_() does not look at the answer: the chip's
\* word that the tag refused, or is gone, passes for success.
TakenForDone ==
  /\ pc = "task" /\ plan # <<>>
  /\ working \in Ultralight /\ Current.do = "write"
  /\ \/ present # working /\ UNCHANGED faults
     \/ present = working /\ faults > 0 /\ faults' = faults - 1
  /\ plan' = Tail(plan)
  /\ disturbed' = TRUE
  /\ UNCHANGED <<pc, mem, present, working, stage, status, request, trig_called, history>>

-----------------------------------------------------------------------------
(* The end of an operation *)

Returns(op) == pc = "task" /\ plan = <<>> /\ stage = op

\* The result of a task that is not EP_WRITE is only logged.
ErasingReturns ==
  /\ \/ Returns("clean")
     \/ Returns("format") /\ (next_task # "EP_WRITE" \/ status # "OK")
  /\ pc' = "end"
  /\ UNCHANGED <<tag, task, request, trig_called, history>>

BadFormattedForWriting ==
  /\ Returns("format")
  /\ next_task = "EP_WRITE"
  /\ Begin(working, "write", next_task_message_to_write)
  /\ attempted' = next_task_message_to_write
  /\ UNCHANGED <<tag, request, trig_called, calls, touched, written>>

\* EP_WRITE: the message is written to a tag that could be formatted.
FormattedForWriting ==
  /\ Returns("format")
  /\ next_task = "EP_WRITE" /\ status = "OK"
  /\ Begin(working, "write", next_task_message_to_write)
  /\ attempted' = next_task_message_to_write
  /\ UNCHANGED <<tag, request, trig_called, calls, touched, written>>

\* A failed write is finished as a successful one is.
FinishedWrite ==
  /\ Returns("write")
  /\ pc' = "on_finished_write"
  /\ next_task_message_to_write' = NoMsg
  /\ written' = IF status = "OK" /\ ~disturbed THEN [written EXCEPT ![working] = attempted] ELSE written
  /\ UNCHANGED <<tag, task, next_task, trig_called, calls, touched, attempted>>

\* on_tag, whether the tag could be read or not
FinishedRead ==
  /\ Returns("read")
  /\ pc' = "on_tag"
  /\ trig_called' = [trig_called EXCEPT ![working] = TRUE]
  /\ UNCHANGED <<tag, task, request, history>>

BadAutomationReturns ==
  /\ pc \in {"on_tag", "on_finished_write"}
  /\ pc' = "end"
  /\ next_task_message_to_write' = NoMsg
  /\ UNCHANGED <<tag, task, next_task, trig_called, history>>

AutomationReturns ==
  /\ pc \in {"on_tag", "on_finished_write"}
  /\ pc' = "end"
  /\ UNCHANGED <<tag, task, request, trig_called, history>>

BadEnd ==
  /\ pc = "end"
  /\ pc' = "loop"
  /\ working' = NoTag /\ stage' = "none" /\ plan' = <<>>
  /\ status' = "OK" /\ disturbed' = FALSE
  /\ attempted' = NoMsg
  /\ UNCHANGED <<tag, request, trig_called, calls, touched, written>>

\* halt_mifare_classic_tag_() and, for all but EP_READ, read_mode(); the
\* deactivation belongs to NciFsm.  The locals of the task are gone.
End ==
  /\ pc = "end"
  /\ pc' = "loop"
  /\ next_task' = "EP_READ"
  /\ working' = NoTag /\ stage' = "none" /\ plan' = <<>>
  /\ status' = "OK" /\ disturbed' = FALSE
  /\ attempted' = NoMsg
  /\ UNCHANGED <<tag, next_task_message_to_write, trig_called, calls, touched, written>>

-----------------------------------------------------------------------------
(* The user's automations, between two tasks or called by one *)

UserCalls ==
  /\ pc \in {"loop", "on_tag", "on_finished_write"}
  /\ calls < MaxCalls
  /\ calls' = calls + 1

\* read_mode(), clean_mode() and format_mode(); write_mode() wants a message.
SetMode(mode) ==
  /\ UserCalls
  /\ mode = "EP_WRITE" => next_task_message_to_write # NoMsg
  /\ next_task' = mode
  /\ touched' = {}
  /\ UNCHANGED <<pc, tag, task, next_task_message_to_write, trig_called,
                 attempted, written>>

SetTagWriteMessage(m) ==
  /\ UserCalls
  /\ next_task_message_to_write' = m
  /\ UNCHANGED <<pc, tag, task, next_task, trig_called, touched, attempted, written>>

User == (\E mode \in Tasks : SetMode(mode)) \/ (\E m \in Messages : SetTagWriteMessage(m))

-----------------------------------------------------------------------------
(* The tags *)

Arrives(t) ==
  /\ pc = "loop" /\ present = NoTag
  /\ present' = t
  /\ UNCHANGED <<pc, mem, faults, task, request, trig_called, history>>

\* A tag may leave at every exchange of a task.
Leaves ==
  /\ pc \in {"loop", "task"} /\ present # NoTag
  /\ present' = NoTag
  /\ UNCHANGED <<pc, mem, faults, task, request, trig_called, history>>

\* purge_old_tags_(): the tag's cache entry expires.
Expires(t) ==
  /\ pc = "loop" /\ present # t
  /\ trig_called[t]
  /\ trig_called' = [trig_called EXCEPT ![t] = FALSE]
  /\ UNCHANGED <<pc, tag, task, request, history>>

World == Leaves \/ \E t \in Tags : Arrives(t) \/ Expires(t)

-----------------------------------------------------------------------------
(* The states tags come in *)

Blocks == 0..LastBlock

FactoryClassic == [b \in Blocks |-> IF b = TrailerOf(b) THEN Trailer("factory") ELSE Blank]

\* The last sector has someone else's keys.
ForeignClassic == [FactoryClassic EXCEPT ![LastBlock] = Trailer("foreign")]
FactoryUl(bytes) ==
  [p \in 3..(3 + bytes \div MIFARE_ULTRALIGHT_PAGE_SIZE) |->
     IF p = 3 THEN CapabilityContainer(bytes) ELSE Blank]

\* A tag that holds a message written elsewhere
Holds(memory, Cell(_), m, size) ==
  LET n == CellsFor(m, size)
  IN  [c \in DOMAIN memory |->
         IF \E i \in 1..n : Cell(i) = c THEN Chunk(m, CHOOSE i \in 1..n : Cell(i) = c)
         ELSE memory[c]]

InitialMem(t) ==
  IF t \in Classic
  THEN {FactoryClassic, ForeignClassic}
         \cup {Holds(Formatted(FactoryClassic), DataBlock, m, MIFARE_CLASSIC_BLOCK_SIZE) : m \in Messages}
  ELSE UNION {{FactoryUl(bytes)}
                \cup {Holds(FactoryUl(bytes), DataPage, m, MIFARE_ULTRALIGHT_PAGE_SIZE) :
                         m \in {m \in Messages : Fits(FactoryUl(bytes), m)}} :
              bytes \in Capacities}

Init ==
  /\ pc = "loop"
  /\ next_task = "EP_READ"
  /\ next_task_message_to_write = NoMsg
  /\ present = NoTag
  /\ working = NoTag /\ stage = "none" /\ plan = <<>>
  /\ status = "OK" /\ disturbed = FALSE
  /\ trig_called = [t \in Tags |-> FALSE]
  /\ mem \in {f \in [Tags -> UNION {InitialMem(t) : t \in Tags}] :
                \A t \in Tags : f[t] \in InitialMem(t)}
  /\ faults = MaxFaults
  /\ calls = 0
  /\ touched = {}
  /\ attempted = NoMsg
  /\ written = [t \in Tags |-> NoMsg]

Task == \/ Activated \/ ActivatedForNothing
        \/ Succeeds \/ Refused \/ Garbled \/ TakenForDone
        \/ ErasingReturns \/ FormattedForWriting \/ FinishedWrite \/ FinishedRead
        \/ AutomationReturns \/ End

Next == Task \/ User \/ World

Spec == Init /\ [][Next]_vars

-----------------------------------------------------------------------------
(* Properties *)

IsTrailer(t, cell) == t \in Classic /\ cell = TrailerOf(cell)

\* Every variable has its type, and a tag holds data and trailers apart.
TypeOK ==
  /\ pc \in {"loop", "task", "on_tag", "on_finished_write", "end"}
  /\ next_task \in Tasks
  /\ {next_task_message_to_write, attempted} \subseteq Messages \cup {NoMsg}
  /\ {present, working} \subseteq Tags \cup {NoTag}
  /\ stage \in {"none", "clean", "format", "write", "read"}
  /\ status \in {"OK", "FAILED"}
  /\ trig_called \in [Tags -> BOOLEAN]
  /\ written \in [Tags -> Messages \cup {NoMsg}]
  /\ touched \subseteq Tags
  /\ disturbed \in BOOLEAN
  /\ faults \in 0..MaxFaults
  /\ calls \in 0..MaxCalls
  /\ \A t \in Tags : \A c \in DOMAIN mem[t] :
       mem[t][c][1] \in IF IsTrailer(t, c) THEN {"factory", "mad", "ndef", "foreign"}
                        ELSE {"blank", "empty", "mad", "chunk", "capacity"}

\* The driver waits in write mode only with a message to write: a message is
\* gone only together with the mode that needs it.
WriteModeHasMessage ==
  pc = "loop" /\ next_task = "EP_WRITE" => next_task_message_to_write # NoMsg

\* A request to clean, format or write changes one tag at most, whatever
\* comes and goes before and after, and whatever the automations of that task
\* ask for.
OneTagPerRequest == Cardinality(touched) <= 1

\* A tag that came with the default keys
Ours(t) == \A c \in DOMAIN mem[t] : mem[t][c] # Trailer("foreign")

\* An operation that erases and returns OK has done all its work, unless an
\* exchange failed that it passes over: a sector that refuses the key while
\* cleaning, the capacity of an Ultralight tag, or a write to one of its pages.
\* Not on an Ultralight tag whose last page does not fit a byte: there the
\* number of pages wraps, and little or nothing is cleaned.
OkMeansDone ==
  pc = "task" /\ plan = <<>> /\ status = "OK" =>
    /\ stage = "format" /\ working \in Classic => mem[working] = Formatted(mem[working])
    /\ stage = "clean" /\ working \in Classic /\ ~disturbed /\ Ours(working)
         => mem[working] = Cleaned(mem[working])
    /\ stage \in {"clean", "format"} /\ working \in Ultralight /\ ~disturbed
         /\ EndOfData(mem[working]) < BYTE
         => mem[working] = UlCleaned(mem[working])

\* No task locks the driver out: whatever was interrupted before, a tag that
\* came with the default keys can be formatted again.
NoLockout ==
  pc = "task" /\ plan = <<>> /\ stage = "format" /\ ~disturbed /\ Ours(working)
    => status = "OK"

\* What a write that returned OK put on a tag is what a later read delivers.
\* Not on an Ultralight if the message is long, whose form its reader does
\* not know, or if an exchange failed, which its writer does not notice.
ReadBack ==
  pc = "on_tag" /\ written[working] # NoMsg
  /\ ~(working \in Ultralight /\ IsLong(written[working]))
    => /\ ~disturbed => status = "OK"
       /\ status = "OK" =>
            \A i \in DOMAIN PiecesOf(working) :
              PiecesOf(working)[i] = Chunk(written[working], i)

\* When on_finished_write is called the old contents are gone: a classic tag
\* holds a freshly formatted memory and the first pieces of the new message,
\* in their places, all of them only if the write did not fail.
WriteLeavesPrefix ==
  pc = "on_finished_write" /\ working \in Classic =>
    \E n \in 0..CellsFor(attempted, MIFARE_CLASSIC_BLOCK_SIZE) :
      /\ mem[working] =
           [b \in Blocks |->
              IF \E i \in 1..n : DataBlock(i) = b
              THEN Chunk(attempted, CHOOSE i \in 1..n : DataBlock(i) = b)
              ELSE Formatted(mem[working])[b]]
      /\ status = "OK" => n = CellsFor(attempted, MIFARE_CLASSIC_BLOCK_SIZE)

\* A message is dropped only after the driver tried to write that message:
\* one that an automation sets in on_finished_write is there for the next tag.
DroppedOnlyWritten ==
  [][next_task_message_to_write' = NoMsg /\ next_task_message_to_write # NoMsg
       => next_task_message_to_write = attempted]_vars
=============================================================================
