------------------------- MODULE CardEmulationProofs -------------------------
(***************************************************************************)
(* Proofs about CardEmulation for every set of messages, size of a READ    *)
(* and number of readers: the types, that a session which nothing disturbs *)
(* runs as its reader expects, and that the driver is back in discovery    *)
(* after it.                                                               *)
(***************************************************************************)
EXTENDS CardEmulation, TLAPS, SequenceTheorems

\* The groups of variables that UNCHANGED names
USE DEF switch, host, theirs, history

-----------------------------------------------------------------------------
(* Types *)

Byte == Messages \X Int

Response == [answered : BOOLEAN, bytes : Seq(Byte)]

ChipMessage ==
  [mt : {"data", "ntf"},
   op : {"APP", "CC", "NDEF", "READ", "WRITE", "ACTIVATED", "DEACTIVATED", "CREDIT"},
   offset : Nat, length : Int]

\* The conjuncts of TypeOK, by who changes them, with what the chip's queue and
\* the reader's copy hold.  A chip that listens was told to when there was a
\* message, and a message is never withdrawn.
HostTypeOK ==
  /\ pc \in {"loop", "reply"}
  /\ nci_state \in {"RFST_DISCOVERY", "RFST_LISTEN_ACTIVE"}
  /\ ce_state \in CeStates
  /\ card_emulation_message \in Messages \cup {NoMessage}
  /\ response \in Response
  /\ pc = "reply" <=> response.answered

SwitchTypeOK ==
  /\ listening_enabled \in BOOLEAN
  /\ config_refresh_pending \in BOOLEAN
  /\ chip_listens \in BOOLEAN
  /\ listening_enabled => card_emulation_message # NoMessage
  /\ chip_listens => card_emulation_message # NoMessage

Readers == {"away", "APP", "CC", "READ CC", "NDEF", "LENGTH", "DATA", "WRITE"}

ReaderTypeOK ==
  /\ reader \in Readers
  /\ waiting \in BOOLEAN
  /\ size \in Messages \cup {0}
  /\ copy \in Seq(Byte)
  /\ out \in Seq(ChipMessage)

HistoryTypeOK ==
  /\ scans \in Nat
  /\ changed \in BOOLEAN
  /\ crossed \in BOOLEAN
  /\ swallowed \in BOOLEAN

TypeInv == HostTypeOK /\ SwitchTypeOK /\ ReaderTypeOK /\ HistoryTypeOK

LEMMA TypeInvImplies ==
  ASSUME TypeInv
  PROVE  TypeOK
BY DEF TypeInv, TypeOK, HostTypeOK, SwitchTypeOK, ReaderTypeOK, HistoryTypeOK, Readers

LEMMA MessagesAreNat ==
  /\ Messages \subseteq Nat /\ NoMessage \notin Messages
  /\ MaxRead \in Nat /\ MaxRead > 1
BY EmulationAssumption DEF NoMessage

\* Bytes(m, first, last) is the part of the file from first to last.
LEMMA BytesAre ==
  ASSUME NEW m \in Messages, NEW first \in Int, NEW last \in Int
  PROVE  /\ Bytes(m, first, last) \in Seq(Byte)
         /\ Len(Bytes(m, first, last)) = IF first <= last THEN last - first + 1 ELSE 0
         /\ \A i \in 1..(last - first + 1) : Bytes(m, first, last)[i] = <<m, first + i - 1>>
<1> DEFINE n == IF first <= last THEN last - first + 1 ELSE 0
           b == [i \in 1..n |-> <<m, first + i - 1>>]
<1>1. n \in Nat /\ 1..n = 1..(last - first + 1)
  OBVIOUS
<1>2. Bytes(m, first, last) = b
  BY <1>1 DEF Bytes
<1>3. \A i \in 1..n : <<m, first + i - 1>> \in Byte
  BY <1>1 DEF Byte
<1> HIDE DEF n
<1>4. b \in [1..n -> Byte]
  BY <1>3
<1>5. b \in Seq(Byte) /\ Len(b) = n
  BY <1>1, <1>4
<1>6. \A i \in 1..n : b[i] = <<m, first + i - 1>>
  OBVIOUS
<1> QED
  BY <1>1, <1>2, <1>5, <1>6 DEF n

\* The length field, and the part of a message that a READ of the field has
LEMMA LengthFieldIs ==
  ASSUME NEW m \in Messages
  PROVE  /\ Bytes(m, -1, 0) \in Seq(Byte) /\ Len(Bytes(m, -1, 0)) = 2
         /\ Bytes(m, -1, 0)[1] = <<m, -1>>
         /\ Bytes(m, 1, 0) \in Seq(Byte) /\ Len(Bytes(m, 1, 0)) = 0
<1> DEFINE first == -1
<1>1. first \in Int /\ first <= 0 /\ 0 - first + 1 = 2 /\ first + 1 - 1 = first /\ 1 \in 1..2
  OBVIOUS
<1> HIDE DEF first
<1>2. /\ Bytes(m, first, 0) \in Seq(Byte) /\ Len(Bytes(m, first, 0)) = 2
      /\ Bytes(m, first, 0)[1] = <<m, first>>
  <2>1. /\ Bytes(m, first, 0) \in Seq(Byte)
        /\ Len(Bytes(m, first, 0)) = IF first <= 0 THEN 0 - first + 1 ELSE 0
        /\ \A i \in 1..(0 - first + 1) : Bytes(m, first, 0)[i] = <<m, first + i - 1>>
    <3>1. 0 \in Int
      OBVIOUS
    <3> QED
      BY <1>1, <3>1, BytesAre, Zenon
  <2> QED
    BY <1>1, <2>1
<1>3. Bytes(m, 1, 0) \in Seq(Byte) /\ Len(Bytes(m, 1, 0)) = 0
  <2>1. /\ Bytes(m, 1, 0) \in Seq(Byte)
        /\ Len(Bytes(m, 1, 0)) = IF 1 <= 0 THEN 0 - 1 + 1 ELSE 0
    <3>1. 0 \in Int /\ 1 \in Int
      OBVIOUS
    <3> QED
      BY <3>1, BytesAre, Zenon
  <2> QED
    BY <2>1
<1> QED
  BY <1>2, <1>3 DEF first

LEMMA ReadAnswerType ==
  ASSUME NEW m \in Messages, NEW offset \in Nat, NEW length \in Int
  PROVE  ReadAnswer(m, offset, length) \in Seq(Byte)
<1>1. /\ Bytes(m, -1, 0) \in Seq(Byte) /\ Bytes(m, 0, 0) \in Seq(Byte)
      /\ Bytes(m, 1, length - 2) \in Seq(Byte) /\ Bytes(m, 1, length - 1) \in Seq(Byte)
      /\ Bytes(m, 1, length) \in Seq(Byte)
  BY BytesAre
<1>2. /\ Bytes(m, -1, 0) \o Bytes(m, 1, length - 2) \in Seq(Byte)
      /\ Bytes(m, 0, 0) \o Bytes(m, 1, length - 1) \in Seq(Byte)
  BY <1>1, ConcatProperties
<1> QED
  BY <1>1, <1>2 DEF ReadAnswer

\* A command changes the selected file, or nothing.
LEMMA SelectedType ==
  ASSUME ce_state \in CeStates, NEW c
  PROVE  Selected(c) \in CeStates
BY DEF Selected, CeStates

LEMMA ResponseToType ==
  ASSUME TypeInv, NEW c \in ChipMessage
  PROVE  ResponseTo(c) \in Response
<1>1. <<>> \in Seq(Byte)
  OBVIOUS
<1>2. Silence \in Response /\ Answer(<<>>) \in Response
  BY <1>1 DEF Silence, Answer, Response
<1>3. CASE card_emulation_message = NoMessage
  BY <1>2, <1>3 DEF ResponseTo
<1>4. CASE card_emulation_message # NoMessage
  <2> DEFINE a == ReadAnswer(card_emulation_message, c.offset, c.length)
  <2>1. a \in Seq(Byte)
    BY <1>4, ReadAnswerType DEF TypeInv, HostTypeOK, ChipMessage
  <2>2. Answer(a) \in Response
    BY <2>1 DEF Answer, Response
  <2>3. ResponseTo(c) \in {Silence, Answer(<<>>), Answer(a)}
    BY <1>4 DEF ResponseTo
  <2> HIDE DEF a
  <2> QED
    BY <1>2, <2>2, <2>3
<1> QED
  BY <1>3, <1>4

LEMMA QueueTypes ==
  ASSUME TypeInv
  PROVE  /\ out # <<>> => Head(out) \in ChipMessage /\ Tail(out) \in Seq(ChipMessage)
         /\ \A c \in ChipMessage : Append(out, c) \in Seq(ChipMessage)
         /\ out # <<>> => \A c \in ChipMessage : Append(Tail(out), c) \in Seq(ChipMessage)
BY HeadTailProperties, AppendProperties DEF TypeInv, ReaderTypeOK

LEMMA ChipMessages ==
  /\ {ActivatedNtf, DeactivatedNtf, CreditNtf} \subseteq ChipMessage
  /\ Command("WRITE", 0, 0) \in ChipMessage
  /\ \A file \in {"APP", "CC", "NDEF"} : Select(file) \in ChipMessage
  /\ \A offset \in Nat, length \in Int : ReadFile(offset, length) \in ChipMessage
BY DEF ActivatedNtf, DeactivatedNtf, CreditNtf, Ntf, Select, ReadFile, Command, ChipMessage

\* The length of the copy, what is missing, and the part that is asked for
Part == IF Rest < MaxRead THEN Rest ELSE MaxRead

LEMMA RestType ==
  ASSUME ReaderTypeOK
  PROVE  size \in Nat /\ Len(copy) \in Nat /\ Rest \in Int /\ Part \in Int
<1>1. size \in Nat
  BY MessagesAreNat DEF ReaderTypeOK
<1>2. Len(copy) \in Nat
  BY DEF ReaderTypeOK
<1>3. Rest \in Int
  BY <1>1, <1>2 DEF Rest
<1> QED
  BY <1>1, <1>2, <1>3, MessagesAreNat DEF Part

LEMMA NextCommandType ==
  ASSUME ReaderTypeOK, reader \notin {"away", "WRITE"}
  PROVE  NextCommand \in ChipMessage
<1>1. 2 + Len(copy) \in Nat
  BY RestType
<1>2. CASE reader \in {"APP", "CC", "NDEF"}
  BY <1>2, ChipMessages DEF NextCommand
<1>3. CASE reader = "READ CC"
  <2>1. NextCommand = ReadFile(0, 15)
    BY <1>3 DEF NextCommand
  <2>2. 0 \in Nat /\ 15 \in Int
    OBVIOUS
  <2> QED
    BY <2>1, <2>2, ChipMessages
<1>4. CASE reader = "LENGTH"
  BY <1>4, ChipMessages DEF NextCommand
<1>5. CASE reader = "DATA"
  BY <1>1, <1>5, ChipMessages, RestType DEF NextCommand, Part
<1> QED
  BY <1>2, <1>3, <1>4, <1>5 DEF ReaderTypeOK, Readers

-----------------------------------------------------------------------------
(* TypeInv is inductive *)

\* What a reply leaves with the reader
LEMMA DeliveredType ==
  ASSUME ReaderTypeOK, response \in Response, Delivered
  PROVE  /\ reader' \in Readers /\ waiting' \in BOOLEAN
         /\ size' \in Messages \cup {0} /\ copy' \in Seq(Byte)
<1>1. CASE reader # "away" /\ waiting
  <2>1. reader' \in Readers /\ waiting' \in BOOLEAN
    BY <1>1 DEF Delivered, ReaderTypeOK, Readers
  <2>2. response.bytes \in Seq(Byte)
    BY DEF Response
  <2>3. copy \o response.bytes \in Seq(Byte)
    BY <2>2, ConcatProperties DEF ReaderTypeOK
  <2>4. copy' \in Seq(Byte)
    BY <1>1, <2>3 DEF Delivered, ReaderTypeOK
  <2>5. response.bytes # <<>> => response.bytes[1][1] \in Messages
    <3>1. response.bytes # <<>> => response.bytes[1] \in Byte
      BY <2>2
    <3> QED
      BY <3>1 DEF Byte
  <2>6. size' \in Messages \cup {0}
    BY <1>1, <2>5 DEF Delivered, ReaderTypeOK
  <2> QED
    BY <2>1, <2>4, <2>6
<1>2. CASE ~(reader # "away" /\ waiting)
  BY <1>2 DEF Delivered, ReaderTypeOK
<1> QED
  BY <1>1, <1>2

LEMMA TypeStep ==
  ASSUME TypeInv, [Next]_vars
  PROVE  TypeInv'
<1> USE DEF TypeInv
<1>q. /\ out # <<>> => Head(out) \in ChipMessage /\ Tail(out) \in Seq(ChipMessage)
      /\ \A c \in ChipMessage : Append(out, c) \in Seq(ChipMessage)
      /\ out # <<>> => \A c \in ChipMessage : Append(Tail(out), c) \in Seq(ChipMessage)
  BY QueueTypes
<1>s. Silence \in Response /\ ~Silence.answered
  <2>1. <<>> \in Seq(Byte)
    OBVIOUS
  <2> QED
    BY <2>1 DEF Silence, Response
<1>h. ASSUME UNCHANGED <<pc, host, response>>
      PROVE  HostTypeOK' /\ SwitchTypeOK'
  BY <1>h DEF HostTypeOK, SwitchTypeOK
<1>r. ASSUME UNCHANGED <<theirs, out>>
      PROVE  ReaderTypeOK'
  BY <1>r DEF ReaderTypeOK
<1>y. ASSUME UNCHANGED history
      PROVE  HistoryTypeOK'
  BY <1>y DEF HistoryTypeOK
<1>1. CASE ProcessData
  <2>1. ResponseTo(Head(out)) \in Response
    BY <1>1, <1>q, ResponseToType DEF ProcessData, HasMessage
  <2>2. ce_state' \in CeStates
    BY <1>1, SelectedType DEF ProcessData, HostTypeOK
  <2>3. HostTypeOK'
    BY <1>1, <2>1, <2>2 DEF ProcessData, HostTypeOK, Response
  <2>4. SwitchTypeOK'
    BY <1>1 DEF ProcessData, SwitchTypeOK
  <2>5. ReaderTypeOK'
    BY <1>1, <1>q DEF ProcessData, HasMessage, ReaderTypeOK
  <2>6. HistoryTypeOK'
    BY <1>1 DEF ProcessData, HistoryTypeOK
  <2> QED
    BY <2>3, <2>4, <2>5, <2>6
<1>2. CASE Reply
  <2>1. HostTypeOK' /\ SwitchTypeOK'
    BY <1>2, <1>s DEF Reply, HostTypeOK, SwitchTypeOK
  <2>2. out' \in Seq(ChipMessage)
    <3>1. <<>> \in Seq(ChipMessage)
      OBVIOUS
    <3> QED
      BY <1>2, <1>q, <3>1, ChipMessages DEF Reply
  <2>3. ReaderTypeOK'
    BY <1>2, <2>2, DeliveredType DEF Reply, HostTypeOK, ReaderTypeOK
  <2>4. HistoryTypeOK'
    BY <1>2 DEF Reply, HistoryTypeOK
  <2> QED
    BY <2>1, <2>3, <2>4
<1>3. CASE IgnoreCredit \/ ProcessActivation \/ ProcessDeactivation
  <2>1. HostTypeOK'
    BY <1>3 DEF IgnoreCredit, ProcessActivation, ProcessDeactivation, HostTypeOK, CeStates
  <2>2. SwitchTypeOK'
    BY <1>3 DEF IgnoreCredit, ProcessActivation, ProcessDeactivation, SwitchTypeOK
  <2>3. ReaderTypeOK'
    BY <1>3, <1>q
    DEF IgnoreCredit, ProcessActivation, ProcessDeactivation, HasMessage, ReaderTypeOK
  <2> QED
    BY <1>3, <1>y, <2>1, <2>2, <2>3 DEF IgnoreCredit, ProcessActivation, ProcessDeactivation
<1>4. CASE RefreshIdle \/ RefreshMeetsReader
  <2>1. ce_state' \in CeStates
    BY <1>4, SelectedType DEF RefreshIdle, RefreshMeetsReader, HostTypeOK
  <2>2. HostTypeOK'
    BY <1>4, <2>1 DEF RefreshIdle, RefreshMeetsReader, Refresh, HostTypeOK
  <2>3. SwitchTypeOK'
    <3>1. Refresh
      BY <1>4 DEF RefreshIdle, RefreshMeetsReader
    <3> QED
      BY <3>1 DEF Refresh, SwitchTypeOK
  <2>4. <<>> \in Seq(ChipMessage)
    OBVIOUS
  <2>5. ReaderTypeOK'
    BY <1>4, <2>4 DEF RefreshIdle, RefreshMeetsReader, Refresh, ReaderTypeOK, Readers
  <2>6. HistoryTypeOK'
    BY <1>4 DEF RefreshIdle, RefreshMeetsReader, Refresh, HistoryTypeOK
  <2> QED
    BY <2>2, <2>3, <2>5, <2>6
<1>5. CASE User
  <2>1. CASE \E m \in Messages : SetTagEmulationMessage(m)
    <3>1. HostTypeOK' /\ SwitchTypeOK'
      BY <2>1, MessagesAreNat DEF SetTagEmulationMessage, HostTypeOK, SwitchTypeOK
    <3>2. ReaderTypeOK' /\ HistoryTypeOK'
      BY <2>1, <1>r DEF SetTagEmulationMessage, HistoryTypeOK
    <3> QED
      BY <3>1, <3>2
  <2>2. CASE SetTagEmulationOn \/ SetTagEmulationOff
    <3>1. HostTypeOK' /\ SwitchTypeOK'
      BY <2>2
      DEF SetTagEmulationOn, SetTagEmulationOff, SetListening, HostTypeOK, SwitchTypeOK
    <3> QED
      BY <2>2, <3>1, <1>r, <1>y DEF SetTagEmulationOn, SetTagEmulationOff, SetListening
  <2> QED
    BY <1>5, <2>1, <2>2 DEF User
<1>6. CASE ReaderArrives
  <2>1. <<>> \in Seq(Byte) /\ out' \in Seq(ChipMessage)
    BY <1>6, <1>q, ChipMessages DEF ReaderArrives
  <2>2. ReaderTypeOK'
    BY <1>6, <2>1 DEF ReaderArrives, ReaderTypeOK, Readers
  <2>3. HistoryTypeOK'
    BY <1>6 DEF ReaderArrives, HistoryTypeOK
  <2> QED
    BY <1>6, <1>h, <2>2, <2>3 DEF ReaderArrives
<1>7. CASE ReaderAsks \/ ReaderWrites \/ ReaderLeaves
  <2>1. out' \in Seq(ChipMessage)
    BY <1>7, <1>q, ChipMessages, NextCommandType DEF ReaderAsks, ReaderWrites, ReaderLeaves
  <2>2. ReaderTypeOK'
    BY <1>7, <2>1 DEF ReaderAsks, ReaderWrites, ReaderLeaves, ReaderTypeOK, Readers
  <2> QED
    BY <1>7, <1>h, <1>y, <2>2 DEF ReaderAsks, ReaderWrites, ReaderLeaves
<1>8. CASE UNCHANGED vars
  BY <1>8, <1>h, <1>r, <1>y DEF vars
<1> QED
  BY <1>1, <1>2, <1>3, <1>4, <1>5, <1>6, <1>7, <1>8 DEF Next, Driver, Reader

LEMMA TypeInit ==
  ASSUME Init
  PROVE  TypeInv
<1>1. <<>> \in Seq(Byte) /\ <<>> \in Seq(ChipMessage)
  OBVIOUS
<1>2. Silence \in Response /\ ~Silence.answered
  BY <1>1 DEF Silence, Response
<1> QED
  BY <1>1, <1>2
  DEF Init, TypeInv, HostTypeOK, SwitchTypeOK, ReaderTypeOK, HistoryTypeOK, CeStates, Readers

\* Every variable keeps its type, and emulation is never on without a message:
\* set_tag_emulation_on() wants one and nothing takes it away.
THEOREM TypeCorrect == Spec => []TypeOK
<1>1. Init => TypeInv
  BY TypeInit
<1>2. TypeInv /\ [Next]_vars => TypeInv'
  BY TypeStep
<1>3. TypeInv => TypeOK
  BY TypeInvImplies
<1> QED
  BY <1>1, <1>2, <1>3, PTL DEF Spec

-----------------------------------------------------------------------------
(* Back in discovery *)

\* Once the reader is away its deactivation waits in the queue, with nothing but
\* credits behind it, or it was processed.
DeactivationWaits ==
  \E i \in 1..Len(out) :
    /\ out[i] = DeactivatedNtf
    /\ \A j \in 1..Len(out) : j > i => out[j] = CreditNtf

OnlyCredits == \A j \in 1..Len(out) : out[j] = CreditNtf

BackInv ==
  ~swallowed /\ reader = "away" =>
    \/ DeactivationWaits
    \/ /\ OnlyCredits /\ pc = "loop"
       /\ nci_state = "RFST_DISCOVERY" /\ ce_state = "CARD_EMU_IDLE"

LEMMA AppendIs ==
  ASSUME NEW a, NEW n
  PROVE  Append(<<>>, a) = <<a>> /\ Append(<<n>>, a) = <<n, a>>
<1> DEFINE S == {a, n}
<1>1. Append(<<>>, a) = <<a>>
  OBVIOUS
<1>2. <<n>> \in Seq(S) /\ <<n, a>> \in Seq(S) /\ a \in S
  OBVIOUS
<1>3. Len(<<n>>) = 1 /\ Len(<<n, a>>) = 2 /\ <<n>>[1] = n /\ <<n, a>>[1] = n /\ <<n, a>>[2] = a
  OBVIOUS
<1> HIDE DEF S
<1>4. /\ Append(<<n>>, a) \in Seq(S) /\ Len(Append(<<n>>, a)) = 2
      /\ Append(<<n>>, a)[1] = n /\ Append(<<n>>, a)[2] = a
  BY <1>2, <1>3, AppendProperties
<1>5. \A i \in 1..2 : Append(<<n>>, a)[i] = <<n, a>>[i]
  <2>1. \A i \in 1..2 : i = 1 \/ i = 2
    OBVIOUS
  <2> QED
    BY <1>3, <1>4, <2>1
<1>6. Append(<<n>>, a) = <<n, a>>
  BY <1>2, <1>3, <1>4, <1>5, SeqEqual
<1> QED
  BY <1>1, <1>6

\* What a queue is without its first message, and with a credit at its end
LEMMA Shorter ==
  ASSUME ReaderTypeOK, out # <<>>
  PROVE  \E n \in Nat :
           /\ Len(out) = n + 1 /\ Head(out) = out[1]
           /\ Len(Tail(out)) = n /\ \A i \in 1..n : Tail(out)[i] = out[i + 1]
           /\ Len(Append(Tail(out), CreditNtf)) = n + 1
           /\ \A i \in 1..n : Append(Tail(out), CreditNtf)[i] = out[i + 1]
           /\ Append(Tail(out), CreditNtf)[n + 1] = CreditNtf
<1> DEFINE n == Len(out) - 1
           rest == Tail(out)
<1>1. out \in Seq(ChipMessage) /\ Len(out) \in Nat /\ Len(out) # 0
  BY EmptySeq DEF ReaderTypeOK
<1>2. n \in Nat /\ Len(out) = n + 1
  BY <1>1
<1>3. /\ Head(out) = out[1] /\ rest \in Seq(ChipMessage) /\ Len(rest) = n
      /\ \A i \in 1..n : rest[i] = out[i + 1]
  BY <1>1, HeadTailProperties DEF ReaderTypeOK
<1> HIDE DEF n, rest
<1>4. /\ Len(Append(rest, CreditNtf)) = n + 1
      /\ \A i \in 1..n : Append(rest, CreditNtf)[i] = rest[i]
      /\ Append(rest, CreditNtf)[n + 1] = CreditNtf
  BY <1>2, <1>3, ChipMessages, AppendProperties
<1> QED
  BY <1>2, <1>3, <1>4 DEF rest

\* It still waits when another message is taken from the front.
LEMMA StillWaits ==
  ASSUME ReaderTypeOK, DeactivationWaits, out # <<>>, Head(out) # DeactivatedNtf,
         out' \in {Tail(out), Append(Tail(out), CreditNtf)}
  PROVE  DeactivationWaits'
<1>1. PICK n \in Nat :
        /\ Len(out) = n + 1 /\ Head(out) = out[1]
        /\ Len(Tail(out)) = n /\ \A i \in 1..n : Tail(out)[i] = out[i + 1]
        /\ Len(Append(Tail(out), CreditNtf)) = n + 1
        /\ \A i \in 1..n : Append(Tail(out), CreditNtf)[i] = out[i + 1]
        /\ Append(Tail(out), CreditNtf)[n + 1] = CreditNtf
  BY Shorter
<1>2. PICK i \in 1..(n + 1) :
        /\ out[i] = DeactivatedNtf
        /\ \A j \in 1..(n + 1) : j > i => out[j] = CreditNtf
  BY <1>1 DEF DeactivationWaits
<1>3. i # 1
  BY <1>1, <1>2
<1>4. PICK k \in 1..n : i = k + 1
  BY <1>3
<1>5. /\ Len(out') = n \/ (Len(out') = n + 1 /\ (out')[n + 1] = CreditNtf)
      /\ \A j \in 1..n : (out')[j] = out[j + 1]
  BY <1>1
<1>6. (out')[k] = DeactivatedNtf /\ k \in 1..Len(out')
  BY <1>2, <1>4, <1>5
<1>7. \A j \in 1..n : j > k => (out')[j] = CreditNtf
  <2> SUFFICES ASSUME NEW j \in 1..n, j > k
               PROVE  (out')[j] = CreditNtf
    OBVIOUS
  <2>1. j + 1 \in 1..(n + 1) /\ j + 1 > i
    BY <1>4
  <2> QED
    BY <1>2, <1>5, <2>1
<1>8. \A j \in 1..Len(out') : j \in 1..n \/ (out')[j] = CreditNtf
  <2>1. \A j \in 1..(n + 1) : j \in 1..n \/ j = n + 1
    OBVIOUS
  <2> QED
    BY <1>5, <2>1
<1> QED
  BY <1>6, <1>7, <1>8 DEF DeactivationWaits

\* When the first message is taken it still waits or only credits are left.
LEMMA WaitsOrNot ==
  ASSUME ReaderTypeOK, DeactivationWaits \/ OnlyCredits, out # <<>>, out' = Tail(out)
  PROVE  /\ DeactivationWaits' \/ OnlyCredits'
         /\ OnlyCredits => OnlyCredits' /\ Head(out) = CreditNtf
<1>1. PICK n \in Nat :
        /\ Len(out) = n + 1 /\ Head(out) = out[1]
        /\ Len(Tail(out)) = n /\ \A i \in 1..n : Tail(out)[i] = out[i + 1]
  BY Shorter
<1>2. \A j \in 1..n : j + 1 \in 1..(n + 1) /\ j + 1 > 1
  OBVIOUS
<1>3. 1 \in 1..(n + 1)
  OBVIOUS
<1>4. OnlyCredits => OnlyCredits' /\ Head(out) = CreditNtf
  BY <1>1, <1>2, <1>3 DEF OnlyCredits
<1>5. CASE DeactivationWaits /\ Head(out) # DeactivatedNtf
  BY <1>4, <1>5, StillWaits
<1>6. CASE DeactivationWaits /\ Head(out) = DeactivatedNtf
  <2>1. PICK k \in 1..(n + 1) :
          /\ out[k] = DeactivatedNtf
          /\ \A j \in 1..(n + 1) : j > k => out[j] = CreditNtf
    BY <1>1, <1>6 DEF DeactivationWaits
  <2>2. CASE k = 1
    <3>1. \A j \in 1..n : Tail(out)[j] = CreditNtf
      BY <1>1, <1>2, <2>1, <2>2
    <3> QED
      BY <1>1, <1>4, <3>1 DEF OnlyCredits
  <2>3. CASE k # 1
    <3>1. PICK m \in 1..n : k = m + 1
      BY <2>3
    <3>2. Tail(out)[m] = DeactivatedNtf
      BY <1>1, <2>1, <3>1
    <3>3. \A j \in 1..n : j > m => Tail(out)[j] = CreditNtf
      <4> SUFFICES ASSUME NEW j \in 1..n, j > m
                   PROVE  Tail(out)[j] = CreditNtf
        OBVIOUS
      <4>1. j + 1 \in 1..(n + 1) /\ j + 1 > k
        BY <3>1
      <4> QED
        BY <1>1, <2>1, <4>1
    <3> QED
      BY <1>1, <1>4, <3>2, <3>3 DEF DeactivationWaits
  <2> QED
    BY <2>2, <2>3
<1> QED
  BY <1>4, <1>5, <1>6

LEMMA BackStep ==
  ASSUME TypeInv, BackInv, [Next]_vars
  PROVE  BackInv'
<1>t. ReaderTypeOK
  BY DEF TypeInv
<1>1. CASE ProcessData \/ ProcessActivation
  <2>1. /\ out # <<>> /\ out' = Tail(out) /\ Head(out) \notin {DeactivatedNtf, CreditNtf}
        /\ UNCHANGED <<reader, swallowed>>
    BY <1>1
    DEF ProcessData, ProcessActivation, HasMessage, ActivatedNtf, DeactivatedNtf, CreditNtf, Ntf
  <2>2. ~OnlyCredits
    BY <1>t, <2>1, WaitsOrNot
  <2>3. ~swallowed /\ reader = "away" => DeactivationWaits'
    BY <1>t, <2>1, <2>2, StillWaits DEF BackInv
  <2> QED
    BY <2>1, <2>3 DEF BackInv
<1>2. CASE Reply
  <2>1. SUFFICES ASSUME ~swallowed', reader' = "away"
                 PROVE  DeactivationWaits'
    BY DEF BackInv
  <2>2. reader = "away" /\ ~swallowed /\ pc = "reply"
    BY <1>2, <1>t, <2>1 DEF Reply, Delivered, ReaderTypeOK, Readers
  <2>3. DeactivationWaits
    BY <2>2 DEF BackInv
  <2>4. out # <<>>
    BY <2>3 DEF DeactivationWaits
  <2>5. Head(out) # DeactivatedNtf /\ out' = Append(Tail(out), CreditNtf)
    BY <1>2, <2>1, <2>4 DEF Reply
  <2> QED
    BY <1>t, <2>3, <2>4, <2>5, StillWaits
<1>3. CASE ProcessDeactivation
  <2>1. /\ pc' = "loop" /\ nci_state' = "RFST_DISCOVERY" /\ ce_state' = "CARD_EMU_IDLE"
        /\ out # <<>> /\ out' = Tail(out) /\ UNCHANGED <<reader, swallowed>>
    BY <1>3 DEF ProcessDeactivation, HasMessage
  <2>2. ~swallowed /\ reader = "away" => DeactivationWaits' \/ OnlyCredits'
    BY <1>t, <2>1, WaitsOrNot DEF BackInv
  <2> QED
    BY <2>1, <2>2 DEF BackInv
<1>10. CASE IgnoreCredit
  <2>1. /\ out # <<>> /\ out' = Tail(out) /\ Head(out) # DeactivatedNtf
        /\ UNCHANGED <<reader, swallowed, pc, nci_state, ce_state>>
    BY <1>10 DEF IgnoreCredit, HasMessage, DeactivatedNtf, CreditNtf, Ntf
  <2>2. /\ DeactivationWaits => DeactivationWaits'
        /\ OnlyCredits => OnlyCredits'
    BY <1>t, <2>1, StillWaits, WaitsOrNot
  <2> QED
    BY <2>1, <2>2 DEF BackInv
<1>4. CASE RefreshIdle
  BY <1>4 DEF RefreshIdle, Refresh, BackInv, DeactivationWaits, OnlyCredits
<1>5. CASE RefreshMeetsReader
  BY <1>5 DEF RefreshMeetsReader, BackInv
<1>6. CASE User
  BY <1>6 DEF User, SetTagEmulationMessage, SetTagEmulationOn, SetTagEmulationOff, SetListening,
              BackInv, DeactivationWaits, OnlyCredits
<1>7. CASE ReaderArrives \/ ReaderAsks \/ ReaderWrites
  <2>1. reader' # "away"
    BY <1>7 DEF ReaderArrives, ReaderAsks, ReaderWrites
  <2> QED
    BY <2>1 DEF BackInv
<1>8. CASE ReaderLeaves
  <2>1. out' = Append(out, DeactivatedNtf)
    BY <1>8 DEF ReaderLeaves
  <2>2. Len(out') = Len(out) + 1 /\ (out')[Len(out) + 1] = DeactivatedNtf /\ Len(out) \in Nat
    BY <1>t, <2>1, ChipMessages, AppendProperties DEF ReaderTypeOK
  <2>3. DeactivationWaits'
    <3>1. /\ Len(out) + 1 \in 1..(Len(out) + 1)
          /\ \A j \in 1..(Len(out) + 1) : ~(j > Len(out) + 1)
      BY <2>2
    <3> QED
      BY <2>2, <3>1 DEF DeactivationWaits
  <2> QED
    BY <2>3 DEF BackInv
<1>9. CASE UNCHANGED vars
  BY <1>9 DEF vars, BackInv, DeactivationWaits, OnlyCredits
<1> QED
  BY <1>1, <1>2, <1>3, <1>4, <1>5, <1>6, <1>7, <1>8, <1>9, <1>10 DEF Next, Driver, Reader

\* Between two readers process_rf_deactivate_oid_() has put the driver back in
\* discovery with no file selected, unless its notification was taken for the
\* credit of a reply or for the answer to a DEACTIVATE.
THEOREM BackToDiscoveryCorrect == Spec => []BackToDiscovery
<1>1. Init => TypeInv /\ BackInv
  <2>1. ASSUME Init
        PROVE  OnlyCredits
    <3>1. Len(<<>>) = 0 /\ 1..0 = {}
      OBVIOUS
    <3> QED
      BY <2>1, <3>1 DEF Init, OnlyCredits
  <2> QED
    BY <2>1, TypeInit DEF Init, BackInv
<1>2. TypeInv /\ BackInv /\ [Next]_vars => TypeInv' /\ BackInv'
  BY TypeStep, BackStep
<1>3. BackInv => BackToDiscovery
  BY DEF BackInv, BackToDiscovery, DeactivationWaits
<1> QED
  BY <1>1, <1>2, <1>3, PTL DEF Spec

-----------------------------------------------------------------------------
(* A session that nothing disturbs *)

\* The file that is selected when a reader sends its next command, and after it
Before ==
  CASE reader = "CC" -> "CARD_EMU_NDEF_APP_SELECTED"
    [] reader \in {"READ CC", "NDEF"} -> "CARD_EMU_CC_SELECTED"
    [] reader \in {"LENGTH", "DATA", "WRITE"} -> "CARD_EMU_NDEF_SELECTED"
    [] OTHER -> ce_state

After ==
  CASE reader = "APP" -> "CARD_EMU_NDEF_APP_SELECTED"
    [] reader \in {"CC", "READ CC"} -> "CARD_EMU_CC_SELECTED"
    [] reader \in {"NDEF", "LENGTH", "DATA", "WRITE"} -> "CARD_EMU_NDEF_SELECTED"

Asked == IF reader = "WRITE" THEN Command("WRITE", 0, 0) ELSE NextCommand

\* The reader and the driver take turns: nothing is under way, a command is in
\* the queue, or its answer is about to be sent.  Only the first command can
\* find the activation still in front of it.
Idle ==
  /\ ~waiting /\ pc = "loop" /\ ce_state = Before
  /\ out = <<>> \/ (reader = "APP" /\ out = <<ActivatedNtf>>)

Pending ==
  /\ waiting /\ pc = "loop" /\ ce_state = Before
  /\ out = <<Asked>> \/ (reader = "APP" /\ out = <<ActivatedNtf, Asked>>)
  /\ reader = "DATA" => Rest > 0

Answered ==
  /\ waiting /\ pc = "reply" /\ ce_state = After
  /\ out = <<>>
  /\ reader = "LENGTH" => response.bytes # <<>> /\ response.bytes[1][1] = card_emulation_message
  /\ reader = "DATA" => Rest > 0 /\ response.bytes = Bytes(card_emulation_message, 1, Part)

\* The copy is a true one up to MaxRead bytes.
CopyOK ==
  /\ Len(copy) <= size
  /\ \A i \in 1..Len(copy) : i <= MaxRead => copy[i] = <<size, i>>
  /\ Len(copy) = 0 \/ Len(copy) = size \/ Len(copy) >= MaxRead

\* The part that reaches the end is counted when it is processed.
ScansOK ==
  reader = "DATA" =>
    scans = IF Rest <= (IF pc = "reply" THEN MaxRead ELSE 0) THEN 1 ELSE 0

Session ==
  /\ card_emulation_message # NoMessage
  /\ Idle \/ Pending \/ Answered
  /\ reader \notin {"DATA", "WRITE"} => copy = <<>> /\ scans = 0
  /\ reader \in {"DATA", "WRITE"} => size = card_emulation_message /\ CopyOK
  /\ ScansOK

SessionInv == Undisturbed => Session

\* What the reader sends is a command, never one of the chip's notifications.
LEMMA AskedIsData ==
  ASSUME ReaderTypeOK, reader # "away"
  PROVE  /\ Asked \in ChipMessage /\ Asked.mt = "data"
         /\ Asked # ActivatedNtf /\ Asked # DeactivatedNtf
<1>1. Asked.mt = "data"
  BY DEF Asked, NextCommand, Select, ReadFile, Command, ReaderTypeOK, Readers
<1>2. Asked \in ChipMessage
  BY NextCommandType, ChipMessages DEF Asked
<1> QED
  BY <1>1, <1>2 DEF ActivatedNtf, DeactivatedNtf, Ntf

\* A session depends on these variables only.
LEMMA SessionStays ==
  ASSUME Session,
         UNCHANGED <<pc, ce_state, card_emulation_message, response, out, theirs, scans>>
  PROVE  Session'
BY DEF Session, Idle, Pending, Answered, Before, After, Asked, NextCommand, CopyOK, ScansOK,
       Rest, Part

\* Before the first command, at the end of the message, and for every command
\* the reader has a place to be in: what Session says of the queue's head.
LEMMA SessionQueue ==
  ASSUME ReaderTypeOK, reader # "away", Session, out # <<>>
  PROVE  /\ pc = "loop" /\ ce_state = Before
         /\ Head(out) \in {ActivatedNtf, Asked}
         /\ Head(out) = ActivatedNtf =>
              /\ reader = "APP"
              /\ Tail(out) = IF waiting THEN <<Asked>> ELSE <<>>
         /\ Head(out) = Asked => waiting /\ out = <<Asked>>
<1>1. Asked # ActivatedNtf
  BY AskedIsData
<1>2. /\ pc = "loop" /\ ce_state = Before
      /\ \/ ~waiting /\ reader = "APP" /\ out = <<ActivatedNtf>>
         \/ waiting /\ out = <<Asked>>
         \/ waiting /\ reader = "APP" /\ out = <<ActivatedNtf, Asked>>
  BY DEF Session, Idle, Pending, Answered
<1> DEFINE a == Asked
           n == ActivatedNtf
<1>3. /\ Head(<<n>>) = n /\ Tail(<<n>>) = <<>>
      /\ Head(<<a>>) = a
      /\ Head(<<n, a>>) = n /\ Tail(<<n, a>>) = <<a>>
  OBVIOUS
<1> QED
  BY <1>1, <1>2, <1>3

\* process_data_message_() answers each command of such a session as a reader
\* expects, but for the part of the message it sends.
LEMMA SessionProcessData ==
  ASSUME TypeInv, Undisturbed, Session, ProcessData
  PROVE  Session'
<1>t. ReaderTypeOK /\ HostTypeOK /\ HistoryTypeOK
  BY DEF TypeInv
<1>1. out # <<>> /\ Head(out).mt = "data" /\ reader # "away"
  BY DEF ProcessData, HasMessage, Undisturbed
<1>2. waiting /\ out = <<Asked>> /\ pc = "loop" /\ ce_state = Before /\ Head(out) = Asked
  BY <1>1, <1>t, SessionQueue DEF ActivatedNtf, Ntf
<1>3. out' = <<>> /\ UNCHANGED <<card_emulation_message, theirs>> /\ waiting'
  BY <1>2 DEF ProcessData
<1>4. /\ card_emulation_message \in Messages /\ card_emulation_message # NoMessage
      /\ card_emulation_message \in Nat /\ card_emulation_message > 0
  BY <1>t, EmulationAssumption DEF Session, HostTypeOK, NoMessage
<1>5. ce_state' = Selected(Asked) /\ response' = ResponseTo(Asked)
      /\ scans' = IF Scans(Asked) THEN scans + 1 ELSE scans
  BY <1>2, <1>4 DEF ProcessData
<1>6. reader = "DATA" => Rest > 0
  BY <1>2 DEF Session, Idle, Pending, Answered
<1>7. /\ ce_state' = After' /\ response'.answered
      /\ reader' = "LENGTH" => response'.bytes # <<>> /\ response'.bytes[1][1] = card_emulation_message'
      /\ reader' = "DATA" => response'.bytes = Bytes(card_emulation_message', 1, Part')
      /\ reader # "DATA" => ~Scans(Asked)
      /\ reader = "DATA" => (Scans(Asked) <=> Rest <= MaxRead)
  <2>1. CASE reader \in {"APP", "CC", "NDEF"}
    <3>1. Asked = Select(reader)
      BY <2>1 DEF Asked, NextCommand
    <3> QED
      BY <1>2, <1>3, <1>4, <1>5, <2>1, <3>1
      DEF Select, Command, Before, After, Selected, ResponseTo, Answer, Scans
  <2>2. CASE reader = "READ CC"
    <3>1. Asked = ReadFile(0, 15)
      BY <2>2 DEF Asked, NextCommand
    <3> QED
      BY <1>2, <1>3, <1>4, <1>5, <2>2, <3>1
      DEF ReadFile, Command, Before, After, Selected, ResponseTo, Answer, Scans
  <2>3. CASE reader = "LENGTH"
    <3>1. Asked = ReadFile(0, 2)
      BY <2>3 DEF Asked, NextCommand
    <3>2. ce_state = "CARD_EMU_NDEF_SELECTED" /\ InFile(Asked) /\ ~ReachesEnd(card_emulation_message, 0, 2)
      BY <1>2, <1>4, <2>3, <3>1 DEF Before, InFile, ReadFile, Command, ReachesEnd
    <3>3. response' = Answer(ReadAnswer(card_emulation_message, 0, 2)) /\ ~Scans(Asked)
      BY <1>4, <1>5, <3>1, <3>2 DEF ResponseTo, ReadFile, Command, Scans
    <3> DEFINE b == Bytes(card_emulation_message, -1, 0)
    <3>4. ReadAnswer(card_emulation_message, 0, 2) = b \o Bytes(card_emulation_message, 1, 0)
      BY DEF ReadAnswer
    <3>5. b \in Seq(Byte) /\ Len(b) = 2 /\ b[1] = <<card_emulation_message, -1>>
      BY <1>4, LengthFieldIs
    <3>6. Bytes(card_emulation_message, 1, 0) \in Seq(Byte) /\ Len(Bytes(card_emulation_message, 1, 0)) = 0
      BY <1>4, LengthFieldIs
    <3> DEFINE e == Bytes(card_emulation_message, 1, 0)
    <3> HIDE DEF b, e
    <3>7. (b \o e)[1] = b[1] /\ b \o e # <<>>
      <4>1. e \in Seq(Byte) /\ Len(e) = 0
        BY <3>6 DEF e
      <4>2. Len(b \o e) = 2 /\ (b \o e)[1] = b[1]
        BY <3>5, <4>1, ConcatProperties
      <4> QED
        BY <4>2, EmptySeq
    <3>8. response'.answered /\ response'.bytes # <<>> /\ response'.bytes[1][1] = card_emulation_message
      BY <3>3, <3>4, <3>5, <3>7 DEF Answer, e
    <3>9. ce_state' = After'
      BY <1>3, <1>5, <2>3, <3>1, <3>2 DEF ReadFile, Command, After, Selected
    <3> QED
      BY <1>3, <2>3, <3>3, <3>8, <3>9
  <2>4. CASE reader = "DATA"
    <3>1. Asked = ReadFile(2 + Len(copy), Part)
      BY <2>4 DEF Asked, NextCommand, Part
    <3>2. /\ Len(copy) \in Nat /\ Rest \in Int /\ Part \in Int /\ size = card_emulation_message
          /\ Rest = size - Len(copy) /\ MaxRead \in Nat
      BY <1>t, <2>4, RestType, MessagesAreNat DEF Session, Rest
    <3>3. Part <= Rest /\ (Part >= Rest <=> Rest <= MaxRead)
      BY <3>2 DEF Part
    <3>4. ce_state = "CARD_EMU_NDEF_SELECTED" /\ InFile(Asked)
      BY <1>2, <1>4, <2>4, <3>1, <3>2, <3>3 DEF Before, InFile, ReadFile, Command
    <3>5. ReachesEnd(card_emulation_message, 2 + Len(copy), Part) <=> Rest <= MaxRead
      <4>1. 2 + Len(copy) + Part >= size + 2 <=> Part >= Rest
        BY <1>4, <3>2
      <4> QED
        BY <3>2, <3>3, <4>1 DEF ReachesEnd
    <3>6. Scans(Asked) <=> Rest <= MaxRead
      BY <3>1, <3>4, <3>5 DEF Scans, ReadFile, Command
    <3>7. ResponseTo(Asked) = Answer(ReadAnswer(card_emulation_message, 2 + Len(copy), Part))
      BY <1>4, <3>1, <3>4 DEF ResponseTo, ReadFile, Command
    <3>8. 2 + Len(copy) # 0 /\ 2 + Len(copy) # 1 /\ 2 + Len(copy) > 1
      BY <3>2
    <3>9. ReadAnswer(card_emulation_message, 2 + Len(copy), Part) = Bytes(card_emulation_message, 1, Part)
      BY <3>8 DEF ReadAnswer
    <3>10. Part' = Part
      BY <1>3 DEF Part, Rest
    <3>11. ce_state' = After'
      BY <1>3, <1>5, <2>4, <3>1, <3>4 DEF ReadFile, Command, After, Selected
    <3> QED
      BY <1>3, <1>5, <2>4, <3>6, <3>7, <3>9, <3>10, <3>11 DEF Answer
  <2>5. CASE reader = "WRITE"
    <3>1. Asked = Command("WRITE", 0, 0)
      BY <2>5 DEF Asked
    <3> QED
      BY <1>2, <1>3, <1>4, <1>5, <2>5, <3>1
      DEF Command, Before, After, Selected, ResponseTo, Answer, Scans
  <2> QED
    BY <1>1, <1>t, <2>1, <2>2, <2>3, <2>4, <2>5 DEF ReaderTypeOK, Readers
<1>8. pc' = "reply"
  BY <1>7 DEF ProcessData
<1>9. Answered'
  BY <1>3, <1>6, <1>7, <1>8 DEF Answered, Rest
<1>10. ScansOK'
  <2>1. reader = "DATA" => scans = IF Rest <= 0 THEN 1 ELSE 0
    BY <1>2 DEF Session, ScansOK
  <2>2. CASE reader = "DATA"
    <3>1. scans = 0
      BY <1>t, <1>6, <2>1, <2>2, RestType
    <3>2. scans' = IF Rest <= MaxRead THEN 1 ELSE 0
      BY <1>5, <1>7, <2>2, <3>1
    <3>3. Rest' = Rest
      BY <1>3 DEF Rest
    <3> QED
      BY <1>8, <3>2, <3>3 DEF ScansOK
  <2> QED
    BY <1>3, <2>2 DEF ScansOK
<1>11. CopyOK <=> CopyOK'
  BY <1>3 DEF CopyOK
<1> QED
  BY <1>3, <1>5, <1>7, <1>9, <1>10, <1>11 DEF Session

\* A part of the message that was asked for at the end of the copy keeps it a
\* true one up to MaxRead bytes.
LEMMA CopyGrows ==
  ASSUME ReaderTypeOK, CopyOK, size \in Messages, Rest > 0,
         NEW b, b = Bytes(size, 1, Part), copy' = copy \o b, size' = size
  PROVE  /\ CopyOK'
         /\ Rest' <= 0 <=> Rest <= MaxRead
<1>1. /\ size \in Nat /\ Len(copy) \in Nat /\ Rest \in Int /\ Part \in Int
      /\ Rest = size - Len(copy) /\ MaxRead \in Nat /\ MaxRead > 1
      /\ 1 <= Part /\ Part <= Rest /\ Part <= MaxRead /\ (Part = Rest \/ Part = MaxRead)
  BY RestType, MessagesAreNat DEF Rest, Part
<1>2. /\ b \in Seq(Byte) /\ Len(b) = Part
      /\ \A i \in 1..Part : b[i] = <<size, i>>
  <2>1. /\ b \in Seq(Byte)
        /\ Len(b) = IF 1 <= Part THEN Part - 1 + 1 ELSE 0
        /\ \A i \in 1..(Part - 1 + 1) : b[i] = <<size, 1 + i - 1>>
    <3>1. 1 \in Int
      OBVIOUS
    <3> QED
      BY <1>1, <3>1, BytesAre, Zenon
  <2>2. \A i \in 1..Part : 1 + i - 1 = i
    OBVIOUS
  <2> QED
    BY <1>1, <2>1, <2>2
<1>3. copy \in Seq(Byte)
  BY DEF ReaderTypeOK
<1>4. /\ Len(copy') = Len(copy) + Part
      /\ \A i \in 1..Len(copy) : (copy')[i] = copy[i]
      /\ \A i \in Len(copy) + 1..Len(copy) + Part : (copy')[i] = <<size, i - Len(copy)>>
  <2>1. /\ Len(copy \o b) = Len(copy) + Len(b)
        /\ \A i \in 1..Len(copy) + Len(b) :
             (copy \o b)[i] = IF i <= Len(copy) THEN copy[i] ELSE b[i - Len(copy)]
    BY <1>2, <1>3, ConcatProperties
  <2>2. /\ Len(copy') = Len(copy) + Part
        /\ \A i \in 1..Len(copy) + Part : (copy')[i] = IF i <= Len(copy) THEN copy[i] ELSE b[i - Len(copy)]
    BY <1>2, <2>1
  <2>3. ASSUME NEW i \in 1..Len(copy)
        PROVE  (copy')[i] = copy[i]
    <3>1. i \in 1..Len(copy) + Part /\ i <= Len(copy)
      BY <1>1
    <3> QED
      BY <2>2, <3>1
  <2>4. ASSUME NEW i \in Len(copy) + 1..Len(copy) + Part
        PROVE  (copy')[i] = <<size, i - Len(copy)>>
    <3>1. i \in 1..Len(copy) + Part /\ ~(i <= Len(copy)) /\ i - Len(copy) \in 1..Part
      BY <1>1
    <3> QED
      BY <1>2, <2>2, <3>1
  <2> QED
    BY <2>2, <2>3, <2>4
<1>5. Len(copy') <= size
  BY <1>1, <1>4
<1>6. Rest' <= 0 <=> Rest <= MaxRead
  <2>1. Rest' = Rest - Part
    <3>1. Len(copy') = Len(copy) + Part
      BY <1>4
    <3> QED
      BY <1>1, <3>1 DEF Rest
  <2> QED
    BY <1>1, <2>1
<1>7. Len(copy) = 0 \/ Len(copy) >= MaxRead
  BY <1>1 DEF CopyOK
<1>8. \A i \in 1..Len(copy') : i <= MaxRead => (copy')[i] = <<size, i>>
  <2> SUFFICES ASSUME NEW i \in 1..Len(copy'), i <= MaxRead
               PROVE  (copy')[i] = <<size, i>>
    OBVIOUS
  <2>1. CASE i <= Len(copy)
    <3>1. i \in 1..Len(copy)
      BY <1>1, <2>1
    <3> QED
      BY <1>4, <3>1 DEF CopyOK
  <2>2. CASE ~(i <= Len(copy))
    <3>1. Len(copy) = 0 /\ i \in Len(copy) + 1..Len(copy) + Part /\ i - Len(copy) = i
      <4>1. Len(copy') = Len(copy) + Part /\ i \in Nat /\ i >= 1 /\ i <= Len(copy) + Part
        BY <1>1, <1>4
      <4>2. ~(Len(copy) >= MaxRead)
        BY <1>1, <2>2, <4>1
      <4> QED
        BY <1>1, <1>7, <2>2, <4>1, <4>2
    <3> QED
      BY <1>4, <3>1
  <2> QED
    BY <2>1, <2>2
<1>9. Len(copy') = 0 \/ Len(copy') = size \/ Len(copy') >= MaxRead
  BY <1>1, <1>4, <1>7
<1> QED
  BY <1>5, <1>6, <1>8, <1>9 DEF CopyOK

LEMMA SessionReply ==
  ASSUME TypeInv, Undisturbed, Session, Reply
  PROVE  Session'
<1>t. ReaderTypeOK /\ HostTypeOK /\ HistoryTypeOK
  BY DEF TypeInv
<1>1. Answered
  BY DEF Reply, Session, Idle, Pending
<1>2. /\ out = <<>> /\ out' = <<>> /\ pc = "reply" /\ pc' = "loop" /\ ce_state = After
      /\ reader \in Readers \ {"away"} /\ waiting /\ waiting' = FALSE
      /\ UNCHANGED <<card_emulation_message, ce_state, scans>>
  BY <1>1, <1>t DEF Reply, Delivered, Answered, Undisturbed, ReaderTypeOK
<1>3. ce_state' = Before'
  BY <1>1, <1>2 DEF Reply, Delivered, After, Before, Readers
<1>4. Idle'
  BY <1>2, <1>3 DEF Idle
<1>5. card_emulation_message' # NoMessage
  BY <1>2 DEF Session
<1>6. CASE reader \in {"APP", "CC", "READ CC", "NDEF"}
  <2>1. reader' \notin {"DATA", "WRITE"} /\ copy' = copy
    BY <1>2, <1>6 DEF Reply, Delivered
  <2> QED
    BY <1>2, <1>4, <1>5, <1>6, <2>1 DEF Session, ScansOK
<1>7. CASE reader = "LENGTH"
  <2>1. /\ reader' = "DATA" /\ size' = card_emulation_message /\ copy' = <<>> /\ scans' = 0
    BY <1>1, <1>2, <1>7 DEF Reply, Delivered, Session, Answered
  <2>2. card_emulation_message \in Nat /\ card_emulation_message > 0
    BY <1>t, EmulationAssumption DEF Session, HostTypeOK, NoMessage
  <2>3. CopyOK'
    BY <2>1, <2>2, MessagesAreNat DEF CopyOK
  <2>4. ScansOK'
    <3>1. Rest' > 0 /\ Rest' \in Int
      BY <2>1, <2>2 DEF Rest
    <3> QED
      BY <1>2, <2>1, <3>1 DEF ScansOK
  <2> QED
    BY <1>2, <1>4, <1>5, <2>1, <2>3, <2>4 DEF Session
<1>8. CASE reader = "DATA"
  <2>1. /\ reader' = "DATA" /\ size' = size /\ copy' = copy \o response.bytes
        /\ size = card_emulation_message /\ CopyOK
        /\ Rest > 0 /\ response.bytes = Bytes(size, 1, Part)
    BY <1>1, <1>2, <1>8 DEF Reply, Delivered, Session, Answered
  <2>2. size \in Messages
    BY <1>t, <2>1 DEF Session, HostTypeOK
  <2>3. CopyOK' /\ (Rest' <= 0 <=> Rest <= MaxRead)
    BY <1>t, <2>1, <2>2, CopyGrows
  <2>4. ScansOK'
    BY <1>2, <1>8, <2>3 DEF Session, ScansOK
  <2> QED
    BY <1>2, <1>4, <1>5, <2>1, <2>3, <2>4 DEF Session
<1>9. CASE reader = "WRITE"
  <2>1. reader' = "WRITE" /\ size' = size /\ copy' = copy
    BY <1>2, <1>9 DEF Reply, Delivered
  <2>2. CopyOK'
    BY <1>9, <2>1 DEF Session, CopyOK
  <2> QED
    BY <1>2, <1>4, <1>5, <1>9, <2>1, <2>2 DEF Session, ScansOK
<1> QED
  BY <1>2, <1>6, <1>7, <1>8, <1>9 DEF Readers

LEMMA SessionStep ==
  ASSUME TypeInv, SessionInv, [Next]_vars, Undisturbed'
  PROVE  Session'
<1>t. ReaderTypeOK /\ HostTypeOK /\ SwitchTypeOK /\ HistoryTypeOK
  BY DEF TypeInv
<1>1. CASE ProcessData
  <2>1. Undisturbed
    BY <1>1 DEF ProcessData, Undisturbed
  <2> QED
    BY <1>1, <2>1, SessionProcessData DEF SessionInv
<1>2. CASE Reply
  <2>1. Undisturbed
    BY <1>2 DEF Reply, Delivered, Undisturbed
  <2> QED
    BY <1>2, <2>1, SessionReply DEF SessionInv
<1>3. CASE ProcessActivation
  <2>1. Undisturbed
    BY <1>3 DEF ProcessActivation, Undisturbed
  <2>2. Session /\ reader # "away" /\ out # <<>> /\ Head(out) = ActivatedNtf
    BY <1>3, <2>1 DEF ProcessActivation, HasMessage, SessionInv, Undisturbed
  <2>3. /\ pc = "loop" /\ ce_state = Before /\ reader = "APP"
        /\ out' = IF waiting THEN <<Asked>> ELSE <<>>
    BY <1>3, <1>t, <2>2, SessionQueue DEF ProcessActivation
  <2>4. UNCHANGED <<pc, ce_state, card_emulation_message, response, theirs, scans>>
    BY <1>3 DEF ProcessActivation
  <2> QED
    BY <2>2, <2>3, <2>4
    DEF Session, Idle, Pending, Answered, Before, Asked, NextCommand, CopyOK, ScansOK, Rest, Part
<1>4. CASE ProcessDeactivation
  <2>1. Session /\ reader # "away" /\ out # <<>> /\ Head(out) = DeactivatedNtf
    BY <1>4 DEF ProcessDeactivation, HasMessage, SessionInv, Undisturbed
  <2>2. Head(out) \in {ActivatedNtf, Asked}
    BY <1>t, <2>1, SessionQueue
  <2> QED
    BY <1>t, <2>1, <2>2, AskedIsData DEF ActivatedNtf, DeactivatedNtf, Ntf
<1>10. CASE IgnoreCredit
  <2>1. Session /\ reader # "away" /\ out # <<>> /\ Head(out) = CreditNtf
    BY <1>10 DEF IgnoreCredit, HasMessage, SessionInv, Undisturbed
  <2>2. Head(out) \in {ActivatedNtf, Asked}
    BY <1>t, <2>1, SessionQueue
  <2> QED
    BY <1>t, <2>1, <2>2, AskedIsData DEF ActivatedNtf, CreditNtf, Ntf
<1>5. CASE RefreshIdle \/ SetTagEmulationOn \/ SetTagEmulationOff \/ UNCHANGED vars
  <2>1. UNCHANGED <<pc, ce_state, card_emulation_message, response, out, theirs, scans, changed, crossed>>
    BY <1>5 DEF RefreshIdle, Refresh, SetTagEmulationOn, SetTagEmulationOff, SetListening, vars
  <2>2. Undisturbed
    BY <2>1 DEF Undisturbed
  <2> QED
    BY <2>1, <2>2, SessionStays DEF SessionInv
<1>6. CASE RefreshMeetsReader \/ ReaderLeaves \/ \E m \in Messages : SetTagEmulationMessage(m)
  BY <1>6 DEF RefreshMeetsReader, ReaderLeaves, SetTagEmulationMessage, Undisturbed
<1>7. CASE ReaderArrives
  <2>1. /\ pc = "loop" /\ out = <<>> /\ card_emulation_message # NoMessage
        /\ reader' = "APP" /\ waiting' = FALSE /\ copy' = <<>> /\ scans' = 0
        /\ out' = Append(<<>>, ActivatedNtf)
        /\ UNCHANGED <<pc, ce_state, card_emulation_message>>
    BY <1>7, <1>t DEF ReaderArrives, Undisturbed, HostTypeOK, SwitchTypeOK
  <2>2. Append(<<>>, ActivatedNtf) = <<ActivatedNtf>>
    OBVIOUS
  <2>3. Idle'
    BY <2>1, <2>2 DEF Idle, Before
  <2> QED
    BY <2>1, <2>3 DEF Session, ScansOK
<1>8. CASE ReaderAsks
  <2>1. /\ Undisturbed /\ reader \notin {"away", "WRITE"} /\ ~waiting /\ ~Complete
        /\ UNCHANGED <<pc, ce_state, card_emulation_message, response, reader, size, copy, scans>>
        /\ waiting' = TRUE /\ out' = Append(out, NextCommand)
    BY <1>8 DEF ReaderAsks, Undisturbed
  <2>2. Session /\ Idle
    BY <2>1 DEF SessionInv, Session, Pending, Answered
  <2>3. Asked = NextCommand /\ Asked' = Asked
    <3>1. NextCommand' = NextCommand
      BY <2>1 DEF NextCommand, Rest
    <3> QED
      BY <2>1, <3>1 DEF Asked
  <2>4. reader = "DATA" => Rest > 0
    <3>1. reader = "DATA" => size = card_emulation_message
      BY <2>2 DEF Session
    <3>2. card_emulation_message \in Nat /\ card_emulation_message > 0
      BY <1>t, <2>2, EmulationAssumption DEF Session, HostTypeOK, NoMessage
    <3> QED
      BY <1>t, <2>1, <3>1, <3>2, RestType DEF Complete
  <2>5. out' = <<Asked>> \/ (reader = "APP" /\ out' = <<ActivatedNtf, Asked>>)
    <3>1. Append(<<>>, Asked) = <<Asked>> /\ Append(<<ActivatedNtf>>, Asked) = <<ActivatedNtf, Asked>>
      BY AppendIs
    <3> QED
      BY <2>1, <2>2, <2>3, <3>1 DEF Idle
  <2>6. Pending'
    BY <2>1, <2>2, <2>3, <2>4, <2>5 DEF Pending, Idle, Before, Rest
  <2> QED
    BY <2>1, <2>2, <2>6 DEF Session, CopyOK, ScansOK, Rest
<1>9. CASE ReaderWrites
  <2>1. /\ Undisturbed /\ reader = "DATA" /\ ~waiting /\ reader' = "WRITE" /\ waiting' = TRUE
        /\ out' = Append(out, Command("WRITE", 0, 0))
        /\ UNCHANGED <<pc, ce_state, card_emulation_message, size, copy>>
    BY <1>9 DEF ReaderWrites, Complete, Undisturbed
  <2>2. Session /\ Idle
    BY <2>1 DEF SessionInv, Session, Pending, Answered
  <2>3. out' = <<Asked>>'
    <3>1. Append(<<>>, Command("WRITE", 0, 0)) = <<Command("WRITE", 0, 0)>>
      OBVIOUS
    <3> QED
      BY <2>1, <2>2, <3>1 DEF Idle, Asked
  <2>4. Pending'
    BY <2>1, <2>2, <2>3 DEF Pending, Idle, Before
  <2> QED
    BY <2>1, <2>2, <2>4 DEF Session, CopyOK, ScansOK
<1> QED
  BY <1>1, <1>2, <1>3, <1>4, <1>5, <1>6, <1>7, <1>8, <1>9, <1>10
  DEF Next, Driver, User, Reader

LEMMA SessionInvariant == Spec => [](TypeInv /\ SessionInv)
<1>1. Init => TypeInv /\ SessionInv
  BY TypeInit DEF Init, SessionInv, Undisturbed
<1>2. TypeInv /\ SessionInv /\ [Next]_vars => (TypeInv /\ SessionInv)'
  BY TypeStep, SessionStep DEF SessionInv
<1> QED
  BY <1>1, <1>2, PTL DEF Spec

\* on_emulated_tag_scan is called exactly once in a session that gets to the end
\* of the message, whatever the number of READs, and not before the message is
\* asked for.
THEOREM ScanOnceReadCorrect == Spec => []ScanOnceRead
<1>1. TypeInv /\ SessionInv => ScanOnceRead
  <2>1. SUFFICES ASSUME TypeInv, Session
                 PROVE  /\ Complete => scans = 1
                        /\ reader \notin {"DATA", "WRITE"} => scans = 0
    BY DEF SessionInv, ScanOnceRead
  <2>2. Complete => scans = 1
    BY <2>1 DEF Complete, Session, Pending, Answered, Idle, ScansOK
  <2> QED
    BY <2>1, <2>2 DEF Session
<1> QED
  BY <1>1, SessionInvariant, PTL

\* card_emu_t4t_get_response_() gives a reader a true copy of a message that one
\* READ is enough for.
THEOREM ShortCopyIsTrueCorrect == Spec => []ShortCopyIsTrue
<1>1. TypeInv /\ SessionInv => ShortCopyIsTrue
  <2>1. SUFFICES ASSUME TypeInv, Session, Complete, size <= MaxRead
                 PROVE  copy = Bytes(size, 1, size)
    BY DEF SessionInv, ShortCopyIsTrue
  <2>2. size \in Messages /\ size \in Nat /\ MaxRead \in Nat /\ MaxRead > 1
    BY <2>1, MessagesAreNat DEF TypeInv, HostTypeOK, Session, Complete
  <2>3. CopyOK /\ copy \in Seq(Byte) /\ Len(copy) = size
    BY <2>1, <2>2, RestType DEF TypeInv, ReaderTypeOK, Session, Complete, CopyOK, Rest
  <2>4. /\ Bytes(size, 1, size) \in Seq(Byte) /\ Len(Bytes(size, 1, size)) = size
        /\ \A i \in 1..size : Bytes(size, 1, size)[i] = <<size, i>>
    <3>1. /\ Bytes(size, 1, size) \in Seq(Byte)
          /\ Len(Bytes(size, 1, size)) = IF 1 <= size THEN size - 1 + 1 ELSE 0
          /\ \A i \in 1..(size - 1 + 1) : Bytes(size, 1, size)[i] = <<size, 1 + i - 1>>
      <4>1. 1 \in Int /\ size \in Int
        BY <2>2
      <4> QED
        BY <2>2, <4>1, BytesAre, Zenon
    <3> QED
      BY <2>2, <3>1
  <2>5. \A i \in 1..size : copy[i] = Bytes(size, 1, size)[i]
    <3> SUFFICES ASSUME NEW i \in 1..size
                 PROVE  copy[i] = Bytes(size, 1, size)[i]
      OBVIOUS
    <3>1. i <= MaxRead
      BY <2>1, <2>2
    <3>2. copy[i] = <<size, i>>
      BY <2>3, <3>1 DEF CopyOK
    <3> QED
      BY <2>4, <3>2
  <2> QED
    BY <2>2, <2>3, <2>4, <2>5, SeqEqual
<1> QED
  BY <1>1, SessionInvariant, PTL

=============================================================================
