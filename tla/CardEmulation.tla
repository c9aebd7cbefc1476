--------------------------- MODULE CardEmulation ---------------------------
(***************************************************************************)
(* Card emulation: the driver as a Type 4 tag.  A reader selects the NDEF  *)
(* file and reads it, one command at a time; the chip hands its commands   *)
(* over as data messages, process_data_message_() answers them from        *)
(* ce_state_ and card_emulation_message_.  The reader may leave at any     *)
(* moment, another one may come, the user may change the message.          *)
(*                                                                         *)
(* The reader and the chip are external.  A message is known by its length *)
(* m; byte i of it is <<m, i>>, and the file that holds it starts with the *)
(* two bytes <<m, -1>> and <<m, 0>> of its length.  Polling stays enabled,  *)
(* so a change of listening_enabled always ends in discovery again; the    *)
(* commands it takes, and what can go wrong with them, are in NciLink.  A  *)
(* reader that puts the tag to sleep and wakes it is one that leaves and   *)
(* another that comes: RFST_LISTEN_SLEEP is in NciLink too.                *)
(***************************************************************************)
EXTENDS Integers, Sequences, Functions

CONSTANTS
  Messages,      \* the emulation messages, by their length
  MaxRead,       \* the most a reader asks for in one READ
  MaxSessions    \* bound: readers that come

ASSUME EmulationAssumption ==
  /\ Messages \subseteq Nat \ {0}
  /\ MaxRead \in Nat \ {0, 1}
  /\ MaxSessions \in Nat

NoMessage == 0

VARIABLES
  pc,                \* loop, or reply between the two halves of an answer
  nci_state,
  ce_state,
  listening_enabled,
  config_refresh_pending,
  card_emulation_message,
  response,          \* the answer to be sent: ndef_response
  chip_listens,      \* the discovery in force includes the listen modes
  out,               \* messages of the chip that wait to be read
  reader,            \* away, or the command it sends next
  waiting,           \* the reader waits for an answer
  size, copy,        \* the length it was told and what it has read so far
  session,           \* readers so far
  scans,             \* calls of on_emulated_tag_scan in this session
  changed,           \* the message was set during this session
  crossed,           \* an answer was lost or went to the wrong reader
  swallowed          \* a deactivation never got to its handler

switch   == <<listening_enabled, config_refresh_pending, chip_listens>>
host     == <<nci_state, ce_state, card_emulation_message, switch>>
theirs   == <<reader, waiting, size, copy>>
history  == <<session, scans, changed, crossed, swallowed>>
vars     == <<pc, host, response, out, theirs, history>>

-----------------------------------------------------------------------------
(* Commands, answers and the file *)

Command(op, offset, length) == [mt |-> "data", op |-> op, offset |-> offset, length |-> length]
Select(file) == Command(file, 0, 0)
ReadFile(offset, length) == Command("READ", offset, length)
Ntf(op) == [mt |-> "ntf", op |-> op, offset |-> 0, length |-> 0]
ActivatedNtf == Ntf("ACTIVATED")        \* in listen mode
DeactivatedNtf == Ntf("DEACTIVATED")    \* to discovery
CreditNtf == Ntf("CREDIT")              \* a reply was passed on

\* Every answer but silence ends in CARD_EMU_T4T_OK, which is left out.
Answer(bytes) == [answered |-> TRUE, bytes |-> bytes]
Silence == [answered |-> FALSE, bytes |-> <<>>]

Bytes(m, first, last) == [i \in 1..(last - first + 1) |-> <<m, first + i - 1>>]

\* The length field is not taken off the offset.
BadReadAnswer(m, offset, length) ==
  CASE offset = 0 -> Bytes(m, -1, 0) \o Bytes(m, 1, length - 2)
    [] offset = 1 -> Bytes(m, 0, 0) \o Bytes(m, 1, length - 1)
    [] offset > 1 -> Bytes(m, offset + 1, offset + length)

\* The length field, then the message from its first byte: an offset beyond
\* the field is not taken into account.  Bytes beyond the message stand for
\* whatever follows it in memory.
ReadAnswer(m, offset, length) ==
  CASE offset = 0 -> Bytes(m, -1, 0) \o Bytes(m, 1, length - 2)
    [] offset = 1 -> Bytes(m, 0, 0) \o Bytes(m, 1, length - 1)
    [] offset > 1 -> Bytes(m, 1, length)

BadReachesEnd(m, offset, length) == offset + length > m + 2

ReachesEnd(m, offset, length) == offset + length >= m + 2

-----------------------------------------------------------------------------
(* card_emu_t4t_get_response_() *)

\* Both files only right after the application.
BadSelected(c) ==
  CASE c.op = "APP" -> "CARD_EMU_NDEF_APP_SELECTED"
    [] c.op \in {"CC", "NDEF"} /\ ce_state = "CARD_EMU_NDEF_APP_SELECTED" ->
         IF c.op = "CC" THEN "CARD_EMU_CC_SELECTED" ELSE "CARD_EMU_NDEF_SELECTED"
    [] OTHER -> ce_state

\* The state of the selection after a command; a CC file is selected only
\* right after the application, the NDEF file in every state.
Selected(c) ==
  CASE c.op = "APP" -> "CARD_EMU_NDEF_APP_SELECTED"
    [] c.op = "CC" /\ ce_state = "CARD_EMU_NDEF_APP_SELECTED" -> "CARD_EMU_CC_SELECTED"
    [] c.op = "NDEF" -> "CARD_EMU_NDEF_SELECTED"
    [] OTHER -> ce_state

InFile(c) == c.length <= card_emulation_message + c.offset + 2

ResponseTo(c) ==
  IF card_emulation_message = NoMessage THEN Silence
  ELSE CASE c.op \in {"APP", "NDEF"} -> Answer(<<>>)
         [] c.op = "CC" ->
              IF ce_state = "CARD_EMU_NDEF_APP_SELECTED" THEN Answer(<<>>) ELSE Silence
         [] c.op = "READ" /\ ce_state = "CARD_EMU_CC_SELECTED" -> Answer(<<>>)
         [] c.op = "READ" /\ ce_state = "CARD_EMU_NDEF_SELECTED" /\ InFile(c) ->
              Answer(ReadAnswer(card_emulation_message, c.offset, c.length))
         [] c.op = "WRITE" /\ ce_state = "CARD_EMU_NDEF_SELECTED" -> Answer(<<>>)
         [] OTHER -> Silence

\* on_emulated_tag_scan
Scans(c) ==
  /\ c.op = "READ" /\ ce_state = "CARD_EMU_NDEF_SELECTED"
  /\ InFile(c)
  /\ ReachesEnd(card_emulation_message, c.offset, c.length)

-----------------------------------------------------------------------------
(* The driver *)

\* nci_fsm_transition_() refreshes the configuration before it reads.
RefreshIsDue == nci_state = "RFST_DISCOVERY" /\ config_refresh_pending
HasMessage == pc = "loop" /\ ~RefreshIsDue /\ out # <<>>

\* process_data_message_(), up to the reply
ProcessData ==
  /\ HasMessage /\ Head(out).mt = "data"
  /\ out' = Tail(out)
  /\ response' = ResponseTo(Head(out))
  /\ pc' = IF response'.answered THEN "reply" ELSE "loop"
  /\ ce_state' = IF card_emulation_message = NoMessage THEN ce_state ELSE Selected(Head(out))
  /\ scans' = IF Scans(Head(out)) THEN scans + 1 ELSE scans
  /\ UNCHANGED <<nci_state, switch, card_emulation_message, theirs,
                 session, changed, crossed, swallowed>>

\* The chip passes the reply on to the reader it has.
Delivered ==
  IF reader # "away" /\ waiting
  THEN /\ waiting' = FALSE
       /\ reader' = CASE reader = "APP" -> "CC"
                      [] reader = "CC" -> "READ CC"
                      [] reader = "READ CC" -> "NDEF"
                      [] reader = "NDEF" -> "LENGTH"
                      [] reader = "LENGTH" -> "DATA"
                      [] reader \in {"DATA", "WRITE"} -> reader
       /\ size' = IF reader = "LENGTH" /\ response.bytes # <<>> THEN response.bytes[1][1] ELSE size
       /\ copy' = IF reader = "DATA" THEN copy \o response.bytes ELSE copy
  ELSE UNCHANGED theirs

BadProcessDeactivation ==
  /\ HasMessage /\ Head(out) = DeactivatedNtf
  /\ out' = Tail(out)
  /\ nci_state' = "RFST_DISCOVERY"
  /\ UNCHANGED <<pc, ce_state, switch, card_emulation_message, response,
                 theirs, history>>

\* The reply's transceive_(): the chip answers with a credit at the end of its
\* queue, and the head of the queue is taken for it.
Reply ==
  /\ pc = "reply"
  /\ pc' = "loop"
  /\ response' = Silence
  /\ out' = IF out = <<>> THEN <<>> ELSE Append(Tail(out), CreditNtf)
  /\ swallowed' = (swallowed \/ (out # <<>> /\ Head(out) = DeactivatedNtf))
  /\ crossed' = (crossed \/ out # <<>>)
  /\ Delivered
  /\ UNCHANGED <<host, session, scans, changed>>

\* process_message_() only logs a credit that comes by itself.
IgnoreCredit ==
  /\ HasMessage /\ Head(out) = CreditNtf
  /\ out' = Tail(out)
  /\ UNCHANGED <<pc, host, response, theirs, history>>

\* process_rf_intf_activated_oid_() in listen mode
ProcessActivation ==
  /\ HasMessage /\ Head(out) = ActivatedNtf
  /\ out' = Tail(out)
  /\ nci_state' = "RFST_LISTEN_ACTIVE"
  /\ UNCHANGED <<pc, ce_state, switch, card_emulation_message, response,
                 theirs, history>>

\* process_rf_deactivate_oid_()
ProcessDeactivation ==
  /\ HasMessage /\ Head(out) = DeactivatedNtf
  /\ out' = Tail(out)
  /\ nci_state' = "RFST_DISCOVERY"
  /\ ce_state' = "CARD_EMU_IDLE"
  /\ UNCHANGED <<pc, switch, card_emulation_message, response, theirs, history>>

\* refresh_core_config_() and the start of discovery that follows it
Refresh ==
  /\ pc = "loop" /\ RefreshIsDue
  /\ config_refresh_pending' = FALSE
  /\ chip_listens' = listening_enabled
  /\ UNCHANGED <<pc, nci_state, listening_enabled, card_emulation_message, response,
                 size, copy, session, scans, changed>>

\* Before a reader came: discovery is stopped and started.
RefreshIdle ==
  /\ Refresh
  /\ out = <<>>
  /\ UNCHANGED <<ce_state, out, reader, waiting, crossed, swallowed>>

\* The chip has something to say: stop_discovery_() takes that for its answer,
\* the other messages are lost, or seen out of place, and the chip is started
\* anew.
RefreshMeetsReader ==
  /\ Refresh
  /\ out # <<>>
  /\ ce_state' \in {ce_state} \cup {Selected(c) : c \in {m \in Range(Tail(out)) : m.mt = "data"}}
  /\ out' = <<>>
  /\ reader' = "away" /\ waiting' = FALSE
  /\ crossed' = TRUE /\ swallowed' = TRUE

Driver == ProcessData \/ Reply \/ IgnoreCredit
            \/ ProcessActivation \/ ProcessDeactivation \/ RefreshIdle \/ RefreshMeetsReader

-----------------------------------------------------------------------------
(* The user's automations *)

SetTagEmulationMessage(m) ==
  /\ pc = "loop"
  /\ card_emulation_message' = m
  /\ changed' = TRUE
  /\ UNCHANGED <<pc, nci_state, ce_state, switch, response, out, theirs,
                 session, scans, crossed, swallowed>>

SetListening(on) ==
  /\ pc = "loop"
  /\ listening_enabled # on
  /\ listening_enabled' = on
  /\ config_refresh_pending' = TRUE
  /\ UNCHANGED <<pc, nci_state, ce_state, card_emulation_message, chip_listens,
                 response, out, theirs, history>>

BadSetTagEmulationOn == SetListening(TRUE)

SetTagEmulationOn == card_emulation_message # NoMessage /\ SetListening(TRUE)
SetTagEmulationOff == SetListening(FALSE)

User == \/ \E m \in Messages : SetTagEmulationMessage(m)
        \/ SetTagEmulationOn \/ SetTagEmulationOff

-----------------------------------------------------------------------------
(* The reader *)

ReaderArrives ==
  /\ chip_listens
  /\ reader = "away" /\ session < MaxSessions
  /\ reader' = "APP" /\ waiting' = FALSE /\ size' = 0 /\ copy' = <<>>
  /\ session' = session + 1
  /\ scans' = 0
  /\ changed' = FALSE
  /\ crossed' = (pc = "reply" \/ out # <<>>)
  /\ out' = Append(out, ActivatedNtf)
  /\ UNCHANGED <<pc, host, response, swallowed>>

Rest == size - Len(copy)
Complete == reader = "DATA" /\ ~waiting /\ size > 0 /\ Rest <= 0

\* The reader's next command
NextCommand ==
  CASE reader \in {"APP", "CC", "NDEF"} -> Select(reader)
    [] reader = "READ CC" -> ReadFile(0, 15)
    [] reader = "LENGTH" -> ReadFile(0, 2)
    [] reader = "DATA" -> ReadFile(2 + Len(copy), IF Rest < MaxRead THEN Rest ELSE MaxRead)

ReaderAsks ==
  /\ reader \notin {"away", "WRITE"} /\ ~waiting /\ ~Complete
  /\ waiting' = TRUE
  /\ out' = Append(out, NextCommand)
  /\ UNCHANGED <<pc, host, response, reader, size, copy, history>>

\* It may write once it has the whole message.
ReaderWrites ==
  /\ Complete
  /\ reader' = "WRITE" /\ waiting' = TRUE
  /\ out' = Append(out, Command("WRITE", 0, 0))
  /\ UNCHANGED <<pc, host, response, size, copy, history>>

ReaderLeaves ==
  /\ reader # "away"
  /\ reader' = "away" /\ waiting' = FALSE
  /\ out' = Append(out, DeactivatedNtf)
  /\ UNCHANGED <<pc, host, response, size, copy, history>>

Reader == ReaderArrives \/ ReaderAsks \/ ReaderWrites \/ ReaderLeaves

Init ==
  /\ pc = "loop"
  /\ nci_state = "RFST_DISCOVERY"
  /\ ce_state = "CARD_EMU_IDLE"
  /\ listening_enabled = FALSE /\ config_refresh_pending = FALSE /\ chip_listens = FALSE
  /\ card_emulation_message \in Messages \cup {NoMessage}
  /\ response = Silence
  /\ out = <<>>
  /\ reader = "away" /\ waiting = FALSE /\ size = 0 /\ copy = <<>>
  /\ session = 0 /\ scans = 0
  /\ changed = FALSE /\ crossed = FALSE /\ swallowed = FALSE

Next == Driver \/ User \/ Reader

\* The scheduler keeps calling loop(), and a reader that has no answer yet
\* and stays asks for what it misses.
Fairness == WF_vars(Driver) /\ WF_vars(ReaderAsks)

Spec == Init /\ [][Next]_vars
FairSpec == Spec /\ Fairness

-----------------------------------------------------------------------------
(* Properties *)

CeStates == {"CARD_EMU_IDLE", "CARD_EMU_NDEF_APP_SELECTED", "CARD_EMU_CC_SELECTED",
             "CARD_EMU_NDEF_SELECTED"}

\* Every variable has its type, and emulation is never on without a message.
TypeOK ==
  /\ pc \in {"loop", "reply"}
  /\ nci_state \in {"RFST_DISCOVERY", "RFST_LISTEN_ACTIVE"}
  /\ ce_state \in CeStates
  /\ {listening_enabled, config_refresh_pending, chip_listens, waiting, changed, crossed, swallowed} \subseteq BOOLEAN
  /\ card_emulation_message \in Messages \cup {NoMessage}
  /\ listening_enabled => card_emulation_message # NoMessage
  /\ pc = "reply" <=> response.answered
  /\ reader \in {"away", "APP", "CC", "READ CC", "NDEF", "LENGTH", "DATA", "WRITE"}
  /\ size \in Messages \cup {0}

\* Nothing happened to this session that is not the driver's doing.
Undisturbed == reader # "away" /\ ~changed /\ ~crossed

\* README, TESTING: the emulated message can be read in full.  What a reader
\* holds when it has as many bytes as it was told is the message.
CopyIsTrue == Complete /\ Undisturbed => copy = Bytes(size, 1, size)

\* That much is so for a message that one READ is enough for, whoever read
\* before and whatever the message was then.
ShortCopyIsTrue ==
  Complete /\ Undisturbed /\ size <= MaxRead => copy = Bytes(size, 1, size)

\* on_emulated_tag_scan is called once for a reader that got to the end, in
\* however many parts, and for no other.
ScanOnceRead ==
  Undisturbed =>
    /\ Complete => scans = 1
    /\ reader \notin {"DATA", "WRITE"} => scans = 0

\* Between two readers, with all read that the chip had to say, the driver is back in discovery with no file selected,
\* unless the deactivation was read in the place of the credit for a reply
\* or of the answer to a DEACTIVATE.
BackToDiscovery ==
  pc = "loop" /\ out = <<>> /\ reader = "away" /\ ~swallowed
    => nci_state = "RFST_DISCOVERY" /\ ce_state = "CARD_EMU_IDLE"

\* A reader that stays is never left without an answer: it comes to the end
\* of the message, if no one changes it meanwhile and its session did not
\* start with messages of the reader before it.
ReaderIsServed ==
  [](reader = "APP" => <>(Complete \/ ~Undisturbed \/ reader = "WRITE"))
=============================================================================
