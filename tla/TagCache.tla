------------------------------ MODULE TagCache ------------------------------
(***************************************************************************)
(* The tags the driver believes to be on the reader: the cache             *)
(* discovered_endpoint_, filled by RF_DISCOVER and RF_INTF_ACTIVATED,      *)
(* emptied by the tag_ttl_ purge and by failed activations, and the        *)
(* on_tag / on_tag_removed triggers that tell the user's automations.      *)
(*                                                                         *)
(* The driver's states are those of NciFsm that concern tags, and those of *)
(* the initialisation, which may fail for good: then loop() does not run   *)
(* any more.  The chip is the NCI controller as the driver uses it: one    *)
(* tag in the field is activated at once, several are offered with         *)
(* discovery IDs 1, 2, ... and the host selects one.                       *)
(*                                                                         *)
(* A pass of loop() is the transition, the message it may process and the  *)
(* purge; tags move and time passes in between, and between the entries    *)
(* that the purge looks at.                                                *)
(***************************************************************************)
EXTENDS Naturals, Sequences, FiniteSets, SequencesExt

CONSTANTS
  Tags,        \* the tags, each with a UID of its own
  Stationary,  \* those that, once put on the reader, stay there
  MaxInField,  \* bound: how many tags fit on the reader
  TagTtl,      \* tag_ttl_
  EpTimeout,   \* 2000 ms: the longest an EP_ state may last
  MaxLag,      \* bound: longest time between two entries of loop()
  NFCC_MAX_ERROR_COUNT,
  Tasks,       \* next_task_ as the automations set it
  Faults       \* whether exchanges with the chip may fail

ASSUME TagConstantsAssumption ==
  /\ Stationary \subseteq Tags
  /\ MaxInField \in Nat /\ TagTtl \in Nat /\ EpTimeout \in Nat /\ MaxLag \in Nat
  /\ NFCC_MAX_ERROR_COUNT \in Nat
  /\ Tasks \subseteq {"EP_READ", "EP_CLEAN"}
  /\ Faults \in BOOLEAN

AgeCap == TagTtl + 3 * MaxLag + 1  \* bound: ages saturate here

VARIABLES
  pc,                  \* "loop" (between passes), "idle", "await", "purge"
  nci_state,
  nci_state_error,
  error_count,
  state_age,           \* millis() - last_nci_state_change_, of an EP_ state
  discovered_endpoint, \* its last_seen is kept as an age
  selecting_endpoint,
  next_task,
  on,                  \* tags whose on_tag was not yet followed by on_tag_removed
  kept,                \* entries the purge has passed and left
  lag,                 \* time since loop() was last entered
  nfcc,                \* the chip's RF state
  offered,             \* the tags it offered, by discovery ID
  target,              \* the discovery ID it was told to select, 0 for none
  ntf,                 \* notifications waiting to be read, IRQ is high
  field                \* the tags on the reader

host == <<nci_state, nci_state_error, error_count, state_age>>
seen == <<discovered_endpoint, selecting_endpoint, next_task, on, kept>>
chip == <<nfcc, offered, target, ntf>>
vars == <<pc, host, seen, lag, chip, field>>

Endpoint == [tag : Tags, id : 1..MaxInField, last_seen : 0..AgeCap,
             trig_called : BOOLEAN]

EpStates == {"EP_SELECTING", "EP_DEACTIVATING"}

BootStates == <<"NFCC_RESET", "NFCC_INIT", "NFCC_CONFIG", "NFCC_SET_DISCOVER_MAP",
                "NFCC_SET_LISTEN_MODE_ROUTING">>

HostState == Range(BootStates) \cup EpStates
               \cup {"RFST_IDLE", "RFST_DISCOVERY", "RFST_W4_HOST_SELECT", "FAILED"}

NfccState == {"idle", "discovery", "w4", "selecting", "active"}

TagsIn(endpoints) == {endpoints[i].tag : i \in DOMAIN endpoints}

Cached == TagsIn(discovered_endpoint)

SetState(s) ==
  nci_state' = s /\ nci_state_error' = "NONE" /\ error_count' = 0 /\ state_age' = 0

\* mark_failed(): loop() is not called again, and with it the purge.
GivenUp == pc = "loop" /\ nci_state = "FAILED"

-----------------------------------------------------------------------------
(* The chip's side of a command *)

\* stop_discovery_(), RF_DEACTIVATE(idle): a notification follows if a tag was
\* active.  queue is what was waiting to be read before.
StopDone(queue) ==
  /\ nfcc' = "idle"
  /\ offered' = <<>>
  /\ target' = 0
  /\ ntf' = IF nfcc = "active" THEN Append(queue, [kind |-> "deactivate"]) ELSE queue

\* The command, or only its answer, was lost.
StopFailed(queue) ==
  /\ Faults
  /\ StopDone(queue) \/ (ntf' = queue /\ UNCHANGED <<nfcc, offered, target>>)

Stop(queue) == StopDone(queue) \/ StopFailed(queue)

-----------------------------------------------------------------------------
(* erase_tag_() and purge_old_tags_() *)

\* Mutant: the automations are not told.
BadEraseTag(index) ==
  /\ discovered_endpoint' = IF index \in DOMAIN discovered_endpoint
                            THEN RemoveAt(discovered_endpoint, index)
                            ELSE discovered_endpoint
  /\ UNCHANGED on

EraseTag(index) ==
  IF index \in DOMAIN discovered_endpoint
  THEN /\ discovered_endpoint' = RemoveAt(discovered_endpoint, index)
       /\ on' = on \ {discovered_endpoint[index].tag}
  ELSE UNCHANGED <<discovered_endpoint, on>>

\* Mutant: a tag is kept until it was reported.
BadFresh(endpoint) == endpoint.last_seen <= TagTtl \/ ~endpoint.trig_called

Fresh(endpoint) == endpoint.last_seen <= TagTtl

\* The loop of purge_old_tags_() runs from the last entry to the first, which
\* leaves the indices below alone.  Its end is the end of the pass.
Unchecked == Len(discovered_endpoint) - kept

\* Mutant: erases an entry without going through erase_tag_().
BadPurgeOldTags ==
  /\ pc = "purge"
  /\ IF Unchecked = 0
     THEN pc' = "loop" /\ kept' = 0 /\ UNCHANGED discovered_endpoint
     ELSE /\ UNCHANGED pc
          /\ IF Fresh(discovered_endpoint[Unchecked])
             THEN kept' = kept + 1 /\ UNCHANGED discovered_endpoint
             ELSE discovered_endpoint' = RemoveAt(discovered_endpoint, Unchecked) /\ UNCHANGED kept
  /\ UNCHANGED <<host, selecting_endpoint, next_task, on, lag, chip, field>>

PurgeOldTags ==
  /\ pc = "purge"
  /\ IF Unchecked = 0
     THEN pc' = "loop" /\ kept' = 0 /\ UNCHANGED <<discovered_endpoint, on>>
     ELSE /\ UNCHANGED pc
          /\ IF Fresh(discovered_endpoint[Unchecked])
             THEN kept' = kept + 1 /\ UNCHANGED <<discovered_endpoint, on>>
             ELSE EraseTag(Unchecked) /\ UNCHANGED kept
  /\ UNCHANGED <<host, selecting_endpoint, next_task, lag, chip, field>>

-----------------------------------------------------------------------------
(* loop(): from the fast recovery to the start of discovery *)

EnterLoop == pc = "loop" /\ ~GivenUp /\ lag' = 0

EpTimedOut == nci_state \in EpStates /\ state_age > EpTimeout

\* The pass ends here: without a purge
FastRecovery ==
  /\ EnterLoop
  /\ EpTimedOut
  /\ SetState("NFCC_RESET")
  /\ UNCHANGED <<pc, seen, chip, field>>

\* The initialisation goes from state to state and on to RFST_IDLE; the cache
\* survives it.  A pass ends with the first state that fails, which stays the
\* state unless it failed too often: that is the end (NFCC_RESET, NFCC_INIT,
\* NFCC_CONFIG) or a new start.  The VEN pin restarts the chip in any case.
\* Of the error states only RFST_DISCOVERY is told apart from NONE.
BootFailed(first, failing) ==
  LET count == IF failing = first THEN error_count ELSE 0
  IN  IF count > NFCC_MAX_ERROR_COUNT
      THEN SetState(IF failing <= 3 THEN "FAILED" ELSE "NFCC_RESET")
      ELSE /\ nci_state' = BootStates[failing]
           /\ nci_state_error' = "NONE"
           /\ error_count' = count + 1
           /\ state_age' = 0

BringUp ==
  /\ EnterLoop
  /\ \E first \in DOMAIN BootStates :
       /\ nci_state = BootStates[first]
       /\ \/ pc' = "idle" /\ SetState("RFST_IDLE")
          \/ /\ Faults /\ pc' = "purge"
             /\ \E failing \in first..Len(BootStates) : BootFailed(first, failing)
  /\ nfcc' = "idle" /\ offered' = <<>> /\ target' = 0 /\ ntf' = <<>>
  /\ UNCHANGED <<seen, field>>

\* RFST_IDLE after a failed start: stop_discovery_() comes first.
Idle ==
  /\ EnterLoop
  /\ nci_state = "RFST_IDLE"
  /\ pc' = "idle"
  /\ IF nci_state_error = "RFST_DISCOVERY" THEN Stop(ntf) ELSE UNCHANGED chip
  /\ UNCHANGED <<host, seen, field>>

\* Mutant: tries again without a limit.
BadDiscoveryFailed ==
  /\ nci_state_error' = "RFST_DISCOVERY"
  /\ error_count' = error_count + 1
  /\ UNCHANGED <<nci_state, state_age>>

\* nci_fsm_set_error_state_(RFST_DISCOVERY)
DiscoveryFailed ==
  IF error_count > NFCC_MAX_ERROR_COUNT
  THEN SetState("NFCC_RESET")
  ELSE /\ nci_state_error' = "RFST_DISCOVERY"
       /\ error_count' = error_count + 1
       /\ UNCHANGED <<nci_state, state_age>>

\* The chip starts, or says it already did; it refuses while it has a tag.
\* A fault here is a command that did not reach the chip.
StartDiscovery ==
  /\ pc = "idle"
  /\ pc' = "purge"
  /\ LET accepted == nfcc \in {"idle", "discovery"}
     IN  \/ accepted /\ nfcc' = "discovery" /\ SetState("RFST_DISCOVERY")
         \/ (~accepted \/ Faults) /\ UNCHANGED nfcc /\ DiscoveryFailed
  /\ UNCHANGED <<seen, lag, offered, target, ntf, field>>

-----------------------------------------------------------------------------
(* select_endpoint_() *)

\* The first endpoint whose tag was not reported yet, else the first one
NotReported == {i \in DOMAIN discovered_endpoint : ~discovered_endpoint[i].trig_called}

\* Mutant: always the first endpoint
BadChoice == 1

Choice == IF NotReported = {} THEN 1
          ELSE CHOOSE i \in NotReported : \A j \in NotReported : i <= j

\* selecting_endpoint_ is a bool: any index but 0 becomes 1.  It keeps its
\* old value when every tag was reported.
SelectedIndex == IF NotReported = {} THEN selecting_endpoint ELSE Choice # 1

SelectEndpoint ==
  /\ EnterLoop
  /\ nci_state = "RFST_W4_HOST_SELECT"
  /\ pc' = "await"
  /\ IF discovered_endpoint = <<>>
     THEN /\ Stop(ntf)
          /\ SetState("RFST_IDLE")
          /\ UNCHANGED selecting_endpoint
     ELSE /\ selecting_endpoint' = SelectedIndex
          /\ LET id == discovered_endpoint[Choice].id
                 accepted == nfcc = "w4" /\ id \in DOMAIN offered
             IN  \/ /\ accepted
                    /\ nfcc' = "selecting" /\ target' = id
                    /\ SetState("EP_SELECTING")
                    /\ UNCHANGED <<offered, ntf>>
                 \/ /\ Faults \/ ~accepted
                    /\ UNCHANGED <<host, chip>>
  /\ UNCHANGED <<discovered_endpoint, next_task, on, kept, field>>

-----------------------------------------------------------------------------
(* process_message_() and its handlers *)

Waiting == \/ pc = "await"
           \/ /\ pc = "loop" /\ ~EpTimedOut
              /\ nci_state \in EpStates \cup {"RFST_DISCOVERY"}

\* Mutant: returns from loop() without a purge.
BadEndOfWait == /\ Waiting
                /\ pc' = "loop"
                /\ lag' = IF pc = "loop" THEN 0 ELSE lag
                /\ UNCHANGED field

EndOfWait == /\ Waiting
             /\ pc' = "purge"
             /\ lag' = IF pc = "loop" THEN 0 ELSE lag
             /\ UNCHANGED field

NoMessage ==
  /\ EndOfWait
  /\ ntf = <<>>
  /\ UNCHANGED <<host, seen, chip>>

\* read_nfcc() fails before, or after, it took the message from the chip.
ReadFails ==
  /\ EndOfWait
  /\ Faults
  /\ ntf # <<>>
  /\ ntf' \in {ntf, Tail(ntf)}
  /\ UNCHANGED <<host, seen, nfcc, offered, target>>

Receive(kind) ==
  /\ EndOfWait
  /\ ntf # <<>>
  /\ Head(ntf).kind = kind

\* Mutant: looks the tag up by its discovery ID instead of its UID.
BadWithTag(tag, id) ==
  LET known == {i \in DOMAIN discovered_endpoint : discovered_endpoint[i].id = id}
  IN  IF known = {}
      THEN Append(discovered_endpoint,
                  [tag |-> tag, id |-> id, last_seen |-> 0, trig_called |-> FALSE])
      ELSE [i \in DOMAIN discovered_endpoint |->
              IF i \in known
              THEN [discovered_endpoint[i] EXCEPT !.tag = tag, !.last_seen = 0]
              ELSE discovered_endpoint[i]]

\* find_tag_uid_(): update the tag's entry or append one
WithTag(tag, id) ==
  LET known == {i \in DOMAIN discovered_endpoint : discovered_endpoint[i].tag = tag}
  IN  IF known = {}
      THEN Append(discovered_endpoint,
                  [tag |-> tag, id |-> id, last_seen |-> 0, trig_called |-> FALSE])
      ELSE [i \in DOMAIN discovered_endpoint |->
              IF i \in known
              THEN [discovered_endpoint[i] EXCEPT !.id = id, !.last_seen = 0]
              ELSE discovered_endpoint[i]]

Reported(endpoints, tag) ==
  [i \in DOMAIN endpoints |->
     IF endpoints[i].tag = tag THEN [endpoints[i] EXCEPT !.trig_called = TRUE]
                               ELSE endpoints[i]]

RfDiscover ==
  /\ Receive("discover")
  /\ LET m == Head(ntf)
     IN  /\ discovered_endpoint' = WithTag(m.tag, m.id)
         /\ IF m.more THEN UNCHANGED host ELSE SetState("RFST_W4_HOST_SELECT")
  /\ ntf' = Tail(ntf)
  /\ UNCHANGED <<selecting_endpoint, next_task, on, kept, nfcc, offered, target>>

\* The reading task reports the tag unless it was reported before; any other
\* task reports nothing and makes reading the next task.  Then the tag is
\* deactivated, with the message already taken off the queue.
IntfActivated ==
  /\ Receive("activated")
  /\ LET m == Head(ntf)
         endpoints == WithTag(m.tag, m.id)
     IN  IF next_task = "EP_READ"
         THEN /\ discovered_endpoint' = Reported(endpoints, m.tag)
              /\ on' = on \cup {m.tag}
         ELSE discovered_endpoint' = endpoints /\ UNCHANGED on
  /\ next_task' = "EP_READ"
  /\ \/ StopDone(Tail(ntf)) /\ SetState("EP_DEACTIVATING")
     \/ StopFailed(Tail(ntf)) /\ SetState("NFCC_RESET")
  /\ UNCHANGED <<selecting_endpoint, kept>>

RfDeactivated ==
  /\ Receive("deactivate")
  /\ SetState("RFST_IDLE")
  /\ ntf' = Tail(ntf)
  /\ UNCHANGED <<seen, nfcc, offered, target>>

\* CORE_GENERIC_ERROR, DISCOVERY_TARGET_ACTIVATION_FAILED.  The index to
\* erase is what select_endpoint_() left in the bool.
ActivationFailed ==
  /\ Receive("failed")
  /\ IF nci_state = "EP_SELECTING"
     THEN /\ SetState("RFST_W4_HOST_SELECT")
          /\ EraseTag(IF selecting_endpoint THEN 2 ELSE 1)
          /\ ntf' = Tail(ntf) /\ UNCHANGED <<nfcc, offered, target>>
     ELSE /\ SetState("RFST_IDLE")
          /\ Stop(Tail(ntf))
          /\ UNCHANGED <<discovered_endpoint, on>>
  /\ UNCHANGED <<selecting_endpoint, next_task, kept>>

-----------------------------------------------------------------------------
(* The user: read_mode(), clean_mode() and the like *)

SetMode ==
  /\ pc = "loop"
  /\ next_task' \in Tasks \ {next_task}
  /\ UNCHANGED <<pc, host, discovered_endpoint, selecting_endpoint, on, kept, lag, chip,
                 field>>

-----------------------------------------------------------------------------
(* The chip: it takes a tag alone in the field at once, offers several, and *)
(* answers a selection with the tag or, if it is gone, an error.            *)

NfccActivates ==
  /\ nfcc = "discovery"
  /\ \E t \in field :
       /\ field = {t}
       /\ ntf' = Append(ntf, [kind |-> "activated", tag |-> t, id |-> 1])
  /\ nfcc' = "active"
  /\ UNCHANGED <<pc, host, seen, lag, offered, target, field>>

NfccOffers ==
  /\ nfcc = "discovery"
  /\ Cardinality(field) > 1
  /\ \E s \in SetToSeqs(field) :
       /\ offered' = s
       /\ ntf' = ntf \o [i \in DOMAIN s |->
                           [kind |-> "discover", tag |-> s[i], id |-> i,
                            more |-> i < Len(s)]]
  /\ nfcc' = "w4"
  /\ UNCHANGED <<pc, host, seen, lag, target, field>>

NfccSelects ==
  /\ nfcc = "selecting"
  /\ LET tag == offered[target]
     IN  IF tag \in field
         THEN /\ nfcc' = "active"
              /\ ntf' = Append(ntf, [kind |-> "activated", tag |-> tag, id |-> target])
         ELSE nfcc' = "w4" /\ ntf' = Append(ntf, [kind |-> "failed"])
  /\ target' = 0
  /\ UNCHANGED <<pc, host, seen, lag, offered, field>>

NfccBusy == nfcc = "selecting" \/ (nfcc = "discovery" /\ field # {})

Nfcc == NfccActivates \/ NfccOffers \/ NfccSelects

-----------------------------------------------------------------------------
(* The environment: tags come and go, time passes.  The chip is prompt:     *)
(* what it can do it does before the clock moves.                           *)

TagComes ==
  /\ Cardinality(field) < MaxInField
  /\ \E t \in Tags \ field : field' = field \cup {t}
  /\ UNCHANGED <<pc, host, seen, lag, chip>>

TagLeaves ==
  /\ \E t \in field \ Stationary : field' = field \ {t}
  /\ UNCHANGED <<pc, host, seen, lag, chip>>

Older(age, cap) == IF age < cap THEN age + 1 ELSE age

Tick ==
  /\ lag < MaxLag \/ GivenUp
  /\ ~NfccBusy
  /\ lag' = Older(lag, MaxLag)
  /\ state_age' = IF nci_state \in EpStates THEN Older(state_age, EpTimeout + 1) ELSE 0
  /\ discovered_endpoint' =
       [i \in DOMAIN discovered_endpoint |->
          [discovered_endpoint[i] EXCEPT !.last_seen = Older(@, AgeCap)]]
  /\ UNCHANGED <<pc, nci_state, nci_state_error, error_count, selecting_endpoint, next_task,
                 on, kept, chip, field>>

-----------------------------------------------------------------------------
Init ==
  /\ pc = "loop"
  /\ nci_state = "NFCC_RESET" /\ nci_state_error = "NONE" /\ error_count = 0
  /\ state_age = 0
  /\ discovered_endpoint = <<>>
  /\ selecting_endpoint = FALSE
  /\ next_task = "EP_READ"
  /\ on = {}
  /\ kept = 0
  /\ lag = 0
  /\ nfcc = "idle" /\ offered = <<>> /\ target = 0 /\ ntf = <<>>
  /\ field = {}

ProcessMessage == NoMessage \/ ReadFails \/ RfDiscover \/ IntfActivated
                    \/ RfDeactivated \/ ActivationFailed

Driver == FastRecovery \/ BringUp \/ Idle \/ StartDiscovery \/ SelectEndpoint
            \/ ProcessMessage \/ PurgeOldTags

Next == Driver \/ Nfcc \/ SetMode \/ TagComes \/ TagLeaves \/ Tick

\* loop() is called again and again, the chip does what it can.  Time passes
\* too: no run squeezes infinitely many passes between two ticks.
Fairness == WF_vars(Driver) /\ WF_vars(Nfcc) /\ SF_vars(Tick)

Spec == Init /\ [][Next]_vars
FairSpec == Spec /\ Fairness

-----------------------------------------------------------------------------
(* Properties *)

Message == [kind : {"discover"}, tag : Tags, id : 1..MaxInField, more : BOOLEAN]
             \cup [kind : {"activated"}, tag : Tags, id : 1..MaxInField]
             \cup [kind : {"deactivate", "failed"}]

\* Every variable has its type.
TypeOK ==
  /\ pc \in {"loop", "idle", "await", "purge"}
  /\ nci_state \in HostState
  /\ nci_state_error \in {"NONE", "RFST_DISCOVERY"}
  /\ error_count \in 0..(NFCC_MAX_ERROR_COUNT + 1)
  /\ state_age \in 0..(EpTimeout + 1)
  /\ discovered_endpoint \in Seq(Endpoint)
  /\ selecting_endpoint \in BOOLEAN
  /\ next_task \in {"EP_READ", "EP_CLEAN"}
  /\ on \subseteq Tags
  /\ kept \in 0..Len(discovered_endpoint)
  /\ lag \in 0..MaxLag
  /\ nfcc \in NfccState
  /\ offered \in Seq(Tags)
  /\ target \in 0..Len(offered)
  /\ ntf \in Seq(Message)
  /\ field \subseteq Tags

\* The cache holds one entry for a UID, whatever mix of RF_DISCOVER and
\* RF_INTF_ACTIVATED the tag was seen through.
OneEntryPerTag ==
  \A i, j \in DOMAIN discovered_endpoint :
    discovered_endpoint[i].tag = discovered_endpoint[j].tag => i = j

\* What the automations were told is what the cache says: a tag reported by
\* on_tag and not taken back by on_tag_removed is exactly a cached tag with
\* trig_called set.  So no tag is reported twice in a row, none stays "on"
\* for ever after its entry is gone.
UserViewMatchesCache ==
  on = {discovered_endpoint[i].tag :
          i \in {j \in DOMAIN discovered_endpoint :
                   discovered_endpoint[j].trig_called}}

\* TESTING.md, removal detection latency: an entry is gone tag_ttl_ and one
\* polling cycle (the gap to the next pass, and the pass up to its purge)
\* after the tag was last seen; a pass that ends in the fast recovery, and so
\* purges nothing, costs one more gap.  Nothing else puts the purge off, but a
\* driver that has given up never gets to one.
RemovalLatency ==
  ~GivenUp =>
    \A i \in DOMAIN discovered_endpoint :
      discovered_endpoint[i].last_seen <= TagTtl + 3 * MaxLag

\* Selecting comes to an end, although a refused selection neither counts an
\* error nor starts a timeout, and a failed one starts the next without erasing
\* anything when the index it left is stale: the purge takes the cache away.
SelectionEnds ==
  LET Selecting == nci_state \in {"RFST_W4_HOST_SELECT", "EP_SELECTING"}
  IN  Selecting ~> ~Selecting

\* A tag that left for good is reported as removed, with faults for ever too,
\* unless they make the driver give up: then its automations are left with the
\* tags they were told of.
RemovedAfterLeaving ==
  \A t \in Tags : <>[](t \notin field) => <>[](t \notin on) \/ <>GivenUp

\* A tag that stays on the reader is reported, however many others come, go
\* and compete for the selection, unless the automations keep giving the
\* driver other tasks.
StationaryReported ==
  \A t \in Stationary :
    <>[](next_task = "EP_READ") => (t \in field ~> t \in on)

\* TESTING.md: on_tag_removed carries the UID reported by on_tag; a tag that
\* was never reported is not taken back.
RemovedOnlyIfReported == [][Cached \ Cached' \subseteq on]_vars

\* TESTING.md: on_tag_removed does not fire while the tag is on the reader.
NoGhostRemoval == [][on \ on' \subseteq Tags \ (Stationary \cap field)]_vars
=============================================================================
