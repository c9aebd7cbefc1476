------------------------------- MODULE NciLink -------------------------------
(***************************************************************************)
(* The exchange of commands and answers between the driver and the chip:   *)
(* transceive_(), read_nfcc() and write_nfcc() against a chip that queues  *)
(* what it has to say, composed with the state machine's reactions to the  *)
(* outcome.                                                                *)
(*                                                                         *)
(* The chip answers a command with messages at the end of its queue, next  *)
(* to the notifications it sends by itself; the host takes the head of the *)
(* queue for the answer.  So an answer that comes after the host gave up   *)
(* waiting, or a notification that came first, shifts what later commands  *)
(* read.  The chip is external, modelled from how the driver uses it.      *)
(*                                                                         *)
(* Against NciFsm: an exchange here has its messages; time, the health     *)
(* check and test mode are left out, polling is always on, and             *)
(* nci_state_error_ is not kept, because it follows from the state and the *)
(* count (NciFsm's ErrorBelongsToState).                                   *)
(***************************************************************************)
EXTENDS Naturals, Sequences

CONSTANTS
  NFCC_MAX_ERROR_COUNT,
  HighSensitivity,    \* sensitivity_ is PN7160_SENSITIVITY_HIGH
  OwnConfig,          \* proprietary_config_ is not empty
  FaultKinds,         \* which faults the link can have
  MaxFaults,          \* bound: how many of them in a behaviour
  MaxQueue            \* bound: the chip starts nothing new beyond this

ASSUME LinkAssumption ==
  /\ NFCC_MAX_ERROR_COUNT \in Nat
  /\ HighSensitivity \in BOOLEAN
  /\ OwnConfig \in BOOLEAN
  /\ FaultKinds \subseteq {"unsent", "lost", "late", "dropped"}
  /\ MaxFaults \in Nat
  /\ MaxQueue \in Nat \ {0}

VARIABLES
  pc,                      \* where loop() is
  nci_state,
  error_count,
  sent,                    \* commands of send_init_config_() answered so far
  listening_enabled,
  config_refresh_pending,
  core_config_is_solo,
  chip,                    \* rf: its RF state, config: the core configuration
                           \* in force, out: what it has to say, oldest first
  faults,                  \* faults the link has still to come
  lost,                    \* a command or a message was lost since VEN was last pulled
  lateInBoot,              \* an answer was late in NFCC_INIT or NFCC_CONFIG
  outOfStep,               \* a command was sent to a chip with something to say, or
                           \* a fault occurred, since VEN was last pulled or the
                           \* two last met in discovery
  refused                  \* the chip did not take the last core configuration

host    == <<nci_state, error_count>>
cfg     == <<config_refresh_pending, core_config_is_solo, refused>>
history == <<lost, lateInBoot, outOfStep>>
vars    == <<pc, host, sent, listening_enabled, cfg, chip, faults, history>>

-----------------------------------------------------------------------------
(* Messages and the chip *)

\* The first byte of a message's payload is read as its status: STATUS_OK,
\* one of the codes that start_discovery_() accepts too, or anything else.
Rsp(oid, status)       == [mt |-> "rsp", oid |-> oid, status |-> status, body |-> "none"]
Ntf(oid, status, body) == [mt |-> "ntf", oid |-> oid, status |-> status, body |-> body]

ResetNtf   == Ntf("RESET", "other", "none")          \* reason code 2
Activated(mode)  == Ntf("ACTIVATED", "other", mode)  \* discovery ID
Discovered(more) == Ntf("DISCOVER", "other", more)   \* discovery ID
\* Deactivation types IDLE (0), SLEEP and SLEEP_AF (1, 2), DISCOVERY (3)
Deactivated(type) == Ntf("DEACTIVATE", IF type = "idle" THEN "ok" ELSE "other", type)
ActivationFailed == Ntf("GENERIC_ERROR", "discovery", "none")
Credits    == Ntf("CREDITS", "other", "none")        \* number of entries
TagData    == [mt |-> "data", oid |-> "none", status |-> "other", body |-> "none"]
NoMessage  == [mt |-> "none", oid |-> "none", status |-> "none", body |-> "none"]

Cmd(oid) == [oid |-> oid, config |-> "none"]
CoreConfig(solo) ==
  [oid |-> "SET_CONFIG", config |-> IF solo THEN "solo" ELSE "rw_ce"]

BadPowerCycle(c) == [c EXCEPT !.rf = "idle", !.config = "default"]

\* VEN low and high again: the queue is gone and so is the configuration.
PowerCycle(c) == [c EXCEPT !.rf = "idle", !.config = "default", !.out = <<>>]

Says(c, messages) == [c EXCEPT !.out = @ \o messages]

\* What the chip does on a command.  Outside its idle state it refuses all
\* that configures it, in it what needs a discovery.
Execute(c, cmd) ==
  CASE cmd.oid = "RESET" ->
         Says([c EXCEPT !.rf = "idle", !.config = "default"],
              <<Rsp("RESET", "ok"), ResetNtf>>)
    [] cmd.oid \in {"INIT", "PROPRIETARY", "SET_CONFIG", "DISCOVER_MAP", "ROUTING"} ->
         IF c.rf = "idle"
         THEN Says([c EXCEPT !.config = IF cmd.config = "none" THEN @ ELSE cmd.config],
                   <<Rsp(cmd.oid, "ok")>>)
         ELSE Says(c, <<Rsp(cmd.oid, "other")>>)
    [] cmd.oid = "DISCOVER" ->
         IF c.rf = "idle" THEN Says([c EXCEPT !.rf = "discovery"], <<Rsp("DISCOVER", "ok")>>)
         ELSE Says(c, <<Rsp("DISCOVER", IF c.rf = "discovery" THEN "discovery" ELSE "other")>>)
    [] cmd.oid = "SELECT" ->
         IF c.rf = "w4_host_select"
         THEN Says([c EXCEPT !.rf = "selecting"], <<Rsp("SELECT", "ok")>>)
         ELSE Says(c, <<Rsp("SELECT", "other")>>)
    [] cmd.oid = "DEACTIVATE" ->
         CASE c.rf = "idle" -> Says(c, <<Rsp("DEACTIVATE", "other")>>)
           [] c.rf \in {"active", "listen", "listen_sleep"} ->
                Says([c EXCEPT !.rf = "idle"],
                     <<Rsp("DEACTIVATE", "ok"), Deactivated("idle")>>)
           [] OTHER -> Says([c EXCEPT !.rf = "idle"], <<Rsp("DEACTIVATE", "ok")>>)
    [] cmd.oid = "DATA" ->
         IF c.rf = "active" THEN Says(c, <<Credits, TagData>>) ELSE c

-----------------------------------------------------------------------------
(* read_nfcc(), write_nfcc() and transceive_() *)

\* The outcome of an exchange: the chip afterwards, the message the host
\* read, and the fault there was.
Outcome(c, rx, fault) == [chip |-> c, rx |-> rx, fault |-> fault]

\* The host reads the head of the queue, or finds the IRQ line low.
ReadHead(c, fault) ==
  IF c.out = <<>> THEN Outcome(c, NoMessage, fault)
  ELSE Outcome([c EXCEPT !.out = Tail(@)], Head(c.out), fault)

Faulty(kind, outcome) ==
  IF kind \in FaultKinds /\ faults > 0 THEN {outcome} ELSE {}

\* The bytes were fetched, but the transfer failed or the line did not fall
\* in time: read_nfcc() reports a failure and the message is gone.
Drop(c) == IF c.out = <<>> THEN c ELSE [c EXCEPT !.out = Tail(@)]

\* One call of read_nfcc()
Reads(c) ==
  {ReadHead(c, "none")} \cup Faulty("dropped", Outcome(Drop(c), NoMessage, "dropped"))

\* transceive_(): one write, which the host may see fail or which may be lost
\* unseen, then reads until one succeeds.  An answer is late when it comes
\* after the last read, and only an empty queue makes a read find nothing.
Transceive(c, cmd) ==
  LET done == Execute(c, cmd)
  IN  {ReadHead(done, "none")}
      \cup Faulty("unsent", Outcome(c, NoMessage, "unsent"))
      \cup Faulty("lost", ReadHead(c, "lost"))
      \cup Faulty("dropped", ReadHead(Drop(done), "dropped"))
      \cup (IF c.out = <<>> THEN Faulty("late", Outcome(done, NoMessage, "late")) ELSE {})

\* The type of the message is not looked at, so that a notification with the
\* command's identifier passes for its response.
Matches(cmd, rx) == rx.oid = cmd.oid

Accepted(cmd, rx) == Matches(cmd, rx) /\ rx.status = "ok"

\* start_discovery_() looks at the status of the message it read even when
\* that message answers another command.
Started(x) == x.rx.status \in {"ok", "discovery"}

\* Discovery was started, and the chip has nothing left to say of what was
\* before.
Met(x) ==
  pc = "start" /\ Started(x) /\ x.chip.rf = "discovery" /\ x.chip.out = <<>>

\* What is read after a command that found the chip with something to say is
\* not the answer to that command.
Receiving == {"reset_ntf", "await", "task_data"}
Stale == pc \notin Receiving /\ chip.out # <<>>

\* What every step with an exchange does, besides the host's reaction
Exchanged(x) ==
  /\ chip' = x.chip
  /\ faults' = IF x.fault = "none" THEN faults ELSE faults - 1
  /\ lost' = (x.fault \in {"lost", "dropped"} \/ lost)
  /\ lateInBoot' = \/ lateInBoot
                   \/ x.fault = "late" /\ nci_state \in {"NFCC_INIT", "NFCC_CONFIG"}
  /\ outOfStep' = (~Met(x) /\ (outOfStep \/ x.fault # "none" \/ Stale))

NoExchange == UNCHANGED <<chip, faults, history>>

-----------------------------------------------------------------------------
(* nci_fsm_set_state_() and nci_fsm_set_error_state_() *)

BootStates == {"NFCC_RESET", "NFCC_INIT", "NFCC_CONFIG"}

SetState(s) == nci_state' = s /\ error_count' = 0

BadSetErrorState ==
  IF error_count > NFCC_MAX_ERROR_COUNT + 1
  THEN SetState(IF nci_state \in BootStates THEN "FAILED" ELSE "NFCC_RESET")
  ELSE error_count' = error_count + 1 /\ UNCHANGED nci_state

\* The states whose failures are counted are those they are filed under.
SetErrorState ==
  IF error_count > NFCC_MAX_ERROR_COUNT
  THEN SetState(IF nci_state \in BootStates THEN "FAILED" ELSE "NFCC_RESET")
  ELSE error_count' = error_count + 1 /\ UNCHANGED nci_state

EpStates == {"EP_SELECTING", "EP_DEACTIVATING"}

-----------------------------------------------------------------------------
(* nci_fsm_transition_(): bringing the chip up.  pc is "fsm" after a step   *)
(* that falls through to the next.                                          *)

Bring(state) == pc \in {"loop", "fsm"} /\ nci_state = state

Succeeds(to) == pc' = "fsm" /\ SetState(to)
Fails == pc' = "loop" /\ SetErrorState

\* reset_core_(): power and RESET command, then its notification
ResetCore ==
  /\ Bring("NFCC_RESET")
  /\ \E x \in Transceive(PowerCycle(chip), Cmd("RESET")) :
       /\ chip' = x.chip
       /\ faults' = IF x.fault = "none" THEN faults ELSE faults - 1
       /\ lost' = (x.fault \in {"lost", "dropped"})
       /\ outOfStep' = (x.fault # "none")
       /\ UNCHANGED lateInBoot
       /\ IF Accepted(Cmd("RESET"), x.rx)
          THEN pc' = "reset_ntf" /\ UNCHANGED host
          ELSE Fails
  /\ UNCHANGED <<sent, listening_enabled, cfg>>

ResetNotification ==
  /\ pc = "reset_ntf"
  /\ \E x \in Reads(chip) :
       /\ Exchanged(x)
       /\ IF x.rx = ResetNtf THEN Succeeds("NFCC_INIT") ELSE Fails
  /\ UNCHANGED <<sent, listening_enabled, cfg>>

Step(state, oid, to) ==
  /\ Bring(state)
  /\ \E x \in Transceive(chip, Cmd(oid)) :
       /\ Exchanged(x)
       /\ IF Accepted(Cmd(oid), x.rx) THEN Succeeds(to) ELSE Fails
  /\ UNCHANGED <<sent, listening_enabled, cfg>>

InitCore == Step("NFCC_INIT", "INIT", "NFCC_CONFIG")
SetDiscoverMap ==
  Step("NFCC_SET_DISCOVER_MAP", "DISCOVER_MAP", "NFCC_SET_LISTEN_MODE_ROUTING")
SetListenModeRouting == Step("NFCC_SET_LISTEN_MODE_ROUTING", "ROUTING", "RFST_IDLE")

ShouldBeSolo == ~listening_enabled

\* The commands of send_init_config_() before send_core_config_(): those of
\* send_rf_config_() depend on the configuration.
InitConfig ==
  <<"PROPRIETARY", "PMU">> \o (IF HighSensitivity THEN <<"RF">> ELSE <<>>)
                           \o (IF OwnConfig THEN <<"OWN">> ELSE <<>>)

\* A failing RF tuning command is passed over, any other fails the state,
\* which starts again with the first command.
SendInitConfig ==
  /\ Bring("NFCC_CONFIG")
  /\ sent < Len(InitConfig)
  /\ LET next == InitConfig[sent + 1]
         cmd  == Cmd(IF next = "PROPRIETARY" THEN next ELSE "SET_CONFIG")
     IN  \E x \in Transceive(chip, cmd) :
           /\ Exchanged(x)
           /\ IF Accepted(cmd, x.rx) \/ next = "RF"
              THEN sent' = sent + 1 /\ pc' = "fsm" /\ UNCHANGED host
              ELSE sent' = 0 /\ Fails
  /\ UNCHANGED <<listening_enabled, cfg>>

\* send_core_config_(): the record is made before the command is sent.
SendCoreConfig(x) ==
  /\ x \in Transceive(chip, CoreConfig(ShouldBeSolo))
  /\ Exchanged(x)
  /\ core_config_is_solo' = ShouldBeSolo
  /\ refused' = (x.chip.config # CoreConfig(ShouldBeSolo).config)

BadSendInitCoreConfig ==
  /\ Bring("NFCC_CONFIG")
  /\ sent = Len(InitConfig)
  /\ sent' = 0
  /\ \/ /\ core_config_is_solo = ShouldBeSolo
        /\ NoExchange
        /\ UNCHANGED <<core_config_is_solo, refused>>
     \/ /\ core_config_is_solo # ShouldBeSolo
        /\ \E x \in Transceive(chip, CoreConfig(ShouldBeSolo)) : SendCoreConfig(x)
  /\ config_refresh_pending' = FALSE
  /\ Succeeds("NFCC_SET_DISCOVER_MAP")
  /\ UNCHANGED listening_enabled

SendInitCoreConfig ==
  /\ Bring("NFCC_CONFIG")
  /\ sent = Len(InitConfig)
  /\ sent' = 0
  /\ \E x \in Transceive(chip, CoreConfig(ShouldBeSolo)) :
       /\ SendCoreConfig(x)
       /\ IF Accepted(CoreConfig(ShouldBeSolo), x.rx)
          THEN Succeeds("NFCC_SET_DISCOVER_MAP") /\ config_refresh_pending' = FALSE
          ELSE Fails /\ UNCHANGED config_refresh_pending
  /\ UNCHANGED listening_enabled

-----------------------------------------------------------------------------
(* nci_fsm_transition_(): RFST_IDLE *)

\* deactivate_() with the type idle
StopDiscovery(x) == x \in Transceive(chip, Cmd("DEACTIVATE")) /\ Exchanged(x)
Stopped(x) == Accepted(Cmd("DEACTIVATE"), x.rx)

\* Errors in this state are those of start_discovery_(): discovery is stopped
\* first, with whatever result.
Idle ==
  /\ Bring("RFST_IDLE")
  /\ pc' = IF config_refresh_pending THEN "refresh" ELSE "start"
  /\ IF error_count > 0
     THEN \E x \in Transceive(chip, Cmd("DEACTIVATE")) : StopDiscovery(x)
     ELSE NoExchange
  /\ UNCHANGED <<host, sent, listening_enabled, cfg>>

BadStartDiscovery ==
  /\ pc = "start"
  /\ pc' = "loop"
  /\ \E x \in Transceive(chip, Cmd("DISCOVER")) :
       /\ Exchanged(x)
       /\ IF Started(x) THEN SetState("RFST_DISCOVERY") ELSE UNCHANGED host
  /\ UNCHANGED <<sent, listening_enabled, cfg>>

StartDiscovery ==
  /\ pc = "start"
  /\ pc' = "loop"
  /\ \E x \in Transceive(chip, Cmd("DISCOVER")) :
       /\ Exchanged(x)
       /\ IF Started(x) THEN SetState("RFST_DISCOVERY") ELSE SetErrorState
  /\ UNCHANGED <<sent, listening_enabled, cfg>>

-----------------------------------------------------------------------------
(* refresh_core_config_(), from RFST_IDLE and from the states that wait *)

AfterRefresh == IF pc = "refresh" THEN "start" ELSE "await"

RefreshStop ==
  /\ pc = "refresh_wait"
  /\ nci_state = "RFST_DISCOVERY"
  /\ \E x \in Transceive(chip, Cmd("DEACTIVATE")) :
       /\ StopDiscovery(x)
       /\ IF Stopped(x) THEN SetState("RFST_IDLE") /\ UNCHANGED pc
                        ELSE SetState("NFCC_RESET") /\ pc' = AfterRefresh
  /\ UNCHANGED <<sent, listening_enabled, cfg>>

Refresh ==
  /\ pc \in {"refresh", "refresh_wait"}
  /\ nci_state # "RFST_DISCOVERY"
  /\ pc' = AfterRefresh
  /\ \/ /\ core_config_is_solo = ShouldBeSolo
        /\ config_refresh_pending' = FALSE
        /\ NoExchange
        /\ UNCHANGED <<core_config_is_solo, refused>>
     \/ /\ core_config_is_solo # ShouldBeSolo
        /\ \E x \in Transceive(chip, CoreConfig(ShouldBeSolo)) :
             /\ SendCoreConfig(x)
             /\ config_refresh_pending' = ~Accepted(CoreConfig(ShouldBeSolo), x.rx)
  /\ UNCHANGED <<host, sent, listening_enabled>>

-----------------------------------------------------------------------------
(* nci_fsm_transition_(): the states that wait *)

WaitOrRefresh == IF config_refresh_pending THEN "refresh_wait" ELSE "await"

SelectEndpoint ==
  /\ Bring("RFST_W4_HOST_SELECT")
  /\ pc' = WaitOrRefresh
  /\ \E x \in Transceive(chip, Cmd("SELECT")) :
       /\ Exchanged(x)
       /\ IF Accepted(Cmd("SELECT"), x.rx) THEN SetState("EP_SELECTING")
                                          ELSE UNCHANGED host
  /\ UNCHANGED <<sent, listening_enabled, cfg>>

\* select_endpoint_() with the cache emptied by the purge
NothingToSelect ==
  /\ Bring("RFST_W4_HOST_SELECT")
  /\ pc' = WaitOrRefresh
  /\ \E x \in Transceive(chip, Cmd("DEACTIVATE")) : StopDiscovery(x)
  /\ SetState("RFST_IDLE")
  /\ UNCHANGED <<sent, listening_enabled, cfg>>

Wait ==
  /\ pc = "loop"
  /\ nci_state \in EpStates \cup {"RFST_DISCOVERY", "RFST_LISTEN_ACTIVE", "RFST_LISTEN_SLEEP"}
  /\ pc' = IF nci_state = "RFST_DISCOVERY" THEN WaitOrRefresh ELSE "await"
  /\ NoExchange
  /\ UNCHANGED <<host, sent, listening_enabled, cfg>>

\* loop(): the fast recovery of the endpoint states
FastRecovery ==
  /\ pc = "loop"
  /\ nci_state \in EpStates
  /\ SetState("NFCC_RESET")
  /\ NoExchange
  /\ UNCHANGED <<pc, sent, listening_enabled, cfg>>

-----------------------------------------------------------------------------
(* process_message_() and the task on an activated tag *)

\* A reader put the emulated tag to sleep: the driver never asks for it.
AfterSleep ==
  CASE nci_state = "RFST_LISTEN_ACTIVE" -> {"RFST_LISTEN_SLEEP"}
    [] nci_state = "RFST_POLL_ACTIVE" -> {"RFST_W4_HOST_SELECT"}
    [] OTHER -> {"RFST_IDLE"}

BadNextState(rx) ==
  CASE rx.oid = "ACTIVATED" /\ rx.body = "listen" -> {"RFST_LISTEN_ACTIVE"}
    [] rx.oid = "ACTIVATED" /\ rx.body = "poll" -> {"RFST_POLL_ACTIVE"}
    [] rx = Discovered("last") -> {"RFST_W4_HOST_SELECT"}
    [] rx = Deactivated("sleep") -> AfterSleep
    [] rx.oid = "DEACTIVATE" -> {"RFST_DISCOVERY"}
    [] rx = ActivationFailed /\ nci_state = "EP_SELECTING" -> {"RFST_W4_HOST_SELECT"}
    [] OTHER -> {}

\* What a message means to the state machine: the state it sets, or none.
\* Responses, data and unexpected notifications are only logged.
NextState(rx) ==
  CASE rx.oid = "ACTIVATED" /\ rx.body = "listen" -> {"RFST_LISTEN_ACTIVE"}
    [] rx.oid = "ACTIVATED" /\ rx.body = "poll" -> {"RFST_POLL_ACTIVE"}
    [] rx = Discovered("last") -> {"RFST_W4_HOST_SELECT"}
    [] rx = Deactivated("discovery") -> {"RFST_DISCOVERY"}
    [] rx = Deactivated("idle") -> {"RFST_IDLE"}
    [] rx = Deactivated("sleep") -> AfterSleep
    [] rx = ActivationFailed /\ nci_state = "EP_SELECTING" -> {"RFST_W4_HOST_SELECT"}
    [] OTHER -> {}

ProcessMessage ==
  /\ pc = "await"
  /\ IF chip.out = <<>>
     THEN pc' = "loop" /\ NoExchange /\ UNCHANGED host
     ELSE \E x \in Reads(chip) :
            /\ Exchanged(x)
            /\ pc' = CASE NextState(x.rx) = {"RFST_POLL_ACTIVE"} -> "task"
                       [] x.rx = ActivationFailed /\ nci_state # "EP_SELECTING" -> "give_up"
                       [] OTHER -> "loop"
            /\ \/ \E s \in NextState(x.rx) : SetState(s)
               \/ NextState(x.rx) = {} /\ UNCHANGED host
  /\ UNCHANGED <<sent, listening_enabled, cfg>>

\* An activation that failed outside EP_SELECTING stops the discovery.
StopAfterFailedActivation ==
  /\ pc = "give_up"
  /\ pc' = "loop"
  /\ \E x \in Transceive(chip, Cmd("DEACTIVATE")) : StopDiscovery(x)
  /\ SetState("RFST_IDLE")
  /\ UNCHANGED <<sent, listening_enabled, cfg>>

\* The first exchange of a task with the tag; a task goes on or ends after it.
TagExchange ==
  /\ pc = "task"
  /\ \E x \in Transceive(chip, Cmd("DATA")) :
       Exchanged(x) /\ pc' = IF x.rx = Credits THEN "task_data" ELSE "deactivate"
  /\ UNCHANGED <<host, sent, listening_enabled, cfg>>

TagAnswer ==
  /\ pc = "task_data"
  /\ pc' = "deactivate"
  /\ \E x \in Reads(chip) : Exchanged(x)
  /\ UNCHANGED <<host, sent, listening_enabled, cfg>>

Deactivate ==
  /\ pc \in {"task", "deactivate"}
  /\ pc' = "loop"
  /\ \E x \in Transceive(chip, Cmd("DEACTIVATE")) :
       /\ StopDiscovery(x)
       /\ SetState(IF Stopped(x) THEN "EP_DEACTIVATING" ELSE "NFCC_RESET")
  /\ UNCHANGED <<sent, listening_enabled, cfg>>

-----------------------------------------------------------------------------
(* The user, and what the chip does by itself *)

SetTagEmulation ==
  /\ pc \in {"loop", "task"}
  /\ listening_enabled' = ~listening_enabled
  /\ config_refresh_pending' = TRUE
  /\ NoExchange
  /\ UNCHANGED <<pc, host, sent, core_config_is_solo, refused>>

Notify(from, to, message) ==
  /\ chip.rf = from
  /\ Len(chip.out) < MaxQueue
  /\ chip' = Says([chip EXCEPT !.rf = to], <<message>>)
  /\ UNCHANGED <<pc, host, sent, listening_enabled, cfg, faults, history>>

TagActivated == Notify("discovery", "active", Activated("poll"))
ActivationFails == Notify("discovery", "discovery", ActivationFailed)
FirstTag == Notify("discovery", "w4_all_discoveries", Discovered("more"))
LastTag == Notify("w4_all_discoveries", "w4_host_select", Discovered("last"))
Selected == \/ Notify("selecting", "active", Activated("poll"))
            \/ Notify("selecting", "w4_host_select", ActivationFailed)
ReaderActivates == listening_enabled /\ Notify("discovery", "listen", Activated("listen"))
ReaderSleeps == Notify("listen", "listen_sleep", Deactivated("sleep"))
ReaderWakes == Notify("listen_sleep", "listen", Activated("listen"))
ReaderLeaves == \/ Notify("listen", "discovery", Deactivated("discovery"))
                \/ Notify("listen_sleep", "discovery", Deactivated("discovery"))

Init ==
  /\ pc = "fsm"
  /\ nci_state = "NFCC_RESET"
  /\ error_count = 0
  /\ sent = 0
  /\ listening_enabled \in BOOLEAN
  /\ config_refresh_pending = listening_enabled
  /\ core_config_is_solo = TRUE
  /\ chip = [rf |-> "idle", config |-> "default", out |-> <<>>]
  /\ faults = MaxFaults
  /\ lost = FALSE
  /\ lateInBoot = FALSE
  /\ outOfStep = FALSE
  /\ refused = FALSE

BringUp == ResetCore \/ ResetNotification \/ InitCore \/ SendInitConfig
             \/ SendInitCoreConfig \/ SetDiscoverMap \/ SetListenModeRouting

Driver == \/ BringUp
          \/ Idle \/ RefreshStop \/ Refresh \/ StartDiscovery
          \/ SelectEndpoint \/ NothingToSelect \/ Wait
          \/ ProcessMessage \/ StopAfterFailedActivation
          \/ TagExchange \/ TagAnswer \/ Deactivate

\* What the chip begins by itself, because of tags and readers
Unasked == \/ TagActivated \/ ActivationFails \/ FirstTag \/ LastTag
           \/ ReaderActivates \/ ReaderSleeps \/ ReaderWakes \/ ReaderLeaves

Nfcc == Unasked \/ Selected

Next == Driver \/ FastRecovery \/ SetTagEmulation \/ Nfcc

\* From some time on nothing moves in front of the antenna.
AntennaQuiet == <>[][~Unasked]_vars

\* Nothing is on its way that could end an endpoint state.
NothingComes == chip.out = <<>> /\ chip.rf # "selecting"

\* The scheduler keeps calling loop(), and the chip answers a selection.  Once
\* the antenna is quiet, timeouts run out: that of an endpoint state in which
\* nothing comes, and tag_ttl_, which leaves select_endpoint_() an empty cache.
\* A tag that comes again and again may keep the cache filled for ever.
Fairness ==
  /\ WF_vars(Driver)
  /\ WF_vars(Selected)
  /\ AntennaQuiet => /\ SF_vars(FastRecovery /\ NothingComes)
                     /\ SF_vars(NothingToSelect)

Spec == Init /\ [][Next]_vars
FairSpec == Spec /\ Fairness

-----------------------------------------------------------------------------
(* Properties *)

Message == [mt : {"rsp", "ntf", "data"},
            oid : {"RESET", "INIT", "PROPRIETARY", "SET_CONFIG", "DISCOVER_MAP",
                   "ROUTING", "DISCOVER", "SELECT", "DEACTIVATE", "ACTIVATED",
                   "GENERIC_ERROR", "CREDITS", "none"},
            status : {"ok", "discovery", "other"},
            body : {"none", "poll", "listen", "more", "last", "idle", "sleep", "discovery"}]

Chip == [rf : {"idle", "discovery", "w4_all_discoveries", "w4_host_select",
               "selecting", "active", "listen", "listen_sleep"},
         config : {"default", "solo", "rw_ce"},
         out : Seq(Message)]

PC == {"loop", "fsm", "reset_ntf", "start", "refresh", "refresh_wait",
       "await", "task", "task_data", "deactivate", "give_up"}

NCIState == BootStates \cup EpStates \cup
  {"NFCC_SET_DISCOVER_MAP", "NFCC_SET_LISTEN_MODE_ROUTING", "RFST_IDLE",
   "RFST_DISCOVERY", "RFST_W4_HOST_SELECT", "RFST_POLL_ACTIVE",
   "RFST_LISTEN_ACTIVE", "RFST_LISTEN_SLEEP", "FAILED"}

\* Every variable has its type, and the chip queues only what it can say.
TypeOK ==
  /\ pc \in PC
  /\ nci_state \in NCIState
  /\ error_count \in 0..(NFCC_MAX_ERROR_COUNT + 1)
  /\ sent \in 0..Len(InitConfig)
  /\ listening_enabled \in BOOLEAN
  /\ config_refresh_pending \in BOOLEAN
  /\ core_config_is_solo \in BOOLEAN
  /\ chip \in Chip
  /\ faults \in 0..MaxFaults
  /\ lost \in BOOLEAN
  /\ lateInBoot \in BOOLEAN
  /\ outOfStep \in BOOLEAN
  /\ refused \in BOOLEAN

\* The driver waits between two passes for a message that only the chip can
\* start.
Waiting == pc = "loop" /\ chip.out = <<>>

\* The RF states in which a chip with nothing more to say is where a driver in
\* this state takes it to be
Counterparts(state) ==
  CASE state = "RFST_DISCOVERY" -> {"discovery", "w4_all_discoveries"}
    [] state = "RFST_W4_HOST_SELECT" -> {"w4_host_select"}
    [] state = "EP_SELECTING" -> {"selecting"}
    [] state = "RFST_LISTEN_ACTIVE" -> {"listen"}
    [] state = "RFST_LISTEN_SLEEP" -> {"listen_sleep"}
    [] OTHER -> {}

WaitingStates == EpStates \cup
  {"RFST_DISCOVERY", "RFST_W4_HOST_SELECT", "RFST_LISTEN_ACTIVE", "RFST_LISTEN_SLEEP"}

\* No mutual wait: while the driver waits, in RFST_DISCOVERY, RFST_LISTEN_ACTIVE
\* and RFST_LISTEN_SLEEP without a timeout, the chip is where it can bring the
\* next notification, whatever it did and said by itself before.  Only a fault,
\* or a command sent to a chip that had something to say, separates the two,
\* until VEN is pulled or a start of discovery finds the chip's queue empty.
NoMutualWait ==
  Waiting /\ ~outOfStep /\ nci_state \in WaitingStates => chip.rf \in Counterparts(nci_state)

\* Once the chip is configured, the core configuration in force is the one the
\* driver recorded, across resets by either side, unless the chip did not take
\* the last command that carried it: the driver records before it sends and
\* does not send again.
ConfigInForce ==
  /\ nci_state \notin BootStates \cup {"FAILED"}
  /\ ~refused
  => chip.config = CoreConfig(core_config_is_solo).config

\* With fewer faults than retries, the driver gives up only if an answer was
\* late in NFCC_INIT or NFCC_CONFIG: there the answers stay one behind, every
\* retry meets the answer of the command before it, and nothing empties the
\* chip's queue.
FatalOnlyInBoot == nci_state = "FAILED" => lateInBoot

\* The driver is at rest: it waits, without a timeout, with all read there was.
AtRest ==
  /\ nci_state \in {"RFST_DISCOVERY", "RFST_LISTEN_ACTIVE", "RFST_LISTEN_SLEEP"}
  /\ chip.out = <<>>

UserSettles == <>[]listening_enabled \/ <>[]~listening_enabled

\* However an answer was delayed, lost or refused, and however many messages
\* the driver was behind when the antenna fell quiet and the user settled, it
\* comes to rest: no shift of the answers keeps it restarting, selecting or
\* starting discovery for ever.  It need not rest where the chip does: see
\* NoMutualWait for when it does.
ComesToRest ==
  AntennaQuiet /\ UserSettles => <>[]AtRest \/ <>[](nci_state = "FAILED")

\* README: with the health check and the automatic reset, the component does
\* not mark itself failed permanently.
NeverFailsForGood == nci_state # "FAILED"
=============================================================================
