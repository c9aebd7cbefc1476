------------------------------- MODULE NciFsm -------------------------------
(***************************************************************************)
(* The host side of the PN7160 driver: PN7160::setup() and loop(), the     *)
(* state machine of nci_fsm_transition_(), its error counter, the health   *)
(* check, the fast recovery of the endpoint states, and the automation     *)
(* calls that switch polling, tag emulation and test mode.                 *)
(*                                                                         *)
(* The controller chip is seen through the outcome of each exchange: a     *)
(* command is answered OK or not, a notification is there or not.  What    *)
(* link allows: "up" (every command succeeds), "down" (every command fails *)
(* and nothing is received), "flaky" (anything).  Time is kept as ages:    *)
(* state_age is millis() - last_nci_state_change_, health_age is millis() -*)
(* last_health_check_, lag is the time since loop() was last entered.      *)
(*                                                                         *)
(* One step is what the code does between two points where something else  *)
(* may intervene: a clock reading, an exchange with the chip, a callback   *)
(* into the user's automation.                                             *)
(***************************************************************************)
EXTENDS Naturals

CONSTANTS
  NFCC_MAX_ERROR_COUNT, \* failures tolerated before the driver escalates
  EpTimeout,            \* 2000 ms: the longest an EP_ state may last
  HealthInterval,       \* health_check_interval_
  MaxFailedChecks,      \* max_failed_checks_
  HealthEnabled,        \* health_check_enabled_
  AutoReset,            \* auto_reset_on_failure_
  MaxLag,               \* bound: longest time between two entries of loop()
  AgeCap,               \* bound: state_age saturates here
  Api                   \* the kinds of calls the user's automations make

ASSUME ConstantsAssumption ==
  /\ NFCC_MAX_ERROR_COUNT \in Nat
  /\ EpTimeout \in Nat
  /\ HealthInterval \in Nat
  /\ MaxFailedChecks \in Nat \ {0}
  /\ HealthEnabled \in BOOLEAN
  /\ AutoReset \in BOOLEAN
  /\ MaxLag \in Nat
  /\ AgeCap \in Nat
  /\ Api \subseteq {"emulation", "polling", "test"}

\* The counter does not mask a timeout: every comparison the code makes is
\* decided below the cap.
ASSUME AgeCapAssumption ==
  /\ AgeCap > HealthInterval
  /\ AgeCap > EpTimeout + MaxLag + MaxLag

VARIABLES
  pc,                     \* where loop() is
  nci_state,
  nci_state_error,
  error_count,
  failed,                 \* Component::mark_failed() was called
  state_age,
  health_age,
  health_fail_count,
  polling_enabled,
  listening_enabled,
  config_refresh_pending,
  core_config_is_solo,
  lag,
  link

fsm   == <<nci_state, nci_state_error, error_count, state_age>>
check == <<health_age, health_fail_count>>
modes == <<polling_enabled, listening_enabled>>
cfg   == <<config_refresh_pending, core_config_is_solo>>
vars  == <<pc, fsm, failed, check, modes, cfg, lag, link>>

NCIState ==
  {"NFCC_RESET", "NFCC_INIT", "NFCC_CONFIG", "NFCC_SET_DISCOVER_MAP",
   "NFCC_SET_LISTEN_MODE_ROUTING", "RFST_IDLE", "RFST_DISCOVERY",
   "RFST_W4_HOST_SELECT", "RFST_POLL_ACTIVE", "RFST_LISTEN_ACTIVE",
   "RFST_LISTEN_SLEEP", "EP_SELECTING", "EP_DEACTIVATING", "TEST", "FAILED"}

\* The states whose failures make the driver give up
BootStates == {"NFCC_RESET", "NFCC_INIT", "NFCC_CONFIG"}

InitStates ==
  BootStates \cup {"NFCC_SET_DISCOVER_MAP", "NFCC_SET_LISTEN_MODE_ROUTING"}

EpStates == {"EP_SELECTING", "EP_DEACTIVATING"}

\* The cases of the switch that only wait for a notification
WaitStates ==
  EpStates \cup {"RFST_DISCOVERY", "RFST_POLL_ACTIVE", "RFST_LISTEN_ACTIVE",
                 "RFST_LISTEN_SLEEP"}

\* "loop": loop() is not running.  "health": past the fast recovery, before
\* the health check.  "fsm": at the switch.  "refresh", "refresh_wait":
\* refresh_core_config_() called from RFST_IDLE, from a waiting state.
\* "start": the rest of RFST_IDLE.  "await": the IRQ test and
\* process_message_().  "callback": an automation runs inside the
\* activation of a tag.
PC == {"loop", "health", "fsm", "refresh", "refresh_wait", "start",
       "await", "callback"}

ok   == link # "down"  \* the next exchange may succeed
fail == link # "up"    \* the next exchange may fail

-----------------------------------------------------------------------------
(* nci_fsm_set_state_() and nci_fsm_set_error_state_() *)

\* Definitions named Bad... are faulty variants of the one that follows: the
\* properties are tested by putting them in its place.
BadSetStateKeepsError(s) ==
  nci_state' = s /\ error_count' = 0 /\ state_age' = 0 /\ UNCHANGED nci_state_error

BadSetStateKeepsCount(s) ==
  nci_state' = s /\ nci_state_error' = "NONE" /\ state_age' = 0 /\ UNCHANGED error_count

SetState(s) ==
  /\ nci_state' = s
  /\ nci_state_error' = "NONE"
  /\ error_count' = 0
  /\ state_age' = 0

BadTooManyErrors == error_count > NFCC_MAX_ERROR_COUNT + 1

\* error_count_++ > NFCC_MAX_ERROR_COUNT: the old value is compared
TooManyErrors == error_count > NFCC_MAX_ERROR_COUNT

\* After too many errors the count starts again in the same state.
BadSetErrorState(s) ==
  /\ nci_state_error' = s
  /\ error_count' = IF TooManyErrors THEN 1 ELSE error_count + 1
  /\ UNCHANGED <<nci_state, state_age, failed>>

SetErrorState(s) ==
  IF TooManyErrors
  THEN /\ SetState(IF s \in BootStates THEN "FAILED" ELSE "NFCC_RESET")
       /\ failed' = IF s \in BootStates THEN TRUE ELSE failed
  ELSE /\ nci_state_error' = s
       /\ error_count' = error_count + 1
       /\ UNCHANGED <<nci_state, state_age, failed>>

-----------------------------------------------------------------------------
(* loop(): the fast recovery, and entering the pass *)

\* mark_failed() takes the component out of the scheduler's loop
LoopEntered == /\ pc = "loop"
               /\ ~failed
               /\ lag' = 0

BadEpTimedOut == nci_state = "EP_DEACTIVATING" /\ state_age > EpTimeout

EpTimedOut == nci_state \in EpStates /\ state_age > EpTimeout

FastRecovery ==
  /\ LoopEntered
  /\ EpTimedOut
  /\ SetState("NFCC_RESET")
  /\ UNCHANGED <<pc, failed, check, modes, cfg, link>>

LoopStart ==
  /\ LoopEntered
  /\ ~EpTimedOut
  /\ pc' = "health"
  /\ UNCHANGED <<fsm, failed, check, modes, cfg, link>>

-----------------------------------------------------------------------------
(* perform_health_check_() and reset_via_ven_() *)

HealthDue == HealthEnabled /\ health_age >= HealthInterval

StuckTooLong ==
  \/ EpTimedOut
  \/ nci_state \in InitStates /\ state_age > HealthInterval

HealthSkip ==
  /\ pc = "health"
  /\ ~HealthDue
  /\ pc' = "fsm"
  /\ UNCHANGED <<fsm, failed, check, modes, cfg, lag, link>>

HealthOk ==
  /\ pc = "health"
  /\ HealthDue
  /\ ~StuckTooLong
  /\ health_age' = 0
  /\ health_fail_count' = 0
  /\ pc' = "fsm"
  /\ UNCHANGED <<fsm, failed, modes, cfg, lag, link>>

HealthStuck ==
  /\ pc = "health"
  /\ HealthDue
  /\ StuckTooLong
  /\ health_age' = 0
  /\ pc' = "fsm"
  /\ IF health_fail_count + 1 >= MaxFailedChecks
     THEN /\ health_fail_count' = 0
          /\ IF AutoReset THEN SetState("NFCC_RESET") ELSE UNCHANGED fsm
     ELSE /\ health_fail_count' = health_fail_count + 1
          /\ UNCHANGED fsm
  /\ UNCHANGED <<failed, modes, cfg, lag, link>>

-----------------------------------------------------------------------------
(* nci_fsm_transition_(): bringing the chip up.  A step that succeeds falls *)
(* through to the next case, one that fails ends the pass.                  *)

Advance(from, to) ==
  /\ pc = "fsm"
  /\ nci_state = from
  /\ ok
  /\ SetState(to)
  /\ UNCHANGED <<pc, failed, check, modes, lag, link>>

Stumble(from, error) ==
  /\ pc = "fsm"
  /\ nci_state = from
  /\ fail
  /\ SetErrorState(error)
  /\ pc' = "loop"
  /\ UNCHANGED <<check, modes, lag, link>>

ResetCore ==
  /\ \/ Advance("NFCC_RESET", "NFCC_INIT")
     \/ Stumble("NFCC_RESET", "NFCC_RESET")
  /\ UNCHANGED cfg

InitCore ==
  /\ \/ Advance("NFCC_INIT", "NFCC_CONFIG")
     \/ Stumble("NFCC_INIT", "NFCC_INIT")
  /\ UNCHANGED cfg

ShouldBeSolo == ~(listening_enabled /\ polling_enabled)

\* send_init_config_(): send_core_config_(), the last of its commands,
\* records which configuration it sends before it sends it.
SendInitConfig ==
  \/ /\ Advance("NFCC_CONFIG", "NFCC_SET_DISCOVER_MAP")
     /\ core_config_is_solo' = ShouldBeSolo
     /\ config_refresh_pending' = FALSE
  \/ /\ Stumble("NFCC_CONFIG", "NFCC_CONFIG")
     /\ core_config_is_solo' \in {core_config_is_solo, ShouldBeSolo}
     /\ UNCHANGED config_refresh_pending

BadSetDiscoverMap ==
  /\ \/ Advance("NFCC_SET_DISCOVER_MAP", "NFCC_SET_DISCOVER_MAP")
     \/ Stumble("NFCC_SET_DISCOVER_MAP", "NFCC_SET_LISTEN_MODE_ROUTING")
  /\ UNCHANGED cfg

SetDiscoverMap ==
  /\ \/ Advance("NFCC_SET_DISCOVER_MAP", "NFCC_SET_LISTEN_MODE_ROUTING")
     \/ Stumble("NFCC_SET_DISCOVER_MAP", "NFCC_SET_LISTEN_MODE_ROUTING")
  /\ UNCHANGED cfg

SetListenModeRouting ==
  /\ \/ Advance("NFCC_SET_LISTEN_MODE_ROUTING", "RFST_IDLE")
     \/ Stumble("NFCC_SET_LISTEN_MODE_ROUTING", "RFST_IDLE")
  /\ UNCHANGED cfg

-----------------------------------------------------------------------------
(* nci_fsm_transition_(): RFST_IDLE *)

\* The stop_discovery_() after a failed start changes nothing on the host.
Idle ==
  /\ pc = "fsm"
  /\ nci_state = "RFST_IDLE"
  /\ pc' = IF config_refresh_pending THEN "refresh" ELSE "start"
  /\ UNCHANGED <<fsm, failed, check, modes, cfg, lag, link>>

\* refresh_core_config_(): discovery is stopped first; the core
\* configuration is sent only if the recorded one is not the wanted one.
BadRefreshStopFails ==
  /\ nci_state = "RFST_DISCOVERY"
  /\ fail
  /\ SetState("NFCC_RESET")
  /\ config_refresh_pending' = FALSE
  /\ UNCHANGED core_config_is_solo

RefreshStopFails ==
  /\ nci_state = "RFST_DISCOVERY"
  /\ fail
  /\ SetState("NFCC_RESET")
  /\ UNCHANGED cfg

RefreshStopped ==
  IF nci_state = "RFST_DISCOVERY"
  THEN ok /\ SetState("RFST_IDLE")
  ELSE UNCHANGED fsm

SendCoreConfig ==
  /\ core_config_is_solo' = ShouldBeSolo
  /\ IF core_config_is_solo = ShouldBeSolo
     THEN config_refresh_pending' = FALSE
     ELSE \/ ok /\ config_refresh_pending' = FALSE
          \/ fail /\ UNCHANGED config_refresh_pending

RefreshCoreConfig ==
  /\ pc \in {"refresh", "refresh_wait"}
  /\ pc' = IF pc = "refresh" THEN "start" ELSE "await"
  /\ \/ RefreshStopFails
     \/ RefreshStopped /\ SendCoreConfig
  /\ UNCHANGED <<failed, check, modes, lag, link>>

StartDiscovery ==
  /\ pc = "start"
  /\ pc' = "loop"
  /\ \/ /\ ~listening_enabled /\ ~polling_enabled
        /\ UNCHANGED <<fsm, failed>>
     \/ /\ listening_enabled \/ polling_enabled
        /\ ok
        /\ SetState("RFST_DISCOVERY")
        /\ UNCHANGED failed
     \/ /\ listening_enabled \/ polling_enabled
        /\ fail
        /\ SetErrorState("RFST_DISCOVERY")
  /\ UNCHANGED <<check, modes, cfg, lag, link>>

-----------------------------------------------------------------------------
(* nci_fsm_transition_(): the states that wait *)

BadWaitOrRefresh == "await"

WaitOrRefresh == IF config_refresh_pending THEN "refresh_wait" ELSE "await"

\* select_endpoint_(): with no cached tag the result of stop_discovery_()
\* is not looked at; a refused select leaves the state as it is.  The case
\* falls through to RFST_DISCOVERY's.
SelectEndpoint ==
  /\ pc = "fsm"
  /\ nci_state = "RFST_W4_HOST_SELECT"
  /\ \/ SetState("RFST_IDLE")
     \/ ok /\ SetState("EP_SELECTING")
     \/ fail /\ UNCHANGED fsm
  /\ pc' = WaitOrRefresh
  /\ UNCHANGED <<failed, check, modes, cfg, lag, link>>

Wait ==
  /\ pc = "fsm"
  /\ nci_state \in WaitStates
  /\ pc' = IF nci_state = "RFST_DISCOVERY" THEN WaitOrRefresh ELSE "await"
  /\ UNCHANGED <<fsm, failed, check, modes, cfg, lag, link>>

\* FAILED and TEST: the switch's default
NothingToDo ==
  /\ pc = "fsm"
  /\ nci_state \in {"FAILED", "TEST"}
  /\ pc' = "loop"
  /\ UNCHANGED <<fsm, failed, check, modes, cfg, lag, link>>

-----------------------------------------------------------------------------
(* process_message_(), after the IRQ line was found high *)

EndOfPass == /\ pc = "await"
             /\ pc' = "loop"
             /\ UNCHANGED <<failed, check, modes, cfg, lag, link>>

\* Nothing to read, a failed read, or a message that is only logged or
\* answered: none of them moves the state machine.
NoTransition == EndOfPass /\ UNCHANGED fsm

ListenActivated == EndOfPass /\ ok /\ SetState("RFST_LISTEN_ACTIVE")

\* The task on the tag runs here, and with it the user's automations.
PollActivated ==
  /\ pc = "await"
  /\ ok
  /\ SetState("RFST_POLL_ACTIVE")
  /\ pc' = "callback"
  /\ UNCHANGED <<failed, check, modes, cfg, lag, link>>

BadPollDeactivate ==
  /\ pc = "callback"
  /\ \/ ok /\ SetState("EP_DEACTIVATING")
     \/ fail /\ UNCHANGED fsm
  /\ pc' = "loop"
  /\ UNCHANGED <<failed, check, modes, cfg, lag, link>>

PollDeactivate ==
  /\ pc = "callback"
  /\ \/ ok /\ SetState("EP_DEACTIVATING")
     \/ fail /\ SetState("NFCC_RESET")
  /\ pc' = "loop"
  /\ UNCHANGED <<failed, check, modes, cfg, lag, link>>

\* The last of a series of RF_DISCOVER notifications
LastDiscovered == EndOfPass /\ ok /\ SetState("RFST_W4_HOST_SELECT")

SleepState ==
  CASE nci_state = "RFST_LISTEN_ACTIVE" -> "RFST_LISTEN_SLEEP"
    [] nci_state = "RFST_POLL_ACTIVE" -> "RFST_W4_HOST_SELECT"
    [] OTHER -> "RFST_IDLE"

RfDeactivated ==
  /\ EndOfPass
  /\ ok
  /\ \E s \in {"RFST_DISCOVERY", "RFST_IDLE", SleepState} : SetState(s)

\* CORE_GENERIC_ERROR with DISCOVERY_TARGET_ACTIVATION_FAILED
ActivationFailed ==
  /\ EndOfPass
  /\ ok
  /\ SetState(IF nci_state = "EP_SELECTING" THEN "RFST_W4_HOST_SELECT"
                                            ELSE "RFST_IDLE")

-----------------------------------------------------------------------------
(* The calls of the user's automations: between two passes, or from a       *)
(* trigger inside the activation of a tag                                   *)

ApiCall(kind) == kind \in Api /\ pc \in {"loop", "callback"}

SetTagEmulation ==
  /\ ApiCall("emulation")
  /\ listening_enabled' = ~listening_enabled
  /\ config_refresh_pending' = TRUE
  /\ UNCHANGED <<pc, fsm, failed, check, polling_enabled, core_config_is_solo,
                 lag, link>>

SetPolling ==
  /\ ApiCall("polling")
  /\ polling_enabled' = ~polling_enabled
  /\ config_refresh_pending' = TRUE
  /\ UNCHANGED <<pc, fsm, failed, check, listening_enabled,
                 core_config_is_solo, lag, link>>

\* set_test_mode() runs to its end inside the call.  A failing init_core_()
\* follows a reset that cleared the counter, so it never escalates.
SetTestMode ==
  /\ ApiCall("test")
  /\ \/ SetState("NFCC_RESET") /\ UNCHANGED failed
     \/ fail /\ SetErrorState("NFCC_RESET")
     \/ /\ link = "flaky"
        /\ nci_state' = "NFCC_INIT"
        /\ nci_state_error' = "NFCC_INIT"
        /\ error_count' = 1
        /\ state_age' = 0
        /\ UNCHANGED failed
     \/ ok /\ SetState("TEST") /\ UNCHANGED failed
  /\ UNCHANGED <<pc, check, modes, cfg, lag, link>>

-----------------------------------------------------------------------------
(* The environment: time, and the quality of the link *)

Older(age, cap) == IF age < cap THEN age + 1 ELSE age

\* A failed component is not scheduled, so nothing bounds its lag.
Tick ==
  /\ failed \/ lag < MaxLag
  /\ lag' = IF failed THEN 0 ELSE lag + 1
  /\ state_age' = Older(state_age, AgeCap)
  /\ health_age' = Older(health_age, HealthInterval)
  /\ UNCHANGED <<pc, nci_state, nci_state_error, error_count, failed,
                 health_fail_count, modes, cfg, link>>

LinkChange ==
  /\ link' \in {"up", "flaky", "down"} \ {link}
  /\ UNCHANGED <<pc, fsm, failed, check, modes, cfg, lag>>

-----------------------------------------------------------------------------
\* setup() enters the state machine without the checks of loop().  An
\* emulation message in the configuration switches emulation on beforehand.
Init ==
  /\ pc = "fsm"
  /\ nci_state = "NFCC_RESET"
  /\ nci_state_error = "NONE"
  /\ error_count = 0
  /\ failed = FALSE
  /\ state_age = 0
  /\ health_age = 0
  /\ health_fail_count = 0
  /\ polling_enabled = TRUE
  /\ listening_enabled \in BOOLEAN
  /\ config_refresh_pending = listening_enabled
  /\ core_config_is_solo = TRUE
  /\ lag = 0
  /\ link \in {"up", "flaky", "down"}

HealthCheck == HealthSkip \/ HealthOk \/ HealthStuck

BringUp == ResetCore \/ InitCore \/ SendInitConfig \/ SetDiscoverMap
             \/ SetListenModeRouting

ProcessMessage == NoTransition \/ ListenActivated \/ PollActivated
                    \/ LastDiscovered \/ RfDeactivated \/ ActivationFailed

Driver == \/ FastRecovery \/ LoopStart
          \/ HealthCheck
          \/ BringUp
          \/ Idle \/ RefreshCoreConfig \/ StartDiscovery
          \/ SelectEndpoint \/ Wait \/ NothingToDo
          \/ ProcessMessage
          \/ PollDeactivate

User == SetTagEmulation \/ SetPolling \/ SetTestMode

Next == Driver \/ User \/ Tick \/ LinkChange

\* The scheduler keeps calling loop(), and time passes.  Nothing is assumed
\* of the user, the link or the notifications.
Fairness == WF_vars(Driver) /\ WF_vars(Tick)

Spec == Init /\ [][Next]_vars
FairSpec == Spec /\ Fairness

-----------------------------------------------------------------------------
(* Properties *)

\* Every variable has its type; error_count stays within the uint8_t it is.
FsmTypeOK ==
  /\ nci_state \in NCIState
  /\ nci_state_error \in NCIState \cup {"NONE"}
  /\ error_count \in 0..(NFCC_MAX_ERROR_COUNT + 1)
  /\ state_age \in 0..AgeCap

LoopTypeOK ==
  /\ pc \in PC
  /\ health_age \in 0..HealthInterval
  /\ health_fail_count \in 0..(MaxFailedChecks - 1)
  /\ lag \in 0..MaxLag
  /\ link \in {"up", "flaky", "down"}

FlagTypeOK ==
  /\ failed \in BOOLEAN
  /\ polling_enabled \in BOOLEAN
  /\ listening_enabled \in BOOLEAN
  /\ config_refresh_pending \in BOOLEAN
  /\ core_config_is_solo \in BOOLEAN

TypeOK == FsmTypeOK /\ LoopTypeOK /\ FlagTypeOK

\* The error a state may carry: RESET, INIT and CONFIG name themselves, the
\* later ones name the state that could not be entered.
ErrorOf ==
  {<<"NFCC_RESET", "NFCC_RESET">>, <<"NFCC_INIT", "NFCC_INIT">>,
   <<"NFCC_CONFIG", "NFCC_CONFIG">>,
   <<"NFCC_SET_DISCOVER_MAP", "NFCC_SET_LISTEN_MODE_ROUTING">>,
   <<"NFCC_SET_LISTEN_MODE_ROUTING", "RFST_IDLE">>,
   <<"RFST_IDLE", "RFST_DISCOVERY">>}

\* The error bookkeeping belongs to the state the driver is in: the counter
\* and the error state are set and cleared together, no error outlives the
\* state it arose in, and the states that wait for the chip carry none, so
\* the counter that decides between retrying, resetting and giving up never
\* starts from another state's failures.  A failed set_test_mode() is the
\* one exception: it files NFCC_RESET under whatever the state is.
ErrorBelongsToState ==
  /\ (error_count = 0) <=> (nci_state_error = "NONE")
  /\ \/ nci_state_error = "NONE"
     \/ <<nci_state, nci_state_error>> \in ErrorOf
     \/ "test" \in Api /\ nci_state_error = "NFCC_RESET"

\* The driver never sits in an endpoint state longer than the fast recovery
\* allows, counted from the clock reading at the top of loop(): whatever
\* notification is lost, 2000 ms and one scheduling gap later it resets.
EpStateBounded ==
  ~failed /\ nci_state \in EpStates => state_age <= EpTimeout + lag

\* While no refresh is pending, what the driver recorded as the chip's core
\* configuration is the one that the enabled modes ask for, however the
\* automations switch them while a refresh or an initialisation is under way.
ConfigCoherent == ~config_refresh_pending => core_config_is_solo = ShouldBeSolo

\* RFST_POLL_ACTIVE, which no timeout, error count or health check looks at,
\* never outlives the pass that entered it, whether or not the tag could be
\* deactivated at the end of its task.
PollActiveTransient == nci_state = "RFST_POLL_ACTIVE" => pc = "callback"

\* A scheduler that enters loop() often enough for the error counter to run
\* out within one health check interval
PromptScheduling == (NFCC_MAX_ERROR_COUNT + 3) * MaxLag <= HealthInterval

\* With PromptScheduling no health check ever finds an initialisation state
\* older than its interval: the error counter gives up, or restarts the
\* initialisation, first.
InitNeverStuck ==
  pc = "health" /\ nci_state \in InitStates => state_age <= HealthInterval

\* The driver gives up only while it brings the chip up, and only when
\* NFCC_MAX_ERROR_COUNT + 1 failures in that very state came before.
GivesUpOnlyInBoot ==
  [][failed' # failed => /\ nci_state \in BootStates
                         /\ nci_state_error = nci_state
                         /\ error_count = NFCC_MAX_ERROR_COUNT + 1]_vars

\* How far the bring-up has come, as Supervisor counts it.  A reset that the
\* refresh decided on counts from the end of the pass: until then a message
\* may overrule it.
Stage ==
  IF pc = "await" THEN 5
  ELSE CASE nci_state \in {"NFCC_RESET", "FAILED"} -> 0
         [] nci_state = "NFCC_INIT" -> 1
         [] nci_state = "NFCC_CONFIG" -> 2
         [] nci_state = "NFCC_SET_DISCOVER_MAP" -> 3
         [] nci_state = "NFCC_SET_LISTEN_MODE_ROUTING" -> 4
         [] OTHER -> 5

SV == INSTANCE Supervisor
        WITH Up <- 5, Boot <- 0..2, Limit <- NFCC_MAX_ERROR_COUNT,
             stage <- Stage, failures <- error_count, givenUp <- failed

\* With PromptScheduling and without test mode, the state machine with its
\* error counter, fast recovery and health check implements Supervisor: no
\* stage of the bring-up is skipped, each gets its full budget of retries
\* and not one more, and a chip that is up is never given up.
Supervised == SV!Spec

\* Once the link stays good, the driver does not remain in initialisation:
\* it comes out of it again and again, unless it had given up before.
RecoversWhenLinkUp ==
  <>[](link = "up") => []<>(nci_state \notin InitStates) \/ <>[]failed

\* Once the link stays good, a switch of the modes is taken up: as long as
\* the driver keeps coming to a state that serves the refresh, none stays
\* pending for ever, whatever the automations and notifications do meanwhile.
SwitchTakesEffect ==
  /\ <>[](link = "up")
  /\ []<>(nci_state \in {"RFST_IDLE", "RFST_DISCOVERY", "RFST_W4_HOST_SELECT"})
  => []<>~config_refresh_pending \/ <>[]failed

\* README: the health check validates the communication with the chip, so a
\* chip that has stopped answering is noticed.
ChipLossNoticed ==
  link = "down" ~> link # "down" \/ nci_state \in InitStates \/ failed
=============================================================================
