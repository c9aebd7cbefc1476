--------------------------- MODULE NciFsmRefinement ---------------------------
(***************************************************************************)
(* NciFsm implements Supervisor: every step of the driver completes a      *)
(* stage of the bring-up, retries it, starts over, gives up, or changes    *)
(* nothing that Supervisor can see.                                        *)
(***************************************************************************)
EXTENDS NciFsmProofs

\* Where in a pass the state machine can be: the states of the bring-up end
\* their pass or fall through to the next, and never wait for a message.
PassMatchesStage ==
  /\ failed <=> nci_state = "FAILED"
  /\ failed => pc = "loop"
  /\ pc \in {"refresh_wait", "await"} => error_count = 0
  /\ pc = "await" => nci_state \notin InitStates \ {"NFCC_RESET"}
  /\ pc = "refresh_wait" => nci_state \notin InitStates
  /\ pc = "callback" => nci_state = "RFST_POLL_ACTIVE"

\* SetErrorState() moves the state machine only when there were too many.
LEMMA SetErrorStateMoves ==
  ASSUME NEW s \in NCIState \ {"FAILED"}, SetErrorState(s)
  PROVE  \/ /\ ~TooManyErrors
            /\ UNCHANGED <<nci_state, failed>>
            /\ error_count' = error_count + 1
         \/ /\ TooManyErrors /\ s \in BootStates
            /\ nci_state' = "FAILED" /\ failed' = TRUE /\ error_count' = 0
         \/ /\ TooManyErrors /\ s \notin BootStates
            /\ nci_state' = "NFCC_RESET" /\ UNCHANGED failed /\ error_count' = 0
<1>1. CASE TooManyErrors
  BY <1>1 DEF SetErrorState, SetState
<1>2. CASE ~TooManyErrors
  BY <1>2 DEF SetErrorState
<1> QED
  BY <1>1, <1>2

LEMMA PassMatchesStageStep ==
  ASSUME "test" \notin Api, TypeOK, PcMatchesState, ErrorBelongsToState,
         PassMatchesStage, [Next]_vars
  PROVE  PassMatchesStage'
<1> USE DEF PassMatchesStage, InitStates, BootStates
<1>1. CASE FastRecovery \/ LoopStart
  BY <1>1 DEF FastRecovery, LoopStart, LoopEntered, SetState, fsm
<1>2. CASE HealthCheck
  BY <1>2 DEF HealthCheck, HealthSkip, HealthOk, HealthStuck, SetState, fsm,
              PcMatchesState
<1>3. ASSUME NEW from, NEW to \in NCIState \ {"FAILED"}, Advance(from, to)
      PROVE  PassMatchesStage'
  BY <1>3 DEF Advance, SetState, PcMatchesState
<1>4. ASSUME NEW from \in NCIState \ {"FAILED"}, NEW error \in NCIState \ {"FAILED"},
             Stumble(from, error)
      PROVE  PassMatchesStage'
  BY <1>4, SetErrorStateMoves DEF Stumble, PcMatchesState
<1>5. CASE BringUp
  BY <1>3, <1>4, <1>5
  DEF BringUp, ResetCore, InitCore, SendInitConfig, SetDiscoverMap,
      SetListenModeRouting, NCIState
<1>6. CASE Idle \/ NothingToDo
  BY <1>6 DEF Idle, NothingToDo, fsm, PcMatchesState
<1>7. CASE Wait
  <2>1. error_count = 0
    BY <1>7 DEF Wait, ErrorBelongsToState, ErrorOf, WaitStates, EpStates
  <2> QED
    BY <1>7, <2>1 DEF Wait, fsm, WaitStates, EpStates, WaitOrRefresh, PcMatchesState
<1>8. CASE SelectEndpoint
  <2>1. error_count = 0
    BY <1>8 DEF SelectEndpoint, ErrorBelongsToState, ErrorOf
  <2> QED
    BY <1>8, <2>1 DEF SelectEndpoint, SetState, fsm, WaitOrRefresh, PcMatchesState
<1>9. CASE RefreshCoreConfig
  BY <1>9 DEF RefreshCoreConfig, RefreshStopFails, RefreshStopped, SetState, fsm,
              PcMatchesState
<1>10. CASE StartDiscovery
  BY <1>10, SetErrorStateMoves DEF StartDiscovery, SetState, fsm, PcMatchesState, NCIState
<1>11. CASE PollDeactivate
  BY <1>11 DEF PollDeactivate, SetState, PcMatchesState
<1>12. CASE ProcessMessage
  <2>1. SleepState # "FAILED"
    BY DEF SleepState
  <2> QED
    BY <1>12, <2>1
    DEF ProcessMessage, EndOfPass, NoTransition, ListenActivated, PollActivated,
        LastDiscovered, RfDeactivated, ActivationFailed, SetState, fsm, PcMatchesState
<1>13. CASE User \/ Tick \/ LinkChange \/ UNCHANGED vars
  BY <1>13 DEF User, SetTagEmulation, SetPolling, SetTestMode, ApiCall, Tick,
               LinkChange, vars, fsm
<1> QED
  BY <1>1, <1>2, <1>5, <1>6, <1>7, <1>8, <1>9, <1>10, <1>11, <1>12, <1>13
  DEF Next, Driver

\* The bring-up never waits for a message, and giving up ends every pass.
THEOREM PassMatchesStageCorrect ==
  ASSUME "test" \notin Api
  PROVE  Spec => []PassMatchesStage
<1>1. Init => PassMatchesStage
  BY DEF Init, PassMatchesStage
<1>2. QED
  BY <1>1, PassMatchesStageStep, TypeCorrect, PcCorrect,
     ErrorBelongsToStateCorrect, PTL DEF Spec

-----------------------------------------------------------------------------
(* Each action maps to a step of Supervisor or to a stutter *)

SVStep == [SV!Next]_(SV!vars)

\* The ways in which a step of the driver shows to Supervisor
LEMMA Unseen ==
  ASSUME Stage' = Stage, UNCHANGED <<error_count, failed>>
  PROVE  SVStep
BY DEF SVStep, SV!vars

LEMMA Completes ==
  ASSUME ~failed, UNCHANGED failed, Stage \in 0..4, Stage' = Stage + 1,
         error_count' = 0
  PROVE  SVStep
BY DEF SVStep, SV!Next, SV!Complete

LEMMA Loses ==
  ASSUME ~failed, UNCHANGED failed, Stage = 5, Stage' \in {0, 5}, error_count' = 0
  PROVE  SVStep
BY DEF SVStep, SV!Next, SV!StartOver, SV!Settle

\* A failure filed under the state it arose in is retried, given up or
\* started over from, as the error counter and the stage decide.
LEMMA Fails ==
  ASSUME TypeOK, ~failed, pc \in {"fsm", "start"}, pc' = "loop",
         NEW s \in NCIState, <<nci_state, s>> \in ErrorOf, SetErrorState(s)
  PROVE  SVStep
<1>n. s # "FAILED" /\ nci_state # "FAILED"
  BY DEF ErrorOf
<1>e. error_count \in 0..(NFCC_MAX_ERROR_COUNT + 1) /\ NFCC_MAX_ERROR_COUNT \in Nat
  BY ConstantsAssumption DEF TypeOK, FsmTypeOK
<1>1. CASE ~TooManyErrors
  <2>1. UNCHANGED <<nci_state, failed>> /\ error_count' = error_count + 1
    BY <1>1 DEF SetErrorState
  <2>2. Stage' = Stage
    BY <2>1 DEF Stage
  <2>3. error_count <= NFCC_MAX_ERROR_COUNT
    BY <1>1, <1>e DEF TooManyErrors
  <2> QED
    BY <2>1, <2>2, <2>3 DEF SVStep, SV!Next, SV!Retry
<1>2. CASE TooManyErrors /\ s \in BootStates
  <2>1. nci_state' = "FAILED" /\ failed' = TRUE /\ error_count' = 0
    BY <1>2 DEF SetErrorState, SetState
  <2>2. Stage' = 0
    BY <2>1 DEF Stage
  <2>3. Stage \in 0..2
    BY <1>2 DEF Stage, ErrorOf, BootStates
  <2>4. error_count = NFCC_MAX_ERROR_COUNT + 1
    BY <1>2, <1>e DEF TooManyErrors
  <2> QED
    BY <2>1, <2>2, <2>3, <2>4 DEF SVStep, SV!Next, SV!GiveUp
<1>3. CASE TooManyErrors /\ s \notin BootStates
  <2>1. nci_state' = "NFCC_RESET" /\ UNCHANGED failed /\ error_count' = 0
    BY <1>3 DEF SetErrorState, SetState
  <2>2. Stage' = 0
    BY <2>1 DEF Stage
  <2>3. Stage \in 3..5
    BY <1>3 DEF Stage, ErrorOf, BootStates
  <2>4. error_count = NFCC_MAX_ERROR_COUNT + 1
    BY <1>3, <1>e DEF TooManyErrors
  <2> QED
    BY <2>1, <2>2, <2>3, <2>4 DEF SVStep, SV!Next, SV!StartOver
<1> QED
  BY <1>1, <1>2, <1>3

LEMMA StepRefines ==
  ASSUME "test" \notin Api, TypeOK, PcMatchesState, ErrorBelongsToState,
         PassMatchesStage, InitNeverStuck, [Next]_vars
  PROVE  SVStep
<1>1. CASE FastRecovery
  <2>1. Stage = 5 /\ Stage' = 0
    BY <1>1 DEF FastRecovery, LoopEntered, EpTimedOut, EpStates, SetState, Stage
  <2> QED
    BY <1>1, <2>1, Loses DEF FastRecovery, LoopEntered, SetState
<1>2. CASE LoopStart
  BY <1>2, Unseen DEF LoopStart, LoopEntered, fsm, Stage
<1>3. CASE HealthSkip \/ HealthOk
  BY <1>3, Unseen DEF HealthSkip, HealthOk, fsm, Stage
<1>4. CASE HealthStuck
  <2>n. HealthInterval \in Nat /\ state_age \in Nat
    BY ConstantsAssumption, AgeCapAssumption DEF TypeOK, FsmTypeOK
  <2>1. nci_state \in EpStates
    BY <1>4, <2>n DEF HealthStuck, StuckTooLong, EpTimedOut, InitNeverStuck
  <2>2. CASE UNCHANGED fsm
    BY <1>4, <2>2, Unseen DEF HealthStuck, fsm, Stage
  <2>3. CASE SetState("NFCC_RESET")
    <3>1. Stage = 5 /\ Stage' = 0
      BY <1>4, <2>1, <2>3 DEF HealthStuck, EpStates, SetState, Stage
    <3> QED
      BY <1>4, <2>3, <3>1, Loses DEF HealthStuck, SetState, PcMatchesState
  <2> QED
    BY <1>4, <2>2, <2>3 DEF HealthStuck
<1>5. ASSUME NEW from, NEW to, Advance(from, to),
             <<from, to>> \in {<<"NFCC_RESET", "NFCC_INIT">>,
               <<"NFCC_INIT", "NFCC_CONFIG">>,
               <<"NFCC_CONFIG", "NFCC_SET_DISCOVER_MAP">>,
               <<"NFCC_SET_DISCOVER_MAP", "NFCC_SET_LISTEN_MODE_ROUTING">>,
               <<"NFCC_SET_LISTEN_MODE_ROUTING", "RFST_IDLE">>}
      PROVE  SVStep
  <2>1. Stage \in 0..4 /\ Stage' = Stage + 1
    BY <1>5 DEF Advance, SetState, Stage
  <2> QED
    BY <1>5, <2>1, Completes DEF Advance, SetState, PcMatchesState
<1>6. ASSUME NEW from, NEW error \in NCIState, <<from, error>> \in ErrorOf,
             Stumble(from, error)
      PROVE  SVStep
  BY <1>6, Fails DEF Stumble, PcMatchesState
<1>7. CASE BringUp
  BY <1>5, <1>6, <1>7
  DEF BringUp, ResetCore, InitCore, SendInitConfig, SetDiscoverMap,
      SetListenModeRouting, ErrorOf, NCIState
<1>8. CASE Idle \/ NothingToDo
  BY <1>8, Unseen DEF Idle, NothingToDo, fsm, Stage
<1>9. CASE Wait
  <2>1. Stage = 5 /\ Stage' = 5
    BY <1>9 DEF Wait, WaitStates, EpStates, fsm, Stage
  <2> QED
    BY <1>9, <2>1, Unseen DEF Wait, fsm
<1>10. CASE RefreshCoreConfig
  <2>1. Stage = 5
    BY <1>10 DEF RefreshCoreConfig, PcMatchesState, PassMatchesStage, InitStates,
                 BootStates, Stage
  <2>2. CASE UNCHANGED fsm
    BY <1>10, <2>1, <2>2, Unseen
    DEF RefreshCoreConfig, PcMatchesState, fsm, Stage
  <2>3. ASSUME nci_state = "RFST_DISCOVERY",
               SetState("NFCC_RESET") \/ SetState("RFST_IDLE")
        PROVE  SVStep
    <3>1. pc' = "await"
      BY <1>10, <2>3 DEF RefreshCoreConfig, PcMatchesState
    <3>2. Stage' = 5
      BY <3>1 DEF Stage
    <3> QED
      BY <1>10, <2>1, <2>3, <3>2, Loses
      DEF RefreshCoreConfig, SetState, PcMatchesState
  <2> QED
    BY <1>10, <2>2, <2>3 DEF RefreshCoreConfig, RefreshStopFails, RefreshStopped
<1>11. CASE StartDiscovery
  <2>1. nci_state = "RFST_IDLE" /\ Stage = 5 /\ ~failed
    BY <1>11 DEF StartDiscovery, PcMatchesState, Stage
  <2>2. CASE UNCHANGED <<fsm, failed>>
    BY <1>11, <2>1, <2>2, Unseen DEF StartDiscovery, fsm, Stage
  <2>3. CASE SetState("RFST_DISCOVERY") /\ UNCHANGED failed
    <3>1. Stage' = 5
      BY <1>11, <2>3 DEF StartDiscovery, SetState, Stage
    <3> QED
      BY <2>1, <2>3, <3>1, Loses DEF SetState
  <2>4. CASE SetErrorState("RFST_DISCOVERY")
    BY <1>11, <2>1, <2>4, Fails DEF StartDiscovery, ErrorOf, NCIState
  <2> QED
    BY <1>11, <2>2, <2>3, <2>4 DEF StartDiscovery
<1>12. CASE SelectEndpoint
  <2>1. Stage = 5 /\ Stage' = 5 /\ ~failed
    BY <1>12
    DEF SelectEndpoint, SetState, fsm, Stage, PcMatchesState, WaitOrRefresh
  <2> QED
    BY <1>12, <2>1, Loses, Unseen DEF SelectEndpoint, SetState, fsm
<1>13. CASE PollDeactivate
  <2>1. Stage = 5 /\ Stage' \in {0, 5} /\ ~failed
    BY <1>13 DEF PollDeactivate, SetState, Stage, PassMatchesStage
  <2> QED
    BY <1>13, <2>1, Loses DEF PollDeactivate, SetState
<1>14. CASE ProcessMessage
  <2>1. pc = "await" /\ ~failed /\ UNCHANGED failed /\ Stage = 5 /\ error_count = 0
    BY <1>14
    DEF ProcessMessage, EndOfPass, NoTransition, ListenActivated, PollActivated,
        LastDiscovered, RfDeactivated, ActivationFailed, PcMatchesState,
        PassMatchesStage, Stage
  <2>2. CASE NoTransition
    <3>1. Stage' \in {0, 5} /\ error_count' = 0
      BY <2>1, <2>2
      DEF NoTransition, EndOfPass, fsm, PassMatchesStage, InitStates, BootStates,
          Stage
    <3> QED
      BY <2>1, <3>1, Loses
  <2>3. ASSUME NEW s \in {"RFST_LISTEN_ACTIVE", "RFST_POLL_ACTIVE",
                          "RFST_W4_HOST_SELECT", "RFST_DISCOVERY", "RFST_IDLE",
                          "RFST_LISTEN_SLEEP"},
               SetState(s)
        PROVE  SVStep
    <3>1. Stage' = 5 /\ error_count' = 0
      BY <2>3 DEF SetState, Stage
    <3> QED
      BY <2>1, <3>1, Loses
  <2>4. SleepState \in {"RFST_LISTEN_SLEEP", "RFST_W4_HOST_SELECT", "RFST_IDLE"}
    BY DEF SleepState
  <2> QED
    BY <1>14, <2>2, <2>3, <2>4
    DEF ProcessMessage, ListenActivated, PollActivated, LastDiscovered,
        RfDeactivated, ActivationFailed
<1>15. CASE SetTagEmulation \/ SetPolling \/ Tick \/ LinkChange \/ UNCHANGED vars
  BY <1>15, Unseen DEF SetTagEmulation, SetPolling, Tick, LinkChange, vars, fsm, Stage
<1>16. ~SetTestMode
  BY DEF SetTestMode, ApiCall
<1> QED
  BY <1>1, <1>2, <1>3, <1>4, <1>7, <1>8, <1>9, <1>10, <1>11, <1>12, <1>13, <1>14,
     <1>15, <1>16
  DEF Next, Driver, HealthCheck, User

\* For every limit, every length of the timeouts and every schedule that meets
\* PromptScheduling, the driver brings the chip up stage by stage, retries a
\* stage as often as NFCC_MAX_ERROR_COUNT allows and not once more, and gives
\* up only in the stages that Supervisor names.
THEOREM SupervisedCorrect ==
  ASSUME "test" \notin Api, PromptScheduling
  PROVE  Spec => Supervised
<1>1. Init => SV!Init
  BY DEF Init, SV!Init, Stage
<1>2. Spec => []InitNeverStuck
  BY InitNeverStuckCorrect
<1>3. QED
  BY <1>1, <1>2, StepRefines, TypeCorrect, PcCorrect,
     ErrorBelongsToStateCorrect, PassMatchesStageCorrect, PTL
  DEF Spec, Supervised, SV!Spec, SVStep
=============================================================================
