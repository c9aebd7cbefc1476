---------------------------- MODULE NciFsmProofs ----------------------------
(***************************************************************************)
(* Proofs of the safety properties of NciFsm, for every value of its       *)
(* constants.  Each theorem has the same shape: an initial step, a step    *)
(* for the actions of Next one by one, and a temporal step.                *)
(***************************************************************************)
EXTENDS NciFsm, TLAPS

\* The groups of variables that UNCHANGED names
USE DEF fsm, check, modes, cfg

-----------------------------------------------------------------------------
(* What the two state-changing helpers do to the types *)

LEMMA SetStateType ==
  ASSUME NEW s \in NCIState, SetState(s)
  PROVE  FsmTypeOK'
BY ConstantsAssumption DEF FsmTypeOK, SetState

LEMMA SetErrorStateType ==
  ASSUME NEW s \in NCIState, FsmTypeOK, failed \in BOOLEAN, SetErrorState(s)
  PROVE  FsmTypeOK' /\ failed' \in BOOLEAN
<1>1. CASE TooManyErrors
  <2>1. SetState(IF s \in BootStates THEN "FAILED" ELSE "NFCC_RESET")
    BY <1>1 DEF SetErrorState
  <2>2. (IF s \in BootStates THEN "FAILED" ELSE "NFCC_RESET") \in NCIState
    BY DEF NCIState
  <2>3. FsmTypeOK'
    BY <2>1, <2>2, SetStateType
  <2>4. failed' \in BOOLEAN
    BY <1>1, Zenon DEF SetErrorState
  <2> QED
    BY <2>3, <2>4
<1>2. CASE ~TooManyErrors
  BY <1>2, ConstantsAssumption DEF SetErrorState, FsmTypeOK, TooManyErrors
<1> QED
  BY <1>1, <1>2

LEMMA ShouldBeSoloType == ShouldBeSolo \in BOOLEAN
BY Zenon DEF ShouldBeSolo

-----------------------------------------------------------------------------
\* No step breaks the types.
LEMMA TypeStep ==
  ASSUME TypeOK, [Next]_vars
  PROVE  TypeOK'
<1> SUFFICES ASSUME FsmTypeOK, LoopTypeOK, FlagTypeOK, [Next]_vars
             PROVE  FsmTypeOK' /\ LoopTypeOK' /\ FlagTypeOK'
  BY DEF TypeOK
<1>u. ASSUME UNCHANGED fsm PROVE FsmTypeOK'
  BY <1>u DEF FsmTypeOK
<1>1. CASE FastRecovery
  <2>1. FsmTypeOK'
    BY <1>1, SetStateType DEF FastRecovery, NCIState
  <2>2. LoopTypeOK'
    BY <1>1, ConstantsAssumption DEF FastRecovery, LoopEntered, LoopTypeOK
  <2> QED
    BY <1>1, <2>1, <2>2 DEF FastRecovery, FlagTypeOK
<1>2. CASE LoopStart \/ HealthSkip \/ HealthOk
  <2>1. LoopTypeOK'
    BY <1>2, ConstantsAssumption
    DEF LoopStart, LoopEntered, HealthSkip, HealthOk, LoopTypeOK, PC
  <2> QED
    BY <1>2, <1>u, <2>1 DEF LoopStart, HealthSkip, HealthOk, FlagTypeOK
<1>3. CASE HealthStuck
  <2>1. FsmTypeOK'
    BY <1>3, <1>u, SetStateType DEF HealthStuck, NCIState
  <2>2. LoopTypeOK'
    BY <1>3, ConstantsAssumption DEF HealthStuck, LoopTypeOK, PC
  <2> QED
    BY <1>3, <2>1, <2>2 DEF HealthStuck, FlagTypeOK
<1>4. ASSUME NEW from \in NCIState, NEW to \in NCIState, Advance(from, to)
      PROVE  FsmTypeOK' /\ LoopTypeOK' /\ UNCHANGED <<failed, modes>>
  BY <1>4, SetStateType DEF Advance, LoopTypeOK
<1>5. ASSUME NEW from \in NCIState, NEW error \in NCIState, Stumble(from, error)
      PROVE  /\ FsmTypeOK' /\ LoopTypeOK'
             /\ failed' \in BOOLEAN /\ UNCHANGED modes
  BY <1>5, SetErrorStateType DEF Stumble, FlagTypeOK, LoopTypeOK, PC
<1>6. CASE ResetCore \/ InitCore \/ SetDiscoverMap \/ SetListenModeRouting
  BY <1>4, <1>5, <1>6
  DEF ResetCore, InitCore, SetDiscoverMap, SetListenModeRouting, FlagTypeOK, NCIState
<1>7. CASE SendInitConfig
  <2>1. /\ FsmTypeOK' /\ LoopTypeOK'
        /\ failed' \in BOOLEAN /\ UNCHANGED modes
    BY <1>4, <1>5, <1>7 DEF SendInitConfig, FlagTypeOK, NCIState
  <2>2. config_refresh_pending' \in BOOLEAN /\ core_config_is_solo' \in BOOLEAN
    BY <1>7, ShouldBeSoloType, Zenon DEF SendInitConfig, FlagTypeOK
  <2> QED
    BY <2>1, <2>2 DEF FlagTypeOK
<1>8. CASE Idle \/ Wait \/ NothingToDo
  <2>1. LoopTypeOK'
    BY <1>8 DEF Idle, Wait, NothingToDo, WaitOrRefresh, LoopTypeOK, PC
  <2> QED
    BY <1>8, <1>u, <2>1 DEF Idle, Wait, NothingToDo, FlagTypeOK
<1>9. CASE RefreshCoreConfig
  <2>1. FsmTypeOK'
    BY <1>9, <1>u, SetStateType
    DEF RefreshCoreConfig, RefreshStopFails, RefreshStopped, NCIState
  <2>2. LoopTypeOK'
    BY <1>9 DEF RefreshCoreConfig, LoopTypeOK, PC
  <2>3. config_refresh_pending' \in BOOLEAN /\ core_config_is_solo' \in BOOLEAN
    BY <1>9, ShouldBeSoloType, Zenon
    DEF RefreshCoreConfig, RefreshStopFails, SendCoreConfig, FlagTypeOK
  <2> QED
    BY <1>9, <2>1, <2>2, <2>3 DEF RefreshCoreConfig, FlagTypeOK
<1>10. CASE StartDiscovery
  <2>1. FsmTypeOK' /\ failed' \in BOOLEAN
    BY <1>10, <1>u, SetStateType, SetErrorStateType
    DEF StartDiscovery, FlagTypeOK, NCIState
  <2>2. LoopTypeOK'
    BY <1>10 DEF StartDiscovery, LoopTypeOK, PC
  <2> QED
    BY <1>10, <2>1, <2>2 DEF StartDiscovery, FlagTypeOK
<1>11. CASE SelectEndpoint \/ PollDeactivate
  <2>1. FsmTypeOK'
    BY <1>11, <1>u, SetStateType DEF SelectEndpoint, PollDeactivate, NCIState
  <2>2. LoopTypeOK'
    BY <1>11 DEF SelectEndpoint, PollDeactivate, WaitOrRefresh, LoopTypeOK, PC
  <2> QED
    BY <1>11, <2>1, <2>2 DEF SelectEndpoint, PollDeactivate, FlagTypeOK
<1>12. CASE ProcessMessage
  <2>1. FsmTypeOK'
    <3>1. SleepState \in NCIState
      BY DEF SleepState, NCIState
    <3> QED
      BY <1>12, <1>u, <3>1, SetStateType
      DEF ProcessMessage, NoTransition, ListenActivated, PollActivated,
          LastDiscovered, RfDeactivated, ActivationFailed, NCIState
  <2>2. LoopTypeOK' /\ UNCHANGED <<failed, modes, cfg>>
    BY <1>12
    DEF ProcessMessage, EndOfPass, NoTransition, ListenActivated, PollActivated,
        LastDiscovered, RfDeactivated, ActivationFailed, LoopTypeOK, PC
  <2> QED
    BY <2>1, <2>2 DEF FlagTypeOK
<1>13. CASE SetTagEmulation \/ SetPolling
  <2>1. FsmTypeOK' /\ LoopTypeOK'
    BY <1>13, <1>u DEF SetTagEmulation, SetPolling, LoopTypeOK
  <2>2. FlagTypeOK'
    BY <1>13, Zenon DEF SetTagEmulation, SetPolling, FlagTypeOK
  <2> QED
    BY <2>1, <2>2
<1>14. CASE SetTestMode
  <2>1. FsmTypeOK' /\ failed' \in BOOLEAN
    <3>1. ASSUME nci_state' = "NFCC_INIT", nci_state_error' = "NFCC_INIT",
                 error_count' = 1, state_age' = 0
          PROVE  FsmTypeOK'
      BY <3>1, ConstantsAssumption DEF FsmTypeOK, NCIState
    <3> QED
      BY <1>14, <3>1, SetStateType, SetErrorStateType
      DEF SetTestMode, FlagTypeOK, NCIState
  <2>2. LoopTypeOK'
    BY <1>14 DEF SetTestMode, LoopTypeOK
  <2> QED
    BY <1>14, <2>1, <2>2 DEF SetTestMode, FlagTypeOK
<1>15. CASE Tick
  <2>1. FsmTypeOK'
    BY <1>15, ConstantsAssumption DEF Tick, Older, FsmTypeOK
  <2>2. LoopTypeOK'
    BY <1>15, ConstantsAssumption DEF Tick, Older, LoopTypeOK
  <2> QED
    BY <1>15, <2>1, <2>2 DEF Tick, FlagTypeOK
<1>16. CASE LinkChange \/ UNCHANGED vars
  BY <1>16, <1>u DEF LinkChange, vars, LoopTypeOK, FlagTypeOK
<1> QED
  BY <1>1, <1>2, <1>3, <1>6, <1>7, <1>8, <1>9, <1>10, <1>11, <1>12, <1>13,
     <1>14, <1>15, <1>16 DEF Next, Driver, HealthCheck, BringUp, User

\* Every variable keeps its type; in particular the error counter never
\* passes NFCC_MAX_ERROR_COUNT + 1 and the failed checks never reach
\* max_failed_checks_.
THEOREM TypeCorrect == Spec => []TypeOK
<1>1. Init => TypeOK
  <2> SUFFICES ASSUME Init PROVE TypeOK
    OBVIOUS
  <2>1. FsmTypeOK
    BY ConstantsAssumption DEF Init, FsmTypeOK, NCIState
  <2>2. LoopTypeOK
    BY ConstantsAssumption DEF Init, LoopTypeOK, PC
  <2>3. FlagTypeOK
    BY Zenon DEF Init, FlagTypeOK
  <2> QED
    BY <2>1, <2>2, <2>3 DEF TypeOK
<1>2. TypeOK /\ [Next]_vars => TypeOK'
  BY TypeStep
<1>3. QED
  BY <1>1, <1>2, PTL DEF Spec

-----------------------------------------------------------------------------
(* Where the driver can be in each state *)

\* A pass is only under way in a component that has not failed; the second
\* half of the RFST_IDLE case is only reached in RFST_IDLE.
PcMatchesState ==
  /\ pc \notin {"loop", "callback"} => ~failed
  /\ pc \in {"refresh", "start"} => nci_state = "RFST_IDLE"
  /\ PollActiveTransient

\* The pass and the state agree: RFST_POLL_ACTIVE only lasts as long as the
\* handler of the activation, and a failed component runs no pass.
THEOREM PcCorrect == Spec => []PcMatchesState
<1> USE DEF PcMatchesState, PollActiveTransient
<1>1. Init => PcMatchesState
  BY DEF Init
<1>2. PcMatchesState /\ [Next]_vars => PcMatchesState'
  <2> SUFFICES ASSUME PcMatchesState, [Next]_vars
               PROVE  PcMatchesState'
    OBVIOUS
  <2>1. CASE FastRecovery \/ LoopStart
    BY <2>1 DEF FastRecovery, LoopStart, LoopEntered, SetState
  <2>2. CASE HealthCheck
    BY <2>2 DEF HealthCheck, HealthSkip, HealthOk, HealthStuck, SetState
  <2>3. ASSUME NEW from \in InitStates, NEW to \in NCIState,
               to # "RFST_POLL_ACTIVE", Advance(from, to)
        PROVE  PcMatchesState'
    BY <2>3 DEF Advance, SetState
  <2>4. ASSUME NEW from \in InitStates, NEW error, Stumble(from, error)
        PROVE  PcMatchesState'
    BY <2>4 DEF Stumble, SetState, SetErrorState, InitStates, BootStates
  <2>5. CASE BringUp
    BY <2>3, <2>4, <2>5
    DEF BringUp, ResetCore, InitCore, SendInitConfig, SetDiscoverMap,
        SetListenModeRouting, InitStates, BootStates, NCIState
  <2>6. CASE Idle \/ Wait \/ NothingToDo
    BY <2>6 DEF Idle, Wait, NothingToDo, WaitOrRefresh
  <2>7. CASE RefreshCoreConfig
    BY <2>7 DEF RefreshCoreConfig, RefreshStopFails, RefreshStopped, SetState
  <2>8. CASE StartDiscovery
    BY <2>8 DEF StartDiscovery, SetState, SetErrorState
  <2>9. CASE SelectEndpoint
    BY <2>9 DEF SelectEndpoint, WaitOrRefresh, SetState
  <2>10. CASE ProcessMessage
    BY <2>10
    DEF ProcessMessage, EndOfPass, NoTransition, ListenActivated, PollActivated,
        LastDiscovered, RfDeactivated, SleepState, ActivationFailed, SetState
  <2>11. CASE PollDeactivate
    BY <2>11 DEF PollDeactivate, SetState
  <2>12. CASE User
    BY <2>12 DEF User, SetTagEmulation, SetPolling, SetTestMode, ApiCall,
                 SetState, SetErrorState
  <2>13. CASE Tick \/ LinkChange \/ UNCHANGED vars
    BY <2>13 DEF Tick, LinkChange, vars
  <2> QED
    BY <2>1, <2>2, <2>5, <2>6, <2>7, <2>8, <2>9, <2>10, <2>11, <2>12, <2>13
    DEF Next, Driver
<1>3. QED
  BY <1>1, <1>2, PTL DEF Spec

THEOREM PollActiveTransientCorrect == Spec => []PollActiveTransient
BY PcCorrect, PTL DEF PcMatchesState

-----------------------------------------------------------------------------
(* What a step can do to the state machine *)

\* The errors that may be filed in a state
FiledHere(s) == \/ <<nci_state, s>> \in ErrorOf
                \/ "test" \in Api /\ s = "NFCC_RESET"

\* set_test_mode() whose reset succeeds and whose init_core_() fails
TestInitFails ==
  /\ nci_state' = "NFCC_INIT"
  /\ nci_state_error' = "NFCC_INIT"
  /\ error_count' = 1
  /\ state_age' = 0
  /\ UNCHANGED <<pc, failed, lag>>

\* Within one reading of the clock, a step leaves the state machine alone,
\* sets a state, or files an error that belongs to the state.
FsmMoves ==
  \/ UNCHANGED <<fsm, failed>>
  \/ \E s \in NCIState : SetState(s) /\ UNCHANGED failed
  \/ \E s \in NCIState : FiledHere(s) /\ SetErrorState(s)
  \/ TestInitFails

LEMMA StepMoves ==
  ASSUME PcMatchesState, Next
  PROVE  Tick \/ FsmMoves
<1>1. CASE FastRecovery \/ LoopStart
  BY <1>1 DEF FastRecovery, LoopStart, FsmMoves, NCIState
<1>2. CASE HealthCheck
  BY <1>2 DEF HealthCheck, HealthSkip, HealthOk, HealthStuck, FsmMoves, NCIState
<1>3. ASSUME NEW from, NEW to \in NCIState, Advance(from, to)
      PROVE  FsmMoves
  BY <1>3 DEF Advance, FsmMoves
<1>4. ASSUME NEW from, NEW error \in NCIState, <<from, error>> \in ErrorOf,
             Stumble(from, error)
      PROVE  FsmMoves
  BY <1>4 DEF Stumble, FsmMoves, FiledHere
<1>5. CASE BringUp
  BY <1>3, <1>4, <1>5
  DEF BringUp, ResetCore, InitCore, SendInitConfig, SetDiscoverMap,
      SetListenModeRouting, ErrorOf, NCIState
<1>6. CASE Idle \/ Wait \/ NothingToDo
  BY <1>6 DEF Idle, Wait, NothingToDo, FsmMoves
<1>7. CASE RefreshCoreConfig
  BY <1>7 DEF RefreshCoreConfig, RefreshStopFails, RefreshStopped, FsmMoves, NCIState
<1>8. CASE StartDiscovery
  <2>1. <<nci_state, "RFST_DISCOVERY">> \in ErrorOf
    BY <1>8 DEF StartDiscovery, PcMatchesState, ErrorOf
  <2> QED
    BY <1>8, <2>1 DEF StartDiscovery, FsmMoves, FiledHere, NCIState
<1>9. CASE SelectEndpoint \/ PollDeactivate
  BY <1>9 DEF SelectEndpoint, PollDeactivate, FsmMoves, NCIState
<1>10. CASE ProcessMessage
  <2>1. SleepState \in NCIState
    BY DEF SleepState, NCIState
  <2> QED
    BY <1>10, <2>1
    DEF ProcessMessage, EndOfPass, NoTransition, ListenActivated, PollActivated,
        LastDiscovered, RfDeactivated, ActivationFailed, FsmMoves, NCIState
<1>11. CASE User
  BY <1>11 DEF User, SetTagEmulation, SetPolling, SetTestMode, ApiCall,
               FsmMoves, FiledHere, TestInitFails, NCIState
<1>12. CASE LinkChange
  BY <1>12 DEF LinkChange, FsmMoves
<1> QED
  BY <1>1, <1>2, <1>5, <1>6, <1>7, <1>8, <1>9, <1>10, <1>11, <1>12
  DEF Next, Driver

-----------------------------------------------------------------------------
\* The error counter and the error state are those of the state the driver
\* is in, after every sequence of retries, resets and mode switches.
THEOREM ErrorBelongsToStateCorrect == Spec => []ErrorBelongsToState
<1> USE DEF ErrorBelongsToState
<1>1. Init => ErrorBelongsToState
  BY DEF Init
<1>2. TypeOK /\ PcMatchesState /\ ErrorBelongsToState /\ [Next]_vars
        => ErrorBelongsToState'
  <2> SUFFICES ASSUME TypeOK, PcMatchesState, ErrorBelongsToState, [Next]_vars
               PROVE  ErrorBelongsToState'
    OBVIOUS
  <2>1. CASE Tick \/ UNCHANGED <<fsm, failed>>
    BY <2>1 DEF Tick
  <2>2. CASE TestInitFails
    BY <2>2 DEF TestInitFails, ErrorOf
  <2>3. ASSUME NEW s, SetState(s) PROVE ErrorBelongsToState'
    BY <2>3 DEF SetState
  <2>4. ASSUME NEW s \in NCIState, FiledHere(s), SetErrorState(s)
        PROVE  ErrorBelongsToState'
    <3>1. CASE TooManyErrors
      BY <2>3, <2>4, <3>1 DEF SetErrorState
    <3>2. CASE ~TooManyErrors
      <4>1. s # "NONE" /\ error_count + 1 # 0
        BY <2>4 DEF NCIState, TypeOK, FsmTypeOK
      <4> QED
        BY <2>4, <3>2, <4>1 DEF SetErrorState, FiledHere
    <3> QED
      BY <3>1, <3>2
  <2> QED
    BY <2>1, <2>2, <2>3, <2>4, StepMoves DEF FsmMoves, vars
<1>3. QED
  BY <1>1, <1>2, TypeCorrect, PcCorrect, PTL DEF Spec

-----------------------------------------------------------------------------
\* Unless set_test_mode() is used, the driver gives up only in the state
\* that kept failing, after NFCC_MAX_ERROR_COUNT + 1 earlier failures in it.
THEOREM GivesUpOnlyInBootCorrect ==
  ASSUME "test" \notin Api
  PROVE  Spec => GivesUpOnlyInBoot
<1>1. TypeOK /\ PcMatchesState /\ ErrorBelongsToState /\ [Next]_vars
        => [failed' # failed => /\ nci_state \in BootStates
                                /\ nci_state_error = nci_state
                                /\ error_count = NFCC_MAX_ERROR_COUNT + 1]_vars
  <2> SUFFICES ASSUME TypeOK, PcMatchesState, ErrorBelongsToState, Next,
                      failed' # failed
               PROVE  /\ nci_state \in BootStates
                      /\ nci_state_error = nci_state
                      /\ error_count = NFCC_MAX_ERROR_COUNT + 1
    OBVIOUS
  <2>1. PICK s \in NCIState : FiledHere(s) /\ SetErrorState(s)
    BY StepMoves DEF FsmMoves, Tick, TestInitFails
  <2>2. TooManyErrors /\ s \in BootStates
    BY <2>1 DEF SetErrorState, SetState
  <2>3. error_count = NFCC_MAX_ERROR_COUNT + 1
    BY <2>2, ConstantsAssumption DEF TooManyErrors, TypeOK, FsmTypeOK
  <2>4. <<nci_state, s>> \in ErrorOf
    BY <2>1 DEF FiledHere
  <2>5. nci_state = s
    BY <2>2, <2>4 DEF ErrorOf, BootStates
  <2>6. <<nci_state, nci_state_error>> \in ErrorOf
    BY <2>3, ConstantsAssumption DEF ErrorBelongsToState
  <2> QED
    BY <2>2, <2>3, <2>5, <2>6 DEF ErrorOf, BootStates
<1>2. QED
  BY <1>1, TypeCorrect, PcCorrect, ErrorBelongsToStateCorrect, PTL
  DEF Spec, GivesUpOnlyInBoot

-----------------------------------------------------------------------------
\* An endpoint state is left by the fast recovery once it is EpTimeout old:
\* at any moment its age exceeds that by no more than the time since loop()
\* was last entered.
THEOREM EpStateBoundedCorrect == Spec => []EpStateBounded
<1> USE DEF EpStateBounded
<1>1. Init => EpStateBounded
  BY DEF Init, EpStates
<1>2. TypeOK /\ PcMatchesState /\ EpStateBounded /\ [Next]_vars => EpStateBounded'
  <2> SUFFICES ASSUME TypeOK, PcMatchesState, EpStateBounded, [Next]_vars
               PROVE  EpStateBounded'
    OBVIOUS
  <2>n. /\ EpTimeout \in Nat /\ MaxLag \in Nat /\ AgeCap \in Nat
        /\ lag \in 0..MaxLag /\ state_age \in 0..AgeCap
    BY ConstantsAssumption DEF TypeOK, FsmTypeOK, LoopTypeOK
  <2>1. ASSUME NEW s, SetState(s), lag' \in Nat
        PROVE  EpStateBounded'
    <3>1. state_age' = 0
      BY <2>1 DEF SetState
    <3>2. EpTimeout \in Nat /\ lag' \in Nat
      BY <2>n, <2>1
    <3>3. \A a, b \in Nat : 0 <= a + b
      OBVIOUS
    <3>4. state_age' <= EpTimeout + lag'
      BY <3>1, <3>2, <3>3
    <3> QED
      BY <3>4
  <2>2. CASE FastRecovery
    BY <2>n, <2>1, <2>2 DEF FastRecovery, LoopEntered
  <2>3. CASE LoopStart
    BY <2>n, <2>3 DEF LoopStart, LoopEntered, EpTimedOut
  <2>4. CASE Tick
    BY <2>n, <2>4 DEF Tick, Older
  <2>5. CASE ~FastRecovery /\ ~LoopStart /\ ~Tick
    <3>1. UNCHANGED lag
      BY <2>5
      DEF Next, Driver, HealthCheck, HealthSkip, HealthOk, HealthStuck, BringUp,
          ResetCore, InitCore, SendInitConfig, SetDiscoverMap,
          SetListenModeRouting, Advance, Stumble, Idle, RefreshCoreConfig,
          StartDiscovery, SelectEndpoint, Wait, NothingToDo, ProcessMessage,
          EndOfPass, NoTransition, ListenActivated, PollActivated,
          LastDiscovered, RfDeactivated, ActivationFailed, PollDeactivate,
          User, SetTagEmulation, SetPolling, SetTestMode, LinkChange, vars
    <3>2. CASE UNCHANGED <<fsm, failed>>
      BY <3>1, <3>2
    <3>3. CASE TestInitFails
      BY <3>3 DEF TestInitFails, EpStates
    <3>4. ASSUME NEW s, SetErrorState(s) PROVE EpStateBounded'
      <4>1. CASE TooManyErrors
        BY <2>n, <2>1, <3>1, <3>4, <4>1 DEF SetErrorState
      <4>2. CASE ~TooManyErrors
        BY <3>1, <3>4, <4>2 DEF SetErrorState
      <4> QED
        BY <4>1, <4>2
    <3> QED
      BY <2>n, <2>1, <2>5, <3>1, <3>2, <3>3, <3>4, StepMoves DEF FsmMoves, vars
  <2> QED
    BY <2>2, <2>3, <2>4, <2>5
<1>3. QED
  BY <1>1, <1>2, TypeCorrect, PcCorrect, PTL DEF Spec

-----------------------------------------------------------------------------
\* No interleaving of mode switches, refreshes, failed commands and resets
\* leaves the driver content with a configuration the modes do not ask for.
THEOREM ConfigCoherentCorrect == Spec => []ConfigCoherent
<1> USE DEF ConfigCoherent
<1>1. Init => ConfigCoherent
  <2> SUFFICES ASSUME Init, ~config_refresh_pending
               PROVE  core_config_is_solo = ShouldBeSolo
    OBVIOUS
  <2>1. ~listening_enabled /\ core_config_is_solo = TRUE
    BY DEF Init
  <2>2. ShouldBeSolo = TRUE
    BY <2>1 DEF ShouldBeSolo
  <2> QED
    BY <2>1, <2>2
<1>2. ConfigCoherent /\ [Next]_vars => ConfigCoherent'
  <2> SUFFICES ASSUME ConfigCoherent, [Next]_vars
               PROVE  ConfigCoherent'
    OBVIOUS
  <2>1. ASSUME UNCHANGED modes PROVE ShouldBeSolo' = ShouldBeSolo
    BY <2>1 DEF ShouldBeSolo
  <2>2. CASE SetTagEmulation \/ SetPolling
    BY <2>2 DEF SetTagEmulation, SetPolling
  <2>3. CASE SendInitConfig
    BY <2>1, <2>3 DEF SendInitConfig, Advance, Stumble
  <2>4. CASE RefreshCoreConfig
    BY <2>1, <2>4 DEF RefreshCoreConfig, RefreshStopFails, SendCoreConfig
  <2>5. CASE ~SetTagEmulation /\ ~SetPolling /\ ~SendInitConfig /\ ~RefreshCoreConfig
    <3>1. UNCHANGED <<modes, cfg>>
      BY <2>5
      DEF Next, Driver, FastRecovery, LoopStart, HealthCheck, HealthSkip,
          HealthOk, HealthStuck, BringUp, ResetCore, InitCore, SetDiscoverMap,
          SetListenModeRouting, Advance, Stumble, Idle, StartDiscovery,
          SelectEndpoint, Wait, NothingToDo, ProcessMessage, EndOfPass,
          NoTransition, ListenActivated, PollActivated, LastDiscovered,
          RfDeactivated, ActivationFailed, PollDeactivate, User, SetTestMode,
          Tick, LinkChange, vars
    <3> QED
      BY <2>1, <3>1
  <2> QED
    BY <2>2, <2>3, <2>4, <2>5
<1>3. QED
  BY <1>1, <1>2, PTL DEF Spec

-----------------------------------------------------------------------------
(* How old an initialisation state can get *)

\* Every scheduling gap spent in an initialisation state is paid for by one
\* error, the pass under way counting as one that may still fail.
Passes == IF pc \in {"health", "fsm"} THEN error_count + 1 ELSE error_count

InitAge == ~failed /\ nci_state \in InitStates => state_age <= MaxLag * Passes + lag

LEMMA OneMorePass ==
  ASSUME NEW m \in Nat, NEW e \in Nat
  PROVE  /\ m * e \in Nat
         /\ m * (e + 1) = m * e + m
BY SMT

LEMMA MorePasses ==
  ASSUME NEW m \in Nat, NEW e \in Nat, NEW k \in Nat, e <= k
  PROVE  m * e <= m * k
BY SMT

THEOREM InitAgeCorrect == Spec => []InitAge
<1> USE DEF InitAge
<1>1. Init => InitAge
  <2> SUFFICES ASSUME Init PROVE InitAge
    OBVIOUS
  <2>1. MaxLag * 1 \in Nat
    BY ConstantsAssumption
  <2> QED
    BY <2>1 DEF Init, Passes
<1>2. TypeOK /\ PcMatchesState /\ InitAge /\ [Next]_vars => InitAge'
  <2> SUFFICES ASSUME TypeOK, PcMatchesState, InitAge, [Next]_vars,
                      ~failed', nci_state' \in InitStates
               PROVE  state_age' <= MaxLag * Passes' + lag'
    BY DEF InitAge
  <2>n. /\ MaxLag \in Nat /\ error_count \in Nat /\ lag \in 0..MaxLag
        /\ state_age \in Nat
    BY ConstantsAssumption DEF TypeOK, FsmTypeOK, LoopTypeOK
  <2>m. /\ MaxLag * error_count \in Nat
        /\ MaxLag * (error_count + 1) = MaxLag * error_count + MaxLag
    BY <2>n, OneMorePass
  <2>t. TypeOK'
    BY TypeStep
  <2>1. ASSUME NEW s, SetState(s)
        PROVE  state_age' <= MaxLag * Passes' + lag'
    <3>1. state_age' = 0 /\ Passes' \in Nat
      BY <2>1 DEF SetState, Passes
    <3>2. MaxLag * Passes' \in Nat
      BY <2>n, <3>1, OneMorePass
    <3>3. lag' \in Nat
      BY <2>n, <2>t DEF TypeOK, LoopTypeOK
    <3> QED
      BY <3>1, <3>2, <3>3
  \* A pass ends in the state it began in, with one more error
  <2>2. ASSUME NEW s, SetErrorState(s), ~TooManyErrors, UNCHANGED lag,
               (pc = "fsm" /\ pc' = "loop") \/ UNCHANGED pc
        PROVE  state_age' <= MaxLag * Passes' + lag'
    <3>1. error_count' = error_count + 1 /\ UNCHANGED <<nci_state, state_age, failed>>
      BY <2>2 DEF SetErrorState
    <3>2. ~failed /\ nci_state \in InitStates
      BY <3>1
    <3>3. CASE pc = "fsm" /\ pc' = "loop"
      BY <2>2, <3>1, <3>2, <3>3 DEF InitAge, Passes
    <3>4. CASE UNCHANGED pc
      <4>1. Passes \in Nat /\ Passes' = Passes + 1
        BY <2>n, <3>1, <3>4 DEF Passes
      <4>2. /\ MaxLag * Passes \in Nat
            /\ MaxLag * Passes' = MaxLag * Passes + MaxLag
        BY <2>n, <4>1, OneMorePass
      <4> QED
        BY <2>n, <2>2, <3>1, <3>2, <4>2 DEF InitAge
    <3> QED
      BY <2>2, <3>3, <3>4
  <2>3. ASSUME UNCHANGED <<fsm, failed, lag>>, Passes' = Passes
        PROVE  state_age' <= MaxLag * Passes' + lag'
    BY <2>3 DEF InitAge
  <2>4. CASE FastRecovery
    BY <2>1, <2>4 DEF FastRecovery
  \* The gap since the last entry of loop() becomes the price of this pass
  <2>5. CASE LoopStart
    <3>1. ~failed /\ nci_state \in InitStates /\ Passes = error_count
          /\ Passes' = error_count + 1 /\ state_age' = state_age /\ lag' = 0
      BY <2>5 DEF LoopStart, LoopEntered, Passes
    <3>2. state_age <= MaxLag * error_count + lag
      BY <3>1 DEF InitAge
    <3> QED
      BY <2>n, <2>m, <3>1, <3>2
  <2>6. CASE HealthSkip \/ HealthOk
    BY <2>3, <2>6 DEF HealthSkip, HealthOk, Passes
  <2>7. CASE HealthStuck
    BY <2>1, <2>3, <2>7 DEF HealthStuck, Passes
  <2>8. ASSUME NEW from, NEW to, Advance(from, to)
        PROVE  state_age' <= MaxLag * Passes' + lag'
    BY <2>1, <2>8 DEF Advance
  <2>9. ASSUME NEW from, NEW error, Stumble(from, error)
        PROVE  state_age' <= MaxLag * Passes' + lag'
    <3>1. CASE TooManyErrors
      BY <2>1, <2>9, <3>1 DEF Stumble, SetErrorState
    <3>2. CASE ~TooManyErrors
      BY <2>2, <2>9, <3>2 DEF Stumble
    <3> QED
      BY <3>1, <3>2
  <2>10. CASE BringUp
    BY <2>8, <2>9, <2>10
    DEF BringUp, ResetCore, InitCore, SendInitConfig, SetDiscoverMap,
        SetListenModeRouting
  \* The other cases of the switch start outside the initialisation
  <2>11. CASE Idle \/ Wait \/ NothingToDo
    BY <2>11 DEF Idle, Wait, NothingToDo, InitStates, BootStates, WaitStates, EpStates
  <2>12. CASE RefreshCoreConfig
    BY <2>1, <2>3, <2>12
    DEF RefreshCoreConfig, RefreshStopFails, RefreshStopped, Passes
  <2>13. CASE StartDiscovery
    <3>1. nci_state \notin InitStates
      BY <2>13 DEF StartDiscovery, PcMatchesState, InitStates, BootStates
    <3>2. (\E s \in NCIState : SetState(s)) \/ UNCHANGED nci_state
      BY <2>13 DEF StartDiscovery, SetErrorState, NCIState
    <3> QED
      BY <2>1, <3>1, <3>2
  <2>14. CASE SelectEndpoint
    BY <2>1, <2>14 DEF SelectEndpoint, InitStates, BootStates
  <2>15. CASE ProcessMessage
    <3>1. CASE NoTransition
      BY <2>3, <3>1 DEF NoTransition, EndOfPass, Passes
    <3>2. CASE ~NoTransition
      BY <2>1, <2>15, <3>2
      DEF ProcessMessage, ListenActivated, PollActivated, LastDiscovered,
          RfDeactivated, ActivationFailed
    <3> QED
      BY <3>1, <3>2
  <2>16. CASE PollDeactivate
    BY <2>1, <2>3, <2>16 DEF PollDeactivate, Passes
  <2>17. CASE SetTagEmulation \/ SetPolling \/ LinkChange \/ UNCHANGED vars
    BY <2>3, <2>17 DEF SetTagEmulation, SetPolling, LinkChange, vars, Passes
  <2>18. CASE SetTestMode
    <3>1. CASE TestInitFails
      <4>1. state_age' = 0 /\ MaxLag * Passes' \in Nat
        BY <2>n, <3>1, OneMorePass DEF TestInitFails, Passes
      <4> QED
        BY <2>n, <3>1, <4>1 DEF TestInitFails
    <3>2. ASSUME SetErrorState("NFCC_RESET"), UNCHANGED <<pc, lag>>
          PROVE  state_age' <= MaxLag * Passes' + lag'
      BY <2>1, <2>2, <3>2 DEF SetErrorState
    <3> QED
      BY <2>1, <2>18, <3>1, <3>2 DEF SetTestMode, TestInitFails
  <2>19. CASE Tick
    <3>1. /\ ~failed /\ nci_state \in InitStates /\ Passes' = Passes
          /\ lag' = lag + 1 /\ state_age' <= state_age + 1
      BY <2>n, <2>19 DEF Tick, Older, Passes
    <3>2. state_age <= MaxLag * Passes + lag
      BY <3>1 DEF InitAge
    <3>3. MaxLag * Passes \in Nat /\ state_age' \in Nat
      BY <2>n, <2>t, ConstantsAssumption, OneMorePass DEF Passes, TypeOK, FsmTypeOK
    <3> QED
      BY <2>n, <3>1, <3>2, <3>3
  <2> QED
    BY <2>4, <2>5, <2>6, <2>7, <2>10, <2>11, <2>12, <2>13, <2>14, <2>15, <2>16,
       <2>17, <2>18, <2>19 DEF Next, Driver, HealthCheck, User
<1>3. QED
  BY <1>1, <1>2, TypeCorrect, PcCorrect, PTL DEF Spec

\* Under PromptScheduling the error counter acts within one health check
\* interval: the check and its VEN reset never see a stuck initialisation.
THEOREM InitNeverStuckCorrect ==
  ASSUME PromptScheduling
  PROVE  Spec => []InitNeverStuck
<1>1. TypeOK /\ PcMatchesState /\ InitAge => InitNeverStuck
  <2> SUFFICES ASSUME TypeOK, PcMatchesState, InitAge,
                      pc = "health", nci_state \in InitStates
               PROVE  state_age <= HealthInterval
    BY DEF InitNeverStuck
  <2> DEFINE K == NFCC_MAX_ERROR_COUNT + 2
  <2>1. /\ MaxLag \in Nat /\ error_count + 1 \in Nat /\ error_count + 1 <= K
        /\ K \in Nat /\ lag \in 0..MaxLag /\ state_age \in Nat
    BY ConstantsAssumption DEF TypeOK, FsmTypeOK, LoopTypeOK
  <2>2. state_age <= MaxLag * (error_count + 1) + lag
    BY DEF InitAge, Passes, PcMatchesState
  <2> HIDE DEF K
  <2>3. /\ MaxLag * (error_count + 1) <= MaxLag * K
        /\ MaxLag * (K + 1) = MaxLag * K + MaxLag
        /\ MaxLag * K \in Nat /\ MaxLag * (error_count + 1) \in Nat
    BY <2>1, OneMorePass, MorePasses
  <2>4. MaxLag * (K + 1) <= HealthInterval
    BY ConstantsAssumption DEF PromptScheduling, K
  <2> QED
    BY <2>1, <2>2, <2>3, <2>4, ConstantsAssumption
<1>2. QED
  BY <1>1, TypeCorrect, PcCorrect, InitAgeCorrect, PTL
=============================================================================
