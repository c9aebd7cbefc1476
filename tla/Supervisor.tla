------------------------------ MODULE Supervisor ------------------------------
(***************************************************************************)
(* What the driver's state machine promises, whatever the chip and the     *)
(* automations do: the chip is brought up stage by stage, none skipped and *)
(* none done twice; every stage may fail Limit + 1 times in a row and no   *)
(* more; a stage in Boot that fails once more ends in giving up, a later   *)
(* one in starting over; and a chip that is up is only ever lost by        *)
(* starting over.  NciFsm is shown to implement this specification.        *)
(***************************************************************************)
EXTENDS Naturals

CONSTANTS
  Up,     \* the number of stages, and the stage of a chip that is up
  Boot,   \* the stages whose failure is final
  Limit   \* the failures of one stage that are tolerated

VARIABLES
  stage,     \* the stages completed
  failures,  \* of the present stage, in a row
  givenUp

vars == <<stage, failures, givenUp>>

Init == stage = 0 /\ failures = 0 /\ givenUp = FALSE

Complete ==
  /\ ~givenUp
  /\ stage < Up
  /\ stage' = stage + 1
  /\ failures' = 0
  /\ UNCHANGED givenUp

Retry ==
  /\ ~givenUp
  /\ failures <= Limit
  /\ failures' = failures + 1
  /\ UNCHANGED <<stage, givenUp>>

\* Leaving the idle state forgets the failed attempts to leave it.
Settle ==
  /\ ~givenUp
  /\ stage = Up
  /\ failures' = 0
  /\ UNCHANGED <<stage, givenUp>>

StartOver ==
  /\ ~givenUp
  /\ stage \notin Boot
  /\ stage = Up \/ failures = Limit + 1
  /\ stage' = 0
  /\ failures' = 0
  /\ UNCHANGED givenUp

GiveUp ==
  /\ ~givenUp
  /\ stage \in Boot
  /\ failures = Limit + 1
  /\ stage' = 0
  /\ failures' = 0
  /\ givenUp' = TRUE

Next == Complete \/ Retry \/ Settle \/ StartOver \/ GiveUp

Spec == Init /\ [][Next]_vars
=============================================================================
