--------------------------- MODULE BootSupervisor ---------------------------
(***************************************************************************)
(* What the orchestrator's state machine promises about restarting the     *)
(* boot sequence: every failed boot is retried at most MaxTries times      *)
(* before a boot succeeds; a success gives the tries back; when they are   *)
(* spent the supervisor gives up for good; switching off is final.         *)
(*                                                                         *)
(* This is what its code keeps, and less than its documentation says: see  *)
(* AskRestart and Fail.                                                    *)
(***************************************************************************)
EXTENDS Integers

CONSTANT MaxTries   \* how often a boot is retried, a natural number

VARIABLES phase, tries

svars == <<phase, tries>>

Init == phase = "trying" /\ tries = 0

\* A boot succeeds.
Succeed == /\ phase = "trying"
           /\ phase' = "up"
           /\ tries' = 0

\* A boot or the running system fails.  With the tries spent it gives up, and waits for
\* ever: _tick_error is documented to go to SHUTDOWN then, and stays in ERROR.
Fail == /\ phase \in {"trying", "up"}
        /\ phase' = IF tries < MaxTries THEN "failed" ELSE "gaveup"
        /\ UNCHANGED tries

\* The operator asks for a restart.  ~/request_recovery is documented to force RECOVERY, a
\* try of its own; what it does is to count as a failure.  One who asks when the supervisor
\* has given up is told of success and gets nothing; one who asks during the last try makes
\* it give up.
AskRestart == /\ phase # "off"
              /\ phase' = IF tries < MaxTries THEN "failed" ELSE "gaveup"
              /\ UNCHANGED tries

Retry == /\ phase = "failed"
         /\ tries < MaxTries
         /\ phase' = "trying"
         /\ tries' = tries + 1

SwitchOff == /\ phase # "off"
             /\ phase' = "off"
             /\ UNCHANGED tries

Next == Succeed \/ Fail \/ AskRestart \/ Retry \/ SwitchOff

Spec == Init /\ [][Next]_svars
=============================================================================
