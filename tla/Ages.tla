-------------------------------- MODULE Ages --------------------------------
(***************************************************************************)
(* Timestamps seen as ages.  The nodes store the time of an event and      *)
(* compare how long ago it was with a limit; here an age counts the whole  *)
(* ticks of a periodic timer since the event.                              *)
(***************************************************************************)
EXTENDS Integers

\* The age of what has not happened.
NoTime == -1

\* Ages saturate two past the largest limit they are compared with.
Aged(age, limit) == IF age = NoTime \/ age > limit + 1 THEN age ELSE age + 1

\* What the code's age > limit reads: when whole ticks are equal, the fraction decides.
Beyond(age, limit) == IF age = limit THEN BOOLEAN ELSE {age > limit}
=============================================================================
