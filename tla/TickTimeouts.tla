---------------------------- MODULE TickTimeouts ----------------------------
(***************************************************************************)
(* The two timeouts of io.c as their users see them: the number of ticks   *)
(* since each was started.  IoTimeouts shows that the 16-bit tick counter  *)
(* of io.c behaves like this, with Wraps = TRUE.                           *)
(***************************************************************************)
EXTENDS Integers

CONSTANTS
  ProcessingTicks, InterruptionTicks,   \* io.h timeouts
  Wraps           \* may the tick counter be about to wrap around?

ASSUME TicksAssumption ==
  /\ ProcessingTicks \in Nat \ {0} /\ InterruptionTicks \in Nat \ {0}
  /\ Wraps \in BOOLEAN

Off   == -1   \* an inactive timeout
Never == -2   \* an active timeout that cannot elapse
Ages  == {Off, Never} \cup Nat

\* A timeout that starts less than its length before the counter wraps around
\* never elapses: the difference of the two uint16_t is computed in int.
Started == IF Wraps THEN {0, Never} ELSE {0}
Elapsed(age) == IF age \in Nat THEN age + 1 ELSE age
Due(age, limit) == age \in Nat /\ Elapsed(age) >= limit
AfterTick(age, limit) == IF Due(age, limit) THEN Off ELSE Elapsed(age)
=============================================================================
