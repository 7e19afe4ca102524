----------------------------- MODULE IoTimeouts -----------------------------
(***************************************************************************)
(* The tick counter and the timeouts of io.c with the width of the code:   *)
(* G_ticks and the start ticks are uint16_t (TickModulus = 2^16), and      *)
(* io_event compares their difference, promoted to int, with the limit.    *)
(***************************************************************************)
EXTENDS Integers

CONSTANTS TickModulus, ProcessingTicks, InterruptionTicks

ASSUME ModulusAssumption ==
  /\ TickModulus \in Nat \ {0}
  /\ ProcessingTicks \in Nat \ {0} /\ InterruptionTicks \in Nat \ {0}

Timeout == {"processing", "interruption"}
Limit(t) == IF t = "processing" THEN ProcessingTicks ELSE InterruptionTicks

VARIABLES
  ticks,    \* G_ticks
  active,   \* the members of G_is_timeout_active that are set
  start,    \* G_processing_/G_interruption_timeout_start_tick
  shown,    \* G_was_processing_screen_shown
  since     \* history: ticks received since a timeout started, up to its limit

vars == <<ticks, active, start, shown, since>>

Init == /\ ticks = 0 /\ active = {} /\ shown = FALSE
        /\ start = [t \in Timeout |-> 0] /\ since = [t \in Timeout |-> 0]

\* Mutant: the start tick is not recorded.
StartKeepingOldTick(t) ==
  /\ active' = active \cup {t}
  /\ since' = [since EXCEPT ![t] = 0]
  /\ UNCHANGED <<ticks, start, shown>>

\* io_start_processing_timeout, io_start_interruption_timeout
StartTimeout(t) ==
  /\ active' = active \cup {t}
  /\ start' = [start EXCEPT ![t] = ticks]
  /\ since' = [since EXCEPT ![t] = 0]
  /\ UNCHANGED <<ticks, shown>>

\* io_clear_processing_timeout, io_clear_interruption_timeout
ClearTimeout(t) ==
  /\ active' = active \ {t}
  /\ UNCHANGED <<ticks, start, shown, since>>

io_reset_timeouts ==
  /\ active' = {} /\ shown' = FALSE
  /\ UNCHANGED <<ticks, start, since>>

\* Mutant: the limit itself is not enough.
ElapsePast(now) == {t \in active : now - start[t] > Limit(t)}

\* The timeouts that end when the counter reaches now.
Elapse(now) == {t \in active : now - start[t] >= Limit(t)}

NextTick == (ticks + 1) % TickModulus

\* SEPROXYHAL_TAG_TICKER_EVENT
TickerEvent ==
  /\ ticks' = NextTick
  /\ active' = active \ Elapse(ticks')
  /\ shown' = (shown \/ "processing" \in Elapse(ticks'))
  /\ since' = [t \in Timeout |->
                 IF t \in active /\ since[t] < Limit(t) THEN since[t] + 1 ELSE since[t]]
  /\ UNCHANGED start

Next == \/ \E t \in Timeout : StartTimeout(t) \/ ClearTimeout(t)
        \/ io_reset_timeouts \/ TickerEvent

Spec == Init /\ [][Next]_vars

-----------------------------------------------------------------------------
TypeOK ==
  /\ ticks \in 0..TickModulus - 1 /\ active \in SUBSET Timeout
  /\ start \in [Timeout -> 0..TickModulus - 1]
  /\ shown \in BOOLEAN /\ since \in [Timeout -> Nat]

\* The ticker event ends a timeout, showing "Processing..." or resetting the
\* app, only when the announced number of ticks was received since its start,
\* wherever the counter wrapped around in between.
NeverEarly ==
  [][TickerEvent => \A t \in active \ active' : since'[t] = Limit(t)]_vars

\* The age that TickTimeouts gives to a timeout.
Age(t) == IF t \notin active THEN -1
          ELSE IF start[t] + Limit(t) >= TickModulus THEN -2
          ELSE ticks - start[t]

A == INSTANCE AbstractTimeouts
       WITH procAge <- Age("processing"), intAge <- Age("interruption"),
            Wraps <- TRUE

\* The counter of io.c implements the timeouts the dispatcher's model uses: each
\* elapses after exactly its limit, or never if it starts too close to the
\* wraparound.
ImplementsAges == A!Spec
=============================================================================
