-------------------------- MODULE IoTimeoutsProofs --------------------------
(***************************************************************************)
(* The 16-bit counter of io.c implements the ages of TickTimeouts, for     *)
(* every width of the counter and every length of the timeouts.            *)
(***************************************************************************)
EXTENDS IoTimeouts, TLAPS

\* An active timeout that started far enough from the wraparound has seen no
\* wraparound, and its limit is still ahead.
InTime(t) ==
  t \in active /\ start[t] + Limit(t) < TickModulus =>
    start[t] <= ticks /\ since[t] = ticks - start[t] /\ since[t] < Limit(t)

IInv == TypeOK /\ \A t \in Timeout : InTime(t)

\* The limits of io.h are positive.
LEMMA LimitType == \A t \in Timeout : Limit(t) \in Nat \ {0}
BY ModulusAssumption DEF Limit

\* The counter after a tick: the next number, or zero at the wraparound.
LEMMA TickLemma ==
  ASSUME NEW n \in 0..TickModulus - 1
  PROVE  /\ (n + 1) % TickModulus \in 0..TickModulus - 1
         /\ n + 1 < TickModulus => (n + 1) % TickModulus = n + 1
<1> USE ModulusAssumption
<1>1. CASE n + 1 < TickModulus
  <2>1. (n + 1) % TickModulus = n + 1
    BY <1>1
  <2> QED BY <1>1, <2>1
<1>2. CASE n + 1 = TickModulus
  <2>1. (n + 1) % TickModulus = 0
    BY <1>2
  <2> QED BY <1>2, <2>1
<1> QED BY <1>1, <1>2

\* What a tick does to one active timeout: one that started far enough from the
\* wraparound ends exactly at its limit, another never ends.
LEMMA ElapseLemma ==
  ASSUME IInv, TickerEvent, NEW t \in active
  PROVE  /\ start[t] + Limit(t) < TickModulus =>
              /\ ticks' = ticks + 1
              /\ since'[t] = since[t] + 1 /\ since'[t] = ticks' - start[t]
              /\ t \in Elapse(ticks') <=> since[t] + 1 = Limit(t)
         /\ start[t] + Limit(t) >= TickModulus => t \notin Elapse(ticks')
<1> USE ModulusAssumption
<1>1. t \in Timeout /\ Limit(t) \in Nat \ {0}
  BY LimitType DEF IInv, TypeOK
<1>2. start[t] \in 0..TickModulus - 1 /\ since[t] \in Nat /\ ticks \in 0..TickModulus - 1
  BY <1>1 DEF IInv, TypeOK
<1>3. /\ ticks' \in 0..TickModulus - 1
      /\ ticks + 1 < TickModulus => ticks' = ticks + 1
  BY <1>2, TickLemma DEF TickerEvent, NextTick
<1>4. t \in Elapse(ticks') <=> ticks' - start[t] >= Limit(t)
  BY DEF Elapse
<1>5. since'[t] = IF since[t] < Limit(t) THEN since[t] + 1 ELSE since[t]
  BY <1>1 DEF TickerEvent, NextTick
<1>6. InTime(t)
  BY <1>1 DEF IInv
<1>7. ASSUME start[t] + Limit(t) < TickModulus
      PROVE  /\ ticks' = ticks + 1
             /\ since'[t] = since[t] + 1 /\ since'[t] = ticks' - start[t]
             /\ t \in Elapse(ticks') <=> since[t] + 1 = Limit(t)
  <2>1. start[t] <= ticks /\ since[t] = ticks - start[t] /\ since[t] < Limit(t)
    BY <1>6, <1>7 DEF InTime
  <2>2. ticks' = ticks + 1
    BY <1>1, <1>2, <1>3, <1>7, <2>1
  <2>3. since'[t] = since[t] + 1
    BY <1>5, <2>1
  <2> QED BY <1>1, <1>2, <1>4, <2>1, <2>2, <2>3
<1>8. ASSUME start[t] + Limit(t) >= TickModulus PROVE t \notin Elapse(ticks')
  BY <1>1, <1>2, <1>3, <1>4, <1>8
<1> QED BY <1>7, <1>8

\* Every operation of io.c keeps the invariant.
LEMMA InvariantStep == IInv /\ [Next]_vars => IInv'
<1> SUFFICES ASSUME IInv, [Next]_vars PROVE IInv'
  OBVIOUS
<1> USE ModulusAssumption, LimitType
<1>1. ASSUME NEW t \in Timeout, StartTimeout(t) PROVE IInv'
  BY <1>1 DEF StartTimeout, IInv, TypeOK, InTime
<1>2. ASSUME NEW t \in Timeout, ClearTimeout(t) PROVE IInv'
  BY <1>2 DEF ClearTimeout, IInv, TypeOK, InTime
<1>3. CASE io_reset_timeouts
  BY <1>3, ZenonT(40) DEF io_reset_timeouts, IInv, TypeOK, InTime
<1>4. CASE TickerEvent
  <2>1. ticks' \in 0..TickModulus - 1
    BY <1>4, TickLemma DEF TickerEvent, NextTick, IInv, TypeOK
  <2>2. since' \in [Timeout -> Nat]
    BY <1>4 DEF TickerEvent, NextTick, IInv, TypeOK
  <2>3. TypeOK'
    BY <1>4, <2>1, <2>2 DEF TickerEvent, NextTick, IInv, TypeOK
  <2>4. ASSUME NEW t \in Timeout PROVE InTime(t)'
    <3> SUFFICES ASSUME t \in active', start[t] + Limit(t) < TickModulus
                 PROVE  /\ start[t] <= ticks' /\ since'[t] = ticks' - start[t]
                        /\ since'[t] < Limit(t)
      BY <1>4 DEF TickerEvent, NextTick, InTime
    <3>1. t \in active /\ t \notin Elapse(ticks')
      BY <1>4 DEF TickerEvent, NextTick
    <3>2. /\ ticks' = ticks + 1
          /\ since'[t] = since[t] + 1 /\ since'[t] = ticks' - start[t]
          /\ since[t] + 1 # Limit(t)
      BY <1>4, <3>1, ElapseLemma
    <3>3. start[t] <= ticks /\ since[t] < Limit(t)
      BY <3>1 DEF IInv, InTime
    <3>4. start[t] \in Nat /\ ticks \in Nat /\ since[t] \in Nat /\ Limit(t) \in Nat
      BY DEF IInv, TypeOK
    <3> QED BY <3>2, <3>3, <3>4
  <2> QED BY <2>3, <2>4 DEF IInv
<1>5. CASE UNCHANGED vars
  BY <1>5 DEF vars, IInv, TypeOK, InTime
<1> QED BY <1>1, <1>2, <1>3, <1>4, <1>5 DEF Next

\* The invariant holds from the start of the app.
THEOREM Invariance == Spec => []IInv
<1>1. Init => IInv
  <2>1. 0 \in 0..TickModulus - 1
    BY ModulusAssumption
  <2>a. Init => start \in [Timeout -> 0..TickModulus - 1] /\ since \in [Timeout -> Nat]
    BY <2>1 DEF Init
  <2>2. Init => TypeOK
    BY <2>1, <2>a, Zenon DEF Init, TypeOK
  <2> QED BY <2>2 DEF Init, IInv, InTime
<1> QED BY <1>1, InvariantStep, PTL DEF Spec

\* The counter, the start ticks and the flags of io.c stay within their types.
THEOREM TypeCorrect == Spec => []TypeOK
<1>1. IInv => TypeOK
  BY DEF IInv
<1> QED BY <1>1, Invariance, PTL

\* No timeout of io.c ends before the announced number of ticks.
THEOREM TimeoutsNeverEarly == Spec => NeverEarly
<1>1. ASSUME IInv, TickerEvent, NEW t \in active \ active' PROVE since'[t] = Limit(t)
  <2>1. t \in active /\ t \in Elapse(ticks')
    BY <1>1 DEF TickerEvent, NextTick
  <2>2. start[t] \in Nat /\ Limit(t) \in Nat /\ TickModulus \in Nat
    BY <1>1, ModulusAssumption, LimitType DEF IInv, TypeOK
  <2> QED BY <1>1, <2>1, <2>2, ElapseLemma
<1>2. IInv /\ [Next]_vars =>
        [TickerEvent => \A t \in active \ active' : since'[t] = Limit(t)]_vars
  BY <1>1
<1> QED BY <1>2, Invariance, PTL DEF NeverEarly, Spec

\* The age of an active timeout under a tick, as AbstractTimeouts computes it.
LEMMA AgeStep ==
  ASSUME IInv, TickerEvent, NEW t \in Timeout
  PROVE  /\ Age(t)' = A!AfterTick(Age(t), Limit(t))
         /\ A!Due(Age(t), Limit(t)) <=> t \in Elapse(ticks')
<1>1. CASE t \notin active
  <2>1. Age(t) = -1 /\ Age(t)' = -1 /\ t \notin Elapse(ticks')
    BY <1>1 DEF Age, TickerEvent, NextTick, Elapse
  <2> QED BY <2>1 DEF A!AfterTick, A!Due, A!Elapsed, A!Off
<1>2. CASE t \in active /\ start[t] + Limit(t) >= TickModulus
  <2>1. t \notin Elapse(ticks') /\ t \in active' /\ start' = start
    BY <1>2, ElapseLemma DEF TickerEvent, NextTick
  <2>2. Age(t) = -2 /\ Age(t)' = -2
    BY <1>2, <2>1 DEF Age
  <2> QED BY <2>1, <2>2 DEF A!AfterTick, A!Due, A!Elapsed
<1>3. CASE t \in active /\ ~(start[t] + Limit(t) >= TickModulus)
  <2>1. start[t] \in Nat /\ ticks \in Nat /\ since[t] \in Nat /\ Limit(t) \in Nat
        /\ TickModulus \in Nat
    BY LimitType, ModulusAssumption DEF IInv, TypeOK
  <2>2. start[t] + Limit(t) < TickModulus
    BY <1>3, <2>1
  <2>3. /\ ticks' = ticks + 1
        /\ t \in Elapse(ticks') <=> since[t] + 1 = Limit(t)
    BY <1>3, <2>2, ElapseLemma
  <2>4. start[t] <= ticks /\ since[t] = ticks - start[t] /\ since[t] < Limit(t)
    BY <1>3, <2>2 DEF IInv, InTime
  <2>5. Age(t) = since[t]
    BY <1>3, <2>4 DEF Age
  <2>6. A!Due(Age(t), Limit(t)) <=> t \in Elapse(ticks')
    BY <2>1, <2>3, <2>4, <2>5 DEF A!Due, A!Elapsed
  <2>7. CASE t \in Elapse(ticks')
    <3>1. Age(t)' = -1
      BY <2>7 DEF Age, TickerEvent, NextTick
    <3> QED BY <2>6, <2>7, <3>1 DEF A!AfterTick, A!Off
  <2>8. CASE t \notin Elapse(ticks')
    <3>1. t \in active' /\ start' = start
      BY <1>3, <2>8 DEF TickerEvent, NextTick
    <3>2. Age(t)' = ticks' - start[t]
      BY <1>3, <3>1 DEF Age
    <3> QED BY <2>1, <2>3, <2>4, <2>5, <2>6, <2>8, <3>2 DEF A!AfterTick, A!Elapsed
  <2> QED BY <2>6, <2>7, <2>8
<1> QED BY <1>1, <1>2, <1>3

\* The counter of io.c implements the timeouts of the dispatcher's model.
THEOREM CounterImplementsAges == Spec => ImplementsAges
<1>1. Init => A!Init
  BY DEF Init, A!Init, Age, A!Off
<1>2. IInv /\ [Next]_vars => [A!Next]_(A!vars)
  <2> SUFFICES ASSUME IInv, [Next]_vars PROVE [A!Next]_(A!vars)
    OBVIOUS
  <2>1. ASSUME NEW t \in Timeout, StartTimeout(t)
        PROVE  [A!Next]_(A!vars)
    <3>1. /\ shown' = shown
          /\ Age(t)' \in {0, -2}
          /\ \A u \in Timeout \ {t} : Age(u)' = Age(u)
      BY <2>1 DEF StartTimeout, Age, IInv, TypeOK
    <3>2. CASE t = "processing"
      BY <3>1, <3>2 DEF A!Next, A!StartProcessing, A!Started, A!Never, Timeout
    <3>3. CASE t = "interruption"
      BY <3>1, <3>3 DEF A!Next, A!StartInterruption, A!Started, A!Never, Timeout
    <3> QED BY <3>2, <3>3 DEF Timeout
  <2>2. ASSUME NEW t \in Timeout, ClearTimeout(t)
        PROVE  [A!Next]_(A!vars)
    <3>1. /\ shown' = shown
          /\ Age(t)' = -1
          /\ \A u \in Timeout \ {t} : Age(u)' = Age(u)
      BY <2>2 DEF ClearTimeout, Age
    <3>2. CASE t = "processing"
      BY <3>1, <3>2 DEF A!Next, A!ClearProcessing, A!Off, Timeout
    <3>3. CASE t = "interruption"
      BY <3>1, <3>3 DEF A!Next, A!ClearInterruption, A!Off, Timeout
    <3> QED BY <3>2, <3>3 DEF Timeout
  <2>3. CASE io_reset_timeouts
    <3>1. shown' = FALSE /\ Age("processing")' = -1 /\ Age("interruption")' = -1
      BY <2>3 DEF io_reset_timeouts, Age
    <3> QED BY <3>1 DEF A!Next, A!Reset, A!Off
  <2>4. CASE TickerEvent
    <3>1. "processing" \in Timeout /\ "interruption" \in Timeout
      BY DEF Timeout
    <3>2. /\ Age("processing")' = A!AfterTick(Age("processing"), ProcessingTicks)
          /\ A!Due(Age("processing"), ProcessingTicks)
               <=> "processing" \in Elapse(ticks')
      BY <2>4, <3>1, AgeStep DEF Limit
    <3>3. Age("interruption")' = A!AfterTick(Age("interruption"), InterruptionTicks)
      BY <2>4, <3>1, AgeStep DEF Limit
    <3>4. shown' = (shown \/ A!Due(Age("processing"), ProcessingTicks))
      BY <2>4, <3>2 DEF TickerEvent, NextTick
    <3> QED BY <3>2, <3>3, <3>4 DEF A!Next, A!Tick
  <2>5. CASE UNCHANGED vars
    BY <2>5 DEF vars, A!vars, Age
  <2> QED BY <2>1, <2>2, <2>3, <2>4, <2>5 DEF Next
<1> QED BY <1>1, <1>2, Invariance, PTL DEF Spec, ImplementsAges, A!Spec
=============================================================================
