-------------------------- MODULE AbstractTimeouts --------------------------
(* The interface of io.h's timeouts, over the ages of TickTimeouts.         *)
EXTENDS TickTimeouts

VARIABLES procAge, intAge, shown

vars == <<procAge, intAge, shown>>

Init == procAge = Off /\ intAge = Off /\ shown = FALSE

StartProcessing == procAge' \in Started /\ UNCHANGED <<intAge, shown>>
ClearProcessing == procAge' = Off /\ UNCHANGED <<intAge, shown>>
StartInterruption == intAge' \in Started /\ UNCHANGED <<procAge, shown>>
ClearInterruption == intAge' = Off /\ UNCHANGED <<procAge, shown>>
Reset == procAge' = Off /\ intAge' = Off /\ shown' = FALSE

Tick == /\ procAge' = AfterTick(procAge, ProcessingTicks)
        /\ intAge' = AfterTick(intAge, InterruptionTicks)
        /\ shown' = (shown \/ Due(procAge, ProcessingTicks))

Next == \/ StartProcessing \/ ClearProcessing
        \/ StartInterruption \/ ClearInterruption
        \/ Reset \/ Tick

Spec == Init /\ [][Next]_vars
=============================================================================
