---------------------------- MODULE MCDispatcher ----------------------------
(* The dispatcher with the app's own commands.                              *)
EXTENDS Dispatcher

CONSTANT MixedInputs
App == INSTANCE AppFlows

\* The cfg gives Command, Processor, Handler, Exits, Asking and Tolerant these.
MCExits     == App!AppExits
MCProcessor == App!AppProcessors
MCHandler   == App!AppHandlers
MCCommand   == DOMAIN App!AppHandlers
MCAsking    == App!AppAsking
MCTolerant  == App!AppTolerant

\* The app's flows are disciplined and complete, but for the warning about
\* external inputs.
ASSUME FlowsAssumption == /\ DisciplinedFlows <=> ~MixedInputs
                          /\ CompleteFlows <=> ~MixedInputs

\* A loop head that is reached again and again takes its exit.
LeaveLoop(p) == cur = p /\ End(App!AppLoopExit[p])

MCFairSpec ==
  FairSpec /\ \A p \in DOMAIN App!AppLoopExit : SF_vars(LeaveLoop(p))
=============================================================================
