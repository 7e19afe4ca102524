-------------------------- MODULE DispatcherProofs --------------------------
(***************************************************************************)
(* For every set of commands, every flow graph of processors and every     *)
(* behaviour of the host, the user and the clock: the dispatcher never     *)
(* runs two processors at once, and, for flows that keep the rules which   *)
(* dispatcher.c states for processors, it answers every command once,      *)
(* before it leaves it, and runs nothing of it afterwards.                 *)
(***************************************************************************)
EXTENDS Dispatcher, SequenceTheorems, TLAPS

\* NoReentrancy is not inductive: a nested dispatcher_loop leaves at once only
\* because the dispatcher's sw is nonzero while a processor is suspended.
Nesting ==
  /\ Len(stack) <= 1
  /\ stack # <<>> => ctl = "loop"
  /\ WaitIsInterrupted

IInv == TypeOK /\ Nesting

\* The values of a timeout: inactive, just started, one tick later.
LEMMA AgeFacts == /\ Off \in Ages
                  /\ \A age \in Started : age \in Ages
                  /\ \A age \in Ages : Elapsed(age) \in Ages
BY DEF Off, Never, Ages, Started, Elapsed

USE AgeFacts

\* The initial state, an app just started by coin_main, satisfies the invariant.
LEMMA InitIInv == Init => IInv
<1> SUFFICES ASSUME Init PROVE IInv
  OBVIOUS
<1>1. stack \in Seq(Processor) /\ Len(stack) = 0
  BY DEF Init
<1>2. 0 \in 0..MaxAsks /\ 0 \in 0..MaxCommands
  BY BoundsAssumption
<1>3. TypeOK
  BY <1>1, <1>2, ZenonT(40) DEF Init, TypeOK, Status
<1>4. Nesting
  BY <1>1 DEF Init, Nesting, WaitIsInterrupted
<1> QED
  BY <1>3, <1>4 DEF IInv

\* dispatcher_loop returns either to app_main or to the one suspended processor.
LEMMA ReturnLemma ==
  ASSUME IInv, ctl = "loop", ReturnFromLoop
  PROVE  /\ stack' = <<>>
         /\ \/ ctl' = "idle" /\ cur' = None /\ stack = <<>>
            \/ /\ ctl' = "wait" /\ cur' \in Processor
               /\ stack # <<>> /\ sw = "interrupted"
<1>1. CASE stack = <<>>
  BY <1>1 DEF ReturnFromLoop
<1>2. CASE stack # <<>>
  <2>1. stack \in Seq(Processor) /\ Len(stack) = 1
    <3>1. stack \in Seq(Processor) /\ Len(stack) <= 1
      BY DEF IInv, TypeOK, Nesting
    <3>2. Len(stack) \in Nat \ {0}
      BY <1>2, <3>1, EmptySeq
    <3>3. \A n \in Nat \ {0} : n <= 1 => n = 1
      OBVIOUS
    <3> QED
      BY <3>1, <3>2, <3>3, Zenon
  <2>2. stack[1] \in Processor
    BY <2>1
  <2>3. SubSeq(stack, 1, 0) = <<>>
    BY <2>1
  <2>4. sw = "interrupted"
    BY <1>2 DEF IInv, Nesting, WaitIsInterrupted
  <2> QED
    BY <1>2, <2>1, <2>2, <2>3, <2>4 DEF ReturnFromLoop
<1> QED
  BY <1>1, <1>2

\* A response changes only what the host knows.
LEMMA RespondLemma ==
  ASSUME IInv, NEW s \in Status, Respond(s)
  PROVE  /\ host' \in {"free", "waiting", "called"} /\ unsolicited' \in BOOLEAN
         /\ barged' \in BOOLEAN
BY ZenonT(40) DEF IInv, TypeOK, Respond

\* Every step of the device, the host, the user or the clock keeps the invariant.
LEMMA NextIInv == IInv /\ [Next]_vars => IInv'
<1> SUFFICES ASSUME IInv, [Next]_vars PROVE IInv'
  OBVIOUS
<1> USE ProcessorsAssumption, BoundsAssumption, TicksAssumption
<1> USE DEF IInv, control, dstate, timers, ui, history, link
<1>1. ASSUME NEW c \in Command, ReceiveCommand(c) PROVE IInv'
  <2>1. gen' \in 0..MaxCommands /\ curGen' \in 0..MaxCommands
    BY <1>1 DEF ReceiveCommand, CallHandler, DiscardContext, TypeOK
  <2>4. cur' \in Processor /\ asked' \in 0..MaxAsks
    BY <1>1 DEF ReceiveCommand, CallHandler
  <2>5. barged' \in BOOLEAN
    BY <1>1 DEF ReceiveCommand, NoteBarge
  <2>2. TypeOK'
    BY <1>1, <2>1, <2>4, <2>5, ZenonT(40) DEF ReceiveCommand, CallHandler, ResetDispatcherState, DiscardContext, TypeOK,
         Status
  <2>3. Nesting'
    BY <1>1 DEF ReceiveCommand, CallHandler, Nesting, WaitIsInterrupted
  <2> QED
    BY <2>2, <2>3
<1>2. CASE ReceiveUnknown
  <2>1. gen' \in 0..MaxCommands
    BY <1>2 DEF ReceiveUnknown, DiscardContext, TypeOK
  <2>4. barged' \in BOOLEAN
    BY <1>2 DEF ReceiveUnknown, NoteBarge
  <2>2. TypeOK'
    BY <1>2, <2>1, <2>4, ZenonT(40) DEF ReceiveUnknown, ResetDispatcherState, DiscardContext,
         AnswerAtOnce, TypeOK, Status
  <2>3. Nesting'
    BY <1>2 DEF ReceiveUnknown, Nesting, WaitIsInterrupted
  <2> QED
    BY <2>2, <2>3
<1>3. CASE ReceiveContinue
  BY <1>3, ZenonT(40) DEF ReceiveContinue, ResetDispatcherState, AnswerAtOnce, TypeOK,
       Nesting, WaitIsInterrupted, Status
<1>4. CASE ReceiveContinueBadP1P2
  BY <1>4, ZenonT(40) DEF ReceiveContinueBadP1P2, ResetDispatcherState, AnswerAtOnce, TypeOK,
       Nesting, WaitIsInterrupted, Status
<1>5. CASE ReceiveMalformed
  <2>1. barged' \in BOOLEAN
    BY <1>5 DEF ReceiveMalformed, NoteBarge
  <2> QED
    BY <1>5, <2>1 DEF ReceiveMalformed, AnswerAtOnce, TypeOK, Nesting,
         WaitIsInterrupted
<1>6. CASE LoopPaused
  <2>1. ReturnFromLoop /\ ctl = "loop"
    BY <1>6 DEF LoopPaused
  <2>2. stack' = <<>> /\ stack' \in Seq(Processor) /\ Len(stack') = 0
    BY <2>1, ReturnLemma, EmptySeq
  <2>3. TypeOK'
    BY <1>6, <2>1, <2>2, ReturnLemma DEF LoopPaused, TypeOK
  <2>4. Nesting'
    BY <1>6, <2>1, <2>2, ReturnLemma DEF LoopPaused, Nesting, WaitIsInterrupted
  <2> QED
    BY <2>3, <2>4
<1>7. CASE LoopAnswered
  <2>1. ReturnFromLoop /\ ctl = "loop"
    BY <1>7 DEF LoopAnswered, Terminate
  <2>2. stack' = <<>> /\ stack' \in Seq(Processor) /\ Len(stack') = 0
    BY <2>1, ReturnLemma, EmptySeq
  <2>3. TypeOK'
    BY <1>7, <2>1, <2>2, ReturnLemma DEF LoopAnswered, Terminate, TypeOK
  <2>4. Nesting'
    BY <1>7, <2>1, <2>2, ReturnLemma DEF LoopAnswered, Terminate, Nesting,
         WaitIsInterrupted
  <2> QED
    BY <2>3, <2>4
<1>8. CASE LoopSilent
  BY <1>8, ReturnLemma, RespondLemma DEF LoopSilent, SendBadState, Terminate, TypeOK, Nesting,
       WaitIsInterrupted, Status
<1>9. CASE LoopRun
  <2>3. cur' \in Processor /\ asked' \in 0..MaxAsks /\ curGen' \in 0..MaxCommands
    BY <1>9 DEF LoopRun, StartNext, TypeOK
  <2>1. TypeOK'
    BY <1>9, <2>3, ZenonT(40) DEF LoopRun, StartNext, TypeOK
  <2>2. Nesting'
    BY <1>9 DEF LoopRun, StartNext, Nesting, WaitIsInterrupted
  <2> QED
    BY <2>1, <2>2
<1>10. ASSUME NEW e \in Exits[cur], ctl = "run", End(e) PROVE IInv'
  <2>1. e \in Exit
    BY <1>10 DEF TypeOK
  <2>2. /\ e.next \in Processor \cup {None} /\ e.ask \in Processor \cup {None}
        /\ e.pause \in BOOLEAN /\ e.sw \in Status
    BY <2>1 DEF Exit, Status
  <2>3. /\ host' \in {"free", "waiting", "called"} /\ unsolicited' \in BOOLEAN
        /\ barged' \in BOOLEAN /\ sw' \in Status /\ answered' \in BOOLEAN
    BY <1>10, <2>2, RespondLemma, ZenonT(40) DEF End, TypeOK
  <2>4. /\ screen' \in {"menu", "processing", "ask"}
        /\ gNext' \in Processor \cup {None}
        /\ screen' = "ask" => gNext' \in Processor
        /\ uiGen' \in 0..MaxCommands /\ unapproved' \in BOOLEAN
    BY <1>10, <2>2, ZenonT(40) DEF End, TypeOK
  <2>5. paused' \in BOOLEAN /\ hadUx' \in BOOLEAN
    BY <1>10 DEF End
  <2>6. TypeOK'
    BY <1>10, <2>2, <2>3, <2>4, <2>5 DEF End, TypeOK
  <2>7. Nesting'
    BY <1>10 DEF End, Nesting, WaitIsInterrupted
  <2> QED
    BY <2>6, <2>7
<1>11. CASE Ask
  BY <1>11, RespondLemma DEF Ask, AskWith, TypeOK, Nesting, WaitIsInterrupted, Status
<1>12. CASE Answer
  <2>1. TypeOK'
    BY <1>12, ZenonT(40) DEF Answer, AnswerWith, TypeOK, Status
  <2>2. Nesting'
    BY <1>12 DEF Answer, AnswerWith, Nesting, WaitIsInterrupted
  <2> QED
    BY <2>1, <2>2
<1>13. CASE AnswerWrong
  BY <1>13 DEF AnswerWrong, AnswerAtOnce, TypeOK, Nesting, WaitIsInterrupted, Status
<1>14. ASSUME NEW approved \in BOOLEAN, Press(approved) PROVE IInv'
  <2>1. stack = <<>> /\ stack \in Seq(Processor)
    BY <1>14 DEF Press, PressWith, Chosen, Exchanging, Nesting, TypeOK
  <2>2. /\ stack' \in Seq(Processor) /\ Len(stack') <= 1
        /\ stack' # <<>> => ctl = "wait"
    <3>1. CASE ctl = "wait"
      <4>1. stack' = Append(<<>>, cur) /\ cur \in Processor
        BY <1>14, <2>1, <3>1 DEF Press, PressWith, Chosen, TypeOK
      <4> QED
        BY <3>1, <4>1
    <3>2. CASE ctl # "wait"
      BY <1>14, <2>1, <3>2, EmptySeq DEF Press, PressWith, Chosen
    <3> QED
      BY <3>1, <3>2
  <2>3. unapproved' \in BOOLEAN /\ nextp' \in Processor /\ nextGen' \in 0..MaxCommands
    BY <1>14 DEF Press, PressWith, Chosen, TypeOK
  <2>4. TypeOK'
    BY <1>14, <2>2, <2>3, ZenonT(40) DEF Press, PressWith, Chosen, TypeOK
  <2>5. Nesting'
    BY <1>14, <2>2 DEF Press, PressWith, Chosen, Nesting, WaitIsInterrupted
  <2> QED
    BY <2>4, <2>5
<1>15. CASE Tick
  BY <1>15 DEF Tick, AfterTick, IoReset, Exchanging, TypeOK, Nesting,
       WaitIsInterrupted
<1>16. CASE UsbPowerLost
  BY <1>16 DEF UsbPowerLost, IoReset, Exchanging, TypeOK, Nesting,
       WaitIsInterrupted
<1>17. CASE UNCHANGED vars
  BY <1>17 DEF vars, TypeOK, Nesting, WaitIsInterrupted
<1> QED
  BY <1>1, <1>2, <1>3, <1>4, <1>5, <1>6, <1>7, <1>8, <1>9, <1>10, <1>11, <1>12,
     <1>13, <1>14, <1>15, <1>16, <1>17
     DEF Next, Receive, Loop, Finish, Done

\* The invariant holds throughout every behaviour of the app.
THEOREM Invariance == Spec => []IInv
BY InitIInv, NextIInv, PTL DEF Spec

\* The state stays within the types the C declarations and enums give it.
THEOREM TypeCorrect == Spec => []TypeOK
<1>1. IInv => TypeOK
  BY DEF IInv
<1> QED
  BY <1>1, Invariance, PTL

\* No processor starts while another is suspended in process_interruption, for
\* any host: a second button press during a client command cannot run a second
\* processor over the command state of the first.
THEOREM NeverReentrant == Spec => []NoReentrancy
<1>1. IInv => NoReentrancy
  BY DEF IInv, Nesting, NoReentrancy
<1> QED
  BY <1>1, Invariance, PTL

-----------------------------------------------------------------------------
(* Approvals.  ApprovalGate alone is not inductive: what the loop is about  *)
(* to run has to be covered too, and it must be known that a host called to *)
(* answer a client command is answering a processor that is waiting for it, *)
(* for a CONTINUE at rest would run whatever next_processor is left over.   *)

Gate ==
  /\ ctl = "run" /\ cur # Deny => ~unapproved
  /\ ctl = "wait" \/ stack # <<>> => ~unapproved
  /\ ctl = "loop" /\ ~paused /\ sw = "none" /\ nextp # None =>
       ~unapproved \/ nextp = Deny
  /\ host = "called" => ctl = "wait" \/ stack # <<>>

\* Every step keeps the gate, if screens pause and CONTINUE is sent only in answer.
LEMMA NextGate ==
  ASSUME DisciplinedFlows, "stray" \notin Host, IInv, Gate, [Next]_vars
  PROVE  Gate'
<1> USE DEF control, dstate, timers, ui, history, link
<1>a. ctl # "loop" => stack = <<>>
  BY DEF IInv, Nesting
<1>b. stack # <<>> => sw = "interrupted"
  BY DEF IInv, Nesting, WaitIsInterrupted
<1>1. ASSUME NEW c \in Command, ReceiveCommand(c) PROVE Gate'
  BY <1>1, <1>a DEF ReceiveCommand, CallHandler, DiscardContext, Gate
<1>2. CASE ReceiveUnknown
  BY <1>2, <1>a DEF ReceiveUnknown, DiscardContext, AnswerAtOnce, Gate
<1>3. ~ReceiveContinue
  BY <1>a DEF ReceiveContinue, MaySendContinue, Gate
<1>4. CASE ReceiveContinueBadP1P2
  BY <1>4 DEF ReceiveContinueBadP1P2
<1>5. CASE ReceiveMalformed
  BY <1>5, <1>a DEF ReceiveMalformed, AnswerAtOnce, Gate
<1>6. CASE LoopPaused
  BY <1>6, ReturnLemma DEF LoopPaused, Gate
<1>7. CASE LoopAnswered
  BY <1>7, ReturnLemma DEF LoopAnswered, Terminate, Gate
<1>8. CASE LoopSilent
  <2>1. stack = <<>> /\ host # "called"
    BY <1>8, <1>b DEF LoopSilent, SendBadState, Gate
  <2>2. host' # "called"
    BY <1>8, <2>1 DEF LoopSilent, SendBadState, Respond
  <2>3. ctl' = "idle" /\ stack' = <<>>
    BY <1>8, <2>1 DEF LoopSilent, SendBadState, Terminate, ReturnFromLoop
  <2> QED
    BY <2>2, <2>3 DEF Gate
<1>9. CASE LoopRun
  <2>1. stack = <<>> /\ host # "called"
    BY <1>9, <1>b DEF LoopRun, StartNext, Gate
  <2>2. ~unapproved \/ nextp = Deny
    BY <1>9 DEF LoopRun, StartNext, Gate
  <2> QED
    BY <1>9, <2>1, <2>2 DEF LoopRun, StartNext, Gate
<1>10. ASSUME NEW e \in Exits[cur], ctl = "run", End(e) PROVE Gate'
  <2>1. cur \in Processor /\ stack = <<>> /\ host # "called"
    BY <1>10, <1>a DEF IInv, TypeOK, Gate
  <2>2. e.ask # None => e.pause
    BY <1>10, <2>1 DEF DisciplinedFlows
  <2>3. cur = Deny => e.sw # "none"
    BY <1>10 DEF DisciplinedFlows
  <2>4. e.sw # "interrupted"
    BY <1>10, <2>1, ProcessorsAssumption DEF Exit
  <2>5. host' # "called"
    BY <1>10, <2>1, <2>4 DEF End, Respond
  <2>6. ~paused' /\ sw' = "none" => ~unapproved'
    BY <1>10, <2>2, <2>3, ZenonT(40) DEF End, Gate
  <2> QED
    BY <1>10, <2>1, <2>5, <2>6 DEF End, Gate
<1>11. CASE Ask
  BY <1>11, <1>a DEF Ask, AskWith, DisciplinedFlows, Gate
<1>12. CASE Answer
  BY <1>12, <1>a DEF Answer, AnswerWith, Gate
<1>13. CASE AnswerWrong
  BY <1>13, <1>a DEF AnswerWrong, AnswerAtOnce, Gate
<1>14. ASSUME NEW approved \in BOOLEAN, Press(approved) PROVE Gate'
  <2>1. ctl = "wait" => ~unapproved /\ stack' # <<>>
    BY <1>14, <1>a DEF Press, PressWith, Chosen, Gate, IInv, TypeOK
  <2>2. ctl = "idle" => host # "called" /\ stack' = <<>>
    BY <1>14, <1>a DEF Press, PressWith, Chosen, Gate
  <2>3. ~unapproved' \/ nextp' = Deny
    BY <1>14, ZenonT(40) DEF Press, PressWith, Chosen
  <2> QED
    BY <1>14, <2>1, <2>2, <2>3, ZenonT(40) DEF Press, PressWith, Chosen, Exchanging, Gate
<1>15. CASE Tick
  BY <1>15, <1>a DEF Tick, IoReset, Exchanging, Gate
<1>16. CASE UsbPowerLost
  BY <1>16 DEF UsbPowerLost, IoReset, Gate
<1>17. CASE UNCHANGED vars
  BY <1>17 DEF vars, Gate
<1> QED
  BY <1>1, <1>2, <1>3, <1>4, <1>5, <1>6, <1>7, <1>8, <1>9, <1>10, <1>11, <1>12,
     <1>13, <1>14, <1>15, <1>16, <1>17
     DEF Next, Receive, Loop, Finish, Done

\* With screens that pause and a host that sends CONTINUE only in answer to a
\* client command, no processor but the refusal runs between the display of an
\* approval screen and its approval: for any flow graph, and even if the host
\* sends new commands at any time, the power fails or a screen is pressed twice.
THEOREM ApprovalsAreGiven ==
  ASSUME DisciplinedFlows, "stray" \notin Host
  PROVE  Spec => []ApprovalGate
<1>1. Init => Gate
  BY DEF Init, Gate
<1>2. IInv /\ Gate /\ [Next]_vars => Gate'
  BY NextGate
<1>3. Gate => ApprovalGate
  BY DEF Gate, ApprovalGate
<1> QED
  BY <1>1, <1>2, <1>3, Invariance, PTL DEF Spec
-----------------------------------------------------------------------------
(* Responses.                                                               *)

\* Every step keeps a processor or a response in the loop's hand: whatever puts
\* the dispatcher into its loop has set next_processor, sw or paused.
LEMMA NextResponse ==
  ASSUME CompleteFlows, IInv, ResponseBeforeTermination, [Next]_vars
  PROVE  ResponseBeforeTermination'
<1> USE DEF control, dstate, timers, ui, history, link, ResponseBeforeTermination
<1>1. ASSUME NEW c \in Command, ReceiveCommand(c) PROVE ResponseBeforeTermination'
  BY <1>1 DEF ReceiveCommand, CallHandler
<1>2. CASE ReceiveUnknown
  BY <1>2 DEF ReceiveUnknown
<1>3. CASE ReceiveContinue
  BY <1>3 DEF ReceiveContinue
<1>4. CASE ReceiveContinueBadP1P2
  BY <1>4 DEF ReceiveContinueBadP1P2
<1>5. CASE ReceiveMalformed
  BY <1>5 DEF ReceiveMalformed
<1>6. CASE LoopPaused
  BY <1>6, ReturnLemma DEF LoopPaused
<1>7. CASE LoopAnswered
  BY <1>7, ReturnLemma DEF LoopAnswered, Terminate
<1>8. ~LoopSilent
  BY DEF LoopSilent
<1>9. CASE LoopRun
  BY <1>9 DEF LoopRun, StartNext
<1>10. ASSUME NEW e \in Exits[cur], ctl = "run", End(e) PROVE ResponseBeforeTermination'
  <2>1. cur \in Processor
    BY <1>10 DEF IInv, TypeOK
  <2>2. e.sw # "none" \/ e.pause \/ e.next # None
    BY <1>10, <2>1 DEF CompleteFlows
  <2> QED
    BY <1>10, <2>2, ZenonT(40) DEF End
<1>11. CASE Ask
  BY <1>11 DEF Ask, AskWith
<1>12. CASE Answer
  BY <1>12 DEF Answer, AnswerWith
<1>13. CASE AnswerWrong
  BY <1>13 DEF AnswerWrong
<1>14. ASSUME NEW approved \in BOOLEAN, Press(approved) PROVE ResponseBeforeTermination'
  <2>1. nextp' \in Processor
    BY <1>14, ProcessorsAssumption DEF Press, PressWith, Chosen, IInv, TypeOK
  <2> QED
    BY <2>1, ProcessorsAssumption
<1>15. CASE Tick
  BY <1>15 DEF Tick, IoReset, Exchanging
<1>16. CASE UsbPowerLost
  BY <1>16 DEF UsbPowerLost, IoReset
<1>17. CASE UNCHANGED vars
  BY <1>17 DEF vars
<1> QED
  BY <1>1, <1>2, <1>3, <1>4, <1>5, <1>6, <1>7, <1>8, <1>9, <1>10, <1>11, <1>12,
     <1>13, <1>14, <1>15, <1>16, <1>17
     DEF Next, Receive, Loop, Finish, Done

\* If every processor that leaves without a response names its successor or waits
\* for the user, the dispatcher never runs out of processors before a response:
\* for any host, also one that sends CONTINUE out of turn.
THEOREM AnswersBeforeLeaving ==
  ASSUME CompleteFlows
  PROVE  Spec => []ResponseBeforeTermination
<1>1. Init => ResponseBeforeTermination
  BY DEF Init, ResponseBeforeTermination
<1>2. IInv /\ ResponseBeforeTermination /\ [Next]_vars => ResponseBeforeTermination'
  BY NextResponse
<1> QED
  BY <1>1, <1>2, Invariance, PTL DEF Spec
-----------------------------------------------------------------------------
(* Superseded commands.  DiscardedNeverResumes is not inductive: a screen   *)
(* of a superseded command may stay on display, and the button on it sets   *)
(* next_processor to a processor of that command.  What stops it is sw: it  *)
(* is 0 only from the start of a command to its response, and a screen that *)
(* the device waits on with sw = 0 was shown by the current command.        *)

\* A processor is below the io_exchange of process_interruption.
Suspended == ctl = "wait" \/ stack # <<>>

Current ==
  /\ ctl = "run" \/ Suspended => curGen = gen /\ ~paused
  /\ ctl = "loop" /\ ~paused /\ sw = "none" => nextGen = gen
  /\ ctl = "loop" /\ paused => screen = "ask" /\ unapproved /\ uiGen = gen
  /\ ctl = "idle" /\ screen = "ask" /\ sw = "none" => uiGen = gen
  /\ sw # "none" => host # "waiting"
  /\ ctl = "idle" /\ host = "waiting" =>
       paused /\ screen = "ask" /\ unapproved /\ uiGen = gen /\ procAge = Off

\* Every step keeps it, if no APDU but a new command resets sw.
LEMMA NextCurrent ==
  ASSUME CompleteFlows, "stray" \notin Host, "unknown" \notin Host,
         IInv, Gate, ResponseBeforeTermination, Current, [Next]_vars
  PROVE  Current'
<1> USE DEF control, dstate, timers, ui, history, link, Suspended
<1>a. ctl # "loop" => stack = <<>>
  BY DEF IInv, Nesting
<1>b. stack # <<>> => sw = "interrupted"
  BY DEF IInv, Nesting, WaitIsInterrupted
<1>1. ASSUME NEW c \in Command, ReceiveCommand(c) PROVE Current'
  BY <1>1, <1>a DEF ReceiveCommand, CallHandler, ResetDispatcherState, DiscardContext,
       Current
<1>2. ~ReceiveUnknown
  BY DEF ReceiveUnknown
<1>3. ~ReceiveContinue
  BY <1>a DEF ReceiveContinue, MaySendContinue, Gate
<1>4. ~ReceiveContinueBadP1P2
  BY DEF ReceiveContinueBadP1P2
<1>5. CASE ReceiveMalformed
  BY <1>5, <1>a DEF ReceiveMalformed, AnswerAtOnce, Current
<1>6. CASE LoopPaused
  BY <1>6, ReturnLemma DEF LoopPaused, Current
<1>7. CASE LoopAnswered
  BY <1>7, ReturnLemma DEF LoopAnswered, Terminate, Current
<1>8. ~LoopSilent
  BY DEF LoopSilent, ResponseBeforeTermination
<1>9. CASE LoopRun
  BY <1>9, <1>b DEF LoopRun, StartNext, Current
<1>10. ASSUME NEW e \in Exits[cur], ctl = "run", End(e) PROVE Current'
  <2>1. cur \in Processor /\ stack = <<>> /\ host # "called"
    BY <1>10, <1>a, SMTT(30) DEF IInv, TypeOK, Gate
  <2>2. /\ e.sw # "none" \/ e.pause \/ e.next # None
        /\ e.pause => e.ask # None /\ e.sw = "none"
    BY <1>10, <2>1, SMTT(30) DEF CompleteFlows
  <2>3. ctl' = "loop" /\ stack' = <<>>
    BY <1>10, <2>1 DEF End
  <2>4. sw' # "none" => host' # "waiting"
    BY <1>10 DEF End, Respond, Current
  <2>5. paused' => screen' = "ask" /\ unapproved' /\ uiGen' = gen'
    BY <1>10, <2>2, ZenonT(40) DEF End, Current
  <2>6. ~paused' /\ sw' = "none" => nextGen' = gen'
    BY <1>10, <2>2, ZenonT(40) DEF End, Current
  <2> QED
    BY <2>3, <2>4, <2>5, <2>6, SMTT(30) DEF Current
<1>11. CASE Ask
  <2>1. host' # "waiting"
    BY <1>11 DEF Ask, AskWith, Respond
  <2> QED
    BY <1>11, <2>1 DEF Ask, AskWith, Current
<1>12. CASE Answer
  BY <1>12, <1>a DEF Answer, AnswerWith, Current
<1>13. CASE AnswerWrong
  BY <1>13, <1>a DEF AnswerWrong, AnswerAtOnce, Current
<1>14. ASSUME NEW approved \in BOOLEAN, Press(approved) PROVE Current'
  <2>1. ctl' = "loop" /\ ~paused' /\ (ctl = "idle" => stack' = <<>>)
    BY <1>14, <1>a DEF Press, PressWith, Chosen
  <2>2. ctl = "wait" => sw' = "interrupted" /\ curGen' = gen'
    BY <1>14 DEF Press, PressWith, Chosen, Current, IInv, Nesting, WaitIsInterrupted
  <2>3. ctl = "idle" /\ sw' = "none" => nextGen' = gen'
    BY <1>14 DEF Press, PressWith, Chosen, Current
  <2>4. ctl = "idle" \/ ctl = "wait"
    BY <1>14 DEF Press, PressWith, Chosen, Exchanging
  <2>5. sw' # "none" => host' # "waiting"
    BY <1>14 DEF Press, PressWith, Chosen, Current
  <2> QED
    BY <2>1, <2>2, <2>3, <2>4, <2>5 DEF Current
<1>15. CASE Tick
  <2>1. procAge = Off => procAge' = Off /\ ~Due(procAge, ProcessingTicks)
    BY <1>15 DEF Tick, AfterTick, Due, Elapsed, Off
  <2> QED
    BY <1>15, <1>a, <2>1 DEF Tick, IoReset, Exchanging, Current
<1>16. CASE UsbPowerLost
  BY <1>16 DEF UsbPowerLost, IoReset, Current
<1>17. CASE UNCHANGED vars
  BY <1>17 DEF vars, Current
<1> QED
  BY <1>1, <1>2, <1>3, <1>4, <1>5, <1>6, <1>7, <1>8, <1>9, <1>10, <1>11, <1>12,
     <1>13, <1>14, <1>15, <1>16, <1>17
     DEF Next, Receive, Loop, Finish, Done

\* A command superseded by another one never runs again, through its context or
\* through a screen of it still on display, for every flow graph and for a host
\* that may interrupt any command, wait or screen by a new command, a malformed
\* APDU or the loss of power.  The two exclusions are needed: CONTINUE out of turn
\* and an unknown APDU reset sw without replacing the screen.
THEOREM SupersededStaysSuperseded ==
  ASSUME DisciplinedFlows, CompleteFlows, "stray" \notin Host, "unknown" \notin Host
  PROVE  Spec => []DiscardedNeverResumes
<1>1. Init => Gate /\ ResponseBeforeTermination /\ Current
  BY DEF Init, Gate, ResponseBeforeTermination, Current, Suspended
<1>2. IInv /\ Gate /\ [Next]_vars => Gate'
  BY NextGate
<1>3. IInv /\ ResponseBeforeTermination /\ [Next]_vars => ResponseBeforeTermination'
  BY NextResponse
<1>4. IInv /\ Gate /\ ResponseBeforeTermination /\ Current /\ [Next]_vars => Current'
  BY NextCurrent
<1>5. Current => DiscardedNeverResumes
  BY DEF Current, Suspended, DiscardedNeverResumes
<1> QED
  BY <1>1, <1>2, <1>3, <1>4, <1>5, Invariance, PTL DEF Spec
-----------------------------------------------------------------------------
(* One response per request.  A host that waits for its responses is        *)
(* waiting exactly while a command is between its start and its response,   *)
(* except in process_interruption, where it is called instead.              *)

Orderly == ~barged =>
  /\ ~unsolicited
  /\ ctl = "run" => host = "waiting" /\ sw = "none" /\ ~answered
  /\ Suspended => host = "called" /\ ~answered
  /\ ctl = "run" \/ Suspended => ~paused
  /\ ctl = "loop" /\ stack = <<>> /\ sw = "none" => host = "waiting" /\ ~answered
  /\ ctl = "loop" /\ paused => sw = "none" /\ screen = "ask"
  /\ screen = "ask" => hadUx
  /\ ctl = "idle" /\ screen = "ask" =>
       host = "waiting" /\ paused /\ sw = "none" /\ ~answered

\* Every step keeps it.
LEMMA NextOrderly ==
  ASSUME DisciplinedFlows, CompleteFlows, "stray" \notin Host,
         IInv, Gate, ResponseBeforeTermination, Orderly, [Next]_vars
  PROVE  Orderly'
<1> USE DEF control, dstate, timers, ui, history, link, Suspended
<1>a. ctl # "loop" => stack = <<>>
  BY DEF IInv, Nesting
<1>b. stack # <<>> => sw = "interrupted"
  BY DEF IInv, Nesting, WaitIsInterrupted
<1>1. ASSUME NEW c \in Command, ReceiveCommand(c) PROVE Orderly'
  <2>1. ~barged' => host = "free" /\ ~barged
    BY <1>1, ZenonT(40) DEF ReceiveCommand, NoteBarge
  <2> QED
    BY <1>1, <1>a, <2>1 DEF ReceiveCommand, CallHandler, ResetDispatcherState,
         DiscardContext, Orderly
<1>2. CASE ReceiveUnknown
  <2>1. ~barged' => host = "free" /\ ~barged
    BY <1>2, ZenonT(40) DEF ReceiveUnknown, NoteBarge
  <2> QED
    BY <1>2, <1>a, <2>1 DEF ReceiveUnknown, AnswerAtOnce, ResetDispatcherState,
         DiscardContext, Orderly
<1>3. ~ReceiveContinue
  BY <1>a DEF ReceiveContinue, MaySendContinue, Gate
<1>4. ~ReceiveContinueBadP1P2
  BY DEF ReceiveContinueBadP1P2
<1>5. CASE ReceiveMalformed
  <2>1. ~barged' => host = "free" /\ ~barged
    BY <1>5, ZenonT(40) DEF ReceiveMalformed, NoteBarge
  <2> QED
    BY <1>5, <1>a, <2>1 DEF ReceiveMalformed, AnswerAtOnce, Orderly
<1>6. CASE LoopPaused
  BY <1>6, ReturnLemma DEF LoopPaused, Orderly
<1>7. CASE LoopAnswered
  BY <1>7, ReturnLemma DEF LoopAnswered, Terminate, Orderly
<1>8. ~LoopSilent
  BY DEF LoopSilent, ResponseBeforeTermination
<1>9. CASE LoopRun
  BY <1>9, <1>b DEF LoopRun, StartNext, Orderly
<1>10. ASSUME NEW e \in Exits[cur], ctl = "run", End(e) PROVE Orderly'
  <2>0. SUFFICES ASSUME ~barged' PROVE Orderly'
    BY DEF Orderly
  <2>1. /\ cur \in Processor /\ stack = <<>>
        /\ ~barged /\ host = "waiting" /\ sw = "none" /\ ~answered /\ ~paused
        /\ ~unsolicited /\ (screen = "ask" => hadUx)
    BY <1>10, <1>a, <2>0 DEF IInv, TypeOK, Orderly, End, Respond
  <2>2. /\ e.ask # None => e.pause
        /\ e.pause => e.ask # None /\ e.sw = "none"
    BY <1>10, <2>1 DEF CompleteFlows, DisciplinedFlows
  <2>3. ctl' = "loop" /\ stack' = <<>> /\ ~unsolicited'
    BY <1>10, <2>1, SMTT(30) DEF End, Respond
  <2>4. sw' = "none" => host' = "waiting" /\ ~answered'
    BY <1>10, <2>1, SMTT(30) DEF End
  <2>5. /\ paused' => sw' = "none" /\ screen' = "ask"
        /\ screen' = "ask" => hadUx'
    BY <1>10, <2>1, <2>2, ZenonT(40) DEF End
  <2> QED
    BY <2>3, <2>4, <2>5 DEF Orderly
<1>11. CASE Ask
  BY <1>11, <1>a DEF Ask, AskWith, Respond, Orderly
<1>12. CASE Answer
  BY <1>12, <1>a DEF Answer, AnswerWith, Orderly
<1>13. CASE AnswerWrong
  BY <1>13 DEF AnswerWrong, Orderly
<1>14. ASSUME NEW approved \in BOOLEAN, Press(approved) PROVE Orderly'
  <2>1. ctl' = "loop" /\ ~paused' /\ (ctl = "idle" => stack' = <<>>)
    BY <1>14, <1>a DEF Press, PressWith, Chosen
  <2>2. ctl = "wait" => stack' # <<>>
    BY <1>14, <1>a DEF Press, PressWith, Chosen, IInv, TypeOK
  <2>3. ctl = "idle" \/ ctl = "wait"
    BY <1>14 DEF Press, PressWith, Chosen, Exchanging
  <2> QED
    BY <1>14, <2>1, <2>2, <2>3 DEF Press, PressWith, Chosen, Orderly
<1>15. CASE Tick
  BY <1>15, <1>a DEF Tick, IoReset, Exchanging, Orderly
<1>16. CASE UsbPowerLost
  BY <1>16 DEF UsbPowerLost, IoReset, Orderly
<1>17. CASE UNCHANGED vars
  BY <1>17 DEF vars, Orderly
<1> QED
  BY <1>1, <1>2, <1>3, <1>4, <1>5, <1>6, <1>7, <1>8, <1>9, <1>10, <1>11, <1>12,
     <1>13, <1>14, <1>15, <1>16, <1>17
     DEF Next, Receive, Loop, Finish, Done

\* The invariants together, for the theorems below.
LEMMA OrderlyInvariance ==
  ASSUME DisciplinedFlows, CompleteFlows, "stray" \notin Host
  PROVE  Spec => [](IInv /\ Gate /\ ResponseBeforeTermination /\ Orderly)
<1>1. Init => Gate /\ ResponseBeforeTermination /\ Orderly
  BY DEF Init, Gate, ResponseBeforeTermination, Orderly, Suspended
<1>2. IInv /\ Gate /\ [Next]_vars => Gate'
  BY NextGate
<1>3. IInv /\ ResponseBeforeTermination /\ [Next]_vars => ResponseBeforeTermination'
  BY NextResponse
<1>4. IInv /\ Gate /\ ResponseBeforeTermination /\ Orderly /\ [Next]_vars => Orderly'
  BY NextOrderly
<1> QED
  BY <1>1, <1>2, <1>3, <1>4, Invariance, PTL DEF Spec

\* Once the final response of a command was sent no processor of it runs, for
\* every flow graph, as long as the host waits for its responses: also when it
\* sends unknown or malformed APDUs, the power fails or a screen is pressed twice.
THEOREM NothingRunsAfterTheAnswer ==
  ASSUME DisciplinedFlows, CompleteFlows, "stray" \notin Host
  PROVE  Spec => []NoRunAfterAnswer
<1>1. Orderly => NoRunAfterAnswer
  BY DEF Orderly, Suspended, NoRunAfterAnswer
<1> QED
  BY <1>1, OrderlyInvariance, PTL

\* Every response has a request and every request is answered before the device
\* waits for another APDU, unless it waits for the user on a screen of that very
\* request.
THEOREM ResponsesMatchRequests ==
  ASSUME DisciplinedFlows, CompleteFlows, "stray" \notin Host, "unknown" \notin Host
  PROVE  Spec => []OneResponsePerRequest
<1>1. Init => Current
  BY DEF Init, Current, Suspended
<1>2. IInv /\ Gate /\ ResponseBeforeTermination /\ Current /\ [Next]_vars => Current'
  BY NextCurrent
<1>3. Orderly /\ Current => OneResponsePerRequest
  BY DEF Orderly, Current, OneResponsePerRequest
<1> QED
  BY <1>1, <1>2, <1>3, OrderlyInvariance, PTL DEF Spec
-----------------------------------------------------------------------------
(* The menu.  "Processing..." must not come up at rest: no processing       *)
(* timeout is running there, because the loop clears it, and the reset by   *)
(* the interruption timeout comes only after the processing timeout, which  *)
(* started earlier and is shorter, has elapsed.                             *)

Resting ==
  /\ ctl = "idle" => procAge \notin Nat
  /\ ctl = "wait" /\ procAge \in Nat /\ intAge \in Nat => procAge >= intAge
  /\ screen = "processing" => shown
  /\ ctl = "idle" /\ ~barged => screen # "processing"

\* When a tick ends the client's time and the processing timeout is running, that
\* one elapses with the same tick.
LEMMA TickLemma ==
  ASSUME IInv, Resting, Tick, ProcessingTicks <= InterruptionTicks
  PROVE  /\ ctl' = "idle" => procAge' \notin Nat
         /\ ctl' = "wait" /\ procAge' \in Nat /\ intAge' \in Nat => procAge' >= intAge'
<1> USE TicksAssumption DEF Off, Never, Ages, Elapsed, Due, AfterTick
<1>1. procAge \in Ages /\ intAge \in Ages
  BY DEF IInv, TypeOK
<1>2. CASE ctl = "idle"
  <2>1. procAge \notin Nat
    BY <1>2 DEF Resting
  <2> QED
    BY <1>1, <1>2, <2>1 DEF Tick, IoReset
<1>3. CASE ctl = "wait"
  <2>1. procAge \in Nat /\ intAge \in Nat => procAge >= intAge
    BY <1>3 DEF Resting
  <2>2. CASE Due(intAge, InterruptionTicks)
    <3>1. ctl' = "idle" /\ (procAge \in Nat => Due(procAge, ProcessingTicks))
      BY <2>1, <2>2 DEF Tick, IoReset
    <3> QED
      BY <1>1, <3>1 DEF Tick
  <2>3. CASE ~Due(intAge, InterruptionTicks)
    <3>1. ctl' = "wait" /\ intAge' = Elapsed(intAge)
      BY <1>3, <2>3, SMTT(30) DEF Tick
    <3> QED
      BY <1>1, <2>1, <3>1 DEF Tick
  <2> QED
    BY <2>2, <2>3
<1> QED
  BY <1>2, <1>3 DEF Tick, Exchanging

\* Every step keeps it, on a connection that is not lost with a timeout running.
LEMMA NextResting ==
  ASSUME "stray" \notin Host, "usb" \notin Host, ProcessingTicks <= InterruptionTicks,
         IInv, Gate, ResponseBeforeTermination, Orderly, Resting, [Next]_vars
  PROVE  Resting'
<1> USE DEF control, dstate, timers, ui, history, link, Suspended
<1>a. ctl # "loop" => stack = <<>>
  BY DEF IInv, Nesting
<1>b. Off \notin Nat
  BY DEF Off
<1>1. ASSUME NEW c \in Command, ReceiveCommand(c) PROVE Resting'
  BY <1>1 DEF ReceiveCommand, CallHandler, Resting
<1>2. CASE ReceiveUnknown
  BY <1>2, ZenonT(40) DEF ReceiveUnknown, NoteBarge, Resting
<1>3. ~ReceiveContinue
  BY <1>a DEF ReceiveContinue, MaySendContinue, Gate
<1>4. ~ReceiveContinueBadP1P2
  BY DEF ReceiveContinueBadP1P2
<1>5. CASE ReceiveMalformed
  BY <1>5 DEF ReceiveMalformed, NoteBarge, Resting
<1>6. CASE LoopPaused
  BY <1>6, <1>b, ReturnLemma DEF LoopPaused, Orderly, Resting
<1>7. CASE LoopAnswered
  BY <1>7, <1>b, ReturnLemma DEF LoopAnswered, Terminate, Resting
<1>8. ~LoopSilent
  BY DEF LoopSilent, ResponseBeforeTermination
<1>9. CASE LoopRun
  BY <1>9 DEF LoopRun, StartNext, Resting
<1>10. ASSUME NEW e \in Exits[cur], ctl = "run", End(e) PROVE Resting'
  BY <1>10 DEF End, Resting
<1>11. CASE Ask
  <2>1. procAge' \in Nat /\ intAge' \in Nat => procAge' >= intAge'
    BY <1>11 DEF Ask, AskWith, Started, Never
  <2> QED
    BY <1>11, <2>1 DEF Ask, AskWith, Resting
<1>12. CASE Answer
  BY <1>12 DEF Answer, AnswerWith, Resting
<1>13. CASE AnswerWrong
  BY <1>13 DEF AnswerWrong, Resting
<1>14. ASSUME NEW approved \in BOOLEAN, Press(approved) PROVE Resting'
  BY <1>14 DEF Press, PressWith, Chosen, Resting
<1>15. CASE Tick
  <2>1. ctl = "idle" => ~Due(procAge, ProcessingTicks)
    BY DEF Resting, Due
  <2>2. screen' = "processing" => shown'
    BY <1>15, ZenonT(40) DEF Tick, IoReset, Resting
  <2>3. ctl' = "idle" /\ ~barged' => screen' # "processing"
    BY <1>15, <2>1 DEF Tick, IoReset, Exchanging, Resting
  <2> QED
    BY <1>15, <2>2, <2>3, TickLemma DEF Resting
<1>16. ~UsbPowerLost
  BY DEF UsbPowerLost
<1>17. CASE UNCHANGED vars
  BY <1>17 DEF vars, Resting
<1> QED
  BY <1>1, <1>2, <1>3, <1>4, <1>5, <1>6, <1>7, <1>8, <1>9, <1>10, <1>11, <1>12,
     <1>13, <1>14, <1>15, <1>16, <1>17
     DEF Next, Receive, Loop, Finish, Done

\* Between commands the menu is displayed, for every flow graph and all lengths
\* of the two timeouts of which the processing one is not the longer (io.h: 10 and
\* 50 ticks), as long as the host waits for its responses and the connection holds.
THEOREM MenuAtRest ==
  ASSUME DisciplinedFlows, CompleteFlows, "stray" \notin Host, "usb" \notin Host,
         ProcessingTicks <= InterruptionTicks
  PROVE  Spec => []RestOnMenu
<1>1. Init => Resting
  BY DEF Init, Resting, Off
<1>2. IInv /\ Gate /\ ResponseBeforeTermination /\ Orderly /\ Resting /\ [Next]_vars
      => Resting'
  BY NextResting
<1>3. IInv /\ Orderly /\ Resting => RestOnMenu
  BY DEF IInv, TypeOK, Orderly, Resting, RestOnMenu
<1> QED
  BY <1>1, <1>2, <1>3, OrderlyInvariance, PTL DEF Spec
=============================================================================
