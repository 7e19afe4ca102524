----------------------------- MODULE Dispatcher -----------------------------
(***************************************************************************)
(* The command dispatcher of the app: the APDU loop of app_main, the chain *)
(* of command processors run by dispatcher_loop, the screens that pause it *)
(* until the user answers, the client commands that interrupt a processor  *)
(* in the middle (process_interruption), and the two tick timeouts.        *)
(*                                                                         *)
(* What a processor computes is abstracted to the ways it can end (Exits); *)
(* the module AppFlows gives these for the app's six commands.             *)
(*                                                                         *)
(* Not in the state because the code never uses them: parent contexts      *)
(* (start_flow has no caller, so dispatcher_loop:249-253 is dead) and the  *)
(* negative results of io_exchange (it returns an unsigned short).  A NULL *)
(* machine context is a context without next processor: both make CONTINUE *)
(* fail and the difference is not observable.                              *)
(***************************************************************************)
EXTENDS Integers, Sequences, TickTimeouts

CONSTANTS
  Command,        \* the supported (CLA, INS) pairs
  Processor,      \* the command processors, the handlers included
  Deny,           \* send_deny_sw
  None,           \* a NULL processor
  Handler,        \* [Command -> Processor], the COMMAND_DESCRIPTORS table
  Exits,          \* [Processor -> SUBSET Exit], how a processor may end
  Asking,         \* processors that send client commands
  Tolerant,       \* processors that go on after a failed client command
  Host,           \* what the host may do, a subset of HostKinds
  MaxCommands,    \* bound: APDUs that discard a context, per behaviour
  MaxAsks         \* bound: client commands in one run of a processor

HostKinds == {"stray", "barge", "unknown", "malformed", "usb"}
Status    == {"none", "ok", "error", "interrupted"}

\* next/ask: processor passed to dc->next / to a ui_* function (None if not
\* called); pause: whether dc->pause was called; sw: the final status word sent.
Exit == [next : Processor \cup {None}, ask : Processor \cup {None},
         pause : BOOLEAN, sw : {"none", "ok", "error"}]

ASSUME ProcessorsAssumption ==
  /\ None \notin Processor
  /\ Deny \in Processor
  /\ Handler \in [Command -> Processor]
  /\ Exits \in [Processor -> SUBSET Exit]
  /\ Asking \subseteq Processor /\ Tolerant \subseteq Asking
ASSUME BoundsAssumption ==
  /\ Host \subseteq HostKinds
  /\ MaxCommands \in Nat /\ MaxAsks \in Nat
VARIABLES
  ctl,        \* "idle" in app_main's io_exchange, "loop" in dispatcher_loop,
              \* "run" in a processor, "wait" in process_interruption's io_exchange
  cur,        \* the processor being run, None outside of one
  stack,      \* processors suspended in process_interruption below a nested loop
  failed,     \* process_interruption returned -1 to the running processor
  asked,      \* client commands sent by the running processor
  nextp,      \* machine_context_ptr->next_processor
  paused, sw, hadUx,             \* G_dispatcher_state
  procAge, intAge, shown,        \* io.c: ticks since each start, or Off;
                                 \* G_was_processing_screen_shown
  screen, gNext,                 \* what is displayed; g_next_processor
  host,       \* "free" to send a command, "waiting" for a response, "called"
              \* by a client command it has to answer with CONTINUE
  \* history: the generation of the command, of the screen, of nextp and of cur;
  \* a response nobody waited for; an approval not yet given; a final response
  \* was sent; the host sent a command with a request of its own in progress
  gen, uiGen, nextGen, curGen, unsolicited, unapproved, answered, barged

control == <<ctl, cur, stack, failed, asked>>
dstate  == <<nextp, paused, sw, hadUx>>
timers  == <<procAge, intAge, shown>>
ui      == <<screen, gNext>>
history == <<gen, uiGen, nextGen, curGen, unapproved, answered>>
link    == <<host, unsolicited, barged>>
vars    == <<control, dstate, timers, ui, link, history>>

Init ==
  /\ ctl = "idle" /\ cur = None /\ stack = <<>> /\ failed = FALSE /\ asked = 0
  /\ nextp = None /\ paused = FALSE /\ sw = "none" /\ hadUx = FALSE
  /\ procAge = Off /\ intAge = Off /\ shown = FALSE
  /\ screen = "menu" /\ gNext = None
  /\ host = "free" /\ unsolicited = FALSE /\ barged = FALSE
  /\ gen = 0 /\ uiGen = 0 /\ nextGen = 0 /\ curGen = 0
  /\ unapproved = FALSE /\ answered = FALSE

-----------------------------------------------------------------------------
(* Responses and requests on the transport.                                 *)

\* io_exchange transmits the response: the host that waits for it gets it.
Respond(status) ==
  /\ IF host = "waiting"
     THEN /\ host' = IF status = "interrupted" THEN "called" ELSE "free"
          /\ UNCHANGED unsolicited
     ELSE unsolicited' = TRUE /\ UNCHANGED host
  /\ UNCHANGED barged

\* The host may send a new command: always when free; when it was restarted
\* and does not know of the request in progress ("barge").
MaySendCommand == host = "free" \/ "barge" \in Host
NoteBarge == barged' = (barged \/ host # "free")

\* The host may send CONTINUE: to answer a client command; else only by mistake.
MaySendContinue == host = "called" \/ (host = "free" /\ "stray" \in Host)

\* A request that is answered within the same action: host ends up free.
AnswerAtOnce == host' = "free" /\ UNCHANGED unsolicited

-----------------------------------------------------------------------------
(* app_main and apdu_dispatcher.                                            *)

\* The assignments at the start of apdu_dispatcher.
ResetDispatcherState == paused' = FALSE /\ sw' = "none" /\ hadUx' = FALSE

\* Any APDU but CONTINUE: the context is zeroed, so the previous command of it
\* is discarded.
DiscardContext ==
  /\ gen < MaxCommands
  /\ nextp' = None
  /\ gen' = gen + 1 /\ unapproved' = FALSE /\ answered' = FALSE
  /\ UNCHANGED <<uiGen, nextGen>>

CallHandler(handler) ==
  /\ procAge' \in Started
  /\ ctl' = "run" /\ cur' = handler /\ curGen' = gen + 1
  /\ failed' = FALSE /\ asked' = 0
  /\ host' = "waiting"
  /\ UNCHANGED <<stack, intAge, shown, ui, unsolicited>>

ReceiveCommand(c) ==
  /\ ctl = "idle" /\ MaySendCommand /\ NoteBarge
  /\ ResetDispatcherState /\ DiscardContext
  /\ CallHandler(Handler[c])

ReceiveUnknown ==
  /\ ctl = "idle" /\ MaySendCommand /\ NoteBarge /\ "unknown" \in Host
  /\ ResetDispatcherState /\ DiscardContext
  /\ AnswerAtOnce
  /\ UNCHANGED <<control, timers, ui, curGen>>

ReceiveContinue ==
  /\ ctl = "idle" /\ MaySendContinue
  /\ ResetDispatcherState
  /\ IF nextp = None
     THEN AnswerAtOnce /\ UNCHANGED control
     ELSE /\ ctl' = "loop" /\ host' = "waiting"
          /\ UNCHANGED <<cur, stack, failed, asked, unsolicited>>
  /\ UNCHANGED <<nextp, timers, ui, history, barged>>

\* CONTINUE with nonzero P1 or P2.
ReceiveContinueBadP1P2 ==
  /\ ctl = "idle" /\ host = "free" /\ "stray" \in Host
  /\ ResetDispatcherState
  /\ AnswerAtOnce
  /\ UNCHANGED <<control, nextp, timers, ui, history, barged>>

\* An APDU that apdu_parser refuses: app_main returns and coin_main starts the
\* IO and the menu again; the dispatcher state is kept.
ReceiveMalformed ==
  /\ ctl = "idle" /\ MaySendCommand /\ NoteBarge /\ "malformed" \in Host
  /\ screen' = "menu"
  /\ AnswerAtOnce
  /\ UNCHANGED <<control, dstate, timers, gNext, history>>

-----------------------------------------------------------------------------
(* dispatcher_loop.                                                         *)

\* The loop was called from app_main (or a button seen there), or from a button
\* seen by the io_exchange of a processor waiting below.
ReturnFromLoop ==
  IF stack = <<>>
  THEN ctl' = "idle" /\ cur' = None /\ stack' = <<>>
  ELSE ctl' = "wait" /\ cur' = stack[Len(stack)]
       /\ stack' = SubSeq(stack, 1, Len(stack) - 1)

LoopPaused ==
  /\ ctl = "loop" /\ paused
  /\ procAge' = Off
  /\ ReturnFromLoop
  /\ UNCHANGED <<failed, asked, dstate, intAge, shown, ui, link, history>>

\* Mutant: the screen counts as dirty only after a UX flow.
TerminateAfterUxOnly ==
  /\ screen' = IF hadUx THEN "menu" ELSE screen
  /\ procAge' = Off
  /\ ReturnFromLoop
  /\ UNCHANGED <<failed, asked, dstate, intAge, shown, gNext>>

\* termination_cb is ui_menu_main, called if the screen is dirty.
Terminate ==
  /\ screen' = IF hadUx \/ shown THEN "menu" ELSE screen
  /\ procAge' = Off
  /\ ReturnFromLoop
  /\ UNCHANGED <<failed, asked, dstate, intAge, shown, gNext>>

LoopAnswered ==
  /\ ctl = "loop" /\ ~paused /\ sw # "none"
  /\ Terminate
  /\ UNCHANGED <<link, history>>

\* No processor left and no response sent: io_send_sw(SW_BAD_STATE), which does
\* not set the dispatcher's sw.
SendBadState ==
  /\ Respond("error")
  /\ answered' = TRUE
  /\ UNCHANGED <<gen, uiGen, nextGen, curGen, unapproved>>

\* Mutant: BAD_STATE is sent without looking at sw.
LoopSilentAlways ==
  /\ ctl = "loop" /\ ~paused /\ nextp = None
  /\ SendBadState /\ Terminate

LoopSilent ==
  /\ ctl = "loop" /\ ~paused /\ sw = "none" /\ nextp = None
  /\ SendBadState /\ Terminate

StartNext ==
  /\ ctl' = "run" /\ cur' = nextp /\ nextp' = None /\ curGen' = nextGen
  /\ failed' = FALSE /\ asked' = 0
  /\ UNCHANGED <<stack, paused, sw, hadUx, timers, ui, link,
                 gen, uiGen, nextGen, unapproved, answered>>

\* Mutants: the loop does not look at paused; it does not look at sw.
LoopRunPaused   == ctl = "loop" /\ sw = "none" /\ nextp # None /\ StartNext
LoopRunAnswered == ctl = "loop" /\ ~paused /\ nextp # None /\ StartNext

LoopRun ==
  /\ ctl = "loop" /\ ~paused /\ sw = "none" /\ nextp # None
  /\ StartNext

-----------------------------------------------------------------------------
(* Command processors.                                                      *)

\* After a failed client command only a processor that ignores it can end
\* otherwise than with an error.
ExitsNow == IF failed /\ cur \notin Tolerant
            THEN {e \in Exits[cur] : e.sw = "error"}
            ELSE Exits[cur]

End(e) ==
  /\ ctl = "run" /\ e \in ExitsNow
  /\ ctl' = "loop" /\ cur' = None
  /\ nextp' = IF e.next = None THEN nextp ELSE e.next
  /\ nextGen' = IF e.next = None THEN nextGen ELSE curGen
  /\ paused' = (paused \/ e.pause) /\ hadUx' = (hadUx \/ e.pause)
  /\ IF e.ask = None
     THEN UNCHANGED <<ui, uiGen, unapproved>>
     ELSE /\ screen' = "ask" /\ gNext' = e.ask
          /\ uiGen' = curGen /\ unapproved' = TRUE
  /\ IF e.sw = "none"
     THEN UNCHANGED <<sw, answered, link>>
     ELSE sw' = e.sw /\ answered' = TRUE /\ Respond(e.sw)
  /\ UNCHANGED <<stack, failed, asked, timers, gen, curGen>>

AskWith(status, ages) ==
  /\ ctl = "run" /\ cur \in Asking /\ asked < MaxAsks
  /\ failed => cur \in Tolerant
  /\ ctl' = "wait" /\ asked' = asked + 1
  /\ sw' = status
  /\ intAge' \in ages
  /\ Respond("interrupted")
  /\ UNCHANGED <<cur, stack, failed, nextp, paused, hadUx, procAge, shown, ui,
                 history>>

\* Mutants: sw is cleared before the exchange; the timeout is not started.
AskCleared   == AskWith("none", Started)
AskNoTimeout == AskWith("interrupted", {Off})

\* finalize_response(SW_INTERRUPTED_EXECUTION) and process_interruption up to
\* its io_exchange.
Ask == AskWith("interrupted", Started)

AnswerWith(status) ==
  /\ ctl = "wait" /\ MaySendContinue
  /\ ctl' = "run" /\ failed' = FALSE
  /\ intAge' = Off /\ sw' = status
  /\ host' = "waiting"
  /\ UNCHANGED <<cur, stack, asked, nextp, paused, hadUx, procAge, shown, ui,
                 unsolicited, barged, history>>

\* The rest of process_interruption when the APDU is CONTINUE.
Answer == AnswerWith("none")

\* ... and when it is another APDU or a malformed one: an error is sent.
AnswerWrong ==
  /\ ctl = "wait" /\ "barge" \in Host
  /\ ctl' = "run" /\ failed' = TRUE
  /\ intAge' = Off /\ sw' = "error" /\ answered' = TRUE
  /\ AnswerAtOnce /\ barged' = TRUE
  /\ UNCHANGED <<cur, stack, asked, nextp, paused, hadUx, procAge, shown, ui,
                 gen, uiGen, nextGen, curGen, unapproved>>

-----------------------------------------------------------------------------
(* Events seen by io_event, in either io_exchange.                          *)

Exchanging == ctl \in {"idle", "wait"}

PressWith(approved, next, stillPaused) ==
  /\ Exchanging /\ screen = "ask"
  /\ nextp' = next
  /\ nextGen' = uiGen
  /\ unapproved' = (unapproved /\ ~approved)
  /\ paused' = stillPaused /\ procAge' \in Started
  /\ ctl' = "loop" /\ cur' = None
  /\ stack' = IF ctl = "wait" THEN Append(stack, cur) ELSE stack
  /\ UNCHANGED <<failed, asked, sw, hadUx, intAge, shown, ui, link,
                 gen, uiGen, curGen, answered>>

Chosen(approved) == IF approved THEN gNext ELSE Deny

\* Mutants: run() does not reset paused; a refusal sets no processor.
PressKeepsPaused(approved) == PressWith(approved, Chosen(approved), paused)
PressDenyNone(approved) == PressWith(approved, IF approved THEN gNext ELSE None, FALSE)

\* continue_after_approval: sets the next processor, and run() calls a new
\* dispatcher_loop.
Press(approved) == PressWith(approved, Chosen(approved), FALSE)

\* THROW(EXCEPTION_IO_RESET): coin_main restarts the IO and app_main; neither
\* the timeouts nor the dispatcher state are reset.  The connection drops.
IoReset ==
  /\ ctl' = "idle" /\ cur' = None /\ stack' = <<>>
  /\ screen' = "menu"
  /\ host' = "free"

\* SEPROXYHAL_TAG_TICKER_EVENT.
Tick ==
  /\ Exchanging /\ (procAge \in Nat \/ intAge \in Nat)
  /\ procAge' = AfterTick(procAge, ProcessingTicks)
  /\ intAge' = AfterTick(intAge, InterruptionTicks)
  /\ shown' = (shown \/ Due(procAge, ProcessingTicks))
  /\ IF Due(intAge, InterruptionTicks)
     THEN IoReset
     ELSE /\ screen' = IF Due(procAge, ProcessingTicks) THEN "processing" ELSE screen
          /\ UNCHANGED <<ctl, cur, stack, host>>
  /\ UNCHANGED <<failed, asked, dstate, gNext, unsolicited, barged, history>>

\* SEPROXYHAL_TAG_STATUS_EVENT without USB power, on a USB connection.
UsbPowerLost ==
  /\ Exchanging /\ "usb" \in Host
  /\ IoReset
  /\ UNCHANGED <<failed, asked, dstate, timers, gNext, unsolicited, barged, history>>

-----------------------------------------------------------------------------
Receive == \/ \E c \in Command : ReceiveCommand(c)
           \/ ReceiveUnknown \/ ReceiveContinue
           \/ ReceiveContinueBadP1P2 \/ ReceiveMalformed

Loop == LoopPaused \/ LoopAnswered \/ LoopSilent \/ LoopRun

Finish == ctl = "run" /\ \E e \in Exits[cur] : End(e)

\* MaxCommands is reached and the device is at rest: the behaviour ends here.
Done == gen = MaxCommands /\ ctl = "idle" /\ host = "free" /\ UNCHANGED vars

Next == \/ Receive \/ Loop \/ Finish \/ Ask \/ Answer \/ AnswerWrong
        \/ \E approved \in BOOLEAN : Press(approved)
        \/ Tick \/ UsbPowerLost \/ Done

Spec == Init /\ [][Next]_vars

\* Code runs to the next io_exchange, ticks keep coming even if buttons are pressed
\* between them (the ticker is a hardware event), a screen that asks is
\* eventually answered.  Nothing is assumed of the host.
FairSpec == /\ Spec
            /\ WF_vars(Loop) /\ WF_vars(Finish)
            /\ SF_vars(Tick)
            /\ WF_vars(\E approved \in BOOLEAN : Press(approved))

\* What dispatcher.c:63-64 asks of the processors: every screen that waits for
\* the user pauses the dispatcher.  send_deny_sw answers and does nothing else.
DisciplinedFlows ==
  /\ \A p \in Processor : \A e \in Exits[p] : e.ask # None => e.pause
  /\ \A e \in Exits[Deny] : e.sw # "none"
  /\ Deny \notin Asking

\* What dispatcher.c:259-260 takes for granted: a processor that leaves without
\* a response names the next one or pauses for the user, and one that pauses has
\* shown a screen and not responded.
CompleteFlows ==
  \A p \in Processor : \A e \in Exits[p] :
    /\ e.sw # "none" \/ e.pause \/ e.next # None
    /\ e.pause => e.ask # None /\ e.sw = "none"

-----------------------------------------------------------------------------
TypeOK ==
  /\ ctl \in {"idle", "loop", "run", "wait"}
  /\ cur \in Processor \cup {None} /\ stack \in Seq(Processor)
  /\ ctl \in {"run", "wait"} => cur \in Processor
  /\ failed \in BOOLEAN /\ asked \in 0..MaxAsks
  /\ nextp \in Processor \cup {None} /\ paused \in BOOLEAN
  /\ sw \in Status /\ hadUx \in BOOLEAN
  /\ procAge \in Ages /\ intAge \in Ages /\ shown \in BOOLEAN
  /\ screen \in {"menu", "processing", "ask"} /\ gNext \in Processor \cup {None}
  /\ screen = "ask" => gNext \in Processor
  /\ host \in {"free", "waiting", "called"}
  /\ gen \in 0..MaxCommands /\ uiGen \in 0..MaxCommands
  /\ nextGen \in 0..MaxCommands /\ curGen \in 0..MaxCommands
  /\ unsolicited \in BOOLEAN /\ unapproved \in BOOLEAN /\ answered \in BOOLEAN
  /\ barged \in BOOLEAN

\* At most one processor is ever in progress.  A button pressed while a processor
\* waits in process_interruption calls run() and a second dispatcher_loop on top
\* of it; that loop must leave without starting another processor over the same
\* command state.
NoReentrancy == /\ ctl \in {"run", "wait"} => stack = <<>>
                /\ Len(stack) <= 1

\* While a processor is in process_interruption the dispatcher's sw is the
\* interruption status: it is set before the exchange and cleared after it.
\* This is what keeps the nested loop of NoReentrancy from going on.
WaitIsInterrupted == ctl = "wait" \/ stack # <<>> => sw = "interrupted"

\* The loop never runs out of processors before a response was sent
\* (dispatcher.c:259-260).
ResponseBeforeTermination ==
  ~(ctl = "loop" /\ ~paused /\ sw = "none" /\ nextp = None)

\* Every request gets one response and every response has a request, whatever
\* chain of processors, screens and client commands lies between, for a host that
\* waits for its responses; and a host that waits while the device waits for an
\* APDU is waiting for the user, before a screen that belongs to its command.
OneResponsePerRequest ==
  /\ ~barged => ~unsolicited
  /\ ctl = "idle" /\ host = "waiting" =>
       paused /\ screen = "ask" /\ unapproved /\ uiGen = gen

\* Between commands the menu is displayed: neither a stale approval screen nor
\* "Processing..." is left behind.  (A host that sends an APDU without waiting for
\* the user leaves the screen of its first command.)
RestOnMenu == ctl = "idle" /\ ~paused /\ ~barged => screen = "menu"

\* No processor but the refusal runs between the display of an approval screen
\* and its approval, even if an earlier screen was approved twice.
ApprovalGate == ctl \in {"run", "wait"} /\ cur # Deny => ~unapproved

\* A command superseded by another APDU never runs again: neither through its
\* context nor through a screen of it still on display (dispatcher.c:180-181).
DiscardedNeverResumes == ctl \in {"run", "wait"} => curGen = gen

\* Once the final response of a command was sent no processor of it runs.  (A
\* command sent in place of CONTINUE is answered within a processor, which then
\* still has to end.)
NoRunAfterAnswer == ctl \in {"run", "wait"} /\ ~barged => ~answered

\* Whatever the host does or fails to do, the device comes back to where it
\* accepts a new command: no chain of processors, screens and waits is endless.
AlwaysReady == []<>(ctl = "idle" /\ ~paused)

\* A request is answered, or ended by the reset of a timeout.
RequestsEnd == host = "waiting" ~> host # "waiting"
=============================================================================
