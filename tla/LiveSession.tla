----------------------------- MODULE LiveSession -----------------------------
(***************************************************************************)
(* `gestures --dispatch` (crates/gesture-cli/src/main.rs): the loop that   *)
(* reads a touchpad it may have grabbed, hands what the recognizer says to *)
(* the daemon one event at a time and prints it, until it is told to stop, *)
(* has nothing to read, has delivered enough or fails; and what it does    *)
(* then, in this order: release the grab, cancel the drag, exit.           *)
(*                                                                         *)
(* The recognizer is its specification, DragLifecycle.  Of the daemon only *)
(* what the connection shows is here: it answers lines in order, late or   *)
(* never, well or badly, or it is gone.                                    *)
(***************************************************************************)
EXTENDS Naturals, Sequences

CONSTANTS
    Limits,     \* --limit: events to deliver, 0 for any number
    MaxStreams, \* bound: drags the recognizer begins
    Ids         \* bound: an event id comes back after so many events; at most
                \* two events are on their way at a time

ASSUME LimitAssumption == Limits \subseteq Nat /\ Limits # {}
ASSUME BoundAssumption == MaxStreams \in Nat /\ Ids \in Nat /\ Ids >= 3

VARIABLES
    touching, open, owned, begun, out,  \* the recognizer
    limit,
    count,      \* events delivered, as far as a limit counts them
    phase,      \* "run", "release", "cancel", "cleanup", "exit" or "done"
    step,       \* of a delivery: "wait" for an event, "send", "answer", "print"
    event,      \* the event being delivered
    grabbed,    \* the touchpad's events come here only
    stop,       \* a signal, the parent's exit or the deadline is there
    error,      \* the result of the session will be an error
    connected,  \* external: the daemon has the connection open
    lines,      \* written to the socket, not read by the daemon
    answers,    \* written by the daemon, not read
    processed,  \* history: the line the daemon has processed last
    sent,       \* history: the drag the lines written so far leave open, or 0
    late        \* history: lines written since stop

recognizerVars == <<touching, open, owned, begun, out>>
daemonVars == <<connected, answers, processed>>
vars == <<recognizerVars, limit, count, phase, step, event, grabbed, stop, error,
          connected, lines, answers, processed, sent, late>>

Recognizer == INSTANCE DragLifecycle

Phases == {"run", "release", "cancel", "cleanup", "exit", "done"}

-----------------------------------------------------------------------------
(***************************************************************************)
(* Around the session.                                                     *)
(***************************************************************************)
\* ShutdownMonitor: SIGINT, SIGTERM, SIGHUP, another parent, or the deadline.
Told ==
    /\ ~stop
    /\ stop' = TRUE
    /\ UNCHANGED <<recognizerVars, limit, count, phase, step, event, grabbed, error,
                   lines, daemonVars, sent, late>>

\* The daemon processes a line and answers.
Answer ==
    /\ connected
    /\ lines # <<>>
    /\ \E ok \in BOOLEAN :
          /\ processed' = [id |-> Head(lines).id, ok |-> ok]
          /\ answers' = Append(answers, processed')
    /\ lines' = Tail(lines)
    /\ UNCHANGED <<recognizerVars, limit, count, phase, step, event, grabbed, stop, error,
                   connected, sent, late>>

DaemonGoes ==
    /\ connected
    /\ phase # "done"
    /\ connected' = FALSE
    /\ lines' = <<>>
    /\ UNCHANGED <<recognizerVars, limit, count, phase, step, event, grabbed, stop, error,
                   answers, processed, sent, late>>

-----------------------------------------------------------------------------
(***************************************************************************)
(* The read loop of gestures.                                              *)
(***************************************************************************)
At(p, s) == phase = p /\ step = s

\* The event the recognizer has answered with, under an id of its own.
Take ==
    IF out' = <<>> THEN UNCHANGED <<step, event>>
    ELSE /\ step' = "send"
         /\ event' = [kind |-> out'[1].kind, stream |-> out'[1].stream,
                      id |-> (event.id + 1) % Ids]

\* Mutant of ReadFrame: the select is not biased.
ReadFrameUnbiased ==
    /\ At("run", "wait")
    /\ Recognizer!Land \/ Recognizer!Stay \/ Recognizer!Leave
    /\ begun' <= MaxStreams
    /\ Take
    /\ UNCHANGED <<limit, count, phase, grabbed, stop, error, lines, daemonVars, sent, late>>

\* next_raw_event returns the end of a frame: its select prefers a reason to
\* stop.  The recognizer answers with at most one event.
ReadFrame ==
    /\ At("run", "wait")
    /\ ~stop
    /\ Recognizer!Land \/ Recognizer!Stay \/ Recognizer!Leave
    /\ begun' <= MaxStreams
    /\ Take
    /\ UNCHANGED <<limit, count, phase, grabbed, stop, error, lines, daemonVars, sent, late>>

\* A reason to stop, or nothing was read for --idle-timeout.
LeaveLoop ==
    /\ At("run", "wait")
    /\ phase' = "release"
    /\ UNCHANGED <<recognizerVars, limit, count, step, event, grabbed, stop, error,
                   lines, daemonVars, sent, late>>

\* A delivery, or reading the device, fails.
Fails ==
    /\ error' = TRUE
    /\ phase' = IF phase = "run" THEN "release" ELSE "exit"
    /\ step' = "wait"
    /\ UNCHANGED <<recognizerVars, limit, count, event, grabbed, stop,
                   lines, daemonVars, sent, late>>

ReadFails == At("run", "wait") /\ ~stop /\ Fails

-----------------------------------------------------------------------------
(***************************************************************************)
(* deliver_gesture: DispatchClient::send, then print_gesture.              *)
(***************************************************************************)
Delivering == phase \in {"run", "cleanup"}

\* The drag that is open after event e of the lines.
OpenAfter(e) ==
    CASE e.kind = "begin" -> e.stream
      [] e.kind \in {"end", "cancel"} -> 0
      [] OTHER -> sent

Send ==
    /\ Delivering /\ step = "send"
    /\ connected
    /\ lines' = Append(lines, event)
    /\ sent' = OpenAfter(event)
    /\ late' = IF stop /\ late < 2 THEN late + 1 ELSE late
    /\ step' = "answer"
    /\ UNCHANGED <<recognizerVars, limit, count, phase, event, grabbed, stop, error, daemonVars>>

SendFails == Delivering /\ step = "send" /\ ~connected /\ Fails

\* Mutant of Valid: any report is about the event.
ValidForAnyEvent(answer) == answer.ok

\* validate_dispatch_report, once the answer is a report at all.
Valid(answer) == answer.id = event.id /\ answer.ok

ReadAnswer ==
    /\ Delivering /\ step = "answer"
    /\ answers # <<>>
    /\ answers' = Tail(answers)
    /\ IF Valid(Head(answers))
       THEN step' = "print" /\ UNCHANGED <<phase, error>>
       ELSE /\ error' = TRUE
            /\ phase' = IF phase = "run" THEN "release" ELSE "exit"
            /\ step' = "wait"
    /\ UNCHANGED <<recognizerVars, limit, count, event, grabbed, stop,
                   connected, lines, processed, sent, late>>

\* The daemon closed the socket without an answer.
AnswerMissing ==
    /\ Delivering /\ step = "answer"
    /\ answers = <<>>
    /\ ~connected
    /\ Fails

\* Mutant of TimeOut: the cleanup waits for its answer as long as it takes.
TimeOutRunning == At("run", "answer") /\ Fails

\* DISPATCH_TIMEOUT.  The line has been written and an answer may still come.
TimeOut == Delivering /\ step = "answer" /\ Fails

PrintGesture ==
    /\ Delivering /\ step = "print"
    /\ step' = "wait"
    /\ count' = IF phase = "run" /\ limit > 0 THEN count + 1 ELSE count
    /\ phase' = IF phase = "cleanup" THEN "exit"
                ELSE IF limit > 0 /\ count' >= limit THEN "release" ELSE phase
    /\ UNCHANGED <<recognizerVars, limit, event, grabbed, stop, error,
                   lines, daemonVars, sent, late>>

\* println! panics on a closed pipe; unwinding drops the observer, which
\* releases the grab, and the connection.
PrintPanics ==
    /\ Delivering /\ step = "print"
    /\ phase' = "done"
    /\ step' = "wait"
    /\ error' = TRUE
    /\ grabbed' = FALSE
    /\ UNCHANGED <<recognizerVars, limit, count, event, stop, lines, daemonVars, sent, late>>

-----------------------------------------------------------------------------
(***************************************************************************)
(* The way out.                                                            *)
(***************************************************************************)
\* Mutant of ReleaseGrab: it is left to Drop.
ReleaseOnDrop ==
    /\ phase = "release"
    /\ phase' = "cancel"
    /\ UNCHANGED <<recognizerVars, limit, count, step, event, grabbed, stop, error,
                   lines, daemonVars, sent, late>>

\* release_grab; if that fails the session goes on with an error.
ReleaseGrab ==
    /\ phase = "release"
    /\ phase' = "cancel"
    /\ \/ grabbed' = FALSE /\ UNCHANGED error
       \/ grabbed /\ error' = TRUE /\ UNCHANGED grabbed
    /\ UNCHANGED <<recognizerVars, limit, count, step, event, stop,
                   lines, daemonVars, sent, late>>

\* Mutant of CancelDrag: an event that was not acknowledged is sent again.
CancelOrRetry ==
    /\ phase = "cancel"
    /\ Recognizer!Abandon
    /\ IF error /\ event.stream # 0
       THEN step' = "send" /\ event' = [event EXCEPT !.id = (@ + 1) % Ids]
       ELSE Take
    /\ phase' = IF step' = "send" THEN "cleanup" ELSE "exit"
    /\ UNCHANGED <<limit, count, grabbed, stop, error, lines, daemonVars, sent, late>>

\* Mutant of CancelDrag: only a failed session has something to clean up.
CancelAfterError ==
    /\ phase = "cancel"
    /\ Recognizer!Abandon
    /\ IF error THEN Take ELSE UNCHANGED <<step, event>>
    /\ phase' = IF step' = "send" THEN "cleanup" ELSE "exit"
    /\ UNCHANGED <<limit, count, grabbed, stop, error, lines, daemonVars, sent, late>>

\* recognizer.cancel(), to be delivered as any event is.
CancelDrag ==
    /\ phase = "cancel"
    /\ Recognizer!Abandon
    /\ Take
    /\ phase' = IF out' = <<>> THEN "exit" ELSE "cleanup"
    /\ UNCHANGED <<limit, count, grabbed, stop, error, lines, daemonVars, sent, late>>

\* The results are combined; Drop releases a grab that is left.
Exit ==
    /\ phase = "exit"
    /\ phase' = "done"
    /\ grabbed' = FALSE
    /\ UNCHANGED <<recognizerVars, limit, count, step, event, stop, error,
                   lines, daemonVars, sent, late>>

Init ==
    /\ Recognizer!Init
    /\ limit \in Limits
    /\ count = 0
    /\ phase = "run"
    /\ step = "wait"
    /\ event = [kind |-> "none", stream |-> 0, id |-> 0]
    /\ grabbed \in BOOLEAN
    /\ stop = FALSE
    /\ error = FALSE
    /\ connected = TRUE
    /\ lines = <<>>
    /\ answers = <<>>
    /\ processed = [id |-> 0, ok |-> TRUE]
    /\ sent = 0
    /\ late = 0

\* What the session does without input.
Session ==
    \/ stop /\ LeaveLoop
    \/ Send \/ SendFails \/ ReadAnswer \/ AnswerMissing \/ TimeOut \/ PrintGesture
    \/ ReleaseGrab \/ CancelDrag \/ Exit

Next ==
    \/ Told \/ Answer \/ DaemonGoes
    \/ ReadFrame \/ LeaveLoop \/ ReadFails \/ PrintPanics
    \/ Session

\* The runtime polls the session, and time passes: a dispatch that gets no
\* answer is timed out.  What is printed is read.  Nothing makes fingers move,
\* the daemon answer or anyone stop the session.
Spec == Init /\ [][Next]_vars /\ WF_vars(Session)

-----------------------------------------------------------------------------
(***************************************************************************)
(* Properties.                                                             *)
(***************************************************************************)
\* The session's variables are well formed; the drag is cancelled after the
\* grab is released, unless the kernel refused that; and at most two lines are
\* unanswered, the second only once the answer to the first was given up.
TypeOK ==
    /\ phase \in Phases
    /\ step \in {"wait", "send", "answer", "print"}
    /\ step # "wait" => Delivering
    /\ limit > 0 => count <= limit
    /\ grabbed /\ phase \notin {"run", "release"} => error
    /\ Len(lines) + Len(answers) <= (IF error THEN 2 ELSE 1)

\* The lines that reach the daemon are drag lifecycles, one after the other,
\* also when a line in the middle of one times out or is refused, when the
\* limit cuts one short and when the session is stopped in one.
LinesFormLifecycles ==
    [][Len(lines') > Len(lines) =>
          IF event.kind \in {"update", "end", "cancel"}
          THEN sent = event.stream ELSE sent = 0]_vars

\* An event counts as delivered only when the daemon has processed that very
\* event, successfully: an answer that is late and found by the cleanup is not
\* taken for the answer to the cancel.
AcksAreEarned ==
    [][step = "answer" /\ step' = "print" =>
          lines = <<>> /\ processed = [id |-> event.id, ok |-> TRUE]]_vars

\* A session that ends well leaves nothing to the daemon's disconnect cleanup:
\* no drag is open, no line unprocessed, no answer unread.
SuccessClosesDrags ==
    phase = "done" /\ ~error => sent = 0 /\ lines = <<>> /\ answers = <<>> /\ processed.ok

\* Once told to stop, the loop sends at most the event it already has, however
\* many more the touchpad has.
StopsPromptly == phase = "run" => late <= 1

\* Once told to stop, the session ends and the touchpad is the desktop's
\* again, also while fingers keep moving and whatever the daemon does.
StopEndsSession == stop ~> (phase = "done" /\ ~grabbed)
=============================================================================
