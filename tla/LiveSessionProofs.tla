-------------------------- MODULE LiveSessionProofs --------------------------
(***************************************************************************)
(* Every safety property of the live session, for any limit, any number of *)
(* drags and any number of event ids.                                      *)
(*                                                                         *)
(* One invariant carries them all.  Drags says that the lines written so   *)
(* far leave open what the recognizer believes to be open, up to the event *)
(* on its way: that is why what it says next continues them.  Amounts and  *)
(* Identities say how many lines can be unanswered and that an answer to   *)
(* the event on its way is the last one the daemon will give: without them *)
(* a late answer could be taken for that of the cancel.                    *)
(***************************************************************************)
EXTENDS LiveSession, TLAPS

Kinds == {"none", "begin", "update", "end", "cancel", "swipe", "hold"}
Message == [kind : Kinds, stream : Nat, id : 0 .. Ids - 1]
Reply == [id : 0 .. Ids - 1, ok : BOOLEAN]

Types ==
    /\ open \in Nat /\ begun \in Nat /\ sent \in Nat
    /\ limit \in Nat /\ count \in Nat /\ late \in 0 .. 2
    /\ phase \in Phases
    /\ step \in {"wait", "send", "answer", "print"}
    /\ event \in Message
    /\ processed \in Reply
    /\ lines \in Seq(Message)
    /\ answers \in Seq(Reply)

\* Where the session can be with an error, a grab, a limit reached.
Course ==
    /\ step # "wait" => Delivering
    /\ phase = "run" => ~error
    /\ limit > 0 => count <= limit
    /\ limit > 0 /\ phase = "run" => count < limit
    /\ grabbed /\ phase \notin {"run", "release"} => error

\* A line written after the stop is the one that was on its way.
Stopping ==
    /\ ~stop => late = 0
    /\ phase = "run" => late <= 1
    /\ phase = "run" /\ step = "send" => late = 0

\* What event e may follow in the lines.
Follows(e) == sent = IF e.kind \in {"update", "end", "cancel"} THEN e.stream ELSE 0

\* The lines leave the recognizer's drag open, up to the event on its way,
\* unless that can no longer be sent.
Drags ==
    /\ (connected \/ ~error) /\ step # "send" => sent = open
    /\ (connected \/ ~error) /\ step = "send" => Follows(event) /\ OpenAfter(event) = open
    /\ phase \in {"cleanup", "exit", "done"} /\ ~error => open = 0

\* How much can be unanswered, and of which events.
Before == phase \in {"run", "release", "cancel"}

Amounts ==
    /\ ~error /\ step # "answer" => lines = <<>> /\ answers = <<>> /\ processed.ok
    /\ Len(lines) + Len(answers) <= (IF error THEN 2 ELSE 1)
    /\ Before \/ step = "send" => Len(lines) + Len(answers) <= 1

Identities ==
    /\ Before => /\ \A i \in DOMAIN lines : lines[i].id = event.id
                 /\ \A i \in DOMAIN answers : answers[i].id = event.id
    /\ step = "send" => /\ \A i \in DOMAIN lines : lines[i].id # event.id
                        /\ \A i \in DOMAIN answers : answers[i].id # event.id
    /\ step = "answer" =>
         /\ \A i \in DOMAIN lines : lines[i].id = event.id => i = Len(lines)
         /\ \A i \in DOMAIN answers :
               answers[i].id = event.id =>
                  i = Len(answers) /\ answers[i] = processed /\ lines = <<>>

IInv == Types /\ Course /\ Stopping /\ Drags /\ Amounts /\ Identities

-----------------------------------------------------------------------------
LEMMA InvInit == Init => IInv
<1> SUFFICES ASSUME Init PROVE IInv
  OBVIOUS
<1>1. open = 0 /\ begun = 0
  BY DEF Init, Recognizer!Init
<1>2. Types
  BY <1>1, LimitAssumption, BoundAssumption
  DEF Init, Types, Phases, Message, Reply, Kinds
<1> QED
  BY <1>1, <1>2, LimitAssumption
  DEF Init, IInv, Course, Stopping, Drags, Amounts, Identities, Before

\* What the recognizer says fits what it said before: the answer to a call
\* continues, ends or begins its drag, and silence leaves it alone.
Said(kind, stream) ==
    /\ open = IF kind \in {"update", "end", "cancel"} THEN stream ELSE 0
    /\ open' = CASE kind = "begin" -> stream
                 [] kind \in {"end", "cancel"} -> 0
                 [] OTHER -> open

LEMMA RecognizerSays ==
    ASSUME Types, Recognizer!Land \/ Recognizer!Stay \/ Recognizer!Leave \/ Recognizer!Abandon
    PROVE  /\ open' \in Nat /\ begun' \in Nat
           /\ \/ out' = <<>> /\ open' = open
              \/ \E kind \in Kinds, stream \in Nat :
                    out' = <<[kind |-> kind, stream |-> stream]>> /\ Said(kind, stream)
<1> USE DEF Types, Recognizer!Silence, Recognizer!One, Kinds, Said
<1>1. CASE Recognizer!Land
  BY <1>1 DEF Recognizer!Land
<1>2. CASE Recognizer!Stay
  BY <1>2 DEF Recognizer!Stay
<1>3. CASE Recognizer!Leave
  BY <1>3 DEF Recognizer!Leave
<1>4. CASE Recognizer!Abandon
  BY <1>4 DEF Recognizer!Abandon
<1> QED
  BY <1>1, <1>2, <1>3, <1>4

\* The event that is taken for delivery may follow what the lines say, and is
\* not the one before.
LEMMA TakeFollows ==
    ASSUME Types, Take,
           Recognizer!Land \/ Recognizer!Stay \/ Recognizer!Leave \/ Recognizer!Abandon
    PROVE  /\ open' \in Nat /\ begun' \in Nat
           /\ \/ out' = <<>> /\ open' = open /\ step' = step /\ event' = event
              \/ /\ out' # <<>> /\ step' = "send"
                 /\ event' \in Message /\ event'.id # event.id
                 /\ sent = open => Follows(event') /\ OpenAfter(event') = open'
<1>1. CASE out' = <<>>
  BY <1>1, RecognizerSays DEF Take
<1>2. CASE out' # <<>>
  <2>1. PICK kind \in Kinds, stream \in Nat :
          out' = <<[kind |-> kind, stream |-> stream]>> /\ Said(kind, stream)
    BY <1>2, RecognizerSays
  <2>2. event' = [kind |-> kind, stream |-> stream, id |-> (event.id + 1) % Ids]
    BY <1>2, <2>1 DEF Take
  <2>3. event.id \in 0 .. Ids - 1 /\ Ids \in Nat /\ Ids >= 3
    BY BoundAssumption DEF Types, Message
  <2>4. (event.id + 1) % Ids \in 0 .. Ids - 1 /\ (event.id + 1) % Ids # event.id
    <3>1. CASE event.id + 1 < Ids
      <4>1. (event.id + 1) % Ids = event.id + 1
        BY <2>3, <3>1
      <4> QED
        BY <2>3, <3>1, <4>1
    <3>2. CASE event.id + 1 = Ids
      <4>1. (event.id + 1) % Ids = 0
        BY <2>3, <3>2
      <4> QED
        BY <2>3, <3>2, <4>1
    <3> QED
      BY <2>3, <3>1, <3>2
  <2>5. event' \in Message /\ event'.id # event.id
    BY <2>2, <2>4 DEF Message
  <2>6. sent = open => Follows(event') /\ OpenAfter(event') = open'
    BY <2>1, <2>2 DEF Said, Follows, OpenAfter
  <2>7. step' = "send"
    BY <1>2 DEF Take
  <2> QED
    BY <1>2, <2>5, <2>6, <2>7, RecognizerSays
<1> QED
  BY <1>1, <1>2

\* One lemma per action, one step per part of the invariant.
LEMMA ToldStep ==
    ASSUME IInv, Told
    PROVE  IInv'
<1> USE DEF Told, IInv, At, Delivering, recognizerVars, daemonVars, Before
<1>1. Types'
  BY DEF Types, Phases
<1>2. Course'
  BY DEF Course
<1>3. Stopping'
  BY DEF Stopping
<1>4. Drags'
  BY DEF Drags, Follows, OpenAfter
<1>5. Amounts'
  BY DEF Types, Amounts
<1>6. Identities'
  BY DEF Types, Amounts, Identities
<1> QED
  BY <1>1, <1>2, <1>3, <1>4, <1>5, <1>6

LEMMA AnswerStep ==
    ASSUME IInv, Answer
    PROVE  IInv'
<1> USE DEF Answer, IInv, At, Delivering, recognizerVars, daemonVars, Before
<1>1. Types'
  <2>1. PICK ok \in BOOLEAN : processed' = [id |-> Head(lines).id, ok |-> ok]
    OBVIOUS
  <2>2. Head(lines) \in Message /\ Tail(lines) \in Seq(Message)
    BY DEF Types
  <2>3. processed' \in Reply
    BY <2>1, <2>2 DEF Message, Reply
  <2>4. answers' \in Seq(Reply)
    BY <2>3 DEF Types
  <2> QED
    BY <2>2, <2>3, <2>4 DEF Types
<1>2. Course'
  BY DEF Course
<1>3. Stopping'
  BY DEF Stopping
<1>4. Drags'
  BY DEF Drags, Follows, OpenAfter
<1>5. Amounts'
  BY DEF Types, Amounts
<1>6. Identities'
  BY DEF Types, Amounts, Identities
<1> QED
  BY <1>1, <1>2, <1>3, <1>4, <1>5, <1>6

LEMMA DaemonGoesStep ==
    ASSUME IInv, DaemonGoes
    PROVE  IInv'
<1> USE DEF DaemonGoes, IInv, At, Delivering, recognizerVars, daemonVars, Before
<1>1. Types'
  BY DEF Types, Phases
<1>2. Course'
  BY DEF Course
<1>3. Stopping'
  BY DEF Stopping
<1>4. Drags'
  BY DEF Drags, Follows, OpenAfter
<1>5. Amounts'
  BY DEF Types, Amounts
<1>6. Identities'
  BY DEF Types, Amounts, Identities
<1> QED
  BY <1>1, <1>2, <1>3, <1>4, <1>5, <1>6

LEMMA ReadFrameStep ==
    ASSUME IInv, ReadFrame
    PROVE  IInv'
<1> USE DEF ReadFrame, IInv, At, Delivering, recognizerVars, daemonVars, Before
<1>1. Types'
  BY TakeFollows DEF Types, Phases
<1>2. Course'
  BY TakeFollows DEF Course
<1>3. Stopping'
  BY TakeFollows DEF Stopping
<1>4. Drags'
  BY TakeFollows DEF Drags, Follows, OpenAfter
<1>5. Amounts'
  BY TakeFollows DEF Types, Amounts
<1>6. Identities'
  <2>1. lines = <<>> /\ answers = <<>>
    BY DEF Course, Amounts
  <2> QED
    BY <2>1 DEF Identities
<1> QED
  BY <1>1, <1>2, <1>3, <1>4, <1>5, <1>6

LEMMA LeaveLoopStep ==
    ASSUME IInv, LeaveLoop
    PROVE  IInv'
<1> USE DEF LeaveLoop, IInv, At, Delivering, recognizerVars, daemonVars, Before
<1>1. Types'
  BY DEF Types, Phases
<1>2. Course'
  BY DEF Course
<1>3. Stopping'
  BY DEF Stopping
<1>4. Drags'
  BY DEF Drags, Follows, OpenAfter
<1>5. Amounts'
  BY DEF Types, Amounts
<1>6. Identities'
  BY DEF Types, Amounts, Identities
<1> QED
  BY <1>1, <1>2, <1>3, <1>4, <1>5, <1>6

LEMMA FailsStep ==
    ASSUME IInv, Fails, At("run", "wait") \/ (Delivering /\ step # "print"), step = "send" => ~connected
    PROVE  IInv'
<1> USE DEF Fails, IInv, At, Delivering, recognizerVars, daemonVars, Before
<1>1. Types'
  BY DEF Types, Phases
<1>2. Course'
  BY DEF Course
<1>3. Stopping'
  BY DEF Stopping
<1>4. Drags'
  BY DEF Drags, Follows, OpenAfter
<1>5. Amounts'
  BY DEF Types, Amounts
<1>6. Identities'
  BY DEF Types, Amounts, Identities
<1> QED
  BY <1>1, <1>2, <1>3, <1>4, <1>5, <1>6

LEMMA SendStep ==
    ASSUME IInv, Send
    PROVE  IInv'
<1> USE DEF Send, IInv, At, Delivering, recognizerVars, daemonVars, Before
<1>1. Types'
  <2>1. event \in Message /\ event.stream \in Nat
    BY DEF Types, Message
  <2>2. lines' \in Seq(Message) /\ sent' \in Nat
    BY <2>1 DEF Types, OpenAfter
  <2>3. late' \in 0 .. 2
    BY DEF Types
  <2> QED
    BY <2>2, <2>3 DEF Types
<1>2. Course'
  BY DEF Course
<1>3. Stopping'
  BY DEF Stopping
<1>4. Drags'
  BY DEF Drags, Follows, OpenAfter
<1>5. Amounts'
  <2>1. Len(lines') = Len(lines) + 1 /\ Len(lines) \in Nat /\ Len(answers) \in Nat
    BY DEF Types
  <2>2. Len(lines) + Len(answers) <= (IF error THEN 1 ELSE 0)
    <3>1. CASE error
      BY <3>1 DEF Amounts
    <3>2. CASE ~error
      BY <3>2 DEF Amounts
    <3> QED
      BY <3>1, <3>2
  <2> QED
    BY <2>1, <2>2 DEF Course, Amounts
<1>6. Identities'
  BY DEF Types, Amounts, Identities
<1> QED
  BY <1>1, <1>2, <1>3, <1>4, <1>5, <1>6

LEMMA ReadAnswerStep ==
    ASSUME IInv, ReadAnswer
    PROVE  IInv'
<1> USE DEF ReadAnswer, IInv, At, Delivering, recognizerVars, daemonVars, Before
<1>1. Types'
  BY DEF Types, Phases
<1>2. Course'
  BY DEF Course
<1>3. Stopping'
  BY DEF Stopping
<1>4. Drags'
  BY DEF Drags, Follows, OpenAfter
<1>5. Amounts'
  <2>1. /\ Len(answers') = Len(answers) - 1
        /\ Len(lines) \in Nat /\ Len(answers) \in Nat /\ Len(answers) > 0
    BY DEF Types
  <2>2. ~error => lines = <<>> /\ Len(answers) = 1
    BY <2>1 DEF Types, Amounts
  <2>3. ~error => answers' = <<>>
    BY <2>1, <2>2 DEF Types
  <2>4. ~error' => Valid(answers[1]) /\ answers[1] = processed
    BY <2>2 DEF Valid, Identities
  <2> QED
    BY <2>1, <2>2, <2>3, <2>4 DEF Amounts, Valid
<1>6. Identities'
  BY DEF Types, Amounts, Identities
<1> QED
  BY <1>1, <1>2, <1>3, <1>4, <1>5, <1>6

LEMMA PrintStep ==
    ASSUME IInv, PrintGesture
    PROVE  IInv'
<1> USE DEF PrintGesture, IInv, At, Delivering, recognizerVars, daemonVars, Before
<1>1. Types'
  BY DEF Types, Phases
<1>2. Course'
  BY DEF Types, Course
<1>3. Stopping'
  BY DEF Stopping
<1>4. Drags'
  BY DEF Drags, Follows, OpenAfter
<1>5. Amounts'
  BY DEF Types, Amounts
<1>6. Identities'
  BY DEF Types, Amounts, Identities
<1> QED
  BY <1>1, <1>2, <1>3, <1>4, <1>5, <1>6

LEMMA PrintPanicsStep ==
    ASSUME IInv, PrintPanics
    PROVE  IInv'
<1> USE DEF PrintPanics, IInv, At, Delivering, recognizerVars, daemonVars, Before
<1>1. Types'
  BY DEF Types, Phases
<1>2. Course'
  BY DEF Course
<1>3. Stopping'
  BY DEF Stopping
<1>4. Drags'
  BY DEF Drags, Follows, OpenAfter
<1>5. Amounts'
  BY DEF Types, Amounts
<1>6. Identities'
  BY DEF Types, Amounts, Identities
<1> QED
  BY <1>1, <1>2, <1>3, <1>4, <1>5, <1>6

LEMMA ReleaseGrabStep ==
    ASSUME IInv, ReleaseGrab
    PROVE  IInv'
<1> USE DEF ReleaseGrab, IInv, At, Delivering, recognizerVars, daemonVars, Before
<1>1. Types'
  BY DEF Types, Phases
<1>2. Course'
  BY DEF Course
<1>3. Stopping'
  BY DEF Stopping
<1>4. Drags'
  BY DEF Drags, Follows, OpenAfter
<1>5. Amounts'
  BY DEF Types, Amounts
<1>6. Identities'
  BY DEF Types, Amounts, Identities
<1> QED
  BY <1>1, <1>2, <1>3, <1>4, <1>5, <1>6

LEMMA CancelDragStep ==
    ASSUME IInv, CancelDrag
    PROVE  IInv'
<1> USE DEF CancelDrag, IInv, At, Delivering, recognizerVars, daemonVars, Before
<1>1. Types'
  BY TakeFollows DEF Types, Phases
<1>2. Course'
  BY TakeFollows DEF Course
<1>3. Stopping'
  BY TakeFollows DEF Stopping
<1>4. Drags'
  <2>1. CASE out' = <<>>
    BY <2>1, TakeFollows DEF Course, Drags, Recognizer!Abandon
  <2>2. CASE out' # <<>>
    BY <2>2, TakeFollows
    DEF Course, Drags, Follows, OpenAfter, Recognizer!Abandon
  <2> QED
    BY <2>1, <2>2
<1>5. Amounts'
  <2>1. step' # "answer"
    BY TakeFollows DEF Course
  <2> QED
    BY <2>1, TakeFollows DEF Types, Course, Amounts
<1>6. Identities'
  BY TakeFollows DEF Types, Amounts, Identities
<1> QED
  BY <1>1, <1>2, <1>3, <1>4, <1>5, <1>6

LEMMA ExitStep ==
    ASSUME IInv, Exit
    PROVE  IInv'
<1> USE DEF Exit, IInv, At, Delivering, recognizerVars, daemonVars, Before
<1>1. Types'
  BY DEF Types, Phases
<1>2. Course'
  BY DEF Course
<1>3. Stopping'
  BY DEF Stopping
<1>4. Drags'
  BY DEF Drags, Follows, OpenAfter
<1>5. Amounts'
  BY DEF Types, Amounts
<1>6. Identities'
  BY DEF Types, Amounts, Identities
<1> QED
  BY <1>1, <1>2, <1>3, <1>4, <1>5, <1>6

-----------------------------------------------------------------------------
\* What may fail: a reading, a write to a socket that is closed, an answer
\* that does not come.
LEMMA FailureStep ==
    ASSUME IInv, ReadFails \/ SendFails \/ AnswerMissing \/ TimeOut
    PROVE  IInv'
<1>1. Fails /\ (At("run", "wait") \/ (Delivering /\ step # "print"))
  BY DEF ReadFails, SendFails, AnswerMissing, TimeOut, At
<1>2. step = "send" => ~connected
  BY DEF ReadFails, SendFails, AnswerMissing, TimeOut, At
<1> QED
  BY <1>1, <1>2, FailsStep

LEMMA InvStep == IInv /\ [Next]_vars => IInv'
<1> SUFFICES ASSUME IInv, [Next]_vars PROVE IInv'
  OBVIOUS
<1>1. CASE UNCHANGED vars
  BY <1>1
  DEF vars, recognizerVars, IInv, Types, Course, Stopping, Drags, Amounts,
      Identities, Before, Delivering, Follows, OpenAfter
<1>2. CASE Told \/ Answer \/ DaemonGoes
  BY <1>2, ToldStep, AnswerStep, DaemonGoesStep
<1>3. CASE ReadFrame \/ LeaveLoop \/ ReadFails \/ PrintPanics
  BY <1>3, ReadFrameStep, LeaveLoopStep, FailureStep, PrintPanicsStep
<1>4. CASE Session
  BY <1>4, LeaveLoopStep, SendStep, FailureStep, ReadAnswerStep, PrintStep,
     ReleaseGrabStep, CancelDragStep, ExitStep
  DEF Session
<1> QED
  BY <1>1, <1>2, <1>3, <1>4 DEF Next

LEMMA InvAlways == Spec => []IInv
  BY InvInit, InvStep, PTL DEF Spec

-----------------------------------------------------------------------------
\* The session is well formed; the grab is gone before the drag is cancelled,
\* and at most two lines are unanswered.
THEOREM SessionTypeCorrect == Spec => []TypeOK
<1>1. IInv => TypeOK
  BY DEF IInv, Types, Course, Amounts, TypeOK
<1> QED
  BY <1>1, InvAlways, PTL

\* After a signal the loop of gestures writes at most one more line.
THEOREM SessionStopsPromptly == Spec => []StopsPromptly
<1>1. IInv => StopsPromptly
  BY DEF IInv, Stopping, StopsPromptly
<1> QED
  BY <1>1, InvAlways, PTL

\* A session that ends without an error has closed its drag itself.
THEOREM SuccessIsClean == Spec => []SuccessClosesDrags
<1>1. IInv => SuccessClosesDrags
  BY DEF IInv, Course, Drags, Amounts, Delivering, SuccessClosesDrags
<1> QED
  BY <1>1, InvAlways, PTL

\* A line is only ever written by Send, for the event being delivered.
LEMMA LinesGrowBySend ==
    ASSUME IInv, [Next]_vars, Len(lines') > Len(lines)
    PROVE  Send
<1>1. lines \in Seq(Message) /\ Len(lines) \in Nat
  BY DEF IInv, Types
<1>2. ~Answer /\ ~DaemonGoes /\ lines' # lines
  BY <1>1 DEF Answer, DaemonGoes
<1> QED
  BY <1>2
  DEF vars, Next, Session, Told, ReadFrame, LeaveLoop, ReadFails, Fails,
      PrintPanics, SendFails, ReadAnswer, AnswerMissing, TimeOut, PrintGesture,
      ReleaseGrab, CancelDrag, Exit

\* Whatever fails and whenever it is stopped, a session writes lifecycles.
THEOREM SessionWritesLifecycles == Spec => LinesFormLifecycles
<1>1. ASSUME IInv, [Next]_vars, Len(lines') > Len(lines)
      PROVE  IF event.kind \in {"update", "end", "cancel"}
             THEN sent = event.stream ELSE sent = 0
  <2>1. Send
    BY <1>1, LinesGrowBySend
  <2> QED
    BY <1>1, <2>1 DEF Send, IInv, Drags, Follows
<1> QED
  BY <1>1, InvAlways, PTL DEF Spec, LinesFormLifecycles

\* An event counts as delivered only if the daemon says so of that event.
THEOREM SessionEarnsAcks == Spec => AcksAreEarned
<1>1. ASSUME IInv, [Next]_vars, step = "answer", step' = "print"
      PROVE  lines = <<>> /\ processed = [id |-> event.id, ok |-> TRUE]
  <2>1. phase # "cancel"
    BY <1>1 DEF IInv, Course, Delivering
  <2>2. ReadAnswer
    BY <1>1, <2>1
    DEF vars, Next, Session, Told, Answer, DaemonGoes, ReadFrame, LeaveLoop,
        ReadFails, Fails, PrintPanics, SendFails, Send, AnswerMissing, TimeOut,
        PrintGesture, ReleaseGrab, CancelDrag, Exit, At
  <2>3. answers # <<>> /\ Valid(Head(answers))
    BY <2>2, <1>1 DEF ReadAnswer
  <2>4. Head(answers) = answers[1] /\ 1 \in DOMAIN answers
    BY <1>1, <2>3 DEF IInv, Types
  <2>5. lines = <<>> /\ processed = answers[1]
    BY <1>1, <2>3, <2>4 DEF Valid, IInv, Identities
  <2>6. processed \in Reply /\ processed.id = event.id /\ processed.ok
    BY <1>1, <2>3, <2>4, <2>5 DEF Valid, IInv, Types
  <2>7. processed.ok = TRUE
    BY <2>6, Zenon
  <2> QED
    BY <2>5, <2>6, <2>7 DEF Reply
<1> QED
  BY <1>1, InvAlways, PTL DEF Spec, AcksAreEarned
=============================================================================
