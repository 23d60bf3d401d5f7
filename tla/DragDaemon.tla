----------------------------- MODULE DragDaemon -----------------------------
(***************************************************************************)
(* The daemon (crates/gesture-daemon/src/main.rs) around the pointer       *)
(* provider of PointerDrag: one task per socket connection, each reading   *)
(* lines, dispatching them under a shared read lock and remembering the    *)
(* drag its client has in progress; a configuration watcher that replaces  *)
(* the whole runtime state under the write lock; and the shutdown signal.  *)
(*                                                                         *)
(* A client sends the drag lifecycles of the recognizer, one line at a     *)
(* time, waits for the answer, gives up after a timeout by sending a       *)
(* cancel, and may disappear at any moment.                                *)
(***************************************************************************)
EXTENDS PointerDrag

CONSTANTS
    Clients,    \* connections the daemon has accepted
    Configs,    \* configurations a reload can install (see ConfigAssumption)
    NoConfig,   \* the watcher has nothing to install
    Task,       \* an event bound to process.run with wait = true
    MaxReloads  \* bound: configuration files written

Routes == {"drag",      \* a binding leads the event to uinput.drag
           "unbound",   \* no enabled binding, or its provider is not registered
           "error"}     \* a condition cannot be evaluated: dispatch is an Err

\* Bindings are matched with each event by itself, its phase included: what
\* becomes of a begin says nothing of what becomes of the end of its drag.
ASSUME ConfigAssumption ==
    /\ Configs \subseteq [Phases -> [route : Routes, button : Buttons]]
    /\ NoConfig \notin Configs

ASSUME TaskAssumption == Task \notin Events \cup {NoEvent}

ASSUME ReloadAssumption == MaxReloads \in Nat

VARIABLES
    mode,       \* client: "ready", "waiting" for an answer, "leaving" or "gone"
    sending,    \* client: the stream it has begun and not finished
    used,       \* streams begun so far: every begin carries a new uuid
    inbox,      \* lines written to the socket and not read yet
    pc,         \* connection task: where handle_client is
    job,        \* connection task: the event being dispatched
    tracked,    \* connection task: active_drag
    closing,    \* connection task: it has left the read loop
    config,     \* RuntimeState: what the engine does with drag events, by phase
    pending,    \* the state the watcher waits to install, or NoConfig
    reloads,    \* bound: configuration files written so far
    running,    \* FALSE once ctrl_c has ended the accept loop
    held        \* history: streams that have held the button

clientVars == <<mode, sending, used>>
taskVars   == <<pc, job, tracked, closing>>
configVars == <<config, pending, reloads>>
vars == <<pvars, clientVars, inbox, taskVars, configVars, running, held>>

Lines == Events \cup {Task}

Steps == {"read",     \* waiting for a line
          "lock",     \* waiting for the read lock
          "exec",     \* holds the read lock, action not executed
          "done",     \* holds the read lock, action executed
          "write",    \* about to write the answer
          "closed"}   \* handle_client has returned

StreamOf(e) == IF e \in Events THEN e.stream ELSE NoStream

Line(ph, s, m, i) == [phase |-> ph, stream |-> s, motion |-> m, copy |-> i]

-----------------------------------------------------------------------------
(***************************************************************************)
(* Clients.                                                                *)
(***************************************************************************)
Send(c, line) == inbox' = [inbox EXCEPT ![c] = Append(@, line)]

\* A drag begins under a stream id no other drag has had.
ClientBegin(c) ==
    /\ mode[c] = "ready"
    /\ sending[c] = NoStream
    /\ \E s \in Streams \ used, i \in Copies :
          /\ Send(c, Line("begin", s, "some", i))
          /\ used' = used \cup {s}
          /\ sending' = [sending EXCEPT ![c] = s]
    /\ mode' = [mode EXCEPT ![c] = "waiting"]
    /\ UNCHANGED <<pvars, taskVars, configVars, running, held>>

ClientUpdate(c) ==
    /\ mode[c] = "ready"
    /\ sending[c] # NoStream
    /\ \E i \in Copies : Send(c, Line("update", sending[c], "some", i))
    /\ mode' = [mode EXCEPT ![c] = "waiting"]
    /\ UNCHANGED <<pvars, sending, used, taskVars, configVars, running, held>>

ClientEnd(c) ==
    /\ mode[c] = "ready"
    /\ sending[c] # NoStream
    /\ \E ph \in {"end", "cancel"}, i \in Copies :
          Send(c, Line(ph, sending[c], "none", i))
    /\ sending' = [sending EXCEPT ![c] = NoStream]
    /\ mode' = [mode EXCEPT ![c] = "waiting"]
    /\ UNCHANGED <<pvars, used, taskVars, configVars, running, held>>

\* Some other event of the client reaches process.run.
ClientTask(c) ==
    /\ mode[c] = "ready"
    /\ sending[c] = NoStream
    /\ Send(c, Task)
    /\ mode' = [mode EXCEPT ![c] = "waiting"]
    /\ UNCHANGED <<pvars, sending, used, taskVars, configVars, running, held>>

\* No answer within the dispatch timeout: the client cancels its drag behind
\* the unanswered line and is on its way out.
ClientGivesUp(c) ==
    /\ mode[c] = "waiting"
    /\ sending[c] # NoStream
    /\ \E i \in Copies : Send(c, Line("cancel", sending[c], "none", i))
    /\ sending' = [sending EXCEPT ![c] = NoStream]
    /\ mode' = [mode EXCEPT ![c] = "leaving"]
    /\ UNCHANGED <<pvars, used, taskVars, configVars, running, held>>

\* The client exits, crashes or loses its socket; lines it wrote remain.
ClientGoes(c) ==
    /\ mode[c] # "gone"
    /\ mode' = [mode EXCEPT ![c] = "gone"]
    /\ sending' = [sending EXCEPT ![c] = NoStream]
    /\ UNCHANGED <<pvars, used, inbox, taskVars, configVars, running, held>>

-----------------------------------------------------------------------------
(***************************************************************************)
(* A connection task: handle_client, dispatch_event and the drag tracking. *)
(***************************************************************************)
\* track_client_drag: what the connection remembers after event e.
Track(active, e) ==
    IF StreamOf(e) = NoStream THEN active
    ELSE CASE e.phase = "begin" -> e
           [] e.phase = "update" /\ StreamOf(active) = e.stream -> e
           [] e.phase \in {"end", "cancel"} /\ StreamOf(active) = e.stream -> NoEvent
           [] OTHER -> active

\* drag_cancel_event: a cancel with the labels of the last event and no motion.
CancelOf(active) == [active EXCEPT !.phase = "cancel", !.motion = "none"]

Goto(c, where) == pc' = [pc EXCEPT ![c] = where]

ReadLine(c) ==
    /\ running
    /\ pc[c] = "read"
    /\ inbox[c] # <<>>
    /\ job' = [job EXCEPT ![c] = Head(inbox[c])]
    /\ inbox' = [inbox EXCEPT ![c] = Tail(@)]
    /\ Goto(c, "lock")
    /\ UNCHANGED <<pvars, clientVars, tracked, closing, configVars, running, held>>

\* Mutant of LeaveLoop: the last event is dispatched again, not cancelled.
LeaveLoopRepeating(c) ==
    /\ closing' = [closing EXCEPT ![c] = TRUE]
    /\ IF tracked[c] = NoEvent
       THEN /\ Goto(c, "closed")
            /\ UNCHANGED job
       ELSE /\ Goto(c, "lock")
            /\ job' = [job EXCEPT ![c] = tracked[c]]
    /\ inbox' = [inbox EXCEPT ![c] = <<>>]
    /\ UNCHANGED <<pvars, clientVars, tracked, configVars, running, held>>

\* Mutant of LeaveLoop: the task ends without a cleanup.
LeaveLoopAtOnce(c) ==
    /\ closing' = [closing EXCEPT ![c] = TRUE]
    /\ Goto(c, "closed")
    /\ inbox' = [inbox EXCEPT ![c] = <<>>]
    /\ UNCHANGED <<pvars, clientVars, job, tracked, configVars, running, held>>

\* Leaving the read loop: what was not read never will be, cancel_client_drag
\* starts a last dispatch when a drag is tracked, and otherwise the task is over.
LeaveLoop(c) ==
    /\ closing' = [closing EXCEPT ![c] = TRUE]
    /\ IF tracked[c] = NoEvent
       THEN /\ Goto(c, "closed")
            /\ UNCHANGED job
       ELSE /\ Goto(c, "lock")
            /\ job' = [job EXCEPT ![c] = CancelOf(tracked[c])]
    /\ inbox' = [inbox EXCEPT ![c] = <<>>]
    /\ UNCHANGED <<pvars, clientVars, tracked, configVars, running, held>>

EndOfStream(c) ==
    /\ running
    /\ pc[c] = "read"
    /\ inbox[c] = <<>>
    /\ mode[c] = "gone"
    /\ LeaveLoop(c)

\* The socket fails with lines still unread: a peer that closed it without
\* reading its answers resets the connection.
ReadFails(c) ==
    /\ running
    /\ pc[c] = "read"
    /\ inbox[c] # <<>>
    /\ mode[c] = "gone"
    /\ LeaveLoop(c)

\* The lock is fair: a reader queues behind a waiting writer.
TakeReadLock(c) ==
    /\ running
    /\ pc[c] = "lock"
    /\ pending = NoConfig
    /\ Goto(c, "exec")
    /\ UNCHANGED <<pvars, clientVars, inbox, job, tracked, closing, configVars, running, held>>

\* The engine runs the action bound to a drag event.
ExecuteJob(c) ==
    /\ running
    /\ pc[c] = "exec"
    /\ job[c] # Task
    /\ LET bound == config[job[c].phase]
       IN  IF bound.route = "drag"
           THEN ExecuteDrag(job[c], bound.button)
           ELSE UNCHANGED pvars
    /\ held' = held \cup ({state'.stream} \ {NoStream})
    /\ Goto(c, "done")
    /\ UNCHANGED <<clientVars, inbox, job, tracked, closing, configVars, running>>

\* process.run awaits its child under the read lock; it ends when that exits.
ChildExits(c) ==
    /\ running
    /\ pc[c] = "exec"
    /\ job[c] = Task
    /\ Goto(c, "done")
    /\ UNCHANGED <<pvars, clientVars, inbox, job, tracked, closing, configVars, running, held>>

\* The dispatch of c's event fails as a whole.
Rejected(c) == job[c] # Task /\ config[job[c].phase].route = "error"

\* What c tracks when its dispatch is over: one that failed as a whole is
\* answered but not tracked.
Remembered(c) == IF Rejected(c) THEN tracked[c] ELSE Track(tracked[c], job[c])

\* Mutant of FinishJob: a drag is tracked only if its answer can be written.
FinishJobIfWritable(c) ==
    /\ running
    /\ pc[c] = "done"
    /\ Goto(c, IF closing[c] THEN "closed" ELSE "write")
    /\ tracked' = IF closing[c] \/ mode[c] = "gone" THEN tracked
                  ELSE [tracked EXCEPT ![c] = Remembered(c)]
    /\ job' = [job EXCEPT ![c] = NoEvent]
    /\ UNCHANGED <<pvars, clientVars, inbox, closing, configVars, running, held>>

\* dispatch_event returns and drops the lock.
FinishJob(c) ==
    /\ running
    /\ pc[c] = "done"
    /\ Goto(c, IF closing[c] THEN "closed" ELSE "write")
    /\ tracked' = IF closing[c] THEN tracked ELSE [tracked EXCEPT ![c] = Remembered(c)]
    /\ job' = [job EXCEPT ![c] = NoEvent]
    /\ UNCHANGED <<pvars, clientVars, inbox, closing, configVars, running, held>>

WriteAnswer(c) ==
    /\ running
    /\ pc[c] = "write"
    /\ mode[c] # "gone"
    /\ mode' = [mode EXCEPT ![c] = IF @ = "waiting" THEN "ready" ELSE @]
    /\ Goto(c, "read")
    /\ UNCHANGED <<pvars, sending, used, inbox, job, tracked, closing, configVars, running, held>>

WriteFails(c) ==
    /\ running
    /\ pc[c] = "write"
    /\ mode[c] = "gone"
    /\ LeaveLoop(c)

-----------------------------------------------------------------------------
(***************************************************************************)
(* The watcher thread and the shutdown.                                    *)
(***************************************************************************)
\* A changed file was accepted: the watcher queues for the write lock.
QueueReload ==
    /\ pending = NoConfig
    /\ reloads < MaxReloads
    /\ reloads' = reloads + 1
    /\ pending' \in Configs
    /\ UNCHANGED <<pvars, clientVars, inbox, taskVars, config, running, held>>

\* Mutant of HoldsReadLock: the guard lives as long as the read loop.
HoldsGuardWhileReading(c) == running /\ pc[c] \in {"read", "exec", "done", "write"}

HoldsReadLock(c) == running /\ pc[c] \in {"exec", "done"}

\* No reader is left: the old state and its providers are dropped.
InstallReload ==
    /\ pending # NoConfig
    /\ \A c \in Clients : ~HoldsReadLock(c)
    /\ config' = pending
    /\ pending' = NoConfig
    /\ ReplaceProvider
    /\ UNCHANGED <<clientVars, inbox, taskVars, reloads, running, held>>

\* ctrl_c: main returns, the runtime drops the connection tasks where they
\* wait, and then waits for the watcher's blocking thread.  That thread never
\* returns and keeps its Arc of the runtime state.
Shutdown ==
    /\ running
    /\ running' = FALSE
    /\ UNCHANGED <<pvars, clientVars, inbox, taskVars, configVars, held>>

Init ==
    /\ PInit
    /\ mode = [c \in Clients |-> "ready"]
    /\ sending = [c \in Clients |-> NoStream]
    /\ used = {}
    /\ inbox = [c \in Clients |-> <<>>]
    /\ pc = [c \in Clients |-> "read"]
    /\ job = [c \in Clients |-> NoEvent]
    /\ tracked = [c \in Clients |-> NoEvent]
    /\ closing = [c \in Clients |-> FALSE]
    /\ config \in Configs
    /\ pending = NoConfig
    /\ reloads = 0
    /\ running = TRUE
    /\ held = {}

Client(c) ==
    \/ ClientBegin(c)
    \/ ClientUpdate(c)
    \/ ClientEnd(c)
    \/ ClientTask(c)
    \/ ClientGivesUp(c)
    \/ ClientGoes(c)

\* What the runtime's scheduler runs for connection c, a child aside.
Connection(c) ==
    \/ ReadLine(c)
    \/ EndOfStream(c)
    \/ ReadFails(c)
    \/ TakeReadLock(c)
    \/ ExecuteJob(c)
    \/ FinishJob(c)
    \/ WriteAnswer(c)
    \/ WriteFails(c)

Next ==
    \/ \E c \in Clients : Client(c) \/ Connection(c) \/ ChildExits(c)
    \/ QueueReload
    \/ InstallReload
    \/ Shutdown

\* tokio polls every ready task and the watcher thread runs; nothing obliges
\* a client, a child process, an editor or the user to do anything.
Fairness ==
    /\ \A c \in Clients : WF_vars(Connection(c))
    /\ WF_vars(InstallReload)

Spec == Init /\ [][Next]_vars /\ Fairness

\* The same when every child a process.run action awaits exits.
SpecChildrenExit == Spec /\ \A c \in Clients : WF_vars(ChildExits(c))

-----------------------------------------------------------------------------
(***************************************************************************)
(* Properties.                                                             *)
(***************************************************************************)

\* Connection c is answerable for stream s: it tracks s, or has just executed
\* the begin of s and is about to track it.
Answers(c, s) ==
    /\ pc[c] # "closed"
    /\ \/ StreamOf(tracked[c]) = s
       \/ pc[c] = "done" /\ ~closing[c] /\ StreamOf(job[c]) = s

\* The daemon's variables are well formed: a task that left its loop only
\* works on the cancel of the drag it tracked, and a closed one has no answer
\* to give; the provider's own invariant is PTypeOK.
TypeOK ==
    /\ PTypeOK
    /\ mode \in [Clients -> {"ready", "waiting", "leaving", "gone"}]
    /\ sending \in [Clients -> Streams \cup {NoStream}]
    /\ used \subseteq Streams
    /\ inbox \in [Clients -> Seq(Lines)]
    /\ pc \in [Clients -> Steps]
    /\ job \in [Clients -> Lines \cup {NoEvent}]
    /\ tracked \in [Clients -> Events \cup {NoEvent}]
    /\ closing \in [Clients -> BOOLEAN]
    /\ config \in Configs
    /\ pending \in Configs \cup {NoConfig}
    /\ reloads \in 0 .. MaxReloads
    /\ running \in BOOLEAN
    /\ held \subseteq Streams
    /\ \A c \in Clients : closing[c] =>
          /\ pc[c] \in {"lock", "exec", "done", "closed"}
          /\ pc[c] # "closed" => job[c] = CancelOf(tracked[c])

\* What the documentation asks of a configuration, as far as it matters here:
\* the end of a drag is not left unbound, and a cancel reaches the pointer.
BindsReleases(cfg) ==
    /\ cfg["end"].route # "unbound"
    /\ cfg["cancel"].route = "drag"

\* No orphaned drag: while the daemon runs a configuration that binds the
\* release phases, a drag the provider holds a button for belongs to a
\* connection that is still open and that will cancel it when its client goes
\* (track_client_drag keeps up with the provider through other clients'
\* events, failed emissions, rejected dispatches and reloads).
DragOwned ==
    running /\ BindsReleases(config) /\ state.stream # NoStream =>
        \E c \in Clients : Answers(c, state.stream)

\* A newer drag outlives everything an older client can still send: once
\* stream s holds the button, only its own end or cancel, another begin, a
\* refused emission or a replaced provider takes it away.  The late cancel of
\* a client that timed out and the cleanup of a dead connection do not.
OnlyOwnEventsEndADrag ==
    [][\A s \in Streams :
          state.stream = s /\ state'.stream = NoStream =>
              \/ faults' > faults
              \/ pending # NoConfig /\ pending' = NoConfig
              \/ \E c \in Clients :
                    /\ pc[c] = "exec" /\ pc'[c] = "done"
                    /\ StreamOf(job[c]) = s
                    /\ job[c].phase \in {"end", "cancel"}]_vars

\* A drag that lost the button stays without it: once its end, another client's
\* drag, a refused emission or a reload has taken the button from a stream, no
\* update its client still sends, no line that was queued before and no cleanup
\* of its connection presses it again, whichever phases are bound.
LostDragsStayLost ==
    [][\A s \in held : state'.stream = s => state.stream = s]_vars

\* A client that disappears in the middle of a drag has it cancelled: under a
\* configuration that binds the release phases the daemon eventually lets go of
\* a stream its connection tracked, whatever the other clients, the emissions
\* and the reloads do meanwhile.
DisconnectReleases ==
    \A c \in Clients, s \in Streams :
        (mode[c] = "gone" /\ StreamOf(tracked[c]) = s /\ BindsReleases(config))
            ~> (state.stream # s \/ ~running)

\* A reload that reached the write lock's queue is installed.
ReloadsAreInstalled == pending # NoConfig ~> pending = NoConfig

\* Losing the socket because the daemon itself shuts down releases the drag
\* too: no stream stays active once ctrl_c was received.
ShutdownReleases == ~running ~> state.stream = NoStream
=============================================================================
