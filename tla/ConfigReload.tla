----------------------------- MODULE ConfigReload -----------------------------
(***************************************************************************)
(* The life of the daemon's configuration (crates/gesture-daemon/src/      *)
(* main.rs): it is loaded and validated once, before the watcher exists;   *)
(* from then on the watcher thread loads the file again after each         *)
(* notification and decides what of it takes effect, while dispatches hold *)
(* the state it wants to replace.                                          *)
(*                                                                         *)
(* The file is changed by others: replaced by a rename, truncated and      *)
(* written again, or removed.                                              *)
(***************************************************************************)
EXTENDS EventEngine

CONSTANTS
    Startups,   \* contents the file can have when the daemon is started
    Contents,   \* contents that are saved later
    None,       \* nothing to install; no save under way
    MaxSaves    \* bound: saves and removals

IsContent(f) ==
    /\ f.parses \in BOOLEAN
    /\ f.permits \subseteq Permissions
    /\ IsFiniteSet(f.bindings)
    /\ \A b \in f.bindings : IsBinding(b)
    /\ \A a, b \in f.bindings : a.id = b.id => a = b

ASSUME ContentAssumption == \A f \in Startups \cup Contents : IsContent(f)
ASSUME SaveAssumption == MaxSaves \in Nat

VARIABLES
    file,       \* external: what the configuration file contains
    saving,     \* external: what is to follow a truncation, or None
    saves,      \* bound: saves so far
    notified,   \* external: events of the watched directory not yet received
    missed,     \* history: the last change preceded the registration
    daemon,     \* "loading", "up" or, when the start fails, "down"
    watcher,    \* "off", "waiting", "sleeping", "installing" or "failed"
    pending     \* the state that waits for the write lock, or None

fileVars == <<file, saving, saves, notified, missed>>
vars == <<fileVars, daemon, watcher, pending, runtime, dispatchVars>>

\* Every field of Config has a default: no text at all is a configuration that
\* permits and binds nothing.
Empty == [parses |-> TRUE, permits |-> {}, bindings |-> {}]

\* A file that is not there does not load.
Missing == [Empty EXCEPT !.parses = FALSE]

-----------------------------------------------------------------------------
(***************************************************************************)
(* The file and what the watched directory tells of it.                    *)
(***************************************************************************)
Watched == watcher \notin {"off", "failed"}

\* Creations and modifications, renames included, are notified.
Becomes(content) ==
    /\ file' = content
    /\ notified' = IF Watched THEN notified + 1 ELSE notified
    /\ missed' = ~Watched
    /\ UNCHANGED <<daemon, watcher, pending, runtime, dispatchVars>>

MaySave == saving = None /\ saves < MaxSaves /\ saves' = saves + 1

Rename == MaySave /\ (\E f \in Contents : Becomes(f)) /\ UNCHANGED saving

Truncate == MaySave /\ saving' \in Contents /\ Becomes(Empty)

Fill == saving # None /\ Becomes(saving) /\ saving' = None /\ UNCHANGED saves

\* The watcher takes no notice of a removal.
Delete ==
    /\ MaySave
    /\ file' = Missing
    /\ UNCHANGED <<saving, notified, missed, daemon, watcher, pending, runtime, dispatchVars>>

-----------------------------------------------------------------------------
(***************************************************************************)
(* main, up to the watcher, and build_runtime_state.                       *)
(***************************************************************************)
\* Engine::validate_providers, with the providers that permits registers:
\* every condition, and disabled bindings and those no event matches too.
ProvidersValid(f) ==
    \A b \in f.bindings :
        /\ b.valid
        /\ \A n \in DOMAIN b.actions : b.actions[n].needs \in f.permits \cup {"nothing"}

StateOf(f, permits, validated) ==
    [permits |-> permits, bindings |-> f.bindings, validated |-> validated]

ASSUME NoneAssumption ==
    \A f \in Startups \cup Contents \cup {Empty},
       permits \in SUBSET Permissions, validated \in BOOLEAN :
          StateOf(f, permits, validated) # None

Start ==
    /\ daemon = "loading"
    /\ IF file.parses /\ ProvidersValid(file)
       THEN daemon' = "up" /\ runtime' = StateOf(file, file.permits, TRUE)
       ELSE daemon' = "down" /\ UNCHANGED runtime
    /\ UNCHANGED <<fileVars, watcher, pending, dispatchVars>>

\* The blocking thread registers its watch; connections are served before.
Register ==
    /\ daemon = "up"
    /\ watcher = "off"
    /\ watcher' \in {"waiting", "failed"}
    /\ UNCHANGED <<fileVars, daemon, pending, runtime, dispatchVars>>

-----------------------------------------------------------------------------
(***************************************************************************)
(* spawn_config_watcher.                                                   *)
(***************************************************************************)
Receive ==
    /\ watcher = "waiting"
    /\ notified > 0
    /\ notified' = notified - 1
    /\ watcher' = "sleeping"
    /\ UNCHANGED <<file, saving, saves, missed, daemon, pending, runtime, dispatchVars>>

\* security_became_more_restrictive
MoreRestrictive(previous, next) == ~(previous \subseteq next)

\* Mutant of FailClosed: the file's own permissions, validated or not.
NextSecurity(previous, next) == next

\* fail_closed_security
FailClosed(previous, next) == previous \intersect next

\* What of a loaded file is to be installed.  The configuration is valid in
\* itself, or it would not have loaded, so that the state can be built without
\* its providers being valid.
Accepted(f) ==
    IF ~f.parses THEN None
    ELSE IF ProvidersValid(f) THEN StateOf(f, f.permits, TRUE)
    ELSE IF MoreRestrictive(runtime.permits, f.permits)
    THEN StateOf(f, FailClosed(runtime.permits, f.permits), FALSE)
    ELSE None

\* After 100 ms the file is loaded as it is then.
LoadFile ==
    /\ watcher = "sleeping"
    /\ pending' = Accepted(file)
    /\ watcher' = IF pending' = None THEN "waiting" ELSE "installing"
    /\ UNCHANGED <<fileVars, daemon, runtime, dispatchVars>>

\* Mutant of Install: the notifications received meanwhile are dropped.
InstallAndDrain ==
    /\ watcher = "installing"
    /\ stage = "idle"
    /\ runtime' = pending
    /\ pending' = None
    /\ notified' = 0
    /\ watcher' = "waiting"
    /\ UNCHANGED <<file, saving, saves, missed, daemon, dispatchVars>>

\* Mutant of Install: the state is replaced under a dispatch.
InstallAtOnce ==
    /\ watcher = "installing"
    /\ runtime' = pending
    /\ pending' = None
    /\ watcher' = "waiting"
    /\ UNCHANGED <<fileVars, daemon, dispatchVars>>

\* The write lock: no dispatch holds the old state.
Install ==
    /\ watcher = "installing"
    /\ stage = "idle"
    /\ runtime' = pending
    /\ pending' = None
    /\ watcher' = "waiting"
    /\ UNCHANGED <<fileVars, daemon, dispatchVars>>

-----------------------------------------------------------------------------
\* A dispatch starts when no writer waits for the lock.
Dispatch ==
    /\ daemon = "up"
    /\ \/ BeginDispatch /\ watcher # "installing"
       \/ ExecuteAction
       \/ Report
       \/ EndDispatch
    /\ UNCHANGED <<fileVars, daemon, watcher, pending>>

Init ==
    /\ file \in Startups
    /\ saving = None
    /\ saves = 0
    /\ notified = 0
    /\ missed = FALSE
    /\ daemon = "loading"
    /\ watcher = "off"
    /\ pending = None
    /\ runtime = StateOf(Empty, {}, TRUE)
    /\ DispatchInit

Next ==
    \/ Rename \/ Truncate \/ Fill \/ Delete
    \/ Start \/ Register
    \/ Receive \/ LoadFile \/ Install
    \/ Dispatch

Spec == Init /\ [][Next]_vars

-----------------------------------------------------------------------------
(***************************************************************************)
(* Properties.                                                             *)
(***************************************************************************)
\* The daemon's variables are well formed; a state that is installed or about
\* to be is marked as validated only if its providers are, and the plan of a
\* dispatch is made of the bindings of the state it runs under.
TypeOK ==
    /\ daemon \in {"loading", "up", "down"}
    /\ watcher \in {"off", "waiting", "sleeping", "installing", "failed"}
    /\ watcher = "installing" <=> pending # None
    /\ notified \in 0 .. 2 * MaxSaves
    /\ \A s \in {runtime, pending} \ {None} :
          /\ s.permits \subseteq Permissions
          /\ s.validated => ProvidersValid(s)
    /\ \A i \in DOMAIN plan :
          \E b \in runtime.bindings :
             /\ [plan[i] EXCEPT !.actions = b.actions] = b
             /\ plan[i].actions = b.actions \/ (i = 1 /\ IsSuffix(plan[i].actions, b.actions))

\* A permission is only ever granted by a configuration that was validated as
\* a whole: whatever files are saved in whatever order, in parts or broken, no
\* reload adds a permission to the running daemon together with bindings whose
\* providers do not pass, not even when the same file takes another away.
PermissionsAreValidated ==
    [][~(runtime'.permits \subseteq runtime.permits) => ProvidersValid(runtime')]_vars

\* No change is lost: once the watcher waits and no notification does, the
\* file, if it loads, is in force: the whole of it if its providers are valid,
\* and otherwise at least every restriction in it.  That excepts changes made
\* before the watch was registered and removals.
QuietMeansCurrent ==
    watcher = "waiting" /\ notified = 0 /\ ~missed /\ file.parses =>
       IF ProvidersValid(file)
       THEN runtime = StateOf(file, file.permits, TRUE)
       ELSE runtime.permits \subseteq file.permits
=============================================================================
