----------------------------- MODULE EventEngine -----------------------------
(***************************************************************************)
(* The event engine (crates/gesture-core/src/engine.rs): which bindings an *)
(* event reaches and which of their actions run.  A dispatch holds the     *)
(* read lock of the daemon's runtime state from the plan to the report;    *)
(* its actions run one after the other and any of them may fail.           *)
(*                                                                         *)
(* A binding says of itself what the event makes of it: whether it is      *)
(* enabled and its trigger matches, and what its conditions, evaluated in  *)
(* order up to the first that does not hold, come to; and whether all of   *)
(* them, evaluated or not, have a provider that accepts them.  An action   *)
(* says what its provider needs: nothing, a permission of the [security]   *)
(* section, or a provider or a form of parameters that does not exist.     *)
(***************************************************************************)
EXTENDS Integers, FiniteSets, SequencesExt

Permissions == {"command", "uinput"}
Needs == Permissions \cup {"nothing", "unknown"}
Policies == {"continue", "stop-binding", "stop-dispatch"}
Verdicts == {"met", "unmet", "error"}

Action == [needs : Needs, on_error : Policies]

Bindings ==
    [id : Nat, priority : Int, matches : BOOLEAN, consume : BOOLEAN,
     conditions : Verdicts, valid : BOOLEAN, actions : Seq(Action)]

\* Conditions that pass validation can be evaluated.
IsBinding(b) ==
    /\ b \in Bindings
    /\ b.actions # <<>>
    /\ b.conditions = "error" => ~b.valid

VARIABLES
    runtime,    \* RuntimeState: its permissions, which are the providers that
                \* are registered, and its bindings
    stage,      \* "idle"; "acting" and "done" hold the read lock
    supported,  \* the event under dispatch has the schema version 1
    plan,       \* DispatchPlan: the bindings still to run, the first one as
                \* far as it has not run yet
    failed,     \* the plan is an error: nothing runs
    outcomes    \* DispatchReport: what has run, and whether it succeeded

dispatchVars == <<stage, supported, plan, failed, outcomes>>

-----------------------------------------------------------------------------
(***************************************************************************)
(* Engine::plan.                                                           *)
(***************************************************************************)
\* The higher priority first, then the lower id.
Before(a, b) == a.priority > b.priority \/ (a.priority = b.priority /\ a.id < b.id)

EmptyPlan == [bindings |-> <<>>, open |-> TRUE, failed |-> FALSE]

\* Mutant of Consider: a consuming binding closes the plan though its
\* conditions are not met.
ConsiderConsumeFirst(p, b) ==
    IF ~p.open THEN p
    ELSE IF b.conditions = "error" THEN [p EXCEPT !.open = FALSE, !.failed = TRUE]
    ELSE [p EXCEPT !.bindings = IF b.conditions = "met" THEN Append(@, b) ELSE @,
                   !.open = ~b.consume]

\* A condition that cannot be evaluated is an error of the whole plan; a
\* planned binding that consumes the event closes it.
Consider(p, b) ==
    IF ~p.open \/ b.conditions = "unmet" THEN p
    ELSE IF b.conditions = "error" THEN [p EXCEPT !.open = FALSE, !.failed = TRUE]
    ELSE [p EXCEPT !.bindings = Append(@, b), !.open = ~b.consume]

\* Enabled, and trigger_matches.
Matching(bindings) == {b \in bindings : b.matches}

\* The place of b in the order of S.
Rank(b, S) == Cardinality({a \in S : Before(a, b)}) + 1

\* Sorted; no two bindings have one id, so that their order is total.
InOrder(S) == [n \in 1 .. Cardinality(S) |-> CHOOSE b \in S : Rank(b, S) = n]

PlanOf(bindings) == FoldLeft(Consider, EmptyPlan, InOrder(Matching(bindings)))

-----------------------------------------------------------------------------
(***************************************************************************)
(* Engine::dispatch.                                                       *)
(***************************************************************************)
\* Any client can send an event of another schema version.
BeginDispatch ==
    /\ stage = "idle"
    /\ supported' \in BOOLEAN
    /\ LET p == PlanOf(runtime.bindings)
       IN  /\ failed' = (~supported' \/ p.failed)
           /\ plan' = IF ~supported' \/ p.failed THEN <<>> ELSE p.bindings
    /\ stage' = "acting"
    /\ UNCHANGED <<runtime, outcomes>>

\* The plan without the action that has just run.
Advance(p) ==
    IF Len(p[1].actions) = 1 THEN Tail(p) ELSE [p EXCEPT ![1].actions = Tail(@)]

\* What is left of plan p once its next action has failed.
AfterFailure(p) ==
    CASE p[1].actions[1].on_error = "continue"      -> Advance(p)
      [] p[1].actions[1].on_error = "stop-binding"  -> Tail(p)
      [] p[1].actions[1].on_error = "stop-dispatch" -> <<>>

\* The next action runs.  Without its provider it fails, and otherwise it may.
ExecuteAction ==
    /\ stage = "acting"
    /\ plan # <<>>
    /\ LET b == plan[1]
           granted == b.actions[1].needs \in runtime.permits \cup {"nothing"}
       IN  \E success \in IF granted THEN BOOLEAN ELSE {FALSE} :
              /\ plan' = IF success THEN Advance(plan) ELSE AfterFailure(plan)
              /\ outcomes' = Append(outcomes, [id |-> b.id, left |-> Len(b.actions),
                                               success |-> success])
    /\ UNCHANGED <<runtime, stage, supported, failed>>

Report ==
    /\ stage = "acting"
    /\ plan = <<>>
    /\ stage' = "done"
    /\ UNCHANGED <<runtime, supported, plan, failed, outcomes>>

\* The guard is dropped, the report written.
EndDispatch ==
    /\ stage = "done"
    /\ stage' = "idle"
    /\ supported' = TRUE
    /\ failed' = FALSE
    /\ outcomes' = <<>>
    /\ UNCHANGED <<runtime, plan>>

DispatchInit ==
    /\ stage = "idle"
    /\ supported = TRUE
    /\ plan = <<>>
    /\ failed = FALSE
    /\ outcomes = <<>>

-----------------------------------------------------------------------------
(***************************************************************************)
(* Properties.                                                             *)
(***************************************************************************)
\* An outcome as a position: action number n of binding b.
Number(b, o) == Len(b.actions) - o.left + 1

Binding(id) == CHOOSE b \in runtime.bindings : b.id = id

Policy(o) == LET b == Binding(o.id) IN b.actions[Number(b, o)].on_error

\* The event gets as far as b: nothing before it consumes the event.
Reaches(b) ==
    /\ b.matches
    /\ \A c \in runtime.bindings :
          c.matches /\ c.conditions = "met" /\ Before(c, b) => ~c.consume

\* The outcomes of actions before number n of binding b.
Earlier(b, n) ==
    {o \in ToSet(outcomes) : \/ Before(Binding(o.id), b)
                             \/ o.id = b.id /\ Number(b, o) < n}

\* What a report lists is what the configuration says: an action ran exactly
\* if its binding matches, its conditions are met, no binding of higher rank
\* consumed the event, and no failure before it stopped its binding or the
\* dispatch; the actions ran in the order of rank; and a dispatch fails as a
\* whole exactly if its event is of an unsupported schema version or a binding
\* it reaches has a condition that cannot be evaluated, of which the second
\* never happens in a configuration whose providers were validated.
DispatchFollowsPolicy ==
    stage = "done" =>
       /\ failed = (\/ ~supported
                    \/ \E b \in runtime.bindings : Reaches(b) /\ b.conditions = "error")
       /\ failed /\ supported => ~runtime.validated
       /\ \A b \in runtime.bindings : \A n \in DOMAIN b.actions :
             (\E o \in ToSet(outcomes) : o.id = b.id /\ Number(b, o) = n)
                <=> /\ ~failed
                    /\ Reaches(b) /\ b.conditions = "met"
                    /\ \A o \in Earlier(b, n) :
                          \/ o.success
                          \/ Policy(o) = "continue"
                          \/ Policy(o) = "stop-binding" /\ o.id # b.id
       /\ \A i, j \in DOMAIN outcomes : i < j =>
             outcomes[i] \in Earlier(Binding(outcomes[j].id),
                                     Number(Binding(outcomes[j].id), outcomes[j]))
=============================================================================
