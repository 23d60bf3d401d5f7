---------------------------- MODULE MCConfigReload ----------------------------
(* ConfigReload on files of up to two bindings.  The daemon starts with any  *)
(* two bindings that need nothing, which covers the engine, or with one of   *)
(* the files that are saved later, which cover the reloads.                  *)
EXTENDS ConfigReload

Act(needs, policy) == [needs |-> needs, on_error |-> policy]

Bound(id, priority, consume, conditions, actions) ==
    [id |-> id, priority |-> priority, matches |-> TRUE, consume |-> consume,
     conditions |-> conditions, valid |-> conditions # "error", actions |-> actions]

Twice(policy) == <<Act("nothing", policy), Act("nothing", "continue")>>

FirstBindings ==
    {Bound(1, p, c, v, Twice(e)) :
        p \in {0, 1}, c \in BOOLEAN, v \in {"met", "unmet"}, e \in Policies}

SecondBindings ==
    {Bound(2, 0, c, "met", <<Act("nothing", e)>>) : c \in BOOLEAN, e \in Policies}

ThirdBinding == Bound(3, 0, FALSE, "met", <<Act("nothing", "continue")>>)

File(permits, bindings) == [parses |-> TRUE, permits |-> permits, bindings |-> bindings]

Runs == Bound(1, 0, FALSE, "met", <<Act("command", "continue")>>)
Drags == Bound(2, 0, FALSE, "met", <<Act("uinput", "stop-binding"), Act("nothing", "continue")>>)
Unevaluable == Bound(3, -1, FALSE, "error", <<Act("nothing", "continue")>>)
\* The first condition is not met, and another has no provider.
Hidden == [Bound(3, -1, FALSE, "unmet", <<Act("nothing", "continue")>>) EXCEPT !.valid = FALSE]
Silent == [Bound(4, 0, FALSE, "met", <<Act("unknown", "continue")>>) EXCEPT !.matches = FALSE]

Both == File(Permissions, {Runs, Drags})
OnlyDrags == File({"uinput"}, {Drags})

Saved ==
    {Both, OnlyDrags,
     File({"uinput"}, {Runs, Drags}),           \* forbids what it binds
     File({"command"}, {Runs, Unevaluable}),    \* grants and forbids, not valid
     File({"uinput"}, {Drags, Silent}),         \* not valid where nothing matches
     File({"command"}, {Runs, Hidden}),         \* not valid where nothing is evaluated
     [OnlyDrags EXCEPT !.parses = FALSE]}

Started ==
    Saved \cup {File({}, {a, b, ThirdBinding}) : a \in FirstBindings, b \in SecondBindings}
=============================================================================
