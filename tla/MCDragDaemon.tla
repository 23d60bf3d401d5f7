---------------------------- MODULE MCDragDaemon ----------------------------
(* DragDaemon with two clients, and the configurations a reload installs.  *)
EXTENDS DragDaemon, TLC

CONSTANTS left, right

\* The configuration that treats the events of a phase as route and button say.
By(route, button) == [p \in Phases |-> [route |-> route[p], button |-> button[p]]]

All(value) == [p \in Phases |-> value]

\* Every phase bound to the same action, and none bound at all.
Whole   == By(All("drag"), All(left))
Unbound == By(All("unbound"), All(left))

\* Updates bound to another button, and a condition that fails on ends.
Mixed == By([All("drag") EXCEPT !["end"] = "error"],
            [All(right) EXCEPT !["update"] = left])

\* The release phases left out.
NoReleases == By([All("drag") EXCEPT !["end"] = "unbound", !["cancel"] = "unbound"],
                 All(left))

MCConfigs == {Whole, Unbound, Mixed, NoReleases}

\* A reload can take the drag binding away.
MCTwoConfigs == {Whole, Unbound}

\* It can take it away altogether, or for the release phases alone.
MCFewConfigs == {Whole, Unbound, NoReleases}

\* Clients and streams are interchangeable in the safety properties.
Symmetry == Permutations(Clients) \cup Permutations(Streams)
=============================================================================
