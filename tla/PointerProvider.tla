--------------------------- MODULE PointerProvider ---------------------------
(***************************************************************************)
(* PointerDrag and PointerMotion together: PointerDragState holds the      *)
(* stream and the button of the active drag and what its rounding left     *)
(* over, and one execution of uinput.drag changes all of them or, when an  *)
(* emission fails, none but back to the default.                           *)
(***************************************************************************)
EXTENDS PointerDrag, PointerMotion

providerVars == <<pvars, motionVars>>

\* Mutant of Starts: a takeover carries on with the residual of the stream it
\* takes over.
StartsFromIdle(e, p) == p.next.stream # NoStream /\ state.stream = NoStream

\* Event e, whose scaled delta is d, starts a drag.
Starts(e, p) == p.next.stream # NoStream /\ p.next.stream # state.stream

\* It moves the active drag; an event seen before does not.
Moves(e, p) == e.phase = "update" /\ state.last # e

\* A move command is planned if this axis moves, or the other one does.
PlansMove(e, x) == Step(x) # 0 => e.motion = "some"

\* The residual in the state that is installed once the commands are out.
InstallResidual(e, p, d) ==
    IF Starts(e, p) THEN Begin(d) /\ PlansMove(e, d)
    ELSE IF Moves(e, p) THEN Update(d) /\ PlansMove(e, d + residual)
    ELSE IF p.next = Idle THEN Finish
    ELSE UNCHANGED motionVars

\* A refused emission installs the default state.
EmissionFails(p) ==
    /\ OpenFails(p.cmds) \/ EmitFails(p.cmds) \/ EmitAndReleaseFail(p.cmds)
    /\ Finish

Execute(e, b, d) ==
    LET p == PlanEvent(state, e, b)
    IN  IF p.ok
        THEN \/ EmitAll(p.cmds, p.next) /\ InstallResidual(e, p, d)
             \/ EmissionFails(p)
        ELSE UNCHANGED providerVars

Replace == ReplaceProvider /\ Finish

ProviderInit == PInit /\ MotionInit

ProviderNext ==
    \/ \E e \in Events, b \in Buttons, d \in Deltas : Execute(e, b, d)
    \/ Replace

ProviderSpec == ProviderInit /\ [][ProviderNext]_providerVars

-----------------------------------------------------------------------------
\* A step of the provider is a step of each of its halves, so what is proved
\* of PointerDrag and of PointerMotion holds of the provider; and the halves
\* agree on which drag they are about: one is active in both or in neither, and
\* a stream that begins or takes over starts without the remainder of another
\* (plan_begin's fresh PointerDragState, execute_drag's reset after a failure).
HalvesAgree ==
    /\ [][PNext]_pvars
    /\ [][MotionNext]_motionVars
    /\ [](active <=> state.stream # NoStream)
    /\ [][state'.stream \notin {NoStream, state.stream}
            => \E d \in Deltas : Begin(d)]_providerVars
=============================================================================
