--------------------------- MODULE PointerMotion ---------------------------
(***************************************************************************)
(* How far an active drag moves the pointer: scale_axis and the residuals  *)
(* of PointerDragState (crates/gesture-actions/src/uinput_pointer.rs).     *)
(*                                                                         *)
(* The code multiplies a touchpad delta by a scale, adds what the last     *)
(* rounding left over, rounds half away from zero and clamps the result to *)
(* max_delta.  Scaled deltas are integers here, counted in Unit parts of a *)
(* pointer step, so that what f64 computes for them is exact.  The axes do *)
(* not interact; the module follows one.                                   *)
(***************************************************************************)
EXTENDS Integers

CONSTANTS
    Unit,       \* parts of one relative pointer step
    MaxDelta,   \* DragParams.max_delta
    Deltas      \* scaled deltas an event can carry, in parts

ASSUME UnitAssumption == Unit \in Nat \ {0}
ASSUME MaxDeltaAssumption == MaxDelta \in Nat \ {0}
ASSUME DeltasAssumption == Deltas \subseteq Int

VARIABLES
    active,     \* a stream is active
    residual,   \* residual_x (or _y), in parts
    wanted,     \* history: parts asked for since the begin or the last clamp
    moved       \* history: steps emitted since then

motionVars == <<active, residual, wanted, moved>>

-----------------------------------------------------------------------------
\* f64::round: to the nearest step, halves away from zero.
Round(x) ==
    IF x >= 0 THEN (2 * x + Unit) \div (2 * Unit)
              ELSE -((Unit - 2 * x) \div (2 * Unit))

Clamp(n) ==
    IF n > MaxDelta THEN MaxDelta ELSE IF n < -MaxDelta THEN -MaxDelta ELSE n

Step(x) == Clamp(Round(x))

\* Mutant of Left: what a clamp cut off is carried over.
LeftWithCutOff(x) == x - Unit * Step(x)

\* What is left of x parts once Step(x) is emitted: nothing is carried over a
\* clamped step.
Left(x) == IF Round(x) = Step(x) THEN x - Unit * Round(x) ELSE 0

\* scaled_movement: delta d on top of r left-over parts, after w parts asked
\* for and m steps emitted.
ScaleAxis(d, r, w, m) ==
    /\ residual' = Left(d + r)
    /\ IF Round(d + r) = Step(d + r)
       THEN wanted' = w + d /\ moved' = m + Step(d + r)
       ELSE wanted' = 0 /\ moved' = 0

\* plan_begin starts from a default state, whatever stream it takes over.
Begin(d) ==
    /\ active' = TRUE
    /\ ScaleAxis(d, 0, 0, 0)

Update(d) ==
    /\ active
    /\ ScaleAxis(d, residual, wanted, moved)
    /\ UNCHANGED active

\* Mutant of Finish: the residual survives the drag.
FinishKeepingResidual ==
    /\ active' = FALSE
    /\ wanted' = 0
    /\ moved' = 0
    /\ UNCHANGED residual

\* An end, a cancel or a failed emission installs the default state.
Finish ==
    /\ active' = FALSE
    /\ residual' = 0
    /\ wanted' = 0
    /\ moved' = 0

MotionInit ==
    /\ active = FALSE
    /\ residual = 0
    /\ wanted = 0
    /\ moved = 0

MotionNext ==
    \/ \E d \in Deltas : Begin(d) \/ Update(d)
    \/ Finish

MotionSpec == MotionInit /\ [][MotionNext]_motionVars

-----------------------------------------------------------------------------
\* An idle provider carries nothing over.
MotionTypeOK ==
    /\ active \in BOOLEAN
    /\ residual \in Int
    /\ wanted \in Int
    /\ moved \in Int
    /\ ~active => residual = 0

\* The pointer does not drift: unless a step was clamped, the steps emitted
\* since the drag began and the residual add up to exactly what was asked
\* for, so however slow the motion the pointer is never more than half a step
\* away from where the finger has asked it to be.
NoDrift ==
    /\ wanted = Unit * moved + residual
    /\ 2 * residual <= Unit
    /\ -Unit <= 2 * residual
=============================================================================
