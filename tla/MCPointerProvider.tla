-------------------------- MODULE MCPointerProvider --------------------------
(* The provider with two streams and two buttons, four parts to a pointer    *)
(* step and a clamp of two steps.                                            *)
EXTENDS PointerProvider

MCDeltas == {-13, -6, -3, -1, 2, 5, 9}

\* Bounds the balance that is carried along; every residual and every kind of
\* rounding, halves of both signs included, occurs within it.
Near == wanted \in -16 .. 16
=============================================================================
