----------------------------- MODULE MCKeyChord -----------------------------
(* KeyChord on three keys, all of which a chord may use.                   *)
EXTENDS KeyChord

\* The keys are interchangeable.
Symmetry == Permutations(Keys)
=============================================================================
