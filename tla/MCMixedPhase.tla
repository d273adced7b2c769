---------------------------- MODULE MCMixedPhase ----------------------------
(* Small instances of MixedPhase.                                          *)
EXTENDS MixedPhaseInvariant

\* Worker threads per level.
Two        == <<2>>
OneThenOne == <<1, 1>>

\* Operations per phase: warm-up and measured, level by level.
Ops12   == <<1, 2>>
Ops0601 == <<0, 6, 0, 1>>
=============================================================================
