----------------------------- MODULE MCHighlights -----------------------------
(* Model values for TLC.  The tasks meet on one cube; a selection that does *)
(* not light it stands for one of other cubes.                             *)
EXTENDS Highlights, TLC

CONSTANT c1

MCCubes == {c1}
MCAnswers == {{}, {c1}}

Symmetry == Permutations(Selections) \cup Permutations(Sweeps)
=============================================================================
