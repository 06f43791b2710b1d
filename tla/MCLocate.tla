------------------------------ MODULE MCLocate ------------------------------
(***************************************************************************)
(* Locate on a small instance.                                             *)
(***************************************************************************)
EXTENDS Locate, TLC

\* Label "a" has three records, two with the same catalog number; no cube
\* starts with label "c", which has one.
MCRecords == {[label |-> "a", catalog |-> 1, release |-> 1],
              [label |-> "a", catalog |-> 1, release |-> 3],
              [label |-> "a", catalog |-> 2, release |-> 2],
              [label |-> "b", catalog |-> 1, release |-> 4],
              [label |-> "b", catalog |-> 2, release |-> 5],
              [label |-> "c", catalog |-> 1, release |-> 6]}

MCCuts == {[label |-> "a", catalog |-> 1], [label |-> "a", catalog |-> 2],
           [label |-> "b", catalog |-> 1]}

MCLabelOrder == <<"a", "b", "c">>

\* Three cubes and the first one of a second unit.
TwoUnits == [c \in 1..Size |-> IF c = Size THEN 2 ELSE 1]

\* The shelves in order that keep labels together, start with a cut and leave
\* the second unit empty: an insert may cascade into it, an edit may fill it.
\* Edits and imports put cuts out of order.
ContiguousSeeds ==
    {shelf \in Shelves : /\ UnitsContiguous(shelf, Units)
                         /\ InOrder(shelf)
                         /\ shelf[1] # NoCut
                         /\ shelf[Size] = NoCut}

\* Files that start with label "a" and leave the second unit empty.
ShortFiles ==
    {shelf \in Shelves : /\ shelf[1] = [label |-> "a", catalog |-> 1]
                         /\ shelf[2] # NoCut
                         /\ shelf[Size] = NoCut}

\* No widths are set before.
MCWidthSeeds == {[c \in Cubes |-> [l \in Labels |-> 0]]}

\* One label takes half of the second cube, or is cleared and the other takes
\* all of it: one after the other they fit, both together they do not.
MCBodies ==
    {[cube |-> 2, body |-> body] :
        body \in {"a" :> Whole \div 2, "a" :> 0 @@ "b" :> Whole}}

\* A file sets no widths, or that of one label of the second cube.
MCFileWidths ==
    {[c \in Cubes |-> [l \in Labels |-> IF c = 2 /\ l = "b" THEN w ELSE 0]] :
        w \in {0, Whole \div 2}}

Symmetry == Permutations(Sizers)
=============================================================================
