------------------------- MODULE MCBoundaryEditing -------------------------
(***************************************************************************)
(* BoundaryEditing on small instances.                                     *)
(***************************************************************************)
EXTENDS BoundaryEditing, TLC

\* One record.
OneCut == {[label |-> "a", catalog |-> 1]}

\* Two labels.
TwoCuts == {[label |-> l, catalog |-> 1] : l \in {"a", "b"}}

\* A shelf that has never been set up.
Bare == {[c \in 1..Size |-> NoCut]}

\* Any file.
AllFiles == Shelves

\* One unit.
OneUnit == [c \in 1..Size |-> 1]

\* The last cube is the first one of a second unit.
TwoUnits == [c \in 1..Size |-> IF c = Size THEN 2 ELSE 1]

\* The cut that starts with a label, of the two of TwoCuts.
Starts(label) == [label |-> label, catalog |-> 1]

\* A full first unit, which an insert shifts into the second one; a gap
\* between two labels; and a label that is scattered already.
SomeShelves ==
    {<<Starts("a"), Starts("b"), Starts("b"), NoCut>>,
     <<Starts("a"), NoCut, Starts("b"), Starts("b")>>,
     <<Starts("b"), Starts("a"), Starts("b"), NoCut>>}

\* A file that keeps labels together, and one that does not.
SomeFiles ==
    {<<Starts("a"), Starts("a"), Starts("b"), NoCut>>,
     <<Starts("a"), Starts("b"), Starts("a"), NoCut>>}

\* Requests are interchangeable.
Symmetry == Permutations(Admins)
=============================================================================
