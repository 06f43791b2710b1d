------------------------------- MODULE Shelf -------------------------------
(***************************************************************************)
(* A shelf of cubes and what the admin endpoints compute on it before they *)
(* write: api/admin/validation.py and the cascade of insert_cut.           *)
(*                                                                         *)
(* Cubes are numbered in the order (unit, row, column).  A shelf gives     *)
(* each cube its cut point, a label and a catalogue number, or NoCut for   *)
(* an empty cube.  An update or a history row gives one cube a new cut.    *)
(***************************************************************************)
EXTENDS Naturals, Sequences

CONSTANTS
    Size,       \* cubes on the shelf
    UnitOf,     \* the unit each cube stands in
    Cuts,       \* cut points: records with a label and a catalog
    NoCut       \* the cut of an empty cube

Cubes == 1..Size

ASSUME ShelfAssumption ==
    /\ Size \in Nat \ {0}
    /\ UnitOf \in [Cubes -> Nat]
    /\ NoCut \notin Cuts

Units == {UnitOf[c] : c \in Cubes}

Shelves == [Cubes -> Cuts \union {NoCut}]

\* The shelf after a list of rows, of which the last one for a cube wins.
Applied(shelf, rows) ==
    [c \in Cubes |->
        LET own == {i \in DOMAIN rows : rows[i].cube = c}
        IN IF own = {} THEN shelf[c]
           ELSE rows[CHOOSE i \in own : \A j \in own : j <= i].new]

\* The cubes with a cut; an empty one starts no run of records.
CutBearing(shelf) == {c \in Cubes : shelf[c] # NoCut}

\* validate_contiguity: no other label starts a cube between two cubes that
\* start with the same label.
Contiguous(shelf, span) ==
    \A i, j, k \in {c \in span : shelf[c] # NoCut} :
        i < j /\ j < k /\ shelf[i].label = shelf[k].label
            => shelf[j].label = shelf[i].label

UnitsContiguous(shelf, units) ==
    \A u \in units : Contiguous(shelf, {c \in Cubes : UnitOf[c] = u})

\* The units that a list of updates touches are checked, each on its own,
\* with its untouched cuts merged in.
Accepted(shelf, updates) ==
    UnitsContiguous(Applied(shelf, updates),
                    {UnitOf[updates[i].cube] : i \in DOMAIN updates})

\* validate_contiguity as the import calls it: on all units at once.
ImportAccepted(shelf) == Contiguous(shelf, Cubes)

\* validate_shelf_overflow: an empty cube follows that absorbs the shift.
HasRoom(shelf, after) == \E c \in Cubes : c > after /\ shelf[c] = NoCut

Absorber(shelf, after) ==
    CHOOSE c \in Cubes : /\ c > after
                         /\ shelf[c] = NoCut
                         /\ \A d \in after + 1 .. c - 1 : shelf[d] # NoCut

\* Mutant: the cascade stops only when the empty cube is the one shifted.
CascadeStopsLate(shelf, after, cut) ==
    [i \in 1 .. (IF Absorber(shelf, after) < Size
                   THEN Absorber(shelf, after) + 1
                   ELSE Absorber(shelf, after)) - after |->
        [cube |-> after + i,
         new |-> IF i = 1 THEN cut ELSE shelf[after + i - 1]]]

\* The new cut and every cut it shifts one cube to the right.
Cascade(shelf, after, cut) ==
    [i \in 1 .. Absorber(shelf, after) - after |->
        [cube |-> after + i,
         new |-> IF i = 1 THEN cut ELSE shelf[after + i - 1]]]
=============================================================================
