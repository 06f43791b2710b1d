------------------------------ MODULE Segments ------------------------------
(***************************************************************************)
(* Where a record stands: SegmentCache.derive (estimator/segment_cache.py) *)
(* and what is computed from it (estimator/algorithm.py, boundary_math.py, *)
(* the width check of api/admin/segments.py).                              *)
(*                                                                         *)
(* A record or a cut has a label, placed by label_sort_key, and a catalog  *)
(* number, placed by parse_key.  A cube is Whole wide.                     *)
(***************************************************************************)
EXTENDS Shelf, FiniteSetsExt

CONSTANTS
    Records,        \* CollectionSnapshot: [label, catalog, release]
    LabelOrder,     \* the labels, in the order of label_sort_key
    Whole,          \* the width of a cube
    HalfWidth       \* POSITION_HALF_WIDTH

Labels == {LabelOrder[i] : i \in DOMAIN LabelOrder}

ASSUME SegmentsAssumption ==
    /\ DOMAIN LabelOrder \subseteq Nat
    /\ \A i, j \in DOMAIN LabelOrder : LabelOrder[i] = LabelOrder[j] => i = j
    /\ IsFiniteSet(Records)
    /\ \A x \in Records \union Cuts : x.label \in Labels /\ x.catalog \in Nat
    /\ \A r \in Records : r.release \in Nat
    /\ Whole \in Nat \ {0}
    /\ HalfWidth \in Nat \ {0}

Place == [l \in Labels |-> CHOOSE i \in DOMAIN LabelOrder : LabelOrder[i] = l]

Precedes(x, y) ==
    \/ Place[x.label] < Place[y.label]
    \/ x.label = y.label /\ x.catalog < y.catalog

AtMost(x, y) == ~Precedes(y, x)

\* get_label_records
OfLabel(label) == {r \in Records : r.label = label}

\* The rank of a record among those of its label, in the stable sort by
\* catalog number of rows that are loaded in the order of their releases.
Rank == [r \in Records |->
            Cardinality({s \in OfLabel(r.label) :
                            \/ s.catalog < r.catalog
                            \/ s.catalog = r.catalog /\ s.release < r.release})]

-----------------------------------------------------------------------------
(***************************************************************************)
(* SegmentCache.derive.                                                    *)
(***************************************************************************)

\* Mutant: the cubes are walked in shelf order, up to a cut after the record.
HolderOnWalk(shelf, r) ==
    {c \in CutBearing(shelf) :
        /\ \A d \in CutBearing(shelf) : d <= c => AtMost(shelf[d], r)
        /\ \A d \in CutBearing(shelf) : d > c =>
              \E e \in CutBearing(shelf) : c < e /\ e <= d /\ Precedes(r, shelf[e])}

\* The cube a record is assigned to, if any: its cut is the last one at or
\* before the record by key, and of equal cuts the last one on the shelf.
Holder(shelf, r) ==
    {c \in CutBearing(shelf) :
        /\ AtMost(shelf[c], r)
        /\ \A d \in CutBearing(shelf) : AtMost(shelf[d], r) =>
              Precedes(shelf[d], shelf[c]) \/ (AtMost(shelf[d], shelf[c]) /\ d <= c)}

\* Mutant: nothing is scaled.
WidthUnscaled(count, set, l) ==
    LET own == {k \in DOMAIN count : set[k] > 0}
        asked == SumFunctionOnSet(set, own)
        free == DOMAIN count \ own
    IN IF l \in own THEN set[l]
       ELSE ((Whole - asked) * count[l]) \div SumFunctionOnSet(count, free)

\* The width of a label in a cube that holds count[k] records of each label
\* k, under the widths set for them (0: none).  What the set ones leave goes
\* to the others; where there are no others, or nothing is left, the set ones
\* are scaled to fill the cube.
Width(count, set, l) ==
    LET own == {k \in DOMAIN count : set[k] > 0}
        asked == SumFunctionOnSet(set, own)
        free == DOMAIN count \ own
        others == SumFunctionOnSet(count, free)
    IN CASE own = {} -> (Whole * count[l]) \div others
         [] own # {} /\ (free = {} \/ asked > Whole) -> (Whole * set[l]) \div asked
         [] OTHER -> IF l \in own THEN set[l]
                     ELSE ((Whole - asked) * count[l]) \div others

\* The segment of a label in a cube, from the records assigned to the cube.
Segment(held, set, l) ==
    LET labels == {r.label : r \in held}
        count == [k \in labels |-> Cardinality({r \in held : r.label = k})]
        lowest == Min({r.catalog : r \in {s \in held : s.label = l}})
        first == Cardinality({r \in OfLabel(l) : r.catalog < lowest})
        last == first + count[l] - 1
    IN [first |-> first, last |-> last, count |-> count[l],
        width |-> Width(count, set, l),
        offset |-> SumFunctionOnSet([k \in labels |-> Width(count, set, k)],
                                    {k \in labels : Place[k] < Place[l]}),
        continues |-> last < Cardinality(OfLabel(l)) - 1]

Derive(shelf, widths) ==
    [c \in Cubes |->
        LET held == {r \in Records : c \in Holder(shelf, r)}
        IN [l \in {r.label : r \in held} |-> Segment(held, widths[c], l)]]

-----------------------------------------------------------------------------
(***************************************************************************)
(* Reading the derived bins.                                               *)
(***************************************************************************)

\* get_bins_for_label
LabelSpan(bins, label) == {c \in Cubes : label \in DOMAIN bins[c]}

\* get_segment_for_rank: the cubes whose segment has the rank; the first one
\* is taken.
Ranked(bins, label, rank) ==
    {c \in LabelSpan(bins, label) :
        bins[c][label].first <= rank /\ rank <= bins[c][label].last}

\* get_records_in_bin
RecordsIn(bins, c) ==
    {r \in Records : /\ r.label \in DOMAIN bins[c]
                     /\ Rank[r] \in bins[c][r.label].first .. bins[c][r.label].last}

\* Mutant: the rank in the label is taken for the rank in the segment.
PositionInLabel(bin, r) ==
    LET seg == bin[r.label]
        n == Rank[r]
    IN seg.offset +
         (IF Cardinality(DOMAIN bin) > 1
            THEN ((2 * n + 1) * seg.width) \div (2 * seg.count)
          ELSE IF seg.count = 1 THEN seg.width \div 2
          ELSE (n * seg.width) \div (seg.count - 1))

\* Where the record is in its cube, before the band is laid around it.
Position(bin, r) ==
    LET seg == bin[r.label]
        n == Rank[r] - seg.first
    IN seg.offset +
         (IF Cardinality(DOMAIN bin) > 1
            THEN ((2 * n + 1) * seg.width) \div (2 * seg.count)
          ELSE IF seg.count = 1 THEN seg.width \div 2
          ELSE (n * seg.width) \div (seg.count - 1))

\* _record_band
Band(bin, r) ==
    IF Cardinality(OfLabel(r.label)) = 1
      THEN [start |-> 0, end |-> Whole]
      ELSE [start |-> Max({0, Position(bin, r) - HalfWidth}),
            end |-> Min({Whole, Position(bin, r) + HalfWidth})]

\* The cube that a band at the end of its cube leads to: the next one of the
\* label, if its records go on.
LeadsTo(bins, c, r) ==
    LET later == {d \in LabelSpan(bins, r.label) : d > c}
    IN IF bins[c][r.label].continues /\ Band(bins[c], r).end >= Whole
            /\ later # {}
         THEN {Min(later)}
         ELSE {}

\* locate_cube_only, to which a record falls back that no segment has.
NoBoundary == [cube |-> 0, span |-> {}]

\* locate, by locate_by_segment: the first segment that has the record's rank,
\* the cubes of its label, the band in the cube and where it leads.
Located(bins, r) ==
    LET found == Ranked(bins, r.label, Rank[r])
        c == Min(found)
    IN IF found = {} THEN NoBoundary
       ELSE [cube |-> c, span |-> LabelSpan(bins, r.label),
             band |-> Band(bins[c], r), next |-> LeadsTo(bins, c, r)]

\* The widths of a cube's labels once a body is applied to the set ones: it
\* sets a label's width, or clears it with 0.
Resulting(bin, set, body) ==
    [l \in DOMAIN bin |-> IF l \in DOMAIN body THEN body[l] ELSE set[l]]

\* Mutant: each width is checked on its own only.
WidthsAcceptedEach(bin, set, body) ==
    /\ DOMAIN body \subseteq DOMAIN bin
    /\ \A l \in DOMAIN body : body[l] <= Whole

\* _validate_bin_override_sums, and before it the check that the labels are
\* in the cube.
WidthsAccepted(bin, set, body) ==
    LET after == Resulting(bin, set, body)
        asked == SumFunction(after)
    IN /\ DOMAIN body \subseteq DOMAIN bin
       /\ asked <= Whole
       /\ asked \in {0, Whole} \/ \E l \in DOMAIN bin : after[l] = 0
=============================================================================
