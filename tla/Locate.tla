------------------------------- MODULE Locate -------------------------------
(***************************************************************************)
(* Editing the shelf, setting the widths of labels (set_bin_overrides of   *)
(* api/admin/segments.py) and locating records, together.                  *)
(***************************************************************************)
EXTENDS BoundaryEditing, Segments

CONSTANTS
    Sizers,         \* requests to set widths in progress
    Bodies,         \* bound: what they ask for, a cube and a body
    WidthSeeds,     \* widths set before
    FileWidths      \* bound: the widths in an imported file

ASSUME LocateAssumption ==
    /\ WidthSeeds \subseteq [Cubes -> [Labels -> 0..Whole]]
    /\ FileWidths \subseteq [Cubes -> [Labels -> 0..Whole]]
    /\ \A b \in Bodies : /\ b.cube \in Cubes
                         /\ DOMAIN b.body \subseteq Labels
                         /\ \A l \in DOMAIN b.body : b.body[l] \in 0..Whole

VARIABLES
    widths,     \* segment_overrides as committed, 0 where there is no row
    served,     \* BoundaryCache.overrides
    bins,       \* SegmentCache
    resize      \* each request that sets widths, and how far it has come

lVars == <<vars, widths, served, bins, resize>>

NoResize == [step |-> "none"]

LocateInit ==
    /\ Init
    /\ widths \in WidthSeeds
    /\ served = widths
    /\ bins = Derive(cuts, widths)
    /\ resize = [z \in Sizers |-> NoResize]

\* The checks are made before the transaction, on what is served: of the
\* widths they accept, those not in the body may not be the stored ones.
CheckWidths(z, request) ==
    LET bin == bins[request.cube]
        set == served[request.cube]
    IN /\ resize[z].step = "none"
       /\ WidthsAccepted(bin, set, request.body)
       /\ resize' = [resize EXCEPT ![z] =
                       [step |-> "checked", request |-> request,
                        accepted |-> Resulting(bin, set, request.body)]]
       /\ UNCHANGED <<vars, widths, served, bins>>

\* DELETE and INSERT ... ON CONFLICT, in one transaction.
CommitWidths(z) ==
    LET cube == resize[z].request.cube
        body == resize[z].request.body
    IN /\ resize[z].step = "checked"
       /\ widths' = [widths EXCEPT ![cube] =
                       [l \in Labels |-> IF l \in DOMAIN body THEN body[l] ELSE @[l]]]
       /\ resize' = [resize EXCEPT ![z].step = "committed"]
       /\ UNCHANGED <<vars, served, bins>>

\* rebuild_derived_caches, after which the request is answered.
ServeWidths(z) ==
    /\ resize[z].step = "committed"
    /\ cache' = cuts
    /\ served' = widths
    /\ bins' = Derive(cuts, widths)
    /\ resize' = [resize EXCEPT ![z] = NoResize]
    /\ UNCHANGED <<cuts, history, ids, committed, keys, told, clock, pc, work, widths>>

\* The transaction or the rebuild fails.
ResizeFails(z) ==
    /\ Faults
    /\ resize[z].step \in {"checked", "committed"}
    /\ resize' = [resize EXCEPT ![z] = NoResize]
    /\ UNCHANGED <<vars, widths, served, bins>>

\* An import drops the widths of the cubes it leaves empty and stores those of
\* its file, unchecked, in the transaction of its cuts.
StoreFileWidths(a) ==
    IF Commits(a) /\ work[a].kind = "import"
      THEN \E given \in FileWidths :
              widths' = [c \in Cubes |-> [l \in Labels |->
                            IF cuts'[c] = NoCut THEN 0
                            ELSE IF given[c][l] > 0 THEN given[c][l]
                            ELSE widths[c][l]]]
      ELSE UNCHANGED widths

\* A boundary edit; its rebuild loads the widths as well.
EditShelf ==
    \E a \in Admins :
        \/ /\ Transact(a)
           /\ StoreFileWidths(a)
           /\ UNCHANGED <<served, bins, resize>>
        \/ /\ Rebuild(a)
           /\ served' = widths
           /\ bins' = Derive(cuts, widths)
           /\ UNCHANGED <<widths, resize>>

LocateNext ==
    \/ EditShelf
    \/ \E z \in Sizers :
          \/ \E request \in Bodies : CheckWidths(z, request)
          \/ CommitWidths(z)
          \/ ServeWidths(z)
          \/ ResizeFails(z)

LocateSpec == LocateInit /\ [][LocateNext]_lVars

-----------------------------------------------------------------------------
(***************************************************************************)
(* Properties.                                                             *)
(***************************************************************************)

\* The cut points do not descend along the shelf, as derive expects.
InOrder(shelf) ==
    \A c, d \in CutBearing(shelf) : c < d => AtMost(shelf[c], shelf[d])

\* A record is found in one cube only, by its rank; no cut stands between
\* that cube's cut and the record; only records before every cut are in no
\* cube; and the records listed for a cube are the ones found in it.
FoundOnce ==
    \A r \in Records :
        LET found == Ranked(bins, r.label, Rank[r])
            before == {c \in CutBearing(cache) : AtMost(cache[c], r)}
        IN /\ Cardinality(found) = (IF before = {} THEN 0 ELSE 1)
           /\ found = {c \in Cubes : r \in RecordsIn(bins, c)}
           /\ \A c \in found : /\ c \in before
                               /\ \A d \in before : AtMost(cache[d], cache[c])

\* Whatever widths have been set, and whatever labels have left or entered
\* the cube since, the segments of a cube fill it: derive never raises.
SegmentsFillTheCube ==
    \A c \in Cubes :
        DOMAIN bins[c] # {} =>
           SumFunction([l \in DOMAIN bins[c] |-> bins[c][l].width]) = Whole

\* On a shelf in order, of two records of labels that have several, the one
\* that comes first is not shown after the other.
ShownInOrder ==
    LET several == {r \in Records : Cardinality(OfLabel(r.label)) > 1}
    IN InOrder(cache) =>
         \A r, s \in several :
            LET here == Located(bins, r)
                there == Located(bins, s)
            IN Precedes(r, s) /\ here # NoBoundary /\ there # NoBoundary =>
                 \/ here.cube < there.cube
                 \/ /\ here.cube = there.cube
                    /\ here.band.start <= there.band.start
                    /\ here.band.end <= there.band.end

\* On a shelf in order, a band that leads on leads to the cube of the
\* label's next record.
BandLeadsOn ==
    InOrder(cache) =>
        \A r \in Records :
           LET here == Located(bins, r)
           IN here # NoBoundary =>
                \A d \in here.next :
                   /\ d \in here.span
                   /\ \E s \in RecordsIn(bins, d) :
                         /\ s.label = r.label
                         /\ Rank[s] = bins[here.cube][r.label].last + 1

\* What is shown follows the shelf.
OrderIsShown == ShownInOrder /\ BandLeadsOn

\* A width request is answered with all the widths its check accepted shown
\* unscaled, those set earlier by others too, if derive works on what the check
\* took for granted: the cube holds the labels it was checked with, and no
\* import, overlapping request or one whose rebuild failed had set other widths.
SetWidthsAreShown ==
    [][\A z \in Sizers : ServeWidths(z) =>
          LET bin == bins'[resize[z].request.cube]
              loaded == served'[resize[z].request.cube]
              accepted == resize[z].accepted
          IN /\ DOMAIN bin = DOMAIN accepted
             /\ \A l \in DOMAIN accepted : loaded[l] = accepted[l]
             => \A l \in DOMAIN accepted :
                   accepted[l] > 0 => bin[l].width = accepted[l]]_lVars

-----------------------------------------------------------------------------
(***************************************************************************)
(* What a comment of the code says and the code does not keep.             *)
(***************************************************************************)

\* api/admin/segments.py: the bin's resulting override set is validated before
\* the transaction, so that a bad state is never committed.
BadWidthsNeverCommitted ==
    [][\A z \in Sizers : CommitWidths(z) =>
          LET cube == resize[z].request.cube
          IN DOMAIN bins[cube] = DOMAIN resize[z].accepted =>
                WidthsAccepted(bins[cube], widths'[cube], <<>>)]_lVars
=============================================================================
