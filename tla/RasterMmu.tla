----------------------------- MODULE RasterMmu -----------------------------
(***************************************************************************)
(* The minimum mapping unit of a raster (raster/mmu.py).  A patch is an    *)
(* edge-connected set of pixels of one value (or of one group of values);  *)
(* patches of fewer than MMU pixels are errors unless they are excepted.   *)
(* The raster is read in tiles.  Each tile has an inner zone, in which     *)
(* small patches are looked for, and a buffer around it, in which those    *)
(* that touch the rim of the inner zone are looked at again.               *)
(*                                                                         *)
(* A pixel is <<column, row>>.  An image has a ground value and marks, the *)
(* pixels of other values, also in the neighbouring deliveries around it.  *)
(***************************************************************************)
EXTENDS Integers, FiniteSets

CONSTANTS
    BlockSize,      \* BLOCKSIZE
    MMU,            \* area_pixels
    NoData,         \* nodata_value
    Group,          \* groupcodes: every value to the one that stands for its group
    ValueException, \* value_exception_codes
    NeighbourException,     \* neighbour_exception_codes
    ReportExceptions,       \* report_exceptions
    MaxReported     \* MAX_REPORTED_REGION_COUNT

ASSUME MmuAssumption ==
    /\ BlockSize \in Nat \ {0} /\ MMU \in Nat \ {0} /\ MaxReported \in Nat
    /\ MMU < BlockSize  \* at most 50, and 2048
    /\ ReportExceptions \in BOOLEAN

VARIABLES
    image,          \* the raster: [ncols, nrows, ground, fill, marks, around, neighbours], where
                    \* neighbours is "off", "no boundary", "no s3", "none", "there" or "lost"
    tile,           \* <<column, row>> of the next tile
    errors,         \* regions_lessMMU: [tile, region, patch]
    exceptions,     \* regions_lessMMU_except
    mmu             \* the state of the step

mmuVars == <<image, tile, errors, exceptions, mmu>>

-----------------------------------------------------------------------------
(* Pixels and patches.                                                      *)

Beside(c) == {<<c[1] + 1, c[2]>>, <<c[1] - 1, c[2]>>, <<c[1], c[2] + 1>>, <<c[1], c[2] - 1>>}

Frame(i) == (0 .. i.ncols - 1) \X (0 .. i.nrows - 1)

IsImage(i) ==
    /\ i = [ncols |-> i.ncols, nrows |-> i.nrows, ground |-> i.ground, fill |-> i.fill, marks |-> i.marks,
            around |-> i.around, neighbours |-> i.neighbours]
    /\ {i.ncols, i.nrows} \subseteq Nat \ {0}

RawValue(i, c) == IF c \in DOMAIN i.marks THEN i.marks[c] ELSE i.ground

\* reclassify_values: the pixels of W as an array, a group with the value of its first member.
Values(W) == [c \in W |-> Group[RawValue(image, c)]]

\* measure.label with connectivity 1: the patch of a pixel in an array, or, of a
\* large patch, as much as shows that it is not small.
PatchIn(c, v) ==
    LET reach[n \in 0 .. MMU] ==
            IF n = 0 THEN {c}
            ELSE LET near == reach[n - 1]
                 IN  IF Cardinality(near) >= MMU THEN near
                     ELSE near \union {d \in (UNION {Beside(e) : e \in near}) \cap DOMAIN v : v[d] = v[c]}
    IN  reach[MMU]

Small(P) == Cardinality(P) < MMU

SmallPatches(v) == {P \in {PatchIn(c, v) : c \in {d \in DOMAIN v : v[d] # NoData}} : Small(P)}

-----------------------------------------------------------------------------
(* Tiles.                                                                   *)

\* The buffer, none when the image is one tile wide or high.
Buffer(i) ==
    IF MMU + 1 >= i.ncols \/ i.ncols <= BlockSize \/ i.nrows <= BlockSize THEN 0 ELSE MMU + 1

Count(n) == (n + BlockSize - 1) \div BlockSize

\* One axis of tile k of n pixels: where its window starts, the width of the
\* buffer before the inner zone, and the lengths of the window and of the zone.
Span(k, n, buffer) ==
    LET length == IF k = Count(n) - 1 THEN n - k * BlockSize
                  ELSE IF k = 0 THEN BlockSize + buffer
                  ELSE BlockSize + 2 * buffer
    IN  [off    |-> k * BlockSize,
         lead   |-> IF k = 0 THEN 0 ELSE buffer,
         length |-> length,
         inner  |-> IF k = Count(n) - 1 THEN length - buffer ELSE BlockSize]

Column == Span(tile[1], image.ncols, Buffer(image))
Row == Span(tile[2], image.nrows, Buffer(image))

Window == (Column.off .. Column.off + Column.length - 1) \X (Row.off .. Row.off + Row.length - 1)

InnerFirst == <<Column.off + Column.lead, Row.off + Row.lead>>
InnerLast == <<InnerFirst[1] + Column.inner - 1, InnerFirst[2] + Row.inner - 1>>

Inner == (InnerFirst[1] .. InnerLast[1]) \X (InnerFirst[2] .. InnerLast[2])

OnRim(c) == c[1] \in {InnerFirst[1], InnerLast[1]} \/ c[2] \in {InnerFirst[2], InnerLast[2]}

\* The pixels too deep in the inner zone to be in a small patch at its rim.
Deep == (InnerFirst[1] + MMU .. InnerLast[1] - MMU) \X (InnerFirst[2] + MMU .. InnerLast[2] - MMU)

OneValue == \A c \in Window : RawValue(image, c) = RawValue(image, <<Column.off, Row.off>>)

\* The window is read outside of the raster: ReadAsArray gives None.
Outside == Column.off + Column.length > image.ncols \/ Row.off + Row.length > image.nrows

NoInner == Column.length <= Buffer(image) \/ Row.length <= Buffer(image)

-----------------------------------------------------------------------------
(* Which small patches are errors.                                          *)

\* patch_touches_cell_with_value
TouchesException(P, v) == \E c \in P : \E d \in Beside(c) \cap DOMAIN v : v[d] \in NeighbourException

\* patch_touches_raster_edge
TouchesEdge(i, P) == \E c \in P : c[1] \in {0, i.ncols - 1} \/ c[2] \in {0, i.nrows - 1}

Excepted(P, v) ==
    \/ \E c \in P : v[c] \in ValueException
    \/ TouchesException(P, v)
    \/ TouchesEdge(image, P)

\* The window, as it is looked at again.
Masked == [c \in Window |-> IF c \in Deep THEN NoData ELSE Values(Window)[c]]

\* A patch at the rim, as the whole window shows it.
Widened(P) == PatchIn(CHOOSE c \in P : TRUE, Masked)

\* Of the small patches of the inner zone, those at its rim.
AtRim(small) == {P \in small : \E c \in P : OnRim(c)}

Deeper(small, exc) ==
    {[tile |-> tile, region |-> P, patch |-> P] :
        P \in {Q \in small \ AtRim(small) : Excepted(Q, Values(Inner)) = exc}}

\* Patches at the rim are not looked at again (a mutant).
FoundAtOnce(small, exc) ==
    {[tile |-> tile, region |-> P, patch |-> P] : P \in {Q \in small : Excepted(Q, Values(Inner)) = exc}}

Found(small, exc) ==
    Deeper(small, exc) \union
    {[tile |-> tile, region |-> P, patch |-> Widened(P)] :
        P \in {Q \in AtRim(small) : Small(Widened(Q)) /\ Excepted(Widened(Q), Masked) = exc}}

-----------------------------------------------------------------------------
(* check_neighbours: the raster is extended by the deliveries around it.    *)

Margin == MMU + 1

\* raster_extend_shifted, gdal.BuildVRT and gdalwarp; fill where no delivery is.
Extended(i) ==
    LET ncols == i.ncols + 2 * Margin
        nrows == i.nrows + 2 * Margin
        value(c) == LET d == <<c[1] - Margin, c[2] - Margin>>
                    IN  IF d \in Frame(i) THEN RawValue(i, d)
                        ELSE IF i.neighbours = "there" /\ d \in DOMAIN i.around THEN i.around[d]
                        ELSE IF i.neighbours = "there" THEN i.ground ELSE i.fill
        all == (0 .. ncols - 1) \X (0 .. nrows - 1)
        other == {c \in all : value(c) # i.ground}
    IN  [i EXCEPT !.ncols = ncols, !.nrows = nrows, !.marks = [c \in other |-> value(c)]]

MmuInit(i) ==
    /\ image = i
    /\ tile = <<0, 0>>
    /\ errors = {}
    /\ exceptions = {}
    /\ mmu = "prepare"

(* The parameters and the neighbours of a check_neighbours step.            *)
Prepare ==
    /\ mmu = "prepare"
    /\ UNCHANGED <<tile, errors, exceptions>>
    /\ \/ /\ image.neighbours = "off"
          /\ mmu' = "tiles"
          /\ UNCHANGED image
       \/ /\ image.neighbours = "no boundary"
          /\ mmu' = "aborted"
          /\ UNCHANGED image
       \/ /\ image.neighbours = "no s3"
          /\ mmu' = "failed"
          /\ UNCHANGED image
       \/ /\ image.neighbours \in {"there", "none", "lost"}
          /\ image' = Extended(image)
          /\ mmu' = "tiles"

LastTile == tile = <<Count(image.ncols) - 1, Count(image.nrows) - 1>>

NextTile ==
    IF LastTile THEN mmu' = "report" /\ UNCHANGED tile
    ELSE /\ tile' = IF tile[1] = Count(image.ncols) - 1 THEN <<0, tile[2] + 1>>
                    ELSE <<tile[1] + 1, tile[2]>>
         /\ UNCHANGED mmu

(* A tile of buffer only, or of one value, is passed over.                  *)
SkipTile ==
    /\ mmu = "tiles"
    /\ Cardinality(errors) <= MaxReported
    /\ NoInner \/ (~Outside /\ OneValue)
    /\ NextTile
    /\ UNCHANGED <<image, errors, exceptions>>

CheckTile ==
    /\ mmu = "tiles"
    /\ Cardinality(errors) <= MaxReported
    /\ ~NoInner /\ ~Outside /\ ~OneValue
    /\ LET small == SmallPatches(Values(Inner))
       IN  /\ errors' = errors \union Found(small, FALSE)
           /\ exceptions' = IF ReportExceptions THEN exceptions \union Found(small, TRUE) ELSE exceptions
    /\ NextTile
    /\ UNCHANGED image

(* None has no min(): the job ends with an error.                           *)
CrashOnTile ==
    /\ mmu = "tiles"
    /\ Cardinality(errors) <= MaxReported
    /\ ~NoInner /\ Outside
    /\ mmu' = "crashed"
    /\ UNCHANGED <<image, tile, errors, exceptions>>

(* Enough errors were found.                                                *)
StopEarly ==
    /\ mmu = "tiles"
    /\ Cardinality(errors) > MaxReported
    /\ mmu' = "report"
    /\ UNCHANGED <<image, tile, errors, exceptions>>

(* A failed download has aborted the step, which goes on all the same.      *)
Report ==
    /\ mmu = "report"
    /\ mmu' = IF image.neighbours = "lost" THEN "aborted" ELSE IF errors = {} THEN "ok" ELSE "failed"
    /\ UNCHANGED <<image, tile, errors, exceptions>>

MmuNext == Prepare \/ SkipTile \/ CheckTile \/ CrashOnTile \/ StopEarly \/ Report

MmuDone == mmu \in {"ok", "failed", "aborted", "crashed"}

-----------------------------------------------------------------------------
(* Types.                                                                   *)
MmuTypes ==
    /\ mmu \in {"prepare", "tiles", "report"} \/ MmuDone
    /\ tile \in (0 .. Count(image.ncols) - 1) \X (0 .. Count(image.nrows) - 1)
    /\ \A e \in errors \union exceptions : e.region # {} /\ e.region \subseteq e.patch /\ Small(e.patch)

\* With two or more tiles both ways, or with one tile, every tile has its buffer.
Buffered == image.ncols > BlockSize <=> image.nrows > BlockSize

\* The patches of the whole raster that are too small, and whether they are excepted.
TrueSmall == SmallPatches(Values(Frame(image)))

TrueExcepted(P) == Excepted(P, Values(Frame(image)))

(* In rasters larger than a tile both ways, or in none, what a tile shows is *)
(* true of the raster: each reported patch is a whole patch of the raster,  *)
(* not one that a tile's border cuts off, and an error or an exception by   *)
(* what is around it in the raster.                                         *)
ReportedAreTrue ==
    Buffered => /\ \A e \in errors : e.patch \in TrueSmall /\ ~TrueExcepted(e.patch)
                /\ \A e \in exceptions : e.patch \in TrueSmall /\ TrueExcepted(e.patch)

\* The pixels in the buffers of the first and the second tile, but in no inner zone.
BetweenZones(c) ==
    \E k \in {1, 2} : c[k] \in BlockSize .. BlockSize + Buffer(image) - 1

Reported == {e.patch : e \in errors}

\* The step went through all tiles; without s3 parameters it fails before the first.
Searched ==
    /\ mmu \in {"ok", "failed"} /\ image.neighbours # "no s3"
    /\ Buffered /\ Cardinality(errors) <= MaxReported

(* In these rasters, a step that went through all tiles has found every     *)
(* small patch, if the patch has a pixel in some inner zone.                *)
SmallAreReported ==
    Searched =>
        \A P \in TrueSmall :
            ~TrueExcepted(P) /\ (\E c \in P : ~BetweenZones(c)) => P \in Reported

(* Where tiles have their buffers, they find the small patches of the raster *)
(* that have a pixel in an inner zone, and nothing else.                    *)
SmallPatchesAreTrue == ReportedAreTrue /\ SmallAreReported

(* mmu.py:367: detected patches with area < MMU are in the list: also those *)
(* between the inner zones of the first and the second tile.                *)
DetectedAreReported ==
    Searched => \A P \in TrueSmall : TrueExcepted(P) \/ P \in Reported

(* mmu.py:356: the buffer of a tile must be wider than a patch that is too   *)
(* small, so that no border cuts one off: also in rasters larger than a tile *)
(* in one direction only, which are read without buffers.                   *)
BordersCutNothing == \A e \in errors : e.patch \in TrueSmall

(* The raster is read in tiles that lie in it.                              *)
NoCrash == mmu # "crashed"

(* Each error is counted once.                                              *)
CountedOnce == Cardinality(errors) = Cardinality(Reported)

=============================================================================
