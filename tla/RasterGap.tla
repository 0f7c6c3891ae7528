----------------------------- MODULE RasterGap -----------------------------
(***************************************************************************)
(* The gap check of rasters (raster/gap.py, raster/helper.py).  A mask     *)
(* says which pixels of the area of interest are mapped; a layer has a gap *)
(* where the mask has 1 and the layer has the value of unmapped area, or   *)
(* does not reach.  The mask comes with the boundary package or is made    *)
(* from a vector layer, and it is compared with the layer tile by tile.    *)
(*                                                                         *)
(* Coordinates are integers, x to the right and y upwards; a raster with   *)
(* its upper left corner at x, y has pixels <<column, row>> of res units.  *)
(***************************************************************************)
EXTENDS Integers, FiniteSets, Sequences

CONSTANTS
    GapBlock,       \* BLOCKSIZE of the tiles of the mask
    AlignGrid,      \* mask_align_grid
    ByNoData,       \* "NODATA" for outside_area_code
    None            \* no value, no mask

ASSUME GapAssumption ==
    /\ GapBlock \in Nat \ {0} /\ AlignGrid \in Nat
    /\ None \notin Int /\ None \notin Int \X Int

VARIABLES
    job,            \* [layers, masks, unit, outside]: masks: resolution to mask; unit: the vector boundary or None
    current,        \* the number of the layer that is compared
    mask,           \* its mask
    gapTile,        \* <<column, row>> of the next tile of the mask, or None
    gapValue,       \* gap_value_ds
    gapPixels,      \* per layer: the mask's pixels that are gaps
    verdicts        \* per layer: what was found

gapVars == <<job, current, mask, gapTile, gapValue, gapPixels, verdicts>>

Layers == DOMAIN job.layers
Raster == job.layers[current]

-----------------------------------------------------------------------------
(* What a job can get: rasters as gdal opens them, masks, and units.        *)

Pixels(r) == (0 .. r.ncols - 1) \X (0 .. r.nrows - 1)

IsLayer(r) ==
    /\ {r.x, r.y, r.ncols, r.nrows} \subseteq Int /\ r.res \in Nat \ {0}
    /\ DOMAIN r.values = Pixels(r)

IsMask(m) ==
    /\ {m.x, m.y, m.ncols, m.nrows} \subseteq Int /\ m.res \in Nat \ {0}
    /\ m.ones \subseteq Pixels(m)

IsGapJob(j) ==
    /\ Len(j.layers) \in Nat /\ DOMAIN j.layers = 1 .. Len(j.layers)
    /\ \A n \in DOMAIN j.layers : IsLayer(j.layers[n])
    /\ \A res \in DOMAIN j.masks : IsMask(j.masks[res])
    /\ j.unit = None \/ {j.unit.x1, j.unit.x2, j.unit.y1, j.unit.y2} \subseteq Int

-----------------------------------------------------------------------------
(* Extents and tiles.                                                       *)

Right(r) == r.x + r.ncols * r.res
Bottom(r) == r.y - r.nrows * r.res

LesserOf(a, b) == IF a < b THEN a ELSE b
GreaterOf(a, b) == IF a > b THEN a ELSE b

Blocks(n) == (n + GapBlock - 1) \div GapBlock

\* find_tiles: the pixels of a tile, and its extent.
TilePixels(t) ==
    (t[1] * GapBlock .. LesserOf((t[1] + 1) * GapBlock, mask.ncols) - 1) \X
    (t[2] * GapBlock .. LesserOf((t[2] + 1) * GapBlock, mask.nrows) - 1)

TileExtent(t) ==
    LET cols == LesserOf(GapBlock, mask.ncols - t[1] * GapBlock)
        rows == LesserOf(GapBlock, mask.nrows - t[2] * GapBlock)
        x1 == mask.x + t[1] * GapBlock * mask.res
        y2 == mask.y - t[2] * GapBlock * mask.res
    IN  [x1 |-> x1, x2 |-> x1 + cols * mask.res, y1 |-> y2 - rows * mask.res, y2 |-> y2]

OutsideRaster(t) ==
    LET e == TileExtent(t)
    IN  e.x2 < Raster.x \/ e.x1 > Right(Raster) \/ e.y1 > Raster.y \/ e.y2 < Bottom(Raster)

\* The common rectangle of a tile and the raster.
Common(t) ==
    LET e == TileExtent(t)
    IN  [x1 |-> GreaterOf(e.x1, Raster.x), x2 |-> LesserOf(e.x2, Right(Raster)),
         y1 |-> GreaterOf(e.y1, Bottom(Raster)), y2 |-> LesserOf(e.y2, Raster.y)]

\* The pixel of the raster is counted from the tile's corner (a mutant).
ReadFromCorner(t, c) ==
    LET r == Common(t)
        col == c[1] - t[1] * GapBlock
        row == c[2] - t[2] * GapBlock
    IN  IF /\ r.x1 < r.x2 /\ r.y1 < r.y2
           /\ col < (r.x2 - r.x1) \div Raster.res
           /\ row < (r.y2 - r.y1) \div Raster.res
        THEN Raster.values[<<(r.x1 - Raster.x) \div Raster.res + col, (Raster.y - r.y2) \div Raster.res + row>>]
        ELSE gapValue

\* read_tile: the raster's value at pixel c of the mask, in tile t.
ReadTile(t, c) ==
    LET r == Common(t)
        e == TileExtent(t)
        col == c[1] - t[1] * GapBlock - ((r.x1 - e.x1) \div Raster.res)
        row == c[2] - t[2] * GapBlock - ((e.y2 - r.y2) \div Raster.res)
    IN  IF /\ r.x1 < r.x2 /\ r.y1 < r.y2
           /\ col \in 0 .. (r.x2 - r.x1) \div Raster.res - 1
           /\ row \in 0 .. (r.y2 - r.y1) \div Raster.res - 1
        THEN Raster.values[<<(r.x1 - Raster.x) \div Raster.res + col, (Raster.y - r.y2) \div Raster.res + row>>]
        ELSE gapValue

-----------------------------------------------------------------------------
(* The mask.                                                                *)

Burnt(unit, x, y, ncols, nrows, res) ==
    [x |-> x, y |-> y, ncols |-> ncols, nrows |-> nrows, res |-> res, nodata |-> None,
     ones |-> {c \in (0 .. ncols - 1) \X (0 .. nrows - 1) :
                  /\ 2 * (x + c[1] * res) + res \in 2 * unit.x1 .. 2 * unit.x2
                  /\ 2 * (y - c[2] * res) - res \in 2 * unit.y1 .. 2 * unit.y2}]

\* The largest number below n, and the least above it, that is a multiple of m off from o.
FloorTo(n, o, m) == o + ((n - o) \div m) * m
CeilTo(n, o, m) == -FloorTo(-n, -o, m)

\* rasterize_mask: aligned with the origin of the coordinates, or else with the raster.
RasterizeMask(unit, r) ==
    IF AlignGrid >= r.res
    THEN LET x == FloorTo(unit.x1, 0, r.res)
             y == CeilTo(unit.y2, 0, r.res)
         IN  Burnt(unit, x, y, (CeilTo(unit.x2, 0, r.res) - x) \div r.res,
                   (y - FloorTo(unit.y1, 0, r.res)) \div r.res, r.res)
    ELSE LET x == FloorTo(unit.x1, r.x, r.res)
             y == CeilTo(unit.y2, r.y, r.res)
         IN  Burnt(unit, x, y, (2 * (unit.x2 - x) + r.res) \div (2 * r.res),
                   (2 * (y - unit.y1) + r.res) \div (2 * r.res), r.res)

MaskOf(r) ==
    IF job.unit # None THEN RasterizeMask(job.unit, r)
    ELSE IF r.res \in DOMAIN job.masks THEN job.masks[r.res] ELSE None

-----------------------------------------------------------------------------
GapInit(j) ==
    /\ job = j
    /\ current = 1
    /\ mask = None
    /\ gapTile = None
    /\ gapValue = j.outside
    /\ gapPixels = [n \in DOMAIN j.layers |-> {}]
    /\ verdicts = [n \in DOMAIN j.layers |-> "pending"]

\* The mask reaches as far from the raster's corner as it is large (lines 85 and 86),
\* so that no mask ends before the raster begins.
Apart(m, r) ==
    \/ m.x > Right(r) \/ m.y < Bottom(r)
    \/ r.x + m.ncols * m.res < r.x \/ r.y - m.nrows * m.res > r.y

\* What is wrong with a layer and its mask, in the order of the code.  In Python, a
\* remainder has the sign of the divisor: that by the negative y resolution is never > 0.
Mismatch(m, r) ==
    IF Apart(m, r) THEN "apart"
    ELSE IF r.res # m.res THEN "resolution"
    ELSE IF ~r.whole THEN "origin"
    ELSE IF (r.x - m.x) % r.res > 0 THEN "x"
    ELSE "none"

(* Without a mask the step ends, whatever the other layers are.             *)
NoMask ==
    /\ current \in Layers /\ verdicts[current] = "pending" /\ gapTile = None
    /\ MaskOf(Raster) = None
    /\ verdicts' = [verdicts EXCEPT ![current] = "no mask"]
    /\ current' = Len(job.layers) + 1
    /\ UNCHANGED <<job, mask, gapTile, gapValue, gapPixels>>

RefuseLayer ==
    /\ current \in Layers /\ verdicts[current] = "pending" /\ gapTile = None
    /\ MaskOf(Raster) # None
    /\ LET found == Mismatch(MaskOf(Raster), Raster)
       IN  found # "none" /\ verdicts' = [verdicts EXCEPT ![current] = found]
    /\ current' = current + 1
    /\ UNCHANGED <<job, mask, gapTile, gapValue, gapPixels>>

\* The NoData value of the first layer stays the value of unmapped area.
BeginLayer ==
    /\ current \in Layers /\ verdicts[current] = "pending" /\ gapTile = None
    /\ MaskOf(Raster) # None /\ Mismatch(MaskOf(Raster), Raster) = "none"
    /\ mask' = MaskOf(Raster)
    /\ gapTile' = <<0, 0>>
    /\ gapValue' = IF gapValue = ByNoData THEN Raster.nodata ELSE gapValue
    /\ UNCHANGED <<job, current, gapPixels, verdicts>>

NextGapTile ==
    gapTile' = IF gapTile[1] < Blocks(mask.ncols) - 1 THEN <<gapTile[1] + 1, gapTile[2]>>
               ELSE IF gapTile[2] < Blocks(mask.nrows) - 1 THEN <<0, gapTile[2] + 1>>
               ELSE <<0, Blocks(mask.nrows)>>

MoreTiles == gapTile # None /\ gapTile[2] < Blocks(mask.nrows)

\* The tile has nothing to map, or its least value is the mask's NoData.
Unmapped ==
    LET ones == mask.ones \cap TilePixels(gapTile)
    IN  ones = {} \/ (mask.nodata = 0 /\ ones # TilePixels(gapTile))

SkipUnmapped ==
    /\ MoreTiles
    /\ Unmapped
    /\ NextGapTile
    /\ UNCHANGED <<job, current, mask, gapValue, gapPixels, verdicts>>

\* read_tile multiplies ones by the value of unmapped area, which a layer without a
\* NoData value does not give.
Comparable == OutsideRaster(gapTile) \/ gapValue # None

\* The common rectangle is less than a pixel high, which is left to gdal.
ReadsNothing(t) ==
    LET r == Common(t)
    IN  r.x1 < r.x2 /\ r.y1 < r.y2 /\ (r.y2 - r.y1) \div Raster.res = 0

CompareTile ==
    /\ MoreTiles
    /\ ~Unmapped /\ Comparable
    /\ LET gaps == {c \in mask.ones \cap TilePixels(gapTile) :
                       OutsideRaster(gapTile) \/ ReadTile(gapTile, c) = gapValue}
       IN  gapPixels' = [gapPixels EXCEPT ![current] = @ \union gaps]
    /\ NextGapTile
    /\ UNCHANGED <<job, current, mask, gapValue, verdicts>>

(* The exception ends the step, whatever the other layers are.             *)
CrashTile ==
    /\ MoreTiles
    /\ ~Unmapped /\ ~OutsideRaster(gapTile)
    /\ ~Comparable \/ ReadsNothing(gapTile)
    /\ verdicts' = [verdicts EXCEPT ![current] = "crashed"]
    /\ current' = Len(job.layers) + 1
    /\ gapTile' = None
    /\ UNCHANGED <<job, mask, gapValue, gapPixels>>

FinishLayer ==
    /\ gapTile # None /\ ~MoreTiles
    /\ verdicts' = [verdicts EXCEPT ![current] = IF gapPixels[current] = {} THEN "ok" ELSE "gaps"]
    /\ current' = current + 1
    /\ gapTile' = None
    /\ UNCHANGED <<job, mask, gapValue, gapPixels>>

GapNext == NoMask \/ RefuseLayer \/ BeginLayer \/ SkipUnmapped \/ CompareTile \/ CrashTile \/ FinishLayer

GapDone == current > Len(job.layers)

GapVerdict ==
    IF \E n \in Layers : verdicts[n] = "crashed" THEN "crashed"
    ELSE IF \A n \in Layers : verdicts[n] \in {"ok", "pending"} THEN "ok" ELSE "failed"

-----------------------------------------------------------------------------
(* Types.                                                                   *)
GapTypes ==
    /\ current \in 1 .. Len(job.layers) + 1
    /\ \A n \in Layers :
        /\ verdicts[n] \in {"pending", "ok", "gaps", "no mask", "apart", "resolution", "origin", "x", "crashed"}
        /\ n > current => verdicts[n] = "pending" /\ gapPixels[n] = {}
    /\ GapDone => gapTile = None

\* The pixel of layer r that pixel c of mask m lies on.
Spot(m, r, c) == <<(m.x - r.x) \div r.res + c[1], (r.y - m.y) \div r.res + c[2]>>

\* Layer r does not reach spot p, or has the value v of unmapped area there.
IsGap(r, p, v) == p \notin DOMAIN r.values \/ r.values[p] = v

OutsideValue(r) == IF job.outside = ByNoData THEN r.nodata ELSE job.outside

\* The gaps of layer n under its mask, spot by spot.
TrueGaps(n) ==
    LET r == job.layers[n]
        m == MaskOf(r)
    IN  {c \in m.ones : IsGap(r, Spot(m, r, c), OutsideValue(r))}

\* The pixels of the mask are pixels of the layer.
Aligned(m, r) == m.res = r.res /\ (r.x - m.x) % r.res = 0 /\ (r.y - m.y) % r.res = 0

\* All layers have one NoData value.
OneNoData == \A n, k \in Layers : job.layers[n].nodata = job.layers[k].nodata

Compared(n) == verdicts[n] \in {"ok", "gaps"} /\ Aligned(MaskOf(job.layers[n]), job.layers[n])

(* However the tiles of the mask lie across the layer, no gap is reported   *)
(* where the layer has data.                                                *)
GapsAreGaps == \A n \in Layers : Compared(n) /\ OneNoData => gapPixels[n] \subseteq TrueGaps(n)

(* Every gap is reported if the mask has no NoData value, as the masks made *)
(* from vector boundaries have none.                                        *)
AllGapsFound ==
    \A n \in Layers :
        Compared(n) /\ OneNoData /\ MaskOf(job.layers[n]).nodata = None => TrueGaps(n) \subseteq gapPixels[n]

(* A mask that is aligned with the raster itself is never refused for its   *)
(* alignment or its resolution, and its pixels are pixels of the raster.    *)
OwnMaskFits ==
    \A n \in Layers :
        LET r == job.layers[n]
        IN  job.unit # None /\ AlignGrid < r.res =>
                verdicts[n] \notin {"x", "resolution"} /\ Aligned(MaskOf(r), r)

(* However mask, tiles and layer lie on each other, the pixels reported are *)
(* the gaps, and a mask made for the layer fits it.                         *)
MissingDataIsTrue == GapsAreGaps /\ AllGapsFound /\ OwnMaskFits

(* gap.py:157: a tile is skipped if the mask has all values unmapped.       *)
OnlyUnmappedSkipped ==
    \A n \in Layers : Compared(n) /\ OneNoData => TrueGaps(n) \subseteq gapPixels[n]

(* gap.py:114: the origin of the mask is aligned with the raster's origin.  *)
OriginsAligned ==
    \A n \in Layers : verdicts[n] \in {"ok", "gaps"} => Aligned(MaskOf(job.layers[n]), job.layers[n])

(* The gaps of a layer are those of its own NoData value.                   *)
OwnNoData ==
    \A n \in Layers :
        Compared(n) /\ MaskOf(job.layers[n]).nodata = None => TrueGaps(n) \subseteq gapPixels[n]

=============================================================================
