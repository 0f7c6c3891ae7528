----------------------------- MODULE RasterJob -----------------------------
(***************************************************************************)
(* The steps of a job of a raster product: the checks that look at the     *)
(* layers one after the other, the gap check and the minimum mapping unit. *)
(* A step ends ok, failed or aborted; an aborted step ends the job.        *)
(***************************************************************************)
EXTENDS RasterGap, RasterMmu

CONSTANTS
    RasterInput,    \* what jobs get: steps, facts, gap, image and the parameters of the checks
    AutoIdentify    \* auto_identify_epsg

\* The checks that look at one layer after the other, and those that do not.
LayerCheck == {"attribute", "bit_depth", "cog", "color", "compress", "epsg", "nodata", "origin", "pixel_size",
               "tile", "value", "value_min_max"}

Aggregate == {"gap", "mmu"}

\* What gdal tells of a layer, as far as checks compute with it.
IsFact(f) ==
    /\ f.attrs \in {"there", "missing"}
    /\ f.cog \in {"valid", "invalid", "crashed"}
    /\ f.blocks \in Int
    /\ f.values \subseteq Int

ASSUME RasterAssumption ==
    /\ AutoIdentify \in BOOLEAN
    /\ \A i \in RasterInput :
        /\ i.steps \in Seq(LayerCheck \union Aggregate)
        /\ DOMAIN i.facts = 1 .. Len(i.facts) /\ Len(i.facts) \in Nat
        /\ \A n \in DOMAIN i.facts : IsFact(i.facts[n])
        /\ {i.blocks, i.least, i.most} \subseteq Int
        /\ IsGapJob(i.gap)
        /\ IsImage(i.image)

VARIABLES
    input,          \* the job's product and delivery; facts: per layer, what gdal tells
    step,           \* the number of the step that runs
    layerNr,        \* the layer its check is at
    status,         \* the status of that step
    outcomes,       \* the statuses of the steps that have ended
    hash            \* whose hash the job's result has

jobVars == <<input, step, layerNr, status, outcomes, hash>>
rasterVars == <<jobVars, gapVars, mmuVars>>

Check == input.steps[step]
Fact == input.facts[layerNr]

-----------------------------------------------------------------------------
(* The checks.  A layer has: rat (the attribute table), attrs, bits, cog    *)
(* (what the validator prints), table (the embedded colors), clr (the color *)
(* file), compression, srs, nodata, x, y, xres, yres, blocks, values.       *)

Attribute(f) ==
    IF f.rat = "none" THEN "failed"
    ELSE IF f.rat = "unreadable" THEN "crashed"
    ELSE IF f.attrs = "missing" THEN "failed" ELSE "ok"

BitDepth(f) == IF f.bits # input.bits THEN "failed" ELSE "ok"

\* The output of a validator that crashed has none of the phrases.
Cog(f) == IF f.cog = "invalid" THEN "failed" ELSE "ok"

HasColorTable(f) == f.bits \in {8, 16}

\* Codes missing in the embedded table, or with other colors.  The color file is
\* read only if gdal, opening the layer once more, finds no table: it has found one.
Color(f) == IF HasColorTable(f) /\ f.table # "right" THEN "failed" ELSE "ok"

Compress(f) == IF f.compression \notin input.compressions THEN "failed" ELSE "ok"

Epsg(f) ==
    IF f.srs = "none" THEN "failed"
    ELSE IF f.srs = "expected" THEN "ok"
    ELSE IF f.srs = "same, no code" /\ AutoIdentify THEN "ok"
    ELSE "aborted"

NoDataSet(f) == IF f.nodata # input.nodata THEN "aborted" ELSE "ok"

\* The grid_size that counts if the product gives none.
DefaultGrid == 1000

Grid == IF input.grid = None THEN DefaultGrid ELSE input.grid

\* The corner is on the pixels' own grid; the resolution in y is negative and
\* so never above grid_size.
OnPixels(f) == f.x % f.xres = 0 /\ f.y % f.yres = 0

OnGrid(f) == f.x % Grid = 0 /\ f.y % Grid = 0

Origin(f) ==
    IF \/ input.grid # None /\ input.grid >= f.xres /\ ~OnPixels(f)
       \/ ~OnGrid(f)
    THEN "failed" ELSE "ok"

PixelSize(f) == IF f.xres # f.yres \/ f.xres # input.pixel THEN "failed" ELSE "ok"

Tiled(f) == IF f.blocks > input.blocks THEN "aborted" ELSE "ok"

\* GetHistogram counts the values from 0 to 255, whatever the bit depth is.
HistogramMax == 255

Counted(f) == {v \in f.values : 0 <= v /\ v <= HistogramMax}

ValueCheck(f) == IF Counted(f) \subseteq input.codes THEN "ok" ELSE "failed"

ValueMinMax(f) == IF \E v \in f.values : v < input.least \/ v > input.most THEN "failed" ELSE "ok"

Finding(check, f) ==
    CASE check = "attribute" -> Attribute(f)
      [] check = "bit_depth" -> BitDepth(f)
      [] check = "cog" -> Cog(f)
      [] check = "color" -> Color(f)
      [] check = "compress" -> Compress(f)
      [] check = "epsg" -> Epsg(f)
      [] check = "nodata" -> NoDataSet(f)
      [] check = "origin" -> Origin(f)
      [] check = "pixel_size" -> PixelSize(f)
      [] check = "tile" -> Tiled(f)
      [] check = "value" -> ValueCheck(f)
      [] check = "value_min_max" -> ValueMinMax(f)

\* A check that returns at its first finding (a mutant).
ReturnsEarly(check, f) == check = "nodata" \/ (check = "color" /\ f.table # "missing")

\* Where the check returns instead of going on with the next layer.
Returns(check, f) ==
    \/ check = "color" /\ (~HasColorTable(f) \/ f.table = "missing")
    \/ check = "pixel_size" /\ f.xres # f.yres

Worse(s, t) == IF "aborted" \in {s, t} THEN "aborted" ELSE IF "failed" \in {s, t} THEN "failed" ELSE "ok"

-----------------------------------------------------------------------------
RasterInit ==
    /\ input \in RasterInput
    /\ step = 1
    /\ layerNr = 1
    /\ status = "ok"
    /\ outcomes = <<>>
    /\ hash = "delivery"
    /\ GapInit(input.gap)
    /\ MmuInit(input.image)

Running == step <= Len(input.steps)

EndStep(s) ==
    /\ outcomes' = Append(outcomes, s)
    /\ step' = IF s \in {"aborted", "crashed"} THEN Len(input.steps) + 1 ELSE step + 1
    /\ layerNr' = 1
    /\ status' = "ok"

CheckLayer ==
    /\ Running /\ Check \notin Aggregate
    /\ layerNr <= Len(input.facts)
    /\ LET found == Finding(Check, Fact)
       IN  IF found = "crashed" THEN EndStep("crashed")
           ELSE /\ status' = Worse(status, found)
                /\ layerNr' = IF Returns(Check, Fact) THEN Len(input.facts) + 1 ELSE layerNr + 1
                /\ UNCHANGED <<step, outcomes>>
    /\ UNCHANGED <<input, hash, gapVars, mmuVars>>

LayersChecked ==
    /\ Running /\ Check \notin Aggregate
    /\ layerNr > Len(input.facts)
    /\ EndStep(status)
    /\ UNCHANGED <<input, hash, gapVars, mmuVars>>

GapStep ==
    /\ Running /\ Check = "gap" /\ ~GapDone
    /\ GapNext
    /\ UNCHANGED <<jobVars, mmuVars>>

GapEnds ==
    /\ Running /\ Check = "gap" /\ GapDone
    /\ EndStep(GapVerdict)
    /\ UNCHANGED <<input, hash, gapVars, mmuVars>>

(* The download of the neighbours leaves their hash in the job's result.    *)
MmuStep ==
    /\ Running /\ Check = "mmu" /\ ~MmuDone
    /\ MmuNext
    /\ hash' = IF mmu = "prepare" /\ image.neighbours = "there" THEN "neighbour" ELSE hash
    /\ UNCHANGED <<input, step, layerNr, status, outcomes, gapVars>>

MmuEnds ==
    /\ Running /\ Check = "mmu" /\ MmuDone
    /\ EndStep(mmu)
    /\ UNCHANGED <<input, hash, gapVars, mmuVars>>

RasterNext == CheckLayer \/ LayersChecked \/ GapStep \/ GapEnds \/ MmuStep \/ MmuEnds

RasterSpec == RasterInit /\ [][RasterNext]_rasterVars

-----------------------------------------------------------------------------
(* Types.                                                                   *)
RasterTypes ==
    /\ step \in 1 .. Len(input.steps) + 1
    /\ layerNr \in 1 .. Len(input.facts) + 1
    /\ status \in {"ok", "failed", "aborted"}
    /\ outcomes \in Seq({"ok", "failed", "aborted", "crashed"}) /\ Len(outcomes) <= Len(input.steps)
    /\ hash \in {"delivery", "neighbour"}
    /\ GapTypes
    /\ MmuTypes

\* What the description of a check says of a layer.
Meets(check, f) ==
    CASE check = "attribute" -> f.rat # "none" /\ f.attrs = "there"
      [] check = "bit_depth" -> f.bits = input.bits
      [] check = "cog" -> f.cog = "valid"
      [] check = "color" -> HasColorTable(f) => f.table = "right"
      [] check = "compress" -> f.compression \in input.compressions
      [] check = "epsg" -> f.srs = "expected" \/ (AutoIdentify /\ f.srs = "same, no code")
      [] check = "nodata" -> f.nodata = input.nodata
      [] check = "origin" -> OnGrid(f) /\ (input.grid # None /\ input.grid >= f.xres => OnPixels(f))
      [] check = "pixel_size" -> f.xres = input.pixel /\ f.yres = input.pixel
      [] check = "tile" -> f.blocks <= input.blocks
      [] check = "value" -> f.values \subseteq input.codes
      [] check = "value_min_max" -> \A v \in f.values : input.least <= v /\ v <= input.most

\* What the checks accept of a layer: where it differs from their descriptions, a
\* validator that crashes, and values the histogram leaves out.
Accepts(check, f) ==
    CASE check = "cog" -> f.cog # "invalid"
      [] check = "value" -> Counted(f) \subseteq input.codes
      [] OTHER -> Meets(check, f)

\* The layers a check looks at: all of them, but for the colors of layers after
\* the first one that can have no color table.
LookedAt(check) ==
    {n \in DOMAIN input.facts :
        check = "color" => \A m \in DOMAIN input.facts : m < n => HasColorTable(input.facts[m])}

\* A crash is no verdict.
Verdict(k, good) == outcomes[k] # "crashed" => (outcomes[k] = "ok" <=> good)

AllAccepted(k) == \A n \in LookedAt(input.steps[k]) : Accepts(input.steps[k], input.facts[n])

AllMeet(k) == \A n \in DOMAIN input.facts : Meets(input.steps[k], input.facts[n])

(* The verdict on a delivery is the one on its layers together, whatever    *)
(* their order is, whichever comes to grief first and wherever a check      *)
(* returns: a step ends ok if and only if it accepts every layer it looks   *)
(* at.  The color check looks at none after one that can have no color      *)
(* table (color.py:65); that those count as well is EveryLayerCounts, which *)
(* does not hold.                                                           *)
VerdictOfLayers ==
    \A k \in DOMAIN outcomes : input.steps[k] \notin Aggregate => Verdict(k, AllAccepted(k))

(* All layers count, and meet the descriptions of the checks: color.py:7,   *)
(* cog.py:5 and value.py:5.                                                 *)
EveryLayerCounts ==
    \A k \in DOMAIN outcomes : input.steps[k] \notin Aggregate => Verdict(k, AllMeet(k))

(* helper.py:89: the hash in the result is the one of the delivery.         *)
HashOfDelivery == hash = "delivery"

=============================================================================
