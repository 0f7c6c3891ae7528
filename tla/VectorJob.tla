----------------------------- MODULE VectorJob -----------------------------
(***************************************************************************)
(* The steps of a job of a vector product: the delivery is unzipped or     *)
(* downloaded, its layers are named (module Naming) and imported, and the  *)
(* checks of their features (module FeatureChecks) follow, a layer after   *)
(* the other.  A step ends ok, cancelled, failed or aborted; an aborted    *)
(* one ends the job, as does an exception ("crashed").                     *)
(***************************************************************************)
EXTENDS Naming, FeatureChecks

CONSTANTS
    VectorInput     \* what jobs get: steps (records with the parameters), naming, contents (the
                    \* layers' features by file), boundary (its code), archive, objects, pixels

VARIABLES
    input,          \* the job's product and delivery
    step,           \* the number of the step that runs
    layerNr,        \* the layer its check is at
    status,         \* the status of that step
    found,          \* what it found: [layer, tables, shrunk], the boundary as it was then
    outcomes,       \* the statuses of the steps that have ended
    imported,       \* the layers with a pg_layer_name, and those loaded entirely
    shrunk,         \* by how much the boundary has been shrunk
    hash            \* what the hash of the job's result is of

jobVars == <<input, step, layerNr, status, found, outcomes, imported, shrunk, hash>>
vectorVars == <<jobVars, namingVars>>

Running == step <= Len(input.steps)
Step == input.steps[step]

-----------------------------------------------------------------------------

\* The checks that ask whether they are to be skipped.
SkipAware == {"area", "layer_area", "geometry", "singlepart", "enum", "neighbour", "overlap", "epsg",
              "attribute", "attribute_csv", "import"}

OfFiles == {"epsg", "epsg_clc", "attribute", "attribute_csv", "import"}

\* The checks that go from layer to layer.
OfLayers(s) == s.check \notin {"unzip", "s3_download", "naming", "document"}

Bufferzone == Step.check = "gap" /\ Step.buffer > 0

(* What a check finds in a layer.  first: no layer of the step came before; *)
(* inside: by how much the boundary has been shrunk.                        *)
Tables(s, layer, first, inside) ==
    CASE s.check = "mmu"           -> Mmu(layer)
      [] s.check = "mmw"           -> Mmw(layer)
      [] s.check = "change"        -> Change(s, layer)
      [] s.check = "geometry"      -> Geometry(layer)
      [] s.check = "singlepart"    -> Singlepart(layer)
      [] s.check = "compactness"   -> Compactness(s, layer)
      [] s.check = "mxmu"          -> Mxmu(s, layer)
      [] s.check = "mxmw"          -> Mxmw(layer)
      [] s.check = "mml"           -> Mml(layer)
      [] s.check = "area"          -> Area(s, layer)
      [] s.check = "non_probable"  -> NonProbable(s, layer)
      [] s.check = "unique"        -> Unique(s, layer)
      [] s.check = "constant"      -> Constant(s, layer)
      [] s.check = "enum"          -> Enum(s, layer, first)
      [] s.check = "nodata"        -> NoDataValue(s, layer)
      [] s.check = "condition"     -> Condition(s, layer)
      [] s.check = "condition_sql" -> ConditionSql(layer)
      [] s.check = "neighbour"     -> Neighbour(s, layer)
      [] s.check = "overlap"       -> Overlap(s, layer)
      [] s.check = "gap"           -> IF s.buffer > 0 THEN GapBufferzone(s, layer, inside) ELSE Gap(s, layer, inside)
      [] s.check = "attribute"     -> Attribute(s, layer, AttributeTypes)
      [] s.check = "attribute_csv" -> Attribute(s, layer, CsvTypes)
      [] OTHER                     -> [none |-> {}]

Told == {"general", "exception", "warning", "tiny", "gap_exception",
         "interior_small", "bufferzone_small", "bufferzone_large"}

Fatal == {"invalid", "multi", "missing", "bad_type"}

\* Invalid geometries are only errors, not the end (a mutant).
WordMild(table, items) ==
    IF items = {} \/ table \in Told THEN "ok" ELSE IF table \in Fatal \ {"invalid"} THEN "aborted" ELSE "failed"

\* The word the step gets for a table: none for an empty one.
Word(table, items) ==
    IF items = {} \/ table \in Told THEN "ok" ELSE IF table \in Fatal THEN "aborted" ELSE "failed"

Crashes(s, layer) ==
    \/ s.check = "area" /\ DividesByZero(s, layer)
    \/ s.check \in {"attribute", "attribute_csv"} /\ NamelessType(s, layer)

(* layer_area.py: a vector layer without any of the codes has no area, which *)
(* is no number unless the raster has none either.                           *)
LayerArea(s, layer) ==
    LET rows == {f \in Fids(layer) : Feature(layer, f).x \in s.vectorCodes}
        area == MapThenSumSet(LAMBDA f : Feature(layer, f).measured, rows)
    IN  IF rows = {} THEN IF input.pixels = 0 THEN "ok" ELSE "crashed"
        ELSE IF area = 0 THEN "crashed"
        ELSE IF 100 * Distance(input.pixels, area) > s.tolerance * area THEN "failed" ELSE "ok"

Verdict(s, layer, tables, first) ==
    IF Crashes(s, layer) THEN "crashed"
    ELSE IF s.check = "epsg" THEN IF EpsgIsWrong(s, layer) THEN "aborted" ELSE "ok"
    ELSE IF s.check = "epsg_clc" THEN EpsgClc(layer, IF "boundary" \in DOMAIN defs THEN input.boundary ELSE "none")
    ELSE IF s.check = "layer_area" THEN LayerArea(s, layer)
    ELSE WorstOf({Word(t, tables[t]) : t \in DOMAIN tables})

\* Where the check returns instead of going on with the next layer.
Returns(s, layer, verdict) ==
    \/ s.check \in {"neighbour", "overlap"} /\ NoFeature(layer)
    \/ s.check = "epsg_clc" /\ verdict # "ok"

-----------------------------------------------------------------------------
(* What products and deliveries are like (product_definitions/*.json): the   *)
(* layers are named before anything else is done with them.                  *)
IsSeq(s) == s \in Seq(ToSet(s))

IsLayer(l) ==
    /\ IsSeq(l.features)
    /\ \A f \in Fids(l) : \A c \in {"x", "y", "z", "area", "measured", "compact", "rings"} : Feature(l, f)[c] \in Int
    /\ l.touching \subseteq Fids(l) \X Fids(l)
    /\ \A o \in l.overlaps : o.pair # {}
    /\ \A g \in DOMAIN l.gaps : /\ {l.gaps[g].small, l.gaps[g].core} \subseteq BOOLEAN
                                /\ l.gaps[g].deep \in Int
    /\ l.srs.authority \in {"none", "EPSG", "other"}

Operators == {"=", "<>", "!=", ">", "<", ">=", "<=", "is null", "is not null"}

IsStep(s, aliases) ==
    /\ "layers" \in DOMAIN s => /\ IsSeq(s.layers) /\ ToSet(s.layers) \subseteq aliases
                                /\ s.check # "import"
    /\ s.check \in {"unique", "constant"} => s.keys \subseteq {"x", "y", "z"}
    /\ s.check = "compactness" => {s.threshold, s.linear, s.patchy} \subseteq Int \ {Null}
    /\ s.check = "mxmu" => s.mxmu \in Nat
    /\ s.check = "area" => s.tolerance \in Nat
    /\ s.check = "nodata" => IsSeq(s.deps) /\ s.deps # <<>>
    /\ s.check = "enum" => DOMAIN s.codes \subseteq {"x", "y", "z"}
    /\ s.check = "condition" => /\ DOMAIN s.rules \intersect Told = {}
                                /\ \A r \in DOMAIN s.rules : \A c \in s.rules[r] :
                                       c.value \in Int /\ c.op \in Operators
    /\ s.check = "gap" => s.boundaryTolerance \in Nat
    /\ s.check \in {"attribute", "attribute_csv"} => s.ignored \intersect DOMAIN s.required = {}

IsNaming(n) ==
    /\ IsSeq(n.aliases) /\ "boundary" \notin ToSet(n.aliases)
    /\ n.takeAll => n.aliases = <<>>
    /\ IsSeq(n.files)

IsVectorJob(i) ==
    /\ IsNaming(i.naming)
    /\ IsSeq(i.steps)
    /\ \E n \in DOMAIN i.steps :
           /\ \A k \in DOMAIN i.steps : i.steps[k].check = "naming" <=> k = n
           /\ \A k \in DOMAIN i.steps : OfLayers(i.steps[k]) =>
                  /\ n < k
                  /\ i.naming.excluded # {} => i.steps[k].check \in SkipAware
                  /\ i.naming.boundaries \union {i.naming.files[j].file : j \in DOMAIN i.naming.files} \subseteq DOMAIN i.contents
    /\ \A k \in DOMAIN i.steps : IsStep(i.steps[k], ToSet(i.naming.aliases))
    /\ \A file \in DOMAIN i.contents : IsLayer(i.contents[file])

ASSUME VectorAssumption == \A i \in VectorInput : IsVectorJob(i)

-----------------------------------------------------------------------------
VectorInit ==
    /\ input \in VectorInput
    /\ step = 1 /\ layerNr = 1
    /\ status = "ok" /\ found = {}
    /\ outcomes = <<>>
    /\ imported = [named |-> {}, whole |-> {}]
    /\ shrunk = 0
    /\ hash = IF input.steps[1].check = "s3_download" THEN "none" ELSE "delivery"
    /\ NamingInit(input.naming)

(* do_layers: the layers the product tells, or all there are, the boundary  *)
(* the last one; without layer_names in the order in which they were found. *)
LayersOf(s) ==
    IF "layers" \in DOMAIN s THEN s.layers
    ELSE IF naming.takeAll THEN SetToSeq(DOMAIN defs)
    ELSE IF "boundary" \in DOMAIN defs THEN Append(naming.aliases, "boundary")
    ELSE naming.aliases

Layers == LayersOf(Step)

Content(alias) == input.contents[defs[alias].file]

EndStep(s) ==
    /\ outcomes' = Append(outcomes, s)
    /\ step' = IF s \in {"aborted", "crashed"} THEN Len(input.steps) + 1 ELSE step + 1
    /\ layerNr' = 1 /\ status' = "ok" /\ found' = {}

Excluded == skip /\ Step.check \in SkipAware

(* A delivery that is no zip archive, by its name or its content.           *)
Unzip ==
    /\ Running /\ Step.check = "unzip"
    /\ EndStep(IF input.archive = "zip" THEN "ok" ELSE "aborted")
    /\ UNCHANGED <<input, imported, shrunk, hash, namingVars>>

(* The objects of the bucket are downloaded until one is a zip archive; its  *)
(* hash, or that of the directory, becomes the hash of the job's result.     *)
S3Download ==
    /\ Running /\ Step.check = "s3_download"
    /\ LET zips == {i \in DOMAIN input.objects : input.objects[i].zip}
           last == IF zips = {} THEN Len(input.objects) ELSE CHOOSE i \in zips : \A j \in zips : i <= j
           lost == \E i \in 1 .. last : ~input.objects[i].comes
       IN  /\ EndStep(IF input.objects = <<>> \/ lost THEN "aborted" ELSE "ok")
           /\ hash' = IF input.objects = <<>> \/ lost THEN hash ELSE IF zips = {} THEN "directory" ELSE "archive"
    /\ UNCHANGED <<input, imported, shrunk, namingVars>>

NamingStep ==
    /\ Running /\ Step.check = "naming" /\ ~NamingDone
    /\ NamingNext
    /\ UNCHANGED jobVars

NamingEnds ==
    /\ Running /\ Step.check = "naming" /\ NamingDone
    /\ EndStep(severity)
    /\ UNCHANGED <<input, imported, shrunk, hash, namingVars>>

(* All layers are imported, the boundary too; a layer that ogr2ogr did not   *)
(* fail on may be missing in the database, or have fewer features.           *)
ImportLayer ==
    /\ Running /\ Step.check = "import" /\ ~Excluded
    /\ layerNr <= Len(Layers)
    /\ LET alias == Layers[layerNr]
           loads == Content(alias).loads
       IN  /\ status' = Worst(status, IF loads = "all" THEN "ok" ELSE "aborted")
           /\ imported' = [named |-> imported.named \union IF loads \in {"all", "part"} THEN {alias} ELSE {},
                           whole |-> imported.whole \union IF loads = "all" THEN {alias} ELSE {}]
    /\ layerNr' = layerNr + 1
    /\ UNCHANGED <<input, step, found, outcomes, shrunk, hash, namingVars>>

(* The gap check shrinks the boundary for every layer, in its variant with a *)
(* buffer zone for every step.                                               *)
Shrinks == Step.check = "gap" /\ Step.boundaryTolerance > 0 /\ (Bufferzone => layerNr = 1)

NoBoundary == Step.check = "gap" /\ "boundary" \notin DOMAIN defs

PerLayer == OfLayers(Step) /\ Step.check # "import"

CheckLayer ==
    /\ Running /\ PerLayer /\ ~Excluded /\ ~NoBoundary
    /\ layerNr <= Len(Layers)
    /\ shrunk' = IF Shrinks THEN shrunk + Step.boundaryTolerance ELSE shrunk
    /\ LET alias   == Layers[layerNr]
           layer   == Content(alias)
           tables  == Tables(Step, layer, layerNr = 1, shrunk')
           verdict == Verdict(Step, layer, tables, layerNr = 1)
       IN  IF verdict = "crashed" \/ (Step.check \notin OfFiles /\ alias \notin imported.named)
           THEN EndStep("crashed")
           ELSE /\ status' = Worst(status, verdict)
                /\ found' = found \union {[layer |-> alias, tables |-> tables, shrunk |-> shrunk']}
                /\ layerNr' = IF Returns(Step, layer, verdict) THEN Len(Layers) + 1 ELSE layerNr + 1
                /\ UNCHANGED <<step, outcomes>>
    /\ UNCHANGED <<input, imported, hash, namingVars>>

(* document.py: a document for each expression; the message counts the last. *)
CheckDocuments ==
    /\ Running /\ Step.check = "document"
    /\ EndStep(IF Step.documents \subseteq input.documents THEN "ok" ELSE "failed")
    /\ UNCHANGED <<input, imported, shrunk, hash, namingVars>>

LayersChecked ==
    /\ Running /\ OfLayers(Step)
    /\ Excluded \/ NoBoundary \/ layerNr > Len(Layers)
    /\ EndStep(IF ~Excluded /\ NoBoundary THEN "cancelled" ELSE status)
    /\ UNCHANGED <<input, imported, shrunk, hash, namingVars>>

Ended == ~Running /\ UNCHANGED vectorVars

VectorNext ==
    \/ Unzip \/ S3Download \/ NamingStep \/ NamingEnds
    \/ ImportLayer \/ CheckLayer \/ CheckDocuments \/ LayersChecked
    \/ Ended

VectorSpec == VectorInit /\ [][VectorNext]_vectorVars

-----------------------------------------------------------------------------
(* Properties.                                                              *)

VectorTypes ==
    /\ step \in 1 .. Len(input.steps) + 1
    /\ outcomes \in Seq({"ok", "cancelled", "failed", "aborted", "crashed"})
    /\ Running => Len(outcomes) = step - 1
    /\ imported.whole \subseteq imported.named /\ imported.named \subseteq DOMAIN defs
    /\ shrunk \in Nat
    /\ hash \in {"none", "delivery", "archive", "directory"}
    /\ NamingTypes

(* Every feature of a layer is in exactly one of the tables of the checks    *)
(* that divide it, whatever is NULL in it, and every gap the boundary shows  *)
(* that is not below the default tolerances in one of the gap tables.        *)
Divides(tables, whole) ==
    /\ UNION {tables[t] : t \in DOMAIN tables} = whole
    /\ \A t, u \in DOMAIN tables : t # u => tables[t] \intersect tables[u] = {}

DividedOnce ==
    \A f \in found :
        LET layer == Content(f.layer)
        IN  /\ Step.check \in {"mmu", "mmw", "change"} => Divides(f.tables, Fids(layer))
            /\ Step.check = "gap" =>
                   Divides([t \in DOMAIN f.tables \ {"du_error"} |-> f.tables[t]],
                           IF Step.tolerant THEN Gaps(layer, f.shrunk) ELSE GapsWhere(layer, f.shrunk, {FALSE}, BOOLEAN))

(* What the documentation asks of a layer that passes a check, in two truth  *)
(* values: each check by its section of docs/checks/vector-checks.md, or by  *)
(* its DESCRIPTION where it has none.  What mmu, mxmu and neighbour ask is   *)
(* the product's: its clauses hold.  The checks that only warn ask nothing,  *)
(* and layer_area is LayerArea.  In some cases the checks let pass what the  *)
(* documentation does not: the waivers.                                      *)
Waivers ==
    {"null key",        \* unique.py:24-27, although NULLs are not allowed (130-131)
     "null code",       \* enum.py:33-36 with None among the codes, although NULL is not allowed (141)
     "excluded row",    \* enum.py:38-39, the product's exclude_column_name
     "exempt change",   \* change.py:55-56, the product's value of the change column
     "other dependent", \* nodata.py:46-50, although all dependents must have the value (178)
     "null area",       \* area.py, mxmu.py and compactness.py: a clause on a NULL area is not true
     "negative area",   \* area.py:34-38, although the areas coincide within the tolerance (224)
     "null condition",  \* condition.py: a clause on a NULL is not true
     "unequal",         \* condition.py:19-26 inverts no "!="
     "empty layer",     \* neighbour.py:39-41 and overlap.py:42-44 return at an empty layer
     "small overlap",   \* overlap.py: below the product's tolerance, although none is allowed (309)
     "small gap",       \* gap.py: below the product's or the default tolerance, although none is allowed (236)
     "outer gap",       \* gap_bufferzone.py: outside the core of the area of interest
     "shrunk boundary", \* gap.py and gap_bufferzone.py: at the edge of the area of interest
     "other authority"} \* epsg.py: the product has auto_identify_epsg, although a code is demanded (104)

AlikeNeighbours(s, layer) ==
    {p \in layer.touching : \A column \in s.columns : /\ Feature(layer, p[1])[column] # Null
                                                      /\ Feature(layer, p[1])[column] = Feature(layer, p[2])[column]}

Excepted(s, layer, p) ==
    \E q \in {p, <<p[2], p[1]>>} : PairClause(s, layer, "exception", q[1], q[2]) = "T"

\* What is asked of a row: f is the feature.
KeyIsTold(f, column, waived) == f[column] # Null \/ "null key" \in waived

CodeIsListed(s, f, column, waived) ==
    \/ f[column] \in s.codes[column] /\ (f[column] # Null \/ "null code" \in waived)
    \/ "excluded row" \in waived /\ s.exclude # "none" /\ f[s.exclude] # Null

CodesAreDistinct(s, f, waived) ==
    \/ Null \notin {f.x, f.y} /\ f.x # f.y
    \/ f.kind = "T"
    \/ "exempt change" \in waived /\ s.exempt /\ f.change = "exempt"

DependentsAgree(s, f, waived) ==
    f.x = s.nodata => \A i \in DOMAIN s.deps :
        f[s.deps[i]] = s.dep \/ ("other dependent" \in waived /\ i # Len(s.deps))

AreasCoincide(s, f, waived) ==
    LET d == Distance(f.area, f.measured)
    IN  \/ f.area # Null /\ IF s.percent THEN 100 * d <= s.tolerance * f.area ELSE d <= s.tolerance
        \/ "null area" \in waived /\ f.area = Null
        \/ "negative area" \in waived /\ s.percent /\ f.area < 0

ConditionHolds(c, f, waived) ==
    c.given \in {Null, f.x} =>
        \/ Compares(f.y, c.op, c.value) = "T"
        \/ "null condition" \in waived /\ Null \in {f.y, c.value}
        \/ "unequal" \in waived /\ c.op = "!="

AreaIsBelow(s, f, waived) ==
    f.says.error = "T" => \/ f.area # Null /\ f.area <= s.mxmu
                          \/ "null area" \in waived /\ f.area = Null

IsCompact(s, f, waived) ==
    \/ /\ f.x = s.linear => f.compact # Null /\ f.compact <= s.threshold
       /\ f.x = s.patchy => f.compact # Null /\ f.compact > s.threshold
    \/ "null area" \in waived /\ f.compact = Null

GapIsWaived(s, g, inside, waived) ==
    \/ "small gap" \in waived /\ g.small
    \/ "outer gap" \in waived /\ s.buffer > 0 /\ ~g.core
    \/ "shrunk boundary" \in waived /\ g.deep <= inside

\* The boundary has been shrunk by inside and is of code.
Meets(s, layer, inside, code, waived) ==
    /\ s.check = "geometry"   => \A f \in Fids(layer) : Feature(layer, f).valid
    /\ s.check = "singlepart" => \A f \in Fids(layer) : Feature(layer, f).rings <= 1
    /\ s.check = "mmu" =>
           \A f \in Fids(layer) : \E c \in {"general", "exception", "warning"} : Feature(layer, f).says[c] = "T"
    /\ s.check = "change" => \A f \in Fids(layer) : CodesAreDistinct(s, Feature(layer, f), waived)
    /\ s.check = "enum" => \A f \in Fids(layer) : \A column \in DOMAIN s.codes :
           CodeIsListed(s, Feature(layer, f), column, waived)
    /\ s.check = "unique" => \A f, g \in Fids(layer) : \A column \in s.keys :
           /\ KeyIsTold(Feature(layer, f), column, waived)
           /\ f # g /\ Feature(layer, f)[column] # Null => Feature(layer, f)[column] # Feature(layer, g)[column]
    /\ s.check = "constant" => \A f, g \in Fids(layer) : \A column \in s.keys :
           Feature(layer, f)[column] = Feature(layer, g)[column]
    /\ s.check = "nodata" => \A f \in Fids(layer) : DependentsAgree(s, Feature(layer, f), waived)
    /\ s.check = "area" => \A f \in Fids(layer) : AreasCoincide(s, Feature(layer, f), waived)
    /\ s.check = "condition" => \A f \in Fids(layer) : \A r \in DOMAIN s.rules : \A c \in s.rules[r] :
           ConditionHolds(c, Feature(layer, f), waived)
    /\ s.check = "neighbour" => \A p \in AlikeNeighbours(s, layer) :
           Excepted(s, layer, p) \/ PairClause(s, layer, "error", p[1], p[2]) # "T"
    /\ s.check = "overlap" => \A o \in layer.overlaps : "small overlap" \in waived /\ s.tolerant /\ ~o.large
    /\ s.check = "gap" => \A g \in DOMAIN layer.gaps : GapIsWaived(s, layer.gaps[g], inside, waived)
    /\ s.check = "gap" /\ s.buffer = 0 /\ s.du => layer.strangers = {}
    /\ s.check = "mxmu" => \A f \in Fids(layer) : AreaIsBelow(s, Feature(layer, f), waived)
    /\ s.check = "compactness" => \A f \in Fids(layer) : IsCompact(s, Feature(layer, f), waived)
    /\ s.check \in {"attribute", "attribute_csv"} =>
           {layer.fields[i].name : i \in DOMAIN layer.fields} \ s.ignored = DOMAIN s.required
    /\ s.check = "epsg_clc" => layer.srs.code = code
    /\ s.check = "epsg" => \/ layer.srs.authority = "EPSG" /\ layer.srs.code = s.epsg
                           \/ "other authority" \in waived /\ s.auto /\ layer.srs.same

\* A step that returns at an empty layer is waived the layers after it.
LookedAt(s, layers) ==
    {i \in DOMAIN layers : s.check \in {"neighbour", "overlap"} =>
        \A j \in 1 .. i - 1 : ~NoFeature(Content(layers[j]))}

AskedOf(s, waived) == IF "empty layer" \in waived THEN LookedAt(s, LayersOf(s)) ELSE DOMAIN LayersOf(s)

AcceptedMeets(waived) ==
    ~Running /\ ~skip /\ ToSet(outcomes) = {"ok"} =>
        /\ (\E k \in DOMAIN input.steps : input.steps[k].check = "import") => imported.whole = DOMAIN defs
        /\ \A k \in DOMAIN input.steps : OfLayers(input.steps[k]) =>
               \A i \in AskedOf(input.steps[k], waived) :
                   Meets(input.steps[k], Content(LayersOf(input.steps[k])[i]), shrunk, input.boundary, waived)

(* A job all of whose steps end ok leaves layers that are imported entirely  *)
(* and meet what the documentation of each step asks, but for the waivers:   *)
(* no error gets lost between rows, layers and steps.                        *)
AcceptedIsClean == AcceptedMeets(Waivers)

(* The same without any waiver (docs/checks/vector-checks.md), which the     *)
(* checks do not keep.                                                       *)
AcceptedIsDocumented == AcceptedMeets({})

(* No check looks at a layer of an excluded area, which has no features and  *)
(* never was imported: only the naming itself may crash.                     *)
ExcludedIsSkipped ==
    skip => /\ found = {} /\ imported.named = {}
            /\ \A k \in DOMAIN outcomes : outcomes[k] = "crashed" => input.steps[k].check = "naming"

(* Checks that compare geometries get layers that are imported entirely and, *)
(* if the product checks it before, valid and of single polygons.            *)
Spatial == {"mmu", "gap", "overlap", "neighbour"}

Earlier(check) ==
    \E k \in 1 .. step - 1 : input.steps[k].check = check /\ \A f \in found : f.layer \in ToSet(LayersOf(input.steps[k]))

SpatialOnSound ==
    Running /\ Step.check \in Spatial => \A f \in found : \A g \in Fids(Content(f.layer)) :
        /\ f.layer \in imported.whole
        /\ Earlier("geometry") => Feature(Content(f.layer), g).valid
        /\ Earlier("singlepart") => Feature(Content(f.layer), g).rings <= 1

(* No check meets a layer it cannot deal with.                              *)
LayersAreSound == ExcludedIsSkipped /\ SpatialOnSound

(* nodata.py:5: if a feature has nodata set, then all dependent attributes   *)
(* must have the specific value: a step that ends ok found them so.          *)
DependentsReported ==
    \A k \in DOMAIN outcomes : input.steps[k].check = "nodata" /\ outcomes[k] = "ok" =>
        \A alias \in ToSet(LayersOf(input.steps[k])) : \A d \in DOMAIN input.steps[k].deps :
            DependsOn(input.steps[k], Content(alias), input.steps[k].deps[d]) = {}

(* docs/checks/vector-checks.md:158: a feature of the same code in both years *)
(* is an exception instead of an error if its chtype is T.                    *)
TechnicalIsException ==
    \A f \in found : Step.check = "change" /\ Step.chtype =>
        \A g \in f.tables["error"] : Feature(Content(f.layer), g).kind # "T"

=============================================================================
