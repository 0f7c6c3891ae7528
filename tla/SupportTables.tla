--------------------------- MODULE SupportTables ---------------------------
(***************************************************************************)
(* The support tables of the vector checks (vector/helper.py): the layer   *)
(* is cut into partitions with few vertices, and the tables of neighbours, *)
(* of covered and uncovered area, of marginal features, of gaps and of     *)
(* complex changes are computed piece by piece.  A check asks for a table; *)
(* make() makes it with all it needs unless it is there already.           *)
(*                                                                         *)
(* The plane is a grid of unit squares and a geometry is a set of squares, *)
(* each named by its lower left corner; a side shared by two squares is a  *)
(* line, a shared corner a point.  What PostGIS does at the scale of its   *)
(* tolerances (snapping, validity) is below the grid.                      *)
(***************************************************************************)
EXTENDS Clusters, FiniteSetsExt, Sequences

CONSTANTS
    Layer,          \* the layers: each feature has geom, du, initial and final code
    Boundary,       \* the boundary layers: sets of units [du, geom]
    Asks,           \* the sequences of tables the checks of a job ask for
    MaxVertices,    \* max_vertices: partitions with more are split
    GridSize,       \* grid_size: partitions are cut along multiples of it
    ByUnit          \* whether du_column_name is given to the gap check

ASSUME TableAssumption ==
    /\ MaxVertices \in Nat
    /\ GridSize \in Nat \ {0}
    /\ ByUnit \in BOOLEAN
    /\ IsFiniteSet(Fid) /\ Fid # {}

\* Layers and boundaries are of polygons, and the checks ask for these tables.
ASSUME GeometryAssumption ==
    /\ \A l \in Layer : \A f \in Fid : IsFiniteSet(l[f].geom) /\ l[f].geom # {} /\ l[f].geom \subseteq Int \X Int
    /\ \A b \in Boundary : \A u \in b : IsFiniteSet(u.geom) /\ u.geom \subseteq Int \X Int
    /\ Asks \subseteq Seq({"neighbour", "marginal", "gap", "change"})

Table == {"partition", "interior", "exterior", "meta", "marginal", "neighbour", "gap", "change"}

VARIABLES
    layer,          \* the features in the layer's table
    boundary,       \* the units in the boundary table
    asks,           \* the tables still to be asked for
    made,           \* the support tables that are ready
    phase,          \* where the making of the current table stands
    partitions,     \* partition_<layer>: [box, super, vertices]
    pieces,         \* feature_<layer>: [fid, part, geom]
    interior,       \* interior_<layer>: [part, geom]
    exterior,       \* exterior_<layer>: [part, geom]
    neighbours,     \* neighbour_<layer>: [fida, fidb, dim]
    meta,           \* meta_<layer>: fid to [marginal, initial, final, area]
    gaps,           \* gap_<layer>: polygons
    unsubtracted    \* partitions whose interior is still to be subtracted

tables == <<partitions, pieces, interior, exterior, neighbours, meta, gaps, unsubtracted>>
vars == <<layer, boundary, asks, made, phase, tables, forest>>

Null == -1      \* SQL's NULL among natural numbers: greater than nothing

-----------------------------------------------------------------------------
(* Geometry.                                                                *)

Sides(c) == {<<c[1] + 1, c[2]>>, <<c[1] - 1, c[2]>>, <<c[1], c[2] + 1>>, <<c[1], c[2] - 1>>}

Around(c) == {<<c[1] + i, c[2] + j>> : i, j \in -1 .. 1}

\* polygon_dump: the polygons of a geometry, its edge-connected parts.
Grown(c, S) ==
    LET reach[n \in 0 .. Cardinality(S)] ==
            IF n = 0 THEN {c} ELSE LET near == reach[n - 1] IN near \union {d \in S : Sides(d) \cap near # {}}
    IN  reach[Cardinality(S)]

Polygons(S) == {Grown(c, S) : c \in S}

\* ST_NPoints of a polygon without holes: its corners, the first one twice.
Points(P) ==
    LET quad(v) == {<<v[1] - i, v[2] - j>> : i, j \in 0 .. 1} \cap P
        spots   == UNION {{<<c[1] + i, c[2] + j>> : i, j \in 0 .. 1} : c \in P}
        odd     == {v \in spots : Cardinality(quad(v)) \in {1, 3}}
        cross   == {v \in spots : Cardinality(quad(v)) = 2 /\
                                  \A c, d \in quad(v) : d \notin Sides(c)}
    IN  Cardinality(odd) + 2 * Cardinality(cross) + 1

Squares(b) == (b.x1 .. b.x2 - 1) \X (b.y1 .. b.y2 - 1)

BoxOf(S) == [x1 |-> Min({c[1] : c \in S}), y1 |-> Min({c[2] : c \in S}),
             x2 |-> Max({c[1] : c \in S}) + 1, y2 |-> Max({c[2] : c \in S}) + 1]

\* The operator && of PostGIS: the bounding boxes meet.
BoxesMeet(P, Q) ==
    LET b == BoxOf(P)
        d == BoxOf(Q)
    IN  b.x1 <= d.x2 /\ d.x1 <= b.x2 /\ b.y1 <= d.y2 /\ d.y1 <= b.y2

\* The lines in ST_Intersection(P, Q): sides between them outside of the common area.
CommonSides(P, Q) == {e \in (P \ Q) \X (Q \ P) : e[2] \in Sides(e[1])}

Down(n) == (n \div GridSize) * GridSize
Up(n) == -Down(-n)

Area == UNION {layer[f].geom : f \in Fid}

-----------------------------------------------------------------------------
(* PartitionedLayer.                                                        *)

NoBox == [x1 |-> 0, y1 |-> 0, x2 |-> 0, y2 |-> 0]

ExpandBox(b) == [x1 |-> Down(b.x1 - GridSize), y1 |-> Down(b.y1 - GridSize),
                 x2 |-> Up(b.x2 + GridSize), y2 |-> Up(b.y2 + GridSize)]

\* The two halves of a box along its longer side; none if a half got too small.
Halves(b) ==
    LET xcenter == Down((b.x1 + b.x2) \div 2)
        ycenter == Down((b.y1 + b.y2) \div 2)
    IN  IF xcenter - b.x1 > ycenter - b.y1
        THEN IF xcenter - b.x1 < GridSize THEN {}
             ELSE {[b EXCEPT !.x2 = xcenter], [b EXCEPT !.x1 = xcenter]}
        ELSE IF ycenter - b.y1 < GridSize THEN {}
             ELSE {[b EXCEPT !.y2 = ycenter], [b EXCEPT !.y1 = ycenter]}

Supers == {p.super : p \in partitions}

Fresh == {p \in partitions : p.vertices = Null}

PiecesIn(box) == {f \in pieces : f.part = box}

\* The sum over no row is NULL.
Vertices(box) ==
    IF PiecesIn(box) = {} THEN Null
    ELSE FoldSet(LAMBDA f, n : n + Points(f.geom), 0, PiecesIn(box))

StartPartitions ==
    LET box == ExpandBox(BoxOf(Area))
    IN  /\ partitions' = {[box |-> box, super |-> NoBox, vertices |-> Null]}
        /\ pieces' = UNION {{[fid |-> f, part |-> box, geom |-> g] :
                                g \in Polygons(layer[f].geom)} : f \in Fid}

UpdateNpoints ==
    partitions' = {IF p.vertices = Null THEN [p EXCEPT !.vertices = Vertices(p.box)] ELSE p :
                      p \in partitions}

\* The rows _split_partitions inserts.
Subpartitions ==
    UNION {{[box |-> h, super |-> p.box, vertices |-> Null] : h \in Halves(p.box)} :
              p \in {q \in partitions : q.vertices > MaxVertices}}

Covers(p, f) == f.part = p.super /\ f.geom \subseteq Squares(p.box)

\* The move of the pieces a subpartition covers ...
Moved(f) ==
    IF \E p \in Fresh : Covers(p, f)
    THEN [f EXCEPT !.part = (CHOOSE p \in Fresh : Covers(p, f)).box]
    ELSE f

\* The cut forgets the second half (a mutant).
CutOnce(f) ==
    UNION {{[f EXCEPT !.part = p.box, !.geom = g] : g \in Polygons(f.geom \cap Squares(p.box))} :
              p \in {q \in Fresh : q.super = f.part /\ q.box.x1 = f.part.x1}}

\* ... and the cut of those that lie in both.
Cut(f) ==
    UNION {{[f EXCEPT !.part = p.box, !.geom = g] : g \in Polygons(f.geom \cap Squares(p.box))} :
              p \in {q \in Fresh : q.super = f.part}}

FillSubpartitions ==
    LET moved == {Moved(f) : f \in pieces}
    IN  pieces' = moved \union UNION {Cut(f) : f \in moved}

DeleteSuperitems ==
    /\ pieces' = {f \in pieces : f.part \notin Supers}
    /\ partitions' = {p \in partitions : p.box \notin Supers}

-----------------------------------------------------------------------------
(* NeighbourTable: pairs of features, by the intersections of their pieces. *)
(* A pair is kept when some intersection is not empty and has more than the *)
(* tolerated length; ST_Length of a polygon is zero.                        *)

\* Pieces meet only inside of their own partition (a mutant).
PairsInside(a, b) ==
    {<<fg[1].geom, fg[2].geom>> : fg \in {e \in pieces \X pieces :
        e[1].fid = a /\ e[2].fid = b /\ e[1].part = e[2].part}}

PiecePairs(a, b) ==
    {pq \in {f.geom : f \in {g \in pieces : g.fid = a}} \X {f.geom : f \in {g \in pieces : g.fid = b}} :
        BoxesMeet(pq[1], pq[2])}

Dimension(P, Q) ==
    IF P \cap Q # {} THEN 2
    ELSE IF CommonSides(P, Q) # {} THEN 1
    ELSE 0

FillNeighbours ==
    LET common(a, b) == PiecePairs(a, b)
        kept == {p \in Pair : \E pq \in common(p[1], p[2]) : CommonSides(pq[1], pq[2]) # {}}
        dim(p) == Max({Dimension(pq[1], pq[2]) : pq \in common(p[1], p[2])})
    IN  neighbours' = {[fida |-> p[1], fidb |-> p[2], dim |-> dim(p)] : p \in kept} \union
                      {[fida |-> p[2], fidb |-> p[1], dim |-> dim(p)] : p \in kept}

-----------------------------------------------------------------------------
(* _InteriorTable, _ExteriorTable, _MetaTable and MarginalProperty.         *)

FillInterior ==
    interior' = {[part |-> p.box, geom |-> UNION {f.geom : f \in PiecesIn(p.box)}] :
                    p \in {q \in partitions : PiecesIn(q.box) # {}}}

InteriorOf(box) == UNION {r.geom : r \in {q \in interior : q.part = box}}

FillExterior ==
    exterior' = {r \in {[part |-> p.box, geom |-> Squares(p.box) \ InteriorOf(p.box)] : p \in partitions} :
                    r.geom # {}}

CreateMeta ==
    meta' = [f \in Fid |-> [marginal |-> "unset", initial |-> Null, final |-> Null, area |-> Null]]

Touches(f, Near(_)) ==
    \E g \in pieces, e \in exterior :
        g.fid = f /\ \E c \in g.geom : Near(c) \cap e.geom # {}

(* If the lengths cannot be computed, any contact makes a feature marginal. *)
FillMarginal ==
    \/ meta' = [f \in Fid |-> [meta[f] EXCEPT !.marginal = IF Touches(f, Sides) THEN "yes" ELSE "no"]]
    \/ meta' = [f \in Fid |-> [meta[f] EXCEPT !.marginal = IF Touches(f, Around) THEN "yes" ELSE "no"]]

-----------------------------------------------------------------------------
(* GapTable.                                                                *)

BoundaryUnits ==
    IF ByUnit THEN {u \in boundary : \E f \in Fid : layer[f].du = u.du} ELSE boundary

\* split_geom: the two halves of a polygon; nothing if a half got too small.
SplitGeom(P) ==
    LET b == BoxOf(P)
        x1 == Down(b.x1)
        x2 == Up(b.x2)
        y1 == Down(b.y1)
        y2 == Up(b.y2)
        xcenter == Down((x1 + x2) \div 2)
        ycenter == Down((y1 + y2) \div 2)
    IN  IF x2 - x1 >= y2 - y1
        THEN IF xcenter - x1 < GridSize THEN {}
             ELSE Polygons({c \in P : c[1] < xcenter}) \union Polygons({c \in P : c[1] >= xcenter})
        ELSE IF ycenter - y1 < GridSize THEN {}
             ELSE Polygons({c \in P : c[2] < ycenter}) \union Polygons({c \in P : c[2] >= ycenter})

SplitRows == {g \in gaps : Points(g) > MaxVertices /\ SplitGeom(g) # {}}

FillGaps == gaps' = UNION {Polygons(u.geom) : u \in BoundaryUnits}

SplitGaps == gaps' = (gaps \ SplitRows) \union UNION {SplitGeom(g) : g \in SplitRows}

\* The gaps that meet no interior go, the others stay (a mutant).
SubtractOther(box) ==
    LET sub == {g \in gaps : InteriorOf(box) # {} /\ ~BoxesMeet(g, InteriorOf(box))}
    IN  gaps' = (gaps \ sub) \union UNION {Polygons(g \ InteriorOf(box)) : g \in sub}

SubtractPartition(box) ==
    LET sub == {g \in gaps : InteriorOf(box) # {} /\ BoxesMeet(g, InteriorOf(box))}
    IN  gaps' = (gaps \ sub) \union UNION {Polygons(g \ InteriorOf(box)) : g \in sub}

-----------------------------------------------------------------------------
(* ComplexChangeProperty.                                                   *)

\* The rows of the SELECT: neighbours with one code, each pair once.
SameCode(code) ==
    {p \in Pair : /\ \E r \in neighbours : r.fida = p[1] /\ r.fidb = p[2]
                  /\ layer[p[1]][code] = layer[p[2]][code]}

StoreClusters(code) ==
    meta' = [f \in Fid |-> [meta[f] EXCEPT ![code] = IF f \in Known THEN parent[f] ELSE @]]

\* The sum of the features' areas, whether they overlap or not.
Size(S) == Cardinality({q \in S \X Area : q[2] \in layer[q[1]].geom})

ClusterArea(m, code, id) == Size({f \in Fid : m[f][code] = id})

\* The second cluster's area replaces the first one's (a mutant).
LastArea(m, code) ==
    [f \in Fid |-> IF m[f][code] = Null THEN m[f]
                   ELSE [m[f] EXCEPT !.area = ClusterArea(m, code, m[f][code])]]

\* _fill_area: the larger of the two clusters counts.
GreaterArea(m, code) ==
    [f \in Fid |->
        IF m[f][code] # Null /\ m[f].area < ClusterArea(m, code, m[f][code])
        THEN [m[f] EXCEPT !.area = ClusterArea(m, code, m[f][code])]
        ELSE m[f]]

FillArea == meta' = GreaterArea(GreaterArea(meta, "initial"), "final")

-----------------------------------------------------------------------------
(* make(): what a table needs, in order, and what of it is not made yet.    *)

Needs ==
    [neighbour |-> <<"partition", "neighbour">>,
     marginal  |-> <<"partition", "interior", "exterior", "meta", "marginal">>,
     gap       |-> <<"partition", "interior", "gap">>,
     change    |-> <<"partition", "neighbour", "meta", "change">>]

Needed == Needs[Head(asks)]

Made(i) == Needed[i] \in made

Making(t) ==
    /\ asks # <<>>
    /\ \E i \in DOMAIN Needed : Needed[i] = t /\ ~Made(i) /\ \A j \in 1 .. i - 1 : Made(j)

Begin(t, next) == Making(t) /\ phase = "idle" /\ phase' = next /\ UNCHANGED made

Finish(t) == phase' = "idle" /\ made' = made \union {t}

\* A table that is made in one transaction.
AtOnce(t) == Making(t) /\ phase = "idle" /\ Finish(t)

Still == UNCHANGED <<layer, boundary, asks>>

Init ==
    /\ layer \in Layer
    /\ boundary \in Boundary
    /\ asks \in Asks
    /\ made = {}
    /\ phase = "idle"
    /\ partitions = {}
    /\ pieces = {}
    /\ interior = {}
    /\ exterior = {}
    /\ neighbours = {}
    /\ meta = <<>>
    /\ gaps = {}
    /\ unsubtracted = {}
    /\ NoForest

(* The table a check asks for is there.                                     *)
Serve ==
    /\ asks # <<>>
    /\ \A i \in DOMAIN Needed : Made(i)
    /\ asks' = Tail(asks)
    /\ UNCHANGED <<layer, boundary, made, phase, tables, forest>>

MakePartition ==
    /\ Begin("partition", "npoints")
    /\ StartPartitions
    /\ Still /\ UNCHANGED <<interior, exterior, neighbours, meta, gaps, unsubtracted, forest>>

CountVertices ==
    /\ phase = "npoints"
    /\ UpdateNpoints
    /\ phase' = "split"
    /\ Still /\ UNCHANGED <<made, pieces, interior, exterior, neighbours, meta, gaps, unsubtracted, forest>>

SplitPartitions ==
    /\ phase = "split"
    /\ partitions' = partitions \union Subpartitions
    /\ IF Subpartitions = {} THEN Finish("partition") ELSE phase' = "fill" /\ UNCHANGED made
    /\ Still /\ UNCHANGED <<pieces, interior, exterior, neighbours, meta, gaps, unsubtracted, forest>>

FillPartitions ==
    /\ phase = "fill"
    /\ FillSubpartitions
    /\ phase' = "delete"
    /\ Still /\ UNCHANGED <<made, partitions, interior, exterior, neighbours, meta, gaps, unsubtracted, forest>>

DeletePartitions ==
    /\ phase = "delete"
    /\ DeleteSuperitems
    /\ phase' = "npoints"
    /\ Still /\ UNCHANGED <<made, interior, exterior, neighbours, meta, gaps, unsubtracted, forest>>

MakeNeighbours ==
    /\ AtOnce("neighbour")
    /\ FillNeighbours
    /\ Still /\ UNCHANGED <<partitions, pieces, interior, exterior, meta, gaps, unsubtracted, forest>>

MakeInterior ==
    /\ AtOnce("interior")
    /\ FillInterior
    /\ Still /\ UNCHANGED <<partitions, pieces, exterior, neighbours, meta, gaps, unsubtracted, forest>>

MakeExterior ==
    /\ AtOnce("exterior")
    /\ FillExterior
    /\ Still /\ UNCHANGED <<partitions, pieces, interior, neighbours, meta, gaps, unsubtracted, forest>>

MakeMeta ==
    /\ AtOnce("meta")
    /\ CreateMeta
    /\ Still /\ UNCHANGED <<partitions, pieces, interior, exterior, neighbours, gaps, unsubtracted, forest>>

MakeMarginal ==
    /\ AtOnce("marginal")
    /\ FillMarginal
    /\ Still /\ UNCHANGED <<partitions, pieces, interior, exterior, neighbours, gaps, unsubtracted, forest>>

MakeGaps ==
    /\ Begin("gap", "subtract")
    /\ FillGaps
    /\ unsubtracted' = {p.box : p \in partitions}
    /\ Still /\ UNCHANGED <<partitions, pieces, interior, exterior, neighbours, meta, forest>>

(* Before each subtraction, polygons are split until none can be split.     *)
SplitGapRows ==
    /\ phase = "subtract"
    /\ SplitRows # {}
    /\ SplitGaps
    /\ Still /\ UNCHANGED <<made, phase, partitions, pieces, interior, exterior, neighbours, meta, unsubtracted, forest>>

SubtractOne ==
    /\ phase = "subtract"
    /\ SplitRows = {}
    /\ LET box == CHOOSE b \in unsubtracted : TRUE     \* the order is fixed by partition_id
       IN  /\ SubtractPartition(box)
           /\ unsubtracted' = unsubtracted \ {box}
    /\ IF unsubtracted' = {} THEN Finish("gap") ELSE UNCHANGED <<phase, made>>
    /\ Still /\ UNCHANGED <<partitions, pieces, interior, exterior, neighbours, meta, forest>>

MakeChange ==
    /\ Begin("change", "initial")
    /\ SelectPairs(SameCode("initial"))
    /\ Still /\ UNCHANGED tables

MergeClusters ==
    /\ MergeStep
    /\ UNCHANGED <<layer, boundary, asks, made, phase, tables>>

InitialFilled ==
    /\ phase = "initial"
    /\ stage = "filled"
    /\ StoreClusters("initial")
    /\ SelectPairs(SameCode("final"))
    /\ phase' = "final"
    /\ Still /\ UNCHANGED <<made, partitions, pieces, interior, exterior, neighbours, gaps, unsubtracted>>

FinalFilled ==
    /\ phase = "final"
    /\ stage = "filled"
    /\ StoreClusters("final")
    /\ phase' = "area"
    /\ Still /\ UNCHANGED <<made, partitions, pieces, interior, exterior, neighbours, gaps, unsubtracted, forest>>

MakeArea ==
    /\ phase = "area"
    /\ FillArea
    /\ Finish("change")
    /\ Still /\ UNCHANGED <<partitions, pieces, interior, exterior, neighbours, gaps, unsubtracted, forest>>

Next ==
    \/ Serve
    \/ MakePartition \/ CountVertices \/ SplitPartitions \/ FillPartitions \/ DeletePartitions
    \/ MakeNeighbours
    \/ MakeInterior \/ MakeExterior \/ MakeMeta \/ MakeMarginal
    \/ MakeGaps \/ SplitGapRows \/ SubtractOne
    \/ MakeChange \/ MergeClusters \/ InitialFilled \/ FinalFilled \/ MakeArea

Spec == Init /\ [][Next]_vars

-----------------------------------------------------------------------------
(* Types: no box is degenerate, every piece has an area, and ids are known. *)
TypeOK ==
    /\ made \subseteq Table
    /\ phase \in {"idle", "npoints", "split", "fill", "delete", "subtract", "initial", "final", "area"}
    /\ \A p \in partitions : /\ p.box \in [x1 : Int, y1 : Int, x2 : Int, y2 : Int]
                            /\ p.box.x1 < p.box.x2 /\ p.box.y1 < p.box.y2
                            /\ p.vertices \in Nat \union {Null}
    /\ \A f \in pieces : f.fid \in Fid /\ f.geom # {} /\ \E p \in partitions : p.box = f.part
    /\ \A r \in neighbours : r.fida \in Fid /\ r.fidb \in Fid /\ r.dim \in {1, 2}
    /\ \A g \in gaps : g # {}
    /\ ClusterTypes

Disjoint(f, g) == layer[f].geom \cap layer[g].geom = {}

(* At any moment the partitions that are not split yet tile the expanded    *)
(* extent of the layer: no strip is left out between two halves and none is *)
(* counted twice.                                                           *)
PartitionsTile ==
    partitions # {} =>
        LET leaves == {p.box : p \in {q \in partitions : q.box \notin Supers}}
        IN  /\ UNION {Squares(b) : b \in leaves} = Squares(ExpandBox(BoxOf(Area)))
            /\ \A b, d \in leaves : b # d => Squares(b) \cap Squares(d) = {}

(* Cutting a layer loses nothing of a feature, even between the moves and   *)
(* the cuts; when the superpartitions are gone, no part of a feature is     *)
(* there twice and every piece lies in its partition.                       *)
PiecesMakeFeatures ==
    partitions # {} =>
        /\ \A f \in Fid : UNION {g.geom : g \in {h \in pieces : h.fid = f}} = layer[f].geom
        /\ phase \notin {"fill", "delete"} =>
              /\ \A g \in pieces : g.geom \subseteq Squares(g.part)
              /\ \A g, h \in pieces : g # h /\ g.fid = h.fid => g.geom \cap h.geom = {}

(* The cutting stops only when every partition has few vertices or is one   *)
(* grid cell, whose halves would be empty.                                  *)
NoneTooLarge ==
    "partition" \in made =>
        \A p \in partitions :
            p.vertices > MaxVertices =>
                p.box.x2 - p.box.x1 = GridSize /\ p.box.y2 - p.box.y1 = GridSize

(* The layer is cut, however often, into partitions with few vertices that  *)
(* tile it and hold all of its features.                                    *)
PartitionedLayerIsTrue == PartitionsTile /\ PiecesMakeFeatures /\ NoneTooLarge

(* Features that do not overlap are in the neighbour table, in both orders, *)
(* exactly when they share a side, wherever the partitions cut them.        *)
NeighboursAreTrue ==
    "neighbour" \in made =>
        \A f, g \in Fid :
            f # g /\ Disjoint(f, g) =>
                (CommonSides(layer[f].geom, layer[g].geom) # {}
                    <=> [fida |-> f, fidb |-> g, dim |-> 1] \in neighbours)

Outer(Near(_)) == {f \in Fid : \E c \in layer[f].geom : ~(Near(c) \subseteq Area)}

(* A feature is marginal exactly when it has a side (or, if the lengths     *)
(* could not be computed, a point) in common with area no feature covers:   *)
(* the cuts make no feature marginal and hide no uncovered side.            *)
MarginalIsTrue ==
    "marginal" \in made =>
        {f \in Fid : meta[f].marginal = "yes"} \in {Outer(Sides), Outer(Around)}

(* The gaps are the part of the boundary (of the units that occur in the    *)
(* layer, if the check is by unit) that no feature covers, each spot once    *)
(* unless the units overlap.                                                *)
GapsAreTrue ==
    "gap" \in made =>
        /\ UNION gaps = (UNION {u.geom : u \in BoundaryUnits}) \ Area
        /\ (\A u, v \in BoundaryUnits : u # v => u.geom \cap v.geom = {}) =>
               \A g, h \in gaps : g # h => g \cap h = {}

(* Which sides features share, with each other and with area no feature     *)
(* covers, is told as if the layer had not been cut.                        *)
EdgesAreTrue == NeighboursAreTrue /\ MarginalIsTrue

(* The area a change counts with is that of the larger of its two clusters: *)
(* the features one can reach over sides shared with features of the same   *)
(* initial (or final) code.  Features without such a neighbour have none.   *)
ChangeIsTrue ==
    "change" \in made /\ (\A f, g \in Fid : f # g => Disjoint(f, g)) =>
        LET joined(code) == {p \in Pair : /\ layer[p[1]][code] = layer[p[2]][code]
                                          /\ CommonSides(layer[p[1]].geom, layer[p[2]].geom) # {}}
            cluster(f, code) == {g \in Fid : Together(f, g, joined(code))}
            sizes(f) == {Size(cluster(f, code)) :
                            code \in {c \in {"initial", "final"} : cluster(f, c) # {f}}}
        IN  \A f \in Fid : meta[f].area = IF sizes(f) = {} THEN Null ELSE Max(sizes(f))

(* What the overlap check relies on: features that overlap are in the       *)
(* neighbour table with dimension 2.                                        *)
OverlapIsSuspect ==
    "neighbour" \in made =>
        \A p \in Pair :
            ~Disjoint(p[1], p[2]) => [fida |-> p[1], fidb |-> p[2], dim |-> 2] \in neighbours

=============================================================================
