--------------------------- MODULE FeatureChecks ---------------------------
(***************************************************************************)
(* The checks of the features of a vector layer (qc_tool/vector/*.py) as   *)
(* the relational queries they are.  A query keeps the rows whose clause   *)
(* is true: a clause on a NULL is unknown, and so is its negation.  What a *)
(* check finds is a set of tables of features (or gaps, or attributes),    *)
(* each with the word the step gets for it if the table is not empty.      *)
(*                                                                         *)
(* A layer is a record of features (see Feature), touching (pairs that the *)
(* neighbour table holds, both ways), overlaps, gaps, strangers (features  *)
(* of a delivery unit unknown to the boundary), fields, srs and loads.     *)
(***************************************************************************)
EXTENDS Integers, Sequences, FiniteSets

Null == -99

\* Truth values: "T", "F" and "U", unknown.
Truth(b) == IF b THEN "T" ELSE "F"
Negate(t) == IF t = "T" THEN "F" ELSE IF t = "F" THEN "T" ELSE "U"
Both(s, t) == IF "F" \in {s, t} THEN "F" ELSE IF "U" \in {s, t} THEN "U" ELSE "T"
Either(s, t) == Negate(Both(Negate(s), Negate(t)))

Equal(u, v) == IF Null \in {u, v} THEN "U" ELSE Truth(u = v)
Less(u, v) == IF Null \in {u, v} THEN "U" ELSE Truth(u < v)
Member(v, S) == IF v = Null THEN "U" ELSE Truth(v \in S)

\* A feature: says are the truth values of the product's clauses; x, y, z columns; change is
\* the change column ("pair" if it is x, a separator, y), kind is chtype; area is declared and
\* measured; parts are the pieces a buffer of half the limit inwards leaves, rings its polygons.
Feature(layer, f) == layer.features[f]

Fids(layer) == DOMAIN layer.features

Values(layer, column) == [f \in Fids(layer) |-> layer.features[f][column]]

Clauses(layer, clause) == [f \in Fids(layer) |-> layer.features[f].says[clause]]

\* SELECT fid FROM layer WHERE clause.
Where(layer, truth) == {f \in Fids(layer) : truth[f] = "T"}

\* The rows whose clause is not true are asked for by its negation (a mutant).
WhereNot(layer, table, truth) == {f \in Fids(layer) : f \notin table /\ truth[f] = "F"}

\* ... LEFT JOIN table ... WHERE table.fid IS NULL.
Unjoined(layer, table, truth) == {f \in Fids(layer) : f \notin table}

-----------------------------------------------------------------------------
(* Checks with general, exception, warning and error tables: each holds the *)
(* rows of its clause that are in none of the tables before it.             *)
Mmu(layer) ==
    LET general   == Where(layer, Clauses(layer, "general"))
        left      == Unjoined(layer, general, Clauses(layer, "general"))
        exception == left \intersect Where(layer, Clauses(layer, "exception"))
        warning   == (left \ exception) \intersect Where(layer, Clauses(layer, "warning"))
    IN  [general |-> general, exception |-> exception, warning |-> warning,
         error |-> (left \ exception) \ warning]

\* What is left is a warning.
Mmw(layer) ==
    LET wide      == [f \in Fids(layer) |-> Either(Feature(layer, f).says.general, Truth(Feature(layer, f).parts = 1))]
        general   == Where(layer, wide)
        left      == Unjoined(layer, general, wide)
        exception == left \intersect Where(layer, Clauses(layer, "exception"))
    IN  [general |-> general, exception |-> exception, warning |-> left \ exception]

\* change.py: an exception needs chtype and the change column's exempt value to be configured.
Changed(step, f) ==
    LET differ == Negate(Equal(f.x, f.y))
        agrees == IF Null \in {f.x, f.y} \/ f.change = "null" THEN "U" ELSE Truth(f.change = "pair")
    IN  IF step.consistent THEN Both(differ, agrees) ELSE differ

Exempted(step, f) ==
    IF ~(step.chtype /\ step.exempt) THEN "F"
    ELSE Either(IF f.kind = "null" THEN "U" ELSE Truth(f.kind = "T"),
                IF f.change = "null" THEN "U" ELSE Truth(f.change = "exempt"))

Change(step, layer) ==
    LET changed   == [f \in Fids(layer) |-> Changed(step, Feature(layer, f))]
        general   == Where(layer, changed)
        left      == Unjoined(layer, general, changed)
        exception == left \intersect Where(layer, [f \in Fids(layer) |-> Exempted(step, Feature(layer, f))])
    IN  [general |-> general, exception |-> exception, error |-> left \ exception]

-----------------------------------------------------------------------------
(* Checks of one clause.                                                    *)
Geometry(layer) == [invalid |-> {f \in Fids(layer) : ~Feature(layer, f).valid}]

Singlepart(layer) == [multi |-> {f \in Fids(layer) : Feature(layer, f).rings > 1}]

\* 4 pi A / P^2 is greater than the threshold for compact features; the area is declared.
Compactness(step, layer) ==
    LET rows(code, clause) ==
            Where(layer, [f \in Fids(layer) |-> Both(Equal(Feature(layer, f).x, code), clause[f])])
        compact == [f \in Fids(layer) |-> Less(step.threshold, Feature(layer, f).compact)]
        loose   == [f \in Fids(layer) |-> Negate(compact[f])]
    IN  [linear_error |-> rows(step.linear, compact), patchy_error |-> rows(step.patchy, loose)]

Mxmu(step, layer) ==
    [error |-> Where(layer, [f \in Fids(layer) |->
                  Both(Feature(layer, f).says.error, Less(step.mxmu, Feature(layer, f).area))])]

\* A feature is reported if something is left of it (the documentation: if nothing is).
Mxmw(layer) ==
    [warning |-> Where(layer, [f \in Fids(layer) |->
                    Both(Feature(layer, f).says.warning, Truth(Feature(layer, f).parts # 0))])]

\* Both the envelope and the medial axis are short.
Mml(layer) ==
    [warning |-> Where(layer, [f \in Fids(layer) |->
                    Both(Feature(layer, f).says.warning, Truth(Feature(layer, f).short))])]

Distance(u, v) == IF u > v THEN u - v ELSE v - u

\* In percents of the declared area: a negative one never is too far off.
AreaIsWrong(step, f) ==
    IF f.area = Null THEN "U"
    ELSE IF step.percent THEN Truth(f.area > 0 /\ 100 * Distance(f.area, f.measured) > step.tolerance * f.area)
    ELSE Truth(Distance(f.area, f.measured) > step.tolerance)

DividesByZero(step, layer) == step.percent /\ \E f \in Fids(layer) : Feature(layer, f).area = 0

Area(step, layer) == [error |-> Where(layer, [f \in Fids(layer) |-> AreaIsWrong(step, Feature(layer, f))])]

NonProbable(step, layer) ==
    [warning |-> {f \in Fids(layer) : <<Feature(layer, f).x, Feature(layer, f).y>> \in step.changes
                                       /\ Null \notin {Feature(layer, f).x, Feature(layer, f).y}}]

-----------------------------------------------------------------------------
(* Checks of columns: a table for each column.                              *)
Duplicates(layer, column) ==
    LET v == Values(layer, column)
    IN  {f \in Fids(layer) : v[f] # Null /\ \E g \in Fids(layer) : g # f /\ v[g] = v[f]}

Unique(step, layer) == [column \in step.keys |-> Duplicates(layer, column)]

\* The most frequent value, of these the least, is the one all should have.
Constant(step, layer) ==
    [column \in step.keys |->
        LET v == Values(layer, column)
            told == {v[f] : f \in Fids(layer)} \ {Null}
            count(u) == Cardinality({f \in Fids(layer) : v[f] = u})
            often == {u \in told : \A w \in told : count(w) < count(u) \/ (count(w) = count(u) /\ u <= w)}
        IN  {f \in Fids(layer) : often # {} /\ v[f] \notin often}]

\* The value is not in the list, which a NULL never is told of (a mutant).
NotListed(codes, nullAllowed, v) == Negate(Member(v, codes))

\* enum.py: column IS NULL OR column NOT IN codes; the first half only if NULL is not allowed.
Illegal(codes, nullAllowed, v) ==
    LET listed == Negate(Member(v, codes))
    IN  IF nullAllowed THEN listed ELSE Either(Truth(v = Null), listed)

\* The check removes None from the parameter itself: the next layer's list has none.
Enum(step, layer, first) ==
    [column \in DOMAIN step.codes |->
        Where(layer, [f \in Fids(layer) |->
            Both(Illegal(step.codes[column] \ {Null}, first /\ Null \in step.codes[column], Feature(layer, f)[column]),
                 Truth(step.exclude = "none" \/ Feature(layer, f)[step.exclude] = Null))])]

\* All the dependent columns are looked at ... (what the comment says)
DependsOn(step, layer, column) ==
    {f \in Fids(layer) : Feature(layer, f).x = step.nodata /\ Feature(layer, f)[column] # step.dep}

\* ... but the report comes after the loop over them: it is about the last.
NoDataValue(step, layer) ==
    LET last == step.deps[Len(step.deps)] IN [error |-> DependsOn(step, layer, last)]

\* condition.py: a rule is a set of clauses [given, op, value] on column y, given a value of x
\* (Null for none); it is violated if the clause with the opposite operator is true.
Opposite(op) ==
    IF op = "=" THEN "<>" ELSE IF op = "<>" THEN "=" ELSE IF op = ">" THEN "<=" ELSE IF op = "<=" THEN ">"
    ELSE IF op = "<" THEN ">=" ELSE IF op = ">=" THEN "<" ELSE IF op = "is null" THEN "is not null"
    ELSE IF op = "is not null" THEN "is null" ELSE op

Compares(v, op, w) ==
    IF op = "is null" THEN Truth(v = Null)
    ELSE IF op = "is not null" THEN Truth(v # Null)
    ELSE IF op = "=" THEN Equal(v, w)
    ELSE IF op \in {"<>", "!="} THEN Negate(Equal(v, w))
    ELSE IF op = "<" THEN Less(v, w)
    ELSE IF op = ">" THEN Less(w, v)
    ELSE IF op = "<=" THEN Negate(Less(w, v))
    ELSE Negate(Less(v, w))

Violates(rule, f) ==
    \E c \in rule : Both(IF c.given = Null THEN "T" ELSE Equal(f.x, c.given),
                         Compares(f.y, Opposite(c.op), c.value)) = "T"

Condition(step, layer) ==
    [rule \in DOMAIN step.rules |-> {f \in Fids(layer) : Violates(step.rules[rule], Feature(layer, f))}]

\* condition_sql.py: the product says when a row is wrong.
ConditionSql(layer) == [error |-> Where(layer, Clauses(layer, "error"))]

-----------------------------------------------------------------------------
(* Pairs of features.                                                       *)
NoFeature(layer) == Fids(layer) = {}

SameCodes(step, layer, a, b) ==
    \A column \in step.columns : Equal(Feature(layer, a)[column], Feature(layer, b)[column]) = "T"

\* The clauses of most products name one of the pair, layer, and not other.
PairClause(step, layer, clause, a, b) ==
    IF step.either THEN Either(Feature(layer, a).says[clause], Feature(layer, b).says[clause])
    ELSE Feature(layer, a).says[clause]

SamePairs(step, layer, clause) ==
    {p \in layer.touching : /\ PairClause(step, layer, clause, p[1], p[2]) = "T"
                            /\ SameCodes(step, layer, p[1], p[2])}

ErrorPairs(pairs, exceptions) == pairs \ exceptions

Ends(pairs) == {p[1] : p \in pairs} \union {p[2] : p \in pairs}

Neighbour(step, layer) ==
    LET exceptions == SamePairs(step, layer, "exception")
    IN  [exception |-> Ends(exceptions),
         error |-> Ends(ErrorPairs(SamePairs(step, layer, "error"), exceptions))]

\* An overlap is a record of its pair and whether its area exceeds the tolerance.
Overlap(step, layer) ==
    [tiny |-> {o.pair : o \in {q \in layer.overlaps : ~q.large /\ step.tolerant}},
     error |-> UNION {o.pair : o \in {q \in layer.overlaps : q.large \/ ~step.tolerant}}]

-----------------------------------------------------------------------------
(* Gaps: small (within the tolerances), core (reaching the core of the area *)
(* of interest), deep (from the edge; the boundary is shrunk by some depth).*)
Gaps(layer, shrunk) == {g \in DOMAIN layer.gaps : layer.gaps[g].deep > shrunk}

GapsWhere(layer, shrunk, small, core) ==
    {g \in Gaps(layer, shrunk) : layer.gaps[g].small \in small /\ layer.gaps[g].core \in core}

\* Small gaps are told of only if the tolerances are above the default.
Tolerated(step, gaps) == IF step.tolerant THEN gaps ELSE {}

Gap(step, layer, shrunk) ==
    [gap_exception |-> Tolerated(step, GapsWhere(layer, shrunk, {TRUE}, BOOLEAN)),
     gap_error |-> GapsWhere(layer, shrunk, {FALSE}, BOOLEAN),
     du_error |-> IF step.du THEN layer.strangers ELSE {}]

GapBufferzone(step, layer, shrunk) ==
    [interior_small |-> Tolerated(step, GapsWhere(layer, shrunk, {TRUE}, {TRUE})),
     bufferzone_small |-> Tolerated(step, GapsWhere(layer, shrunk, {TRUE}, {FALSE})),
     gap_error |-> GapsWhere(layer, shrunk, {FALSE}, {TRUE}),
     bufferzone_large |-> GapsWhere(layer, shrunk, {FALSE}, {FALSE})]

-----------------------------------------------------------------------------
(* The source of the layer: its attributes and its reference system.  fields *)
(* is a sequence of [name, type, width]; a type without a name for gdal is   *)
(* "unknown"; a name that occurs twice is extra the second time.             *)
AttributeTypes == [integer |-> "integer", integer64 |-> "integer", real |-> "real", string |-> "string"]

CsvTypes == [integer |-> "integer", integer64 |-> "integer64", real |-> "real", string |-> "string", date |-> "date"]

Again(layer, i) == \E j \in 1 .. i - 1 : layer.fields[j].name = layer.fields[i].name

ExtraFields(step, layer) ==
    {i \in DOMAIN layer.fields : Again(layer, i) \/ layer.fields[i].name \notin step.ignored \union DOMAIN step.required}

\* The limit is forgotten with the first field of the name that keeps it.
TooWide(step, layer, i) ==
    LET name == layer.fields[i].name
    IN  /\ name \in DOMAIN step.lengths
        /\ \A j \in 1 .. i : layer.fields[j].name = name => layer.fields[j].width > step.lengths[name]

Attribute(step, layer, types) ==
    LET known == DOMAIN layer.fields \ ExtraFields(step, layer)
        type(i) == layer.fields[i].type
        wanted(i) == step.required[layer.fields[i].name]
    IN  [missing |-> DOMAIN step.required \ {layer.fields[i].name : i \in DOMAIN layer.fields},
         extra |-> ExtraFields(step, layer),
         bad_type |-> {i \in known : /\ layer.fields[i].name \in DOMAIN step.required
                                     /\ type(i) \notin DOMAIN types \/ types[type(i)] # wanted(i)},
         bad_length |-> {i \in DOMAIN layer.fields : TooWide(step, layer, i)}]

\* The type of an extra attribute is looked up for the message.
NamelessType(step, layer) == \E i \in ExtraFields(step, layer) : layer.fields[i].type = "unknown"

\* srs: [authority, code, same], authority "none" if the layer tells no system.
EpsgIsWrong(step, layer) ==
    \/ layer.srs.authority = "none"
    \/ layer.srs.authority = "EPSG" /\ layer.srs.code # step.epsg
    \/ layer.srs.authority = "other" /\ ~(step.auto /\ layer.srs.same)

\* epsg_clc.py compares the codes of the layer and of the boundary.
EpsgClc(layer, boundary) ==
    IF layer.srs.authority = "none" THEN "aborted"
    ELSE IF layer.srs.authority # "EPSG" THEN "failed"
    ELSE IF boundary = "none" \/ layer.srs.code # boundary THEN "cancelled" ELSE "ok"

=============================================================================
