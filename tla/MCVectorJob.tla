---------------------------- MODULE MCVectorJob ----------------------------
(***************************************************************************)
(* Instances for VectorJob: deliveries whose names fit the product in all  *)
(* the ways the naming check tells apart, and for each check deliveries of *)
(* one or two layers whose values, NULL among them, meet its cases.        *)
(***************************************************************************)
EXTENDS VectorJob, TLC

TV == {"T", "F", "U"}

-----------------------------------------------------------------------------
(* Names.                                                                   *)
File == [file |-> "f", format |-> ".shp", opens |-> TRUE, named |-> TRUE, bands |-> 1, beside |-> {".tfw"},
         fits |-> {}, starts |-> {}, lower |-> {}, aoi |-> "none", epsg |-> "3035", info |-> "i"]

Fits(name, aliases) == [file |-> name, fits |-> aliases, starts |-> aliases, lower |-> aliases, aoi |-> "cz"] @@ File

Names == {Fits("s_cz", {"status"}), [aoi |-> "at"] @@ Fits("s_at", {"status"}), Fits("c_cz", {"change"}),
          [aoi |-> "at"] @@ Fits("c_at", {"change"}), Fits("both", {"status", "change"}), Fits("other", {}),
          [starts |-> {}, lower |-> {}] @@ Fits("mid", {"change"}), [lower |-> {}] @@ Fits("UPPER", {"status"}),
          [opens |-> FALSE] @@ Fits("broken", {"status"}), [format |-> ".tif"] @@ Fits("t", {"status"})}

InGdb(f) == [format |-> ".gdb", file |-> IF f.file = "c_at" THEN "second.gdb" ELSE "first.gdb",
             named |-> f.file # "s_at"] @@ f

Deliveries == {<<>>} \union {<<f>> : f \in Names} \union {<<f, g>> : f, g \in Names}
              \union {<<f, g, Fits("other", {})>> : f, g \in Names \ {Fits("other", {})}}

Naming0 == [raster |-> FALSE, takeAll |-> FALSE, formats |-> {".shp"}, aliases |-> <<"status", "change">>,
            geodatabases |-> 0, excessiveAllowed |-> FALSE, aois |-> {}, excluded |-> {}, epsgs |-> {},
            wantsInfo |-> FALSE, gdbName |-> FALSE, boundary |-> "europe", boundaries |-> {"europe"},
            extensions |-> {}, files |-> <<>>]

Products ==
    {[excessiveAllowed |-> TRUE, wantsInfo |-> TRUE] @@ Naming0,
     [takeAll |-> TRUE, aliases |-> <<>>] @@ Naming0,
     [aois |-> {"*"}, boundary |-> "by aoi", boundaries |-> {"cz"}] @@ Naming0,
     [aois |-> {"cz", "at"}, excluded |-> {"at"}, epsgs |-> {"3035"}] @@ Naming0,
     [aois |-> {"cz"}, boundary |-> "by aoi", boundaries |-> {"cz"}, excessiveAllowed |-> TRUE] @@ Naming0}

GdbProduct == [formats |-> {".gdb"}, geodatabases |-> 1, gdbName |-> TRUE, aois |-> {"cz", "at"},
               boundary |-> "by aoi", boundaries |-> {"cz", "at"}] @@ Naming0

RasterProduct == [raster |-> TRUE, aliases |-> <<"status">>, aois |-> {"cz"}, epsgs |-> {"3035"},
                  extensions |-> {{".tfw", ".TFW"}}] @@ Naming0

NoMore == [contents |-> [n \in {} |-> 0], boundary |-> "3035", archive |-> "zip", objects |-> <<>>,
           pixels |-> 0, documents |-> {}]

S(check) == [check |-> check]

Named(n, archive, objects, first) ==
    [steps |-> <<S(first), S("naming")>>, naming |-> n, archive |-> archive, objects |-> objects] @@ NoMore

Object(zip, comes) == [zip |-> zip, comes |-> comes]

NamingInputs ==
    {Named([files |-> d] @@ n, "zip", <<>>, "unzip") : d \in {e \in Deliveries : Len(e) # 2 \/ e[1] # e[2]}, n \in Products}
    \union {Named([files |-> [i \in DOMAIN d |-> InGdb(d[i])]] @@ GdbProduct, "zip", <<>>, "unzip") : d \in Deliveries}
    \union {Named([files |-> <<[format |-> ".tif", bands |-> b, beside |-> w] @@ f>>] @@ RasterProduct, "zip", <<>>, "unzip") :
                b \in {1, 3}, w \in {{}, {".TFW"}}, f \in Names}
    \union {Named(Naming0, a, <<>>, "unzip") : a \in {"zip", "broken", "other"}}
    \union {Named(Naming0, "none", o, "s3_download") :
                o \in {<<>>, <<Object(FALSE, TRUE)>>, <<Object(FALSE, TRUE), Object(TRUE, TRUE), Object(FALSE, FALSE)>>,
                       <<Object(TRUE, FALSE)>>}}

-----------------------------------------------------------------------------
(* Features.                                                                *)
Says(g, e, w, r) == [general |-> g, exception |-> e, warning |-> w, error |-> r]

Plain == [says |-> Says("T", "F", "F", "F"), x |-> 1, y |-> 2, z |-> Null, change |-> "pair", kind |-> "null",
          area |-> 10, measured |-> 10, compact |-> 5, parts |-> 1, rings |-> 1, valid |-> TRUE, short |-> FALSE]

Srs == [authority |-> "EPSG", code |-> "3035", same |-> TRUE]

Field(name, type, width) == [name |-> name, type |-> type, width |-> width]

Bare == [features |-> <<Plain>>, touching |-> {}, overlaps |-> {}, gaps |-> <<>>, strangers |-> {},
         fields |-> <<Field("code", "string", 5)>>, srs |-> Srs, loads |-> "all"]

Of(features) == [features |-> features] @@ Bare
One(f) == Of(<<f @@ Plain>>)
Beside(f) == Of(<<Plain, f @@ Plain>>)

\* A job that imports a layer, or two, and has one more check.
Job(s, layer, other) ==
    [steps |-> <<S("unzip"), S("naming"), S("import"), s @@ [layers |-> <<"status", "change">>]>>,
     naming |-> [files |-> <<Fits("s", {"status"}), Fits("c", {"change"})>>] @@ Naming0,
     contents |-> [n \in {"s", "c", "europe"} |-> IF n = "s" THEN layer ELSE IF n = "c" THEN other ELSE Bare]] @@ NoMore

On(s, layers) == {Job(s, l, Bare) : l \in layers}

Value == {1, 2, Null}

Rows ==
    On(S("mmu"), {Beside([says |-> Says(g, e, w, "F")]) : g, e, w \in TV} \union {Of(<<>>)})
    \union On(S("mmw"), {Beside([says |-> Says(g, e, "F", "F"), parts |-> n]) : g, e \in TV, n \in 0 .. 2})
    \union UNION {On([check |-> "change", chtype |-> c[1], exempt |-> c[2], consistent |-> c[3]],
                     {One([x |-> x, y |-> y, change |-> h, kind |-> k]) : x, y \in Value,
                          h \in {"pair", "other", "exempt", "null"}, k \in {"T", "other", "null"}}) :
                      c \in {<<FALSE, FALSE, FALSE>>, <<TRUE, FALSE, FALSE>>, <<TRUE, FALSE, TRUE>>, <<TRUE, TRUE, TRUE>>}}
    \union On(S("geometry"), {Beside([valid |-> FALSE]), Bare})
    \union On(S("singlepart"), {Beside([rings |-> 2]), Bare})
    \union On([check |-> "compactness", threshold |-> 4, linear |-> 1, patchy |-> 2],
              {One([x |-> x, compact |-> c]) : x \in Value, c \in {4, 5, Null}})
    \union On([check |-> "mxmu", mxmu |-> 10],
              {One([says |-> Says("T", "F", "F", r), area |-> a]) : r \in TV, a \in {10, 11, Null}})
    \union On(S("mxmw"), {One([says |-> Says("T", "F", w, "F"), parts |-> n]) : w \in TV, n \in 0 .. 2})
    \union On(S("mml"), {One([says |-> Says("T", "F", w, "F"), short |-> b]) : w \in TV, b \in BOOLEAN})
    \union UNION {On([check |-> "area", percent |-> p, tolerance |-> 20],
                     {Beside([area |-> a, measured |-> m]) : a \in {-10, 0, 10, Null}, m \in {1, 10, 12, 13, 31}}) : p \in BOOLEAN}
    \union On([check |-> "non_probable", changes |-> {<<1, 2>>}], {One([x |-> x, y |-> y]) : x, y \in Value})

Columns ==
    UNION {On([check |-> c, keys |-> {"x"}],
              {Of([i \in 1 .. 3 |-> [x |-> v[i]] @@ Plain]) : v \in [1 .. 3 -> Value]}) : c \in {"unique", "constant"}}
    \union {Job([check |-> "enum", codes |-> [x |-> c, y |-> {1, 2}], exclude |-> e],
                One([x |-> x, y |-> 2, z |-> z]), One([x |-> u])) :
                x, u \in {1, 3, Null}, z \in {1, Null}, c \in {{1, 2}, {1, 2, Null}}, e \in {"none", "z"}}
    \union UNION {On([check |-> "nodata", nodata |-> n, dep |-> d, deps |-> <<"y">>],
                     {One([x |-> x, y |-> y]) : x, y \in Value}) : n, d \in {1, Null}}
    \union {Job([check |-> "condition", rules |-> [rule |-> {[given |-> g, op |-> o, value |-> 1]}]], l, l) :
                g \in {1, Null}, o \in Operators, l \in {One([x |-> x, y |-> y]) : x \in Value, y \in {0, 1, 2, Null}}}
    \union On(S("condition_sql"), {One([says |-> Says("T", "F", "F", r)]) : r \in TV})

Touch(pairs) == pairs \union {<<p[2], p[1]>> : p \in pairs}

Pairs ==
    UNION {On([check |-> "neighbour", columns |-> {"x", "y"}, either |-> b],
              {[touching |-> Touch({<<1, 2>>, <<2, 3>>})] @@
               Of(<<[x |-> x, says |-> Says("T", e, "F", "T")] @@ Plain,
                    [says |-> Says("T", f, "F", r)] @@ Plain, [x |-> u, says |-> Says("T", "F", "F", "T")] @@ Plain>>) :
               x, u \in Value, e, f, r \in {"T", "F"}}) : b \in BOOLEAN}
    \union UNION {On([check |-> "overlap", tolerant |-> b],
              {[overlaps |-> o] @@ Of(<<Plain, Plain, Plain>>) :
               o \in SUBSET {[pair |-> {1, 2}, large |-> TRUE], [pair |-> {1, 2}, large |-> FALSE],
                             [pair |-> {2, 3}, large |-> FALSE]}}) : b \in BOOLEAN}
    \union {Job(s, Of(<<>>), [overlaps |-> {[pair |-> {1, 2}, large |-> TRUE]}] @@ Of(<<Plain, Plain>>)) :
               s \in {[check |-> "overlap", tolerant |-> TRUE],
                      [check |-> "neighbour", columns |-> {"x"}, either |-> FALSE]}}

GapOf(small, core, deep) == [small |-> small, core |-> core, deep |-> deep]

WithGaps(t, g, h, strangers) == [gaps |-> <<GapOf(g[1], g[2], g[3]), GapOf(h[1], h[2], h[3])>>, strangers |-> strangers] @@ Bare

GapKinds == {<<FALSE, TRUE, 9>>, <<FALSE, FALSE, 9>>, <<TRUE, TRUE, 9>>, <<TRUE, FALSE, 1>>, <<FALSE, FALSE, 1>>, <<FALSE, FALSE, 2>>}

GapJobs ==
    {Job([check |-> "gap", buffer |-> b, boundaryTolerance |-> t, tolerant |-> o, du |-> d],
         WithGaps(t, g, h, IF d THEN {1} ELSE {}), WithGaps(t, h, h, {})) :
            b \in {0, 5}, t \in {0, 1}, o \in BOOLEAN, d \in BOOLEAN, g, h \in GapKinds}
    \union {[naming |-> [files |-> j.naming.files, boundaries |-> {}] @@ Naming0] @@ j :
            j \in On([check |-> "gap", buffer |-> 0, boundaryTolerance |-> 1, tolerant |-> FALSE, du |-> FALSE], {Bare})}

Sources ==
    UNION {On([check |-> c, required |-> [code |-> "string", id |-> "integer64"], ignored |-> {"fid"}, lengths |-> [code |-> 3]],
              {[fields |-> f] @@ Bare :
               f \in {<<Field("code", t, w), Field(n, "integer64", 0), Field(m, "unknown", 0)>> :
                          t \in {"string", "date", "unknown"}, w \in {3, 4}, n \in {"id", "extra"}, m \in {"fid", "code"}}
                     \union {<<Field("code", "string", 3)>>, <<Field("id", "integer", 0), Field("code", "string", 3)>>}}) :
              c \in {"attribute", "attribute_csv"}}
    \union UNION {On(s, {[srs |-> [authority |-> a, code |-> c, same |-> b]] @@ Bare :
                             a \in {"none", "EPSG", "other"}, c \in {"3035", "text"}, b \in BOOLEAN}) :
                  s \in {[check |-> "epsg", epsg |-> "3035", auto |-> TRUE],
                         [check |-> "epsg", epsg |-> "3035", auto |-> FALSE], S("epsg_clc")}}
    \union On(S("mmu"), {[loads |-> l] @@ Bare : l \in {"all", "part", "none", "fails"}})
    \union {[pixels |-> p] @@ Job([check |-> "layer_area", layers |-> <<"status">>, vectorCodes |-> {1}, tolerance |-> 20],
                                   One([x |-> x]), Bare) : p \in {0, 10, 13}, x \in {1, 2}}
    \union {[steps |-> <<S("unzip"), S("naming"), [check |-> "document", documents |-> {"wu", "pdf"}]>>, documents |-> d] @@ j :
            j \in On(S("mmu"), {Bare}), d \in SUBSET {"wu", "pdf"}}

\* Products as they are: several checks, whose errors end the job or do not.
Series == <<S("unzip"), S("naming"), [check |-> "epsg", epsg |-> "3035", auto |-> FALSE],
            S("import"), [check |-> "unique", keys |-> {"x"}], S("singlepart"), S("geometry"),
            [check |-> "overlap", tolerant |-> FALSE], [check |-> "neighbour", columns |-> {"x"}, either |-> FALSE]>>

Aware == <<S("unzip"), S("naming"), [check |-> "epsg", epsg |-> "3035", auto |-> FALSE], S("import"), S("geometry"),
           [check |-> "area", percent |-> FALSE, tolerance |-> 20],
           [check |-> "layer_area", layers |-> <<"status">>, vectorCodes |-> {1}, tolerance |-> 20],
           [check |-> "overlap", tolerant |-> FALSE], [check |-> "neighbour", columns |-> {"x"}, either |-> FALSE]>>

General == <<S("unzip"), S("naming"), [check |-> "epsg", epsg |-> "3035", auto |-> TRUE], S("import"),
             S("singlepart"), S("geometry"), [check |-> "overlap", tolerant |-> FALSE]>>

SeriesJobs ==
    {[steps |-> General,
      naming |-> [files |-> <<Fits("s", {}), Fits("c", {})>>, takeAll |-> TRUE, aliases |-> <<>>] @@ Naming0]
         @@ Job(S("mmu"), Beside([rings |-> r]), [loads |-> l] @@ Beside([valid |-> v])) :
        r \in {1, 2}, v \in BOOLEAN, l \in {"all", "part"}}
    \union
    {[steps |-> Series] @@ Job(S("mmu"), [overlaps |-> IF o THEN {[pair |-> {1, 2}, large |-> TRUE]} ELSE {}] @@
                               Beside([x |-> x, valid |-> v, rings |-> r]), [loads |-> l] @@ Bare) :
        o, v \in BOOLEAN, x \in Value, r \in {1, 2}, l \in {"all", "part"}}
    \union {[steps |-> Aware, contents |-> [s |-> Of(<<>>), c |-> Of(<<>>), europe |-> Bare],
             naming |-> [files |-> <<[aoi |-> a] @@ Fits("s", {"status"}), [aoi |-> a] @@ Fits("c", {"change"})>>,
                         aois |-> {"cz", "at"}, excluded |-> {"at"}] @@ Naming0] @@ Job(S("mmu"), Bare, Bare) :
            a \in {"cz", "at", "fr"}}

\* Products whose nodata check has several dependent columns.
DependentJobs ==
    {Job([check |-> "nodata", nodata |-> 1, dep |-> 2, deps |-> <<"y", "z">>],
         One([x |-> x, y |-> y, z |-> z]), One([x |-> 2])) : x, y, z \in Value}

Jobs == NamingInputs \union Rows \union Columns \union DependentJobs \union Pairs \union GapJobs \union Sources
        \union SeriesJobs

-----------------------------------------------------------------------------
(* Each waiver is needed: without it, an accepted job has a layer that the   *)
(* documentation does not allow.                                             *)
NoNullKey        == AcceptedMeets(Waivers \ {"null key"})
NoNullCode       == AcceptedMeets(Waivers \ {"null code"})
NoExcludedRow    == AcceptedMeets(Waivers \ {"excluded row"})
NoExemptChange   == AcceptedMeets(Waivers \ {"exempt change"})
NoOtherDependent == AcceptedMeets(Waivers \ {"other dependent"})
NoNullArea       == AcceptedMeets(Waivers \ {"null area"})
NoNegativeArea   == AcceptedMeets(Waivers \ {"negative area"})
NoNullCondition  == AcceptedMeets(Waivers \ {"null condition"})
NoUnequal        == AcceptedMeets(Waivers \ {"unequal"})
NoEmptyLayer     == AcceptedMeets(Waivers \ {"empty layer"})
NoSmallOverlap   == AcceptedMeets(Waivers \ {"small overlap"})
NoSmallGap       == AcceptedMeets(Waivers \ {"small gap"})
NoOuterGap       == AcceptedMeets(Waivers \ {"outer gap"})
NoShrunkBoundary == AcceptedMeets(Waivers \ {"shrunk boundary"})
NoOtherAuthority == AcceptedMeets(Waivers \ {"other authority"})

=============================================================================
