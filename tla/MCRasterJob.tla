---------------------------- MODULE MCRasterJob ----------------------------
(* Model checking of RasterJob: jobs of one check each, and one of several. *)
EXTENDS RasterJob, TLC

-----------------------------------------------------------------------------
(* Rasters for the minimum mapping unit, with at most three by two tiles.   *)

Shape == {{<<0, 0>>}, {<<0, 0>>, <<1, 0>>}, {<<0, 0>>, <<0, 1>>}, {<<0, 0>>, <<1, 0>>, <<1, 1>>}}

At(S, p) == {<<c[1] + p[1], c[2] + p[2]>> : c \in S}

Plain(n, m, marks) == [ncols |-> n, nrows |-> m, ground |-> 1, fill |-> 0, marks |-> marks,
                       around |-> <<>>, neighbours |-> "off"]

SomeImage == Plain(4, 4, <<>>)

Inside(n, m) == (0 .. n - 1) \X (0 .. m - 1)

\* A patch of each shape across and around the inner zones' borders.
OneMark(n, m, P) ==
    {Plain(n, m, [c \in At(Sp[1], Sp[2]) |-> 2]) :
        Sp \in {q \in Shape \X P : At(q[1], q[2]) \subseteq Inside(n, m)}}

\* Two marks side by side: of a group, excepted, next to an exception, without data.
TwoMarks(n, m, P) ==
    {Plain(n, m, [c \in At({<<0, 0>>, <<1, 0>>}, q[1]) |-> IF c = q[1] THEN 2 ELSE q[2]]) :
        q \in P \X {0, 3, 4, 6}}

\* Five single pixels in one tile: more than are reported.
ManyMarks == {Plain(24, 14, [c \in {<<2, 2>>, <<4, 2>>, <<2, 4>>, <<4, 4>>, <<2, 6>>} |-> 2])}

\* A patch at the right edge that goes on in the neighbouring delivery, or does not.
AtEdge(neighbours) ==
    {[Plain(15, 9, [c \in {<<14, 4>>} |-> 2]) EXCEPT
        !.around = [c \in {<<15 + k, 4>> : k \in 0 .. more} |-> 2], !.neighbours = neighbours] : more \in 0 .. 2}

MCImages ==
    OneMark(24, 14, ((6 .. 14) \X {0, 2}) \union ((18 .. 22) \X {2}) \union ({0, 7, 12} \X {7, 8, 11, 12}))
        \union TwoMarks(24, 14, {6, 7, 10, 11, 12, 19} \X {4, 12})
        \union OneMark(20, 14, {<<2, 2>>}) \union OneMark(8, 8, {0, 3, 6, 7} \X {0, 3, 6, 7})
        \union OneMark(24, 8, {<<7, 2>>})
        \union ManyMarks
        \union {[SomeImage EXCEPT !.marks = (<<1, 1>> :> 2), !.neighbours = "no s3"]}
        \union UNION {AtEdge(s) : s \in {"there", "none", "lost", "no boundary", "no s3"}}

MCGroup == [v \in 0 .. 6 |-> IF v = 6 THEN 2 ELSE v]

-----------------------------------------------------------------------------
(* Layers and masks for the gap check: pixels of two units, tiles of two    *)
(* pixels, the mask across the layer's borders.                             *)

Layer(x, y, gaps, nodata) ==
    [x |-> x, y |-> y, ncols |-> 3, nrows |-> 3, res |-> 2, nodata |-> nodata, whole |-> TRUE,
     values |-> [c \in Inside(3, 3) |-> IF c \in gaps THEN nodata ELSE 7]]

Mask(x, y, ones, nodata) ==
    [x |-> x, y |-> y, ncols |-> 4, nrows |-> 3, res |-> 2, nodata |-> nodata, ones |-> ones]

Ones == {{}, Inside(4, 3), {<<0, 0>>, <<1, 0>>, <<0, 1>>, <<1, 1>>, <<2, 2>>}}

Masked2(layers, masks, unit, outside) == [layers |-> layers, masks |-> masks, unit |-> unit, outside |-> outside]

MaskedJobs ==
    {Masked2(<<Layer(0, 0, g, 255)>>, (2 :> Mask(x, y, o, n)), None, v) :
        g \in {{}, {<<0, 0>>, <<2, 1>>}, {<<1, 2>>}}, x \in {-8, -6, -2, -1, 0, 4, 6, 8}, y \in {-2, 0, 1, 4},
        o \in Ones, n \in {None, 0}, v \in {255, ByNoData}}

UnitJobs ==
    {Masked2(<<Layer(x, y, {<<1, 1>>}, 255)>>, <<>>, [x1 |-> x1, x2 |-> 5, y1 |-> y1, y2 |-> 0], 255) :
        x \in {0, 1}, y \in {0, 1}, x1 \in {-3, 0, 2}, y1 \in {-5, -2}}

TwoLayers ==
    {Masked2(<<l, Layer(0, 0, {<<1, 1>>}, n)>>, (2 :> Mask(0, 0, Inside(4, 3), None)), None, ByNoData) :
        l \in {Layer(0, 0, {}, 255), [Layer(0, 0, {}, 255) EXCEPT !.whole = FALSE],
               [Layer(0, 0, {}, 255) EXCEPT !.res = 3]},
        n \in {255, 254}}
        \union {Masked2(<<Layer(0, 0, {<<1, 1>>}, 255), Layer(0, 0, {}, 255)>>,
                        (2 :> Mask(0, 0, Inside(3, 3), None)), None, 255)}

\* A layer without a NoData value, inside, beside and across the mask's tiles.
NoValueJobs ==
    {Masked2(<<Layer(0, 0, {}, None)>>, (2 :> Mask(x, 0, Inside(4, 3), None)), None, ByNoData) : x \in {-2, 0, 6, 7}}

NoGapJob == Masked2(<<>>, <<>>, None, 255)

-----------------------------------------------------------------------------
(* Layers for the other checks.                                             *)

Good == [rat |-> "gdal", attrs |-> "there", bits |-> 8, cog |-> "valid", table |-> "right", compression |-> "lzw",
         srs |-> "expected", nodata |-> 0, x |-> 100, y |-> 200, xres |-> 10, yres |-> 10, blocks |-> 256,
         values |-> {1, 2}]

Bad(check) ==
    CASE check = "attribute" -> {[Good EXCEPT !.rat = r, !.attrs = a] :
                                    r \in {"dbf", "none", "unreadable"}, a \in {"there", "missing"}}
      [] check = "bit_depth" -> {[Good EXCEPT !.bits = 16]}
      [] check = "cog" -> {[Good EXCEPT !.cog = c] : c \in {"invalid", "crashed"}}
      [] check = "color" -> {[Good EXCEPT !.table = t, !.bits = b] : t \in {"missing", "partial", "wrong"}, b \in {8, 32}}
      [] check = "compress" -> {[Good EXCEPT !.compression = c] : c \in {"none", "jpeg"}}
      [] check = "epsg" -> {[Good EXCEPT !.srs = s] :
                               s \in {"none", "other", "not a number", "same, no code", "other, no code"}}
      [] check = "nodata" -> {[Good EXCEPT !.nodata = n] : n \in {None, 255}}
      [] check = "origin" -> {[Good EXCEPT !.x = x, !.y = y] : x \in {100, 105, 150}, y \in {105, 110}}
      [] check = "pixel_size" -> {[Good EXCEPT !.xres = x, !.yres = y] : x \in {10, 20}, y \in {10, 20}}
      [] check = "tile" -> {[Good EXCEPT !.blocks = 1024]}
      [] check = "value" -> {[Good EXCEPT !.values = {v}] : v \in {2, 3, 300, -1}}
      [] check = "value_min_max" -> {[Good EXCEPT !.values = {1, v}] : v \in {0, 9}}

Product(steps, facts, gap, img) ==
    [steps |-> steps, facts |-> facts, gap |-> gap, image |-> img, bits |-> 8, compressions |-> {"lzw", "deflate"},
     nodata |-> 0, grid |-> 100, pixel |-> 10, blocks |-> 512, codes |-> {1, 2}, least |-> 1, most |-> 2]

CheckJobs ==
    UNION {{Product(<<c>>, <<f, g>>, NoGapJob, SomeImage) : f, g \in Bad(c) \union {Good}} : c \in LayerCheck}

\* A corner on the grid but not on the pixels, and products without a grid.
GridJobs ==
    {Product(<<"origin">>, <<[Good EXCEPT !.x = x, !.xres = 30, !.yres = 30]>>, NoGapJob, SomeImage) :
        x \in {200, 300, 600}}
        \union {[Product(<<"origin">>, <<[Good EXCEPT !.x = x, !.y = 2000, !.xres = 30]>>, NoGapJob, SomeImage)
                    EXCEPT !.grid = None] : x \in {100, 1000}}

\* The whole way of a product: a step that fails, and one that aborts.
LongJobs ==
    {Product(<<"epsg", "compress", "gap", "mmu", "color">>, <<f>>, Masked2(<<Layer(0, 0, g, 255)>>,
             (2 :> Mask(0, 0, Inside(4, 3), None)), None, 255), Plain(8, 8, [c \in {<<4, 4>>} |-> 2])) :
        f \in {Good, [Good EXCEPT !.srs = "other"], [Good EXCEPT !.compression = "jpeg"]}, g \in {{}, {<<1, 1>>}}}

MCInput ==
    {Product(<<"mmu">>, <<>>, NoGapJob, i) : i \in MCImages}
        \union {Product(<<"gap">>, <<>>, g, SomeImage) : g \in MaskedJobs \union UnitJobs \union TwoLayers \union NoValueJobs}
        \union CheckJobs \union GridJobs \union LongJobs

=============================================================================
