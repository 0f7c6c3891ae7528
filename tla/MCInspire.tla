----------------------------- MODULE MCInspire -----------------------------
(* Model checking of Inspire: deliveries of one to three layers.            *)
EXTENDS Inspire

Metadata(xml) == [xml |-> xml, raster |-> FALSE, light |-> FALSE, dirs |-> 1, local |-> TRUE, excluded |-> FALSE]

MCDeliveries ==
    {Metadata(<<"inspire", "other">>), Metadata(<<"missing", "other">>),
     [Metadata(<<"missing", "inspire">>) EXCEPT !.raster = TRUE, !.excluded = TRUE],
     [Metadata(<<"inspire">>) EXCEPT !.excluded = TRUE],
     [Metadata(<<"inspire">>) EXCEPT !.dirs = 2],
     [Metadata(<<"inspire">>) EXCEPT !.local = FALSE],
     [Metadata(<<"inspire", "missing", "other">>) EXCEPT !.light = TRUE]}
=============================================================================
