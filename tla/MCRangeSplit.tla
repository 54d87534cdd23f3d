----------------------------- MODULE MCRangeSplit -----------------------------
(* Values for model-checking RangeSplit. *)
EXTENDS RangeSplit

CONSTANTS p1, p2, p3

MCProxies == {p1, p2, p3}
==============================================================================
