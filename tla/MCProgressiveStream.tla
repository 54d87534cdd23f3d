------------------------- MODULE MCProgressiveStream -------------------------
(* Values for model-checking ProgressiveStream. *)
EXTENDS ProgressiveStream

\* Ranges as build_ranges cuts them (the last one short), and unequal ranges as
\* apply_per_proxy_chunk_sizes leaves them.
EvenSizes   == [i \in Chunks |-> IF i = NumChunks - 1 THEN 1 ELSE 2]
UnevenSizes == [i \in Chunks |-> IF i % 2 = 0 THEN 1 ELSE 3]

\* From no prefetch to the default, one or two workers, buffers from less than
\* one chunk to more than a window.
MCPlans ==
    [prefetch : 0 .. 2, workers : 1 .. 2, buffer : {1, 4, 5, 8},
     size : {EvenSizes, UnevenSizes}, race : BOOLEAN]

\* The default prefetch with a buffer of two chunks and two workers.
SmallBufferPlan ==
    {[prefetch |-> 2, workers |-> 2, buffer |-> 4, size |-> EvenSizes,
      race |-> FALSE]}

\* The default prefetch and ample room, chunk 0 raced.
RacePlan ==
    {[prefetch |-> 2, workers |-> 2, buffer |-> 8, size |-> EvenSizes,
      race |-> TRUE]}
==============================================================================
