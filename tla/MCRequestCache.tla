--------------------------- MODULE MCRequestCache ---------------------------
(* Values for model-checking RequestCache: a body that fits on disk and one *)
(* that does not, one entry in memory, a file left by an earlier run.       *)
EXTENDS RequestCache, TLC

CONSTANTS u1, u2, r1, r2, w1, w2

MCUrls     == {u1, u2}
MCRequests == {r1, r2}
MCWorkers  == {w1, w2}
MCSizeOf   == u1 :> 1 @@ u2 :> 3
MCMaxAges  == {}

Empty == [u \in MCUrls |-> NoRow]

\* A row with a validator, good for a moment of the new clock.  This version
\* of the program writes rows without one: the table is from another.
Tagged == [row |-> TRUE, copy |-> [NoCopy EXCEPT !.tag = TRUE],
           expires |-> 1, cachedAt |-> 0]

MCOldTables == {Empty, [Empty EXCEPT ![u1] = Tagged]}

\* The ages of one URL's copies; two requests while it changes; two URLs and
\* the death of the process.
MCBounds ==
    {[time |-> 4, versions |-> 0, crashes |-> 0, arrivals |-> 3,
      urls |-> {u1}, requests |-> {r1}, kinds |-> Kinds],
     [time |-> 1, versions |-> 1, crashes |-> 0, arrivals |-> 3,
      urls |-> {u1}, requests |-> MCRequests, kinds |-> {"bypass", "upload"}],
     [time |-> 2, versions |-> 0, crashes |-> 1, arrivals |-> 3,
      urls |-> MCUrls, requests |-> {r1}, kinds |-> {"bypass", "other"}]}
=============================================================================
