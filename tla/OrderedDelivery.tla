--------------------------- MODULE OrderedDelivery ---------------------------
(***************************************************************************)
(* What a progressive stream promises its client, whatever happens inside  *)
(* the fetch pipeline: the chunks arrive in order, each once, and the      *)
(* response ends, complete exactly when every chunk was delivered.         *)
(***************************************************************************)
EXTENDS Naturals, Sequences

CONSTANT NumChunks      \* chunks of the response

VARIABLES
    delivered,          \* the chunks the client holds, in order of arrival
    status              \* "open", then "complete" or "truncated"

vars == <<delivered, status>>

Init ==
    /\ delivered = <<>>
    /\ status = "open"

\* The next chunk reaches the client.
Deliver ==
    /\ status = "open"
    /\ Len(delivered) < NumChunks
    /\ delivered' = Append(delivered, Len(delivered))
    /\ UNCHANGED status

\* The response ends with every chunk delivered.
Complete ==
    /\ status = "open"
    /\ Len(delivered) = NumChunks
    /\ status' = "complete"
    /\ UNCHANGED delivered

\* The response ends early: a chunk could not be fetched or the client left.
Truncate ==
    /\ status = "open"
    /\ Len(delivered) < NumChunks
    /\ status' = "truncated"
    /\ UNCHANGED delivered

Next == Deliver \/ Complete \/ Truncate

Safety == Init /\ [][Next]_vars
==============================================================================
