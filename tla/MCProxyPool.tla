---------------------------- MODULE MCProxyPool ----------------------------
(* Values for model-checking ProxyPool: two Tor instances and a static       *)
(* proxy, two fetches, and a refresh of the loop that overlaps one asked for.*)
EXTENDS ProxyPool, TLC

CONSTANTS tor1, tor2, static, auto, admin, f1, f2

MCUrls       == {tor1, tor2, static}
MCTorUrl     == <<tor1, tor2>>
MCRefreshers == {auto, admin}
MCFetches    == {f1, f2}
MCSymmetry   == Permutations(MCRefreshers)
MCMaxCircuit == <<2, 0>>
MCBounds     ==
    {[fetches |-> MCFetches, refreshers |-> {}, administered |-> TRUE, sessions |-> 2],
     [fetches |-> {f1}, refreshers |-> MCRefreshers, administered |-> FALSE, sessions |-> 2]}
=============================================================================
