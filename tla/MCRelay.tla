------------------------------ MODULE MCRelay ------------------------------
(* Values for model-checking Relay: every kind of request and of proxy, two  *)
(* segments of payload from the client and two from the other end.           *)
EXTENDS Relay

MCWants == {"connect", "malformed", "http", "websocket"}
MCVias  == {"http", "socks", "none"}
=============================================================================
