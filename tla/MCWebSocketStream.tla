---------------------------- MODULE MCWebSocketStream ----------------------------
(* Two subscribe messages, from the start of the stream or after its first   *)
(* event; three events, of which some may be redactions; replays of two.     *)
EXTENDS WebSocketStream

CONSTANTS r1, r2
MCRequests == {r1, r2}
MCFromSeqs == {0, 1}
=============================================================================
