---------------------------- MODULE MCWatchStop -----------------------------
(* WatchStop for TLC: the configurations give every constant its value. *)
EXTENDS WatchStop
=============================================================================
