---------------------------- MODULE MCFocusChain ----------------------------
(* Instances of FocusChain for TLC: the Wayland row of candidate_sources. *)
EXTENDS FocusChain

WaylandOrder == <<"atspi", "x11", "noop">>
=============================================================================
