---------------------------- MODULE MCIdleChain -----------------------------
(* Instances of IdleChain for TLC. *)
EXTENDS IdleChain

\* The session reads active or idle, unlocked.
Unlocked == {[idle |-> i, locked |-> "no"] : i \in {"yes", "no"}}

\* ADR-002: logind's IdleHint is often stuck at "no" without a lock screen.
StuckActive == {[idle |-> "no", locked |-> "no"]}
=============================================================================
