----------------------------- MODULE MCLifecycle -----------------------------
(* A small instance of Lifecycle for TLC: see Lifecycle.cfg. *)
EXTENDS Lifecycle

CONSTANTS r1, r2

=============================================================================
