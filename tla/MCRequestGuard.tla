--------------------------- MODULE MCRequestGuard ---------------------------
(* Instances of RequestGuard for TLC. *)
EXTENDS RequestGuard
=============================================================================
