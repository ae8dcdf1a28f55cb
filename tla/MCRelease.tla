----------------------------- MODULE MCRelease -----------------------------
(* Instances of Release for TLC. *)
EXTENDS Release, TLC

CONSTANTS old, new

\* Two versions lie between the images.
MCSchemaOf == old :> 1 @@ new :> 3
============================================================================
