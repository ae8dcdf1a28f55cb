----------------------------- MODULE MCReleaseSnapshots -----------------------------
(* Instances of Release and ReleaseSnapshots for TLC. *)
EXTENDS ReleaseSnapshots, TLC

CONSTANTS old, new

\* Two versions lie between the images.
MCSchemaOf == old :> 1 @@ new :> 3
============================================================================
