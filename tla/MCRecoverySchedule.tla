------------------------ MODULE MCRecoverySchedule ------------------------
(* Instances of RecoverySchedule for TLC. *)
EXTENDS RecoverySchedule
=============================================================================
