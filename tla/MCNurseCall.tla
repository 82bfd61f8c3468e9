---------------------------- MODULE MCNurseCall -----------------------------
(* Instances of NurseCall for TLC; the bounds are in the configurations.     *)
EXTENDS NurseCall
=============================================================================
