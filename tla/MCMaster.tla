------------------------------ MODULE MCMaster ------------------------------
(***************************************************************************)
(* Instances of Master: two jobs, the default topic and one control topic. *)
(***************************************************************************)
EXTENDS Master
=============================================================================
