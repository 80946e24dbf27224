------------------------------ MODULE MCRestore ------------------------------
(***************************************************************************)
(* Instances of RestoreAction for TLC.                                     *)
(***************************************************************************)
EXTENDS RestoreAction
=============================================================================
