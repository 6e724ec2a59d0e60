------------------------------- MODULE MCMain -------------------------------
(***************************************************************************)
(* The instance of Main for TLC.                                           *)
(***************************************************************************)
EXTENDS Main
=============================================================================
