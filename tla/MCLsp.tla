-------------------------------- MODULE MCLsp -------------------------------
(***************************************************************************)
(* The instance of Lsp for TLC, without the program around it.             *)
(***************************************************************************)
EXTENDS Lsp
=============================================================================
