---------------------------- MODULE MCErrPrinter ----------------------------
(***************************************************************************)
(* The instance of ErrPrinter for TLC.                                     *)
(***************************************************************************)
EXTENDS ErrPrinter
=============================================================================
