---------------------------- MODULE MCTypeTable -----------------------------
(***************************************************************************)
(* Instances of TypeTable for TLC.                                         *)
(***************************************************************************)
EXTENDS TypeTable

MCName == <<"s8", "s16">>
=============================================================================
