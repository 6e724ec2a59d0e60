------------------------------ MODULE MCParser ------------------------------
(***************************************************************************)
(* Instances of Parser for TLC: the tokens of the programs of a run.       *)
(***************************************************************************)
EXTENDS ParserGrammar

\* Whole functions with statements of both kinds, types and operators.
ProgramTokens ==
    {"fn", "prim", "(", ")", "-", ">", "{", "let", ":", "=", "ret", "int", "*",
     ";", "}"}

\* Let-statements with array types and values, and errors in them.
ErrorTokens ==
    {"fn", "prim", "(", ")", "{", "let", ":", "[", "]", "=", "int", "+", ";",
     "}"}
=============================================================================
