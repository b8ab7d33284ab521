----------------------------- MODULE MCCompiler -----------------------------
(* Model-checking instance of Compiler: narrow rows, up to three rows, and *)
(* three variable indices as model values (the compiler only compares      *)
(* indices for equality, so three distinct ones cover every sharing        *)
(* pattern of a 3x3 grid up to renaming).                                 *)
EXTENDS Compiler

CONSTANTS v1, v2, v3

MCVarIds == {v1, v2, v3}

=============================================================================
