------------------------------ MODULE MCMethodTree ------------------------------
(* MethodTree on small traces.                                                *)
EXTENDS MethodTree
================================================================================
