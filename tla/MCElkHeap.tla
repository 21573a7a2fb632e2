------------------------------- MODULE MCElkHeap -------------------------------
(* ElkHeap with two variables and a small memory.                              *)
EXTENDS ElkHeap

Variables == {"x", "y"}
================================================================================
