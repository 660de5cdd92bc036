-------------------------- MODULE MCMarkerDispatch --------------------------
(* Consumers are interchangeable.                                          *)
EXTENDS MarkerDispatch, TLC

Symmetry == Permutations(Consumer)
=============================================================================
