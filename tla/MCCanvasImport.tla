-------------------------- MODULE MCCanvasImport ---------------------------
(* Workers and files are interchangeable.                                  *)
EXTENDS CanvasImport, TLC

Symmetry == Permutations(Worker) \cup Permutations(File)
=============================================================================
