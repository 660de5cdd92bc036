----------------------------- MODULE MCStudyMap -----------------------------
(***************************************************************************)
(* Small instances of StudyMap for TLC.                                    *)
(***************************************************************************)
EXTENDS StudyMap, TLC
Symmetry == Permutations(Worker) \cup Permutations(Setup)
=============================================================================
