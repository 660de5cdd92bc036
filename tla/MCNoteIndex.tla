---------------------------- MODULE MCNoteIndex ----------------------------
EXTENDS NoteIndex, TLC

Symmetry == Permutations(Worker) \cup Permutations(Request)
=============================================================================
