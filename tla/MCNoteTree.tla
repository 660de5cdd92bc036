------------------------------ MODULE MCNoteTree ------------------------------
EXTENDS NoteTree, TLC

CONSTANTS A, B, C1, C2, E, f

\* The document f and its bundle have the same title, the folders others.
MCTitle == [n \in Notes |-> IF n \in {f, E} THEN "document" ELSE "other"]

Symmetry == Permutations({A, B} \cap Folders) \cup Permutations(Courses)
=============================================================================
