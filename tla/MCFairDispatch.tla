--------------------------- MODULE MCFairDispatch ---------------------------
(* The users and files of the runs.                                        *)
EXTENDS FairDispatch, TLC

\* One user's files.
OneClass == [u \in User |-> "free"]
OneOwner == [f \in File |-> CHOOSE u \in User : TRUE]

\* A user of the free class against one of the heaviest, whose files are older.
TwoClass == [a |-> "academic_year", c |-> "free"]
TwoOwner == [f \in File |-> IF f = 3 THEN "c" ELSE "a"]

Symmetry == Permutations(Dispatcher)
=============================================================================
