----------------------------- MODULE ClassShares -----------------------------
(***************************************************************************)
(* The smooth weighted round robin that shares import capacity between the *)
(* service classes (chooseWeightedClass, app.import_scheduler_classes).    *)
(* Which classes have work may change before every choice, and the code    *)
(* does not say which of two equal credits wins.                           *)
(***************************************************************************)
EXTENDS Integers

VARIABLE credit  \* [Class -> current_weight]

Class == {"free", "semester", "academic_year"}
Weight == [free |-> 1, semester |-> 3, academic_year |-> 5]

Share(c, eligible) == IF c \in eligible THEN Weight[c] ELSE 0
Total(eligible) ==
  Share("free", eligible) + Share("semester", eligible) + Share("academic_year", eligible)

Init == credit = [c \in Class |-> 0]

Raised(eligible) == [c \in Class |-> credit[c] + Share(c, eligible)]

\* The classes with the greatest raised credit.
Leaders(eligible) ==
  {c \in eligible : \A d \in eligible : Raised(eligible)[d] <= Raised(eligible)[c]}

\* Mutant: the class pays its own weight and not that of everybody who competed.
PaysItself(eligible, c) ==
  credit' = [Raised(eligible) EXCEPT ![c] = Raised(eligible)[c] - Weight[c]]

\* Mutant: the new credits are not stored.
PaysNothing(eligible, c) == UNCHANGED credit

Pays(eligible, c) ==
  credit' = [Raised(eligible) EXCEPT ![c] = Raised(eligible)[c] - Total(eligible)]

Choose(eligible, c) == c \in Leaders(eligible) /\ Pays(eligible, c)

Next == \E eligible \in SUBSET Class : \E c \in eligible : Choose(eligible, c)

Spec == Init /\ [][Next]_credit

-----------------------------------------------------------------------------

\* What one class gets too much the others miss: the credits always cancel out, whichever
\* classes come and go.
Balanced == credit["free"] + credit["semester"] + credit["academic_year"] = 0

\* No class is ever a round of nine ahead of its share or behind it, even when the classes
\* that have work change with every choice.
WithinShare ==
  /\ credit["free"] \in -6..6
  /\ credit["semester"] \in -7..7
  /\ credit["academic_year"] \in -7..7
=============================================================================
