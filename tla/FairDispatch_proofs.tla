------------------------- MODULE FairDispatch_proofs -------------------------
(***************************************************************************)
(* The shares of the classes stay balanced and bounded, and no user has     *)
(* more marked files than the cap, for every set of users and files and     *)
(* any number of dispatchers.                                               *)
(***************************************************************************)
EXTENDS FairDispatch, FiniteSetTheorems, TLAPS

SharesOK == credit \in [Class -> Int] /\ Balanced /\ WithinShare

InShare(x, y, z) ==
  /\ x \in Int /\ y \in Int /\ z \in Int /\ x + y + z = 0
  /\ -6 <= x /\ x <= 6 /\ -7 <= y /\ y <= 7 /\ -7 <= z /\ z <= 7

\* The arithmetic of a choice: the credits x, y, z, raised by F, S, Y, and the winner pays.
LEMMA PayArithmetic ==
  ASSUME NEW x, NEW y, NEW z, InShare(x, y, z),
         NEW F \in {0, 1}, NEW S \in {0, 3}, NEW Y \in {0, 5}
  PROVE  /\ F = 1 /\ (S = 3 => y + S <= x + F) /\ (Y = 5 => z + Y <= x + F)
              => InShare(x + F - (F + S + Y), y + S, z + Y)
         /\ S = 3 /\ (F = 1 => x + F <= y + S) /\ (Y = 5 => z + Y <= y + S)
              => InShare(x + F, y + S - (F + S + Y), z + Y)
         /\ Y = 5 /\ (F = 1 => x + F <= z + Y) /\ (S = 3 => y + S <= z + Y)
              => InShare(x + F, y + S, z + Y - (F + S + Y))
  BY DEF InShare

LEMMA SharesInShare ==
  SharesOK <=> /\ credit \in [Class -> Int]
               /\ InShare(credit["free"], credit["semester"], credit["academic_year"])
<1>1. credit \in [Class -> Int] => /\ credit["free"] \in Int /\ credit["semester"] \in Int
                                   /\ credit["academic_year"] \in Int
  BY DEF Class
<1> QED
  BY <1>1 DEF SharesOK, InShare, Balanced, WithinShare

\* Whichever class wins, the credits still cancel out and stay within their bounds.
LEMMA ChooseKeepsShares ==
  ASSUME SharesOK, NEW eligible \in SUBSET Class, NEW c \in eligible, Choose(eligible, c)
  PROVE  SharesOK'
<1> DEFINE x == credit["free"]
           y == credit["semester"]
           z == credit["academic_year"]
           F == Share("free", eligible)
           S == Share("semester", eligible)
           Y == Share("academic_year", eligible)
<1>1. credit \in [Class -> Int] /\ InShare(x, y, z)
  BY SharesInShare
<1>2. /\ F \in {0, 1} /\ S \in {0, 3} /\ Y \in {0, 5}
      /\ F = 1 <=> "free" \in eligible
      /\ S = 3 <=> "semester" \in eligible
      /\ Y = 5 <=> "academic_year" \in eligible
  BY DEF Share, Weight
<1>3. Total(eligible) = F + S + Y
  BY DEF Total
<1>4. /\ Raised(eligible)["free"] = x + F
      /\ Raised(eligible)["semester"] = y + S
      /\ Raised(eligible)["academic_year"] = z + Y
      /\ DOMAIN Raised(eligible) = Class
  BY DEF Raised, Class
<1>5. \A e \in eligible : Raised(eligible)[e] <= Raised(eligible)[c]
  BY DEF Choose, Leaders
<1>6. \A k \in Class : credit'[k] = IF k = c THEN Raised(eligible)[k] - (F + S + Y)
                                            ELSE Raised(eligible)[k]
  <2>1. credit' = [Raised(eligible) EXCEPT ![c] = Raised(eligible)[c] - Total(eligible)]
    BY DEF Choose, Pays
  <2> HIDE DEF F, S, Y
  <2> QED
    BY <1>3, <1>4, <2>1
<1>10. credit' \in [Class -> Int]
  <2>1. credit' = [Raised(eligible) EXCEPT ![c] = Raised(eligible)[c] - Total(eligible)]
    BY DEF Choose, Pays
  <2>2. Raised(eligible) \in [Class -> Int]
    BY <1>1, <1>2 DEF Raised, Class, InShare
  <2>3. Total(eligible) \in Int
    BY <1>2, <1>3
  <2> HIDE DEF F, S, Y
  <2> QED
    BY <2>1, <2>2, <2>3
<1> DEFINE Sums == InShare(credit'["free"], credit'["semester"], credit'["academic_year"])
<1> HIDE DEF F, S, Y
<1>11. x \in Int /\ y \in Int /\ z \in Int
  BY <1>1 DEF InShare
<1>12. F \in Int /\ S \in Int /\ Y \in Int
  BY <1>2
<1>13. ASSUME Sums PROVE SharesOK'
  <2>1. Balanced' /\ WithinShare'
    BY <1>13 DEF Balanced, WithinShare, InShare
  <2> QED
    BY <1>10, <2>1 DEF SharesOK, Class
<1> HIDE DEF x, y, z, Sums
<1>7. CASE c = "free"
  <2>1. /\ credit'["free"] = x + F - (F + S + Y) /\ credit'["semester"] = y + S
        /\ credit'["academic_year"] = z + Y
    BY <1>4, <1>6, <1>11, <1>12, <1>7 DEF Class
  <2>2. F = 1 /\ (S = 3 => y + S <= x + F) /\ (Y = 5 => z + Y <= x + F)
    BY <1>2, <1>4, <1>5, <1>11, <1>12, <1>7
  <2>3. Sums
    BY <1>1, <1>2, <1>11, <1>12, <2>1, <2>2, PayArithmetic DEF Sums
  <2> QED
    BY <1>13, <2>3
<1>8. CASE c = "semester"
  <2>1. /\ credit'["free"] = x + F /\ credit'["semester"] = y + S - (F + S + Y)
        /\ credit'["academic_year"] = z + Y
    BY <1>4, <1>6, <1>11, <1>12, <1>8 DEF Class
  <2>2. S = 3 /\ (F = 1 => x + F <= y + S) /\ (Y = 5 => z + Y <= y + S)
    BY <1>2, <1>4, <1>5, <1>11, <1>12, <1>8
  <2>3. Sums
    BY <1>1, <1>2, <1>11, <1>12, <2>1, <2>2, PayArithmetic DEF Sums
  <2> QED
    BY <1>13, <2>3
<1>9. CASE c = "academic_year"
  <2>1. /\ credit'["free"] = x + F /\ credit'["semester"] = y + S
        /\ credit'["academic_year"] = z + Y - (F + S + Y)
    BY <1>4, <1>6, <1>11, <1>12, <1>9 DEF Class
  <2>2. Y = 5 /\ (F = 1 => x + F <= z + Y) /\ (S = 3 => y + S <= z + Y)
    BY <1>2, <1>4, <1>5, <1>11, <1>12, <1>9
  <2>3. Sums
    <3>1. InShare(x + F, y + S, z + Y - (F + S + Y))
      BY <1>1, <1>2, <2>2, PayArithmetic
    <3> QED
      BY <2>1, <3>1 DEF Sums
  <2> QED
    BY <1>13, <2>3
<1> QED
  BY <1>7, <1>8, <1>9 DEF Class

LEMMA SharesStart == Init => SharesOK
  BY DEF Init, SharesOK, Balanced, WithinShare, Class

\* chooseWeightedClass: what one class gets too much the others miss, and no class is ever a
\* whole round ahead or behind, whichever classes have work.
THEOREM SharesAreFair == Spec => [](Balanced /\ WithinShare)
<1>1. Init => SharesOK
  BY SharesStart
<1>2. SharesOK /\ [Next]_credit => SharesOK'
  <2> SUFFICES ASSUME SharesOK, [Next]_credit PROVE SharesOK'
    OBVIOUS
  <2>1. CASE Next
    BY <2>1, ChooseKeepsShares DEF Next
  <2>2. CASE UNCHANGED credit
    BY <2>2 DEF SharesOK, Balanced, WithinShare
  <2> QED
    BY <2>1, <2>2
<1>3. SharesOK => Balanced /\ WithinShare
  BY DEF SharesOK
<1> QED
  BY <1>1, <1>2, <1>3, PTL DEF Spec
-----------------------------------------------------------------------------
(* Marks.                                                                   *)

InFlightStatus == {"pending", "downloading"}
Counts(row) == row.marked /\ row.status \in InFlightStatus

\* Only one transaction is past the locks at a time.
Sole == \A d, e \in Dispatcher : InTransaction(d) /\ InTransaction(e) => d = e

\* Who waits for the locks has marked nothing, who picks has a slot to fill.
Waits == \A d \in Dispatcher :
  /\ dispatch[d].step = "waiting" => dispatch[d].files = {}
  /\ dispatch[d].step = "picking" => dispatch[d].slots > 0

\* A row that is being marked is locked, so it stays pending.
Locked == \A d \in Dispatcher : \A f \in Uncommitted(d) : file[f].status = "pending"

\* The cap holds of what each transaction sees, its own marks included.
SeenCapped == \A d \in Dispatcher, u \in User : Cardinality(InFlight(d, u)) <= MaxInFlight

Typed == file \in [File -> FileRow] /\ dispatch \in [Dispatcher -> Call]

MarksOK == Typed /\ Sole /\ Waits /\ Locked /\ InFlightCapped /\ SeenCapped

USE FairAssumption

LEMMA CapOfSubset ==
  ASSUME NEW A \in SUBSET File, NEW B \in SUBSET A, Cardinality(A) <= MaxInFlight
  PROVE  Cardinality(B) <= MaxInFlight
<1>1. IsFiniteSet(A) /\ Cardinality(A) \in Nat
  BY FS_Subset, FS_CardinalityType DEF FairAssumption
<1>2. IsFiniteSet(B) /\ Cardinality(B) \in Nat /\ Cardinality(B) <= Cardinality(A)
  BY <1>1, FS_Subset, FS_CardinalityType
<1> QED
  BY <1>1, <1>2 DEF FairAssumption

LEMMA CapOfOneMore ==
  ASSUME NEW A \in SUBSET File, NEW f \in File, Cardinality(A) < MaxInFlight
  PROVE  Cardinality(A \cup {f}) <= MaxInFlight
<1>1. IsFiniteSet(A) /\ Cardinality(A) \in Nat
  BY FS_Subset, FS_CardinalityType DEF FairAssumption
<1>2. Cardinality(A \cup {f}) = IF f \in A THEN Cardinality(A) ELSE Cardinality(A) + 1
  BY <1>1, FS_AddElement
<1> QED
  BY <1>1, <1>2 DEF FairAssumption

\* What the two caps speak of.
Visible(u) == {f \in FilesOf(u) : Counts(file[f])}

LEMMA SeenMeans ==
  /\ InFlightCapped <=> \A u \in User : Cardinality(Visible(u)) <= MaxInFlight
  /\ \A u \in User : Visible(u) \in SUBSET File
  /\ \A d \in Dispatcher, u \in User :
       /\ InFlight(d, u) \in SUBSET File
       /\ InFlight(d, u) = {f \in FilesOf(u) : /\ file[f].marked \/ f \in Uncommitted(d)
                                              /\ file[f].status \in InFlightStatus}
<1>1. \A u \in User : Visible(u) =
        {f \in FilesOf(u) : file[f].marked /\ file[f].status \in {"pending", "downloading"}}
  BY DEF Visible, Counts, InFlightStatus
<1>2. InFlightCapped <=> \A u \in User : Cardinality(Visible(u)) <= MaxInFlight
  BY <1>1 DEF InFlightCapped
<1> QED
  BY <1>1, <1>2 DEF InFlight, Marked, FilesOf, InFlightStatus

\* A step that gives no mark: no row counts that did not count before, and no transaction
\* marks a file.
LEMMA NoNewMark ==
  ASSUME MarksOK, Typed', Sole', Waits',
         \A f \in File : Counts(file'[f]) => Counts(file[f]),
         \A d \in Dispatcher : \A f \in Uncommitted(d)' :
           f \in Uncommitted(d) /\ file'[f].status = "pending"
  PROVE  MarksOK'
<1>1. Locked'
  BY DEF Locked
<1>2. InFlightCapped'
  <2>1. \A u \in User : Visible(u)' \in SUBSET Visible(u)
    BY DEF Visible, FilesOf
  <2>2. \A u \in User : Cardinality(Visible(u)') <= MaxInFlight
    BY <2>1, SeenMeans, CapOfSubset DEF MarksOK
  <2>3. InFlightCapped' <=> \A u \in User : Cardinality(Visible(u)') <= MaxInFlight
    BY DEF InFlightCapped, Visible, Counts, InFlightStatus, FilesOf
  <2> QED
    BY <2>2, <2>3
<1>3. SeenCapped'
  <2> SUFFICES ASSUME NEW d \in Dispatcher, NEW u \in User
               PROVE  Cardinality(InFlight(d, u)') <= MaxInFlight
    BY DEF SeenCapped
  <2>1. ASSUME NEW f \in InFlight(d, u)' PROVE f \in InFlight(d, u)
    <3>1. f \in FilesOf(u) /\ f \in File
      BY DEF InFlight, FilesOf
    <3>2. file'[f].status \in InFlightStatus /\ (file'[f].marked \/ f \in Uncommitted(d)')
      BY DEF InFlight, Marked, InFlightStatus
    <3>3. CASE file'[f].marked
      BY <3>1, <3>2, <3>3 DEF Counts, InFlight, Marked, InFlightStatus
    <3>4. CASE f \in Uncommitted(d)'
      BY <3>1, <3>4 DEF MarksOK, Locked, InFlight, Marked
    <3> QED
      BY <3>2, <3>3, <3>4
  <2>2. InFlight(d, u)' \in SUBSET InFlight(d, u)
    BY <2>1
  <2> QED
    BY <2>2, SeenMeans, CapOfSubset DEF MarksOK, SeenCapped
<1> QED
  BY <1>1, <1>2, <1>3 DEF MarksOK

\* The rows other actors write: a locked one is left alone.
LEMMA RowStep ==
  ASSUME MarksOK, UNCHANGED dispatch, NEW f \in File, NEW row \in FileRow, Set(f, row),
         Counts(row) => Counts(file[f]),
         f \in RowLocked => row.status = "pending"
  PROVE  MarksOK'
<1>1. file' = [file EXCEPT ![f] = row]
  BY DEF Set
<1>2. Typed'
  BY <1>1 DEF MarksOK, Typed
<1>3. \A g \in File : Counts(file'[g]) => Counts(file[g])
  BY <1>1 DEF MarksOK, Typed
<1>4. ASSUME NEW d \in Dispatcher, NEW g \in Uncommitted(d)'
      PROVE  g \in Uncommitted(d) /\ file'[g].status = "pending"
  <2>1. g \in Uncommitted(d) /\ g \in RowLocked
    BY <1>4 DEF Uncommitted, InTransaction, RowLocked
  <2>2. g \in File
    BY <2>1 DEF MarksOK, Typed, Call, Uncommitted
  <2> QED
    BY <1>1, <2>1, <2>2 DEF MarksOK, Typed, Locked
<1>5. Sole' /\ Waits'
  BY DEF MarksOK, Sole, Waits, InTransaction
<1> QED
  BY <1>2, <1>3, <1>4, <1>5, NoNewMark

\* A call moves on without marking: it stays out of its transaction, or gets the locks.
LEMMA CallStep ==
  ASSUME MarksOK, NEW d \in Dispatcher, NEW call \in Call,
         dispatch' = [dispatch EXCEPT ![d] = call],
         call.step \in {"choosing", "picking"} => InTransaction(d) \/ Serial(d),
         call.step \in {"choosing", "picking"} =>
           call.files = dispatch[d].files /\ (InTransaction(d) \/ dispatch[d].step = "waiting"),
         call.step = "waiting" => call.files = {},
         call.step = "picking" => call.slots > 0,
         file' \in [File -> FileRow],
         \A f \in File : /\ Counts(file'[f]) => Counts(file[f])
                         /\ file[f].status = "pending" => file'[f].status = "pending"
  PROVE  MarksOK'
<1>1. Typed'
  BY DEF MarksOK, Typed
<1>2. /\ dispatch'[d] = call
      /\ \A e \in Dispatcher \ {d} : dispatch'[e] = dispatch[e]
  BY DEF MarksOK, Typed
<1>3. Sole'
  BY <1>2 DEF MarksOK, Sole, InTransaction, Serial
<1>4. Waits'
  BY <1>2 DEF MarksOK, Waits
<1>5. ASSUME NEW e \in Dispatcher, NEW f \in Uncommitted(e)'
      PROVE  f \in Uncommitted(e) /\ file'[f].status = "pending"
  <2>1. f \in Uncommitted(e)
    <3>1. CASE e = d
      BY <1>2, <1>5, <3>1 DEF Uncommitted, InTransaction, MarksOK, Waits
    <3>2. CASE e # d
      BY <1>2, <1>5, <3>2 DEF Uncommitted, InTransaction
    <3> QED
      BY <3>1, <3>2
  <2>2. f \in File
    BY <2>1 DEF MarksOK, Typed, Call, Uncommitted
  <2> QED
    BY <2>1, <2>2 DEF MarksOK, Locked
<1> QED
  BY <1>1, <1>3, <1>4, <1>5, NoNewMark

LEMMA LockedRow ==
  ASSUME MarksOK, NEW f \in File
  PROVE  /\ file[f] \in FileRow
         /\ f \in RowLocked => file[f].status = "pending"
         /\ Unmark(f) \in FileRow /\ ~Counts(Unmark(f)) /\ Unmark(f).status = file[f].status
         /\ New \in FileRow /\ ~Counts(New) /\ Over \in FileRow /\ ~Counts(Over)
<1>1. file[f] \in FileRow /\ (f \in RowLocked => file[f].status = "pending")
  BY DEF MarksOK, Typed, Locked, RowLocked
<1>2. Unmark(f) \in FileRow /\ ~Counts(Unmark(f)) /\ Unmark(f).status = file[f].status
  BY <1>1 DEF FileRow, Unmark, Counts
<1>3. New \in FileRow /\ ~Counts(New)
  BY DEF New, FileRow, Status, Counts, FairAssumption
<1>4. Over \in FileRow /\ ~Counts(Over)
  <2>1. \A row \in FileRow : [row EXCEPT !.status = "over"] \in FileRow
                              /\ [row EXCEPT !.status = "over"].status = "over"
    BY DEF FileRow, Status
  <2> QED
    BY <1>3, <2>1 DEF Over, Counts, InFlightStatus
<1> QED
  BY <1>1, <1>2, <1>3, <1>4

LEMMA AdvanceKeepsCap ==
  ASSUME MarksOK, NEW f \in File, Advance(f)
  PROVE  MarksOK'
<1>1. /\ file[f] \in FileRow
      /\ f \in RowLocked => file[f].status = "pending"
  BY LockedRow
<1>10. UNCHANGED dispatch
  BY DEF Advance, Release, ReleaseWaiting, Discover, Claim, Leave, ComeDue, Extract, scheduler
<1>2. ASSUME NEW row \in FileRow, Set(f, row), ~Counts(row) \/ Counts(file[f]),
             file[f].status = "pending" /\ f \in RowLocked => row.status = "pending"
      PROVE  MarksOK'
  BY <1>1, <1>2, <1>10, RowStep
<1>3. ASSUME UNCHANGED file PROVE MarksOK'
  <2>1. file[f] \in FileRow /\ file' = [file EXCEPT ![f] = file[f]]
    BY <1>1, <1>3 DEF MarksOK, Typed
  <2> QED
    BY <1>2, <2>1 DEF Set
<1>4. CASE Release(f)
  BY <1>2, <1>4, LockedRow DEF Release
<1>5. CASE ReleaseWaiting(f)
  <2>1. /\ [Unmark(f) EXCEPT !.status = "pending"] \in FileRow
        /\ [Unmark(f) EXCEPT !.status = "pending"].marked = FALSE
    BY <1>1 DEF FileRow, Unmark, Status
  <2>2. ASSUME NEW row \in FileRow, row.marked = FALSE
        PROVE  /\ [row EXCEPT !.due = TRUE] \in FileRow /\ ~Counts([row EXCEPT !.due = TRUE])
    BY <2>2 DEF FileRow, Counts
  <2>3. [Unmark(f) EXCEPT !.status = "pending", !.due = TRUE] =
          [[Unmark(f) EXCEPT !.status = "pending"] EXCEPT !.due = TRUE]
    OBVIOUS
  <2>4. /\ [Unmark(f) EXCEPT !.status = "pending", !.due = TRUE] \in FileRow
        /\ ~Counts([Unmark(f) EXCEPT !.status = "pending", !.due = TRUE])
    BY <2>1, <2>2, <2>3
  <2> QED
    BY <1>2, <1>5, <2>4 DEF ReleaseWaiting
<1>6. CASE Discover(f)
  <2>1. New \in FileRow /\ New.marked = FALSE
    BY DEF FileRow, New, Status, FairAssumption
  <2>2. /\ [New EXCEPT !.status = "pending"] \in FileRow
        /\ ~Counts([New EXCEPT !.status = "pending"])
    BY <2>1 DEF FileRow, Counts, Status
  <2> QED
    BY <1>2, <1>6, <2>2 DEF Discover
<1>7. CASE Claim(f)
  <2> DEFINE row == [file[f] EXCEPT !.status = "downloading"]
  <2>1. row \in FileRow
    BY <1>1 DEF FileRow, Status
  <2>2. file[f].status = "pending" /\ Counts(row) => Counts(file[f])
    BY <1>1 DEF FileRow, Counts, InFlightStatus
  <2> QED
    BY <1>2, <1>3, <1>7, <2>1, <2>2 DEF Claim
<1>8. CASE Leave(f)
  <2>1. CASE /\ file[f].status = "downloading"
             /\ Set(f, [Unmark(f) EXCEPT !.status = "extracting"])
    <3>1. /\ [Unmark(f) EXCEPT !.status = "extracting"] \in FileRow
          /\ ~Counts([Unmark(f) EXCEPT !.status = "extracting"])
      BY <1>1 DEF FileRow, Unmark, Counts, Status, InFlightStatus
    <3> QED
      BY <1>2, <2>1, <3>1
  <2>2. CASE file[f].status = "downloading" /\ Set(f, Over)
    BY <1>2, <2>2, LockedRow
  <2>3. CASE /\ file[f].status = "downloading" /\ file[f].tries < MaxTries
             /\ Set(f, [Unmark(f) EXCEPT !.status = "cached", !.tries = @ + 1])
    <3>1. file[f].tries + 1 \in 0..MaxTries
      BY <1>1, <2>3 DEF FileRow, FairAssumption
    <3>2. /\ [Unmark(f) EXCEPT !.status = "cached", !.tries = @ + 1] \in FileRow
          /\ ~Counts([Unmark(f) EXCEPT !.status = "cached", !.tries = @ + 1])
      BY <1>1, <3>1 DEF FileRow, Unmark, Counts, Status, InFlightStatus
    <3> QED
      BY <1>2, <2>3, <3>2
  <2>4. CASE /\ file[f].status = "downloading" /\ file[f].tries < MaxTries
             /\ Set(f, [Unmark(f) EXCEPT !.status = "pending", !.due = FALSE, !.tries = @ + 1])
    <3>1. file[f].tries + 1 \in 0..MaxTries
      BY <1>1, <2>4 DEF FileRow, FairAssumption
    <3>2. /\ [Unmark(f) EXCEPT !.status = "pending", !.due = FALSE, !.tries = @ + 1] \in FileRow
          /\ ~Counts([Unmark(f) EXCEPT !.status = "pending", !.due = FALSE, !.tries = @ + 1])
      BY <1>1, <3>1 DEF FileRow, Unmark, Counts, Status, InFlightStatus
    <3> QED
      BY <1>2, <2>4, <3>2
  <2> QED
    BY <1>8, <2>1, <2>2, <2>3, <2>4 DEF Leave
<1>9. CASE ComeDue(f)
  <2> DEFINE row == [file[f] EXCEPT !.due = TRUE]
  <2>1. row \in FileRow /\ (Counts(row) => Counts(file[f])) /\ row.status = file[f].status
    BY <1>1 DEF FileRow, Counts
  <2> QED
    BY <1>2, <1>9, <2>1 DEF ComeDue
<1>11. CASE Extract(f)
  <2>1. CASE file[f].status = "extracting" /\ Set(f, Over)
    BY <1>2, <2>1, LockedRow
  <2>2. CASE /\ file[f].status = "extracting" /\ file[f].tries < MaxTries
             /\ Set(f, [file[f] EXCEPT !.status = "waiting", !.tries = @ + 1])
    <3>1. file[f].tries + 1 \in 0..MaxTries
      BY <1>1, <2>2 DEF FileRow, FairAssumption
    <3>2. /\ [file[f] EXCEPT !.status = "waiting", !.tries = @ + 1] \in FileRow
          /\ ~Counts([file[f] EXCEPT !.status = "waiting", !.tries = @ + 1])
      BY <1>1, <3>1 DEF FileRow, Counts, Status, InFlightStatus
    <3> QED
      BY <1>2, <2>2, <3>2
  <2>3. CASE /\ file[f].status = "waiting"
             /\ Set(f, [file[f] EXCEPT !.status = "extracting"])
    <3>1. /\ [file[f] EXCEPT !.status = "extracting"] \in FileRow
          /\ ~Counts([file[f] EXCEPT !.status = "extracting"])
      BY <1>1 DEF FileRow, Counts, Status, InFlightStatus
    <3> QED
      BY <1>2, <2>3, <3>1
  <2> QED
    BY <1>11, <2>1, <2>2, <2>3 DEF Extract
<1> QED
  BY <1>4, <1>5, <1>6, <1>7, <1>8, <1>9, <1>11 DEF Advance

LEMMA RediscoverKeepsCap ==
  ASSUME MarksOK, NEW u \in User, Rediscover(u)
  PROVE  MarksOK'
<1>1. New \in FileRow /\ ~Counts(New)
  BY DEF New, FileRow, Status, Counts, FairAssumption
<1>2. file' = [f \in File |-> IF f \in FilesOf(u) THEN New ELSE file[f]] /\ UNCHANGED dispatch
  BY DEF Rediscover, scheduler
<1>3. Typed'
  BY <1>1, <1>2 DEF MarksOK, Typed
<1>4. \A f \in File : Counts(file'[f]) => Counts(file[f])
  BY <1>1, <1>2
<1>5. ASSUME NEW d \in Dispatcher, NEW f \in Uncommitted(d)'
      PROVE  f \in Uncommitted(d) /\ file'[f].status = "pending"
  <2>1. f \in Uncommitted(d)
    BY <1>2, <1>5 DEF Uncommitted, InTransaction
  <2>2. f \in File /\ file[f].status = "pending"
    BY <2>1 DEF MarksOK, Locked, Typed, Call, Uncommitted
  <2>3. f \notin FilesOf(u)
    BY <2>2 DEF Rediscover
  <2> QED
    BY <1>2, <2>1, <2>2, <2>3
<1>6. Sole' /\ Waits'
  BY <1>2 DEF MarksOK, Sole, Waits, InTransaction
<1> QED
  BY <1>3, <1>4, <1>5, <1>6, NoNewMark

LEMMA OutIsCall == Out \in Call /\ Slots \in 0..Slots
  BY DEF Out, Call, Class, FairAssumption

\* What a dispatcher does up to its picks.
LEMMA BeforePickKeepsCap ==
  ASSUME MarksOK, NEW d \in Dispatcher, Begin(d) \/ Lock(d) \/ Weigh(d)
  PROVE  MarksOK'
<1>1. dispatch[d] \in Call /\ file \in [File -> FileRow] /\ UNCHANGED file
  BY DEF MarksOK, Typed, Begin, Lock, Weigh
<1>2. \A f \in File : /\ Counts(file'[f]) => Counts(file[f])
                      /\ file[f].status = "pending" => file'[f].status = "pending"
  BY <1>1
<1>3. CASE Begin(d)
  <2> DEFINE call == [dispatch[d] EXCEPT !.step = "waiting"]
  <2>1. call \in Call /\ call.step = "waiting" /\ call.files = {}
    BY <1>1, <1>3 DEF Begin, Call, Out
  <2>2. dispatch' = [dispatch EXCEPT ![d] = call]
    BY <1>3 DEF Begin
  <2> HIDE DEF call
  <2> QED
    BY <1>1, <1>2, <2>1, <2>2, CallStep
<1>4. CASE Lock(d)
  <2> DEFINE call == [dispatch[d] EXCEPT !.step = "choosing", !.slots = Slots]
  <2>1. call \in Call /\ call.step = "choosing" /\ call.files = dispatch[d].files
    BY <1>1, OutIsCall DEF Call
  <2>2. dispatch' = [dispatch EXCEPT ![d] = call]
    BY <1>4 DEF Lock
  <2>3. Serial(d) /\ dispatch[d].step = "waiting"
    BY <1>4 DEF Lock
  <2> HIDE DEF call
  <2> QED
    BY <1>1, <1>2, <2>1, <2>2, <2>3, CallStep
<1>5. CASE Weigh(d)
  <2>1. PICK c \in {ClassOf[Owner[f]] : f \in Eligible(d)} :
          dispatch' = [dispatch EXCEPT ![d].step = "picking", ![d].class = c]
    BY <1>5 DEF Weigh
  <2>2. c \in Class
    BY <2>1 DEF Eligible, FairAssumption
  <2> DEFINE call == [dispatch[d] EXCEPT !.step = "picking", !.class = c]
  <2>3. call \in Call /\ call.step = "picking" /\ call.files = dispatch[d].files /\ call.slots > 0
    BY <1>1, <1>5, <2>2 DEF Call, Weigh
  <2>4. dispatch' = [dispatch EXCEPT ![d] = call]
    BY <2>1
  <2>5. InTransaction(d)
    BY <1>5 DEF Weigh, InTransaction
  <2> HIDE DEF call
  <2> QED
    BY <1>1, <1>2, <2>3, <2>4, <2>5, CallStep
<1> QED
  BY <1>3, <1>4, <1>5

LEMMA AfterCommitKeepsCap ==
  ASSUME MarksOK, NEW d \in Dispatcher, Send(d) \/ DieDispatching(d)
  PROVE  MarksOK'
<1>1. dispatch[d] \in Call /\ file \in [File -> FileRow]
  BY DEF MarksOK, Typed
<1>2. CASE DieDispatching(d)
  <2>1. dispatch' = [dispatch EXCEPT ![d] = Out] /\ UNCHANGED file
    BY <1>2 DEF DieDispatching
  <2>2. Out.step = "out"
    BY DEF Out
  <2> QED
    BY <1>1, <2>1, <2>2, OutIsCall, CallStep
<1>3. CASE Send(d)
  <2>1. PICK f \in dispatch[d].files :
          /\ dispatch' = [dispatch EXCEPT ![d].files = @ \ {f}]
          /\ \/ UNCHANGED file
             \/ Set(f, IF file[f].status = "pending" THEN Unmark(f) ELSE file[f])
    BY <1>3 DEF Send
  <2> DEFINE call == [dispatch[d] EXCEPT !.files = @ \ {f}]
  <2>2. call \in Call /\ call.step = "out" /\ f \in File
    BY <1>1, <1>3 DEF Call, Send
  <2>3. dispatch' = [dispatch EXCEPT ![d] = call]
    BY <2>1
  <2>4. /\ file' \in [File -> FileRow]
        /\ \A g \in File : /\ Counts(file'[g]) => Counts(file[g])
                           /\ file[g].status = "pending" => file'[g].status = "pending"
    <3>1. CASE UNCHANGED file
      BY <1>1, <3>1
    <3>2. CASE file' = [file EXCEPT ![f] = IF file[f].status = "pending" THEN Unmark(f) ELSE file[f]]
      BY <1>1, <2>2, <3>2, LockedRow
    <3> QED
      BY <2>1, <3>1, <3>2 DEF Set
  <2> HIDE DEF call
  <2> QED
    BY <1>1, <2>2, <2>3, <2>4, CallStep
<1> QED
  BY <1>2, <1>3

LEMMA PickKeepsCap ==
  ASSUME MarksOK, NEW d \in Dispatcher, Pick(d)
  PROVE  MarksOK'
<1>1. PICK marks \in SUBSET Eligible(d) :
        /\ marks = {} \/ \E f \in Eligible(d) : marks = {f}
        /\ dispatch' = [dispatch EXCEPT ![d].step = "choosing", ![d].slots = @ - 1,
                                        ![d].files = @ \cup marks]
  <2> DEFINE Done(files) == dispatch' = [dispatch EXCEPT
        ![d].step = "choosing", ![d].slots = @ - 1, ![d].files = @ \cup files]
  <2>1. PICK free \in SUBSET {f \in Eligible(d) \ RowLocked : ClassOf[Owner[f]] = dispatch[d].class} :
          Done({}) \/ \E f \in free : Done({f})
    BY DEF Pick
  <2>2. CASE Done({})
    BY <2>2
  <2>3. CASE \E f \in free : Done({f})
    BY <2>1, <2>3
  <2> QED
    BY <2>1, <2>2, <2>3
<1>2. dispatch[d] \in Call /\ dispatch[d].step = "picking" /\ dispatch[d].slots > 0 /\ UNCHANGED file
  BY DEF MarksOK, Typed, Waits, Pick
<1>3. marks \in SUBSET File
  BY <1>1 DEF Eligible
<1> DEFINE call == [dispatch[d] EXCEPT !.step = "choosing", !.slots = @ - 1, !.files = @ \cup marks]
<1>4. call \in Call /\ call.step = "choosing" /\ call.files = dispatch[d].files \cup marks
  <2>1. dispatch[d].slots - 1 \in 0..Slots
    BY <1>2 DEF Call, FairAssumption
  <2>2. dispatch[d].files \cup marks \in SUBSET File
    BY <1>2, <1>3 DEF Call
  <2>3. \A n \in 0..Slots, files \in SUBSET File :
          LET next == [dispatch[d] EXCEPT !.step = "choosing", !.slots = n, !.files = files]
          IN next \in Call /\ next.step = "choosing" /\ next.files = files
    BY <1>2 DEF Call
  <2> QED
    BY <2>1, <2>2, <2>3
<1>5. dispatch' = [dispatch EXCEPT ![d] = call]
  BY <1>1
<1> HIDE DEF call
<1>6. /\ dispatch'[d] = call
      /\ \A e \in Dispatcher \ {d} : dispatch'[e] = dispatch[e]
  BY <1>5 DEF MarksOK, Typed
<1>7. Typed'
  BY <1>2, <1>4, <1>5 DEF MarksOK, Typed
<1>8. /\ \A e \in Dispatcher : InTransaction(e)' = InTransaction(e)
      /\ \A e \in Dispatcher \ {d} : Uncommitted(e)' = Uncommitted(e)
      /\ Uncommitted(d)' = Uncommitted(d) \cup marks
  BY <1>2, <1>4, <1>6 DEF InTransaction, Uncommitted
<1>9. Sole'
  BY <1>8 DEF MarksOK, Sole
<1>10. Waits'
  BY <1>4, <1>6 DEF MarksOK, Waits
<1>11. Locked'
  BY <1>1, <1>2, <1>8 DEF MarksOK, Locked, Eligible
<1>12. InFlightCapped'
  BY <1>2 DEF MarksOK, InFlightCapped, FilesOf
<1>13. SeenCapped'
  <2> SUFFICES ASSUME NEW e \in Dispatcher, NEW u \in User
               PROVE  Cardinality(InFlight(e, u)') <= MaxInFlight
    BY DEF SeenCapped
  <2>1. InFlight(e, u) \in SUBSET File /\ Cardinality(InFlight(e, u)) <= MaxInFlight
    BY SeenMeans DEF MarksOK, SeenCapped
  <2>2. CASE e # d \/ marks = {}
    <3>1. InFlight(e, u)' = InFlight(e, u)
      BY <1>2, <1>8, <2>2 DEF InFlight, Marked, FilesOf
    <3> QED
      BY <2>1, <3>1
  <2>3. CASE e = d /\ \E f \in Eligible(d) : marks = {f}
    <3>1. PICK f \in Eligible(d) : marks = {f}
      BY <2>3
    <3>2. f \in File /\ Cardinality(InFlight(d, Owner[f])) < MaxInFlight
      BY DEF Eligible
    <3>3. CASE u = Owner[f]
      <4>1. Cardinality(InFlight(e, u) \cup {f}) <= MaxInFlight
        BY <2>1, <2>3, <3>2, <3>3, CapOfOneMore
      <4>2. InFlight(e, u)' \in SUBSET (InFlight(e, u) \cup {f})
        BY <1>2, <1>8, <2>3, <3>1 DEF InFlight, Marked, FilesOf
      <4> QED
        BY <2>1, <3>2, <4>1, <4>2, CapOfSubset
    <3>4. CASE u # Owner[f]
      <4>1. InFlight(e, u)' \in SUBSET InFlight(e, u)
        BY <1>2, <1>8, <2>3, <3>1, <3>4 DEF InFlight, Marked, FilesOf
      <4> QED
        BY <2>1, <4>1, CapOfSubset
    <3> QED
      BY <3>3, <3>4
  <2> QED
    BY <1>1, <2>2, <2>3
<1> QED
  BY <1>7, <1>9, <1>10, <1>11, <1>12, <1>13 DEF MarksOK

\* What the transaction saw becomes what everybody sees.
LEMMA CommitKeepsCap ==
  ASSUME MarksOK, NEW d \in Dispatcher, Commit(d)
  PROVE  MarksOK'
<1> DEFINE call == [Out EXCEPT !.files = dispatch[d].files]
<1>1. /\ dispatch[d] \in Call /\ InTransaction(d) /\ Uncommitted(d) = dispatch[d].files
      /\ dispatch' = [dispatch EXCEPT ![d] = call]
  BY DEF MarksOK, Typed, Commit, InTransaction, Uncommitted
<1>2. call \in Call /\ call.step = "out"
  BY <1>1, OutIsCall DEF Call, Out
<1> HIDE DEF call
<1>3. /\ dispatch'[d] = call
      /\ \A e \in Dispatcher \ {d} : dispatch'[e] = dispatch[e]
  BY <1>1 DEF MarksOK, Typed
<1>4. file' \in [File -> FileRow] /\ \A f \in File :
        /\ file'[f].status = file[f].status
        /\ file'[f].marked <=> file[f].marked \/ f \in Uncommitted(d)
  <2>1. file' = [f \in File |->
          IF f \in Uncommitted(d) THEN [file[f] EXCEPT !.marked = TRUE] ELSE file[f]]
    BY <1>1 DEF Commit
  <2>2. \A row \in FileRow : /\ [row EXCEPT !.marked = TRUE] \in FileRow
                             /\ [row EXCEPT !.marked = TRUE].status = row.status
                             /\ [row EXCEPT !.marked = TRUE].marked = TRUE
    BY DEF FileRow
  <2> QED
    BY <2>1, <2>2 DEF MarksOK, Typed
<1>5. Typed'
  BY <1>1, <1>2, <1>4 DEF MarksOK, Typed
<1>6. \A e \in Dispatcher : ~InTransaction(e)' /\ Uncommitted(e)' = {}
  BY <1>1, <1>2, <1>3 DEF MarksOK, Sole, InTransaction, Uncommitted
<1>7. Sole' /\ Locked'
  BY <1>6 DEF Sole, Locked
<1>8. Waits'
  BY <1>2, <1>3 DEF MarksOK, Waits
<1>9. ASSUME NEW u \in User PROVE Cardinality(Visible(u)') <= MaxInFlight
  <2>1. Visible(u)' \in SUBSET InFlight(d, u)
    BY <1>4 DEF Visible, Counts, InFlight, Marked, FilesOf, InFlightStatus
  <2> QED
    BY <2>1, SeenMeans, CapOfSubset DEF MarksOK, SeenCapped
<1>10. InFlightCapped'
  BY <1>9 DEF InFlightCapped, Visible, Counts, InFlightStatus, FilesOf
<1>11. ASSUME NEW e \in Dispatcher, NEW u \in User
       PROVE  Cardinality(InFlight(e, u)') <= MaxInFlight
  <2>1. InFlight(e, u)' = Visible(u)'
    BY <1>6 DEF InFlight, Marked, Visible, Counts, InFlightStatus, FilesOf
  <2> QED
    BY <1>9, <2>1
<1> QED
  BY <1>5, <1>7, <1>8, <1>10, <1>11 DEF MarksOK, SeenCapped

\* Dispatchers that wait for one another's transactions, die, lose publications and take
\* marks back never have more of a user's files marked than the cap allows.
THEOREM MarksAreCapped == DispatchSpec => []InFlightCapped
<1>1. FairInit => MarksOK
  <2> SUFFICES ASSUME FairInit PROVE MarksOK
    OBVIOUS
  <2>1. Typed
    BY OutIsCall DEF FairInit, Typed, New, FileRow, Status, FairAssumption
  <2>2. /\ \A d \in Dispatcher : dispatch[d].step = "out" /\ ~InTransaction(d) /\ Uncommitted(d) = {}
        /\ \A f \in File : file[f].marked = FALSE
    BY DEF FairInit, Out, New, InTransaction, Uncommitted
  <2>3. Sole /\ Waits /\ Locked
    BY <2>2 DEF Sole, Waits, Locked
  <2>4. /\ \A u \in User : Visible(u) = {}
        /\ \A d \in Dispatcher, u \in User : InFlight(d, u) = {}
    BY <2>2 DEF Visible, Counts, InFlight, Marked, FilesOf
  <2> QED
    <3>1. Cardinality({}) <= MaxInFlight
      BY FS_EmptySet DEF FairAssumption
    <3>2. InFlightCapped
      BY <2>4, <3>1, SeenMeans
    <3>3. SeenCapped
      BY <2>4, <3>1 DEF SeenCapped
    <3> QED
      BY <2>1, <2>3, <3>2, <3>3 DEF MarksOK
<1>2. MarksOK /\ [FairNext]_vars => MarksOK'
  <2> SUFFICES ASSUME MarksOK, [FairNext]_vars PROVE MarksOK'
    OBVIOUS
  <2>1. CASE UNCHANGED vars
    BY <2>1 DEF vars, scheduler, MarksOK, Typed, Sole, Waits, Locked, InFlightCapped, SeenCapped,
                InTransaction, Uncommitted, InFlight, Marked, FilesOf
  <2>2. ASSUME NEW d \in Dispatcher, Sweep(d) \/ DieDispatching(d) PROVE MarksOK'
    BY <2>2, BeforePickKeepsCap, PickKeepsCap, CommitKeepsCap, AfterCommitKeepsCap DEF Sweep
  <2> QED
    BY <2>1, <2>2, AdvanceKeepsCap, RediscoverKeepsCap DEF FairNext
<1>3. MarksOK => InFlightCapped
  BY DEF MarksOK
<1> QED
  BY <1>1, <1>2, <1>3, PTL DEF DispatchSpec
=============================================================================
