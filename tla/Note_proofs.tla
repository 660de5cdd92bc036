----------------------------- MODULE Note_proofs -----------------------------
(***************************************************************************)
(* Theorems about the notes of a vault and the index of a note.            *)
(*                                                                         *)
(* NoteTree: what its runs check on small trees, for trees of any size.    *)
(* The least-set definitions of the recursive queries give what the proof  *)
(* needs without induction: a subtree is closed downwards, each of its     *)
(* notes but the root has its parent in it, and the notes above a place    *)
(* are closed upwards.                                                     *)
(*                                                                         *)
(* NoteIndex, at the end: its types, where the vectors of a note can be,   *)
(* and that none appears for a note that is not active.  A set of chunks   *)
(* is its worker's alone until it is published, and rows are deleted only  *)
(* once their vectors are gone or written down.                            *)
(***************************************************************************)
EXTENDS NoteTree, NoteIndex, TLAPS

Shape ==
  /\ state \in [Notes -> {"unborn", "active", "trashed", "gone"}]
  /\ parent \in [Notes -> Places]
  /\ root \in [Notes -> Notes \cup {Top}]
  /\ extracting \subseteq Extracted

Born == \A n \in Notes : parent[n] \in Notes => state[parent[n]] # "unborn"
Hangs == \A n \in Active : IsPlace(parent[n])
Acyclic == \A S \in (SUBSET Notes) \ {{}} : \E n \in S : parent[n] \notin S
InBundleOf(n) ==
  /\ parent[n] \in Folders /\ root[n] = root[parent[n]] /\ state[parent[n]] = "trashed"
Below == \A n \in Trashed : root[n] # n => parent[n] = Top \/ InBundleOf(n)

\* Without Clear Vault a member keeps its place.
AllBelow == \A n \in Trashed : root[n] # n => InBundleOf(n)

\* A step that leaves the bundles alone.
QuietMove ==
  \A n \in Notes :
    /\ state'[n] = "trashed" <=> state[n] = "trashed"
    /\ state[n] = "trashed" => /\ root'[n] = root[n]
                               /\ root[n] # n => parent'[n] = parent[n]

RootsListed == \A n \in Trashed : root[n] \in TrashRoots

TreeInv == Shape /\ Born /\ Hangs /\ Acyclic /\ Below

-----------------------------------------------------------------------------
(* The queries.                                                            *)

(* A note below one of the subtree is in it.                               *)
LEMMA SubtreeIsClosed ==
  ASSUME NEW r, NEW m \in Active, parent[m] \in ActiveSubtree(r)
  PROVE  m \in ActiveSubtree(r)
<1>1. SUFFICES ASSUME NEW S \in SUBSET Active, r \in S,
                      \A k \in Active : parent[k] \in S => k \in S
               PROVE  m \in S
  BY DEF ActiveSubtree
<1>2. parent[m] \in S
  BY <1>1 DEF ActiveSubtree
<1> QED
  BY <1>1, <1>2

(* The subtree is of active notes and holds its root.                      *)
LEMMA SubtreeHasRoot ==
  ASSUME NEW r \in Active
  PROVE  r \in ActiveSubtree(r) /\ ActiveSubtree(r) \subseteq Active
BY DEF ActiveSubtree

(* Its other notes have their parents in it.                               *)
LEMMA SubtreeIsLeast ==
  ASSUME NEW r \in Active, NEW m \in ActiveSubtree(r), m # r
  PROVE  parent[m] \in ActiveSubtree(r)
<1>1. SUFFICES ASSUME parent[m] \notin ActiveSubtree(r) PROVE FALSE
  OBVIOUS
<1> DEFINE S == ActiveSubtree(r) \ {m}
<1>2. S \in SUBSET Active /\ r \in S
  BY SubtreeHasRoot
<1>3. \A k \in Active : parent[k] \in S => k \in S
  BY <1>1, SubtreeIsClosed
<1>4. m \in S
  BY <1>2, <1>3 DEF ActiveSubtree
<1> QED
  BY <1>4

(* The notes above a place hold it and what is above them.                 *)
LEMMA AncestorsAreClosed ==
  ASSUME NEW p \in Notes, p # Top
  PROVE  /\ p \in Ancestors(p) /\ Ancestors(p) \subseteq Notes
         /\ \A m \in Ancestors(p) : parent[m] \in Notes => parent[m] \in Ancestors(p)
BY DEF Ancestors

-----------------------------------------------------------------------------
(* Each kind of change keeps TreeInv.                                      *)

(* Parents that stay or become Top make no cycle.                          *)
LEMMA UpwardsIsAcyclic ==
  ASSUME TreeAssumption, Acyclic, \A n \in Notes : parent'[n] \in {parent[n], Top}
  PROVE  Acyclic'
<1>1. SUFFICES ASSUME NEW S \in (SUBSET Notes) \ {{}}
               PROVE  \E n \in S : parent'[n] \notin S
  BY DEF Acyclic, Notes
<1>2. PICK n \in S : parent[n] \notin S
  BY <1>1 DEF Acyclic
<1> QED
  BY <1>2 DEF TreeAssumption

(* A new note is below a place, and nothing is below it.                   *)
LEMMA InsertKeepsTree ==
  ASSUME TreeAssumption, TreeInv, NEW n \in Notes, NEW p \in Places,
         state[n] = "unborn", IsPlace(p), Insert(n, p), UNCHANGED <<root, extracting>>
  PROVE  TreeInv'
<1>1. p # n /\ Notes' = Notes /\ (p \in Notes => state[p] = "active")
  BY DEF IsPlace, IsActiveFolder, TreeAssumption, Notes
<1>2. /\ state' = [state EXCEPT ![n] = "active"] /\ parent' = [parent EXCEPT ![n] = p]
      /\ UNCHANGED <<root, extracting>>
      /\ Shape
  BY DEF Insert, TreeInv
<1>3. Shape'
  BY <1>2 DEF Shape
<1>4. \A m \in Notes : m # n => state'[m] = state[m] /\ parent'[m] = parent[m]
  BY <1>2 DEF Shape
<1>5. state'[n] = "active" /\ parent'[n] = p
  BY <1>2 DEF Shape
<1>6. Born'
  BY <1>1, <1>4, <1>5 DEF TreeInv, Born
<1>7. Hangs'
  <2>1. SUFFICES ASSUME NEW m \in Notes, state'[m] = "active" PROVE IsPlace(parent[m])' 
    BY <1>1 DEF Hangs, Active
  <2>2. CASE m = n
    BY <1>1, <1>4, <1>5, <2>2 DEF IsPlace, IsActiveFolder, Notes
  <2>3. CASE m # n
    <3>1. IsPlace(parent[m])
      BY <1>4, <2>1, <2>3 DEF TreeInv, Hangs, Active
    <3> QED
      BY <1>4, <1>5, <2>3, <3>1 DEF IsPlace, IsActiveFolder, Notes
  <2> QED
    BY <2>2, <2>3
<1>8. Acyclic'
  <2>1. SUFFICES ASSUME NEW S \in (SUBSET Notes) \ {{}}
                 PROVE  \E m \in S : parent'[m] \notin S
    BY <1>1 DEF Acyclic
  <2>2. CASE n \notin S \/ p \notin S
    BY <1>4, <1>5, <2>1, <2>2 DEF TreeInv, Acyclic
  <2>3. CASE n \in S /\ p \in S
    <3>1. S \ {n} \in (SUBSET Notes) \ {{}}
      BY <1>1, <2>3
    <3>2. PICK m \in S \ {n} : parent[m] \notin S \ {n}
      BY <3>1 DEF TreeInv, Acyclic
    <3>3. parent[m] # n
      BY DEF TreeInv, Born
    <3> QED
      BY <1>4, <3>2, <3>3
  <2> QED
    BY <2>2, <2>3
<1>9. Below'
  <2>1. SUFFICES ASSUME NEW m \in Notes, state'[m] = "trashed", root'[m] # m
                 PROVE  parent'[m] = Top \/ InBundleOf(m)'
    BY <1>1 DEF Below, Trashed
  <2>2. m # n /\ m \in Trashed /\ root[m] # m
    BY <1>4, <1>5, <2>1 DEF Trashed
  <2>3. parent[m] = Top \/ InBundleOf(m)
    BY <2>2 DEF TreeInv, Below
  <2>4. parent[m] \in Folders /\ state[parent[m]] = "trashed" => parent[m] \in Notes /\ parent[m] # n
    BY DEF Notes
  <2> QED
    BY <1>4, <2>2, <2>3, <2>4 DEF InBundleOf
<1> QED
  BY <1>3, <1>6, <1>7, <1>8, <1>9 DEF TreeInv

(* An active note moves below an active folder that is not below it.       *)
LEMMA ReparentKeepsTree ==
  ASSUME TreeAssumption, TreeInv, NEW n \in Active, NEW p \in Places, IsPlace(p),
         n \notin Ancestors(p), parent' = [parent EXCEPT ![n] = p],
         UNCHANGED <<state, root, extracting>>
  PROVE  TreeInv'
<1>0. n \in Notes /\ state[n] = "active" /\ Shape /\ Notes' = Notes /\ Top \notin Notes
  BY DEF Active, TreeInv, Notes, TreeAssumption
<1>1. parent'[n] = p /\ \A m \in Notes : m # n => parent'[m] = parent[m]
  BY <1>0 DEF Shape
<1>2. Shape'
  BY <1>0 DEF Shape
<1>3. Born'
  BY <1>0, <1>1 DEF TreeInv, Born, IsPlace, IsActiveFolder
<1>4. Hangs'
  BY <1>0, <1>1 DEF TreeInv, Hangs, Active, IsPlace, IsActiveFolder
<1>5. Acyclic'
  <2>1. SUFFICES ASSUME NEW S \in (SUBSET Notes) \ {{}}
                 PROVE  \E m \in S : parent'[m] \notin S
    BY <1>0 DEF Acyclic
  <2>2. CASE n \notin S \/ p \notin S
    BY <1>1, <2>1, <2>2 DEF TreeInv, Acyclic
  <2>3. CASE n \in S /\ p \in S
    <3>1. p \in Notes /\ p # Top
      BY <1>0, <2>1, <2>3
    <3>2. /\ p \in Ancestors(p) /\ Ancestors(p) \subseteq Notes
          /\ \A m \in Ancestors(p) : parent[m] \in Notes => parent[m] \in Ancestors(p)
      BY <3>1, AncestorsAreClosed
    <3>3. S \cap Ancestors(p) \in (SUBSET Notes) \ {{}}
      BY <2>3, <3>2
    <3>4. PICK m \in S \cap Ancestors(p) : parent[m] \notin S \cap Ancestors(p)
      BY <3>3 DEF TreeInv, Acyclic
    <3>5. parent[m] \notin S
      BY <3>2, <3>4
    <3> QED
      BY <1>1, <3>4, <3>5
  <2> QED
    BY <2>2, <2>3
<1>6. Below'
  BY <1>0, <1>1 DEF TreeInv, Below, Trashed, InBundleOf
<1> QED
  BY <1>2, <1>3, <1>4, <1>5, <1>6 DEF TreeInv

(* A document goes into the folder of its bundle: one beside it, or a new  *)
(* one that takes its place.                                               *)
LEMMA BundlingKeepsTree ==
  ASSUME TreeAssumption, TreeInv, AllBelow, NEW f \in Files, MoveToBundle(f)
  PROVE  TreeInv' /\ QuietMove
<1>0. f \in Notes /\ f \notin Folders /\ Shape /\ Notes' = Notes /\ Top \notin Notes
      /\ root' = root /\ state[f] \in {"active", "trashed"} /\ Bundles \subseteq Folders
  BY DEF TreeInv, Notes, TreeAssumption, MoveToBundle
<1>1. \A m \in Notes : parent[m] # f
  BY <1>0 DEF Shape, Places, TreeAssumption
<1>2. ASSUME NEW b \in Folders, state[b] = "active", parent[b] = parent[f],
             parent' = [parent EXCEPT ![f] = b], state' = state
      PROVE  TreeInv' /\ QuietMove
  <2>0. b \in Notes /\ b # f /\ b \in Places
    BY <1>0 DEF Notes, Places
  <2>1. parent'[f] = b /\ \A m \in Notes : m # f => parent'[m] = parent[m]
    BY <1>0, <1>2 DEF Shape
  <2>2. Shape'
    BY <1>0, <1>2, <2>0 DEF Shape, MoveToBundle, EndExtraction
  <2>3. Born'
    BY <1>0, <1>2, <2>1 DEF TreeInv, Born
  <2>4. Hangs'
    BY <1>0, <1>2, <2>1 DEF TreeInv, Hangs, Active, IsPlace, IsActiveFolder
  <2>5. Acyclic'
    <3>1. SUFFICES ASSUME NEW S \in (SUBSET Notes) \ {{}}
                   PROVE  \E m \in S : parent'[m] \notin S
      BY <1>0 DEF Acyclic
    <3>2. CASE f \notin S \/ b \notin S
      BY <2>1, <3>1, <3>2 DEF TreeInv, Acyclic
    <3>3. CASE f \in S /\ b \in S
      <4>1. S \ {f} \in (SUBSET Notes) \ {{}}
        BY <2>0, <3>3
      <4>2. PICK m \in S \ {f} : parent[m] \notin S \ {f}
        BY <4>1 DEF TreeInv, Acyclic
      <4> QED
        BY <1>1, <2>1, <4>2
    <3> QED
      BY <3>2, <3>3
  <2>6. Below'
    <3>1. SUFFICES ASSUME NEW m \in Notes, state[m] = "trashed", root[m] # m
                   PROVE  parent'[m] = Top \/ InBundleOf(m)'
      BY <1>0, <1>2 DEF Below, Trashed
    <3>2. parent[m] = Top \/ InBundleOf(m)
      BY <3>1 DEF TreeInv, Below, Trashed
    <3>3. CASE m # f
      BY <1>0, <1>2, <2>1, <3>2, <3>3 DEF InBundleOf
    <3>4. CASE m = f
      <4>1. IsPlace(parent[f])
        BY <1>2, <2>0 DEF TreeInv, Hangs, Active
      <4>2. InBundleOf(f)
        BY <3>1, <3>4 DEF AllBelow, Trashed
      <4> QED
        BY <1>0, <4>1, <4>2 DEF InBundleOf, IsPlace, IsActiveFolder, Notes
    <3> QED
      BY <3>3, <3>4
  <2>7. QuietMove
    <3>1. state[f] = "trashed" => root[f] = f
      <4>1. IsPlace(parent[f])
        BY <1>2, <2>0 DEF TreeInv, Hangs, Active
      <4> QED
        BY <1>0, <4>1 DEF AllBelow, Trashed, InBundleOf, IsPlace, IsActiveFolder, Notes
    <3> QED
      BY <1>0, <1>2, <2>1, <3>1 DEF QuietMove
  <2> QED
    BY <2>2, <2>3, <2>4, <2>5, <2>6, <2>7 DEF TreeInv
<1>3. ASSUME NEW b \in Bundles, state[b] = "unborn", IsPlace(parent[f]),
             state' = [state EXCEPT ![b] = "active"],
             parent' = [parent EXCEPT ![b] = parent[f], ![f] = b]
      PROVE  TreeInv' /\ QuietMove
  <2>0. /\ b \in Notes /\ b # f /\ b \in Places /\ parent[f] # b
        /\ parent[f] \in Notes => state[parent[f]] = "active"
    BY <1>0, <1>3 DEF Notes, Places, IsPlace, IsActiveFolder
  <2>1. /\ parent'[f] = b /\ parent'[b] = parent[f]
        /\ \A m \in Notes : m \notin {b, f} => parent'[m] = parent[m]
    BY <1>0, <1>3, <2>0 DEF Shape
  <2>2. state'[b] = "active" /\ \A m \in Notes : m # b => state'[m] = state[m]
    BY <1>0, <1>3, <2>0 DEF Shape
  <2>3. Shape'
    BY <1>0, <1>3, <2>0 DEF Shape, MoveToBundle, EndExtraction
  <2>4. Born'
    <3>1. SUFFICES ASSUME NEW m \in Notes, parent'[m] \in Notes
                   PROVE  state'[parent'[m]] # "unborn"
      BY <1>0 DEF Born
    <3>2. CASE m \in {b, f}
      BY <2>0, <2>1, <2>2, <3>1, <3>2
    <3>3. CASE m \notin {b, f}
      BY <2>0, <2>1, <2>2, <3>1, <3>3 DEF TreeInv, Born
    <3> QED
      BY <3>2, <3>3
  <2>5. Hangs'
    <3>1. SUFFICES ASSUME NEW m \in Notes, state'[m] = "active"
                   PROVE  parent'[m] = Top \/ (parent'[m] \in Folders /\ state'[parent'[m]] = "active")
      BY <1>0 DEF Hangs, Active, IsPlace, IsActiveFolder
    <3>2. CASE m = f
      BY <2>1, <2>2, <3>2
    <3>3. CASE m = b
      BY <1>3, <2>0, <2>1, <2>2, <3>3 DEF IsPlace, IsActiveFolder, Notes
    <3>4. CASE m \notin {b, f}
      <4>1. IsPlace(parent[m])
        BY <2>2, <3>1, <3>4 DEF TreeInv, Hangs, Active
      <4> QED
        BY <2>1, <2>2, <3>4, <4>1 DEF IsPlace, IsActiveFolder, Notes
    <3> QED
      BY <3>2, <3>3, <3>4
  <2>6. Acyclic'
    <3>1. SUFFICES ASSUME NEW S \in (SUBSET Notes) \ {{}}
                   PROVE  \E m \in S : parent'[m] \notin S
      BY <1>0 DEF Acyclic
    <3>2. CASE b \notin S
      <4>1. PICK m \in S : parent[m] \notin S
        BY <3>1 DEF TreeInv, Acyclic
      <4> QED
        BY <2>1, <3>1, <3>2, <4>1
    <3>3. CASE b \in S /\ S \ {b} = {}
      BY <2>0, <2>1, <3>3
    <3>4. CASE b \in S /\ S \ {b} # {}
      <4>1. PICK m \in S \ {b} : parent[m] \notin S \ {b}
        BY <3>1, <3>4 DEF TreeInv, Acyclic
      <4>2. parent[m] # b
        BY <1>3, <2>0, <3>1 DEF TreeInv, Born
      <4> QED
        BY <2>1, <3>4, <4>1, <4>2
    <3> QED
      BY <3>2, <3>3, <3>4
  <2>7. Below'
    <3>1. SUFFICES ASSUME NEW m \in Notes, state'[m] = "trashed", root[m] # m
                   PROVE  /\ parent'[m] \in Folders /\ root[m] = root[parent'[m]]
                          /\ state'[parent'[m]] = "trashed"
      BY <1>0 DEF Below, Trashed, InBundleOf
    <3>2. m # b /\ m \in Trashed
      BY <2>2, <3>1 DEF Trashed
    <3>3. InBundleOf(m)
      BY <3>1, <3>2 DEF AllBelow
    <3>4. parent[m] \in Notes /\ parent[m] # b
      BY <1>3, <3>3 DEF InBundleOf, Notes
    <3>5. m # f
      BY <1>3, <3>3, <3>4, <2>0 DEF InBundleOf
    <3> QED
      BY <2>1, <2>2, <3>2, <3>3, <3>4, <3>5 DEF InBundleOf
  <2>8. QuietMove
    <3>1. state[f] = "trashed" => root[f] = f
      BY <1>0, <2>0 DEF AllBelow, Trashed, InBundleOf, Notes
    <3> QED
      BY <1>0, <1>3, <2>1, <2>2, <3>1 DEF QuietMove
  <2> QED
    BY <2>3, <2>4, <2>5, <2>6, <2>7, <2>8 DEF TreeInv
<1> QED
  BY <1>2, <1>3 DEF MoveToBundle, BundleAt

(* Trash takes the subtree as one bundle.                                  *)
LEMMA TrashKeepsTree ==
  ASSUME TreeAssumption, TreeInv, NEW r \in Notes, Trash(r)
  PROVE  /\ TreeInv'
         /\ AllBelow => AllBelow'
<1> DEFINE Sub == ActiveSubtree(r)
<1>0. /\ r \in Active /\ r \in Sub /\ Sub \subseteq Active /\ Active \subseteq Notes
      /\ Notes' = Notes /\ Top \notin Notes /\ Shape
      /\ \A m \in Active : parent[m] \in Sub => m \in Sub
      /\ \A m \in Sub : m # r => parent[m] \in Sub
  BY SubtreeHasRoot, SubtreeIsClosed, SubtreeIsLeast
  DEF Trash, TreeInv, TreeAssumption, Active, Notes
<1>1. \A m \in Sub : state[m] = "active" /\ m \in Notes
  BY <1>0 DEF Active
<1>2. /\ \A m \in Notes : state'[m] = (IF m \in Sub THEN "trashed" ELSE state[m])
      /\ \A m \in Notes : root'[m] = (IF m \in Sub THEN r ELSE root[m])
      /\ state' = [m \in Notes |-> IF m \in Sub THEN "trashed" ELSE state[m]]
      /\ root' = [m \in Notes |-> IF m \in Sub THEN r ELSE root[m]]
      /\ parent' = parent /\ extracting' = extracting
  BY DEF Trash
<1> HIDE DEF Sub
<1>3. Shape'
  <2>1. state' \in [Notes -> {"unborn", "active", "trashed", "gone"}]
    BY <1>0, <1>2 DEF Shape
  <2>2. root' \in [Notes -> Notes \cup {Top}]
    BY <1>0, <1>2 DEF Shape
  <2> QED
    BY <1>0, <1>2, <2>1, <2>2 DEF Shape
<1>4. Born'
  BY <1>0, <1>2 DEF TreeInv, Born
<1>5. Hangs'
  <2>1. SUFFICES ASSUME NEW m \in Notes, state'[m] = "active" PROVE IsPlace(parent[m])'
    BY <1>0 DEF Hangs, Active
  <2>2. m \in Active /\ m \notin Sub /\ IsPlace(parent[m])
    BY <1>2, <2>1 DEF TreeInv, Hangs, Active
  <2> QED
    BY <1>0, <1>2, <2>2 DEF IsPlace, IsActiveFolder, Notes
<1>6. Acyclic'
  BY <1>0, <1>2 DEF TreeInv, Acyclic
<1>7. ASSUME NEW m \in Notes, state'[m] = "trashed", root'[m] # m
      PROVE  (m \in Sub /\ InBundleOf(m)') \/ (m \in Trashed /\ m \notin Sub /\ root[m] # m)
  <2>1. CASE m \in Sub
    <3>1. parent[m] \in Sub
      BY <1>0, <1>2, <1>7, <2>1
    <3>2. parent[m] \in Folders /\ parent[m] \in Notes
      BY <1>0, <1>1, <2>1, <3>1 DEF Shape, Places
    <3> QED
      BY <1>2, <2>1, <3>1, <3>2 DEF InBundleOf
  <2>2. CASE m \notin Sub
    BY <1>2, <1>7, <2>2 DEF Trashed
  <2> QED
    BY <2>1, <2>2
<1>8. ASSUME NEW m \in Notes, m \notin Sub, InBundleOf(m)
      PROVE  InBundleOf(m)'
  BY <1>1, <1>2, <1>8 DEF InBundleOf, Notes
<1>9. Below'
  <2>1. SUFFICES ASSUME NEW m \in Notes, state'[m] = "trashed", root'[m] # m
                 PROVE  parent'[m] = Top \/ InBundleOf(m)'
    BY <1>0 DEF Below, Trashed
  <2> QED
    BY <1>2, <1>7, <1>8, <2>1 DEF TreeInv, Below
<1>10. ASSUME AllBelow PROVE AllBelow'
  <2>1. SUFFICES ASSUME NEW m \in Notes, state'[m] = "trashed", root'[m] # m
                 PROVE  InBundleOf(m)'
    BY <1>0 DEF AllBelow, Trashed
  <2> QED
    BY <1>7, <1>8, <1>10, <2>1 DEF AllBelow
<1> QED
  BY <1>3, <1>4, <1>5, <1>6, <1>9, <1>10 DEF TreeInv

(* Restore brings the bundle back in place, or to the top.                 *)
LEMMA ReviveKeepsTree ==
  ASSUME TreeAssumption, TreeInv, NEW r \in Notes, RestoreRoot(r)
  PROVE  /\ TreeInv'
         /\ AllBelow => AllBelow'
<1>0. /\ r \in Notes /\ state[r] = "trashed" /\ root[r] = r /\ r \in Bundle(r)
      /\ Notes' = Notes /\ Top \notin Notes /\ Shape /\ Bundle(r) \subseteq Notes
      /\ \A m \in Notes : m \in Bundle(r) <=> (state[m] = "trashed" /\ root[m] = r)
  BY DEF RestoreRoot, TrashRoots, Trashed, Bundle, TreeInv, TreeAssumption, Notes
<1>1. /\ state' = [m \in Notes |-> IF m \in Bundle(r) THEN "active" ELSE state[m]]
      /\ root' = [m \in Notes |-> IF m \in Bundle(r) THEN Top ELSE root[m]]
      /\ parent' = IF IsPlace(parent[r]) THEN parent ELSE [parent EXCEPT ![r] = Top]
      /\ extracting' = extracting
  BY DEF RestoreRoot, Revive
<1>2. /\ \A m \in Notes : state'[m] = (IF m \in Bundle(r) THEN "active" ELSE state[m])
      /\ \A m \in Notes : root'[m] = (IF m \in Bundle(r) THEN Top ELSE root[m])
      /\ \A m \in Notes : m # r => parent'[m] = parent[m]
      /\ parent'[r] \in {parent[r], Top} /\ (parent'[r] = Top \/ IsPlace(parent'[r]))
  BY <1>0, <1>1 DEF Shape
<1>3. Shape'
  BY <1>0, <1>1 DEF Shape, Places
<1>4. Born'
  BY <1>0, <1>2 DEF TreeInv, Born
<1>5. \A q : IsActiveFolder(q) => state'[q] = "active"
  BY <1>0, <1>2 DEF IsActiveFolder, Notes
<1>6. Hangs'
  <2>1. SUFFICES ASSUME NEW m \in Notes, state'[m] = "active"
                 PROVE  parent'[m] = Top \/ (parent'[m] \in Folders /\ state'[parent'[m]] = "active")
    BY <1>0 DEF Hangs, Active, IsPlace, IsActiveFolder
  <2>2. CASE m = r
    BY <1>2, <1>5, <2>2 DEF IsPlace, IsActiveFolder
  <2>3. CASE m # r /\ m \in Bundle(r)
    <3>1. parent[m] = Top \/ InBundleOf(m)
      BY <1>0, <2>3 DEF TreeInv, Below, Trashed
    <3> QED
      BY <1>0, <1>2, <2>3, <3>1 DEF InBundleOf, Notes
  <2>4. CASE m \notin Bundle(r)
    <3>1. IsPlace(parent[m])
      BY <1>2, <2>1, <2>4 DEF TreeInv, Hangs, Active
    <3> QED
      BY <1>0, <1>2, <1>5, <2>4, <3>1 DEF IsPlace, IsActiveFolder
  <2> QED
    BY <2>2, <2>3, <2>4
<1>7. Acyclic'
  BY <1>2, UpwardsIsAcyclic DEF TreeInv
<1>8. ASSUME NEW m \in Notes, state'[m] = "trashed", root'[m] # m
      PROVE  m \in Trashed /\ root[m] # m /\ root[m] # r /\ m # r /\ m \notin Bundle(r)
  BY <1>0, <1>2, <1>8 DEF Trashed
<1>9. ASSUME NEW m \in Notes, m \notin Bundle(r), m \in Trashed, m # r, InBundleOf(m)
      PROVE  InBundleOf(m)'
  BY <1>0, <1>2, <1>9 DEF InBundleOf, Notes, Trashed
<1>10. Below'
  <2>1. SUFFICES ASSUME NEW m \in Notes, state'[m] = "trashed", root'[m] # m
                 PROVE  parent'[m] = Top \/ InBundleOf(m)'
    BY <1>0 DEF Below, Trashed
  <2> QED
    BY <1>2, <1>8, <1>9, <2>1 DEF TreeInv, Below
<1>11. ASSUME AllBelow PROVE AllBelow'
  <2>1. SUFFICES ASSUME NEW m \in Notes, state'[m] = "trashed", root'[m] # m
                 PROVE  InBundleOf(m)'
    BY <1>0 DEF AllBelow, Trashed
  <2> QED
    BY <1>8, <1>9, <1>11, <2>1 DEF AllBelow
<1> QED
  BY <1>3, <1>4, <1>6, <1>7, <1>10, <1>11 DEF TreeInv

(* What is below a note that is removed moves to the top.                  *)
LEMMA RemoveKeepsTree ==
  ASSUME TreeAssumption, TreeInv, NEW S \in SUBSET Notes, Remove(S), extracting' = extracting
  PROVE  TreeInv'
<1>0. Notes' = Notes /\ Top \notin Notes /\ Shape /\ Top \in Places
  BY DEF TreeInv, TreeAssumption, Notes, Places
<1>1. /\ state' = [n \in Notes |-> IF n \in S THEN "gone" ELSE state[n]]
      /\ parent' = [n \in Notes |-> IF parent[n] \in S /\ n \notin S THEN Top ELSE parent[n]]
      /\ root' = root
  BY DEF Remove
<1>2. Shape'
  <2>1. state' \in [Notes -> {"unborn", "active", "trashed", "gone"}]
    BY <1>0, <1>1 DEF Shape
  <2>2. parent' \in [Notes -> Places]
    BY <1>0, <1>1 DEF Shape
  <2> QED
    BY <1>0, <1>1, <2>1, <2>2 DEF Shape
<1>3. Born'
  BY <1>0, <1>1 DEF TreeInv, Born
<1>4. Hangs'
  <2>1. SUFFICES ASSUME NEW m \in Notes, state'[m] = "active"
                 PROVE  parent'[m] = Top \/ (parent'[m] \in Folders /\ state'[parent'[m]] = "active")
    BY <1>0 DEF Hangs, Active, IsPlace, IsActiveFolder
  <2>2. m \notin S /\ state[m] = "active"
    BY <1>1, <2>1
  <2>3. IsPlace(parent[m])
    BY <2>2 DEF TreeInv, Hangs, Active
  <2> QED
    BY <1>0, <1>1, <2>2, <2>3 DEF IsPlace, IsActiveFolder, Notes
<1>5. Acyclic'
  BY <1>1, UpwardsIsAcyclic DEF TreeInv
<1>6. Below'
  <2>1. SUFFICES ASSUME NEW m \in Notes, state'[m] = "trashed", root[m] # m
                 PROVE  parent'[m] = Top \/ InBundleOf(m)'
    BY <1>0, <1>1 DEF Below, Trashed
  <2>2. m \notin S /\ state[m] = "trashed"
    BY <1>1, <2>1
  <2>3. parent[m] = Top \/ InBundleOf(m)
    BY <2>1, <2>2 DEF TreeInv, Below, Trashed
  <2>4. CASE parent[m] = Top \/ parent[m] \in S
    BY <1>0, <1>1, <2>2, <2>4
  <2>5. CASE InBundleOf(m) /\ parent[m] \notin S
    BY <1>0, <1>1, <2>2, <2>5 DEF InBundleOf, Notes
  <2> QED
    BY <2>3, <2>4, <2>5
<1> QED
  BY <1>2, <1>3, <1>4, <1>5, <1>6 DEF TreeInv

-----------------------------------------------------------------------------
(* The bundles.                                                            *)

(* A step that leaves the bundles alone leaves them whole.                 *)
LEMMA QuietKeepsBundles ==
  ASSUME TreeAssumption, Shape, AllBelow, RootsListed, QuietMove
  PROVE  AllBelow' /\ RootsListed'
<1>0. Notes' = Notes
  BY DEF Notes
<1>1. ASSUME NEW n \in Notes, state'[n] = "trashed"
      PROVE  state[n] = "trashed" /\ root'[n] = root[n] /\ root[n] \in Notes
             /\ state'[root[n]] = "trashed" /\ root'[root[n]] = root[n]
  BY <1>1 DEF QuietMove, RootsListed, TrashRoots, Trashed
<1>2. RootsListed'
  BY <1>0, <1>1 DEF RootsListed, TrashRoots, Trashed
<1>3. AllBelow'
  <2>1. SUFFICES ASSUME NEW n \in Notes, state'[n] = "trashed", root'[n] # n
                 PROVE  InBundleOf(n)'
    BY <1>0 DEF AllBelow, Trashed
  <2>2. InBundleOf(n) /\ parent'[n] = parent[n] /\ parent[n] \in Notes
    BY <1>1, <2>1 DEF AllBelow, Trashed, InBundleOf, QuietMove, Notes
  <2> QED
    BY <1>1, <2>1, <2>2 DEF InBundleOf, QuietMove
<1> QED
  BY <1>2, <1>3

(* A new bundle has its root.                                              *)
LEMMA TrashKeepsRoots ==
  ASSUME TreeAssumption, Shape, RootsListed, NEW r \in Notes, Trash(r)
  PROVE  RootsListed'
<1> DEFINE Sub == ActiveSubtree(r)
<1>1. r \in Sub /\ \A n \in Sub : state[n] = "active" /\ n \in Notes
  BY SubtreeHasRoot DEF Trash, Active
<1>2. /\ \A m \in Notes : state'[m] = (IF m \in Sub THEN "trashed" ELSE state[m])
      /\ \A m \in Notes : root'[m] = (IF m \in Sub THEN r ELSE root[m])
      /\ Notes' = Notes
  BY DEF Trash, Notes
<1> HIDE DEF Sub
<1>3. SUFFICES ASSUME NEW n \in Notes, state'[n] = "trashed"
               PROVE  root'[n] \in Notes /\ state'[root'[n]] = "trashed"
                      /\ root'[root'[n]] = root'[n]
  BY <1>2 DEF RootsListed, TrashRoots, Trashed
<1>4. CASE n \in Sub
  BY <1>1, <1>2, <1>4
<1>5. CASE n \notin Sub
  <2>1. state[n] = "trashed" /\ root[n] \in Notes /\ state[root[n]] = "trashed"
        /\ root[root[n]] = root[n]
    BY <1>2, <1>3, <1>5 DEF RootsListed, TrashRoots, Trashed
  <2> QED
    BY <1>1, <1>2, <1>5, <2>1
<1> QED
  BY <1>4, <1>5

(* The bundles that are not restored keep their roots.                     *)
LEMMA ReviveKeepsRoots ==
  ASSUME TreeAssumption, Shape, RootsListed, NEW r \in Notes, RestoreRoot(r)
  PROVE  RootsListed'
<1>1. /\ \A m \in Notes : state'[m] = (IF m \in Bundle(r) THEN "active" ELSE state[m])
      /\ \A m \in Notes : root'[m] = (IF m \in Bundle(r) THEN Top ELSE root[m])
      /\ Notes' = Notes
  BY DEF RestoreRoot, Revive, Notes
<1>2. SUFFICES ASSUME NEW n \in Notes, state'[n] = "trashed"
               PROVE  root'[n] \in Notes /\ state'[root'[n]] = "trashed"
                      /\ root'[root'[n]] = root'[n]
  BY <1>1 DEF RootsListed, TrashRoots, Trashed
<1>3. n \notin Bundle(r) /\ state[n] = "trashed" /\ root[n] # r
  BY <1>1, <1>2 DEF Bundle, Trashed
<1>4. root[n] \in Notes /\ state[root[n]] = "trashed" /\ root[root[n]] = root[n]
  BY <1>3 DEF RootsListed, TrashRoots, Trashed
<1>5. root[n] \notin Bundle(r)
  BY <1>3, <1>4 DEF Bundle
<1> QED
  BY <1>1, <1>3, <1>4, <1>5

(* A bundle is removed as a whole.                                         *)
LEMMA RemoveBundleKeepsBundles ==
  ASSUME TreeAssumption, Shape, AllBelow, RootsListed, NEW r \in Notes, RemoveBundle(r)
  PROVE  AllBelow' /\ RootsListed'
<1>1. /\ \A m \in Notes : state'[m] = (IF m \in Bundle(r) THEN "gone" ELSE state[m])
      /\ \A m \in Notes : parent[m] \notin Bundle(r) => parent'[m] = parent[m]
      /\ root' = root /\ Notes' = Notes
  BY DEF RemoveBundle, Remove, Notes
<1>2. ASSUME NEW n \in Notes, state'[n] = "trashed"
      PROVE  /\ n \notin Bundle(r) /\ state[n] = "trashed" /\ root[n] # r
             /\ root[n] \in Notes /\ state[root[n]] = "trashed" /\ root[root[n]] = root[n]
             /\ root[n] \notin Bundle(r)
  <2>1. n \notin Bundle(r) /\ state[n] = "trashed" /\ root[n] # r
    BY <1>1, <1>2 DEF Bundle, Trashed
  <2>2. root[n] \in Notes /\ state[root[n]] = "trashed" /\ root[root[n]] = root[n]
    BY <2>1 DEF RootsListed, TrashRoots, Trashed
  <2> QED
    BY <2>1, <2>2 DEF Bundle
<1>3. RootsListed'
  BY <1>1, <1>2 DEF RootsListed, TrashRoots, Trashed
<1>4. AllBelow'
  <2>1. SUFFICES ASSUME NEW n \in Notes, state'[n] = "trashed", root[n] # n
                 PROVE  InBundleOf(n)'
    BY <1>1 DEF AllBelow, Trashed
  <2>2. InBundleOf(n) /\ parent[n] \in Notes
    BY <1>2, <2>1 DEF AllBelow, Trashed, InBundleOf, Notes
  <2>3. parent[n] \notin Bundle(r)
    BY <1>2, <2>1, <2>2 DEF Bundle, InBundleOf
  <2> QED
    BY <1>1, <2>2, <2>3 DEF InBundleOf
<1> QED
  BY <1>3, <1>4

-----------------------------------------------------------------------------
(* The steps.                                                              *)

TreeSteps == TreeInv' /\ (AllBelow /\ RootsListed => AllBelow' /\ RootsListed')

(* What leaves the rows alone.                                             *)
LEMMA UnchangedKeepsTree ==
  ASSUME TreeAssumption, TreeInv, UNCHANGED rows, (extracting \subseteq Extracted)'
  PROVE  TreeSteps
<1>1. Notes' = Notes /\ state' = state /\ parent' = parent /\ root' = root
  BY DEF Notes, rows
<1>2. Shape'
  BY <1>1 DEF TreeInv, Shape
<1>3. Born' /\ Acyclic'
  BY <1>1 DEF TreeInv, Born, Acyclic
<1>4. Hangs'
  BY <1>1 DEF TreeInv, Hangs, Active, IsPlace, IsActiveFolder
<1>5. Below'
  BY <1>1 DEF TreeInv, Below, Trashed, InBundleOf
<1>6. QuietMove
  BY <1>1 DEF QuietMove
<1> QED
  BY <1>2, <1>3, <1>4, <1>5, <1>6, QuietKeepsBundles DEF TreeSteps, TreeInv

LEMMA OrganiseKeepsTree ==
  ASSUME TreeAssumption, TreeInv, Organise
  PROVE  TreeSteps
<1>0. Shape /\ Top \in Places /\ Notes' = Notes
  BY DEF TreeInv, Places, Notes
<1>1. ASSUME NEW n \in Notes, NEW p \in Places, state[n] = "unborn", IsPlace(p), Insert(n, p),
             UNCHANGED <<root, extracting>>
      PROVE  TreeSteps
  <2>1. TreeInv'
    BY <1>1, InsertKeepsTree
  <2>2. QuietMove
    BY <1>0, <1>1 DEF QuietMove, Insert, Shape
  <2> QED
    BY <1>0, <2>1, <2>2, QuietKeepsBundles DEF TreeSteps
<1>2. ASSUME NEW n \in Notes, NEW p \in Places, Create(n, p) PROVE TreeSteps
  BY <1>1, <1>2 DEF Create
<1>3. ASSUME NEW n \in Notes, NEW p \in Places, Move(n, p) PROVE TreeSteps
  <2>1. TreeInv'
    BY <1>3, ReparentKeepsTree DEF Move
  <2>2. QuietMove
    BY <1>0, <1>3 DEF QuietMove, Move, Shape, Active
  <2> QED
    BY <1>0, <2>1, <2>2, QuietKeepsBundles DEF TreeSteps
<1>4. ASSUME NEW c \in Courses, CourseFolder(c) PROVE TreeSteps
  <2>1. c \in Notes /\ IsPlace(Top)
    BY DEF TreeAssumption, Notes, IsPlace
  <2> QED
    BY <1>0, <1>1, <1>4, <2>1 DEF CourseFolder
<1> QED
  BY <1>2, <1>3, <1>4 DEF Organise

LEMMA RecycleKeepsTree ==
  ASSUME TreeAssumption, TreeInv, Recycle
  PROVE  TreeSteps
<1>0. Shape /\ (extracting \subseteq Extracted)
  BY DEF TreeInv, Shape
<1>1. ASSUME UNCHANGED <<rows, extracting>> PROVE TreeSteps
  BY <1>0, <1>1, UnchangedKeepsTree
<1>2. ASSUME NEW r \in Notes, Trash(r) PROVE TreeSteps
  BY <1>0, <1>2, TrashKeepsTree, TrashKeepsRoots DEF TreeSteps
<1>3. ASSUME NEW r, RestoreRoot(r) PROVE TreeSteps
  <2>1. r \in Notes
    BY <1>3 DEF RestoreRoot, TrashRoots, Trashed
  <2> QED
    BY <1>0, <1>3, <2>1, ReviveKeepsTree, ReviveKeepsRoots DEF TreeSteps
<1>4. ASSUME NEW r \in Notes, RemoveBundle(r), extracting' = extracting PROVE TreeSteps
  <2>1. Remove(Bundle(r)) /\ Bundle(r) \in SUBSET Notes
    BY <1>4 DEF RemoveBundle, Bundle, Trashed
  <2> QED
    BY <1>0, <1>4, <2>1, RemoveKeepsTree, RemoveBundleKeepsBundles DEF TreeSteps
<1>5. ASSUME NEW r \in Notes, Restore(r) \/ DeleteForever(r) PROVE TreeSteps
  BY <1>3, <1>4, <1>5 DEF Restore, DeleteForever
<1>6. ASSUME NEW r \in Notes, EmptyOne(r) PROVE TreeSteps
  BY <1>1, <1>4, <1>6 DEF EmptyOne, rows
<1>7. ASSUME OfferRestore \/ EmptyTrash \/ DieEmptying PROVE TreeSteps
  BY <1>1, <1>7 DEF OfferRestore, EmptyTrash, DieEmptying, rows
<1>8. ASSUME NEW o \in offer, RestoreOffered(o) \/ DropOffer(o) PROVE TreeSteps
  BY <1>1, <1>3, <1>8 DEF RestoreOffered, DropOffer, rows
<1> QED
  BY <1>2, <1>5, <1>6, <1>7, <1>8 DEF Recycle

LEMMA PurgeKeepsTree ==
  ASSUME TreeAssumption, TreeInv, Purge
  PROVE  TreeSteps
<1>0. Shape /\ (extracting \subseteq Extracted)
  BY DEF TreeInv, Shape
<1>1. ASSUME UNCHANGED <<rows, extracting>> PROVE TreeSteps
  BY <1>0, <1>1, UnchangedKeepsTree
<1>2. ASSUME ListExpired \/ DiePurging PROVE TreeSteps
  BY <1>1, <1>2 DEF ListExpired, DiePurging
<1>3. ASSUME NEW r \in Notes, Expire(r) \/ PurgeFails(r) PROVE TreeSteps
  BY <1>1, <1>3 DEF Expire, PurgeFails
<1>4. ASSUME NEW r \in Notes, PurgeOne(r) PROVE TreeSteps
  <2>1. CASE RemoveBundle(r)
    <3>1. Remove(Bundle(r)) /\ Bundle(r) \in SUBSET Notes /\ extracting' = extracting
      BY <1>4, <2>1 DEF RemoveBundle, Bundle, Trashed, PurgeOne
    <3> QED
      BY <1>0, <2>1, <3>1, RemoveKeepsTree, RemoveBundleKeepsBundles DEF TreeSteps
  <2> QED
    BY <1>1, <1>4, <2>1 DEF PurgeOne
<1> QED
  BY <1>2, <1>3, <1>4 DEF Purge

LEMMA ExtractKeepsTree ==
  ASSUME TreeAssumption, TreeInv, Extract, AllBelow
  PROVE  TreeSteps
<1>0. Shape /\ (extracting \subseteq Extracted)
  BY DEF TreeInv, Shape
<1>1. ASSUME NEW f \in Files, BeginExtraction(f) \/ LeaveInPlace(f) PROVE TreeSteps
  BY <1>0, <1>1, UnchangedKeepsTree DEF BeginExtraction, LeaveInPlace, EndExtraction
<1>2. ASSUME NEW f \in Files, MoveToBundle(f) PROVE TreeSteps
  BY <1>0, <1>2, BundlingKeepsTree, QuietKeepsBundles DEF TreeSteps
<1> QED
  BY <1>1, <1>2 DEF Extract

-----------------------------------------------------------------------------
LEMMA InitIsTree ==
  ASSUME TreeAssumption, Init
  PROVE  TreeInv /\ AllBelow /\ RootsListed
<1>1. /\ \A n \in Notes : state[n] = "unborn" /\ parent[n] = Top
      /\ Top \notin Notes /\ Top \in Places
  BY DEF Init, TreeAssumption, Places
<1>2. Shape
  BY <1>1 DEF Init, Shape
<1>3. Born /\ Acyclic
  BY <1>1 DEF Born, Acyclic
<1>4. Hangs /\ Below /\ AllBelow /\ RootsListed
  BY <1>1 DEF Hangs, Below, AllBelow, RootsListed, Active, Trashed
<1> QED
  BY <1>2, <1>3, <1>4 DEF TreeInv

LEMMA NextKeepsTree ==
  ASSUME TreeAssumption, TreeInv, AllBelow, RootsListed, [Next]_vars
  PROVE  TreeInv' /\ AllBelow' /\ RootsListed'
<1>1. CASE Organise
  BY <1>1, OrganiseKeepsTree DEF TreeSteps
<1>2. CASE Extract
  BY <1>2, ExtractKeepsTree DEF TreeSteps
<1>3. CASE Recycle
  BY <1>3, RecycleKeepsTree DEF TreeSteps
<1>4. CASE Purge
  BY <1>4, PurgeKeepsTree DEF TreeSteps
<1>5. CASE UNCHANGED vars
  BY <1>5, UnchangedKeepsTree DEF TreeSteps, vars, rows, TreeInv, Shape
<1> QED
  BY <1>1, <1>2, <1>3, <1>4, <1>5 DEF Next

(* The tree stays reachable and every bundle whole, whatever moves, Trash  *)
(* transitions, restores, deletions, purges, Canvas imports and            *)
(* extractions do and in whichever order.                                  *)
THEOREM TreeIsSound ==
  ASSUME TreeAssumption
  PROVE  Spec => [](ActiveIsReachable /\ TrashIsWhole)
<1> DEFINE Inv == TreeInv /\ AllBelow /\ RootsListed
<1>1. Init => Inv
  BY InitIsTree
<1>2. Inv /\ [Next]_vars => Inv'
  BY NextKeepsTree
<1>3. Inv => ActiveIsReachable /\ TrashIsWhole
  BY DEF TreeInv, Hangs, Acyclic, AllBelow, RootsListed, ActiveIsReachable, TrashIsWhole, InBundleOf
<1> QED
  BY <1>1, <1>2, <1>3, PTL DEF Spec

(* Without extractions, Clear Vault keeps the tree reachable too, although *)
(* it deletes the notes it listed from a tree that has changed since.      *)
THEOREM ClearKeepsReachable ==
  ASSUME TreeAssumption, Extracted = {}
  PROVE  ClearSpec => []ActiveIsReachable
<1> DEFINE Inv == TreeInv /\ clearing \subseteq Notes
<1>1. Init => Inv
  BY InitIsTree DEF Init
<1>2. Inv /\ [Next \/ ClearVault]_vars => Inv'
  <2>1. SUFFICES ASSUME Inv, [Next \/ ClearVault]_vars PROVE Inv'
    OBVIOUS
  <2>0. (clearing \subseteq Notes)'
    <3>1. Notes' = Notes
      BY DEF Notes
    <3>2. CASE Next \/ UNCHANGED vars
      <4>1. clearing' = clearing
        BY <3>2 DEF Next, vars, rows, sweeps, Organise, Create, Move, CourseFolder, Extract, BeginExtraction,
           MoveToBundle, LeaveInPlace, Recycle, Trash, Restore, RestoreRoot, DeleteForever, EmptyOne,
           OfferRestore, EmptyTrash, DieEmptying, RestoreOffered, DropOffer, Purge, ListExpired,
           DiePurging, Expire, PurgeOne, PurgeFails
      <4> QED
        BY <2>1, <3>1, <4>1
    <3>3. CASE ClearVault
      BY <3>1, <3>3 DEF ClearVault, ListForClear, Clear, Active, Trashed
    <3> QED
      BY <2>1, <3>2, <3>3
  <2>2. Shape /\ extracting = {}
    BY <2>1 DEF TreeInv, Shape
  <2>3. ASSUME Organise \/ Recycle \/ Purge PROVE TreeInv'
    BY <2>1, <2>3, OrganiseKeepsTree, RecycleKeepsTree, PurgeKeepsTree DEF TreeSteps
  <2>4. ASSUME Extract PROVE FALSE
    BY <2>2, <2>4 DEF Extract, BeginExtraction, MoveToBundle, LeaveInPlace
  <2>5. ASSUME ListForClear \/ UNCHANGED vars PROVE TreeInv'
    BY <2>1, <2>5, UnchangedKeepsTree DEF TreeSteps, vars, rows, TreeInv, Shape, ListForClear
  <2>6. ASSUME Clear PROVE TreeInv'
    <3>1. PICK S \in SUBSET Notes : Remove(S)
      <4> DEFINE S == {n \in clearing : state[n] \in {"active", "trashed"}}
      <4>1. Remove(S)
        BY <2>6 DEF Clear
      <4>2. S \subseteq Notes
        BY <2>1
      <4> QED
        BY <4>1, <4>2
    <3> QED
      BY <2>1, <2>6, <3>1, RemoveKeepsTree DEF Clear
  <2> QED
    BY <2>0, <2>1, <2>3, <2>4, <2>5, <2>6 DEF Next, ClearVault
<1>3. Inv => ActiveIsReachable
  BY DEF TreeInv, Hangs, Acyclic, ActiveIsReachable
<1> QED
  BY <1>1, <1>2, <1>3, PTL DEF ClearSpec

(* What one step does to the state of a note.                              *)
LEMMA Lifecycle ==
  ASSUME TreeAssumption, Shape, Next, NEW n \in Notes
  PROVE  \/ state'[n] = state[n]
         \/ /\ state[n] = "unborn" /\ state'[n] = "active"
            /\ n \in Courses => ~KnownCourse /\ \A m \in Notes : m # n => state'[m] = state[m]
         \/ state[n] = "active" /\ state'[n] = "trashed"
         \/ state[n] = "trashed" /\ state'[n] \in {"active", "gone"}
<1> DEFINE Goal ==
      \/ state'[n] = state[n]
      \/ /\ state[n] = "unborn" /\ state'[n] = "active"
         /\ n \in Courses => ~KnownCourse /\ \A m \in Notes : m # n => state'[m] = state[m]
      \/ state[n] = "active" /\ state'[n] = "trashed"
      \/ state[n] = "trashed" /\ state'[n] \in {"active", "gone"}
<1>1. CASE UNCHANGED state
  BY <1>1
<1>2. ASSUME NEW m \in Notes, NEW p \in Places, Create(m, p) \/ Move(m, p) PROVE Goal
  BY <1>2 DEF Create, Insert, Move, Shape
<1>3. ASSUME NEW c \in Courses, CourseFolder(c) PROVE Goal
  BY <1>3 DEF CourseFolder, Insert, Shape
<1>4. ASSUME NEW f \in Files, BeginExtraction(f) \/ MoveToBundle(f) \/ LeaveInPlace(f) PROVE Goal
  BY <1>4 DEF BeginExtraction, MoveToBundle, LeaveInPlace, rows, Shape, TreeAssumption
<1>5. ASSUME NEW r \in Notes, Trash(r) PROVE Goal
  <2>1. ActiveSubtree(r) \subseteq Active
    BY DEF ActiveSubtree
  <2>2. state'[n] = (IF n \in ActiveSubtree(r) THEN "trashed" ELSE state[n])
    BY <1>5 DEF Trash
  <2> QED
    BY <2>1, <2>2 DEF Active
<1>6. ASSUME NEW r, RestoreRoot(r) PROVE Goal
  BY <1>6 DEF RestoreRoot, Revive, Bundle, Trashed
<1>7. ASSUME NEW r \in Notes, RemoveBundle(r) PROVE Goal
  BY <1>7 DEF RemoveBundle, Remove, Bundle, Trashed
<1>8. ASSUME Recycle PROVE Goal
  BY <1>1, <1>5, <1>6, <1>7, <1>8
  DEF Recycle, Restore, DeleteForever, EmptyOne, OfferRestore, EmptyTrash, DieEmptying,
      RestoreOffered, DropOffer, rows
<1>9. ASSUME Purge PROVE Goal
  BY <1>1, <1>7, <1>9 DEF Purge, ListExpired, DiePurging, Expire, PurgeOne, PurgeFails, rows
<1> QED
  BY <1>2, <1>3, <1>4, <1>8, <1>9 DEF Next, Organise, Extract

(* TreeInv and the rest of the invariant along every behaviour.            *)
LEMMA ShapeHolds ==
  ASSUME TreeAssumption
  PROVE  Spec => []Shape
<1> DEFINE Inv == TreeInv /\ AllBelow /\ RootsListed
<1>1. Init => Inv
  BY InitIsTree
<1>2. Inv /\ [Next]_vars => Inv'
  BY NextKeepsTree
<1>3. Inv => Shape
  BY DEF TreeInv
<1> QED
  BY <1>1, <1>2, <1>3, PTL DEF Spec

(* Empty Trash and the purge delete bundles they listed earlier, and       *)
(* never what was restored since.                                          *)
THEOREM OnlyTrashGoes ==
  ASSUME TreeAssumption
  PROVE  Spec => OnlyTrashIsRemoved
<1>1. Shape /\ [Next]_vars
      => [\A n \in Notes : state[n] = "active" => state'[n] # "gone"]_vars
  BY Lifecycle
<1> QED
  BY <1>1, ShapeHolds, PTL DEF Spec, OnlyTrashIsRemoved

(* Imports of a course that race with Trash, restore and each other leave  *)
(* it one folder.                                                          *)
THEOREM OneCourseFolder ==
  ASSUME TreeAssumption
  PROVE  Spec => []OneFolderPerCourse
<1>1. Init => OneFolderPerCourse
  BY DEF Init, OneFolderPerCourse, Active, Trashed
<1>2. Shape /\ OneFolderPerCourse /\ [Next]_vars => OneFolderPerCourse'
  <2>1. SUFFICES ASSUME Shape, OneFolderPerCourse, [Next]_vars, NEW c \in Courses, NEW d \in Courses,
                        state'[c] \in {"active", "trashed"}, state'[d] \in {"active", "trashed"}
                 PROVE  c = d
    BY DEF OneFolderPerCourse, Active, Trashed
  <2>2. c \in Notes /\ d \in Notes
    BY DEF TreeAssumption, Notes
  <2>3. state[c] \in {"active", "trashed"} /\ state[d] \in {"active", "trashed"} => c = d
    BY <2>1, <2>2 DEF OneFolderPerCourse, Active, Trashed
  <2>4. CASE UNCHANGED vars
    BY <2>1, <2>3, <2>4 DEF vars
  <2>5. CASE Next
    <3>1. ASSUME NEW x \in Courses, state'[x] \in {"active", "trashed"}
          PROVE  \/ state[x] \in {"active", "trashed"}
                 \/ ~KnownCourse /\ \A m \in Notes : m # x => state'[m] = state[m]
      <4>1. x \in Notes
        BY DEF TreeAssumption, Notes
      <4> QED
        BY <2>1, <2>5, <3>1, <4>1, Lifecycle
    <3> QED
      BY <2>1, <2>2, <2>3, <3>1 DEF KnownCourse
  <2> QED
    BY <2>1, <2>4, <2>5
<1> QED
  BY <1>1, <1>2, ShapeHolds, PTL DEF Spec

-----------------------------------------------------------------------------
(* The offers of the import dialog.                                        *)

Stamps ==
  /\ clock \in Nat /\ deletedAt \in [Notes -> Nat]
  /\ \A n \in Notes : deletedAt[n] <= clock
  /\ \A o \in offer : o.at \in Nat /\ o.at <= clock

OffersHold ==
  \A o \in offer : o.root \in TrashRoots /\ deletedAt[o.root] = o.at => Bundle(o.root) = o.notes

\* Bundles that are listed afterwards were, unchanged, or are new.
SameOrNew ==
  \A r \in TrashRoots' : \/ deletedAt'[r] = clock + 1
                         \/ r \in TrashRoots /\ deletedAt'[r] = deletedAt[r] /\ Bundle(r)' = Bundle(r)

LEMMA SameOrNewKeepsOffers ==
  ASSUME Stamps, OffersHold, SameOrNew, offer' \subseteq offer
  PROVE  OffersHold'
<1>1. SUFFICES ASSUME NEW o \in offer, o.root \in TrashRoots', deletedAt'[o.root] = o.at
               PROVE  Bundle(o.root)' = o.notes
  BY DEF OffersHold
<1>2. deletedAt'[o.root] # clock + 1
  BY <1>1 DEF Stamps
<1> QED
  BY <1>1, <1>2 DEF SameOrNew, OffersHold

(* A step that changes no row of the Trash.                                *)
LEMMA QuietIsSame ==
  ASSUME \A n \in Notes : state'[n] = "trashed" <=> state[n] = "trashed",
         \A n \in Trashed : root'[n] = root[n], deletedAt' = deletedAt
  PROVE  SameOrNew
<1>1. Notes' = Notes /\ Trashed' = Trashed
  BY DEF Notes, Trashed
<1>2. \A r : Bundle(r)' = Bundle(r)
  BY <1>1 DEF Bundle
<1>3. TrashRoots' = TrashRoots
  BY <1>1 DEF TrashRoots
<1> QED
  BY <1>2, <1>3 DEF SameOrNew

LEMMA TrashIsNew ==
  ASSUME Shape, Stamps, NEW q \in Notes, Trash(q)
  PROVE  SameOrNew
<1> DEFINE Sub == ActiveSubtree(q)
<1>1. q \in Sub /\ \A n \in Sub : state[n] = "active" /\ n \in Notes
  BY SubtreeHasRoot DEF Trash, Active
<1>2. /\ \A m \in Notes : state'[m] = (IF m \in Sub THEN "trashed" ELSE state[m])
      /\ \A m \in Notes : root'[m] = (IF m \in Sub THEN q ELSE root[m])
      /\ \A m \in Notes : deletedAt'[m] = (IF m \in Sub THEN clock + 1 ELSE deletedAt[m])
      /\ Notes' = Notes
  BY DEF Trash, Notes
<1> HIDE DEF Sub
<1>3. SUFFICES ASSUME NEW r \in Notes, state'[r] = "trashed", root'[r] = r, r \notin Sub
               PROVE  r \in TrashRoots /\ deletedAt'[r] = deletedAt[r] /\ Bundle(r)' = Bundle(r)
  BY <1>2 DEF SameOrNew, TrashRoots, Trashed
<1>4. state[r] = "trashed" /\ root[r] = r /\ deletedAt'[r] = deletedAt[r] /\ r # q
  BY <1>1, <1>2, <1>3
<1>5. \A n \in Notes : state'[n] = "trashed" /\ root'[n] = r <=> state[n] = "trashed" /\ root[n] = r
  BY <1>1, <1>2, <1>4
<1>6. Bundle(r)' = {n \in Notes : state'[n] = "trashed" /\ root'[n] = r}
  BY <1>2 DEF Bundle, Trashed
<1>7. Bundle(r) = {n \in Notes : state[n] = "trashed" /\ root[n] = r}
  BY DEF Bundle, Trashed
<1> QED
  BY <1>4, <1>5, <1>6, <1>7 DEF TrashRoots, Trashed

LEMMA ReviveIsSame ==
  ASSUME Shape, Stamps, NEW q, RestoreRoot(q)
  PROVE  SameOrNew
<1>1. /\ \A m \in Notes : state'[m] = (IF m \in Bundle(q) THEN "active" ELSE state[m])
      /\ \A m \in Notes : root'[m] = (IF m \in Bundle(q) THEN Top ELSE root[m])
      /\ \A m \in Notes : deletedAt'[m] = (IF m \in Bundle(q) THEN 0 ELSE deletedAt[m])
      /\ Notes' = Notes /\ \A m \in Notes : m \in Bundle(q) <=> state[m] = "trashed" /\ root[m] = q
  BY DEF RestoreRoot, Revive, Notes, Bundle, Trashed
<1>2. SUFFICES ASSUME NEW r \in Notes, state'[r] = "trashed", root'[r] = r
               PROVE  r \in TrashRoots /\ deletedAt'[r] = deletedAt[r] /\ Bundle(r)' = Bundle(r)
  BY <1>1 DEF SameOrNew, TrashRoots, Trashed
<1>3. r \notin Bundle(q) /\ state[r] = "trashed" /\ root[r] = r /\ r # q /\ deletedAt'[r] = deletedAt[r]
  BY <1>1, <1>2
<1>4. \A n \in Notes : state'[n] = "trashed" /\ root'[n] = r <=> state[n] = "trashed" /\ root[n] = r
  BY <1>1, <1>3
<1>5. Bundle(r)' = {n \in Notes : state'[n] = "trashed" /\ root'[n] = r}
  BY <1>1 DEF Bundle, Trashed
<1>6. Bundle(r) = {n \in Notes : state[n] = "trashed" /\ root[n] = r}
  BY DEF Bundle, Trashed
<1> QED
  BY <1>3, <1>4, <1>5, <1>6 DEF TrashRoots, Trashed

LEMMA RemoveIsSame ==
  ASSUME Shape, NEW q \in Notes, RemoveBundle(q)
  PROVE  SameOrNew
<1>1. /\ \A m \in Notes : state'[m] = (IF m \in Bundle(q) THEN "gone" ELSE state[m])
      /\ root' = root /\ deletedAt' = deletedAt
      /\ Notes' = Notes /\ \A m \in Notes : m \in Bundle(q) <=> state[m] = "trashed" /\ root[m] = q
  BY DEF RemoveBundle, Remove, Notes, Bundle, Trashed
<1>2. SUFFICES ASSUME NEW r \in Notes, state'[r] = "trashed", root[r] = r
               PROVE  r \in TrashRoots /\ Bundle(r)' = Bundle(r)
  BY <1>1 DEF SameOrNew, TrashRoots, Trashed
<1>3. r \notin Bundle(q) /\ state[r] = "trashed" /\ r # q
  BY <1>1, <1>2
<1>4. \A n \in Notes : state'[n] = "trashed" /\ root[n] = r <=> state[n] = "trashed" /\ root[n] = r
  BY <1>1, <1>3
<1>5. Bundle(r)' = {n \in Notes : state'[n] = "trashed" /\ root[n] = r}
  BY <1>1 DEF Bundle, Trashed
<1>6. Bundle(r) = {n \in Notes : state[n] = "trashed" /\ root[n] = r}
  BY DEF Bundle, Trashed
<1> QED
  BY <1>2, <1>3, <1>4, <1>5, <1>6 DEF TrashRoots, Trashed

(* Which of these a step is; only OfferRestore adds offers.                *)
LEMMA StepsAreSameOrNew ==
  ASSUME TreeAssumption, Shape, Stamps, [Next]_vars
  PROVE  /\ SameOrNew
         /\ offer' \subseteq offer \/ OfferRestore
<1> DEFINE Goal == SameOrNew /\ (offer' \subseteq offer \/ OfferRestore)
<1>1. ASSUME UNCHANGED rows PROVE SameOrNew
  BY <1>1, QuietIsSame DEF rows
<1>2. ASSUME NEW n \in Notes, NEW p \in Places, Create(n, p) \/ Move(n, p) PROVE Goal
  <2>1. \A m \in Notes : state'[m] = "trashed" <=> state[m] = "trashed"
    BY <1>2 DEF Create, Move, Insert, Shape
  <2> QED
    BY <1>2, <2>1, QuietIsSame DEF Create, Move
<1>3. ASSUME NEW c \in Courses, CourseFolder(c) PROVE Goal
  <2>1. \A m \in Notes : state'[m] = "trashed" <=> state[m] = "trashed"
    BY <1>3 DEF CourseFolder, Insert, Shape
  <2> QED
    BY <1>3, <2>1, QuietIsSame DEF CourseFolder
<1>4. ASSUME NEW f \in Files, MoveToBundle(f) PROVE Goal
  <2>1. \A m \in Notes : state'[m] = "trashed" <=> state[m] = "trashed"
    BY <1>4 DEF MoveToBundle, Shape
  <2> QED
    BY <1>4, <2>1, QuietIsSame DEF MoveToBundle
<1>5. ASSUME NEW f \in Files, BeginExtraction(f) \/ LeaveInPlace(f) PROVE Goal
  BY <1>1, <1>5 DEF BeginExtraction, LeaveInPlace
<1>6. ASSUME NEW r \in Notes, Trash(r) PROVE Goal
  BY <1>6, TrashIsNew DEF Trash
<1>7. ASSUME NEW r \in Notes, Restore(r) \/ DeleteForever(r) PROVE Goal
  BY <1>7, ReviveIsSame, RemoveIsSame DEF Restore, DeleteForever
<1>8. ASSUME NEW r \in Notes, EmptyOne(r) PROVE Goal
  BY <1>1, <1>8, RemoveIsSame DEF EmptyOne
<1>9. ASSUME OfferRestore \/ EmptyTrash \/ DieEmptying PROVE Goal
  BY <1>1, <1>9 DEF OfferRestore, EmptyTrash, DieEmptying
<1>10. ASSUME NEW o \in offer, RestoreOffered(o) \/ DropOffer(o) PROVE Goal
  BY <1>1, <1>10, ReviveIsSame DEF RestoreOffered, DropOffer
<1>11. ASSUME ListExpired \/ DiePurging PROVE Goal
  BY <1>1, <1>11 DEF ListExpired, DiePurging
<1>12. ASSUME NEW r \in Notes, Expire(r) \/ PurgeFails(r) \/ PurgeOne(r) PROVE Goal
  BY <1>1, <1>12, RemoveIsSame DEF Expire, PurgeFails, PurgeOne
<1>13. ASSUME UNCHANGED vars PROVE Goal
  BY <1>1, <1>13 DEF vars, rows
<1> QED
  BY <1>2, <1>3, <1>4, <1>5, <1>6, <1>7, <1>8, <1>9, <1>10, <1>11, <1>12, <1>13
  DEF Next, Organise, Extract, Recycle, Purge

LEMMA StepsKeepStamps ==
  ASSUME TreeAssumption, Shape, Stamps, [Next]_vars
  PROVE  Stamps'
<1>0. Notes' = Notes
  BY DEF Notes
<1>1. ASSUME UNCHANGED <<deletedAt, clock>> PROVE /\ clock' \in Nat /\ clock' = clock
                                                /\ deletedAt' \in [Notes -> Nat]
                                                /\ \A n \in Notes : deletedAt'[n] <= clock'
  BY <1>1 DEF Stamps
<1> DEFINE Goal == /\ clock' \in Nat /\ clock <= clock'
                   /\ deletedAt' \in [Notes -> Nat]
                   /\ \A n \in Notes : deletedAt'[n] <= clock'
<1>2. ASSUME UNCHANGED <<deletedAt, clock>> PROVE Goal
  BY <1>1, <1>2 DEF Stamps
<1>3. ASSUME NEW r \in Notes, Trash(r) PROVE Goal
  <2>1. /\ clock' = clock + 1
        /\ deletedAt' = [n \in Notes |-> IF n \in ActiveSubtree(r) THEN clock + 1 ELSE deletedAt[n]]
    BY <1>3 DEF Trash
  <2>2. clock' \in Nat /\ clock <= clock'
    BY <2>1 DEF Stamps
  <2>3. deletedAt' \in [Notes -> Nat]
    BY <2>1 DEF Stamps
  <2>4. \A n \in Notes : deletedAt'[n] <= clock'
    BY <2>1 DEF Stamps
  <2> QED
    BY <2>2, <2>3, <2>4
<1>4. ASSUME NEW r, RestoreRoot(r) PROVE Goal
  <2>1. /\ clock' = clock
        /\ deletedAt' = [n \in Notes |-> IF n \in Bundle(r) THEN 0 ELSE deletedAt[n]]
    BY <1>4 DEF RestoreRoot, Revive
  <2>2. deletedAt' \in [Notes -> Nat]
    BY <2>1 DEF Stamps
  <2>3. \A n \in Notes : deletedAt'[n] <= clock'
    BY <2>1 DEF Stamps
  <2> QED
    BY <2>1, <2>2, <2>3 DEF Stamps
<1>5. ASSUME Organise \/ Extract PROVE Goal
  BY <1>2, <1>5 DEF Organise, Create, Move, CourseFolder, Extract, BeginExtraction, MoveToBundle,
     LeaveInPlace, rows
<1>6. ASSUME Recycle PROVE Goal
  BY <1>2, <1>3, <1>4, <1>6 DEF Recycle, Restore, DeleteForever, EmptyOne, RemoveBundle, Remove,
     OfferRestore, EmptyTrash, DieEmptying, RestoreOffered, DropOffer, rows
<1>7. ASSUME Purge PROVE Goal
  BY <1>2, <1>7 DEF Purge, ListExpired, DiePurging, Expire, PurgeOne, PurgeFails, RemoveBundle, Remove, rows
<1>8. ASSUME UNCHANGED vars PROVE Goal
  BY <1>2, <1>8 DEF vars
<1>9. Goal
  BY <1>5, <1>6, <1>7, <1>8 DEF Next
<1>10. \A o \in offer' : o.at \in Nat /\ o.at <= clock'
  <2>1. CASE offer' \subseteq offer
    BY <1>9, <2>1 DEF Stamps
  <2>2. CASE OfferRestore
    <3>1. SUFFICES ASSUME NEW o \in offer' PROVE o.at \in Nat /\ o.at <= clock'
      OBVIOUS
    <3>2. PICK r \in TrashRoots : o = [root |-> r, at |-> deletedAt[r], notes |-> Bundle(r)]
      BY <2>2, <3>1 DEF OfferRestore
    <3>3. r \in Notes /\ clock' = clock
      BY <2>2 DEF TrashRoots, Trashed, OfferRestore
    <3> QED
      BY <3>2, <3>3 DEF Stamps
  <2> QED
    BY <2>1, <2>2, StepsAreSameOrNew
<1> QED
  BY <1>0, <1>9, <1>10 DEF Stamps

(* An offered restore brings back the bundle that was shown, although the  *)
(* same root may have been restored and trashed again since.               *)
THEOREM RestoresAreAsShown ==
  ASSUME TreeAssumption
  PROVE  Spec => ConfirmedRestore
<1>1. Init => Stamps /\ OffersHold
  BY DEF Init, Stamps, OffersHold
<1>2. Shape /\ Stamps /\ OffersHold /\ [Next]_vars => Stamps' /\ OffersHold'
  <2>1. SUFFICES ASSUME Shape, Stamps, OffersHold, [Next]_vars PROVE Stamps' /\ OffersHold'
    OBVIOUS
  <2>2. CASE offer' \subseteq offer
    BY <2>1, <2>2, StepsKeepStamps, StepsAreSameOrNew, SameOrNewKeepsOffers
  <2>3. CASE OfferRestore
    <3>1. SUFFICES ASSUME NEW o \in offer' PROVE Bundle(o.root)' = o.notes
      BY <2>1, StepsKeepStamps DEF OffersHold
    <3>2. PICK r \in TrashRoots : o = [root |-> r, at |-> deletedAt[r], notes |-> Bundle(r)]
      BY <2>3, <3>1 DEF OfferRestore
    <3>3. Bundle(r)' = Bundle(r)
      BY <2>3 DEF OfferRestore, rows, Bundle, Trashed, Notes
    <3> QED
      BY <3>2, <3>3
  <2> QED
    BY <2>1, <2>2, <2>3, StepsAreSameOrNew
<1>3. OffersHold /\ [Next]_vars
      => [\A o \in offer : RestoreOffered(o) => o.notes = Bundle(o.root)]_vars
  <2>1. ASSUME OffersHold, NEW o \in offer, RestoreOffered(o)
        PROVE  o.notes = Bundle(o.root)
    BY <2>1 DEF RestoreOffered, Confirmed, RestoreRoot, OffersHold
  <2> QED
    BY <2>1
<1> QED
  BY <1>1, <1>2, <1>3, ShapeHolds, PTL DEF Spec, ConfirmedRestore

-----------------------------------------------------------------------------
(* NoteIndex: where the vectors of a note can be.                          *)

Vectors == shown \cup hidden

\* Who is at work has a set of chunks of its own number.
Worked == \A w \in Worker : run[w].pc # "idle" => run[w].set \in ChunkSet

\* No number beyond the last one given is in use.
Numbered ==
  /\ \A set \in chunks \cup Vectors \cup journal : set[1] <= minted
  /\ \A w \in Worker : run[w].set[1] <= minted /\ \A set \in run[w].old : set[1] <= minted

\* Until it is published, nobody else has heard of a set.
Fresh ==
  \A w \in Worker : run[w].pc = "embed" =>
    /\ run[w].set \notin chunks \cup Vectors \cup journal
    /\ \A v \in Worker : run[w].set \notin run[v].old /\ (v # w => run[v].set # run[w].set)

\* Rows are deleted once their vectors are gone or written down.
Dropped == \A w \in Worker : run[w].pc = "rows" => run[w].old \cap Vectors \subseteq journal

\* Publication holds the row of a note that is active.
Fenced ==
  /\ \A w \in Worker : run[w].pc = "commit" => note.state = "active"
  /\ \A v, w \in Worker : run[v].pc = "commit" /\ run[w].pc = "commit" => v = w

IndexData == IndexTypeOK /\ Worked /\ Numbered /\ Fresh
IndexInv == IndexData /\ Dropped /\ VectorsAreAccountedFor

\* A request's update of visibility, or the daily one.
Visibility == \E r \in Request \cup {"sweep"} : ReadChunks(r) \/ SetVisibility(r) \/ DieRequest(r)

WorkerSteps(w) == Reindex(w) \/ Fails(w) \/ Die(w) \/ Stall(w)

OtherSteps ==
  Save \/ RemoveNote \/ Reconcile \/ OthersMove \/ Cleanup \/ Visibility
    \/ \E r \in Request : TrashNote(r) \/ RestoreNote(r)

\* The bounds a proof needs.
LEMMA IndexBounds ==
  /\ MaxContent \in Nat /\ MaxWrites \in Nat /\ MaxSets \in Nat /\ MaxFaults \in Nat
  /\ Batch \in Nat /\ 0 \in 0..Batch
  /\ 0 \in Content
  /\ \A set \in ChunkSet : set[1] \in 1..MaxSets /\ set[2] \in Content /\ set # NoSet
BY IndexAssumption DEF Content, ChunkSet, NoSet

\* A fault is counted within its bound.
LEMMA FaultCounts ==
  ASSUME faults \in 0..MaxFaults, NEW kind, Fault(kind)
  PROVE  faults' \in 0..MaxFaults
BY IndexBounds DEF Fault

\* What the queue does with a job.
LEMMA JobTypes ==
  ASSUME IndexTypeOK, NEW w \in Worker,
         \/ Enqueue \/ FollowUp \/ Retry(w) \/ UNCHANGED job
         \/ job' = [job EXCEPT !.waiting = FALSE] \/ job' = [waiting |-> TRUE, again |-> FALSE]
  PROVE  job' \in [waiting : BOOLEAN, again : BOOLEAN]
<1>1. job \in [waiting : BOOLEAN, again : BOOLEAN]
  BY DEF IndexTypeOK
<1>2. [job EXCEPT !.again = TRUE] \in [waiting : BOOLEAN, again : BOOLEAN]
  BY <1>1
<1>3. /\ [job EXCEPT !.waiting = TRUE] \in [waiting : BOOLEAN, again : BOOLEAN]
      /\ [job EXCEPT !.waiting = FALSE] \in [waiting : BOOLEAN, again : BOOLEAN]
  BY <1>1
<1>4. [waiting |-> job.again, again |-> FALSE] \in [waiting : BOOLEAN, again : BOOLEAN]
  BY <1>1
<1>5. [waiting |-> TRUE, again |-> FALSE] \in [waiting : BOOLEAN, again : BOOLEAN]
  OBVIOUS
<1>6. CASE Enqueue
  BY <1>2, <1>3, <1>6, Zenon DEF Enqueue
<1>7. CASE FollowUp
  BY <1>4, <1>7, Zenon DEF FollowUp
<1>8. CASE Retry(w)
  BY <1>1, <1>3, <1>8, Zenon DEF Retry
<1> QED BY <1>1, <1>3, <1>5, <1>6, <1>7, <1>8, Zenon

\* A worker's step is its own.
LEMMA RunTypes ==
  ASSUME IndexTypeOK, NEW w \in Worker, NEW r \in Run, run' = [run EXCEPT ![w] = r]
  PROVE  /\ run' \in [Worker -> Run]
         /\ \A v \in Worker : run'[v] = IF v = w THEN r ELSE run[v]
BY DEF IndexTypeOK

\* What a run may become.
LEMMA RunForms ==
  ASSUME IndexTypeOK, NEW w \in Worker
  PROVE  /\ Idle \in Run
         /\ \A pc \in Pc : [run[w] EXCEPT !.pc = pc] \in Run
         /\ \A pc \in Pc : [run[w] EXCEPT !.pc = pc, !.old = chunks] \in Run
         /\ [run[w] EXCEPT !.owns = FALSE] \in Run
<1>1. Idle \in Run
  BY IndexBounds DEF Idle, Run, Pc
<1>2. run[w] \in Run /\ chunks \subseteq ChunkSet
  BY DEF IndexTypeOK
<1> QED BY <1>1, <1>2 DEF Run

\* Going on changes nothing else of a run.
LEMMA Goes ==
  ASSUME IndexTypeOK, NEW w \in Worker, NEW pc \in Pc, Goto(w, pc)
  PROVE  run'[w].pc = pc /\ run'[w].set = run[w].set /\ run'[w].old = run[w].old
<1>1. run' = [run EXCEPT ![w] = [run[w] EXCEPT !.pc = pc]] /\ run \in [Worker -> Run]
  BY DEF Goto, IndexTypeOK
<1>2. run'[w] = [run[w] EXCEPT !.pc = pc] /\ run[w] \in Run
  BY <1>1
<1> QED BY <1>2 DEF Run

\* Where a worker's step leads: it goes on, or leaves.
WorkerMoves(w) ==
  /\ run' \in [Worker -> Run]
  /\ \A v \in Worker \ {w} : run'[v] = run[v]
  /\ \/ run'[w] = Idle
     \/ \E pc \in Pc \ {"idle"} : run'[w] = [run[w] EXCEPT !.pc = pc]
     \/ \E pc \in Pc \ {"idle"} : run'[w] = [run[w] EXCEPT !.pc = pc, !.old = chunks]
     \/ run'[w] = [run[w] EXCEPT !.owns = FALSE]

\* Every step of a worker that does not take a job moves it so.
LEMMA WorkerStepMoves ==
  ASSUME IndexTypeOK, NEW w \in Worker, WorkerSteps(w)
  PROVE  WorkerMoves(w) \/ Take(w)
<1>1. \A r \in Run : run' = [run EXCEPT ![w] = r] =>
        run' \in [Worker -> Run] /\ run'[w] = r /\ \A v \in Worker \ {w} : run'[v] = run[v]
  BY DEF IndexTypeOK
<1>2. ASSUME NEW pc \in Pc \ {"idle"}, Goto(w, pc) PROVE WorkerMoves(w)
  <2>1. run' = [run EXCEPT ![w] = [run[w] EXCEPT !.pc = pc]]
    BY <1>2 DEF Goto
  <2> QED BY <1>1, <2>1, RunForms DEF WorkerMoves
<1>3. ASSUME Leave(w) PROVE WorkerMoves(w)
  BY <1>1, <1>3, RunForms DEF Leave, WorkerMoves
<1>4. ASSUME NEW pc \in Pc \ {"idle"}, run' = [run EXCEPT ![w].pc = pc, ![w].old = chunks]
      PROVE  WorkerMoves(w)
  <2>1. run' = [run EXCEPT ![w] = [run[w] EXCEPT !.pc = pc, !.old = chunks]]
    BY <1>4 DEF IndexTypeOK
  <2> QED BY <1>1, <2>1, RunForms DEF WorkerMoves
<1>5. ASSUME run' = [run EXCEPT ![w].owns = FALSE] PROVE WorkerMoves(w)
  BY <1>1, <1>5, RunForms DEF WorkerMoves
<1>6. CASE Open(w)
  BY <1>2, <1>4, <1>6 DEF Open, Pc
<1>7. CASE Commit(w) \/ Check(w) \/ Hide(w) \/ DropVectors(w) \/ DropRows(w)
  BY <1>2, <1>7 DEF Commit, Check, Hide, DropVectors, DropRows, Pc
<1>8. CASE UndoVectors(w) \/ Stamp(w) \/ Fails(w) \/ Die(w)
  BY <1>3, <1>8 DEF UndoVectors, Stamp, Fails, Die, Throw, Return
<1>9. CASE Stall(w)
  BY <1>5, <1>9 DEF Stall
<1> QED BY <1>6, <1>7, <1>8, <1>9 DEF WorkerSteps, Reindex

\* The first look at the note gives a set of a new number.
LEMMA TakeMoves ==
  ASSUME IndexTypeOK, NEW w \in Worker, Take(w)
  PROVE  \/ run' = run /\ minted' = minted
         \/ /\ run' \in [Worker -> Run] /\ minted' \in 0..MaxSets /\ minted' = minted + 1
            /\ \A v \in Worker \ {w} : run'[v] = run[v]
            /\ run'[w] = [pc |-> "embed", set |-> <<minted + 1, note.content>>,
                          stamp |-> note.stamp, old |-> {}, owns |-> TRUE]
            /\ run'[w].set \in ChunkSet /\ run'[w].set[1] = minted + 1
<1> DEFINE new == [pc |-> "embed", set |-> <<minted + 1, note.content>>,
                   stamp |-> note.stamp, old |-> {}, owns |-> TRUE]
<1>1. CASE minted < MaxSets
  <2>1. note.content \in Content /\ note.stamp \in 0..MaxWrites
    BY DEF IndexTypeOK, NoteRow
  <2>2. minted + 1 \in 1..MaxSets /\ minted + 1 \in 0..MaxSets
    BY <1>1, IndexBounds DEF IndexTypeOK
  <2>3. <<minted + 1, note.content>> \in ChunkSet
    BY <2>1, <2>2 DEF ChunkSet
  <2>4. new \in Run
    <3>1. "embed" \in Pc /\ {} \in SUBSET ChunkSet
      BY DEF Pc
    <3> QED BY <2>1, <2>3, <3>1 DEF Run
  <2>5. \/ run' = run /\ minted' = minted
        \/ run' = [run EXCEPT ![w] = new] /\ minted' = minted + 1
    BY DEF Take
  <2>6. new.set = <<minted + 1, note.content>> /\ <<minted + 1, note.content>>[1] = minted + 1
    OBVIOUS
  <2> HIDE DEF new
  <2>7. CASE run' = [run EXCEPT ![w] = new] /\ minted' = minted + 1
    <3>1. run' \in [Worker -> Run] /\ run'[w] = new /\ \A v \in Worker \ {w} : run'[v] = run[v]
      BY <2>4, <2>7, RunTypes
    <3> QED BY <2>2, <2>3, <2>6, <2>7, <3>1 DEF new
  <2> QED BY <2>5, <2>7
<1>2. CASE ~(minted < MaxSets)
  BY <1>2 DEF Take
<1> QED BY <1>1, <1>2

\* Reading or changing the sets of vectors keeps them apart.
LEMMA VectorTypes ==
  ASSUME IndexTypeOK, NEW sets \in SUBSET ChunkSet,
         \/ Delete(sets)
         \/ \E value \in BOOLEAN : TrySetSearchable(sets, value)
  PROVE  /\ shown' \subseteq ChunkSet /\ hidden' \subseteq ChunkSet /\ shown' \cap hidden' = {}
         /\ faults' \in 0..MaxFaults
         /\ Delete(sets) => journal' \subseteq ChunkSet
BY IndexBounds DEF IndexTypeOK, Delete, TrySetSearchable, SetSearchable, Fault

\* What a worker's step does to the types.
LEMMA WorkerTypes ==
  ASSUME IndexTypeOK, Worked, Fresh, NEW w \in Worker, WorkerSteps(w)
  PROVE  IndexTypeOK'
<1> USE DEF IndexTypeOK
<1>1. WorkerMoves(w) => run' \in [Worker -> Run]
  BY DEF WorkerMoves
<1>2. run[w].pc # "idle" => run[w].set \in ChunkSet /\ {run[w].set} \in SUBSET ChunkSet
  BY DEF Worked
<1>3. run[w].old \in SUBSET ChunkSet /\ run[w].owns \in BOOLEAN
  BY DEF Run
<1>4. run[w].pc = "embed" => run[w].set \notin hidden
  BY DEF Fresh, Vectors
<1>5. WorkerMoves(w) \/ Take(w)
  BY WorkerStepMoves
<1>6. CASE Take(w)
  <2>1. job' \in [waiting : BOOLEAN, again : BOOLEAN]
    BY <1>6, JobTypes DEF Take
  <2>2. run' \in [Worker -> Run] /\ minted' \in 0..MaxSets
    BY <1>6, TakeMoves
  <2> QED BY <1>6, <2>1, <2>2 DEF Take
<1>7. CASE Fails(w)
  <2>1. job' \in [waiting : BOOLEAN, again : BOOLEAN]
    BY <1>7, JobTypes DEF Fails, Throw
  <2>2. run' \in [Worker -> Run] /\ faults' \in 0..MaxFaults
    BY <1>5, <1>1, <1>7, FaultCounts, RunForms DEF Fails, Throw, Leave
  <2> QED BY <1>7, <2>1, <2>2 DEF Fails
<1>8. CASE Open(w)
  <2>1. run' \in [Worker -> Run]
    BY <1>1, <1>5, <1>6, <1>8
  <2>2. faults' \in 0..MaxFaults
    BY <1>8, FaultCounts DEF Open
  <2>3. shown' \subseteq ChunkSet /\ shown' \cap hidden = {}
    BY <1>2, <1>4, <1>8 DEF Open
  <2> QED BY <1>8, <2>1, <2>2, <2>3 DEF Open
<1>9. CASE Commit(w)
  <2>1. run' \in [Worker -> Run] /\ faults' \in 0..MaxFaults
    BY <1>1, <1>5, <1>6, <1>9, FaultCounts DEF Commit
  <2>2. chunks' \subseteq ChunkSet
    BY <1>2, <1>9 DEF Commit
  <2> QED BY <1>9, <2>1, <2>2 DEF Commit
<1>10. CASE UndoVectors(w)
  <2>1. job' \in [waiting : BOOLEAN, again : BOOLEAN]
    BY <1>10, JobTypes DEF UndoVectors, Throw
  <2>2. run' \in [Worker -> Run]
    BY <1>1, <1>5, <1>6, <1>10
  <2> QED BY <1>2, <1>10, <2>1, <2>2, VectorTypes DEF UndoVectors
<1>11. CASE Check(w)
  BY <1>1, <1>5, <1>6, <1>11 DEF Check
<1>12. CASE Hide(w)
  <2>1. run' \in [Worker -> Run]
    BY <1>1, <1>5, <1>6, <1>12
  <2> QED BY <1>2, <1>12, <2>1, VectorTypes DEF Hide
<1>13. CASE DropVectors(w)
  <2>1. run' \in [Worker -> Run]
    BY <1>1, <1>5, <1>6, <1>13
  <2> QED BY <1>3, <1>13, <2>1, VectorTypes DEF DropVectors
<1>14. CASE DropRows(w)
  BY <1>1, <1>5, <1>6, <1>14 DEF DropRows
<1>15. CASE Stamp(w)
  <2>1. job' \in [waiting : BOOLEAN, again : BOOLEAN]
    BY <1>15, JobTypes DEF Stamp, Return, Throw
  <2>2. run' \in [Worker -> Run] /\ faults' \in 0..MaxFaults
    BY <1>1, <1>5, <1>6, <1>15, FaultCounts DEF Stamp
  <2>3. ContentOf(run[w].set) \in Content
    BY <1>2, <1>15, IndexBounds DEF Stamp, ContentOf
  <2>4. note' \in NoteRow
    BY <1>15, <2>3 DEF Stamp, NoteRow
  <2> QED BY <1>15, <2>1, <2>2, <2>4 DEF Stamp
<1>16. CASE Die(w)
  <2>1. job' \in [waiting : BOOLEAN, again : BOOLEAN]
    BY <1>16, JobTypes DEF Die, Throw
  <2>2. run' \in [Worker -> Run] /\ faults' \in 0..MaxFaults
    BY <1>1, <1>5, <1>6, <1>16, FaultCounts DEF Die
  <2> QED BY <1>16, <2>1, <2>2 DEF Die
<1>17. CASE Stall(w)
  <2>1. job' \in [waiting : BOOLEAN, again : BOOLEAN]
    BY <1>17, JobTypes DEF Stall
  <2>2. run' \in [Worker -> Run] /\ faults' \in 0..MaxFaults
    BY <1>1, <1>5, <1>6, <1>17, FaultCounts DEF Stall
  <2> QED BY <1>17, <2>1, <2>2 DEF Stall
<1> QED BY <1>6, <1>7, <1>8, <1>9, <1>10, <1>11, <1>12, <1>13, <1>14, <1>15, <1>16, <1>17
    DEF WorkerSteps, Reindex

\* What the other steps do to the types.
LEMMA OtherTypes ==
  ASSUME IndexTypeOK, OtherSteps
  PROVE  IndexTypeOK'
<1> USE DEF IndexTypeOK
<1>1. CASE Save
  <2>1. job' \in [waiting : BOOLEAN, again : BOOLEAN]
    BY <1>1 DEF Save, Enqueue
  <2>2. faults' \in 0..MaxFaults
    BY <1>1, FaultCounts DEF Save
  <2>3. note.stamp + 1 \in 0..MaxWrites
    BY <1>1, IndexBounds DEF Save, Write, NoteRow
  <2>4. note' \in NoteRow
    BY <1>1, <2>3 DEF Save, NoteRow
  <2> QED BY <1>1, <2>1, <2>2, <2>4 DEF Save
<1>2. ASSUME NEW r \in Request, TrashNote(r) \/ RestoreNote(r) PROVE IndexTypeOK'
  <2>1. PICK from, to \in {"active", "trashed"} : MoveNote(r, from, to)
    BY <1>2 DEF TrashNote, RestoreNote
  <2>2. note.stamp + 1 \in 0..MaxWrites
    BY <2>1, IndexBounds DEF MoveNote, Write, NoteRow
  <2>5. PICK n \in 0..Batch : note' = [note EXCEPT !.state = to, !.stamp = @ + 1, !.ahead = n]
    BY <2>1, IndexBounds DEF MoveNote
  <2>3. note' \in NoteRow
    BY <2>2, <2>5 DEF NoteRow
  <2>4. [NoCall EXCEPT !.pc = "read", !.value = (to = "active")] \in Call
    BY DEF NoCall, Call
  <2> QED BY <2>1, <2>3, <2>4 DEF MoveNote
<1>3. ASSUME NEW r \in Request \cup {"sweep"}, ReadChunks(r) \/ SetVisibility(r) \/ DieRequest(r)
      PROVE  IndexTypeOK'
  <2>1. call[r] \in Call /\ NoCall \in Call
    BY DEF Call, NoCall
  <2>2. CASE ReadChunks(r)
    <3>1. [call[r] EXCEPT !.pc = "set", !.sets = chunks] \in Call
      BY <2>1 DEF Call
    <3>2. call' = [call EXCEPT ![r] = [call[r] EXCEPT !.pc = "set", !.sets = chunks]]
      BY <2>2 DEF ReadChunks
    <3> QED BY <2>2, <3>1, <3>2 DEF ReadChunks
  <2>3. CASE SetVisibility(r)
    <3>1. call[r].sets \in SUBSET ChunkSet /\ call[r].value \in BOOLEAN
      BY <2>1 DEF Call
    <3>2. TrySetSearchable(call[r].sets, call[r].value)
      BY <2>3 DEF SetVisibility
    <3>3. \E value \in BOOLEAN : TrySetSearchable(call[r].sets, value)
      BY <3>1, <3>2, Zenon
    <3>4. /\ shown' \subseteq ChunkSet /\ hidden' \subseteq ChunkSet /\ shown' \cap hidden' = {}
          /\ faults' \in 0..MaxFaults
      BY <3>1, <3>3, VectorTypes
    <3> QED BY <2>1, <2>3, <3>4 DEF SetVisibility
  <2>4. CASE DieRequest(r)
    BY <2>1, <2>4, FaultCounts DEF DieRequest
  <2> QED BY <1>3, <2>2, <2>3, <2>4
<1>4. CASE RemoveNote
  <2>1. note' \in NoteRow
    BY <1>4, IndexBounds DEF RemoveNote, NoteRow
  <2> QED BY <1>4, <2>1 DEF RemoveNote
<1>5. CASE Reconcile
  <2>1. PICK sets \in SUBSET chunks :
          call' = [call EXCEPT !["sweep"] = [pc |-> "set", value |-> FALSE, sets |-> sets]]
    BY <1>5 DEF Reconcile
  <2>2. [pc |-> "set", value |-> FALSE, sets |-> sets] \in Call
    BY DEF Call
  <2> QED BY <1>5, <2>1, <2>2 DEF Reconcile
<1>7. CASE OthersMove
  <2>1. PICK n \in 0..Batch : note' = [note EXCEPT !.ahead = n]
    BY <1>7 DEF OthersMove
  <2>2. note' \in NoteRow
    BY <2>1 DEF NoteRow
  <2> QED BY <1>7, <2>2 DEF OthersMove
<1>6. CASE Cleanup
  BY <1>6, FaultCounts DEF Cleanup
<1> QED BY <1>1, <1>2, <1>3, <1>4, <1>5, <1>6, <1>7 DEF OtherSteps, Visibility

-----------------------------------------------------------------------------
(* The invariant.                                                          *)

\* What a step of one worker may do to the sets: it adds and publishes only its own, and
\* writes down only its own or the ones it replaces.
WorkerSets(w) ==
  /\ chunks' \subseteq chunks \cup {run[w].set}
  /\ Vectors' \subseteq Vectors \cup {run[w].set}
  /\ journal \subseteq journal' /\ journal' \subseteq journal \cup {run[w].set} \cup run[w].old
  /\ run[w].pc \in {"idle", "embed"} => chunks' = chunks /\ journal' = journal
  /\ Vectors' \subseteq Vectors \/ (run[w].pc = "embed" /\ run'[w].pc \in {"commit", "undo"})

LEMMA WorkerStepSets ==
  ASSUME IndexTypeOK, NEW w \in Worker, WorkerSteps(w)
  PROVE  WorkerSets(w)
<1>1. \A pc \in Pc : Goto(w, pc) => run'[w].pc = pc
  BY Goes
<1> USE DEF WorkerSets, Vectors
<1>2. CASE Take(w) \/ Fails(w) \/ Die(w) \/ Stall(w) \/ Check(w) \/ Stamp(w)
  BY <1>2 DEF Take, Fails, Die, Stall, Check, Stamp
<1>3. CASE Open(w)
  <2>1. run' = [run EXCEPT ![w].pc = "commit", ![w].old = chunks] => run'[w].pc = "commit"
    BY DEF IndexTypeOK, Run
  <2>2. Goto(w, "undo") => run'[w].pc = "undo"
    BY <1>1 DEF Pc
  <2> QED BY <1>3, <2>1, <2>2 DEF Open
<1>4. CASE Commit(w) \/ DropRows(w)
  BY <1>4 DEF Commit, DropRows
<1>5. CASE UndoVectors(w)
  BY <1>5 DEF UndoVectors, Delete
<1>6. CASE Hide(w)
  BY <1>6 DEF Hide, TrySetSearchable, SetSearchable
<1>7. CASE DropVectors(w)
  BY <1>7 DEF DropVectors, Delete
<1> QED BY <1>2, <1>3, <1>4, <1>5, <1>6, <1>7 DEF WorkerSteps, Reindex

\* Nobody else adds a set, publishes one, or writes one down that is not in the table; what
\* leaves the table is written down, what is struck off the journal has no vectors.
OtherSets ==
  /\ run' = run /\ minted' = minted
  /\ chunks' \subseteq chunks /\ Vectors' \subseteq Vectors /\ journal' \subseteq journal \cup chunks
  /\ chunks \subseteq chunks' \cup journal'
  /\ journal \cap Vectors' \subseteq journal'

LEMMA OtherStepSets ==
  ASSUME IndexTypeOK, OtherSteps
  PROVE  OtherSets
<1> USE DEF OtherSets, Vectors
<1>1. CASE Save \/ RemoveNote \/ Reconcile \/ OthersMove
  BY <1>1 DEF Save, RemoveNote, Reconcile, OthersMove
<1>2. CASE Cleanup
  BY <1>2 DEF Cleanup
<1>3. CASE Visibility
  BY <1>3 DEF Visibility, ReadChunks, SetVisibility, DieRequest, TrySetSearchable, SetSearchable
<1>4. ASSUME NEW r \in Request, TrashNote(r) \/ RestoreNote(r) PROVE OtherSets
  BY <1>4 DEF TrashNote, RestoreNote, MoveNote
<1> QED BY <1>1, <1>2, <1>3, <1>4 DEF OtherSteps

\* Where the sets of the workers are after a step of one of them.
LEMMA WorkerMovesSets ==
  ASSUME IndexTypeOK, NEW w \in Worker, WorkerMoves(w)
  PROVE  /\ run'[w].set = run[w].set \/ (run'[w].set = NoSet /\ run'[w].pc = "idle")
         /\ run'[w].old = run[w].old \/ run'[w].old = chunks \/ run'[w].old = {}
         /\ run'[w].pc # "idle" => run'[w].set = run[w].set
<1>1. run[w] \in Run
  BY DEF IndexTypeOK
<1>2. CASE run'[w] = Idle
  BY <1>2 DEF Idle
<1>3. CASE \E pc \in Pc \ {"idle"} : run'[w] = [run[w] EXCEPT !.pc = pc]
  BY <1>1, <1>3 DEF Run
<1>4. CASE \E pc \in Pc \ {"idle"} : run'[w] = [run[w] EXCEPT !.pc = pc, !.old = chunks]
  BY <1>1, <1>4 DEF Run
<1>5. CASE run'[w] = [run[w] EXCEPT !.owns = FALSE]
  BY <1>1, <1>5 DEF Run
<1> QED BY <1>2, <1>3, <1>4, <1>5 DEF WorkerMoves

\* Nobody enters embedding but by taking a job.
LEMMA OnlyTakeEmbeds ==
  ASSUME IndexTypeOK, NEW w \in Worker, WorkerSteps(w), run'[w].pc = "embed"
  PROVE  \/ Take(w)
         \/ Stall(w) /\ run[w].pc = "embed" /\ run'[w].set = run[w].set
<1>1. \A pc \in Pc : Goto(w, pc) => run'[w].pc = pc
  BY Goes
<1>2. Leave(w) => run'[w].pc = "idle"
  BY DEF Leave, IndexTypeOK, Idle
<1>3. run' = [run EXCEPT ![w].pc = "commit", ![w].old = chunks] => run'[w].pc = "commit"
  BY DEF IndexTypeOK, Run
<1>4. run' = [run EXCEPT ![w].pc = "vectors", ![w].old = chunks] => run'[w].pc = "vectors"
  BY DEF IndexTypeOK, Run
<1>5. ~Open(w)
  BY <1>1, <1>3, <1>4 DEF Open, Pc
<1>6. ~(Commit(w) \/ Check(w) \/ Hide(w) \/ DropVectors(w) \/ DropRows(w))
  BY <1>1 DEF Commit, Check, Hide, DropVectors, DropRows, Pc
<1>7. ~(UndoVectors(w) \/ Stamp(w) \/ Fails(w) \/ Die(w))
  BY <1>2 DEF UndoVectors, Stamp, Fails, Die, Throw, Return
<1>8. Stall(w) => run[w].pc = "embed" /\ run'[w].set = run[w].set
  BY DEF Stall, IndexTypeOK, Run
<1> QED BY <1>5, <1>6, <1>7, <1>8 DEF WorkerSteps, Reindex

\* An idle worker can only take a job.
LEMMA IdleTakes ==
  ASSUME NEW w \in Worker, WorkerSteps(w), run[w].pc = "idle"
  PROVE  Take(w)
BY DEF WorkerSteps, Reindex, Fails, Die, Stall, Open, Commit, UndoVectors, Check, Hide,
   DropVectors, DropRows, Stamp

\* A worker's step keeps the numbers in use, and what is fresh.
LEMMA WorkerData ==
  ASSUME IndexData, NEW w \in Worker, WorkerSteps(w)
  PROVE  IndexData'
<1> USE DEF IndexData
<1>1. IndexTypeOK'
  BY WorkerTypes
<1>2. WorkerSets(w) /\ (WorkerMoves(w) \/ Take(w))
  BY WorkerStepSets, WorkerStepMoves
<1>3. CASE Take(w)
  <2>1. chunks' = chunks /\ Vectors' = Vectors /\ journal' = journal
    BY <1>3 DEF Take, Vectors
  <2>2. CASE run' = run /\ minted' = minted
    BY <1>1, <2>1, <2>2 DEF Worked, Numbered, Fresh
  <2>3. CASE ~(run' = run /\ minted' = minted)
    <3>1. /\ minted' = minted + 1 /\ minted \in Nat
          /\ \A v \in Worker \ {w} : run'[v] = run[v]
          /\ run'[w].old = {} /\ run'[w].set \in ChunkSet /\ run'[w].set[1] = minted + 1
      BY <1>3, <2>3, TakeMoves DEF IndexTypeOK
    <3>2. Worked'
      BY <3>1 DEF Worked
    <3>3. Numbered'
      <4>1. \A set \in chunks \cup Vectors \cup journal : set[1] \in Nat
        BY IndexBounds DEF IndexTypeOK, Vectors
      <4>2. \A v \in Worker : run[v].set[1] \in Nat /\ \A set \in run[v].old : set[1] \in Nat
        BY IndexBounds DEF IndexTypeOK, Run, NoSet
      <4> QED BY <2>1, <3>1, <4>1, <4>2 DEF Numbered
    <3>4. ~(run'[w].set[1] <= minted)
      BY <3>1
    <3>5. Fresh'
      BY <2>1, <3>1, <3>4 DEF Fresh, Numbered
    <3> QED BY <1>1, <3>2, <3>3, <3>5
  <2> QED BY <2>2, <2>3
<1>4. CASE WorkerMoves(w) /\ ~Take(w)
  <2>1. minted' = minted
    BY <1>4 DEF WorkerSteps, Reindex, Fails, Die, Stall, Open, Commit, UndoVectors, Check, Hide,
       DropVectors, DropRows, Stamp
  <2>2. /\ \A v \in Worker \ {w} : run'[v] = run[v]
        /\ run'[w].set = run[w].set \/ (run'[w].set = NoSet /\ run'[w].pc = "idle")
        /\ run'[w].old = run[w].old \/ run'[w].old = chunks \/ run'[w].old = {}
        /\ run'[w].pc # "idle" => run'[w].set = run[w].set
    BY <1>4, WorkerMovesSets DEF WorkerMoves
  <2>3. Worked'
    <3>1. run'[w].pc # "idle" => run[w].pc # "idle"
      BY <1>4, IdleTakes
    <3> QED BY <2>2, <3>1 DEF Worked
  <2>4. Numbered'
    <3>1. NoSet[1] <= minted
      BY DEF NoSet, IndexTypeOK
    <3> QED BY <1>2, <2>1, <2>2, <3>1 DEF Numbered, WorkerSets
  <2>5. Fresh'
    <3>1. ASSUME NEW v \in Worker \ {w}, run'[v].pc = "embed"
          PROVE  /\ run'[v].set \notin chunks' \cup Vectors' \cup journal'
                 /\ \A u \in Worker : run'[v].set \notin run'[u].old
                                        /\ (u # v => run'[u].set # run'[v].set)
      <4>1. run'[v] = run[v] /\ run[v].pc = "embed" /\ run[v].set # NoSet
        BY <2>2, <3>1, IndexBounds DEF Worked
      <4> QED BY <1>2, <2>2, <4>1 DEF Fresh, WorkerSets
    <3>2. ASSUME run'[w].pc = "embed"
          PROVE  /\ run'[w].set \notin chunks' \cup Vectors' \cup journal'
                 /\ \A u \in Worker : run'[w].set \notin run'[u].old
                                        /\ (u # w => run'[u].set # run'[w].set)
      <4>1. Stall(w) /\ run[w].pc = "embed" /\ run'[w].set = run[w].set
        BY <1>4, <3>2, OnlyTakeEmbeds
      <4>2. chunks' = chunks /\ journal' = journal /\ Vectors' = Vectors
        BY <4>1 DEF Stall, Vectors
      <4> QED BY <2>2, <4>1, <4>2 DEF Fresh
    <3> QED BY <3>1, <3>2 DEF Fresh
  <2> QED BY <1>1, <2>3, <2>4, <2>5
<1> QED BY <1>2, <1>3, <1>4

\* So do the others.
LEMMA OtherData ==
  ASSUME IndexData, OtherSteps
  PROVE  IndexData'
<1>1. OtherSets
  BY OtherStepSets DEF IndexData
<1> QED BY <1>1, OtherTypes DEF IndexData, OtherSets, Worked, Numbered, Fresh

\* Nobody enters the publication but by opening it.
LEMMA OnlyOpenCommits ==
  ASSUME IndexTypeOK, NEW w \in Worker, WorkerSteps(w), run'[w].pc = "commit"
  PROVE  \/ run[w].pc = "commit"
         \/ Unlocked /\ note.state = "active"
<1>1. \A pc \in Pc : Goto(w, pc) => run'[w].pc = pc
  BY Goes
<1>2. Leave(w) => run'[w].pc = "idle"
  BY DEF Leave, IndexTypeOK, Idle
<1>3. run' = [run EXCEPT ![w].pc = "vectors", ![w].old = chunks] => run'[w].pc = "vectors"
  BY DEF IndexTypeOK, Run
<1>4. CASE Open(w)
  BY <1>1, <1>3, <1>4 DEF Open, Pc
<1>5. ~(Commit(w) \/ Check(w) \/ Hide(w) \/ DropVectors(w) \/ DropRows(w))
  BY <1>1 DEF Commit, Check, Hide, DropVectors, DropRows, Pc
<1>6. ~(UndoVectors(w) \/ Stamp(w) \/ Fails(w) \/ Die(w))
  BY <1>2 DEF UndoVectors, Stamp, Fails, Die, Throw, Return
<1>7. Stall(w) => run[w].pc = "commit"
  BY DEF Stall, IndexTypeOK, Run
<1>8. Take(w) => run' = run \/ run'[w].pc = "embed"
  BY TakeMoves
<1> QED BY <1>4, <1>5, <1>6, <1>7, <1>8 DEF WorkerSteps, Reindex

\* A worker enters the deletion of the rows from that of the vectors.
LEMMA OnlyDropVectorsDrops ==
  ASSUME IndexTypeOK, NEW w \in Worker, WorkerSteps(w), run'[w].pc = "rows"
  PROVE  /\ run'[w].old = run[w].old
         /\ DropVectors(w) \/ (Stall(w) /\ run[w].pc = "rows")
               \/ (Take(w) /\ run' = run)
<1>1. \A pc \in Pc : Goto(w, pc) => run'[w].pc = pc
  BY Goes
<1>2. Leave(w) => run'[w].pc = "idle"
  BY DEF Leave, IndexTypeOK, Idle
<1>3. run' = [run EXCEPT ![w].pc = "commit", ![w].old = chunks] => run'[w].pc = "commit"
  BY DEF IndexTypeOK, Run
<1>4. run' = [run EXCEPT ![w].pc = "vectors", ![w].old = chunks] => run'[w].pc = "vectors"
  BY DEF IndexTypeOK, Run
<1>5. ~Open(w)
  BY <1>1, <1>3, <1>4 DEF Open, Pc
<1>6. ~(Commit(w) \/ Check(w) \/ Hide(w) \/ DropRows(w))
  BY <1>1 DEF Commit, Check, Hide, DropRows, Pc
<1>7. ~(UndoVectors(w) \/ Stamp(w) \/ Fails(w) \/ Die(w))
  BY <1>2 DEF UndoVectors, Stamp, Fails, Die, Throw, Return
<1>8. Stall(w) => run[w].pc = "rows" /\ run'[w].old = run[w].old
  BY DEF Stall, IndexTypeOK, Run
<1>9. DropVectors(w) => run'[w].old = run[w].old
  BY Goes DEF DropVectors, Pc
<1>10. Take(w) => run' = run
  BY TakeMoves
<1> QED BY <1>5, <1>6, <1>7, <1>8, <1>9, <1>10 DEF WorkerSteps, Reindex

\* A worker's step keeps what may be dropped written down.
LEMMA WorkerDropped ==
  ASSUME IndexData, Dropped, NEW w \in Worker, WorkerSteps(w)
  PROVE  Dropped'
<1> USE DEF IndexData
<1>1. WorkerSets(w) /\ (WorkerMoves(w) \/ Take(w))
  BY WorkerStepSets, WorkerStepMoves
<1>2. ASSUME NEW v \in Worker \ {w}, run'[v].pc = "rows"
      PROVE  run'[v].old \cap Vectors' \subseteq journal'
  <2>1. run'[v] = run[v]
    BY <1>1, TakeMoves DEF WorkerMoves
  <2>2. run[v].old \cap Vectors \subseteq journal
    BY <1>2, <2>1 DEF Dropped
  <2>3. run[w].pc = "embed" => run[w].set \notin run[v].old
    BY DEF Fresh
  <2> QED BY <1>1, <2>1, <2>2, <2>3 DEF WorkerSets
<1>3. ASSUME run'[w].pc = "rows"
      PROVE  run'[w].old \cap Vectors' \subseteq journal'
  <2>1. /\ run'[w].old = run[w].old
        /\ DropVectors(w) \/ (Stall(w) /\ run[w].pc = "rows")
              \/ (Take(w) /\ run' = run)
    BY <1>3, OnlyDropVectorsDrops
  <2>2. CASE DropVectors(w)
    BY <2>1, <2>2 DEF DropVectors, Delete, Vectors
  <2>3. CASE Stall(w) /\ run[w].pc = "rows"
    BY <2>1, <2>3 DEF Stall, Dropped, Vectors
  <2>4. CASE Take(w) /\ run' = run
    BY <1>3, <2>1, <2>4 DEF Take, Dropped, Vectors
  <2> QED BY <2>1, <2>2, <2>3, <2>4
<1> QED BY <1>2, <1>3 DEF Dropped

\* A row leaves the table only when it is dropped.
LEMMA RowsLeave ==
  ASSUME NEW w \in Worker, WorkerSteps(w)
  PROVE  chunks \subseteq chunks' \/ (run[w].pc = "rows" /\ chunks \subseteq chunks' \cup run[w].old)
BY DEF WorkerSteps, Reindex, Take, Fails, Die, Stall, Open, Commit, UndoVectors, Check, Hide,
   DropVectors, DropRows, Stamp

\* A publication ends with its set in the table, in the journal, or without vectors, unless
\* its worker dies.
LEMMA PublicationEnds ==
  ASSUME IndexTypeOK, "torn" \notin Faults, NEW w \in Worker, WorkerSteps(w),
         run[w].pc \in {"commit", "undo"}
  PROVE  \/ run'[w].set = run[w].set /\ run'[w].pc \in {"commit", "undo"}
         \/ run[w].set \in chunks' \cup journal'
         \/ run[w].set \notin Vectors'
<1>1. ~Die(w)
  BY DEF Die, Fault
<1>2. ~(Take(w) \/ Open(w) \/ Check(w) \/ Hide(w) \/ DropVectors(w) \/ DropRows(w) \/ Stamp(w)
          \/ Fails(w))
  BY DEF Take, Open, Check, Hide, DropVectors, DropRows, Stamp, Fails
<1>3. Stall(w) => run'[w].set = run[w].set /\ run'[w].pc = run[w].pc
  BY DEF Stall, IndexTypeOK, Run
<1>4. Goto(w, "undo") => run'[w].set = run[w].set /\ run'[w].pc = "undo"
  BY Goes DEF Pc
<1>5. CASE Commit(w)
  BY <1>4, <1>5 DEF Commit
<1>6. CASE UndoVectors(w)
  BY <1>6 DEF UndoVectors, Delete, Vectors
<1> QED BY <1>1, <1>2, <1>3, <1>5, <1>6 DEF WorkerSteps, Reindex

\* So a worker's step leaves no vectors behind.
LEMMA WorkerAccounts ==
  ASSUME IndexInv, "torn" \notin Faults, NEW w \in Worker, WorkerSteps(w)
  PROVE  VectorsAreAccountedFor'
<1> USE DEF IndexInv, IndexData
<1>1. WorkerSets(w) /\ (WorkerMoves(w) \/ Take(w))
  BY WorkerStepSets, WorkerStepMoves
<1>2. \A v \in Worker \ {w} : run'[v] = run[v]
  BY <1>1, TakeMoves DEF WorkerMoves
<1> SUFFICES ASSUME NEW set \in Vectors' \ (chunks' \cup journal')
             PROVE  \E v \in Worker : run'[v].set = set /\ run'[v].pc \in {"commit", "undo"}
  BY DEF VectorsAreAccountedFor, Vectors
<1>3. CASE set \notin Vectors
  <2>1. set = run[w].set /\ run[w].pc = "embed" /\ run'[w].pc \in {"commit", "undo"}
    BY <1>1, <1>3 DEF WorkerSets
  <2>2. ~Take(w)
    BY <2>1 DEF Take
  <2>3. run'[w].set = run[w].set
    BY <1>1, <2>1, <2>2, WorkerMovesSets
  <2> QED BY <2>1, <2>3
<1>4. CASE set \in Vectors
  <2>1. set \notin journal
    BY <1>1 DEF WorkerSets
  <2>2. set \notin chunks
    <3>1. ~(run[w].pc = "rows" /\ set \in run[w].old)
      BY <1>4, <2>1 DEF Dropped
    <3> QED BY <3>1, RowsLeave
  <2>3. PICK v \in Worker : run[v].set = set /\ run[v].pc \in {"commit", "undo"}
    BY <1>4, <2>1, <2>2 DEF VectorsAreAccountedFor, Vectors
  <2>4. CASE v = w
    BY <2>3, <2>4, PublicationEnds
  <2>5. CASE v # w
    BY <1>2, <2>3, <2>5
  <2> QED BY <2>4, <2>5
<1> QED BY <1>3, <1>4

\* Nor does anybody else's.
LEMMA OtherAccounts ==
  ASSUME IndexInv, OtherSteps
  PROVE  Dropped' /\ VectorsAreAccountedFor'
<1>1. OtherSets
  BY OtherStepSets DEF IndexInv, IndexData
<1>2. Dropped'
  BY <1>1 DEF OtherSets, Dropped, IndexInv
<1>3. VectorsAreAccountedFor'
  <2> SUFFICES ASSUME NEW set \in Vectors' \ (chunks' \cup journal')
               PROVE  \E v \in Worker : run'[v].set = set /\ run'[v].pc \in {"commit", "undo"}
    BY DEF VectorsAreAccountedFor, Vectors
  <2>1. set \in Vectors /\ set \notin chunks /\ set \notin journal
    BY <1>1 DEF OtherSets
  <2>2. PICK v \in Worker : run[v].set = set /\ run[v].pc \in {"commit", "undo"}
    BY <2>1 DEF IndexInv, VectorsAreAccountedFor, Vectors
  <2> QED BY <1>1, <2>2 DEF OtherSets
<1> QED BY <1>2, <1>3

\* A note is not moved while its row is held, and only an active note's is.
LEMMA FencedStep ==
  ASSUME IndexTypeOK, Fenced, [IndexNext]_indexVars
  PROVE  Fenced'
<1>1. CASE UNCHANGED indexVars
  BY <1>1 DEF Fenced, indexVars
<1>2. CASE OtherSteps
  <2>1. run' = run
    BY <1>2, OtherStepSets DEF OtherSets
  <2>2. note'.state = note.state \/ Unlocked
    <3>1. CASE OthersMove
      BY <3>1 DEF OthersMove, IndexTypeOK, NoteRow
    <3>2. CASE ~OthersMove
      BY <1>2, <3>2 DEF OtherSteps, Visibility, Save, RemoveNote, Reconcile, Cleanup, ReadChunks,
         SetVisibility, DieRequest, TrashNote, RestoreNote, MoveNote, Write
    <3> QED BY <3>1, <3>2
  <2> QED BY <2>1, <2>2 DEF Fenced, Unlocked
<1>3. ASSUME NEW w \in Worker, WorkerSteps(w) PROVE Fenced'
  <2>1. WorkerMoves(w) \/ Take(w)
    BY <1>3, WorkerStepMoves
  <2>2. \A v \in Worker \ {w} : run'[v] = run[v]
    BY <2>1, TakeMoves DEF WorkerMoves
  <2>3. note'.state = note.state
    BY <1>3 DEF WorkerSteps, Reindex, Take, Fails, Die, Stall, Open, Commit, UndoVectors, Check,
       Hide, DropVectors, DropRows, Stamp, IndexTypeOK, NoteRow
  <2>4. CASE run'[w].pc # "commit"
    BY <2>2, <2>3, <2>4 DEF Fenced
  <2>5. CASE run'[w].pc = "commit"
    <3>1. run[w].pc = "commit" \/ (Unlocked /\ note.state = "active")
      BY <1>3, <2>5, OnlyOpenCommits
    <3> QED BY <2>2, <2>3, <2>5, <3>1 DEF Fenced, Unlocked
  <2> QED BY <2>4, <2>5
<1> QED BY <1>1, <1>2, <1>3 DEF IndexNext, WorkerSteps, OtherSteps, Visibility

-----------------------------------------------------------------------------
(* The theorems.                                                           *)

LEMMA IndexStarts ==
  ASSUME IndexInit
  PROVE  IndexInv /\ Fenced
<1> USE DEF IndexInit
<1>1. IndexTypeOK
  <2>1. Idle \in Run
    BY IndexBounds DEF Idle, Run, Pc
  <2>2. NoCall \in Call
    BY DEF NoCall, Call
  <2>3. note \in NoteRow
    BY IndexBounds DEF NoteRow
  <2> QED BY <2>1, <2>2, <2>3, IndexBounds DEF IndexTypeOK
<1>2. \A w \in Worker : run[w].pc = "idle" /\ run[w].set[1] = 0 /\ run[w].old = {}
  BY DEF Idle, NoSet
<1>3. Worked /\ Fresh /\ Dropped /\ Fenced
  BY <1>2 DEF Worked, Fresh, Dropped, Fenced
<1>4. Numbered /\ VectorsAreAccountedFor
  BY <1>2 DEF Numbered, VectorsAreAccountedFor, Vectors
<1> QED BY <1>1, <1>3, <1>4 DEF IndexInv, IndexData

\* Every step is a worker's or another's.
LEMMA IndexSteps ==
  ASSUME IndexNext
  PROVE  (\E w \in Worker : WorkerSteps(w)) \/ OtherSteps
BY DEF IndexNext, WorkerSteps, OtherSteps, Visibility

\* Types and numbers, whatever fails.
LEMMA IndexDataStep ==
  ASSUME IndexData, [IndexNext]_indexVars
  PROVE  IndexData'
<1>1. CASE UNCHANGED indexVars
  BY <1>1 DEF indexVars, IndexData, IndexTypeOK, Worked, Numbered, Fresh, Vectors
<1>2. CASE IndexNext
  BY <1>2, IndexSteps, WorkerData, OtherData
<1> QED BY <1>1, <1>2

\* The sets of chunks and vectors, the journal, the job and the runs have their types,
\* and a vector is never both searched and hidden.
THEOREM IndexTypeCorrect == IndexSpec => []IndexTypeOK
<1>1. IndexInit => IndexData
  BY IndexStarts DEF IndexInv
<1>2. IndexData /\ [IndexNext]_indexVars => IndexData'
  BY IndexDataStep
<1>3. IndexData => IndexTypeOK
  BY DEF IndexData
<1> QED BY <1>1, <1>2, <1>3, PTL DEF IndexSpec

\* If no worker dies inside the transaction that publishes, no vector is ever left that no
\* row, no cleanup task and no publication under way knows of: saves, moves to and from the
\* Trash, removals, retries, stalled workers and failed calls in any order do not do it.
THEOREM VectorsAreAccountedForCorrect ==
  ASSUME "torn" \notin Faults
  PROVE  IndexSpec => []VectorsAreAccountedFor
<1>1. IndexInit => IndexInv
  BY IndexStarts
<1>2. IndexInv /\ [IndexNext]_indexVars => IndexInv'
  <2> SUFFICES ASSUME IndexInv, [IndexNext]_indexVars PROVE IndexInv'
    OBVIOUS
  <2>1. IndexData'
    BY IndexDataStep DEF IndexInv
  <2>2. CASE UNCHANGED indexVars
    <3>1. Dropped' /\ VectorsAreAccountedFor'
      BY <2>2 DEF indexVars, IndexInv, Dropped, VectorsAreAccountedFor, Vectors
    <3> QED BY <2>1, <3>1 DEF IndexInv
  <2>3. CASE OtherSteps
    BY <2>1, <2>3, OtherAccounts DEF IndexInv
  <2>4. ASSUME NEW w \in Worker, WorkerSteps(w) PROVE IndexInv'
    BY <2>1, <2>4, WorkerDropped, WorkerAccounts DEF IndexInv
  <2> QED BY <2>2, <2>3, <2>4, IndexSteps
<1>3. IndexInv => VectorsAreAccountedFor
  BY DEF IndexInv
<1> QED BY <1>1, <1>2, <1>3, PTL DEF IndexSpec

\* Whoever publishes holds the row of an active note: neither a vector nor a row appears for
\* a note in the Trash or gone.
THEOREM FencedFromTrashCorrect == IndexSpec => FencedFromTrash
<1>1. IndexInit => IndexData /\ Fenced
  BY IndexStarts DEF IndexInv
<1>2. IndexData /\ Fenced /\ [IndexNext]_indexVars => (IndexData /\ Fenced)'
  BY IndexDataStep, FencedStep DEF IndexData
<1>3. IndexData /\ Fenced /\ [IndexNext]_indexVars =>
        [note.state # "active" => shown' \subseteq shown \cup hidden /\ chunks' \subseteq chunks]_indexVars
  <2> SUFFICES ASSUME IndexData, Fenced, IndexNext, note.state # "active"
               PROVE  shown' \subseteq shown \cup hidden /\ chunks' \subseteq chunks
    BY DEF indexVars
  <2>1. CASE OtherSteps
    BY <2>1, OtherStepSets DEF IndexData, OtherSets, Vectors
  <2>2. ASSUME NEW w \in Worker, WorkerSteps(w)
        PROVE  shown' \subseteq shown \cup hidden /\ chunks' \subseteq chunks
    <3>1. run[w].pc # "commit"
      BY DEF Fenced
    <3> QED BY <2>2, <3>1 DEF WorkerSteps, Reindex, Take, Fails, Die, Stall, Open, Commit,
             UndoVectors, Check, Hide, DropVectors, DropRows, Stamp, Delete, TrySetSearchable,
             SetSearchable
  <2> QED BY <2>1, <2>2, IndexSteps
<1> QED BY <1>1, <1>2, <1>3, PTL DEF IndexSpec, FencedFromTrash
=============================================================================
