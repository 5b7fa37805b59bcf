-------------------------- MODULE SkipList_theorems --------------------------
(***************************************************************************)
(* LockFreeReads holds in every reachable state, for any number of keys    *)
(* and levels: the nodes that have a pointer at a level are exactly those  *)
(* the chain of the level reaches, in order, so a search that is between   *)
(* two reads of pointers stands on a node that stays in the list.          *)
(***************************************************************************)
EXTENDS SkipList, FiniteSetTheorems, WellFoundedInduction, TLAPS

SkipConstants == NumKeys \in Nat /\ MaxHeight \in Nat \ {0}

SkipSpec == SkipInit /\ [][SkipStep]_skipVars

Ops == {"none", "ge", "lt", "last", "next"}

SkipTypes ==
    /\ next \in [Levels -> [0 .. NumKeys -> 0 .. Null]]
    /\ max_height \in 1 .. MaxHeight
    /\ nputs \in [Levels -> Nat]
    /\ ins \in [key : 0 .. NumKeys, height : 0 .. MaxHeight, prev : [Levels -> 0 .. NumKeys],
                at : 0 .. MaxHeight, linked : BOOLEAN]
    /\ seek \in [op : Ops, key : 0 .. NumKeys, x : 0 .. NumKeys, level : Levels,
                 before : SUBSET (1 .. NumKeys), res : 0 .. Null, iter : Levels]

(* The nodes of level l: a node has a pointer as soon as it is linked.     *)
Linked(l) == {n \in 1 .. NumKeys : next[l][n] # 0}

(* No pointer of a level skips a node of the level.                        *)
Chained(l) ==
    \A n \in Linked(l) \cup {0} :
      /\ next[l][n] \in Linked(l) \cup {Null}
      /\ next[l][n] > n
      /\ \A m \in Linked(l) : m > n => next[l][n] <= m

Lists ==
    /\ \A l \in Levels : Chained(l)
    /\ \A l, m \in Levels : l <= m => Linked(m) \subseteq Linked(l)
    /\ \A l \in Levels : l >= max_height => Linked(l) = {}

(* The levels where the node of the insertion is linked, and where it will *)
(* be linked: between prev and its successor.                              *)
Done(l) == l < ins.at \/ (l = ins.at /\ ins.linked)

Inserting ==
    ins # NoInsert =>
      /\ ins.key \in 1 .. NumKeys /\ ins.at < ins.height /\ ins.height <= max_height
      /\ \A l \in Levels : ins.key \in Linked(l) <=> Done(l)
      /\ \A l \in Levels : l < ins.height /\ ~Done(l) =>
           /\ ins.prev[l] \in Linked(l) \cup {0}
           /\ ins.prev[l] < ins.key /\ next[l][ins.prev[l]] > ins.key

Counted ==
    \A l \in Levels : Cardinality(Linked(l)) =
      nputs[l] + (IF ins.linked /\ ins.at = l THEN 1 ELSE 0)

(* Where a search stands, and that an iterator stands on a node of its     *)
(* level.                                                                  *)
Standing ==
    /\ seek.before \subseteq Linked(0)
    /\ seek.op \in {"ge", "lt", "last"} => seek.iter = 0
    /\ Searching => seek.x \in Linked(seek.level) \cup {0}
    /\ Searching /\ seek.op \in {"ge", "lt"} => seek.x < seek.key
    /\ ~Searching /\ seek.res \in 1 .. NumKeys => seek.res \in Linked(seek.iter)
    /\ ~Searching => AnswerRight

SkipInv == SkipTypes /\ Lists /\ Inserting /\ Counted /\ Standing

-----------------------------------------------------------------------------
(* Least and greatest elements.                                            *)

(* A nonempty set of naturals has a least element.                         *)
LEMMA LeastNat ==
    ASSUME NEW S \in SUBSET Nat, S # {}
    PROVE \E n \in S : \A m \in S : n <= m
<1>1. PICK n \in S : \A m \in S : ~(<<m, n>> \in OpToRel(<, Nat))
  BY NatLessThanWellFounded, WFMin
<1>2. \A m \in S : ~(m < n) BY <1>1 DEF OpToRel
<1> QED BY <1>2

(* A nonempty bounded one has a greatest.                                  *)
LEMMA GreatestNat ==
    ASSUME NEW b \in Nat, NEW S \in SUBSET (0 .. b), S # {}
    PROVE \E n \in S : \A m \in S : m <= n
<1> DEFINE T == {b - n : n \in S}
<1>1. T \in SUBSET Nat /\ T # {}
  <2>1. \A n \in S : b - n \in Nat OBVIOUS
  <2> QED BY <2>1
<1>2. PICK t \in T : \A u \in T : t <= u BY <1>1, LeastNat
<1>3. PICK n \in S : t = b - n BY <1>2
<1>4. \A m \in S : b - n <= b - m BY <1>2, <1>3
<1> QED BY <1>4

(* Levels count from 0; a node is not the end of the list.                 *)
LEMMA Bounds ==
    ASSUME SkipConstants
    PROVE /\ 0 \in Levels /\ Levels \subseteq Nat /\ NumKeys \in Nat /\ Null = NumKeys + 1
          /\ Levels = 0 .. MaxHeight - 1
          /\ 1 .. NumKeys \subseteq 0 .. NumKeys /\ 0 .. NumKeys \subseteq 0 .. Null
          /\ 0 .. Null \subseteq Nat /\ Null \notin 0 .. NumKeys /\ 0 # Null /\ 0 \in 0 .. Null
          /\ \A n \in 0 .. Null : n # Null => n \in 0 .. NumKeys
BY DEF SkipConstants, Levels, Null

-----------------------------------------------------------------------------
(* The chain from the head reaches the linked nodes and no other.          *)
LEMMA ReachIsLinked ==
    ASSUME SkipConstants, SkipTypes, NEW l \in Levels, Chained(l)
    PROVE Reach(l) = Linked(l)
<1> DEFINE L == Linked(l) \cup {0}
           Def(f) == f = [n \in 0 .. Null |-> IF n = Null THEN {} ELSE {n} \cup f[next[l][n]]]
           R == CHOOSE f : Def(f)
           F == [n \in 0 .. Null |-> IF n = Null THEN {}
                                     ELSE IF n \in L THEN {m \in L : m >= n} ELSE {n} \cup L]
<1>0. Reach(l) = R[0] \ {0} BY DEF Reach
<1>1. /\ L \subseteq 0 .. NumKeys /\ 0 \in L /\ Null \notin L
      /\ \A n \in 0 .. NumKeys : next[l][n] \in 0 .. Null
      /\ \A n \in 0 .. NumKeys : n \notin L => next[l][n] = 0
  <2>1. Linked(l) \subseteq 1 .. NumKeys /\ \A n \in 1 .. NumKeys : n \in Linked(l) \/ next[l][n] = 0
    BY DEF Linked
  <2>2. \A n \in 0 .. NumKeys : next[l][n] \in 0 .. Null
    <3>1. next \in [Levels -> [0 .. NumKeys -> 0 .. Null]] BY DEF SkipTypes
    <3> QED BY <3>1
  <2>3. \A n \in 0 .. NumKeys : n = 0 \/ n \in 1 .. NumKeys BY Bounds
  <2> QED BY <2>1, <2>2, <2>3, Bounds
<1>2. \A n \in L : /\ next[l][n] \in L \cup {Null} /\ next[l][n] > n
                   /\ \A m \in L : m > n => next[l][n] <= m
  BY <1>1, Bounds DEF Chained, Linked
<1> HIDE DEF L
<1>3. Def(F)
  <2> SUFFICES ASSUME NEW n \in 0 .. Null
               PROVE F[n] = IF n = Null THEN {} ELSE {n} \cup F[next[l][n]]
    OBVIOUS
  <2>1. CASE n = Null BY <2>1
  <2>2. CASE n \in L
    <3>1. n # Null /\ n \in Nat BY <2>2, <1>1, Bounds
    <3>2. F[n] = {m \in L : m >= n} BY <2>2, <3>1
    <3>3. next[l][n] \in 0 .. Null BY <2>2, <1>1
    <3>4. CASE next[l][n] = Null
      <4>1. F[next[l][n]] = {} BY <3>3, <3>4
      <4>2. \A m \in L : ~(m > n) BY <3>4, <2>2, <1>2, <1>1, Bounds
      <4>3. ASSUME NEW m \in L PROVE m >= n <=> m = n
        <5>1. m \in Nat BY <1>1, Bounds
        <5> QED BY <5>1, <4>2, <3>1
      <4> QED BY <2>2, <3>1, <3>2, <4>1, <4>3
    <3>5. CASE next[l][n] # Null
      <4>1. next[l][n] \in L BY <3>5, <2>2, <1>2
      <4>2. F[next[l][n]] = {m \in L : m >= next[l][n]} BY <4>1, <3>3, <3>5
      <4>3. ASSUME NEW m \in L PROVE m >= n <=> m = n \/ m >= next[l][n]
        <5>1. m \in Nat /\ next[l][n] \in Nat BY <4>1, <1>1, Bounds
        <5>2. next[l][n] > n /\ (m > n => next[l][n] <= m) BY <2>2, <1>2
        <5> QED BY <5>1, <5>2, <3>1
      <4> QED BY <2>2, <3>1, <3>2, <4>2, <4>3
    <3> QED BY <3>4, <3>5
  <2>3. CASE n # Null /\ n \notin L
    <3>1. next[l][n] = 0 BY <2>3, <1>1, Bounds
    <3>2. 0 # Null /\ 0 \in 0 .. Null BY Bounds
    <3>3. F[0] = {m \in L : m >= 0} BY <3>2, <1>1
    <3>4. \A m \in L : m >= 0 BY <1>1, Bounds
    <3> QED BY <2>3, <3>1, <3>3, <3>4
  <2> QED BY <2>1, <2>2, <2>3
<1>4. Def(R) BY <1>3
<1>5. \A n \in 0 .. Null : R[n] = IF n = Null THEN {} ELSE {n} \cup R[next[l][n]]
  <2> HIDE DEF R
  <2> QED BY <1>4
<1>6. \A n \in 0 .. Null : F[n] = IF n = Null THEN {} ELSE {n} \cup F[next[l][n]]
  <2>1. \A f : Def(f) => \A n \in 0 .. Null : f[n] = IF n = Null THEN {} ELSE {n} \cup f[next[l][n]]
    OBVIOUS
  <2> HIDE DEF F, Def
  <2> QED BY <1>3, <2>1
<1>7. F[0] = L
  <2>1. 0 # Null /\ 0 \in 0 .. Null BY Bounds
  <2>2. \A m \in L : m >= 0 BY <1>1, Bounds
  <2> QED BY <1>1, <2>1, <2>2
<1> HIDE DEF R, F
<1>8. \A n \in L \cup {Null} : R[n] = F[n]
  <2> DEFINE Bad == {i \in Nat : \E n \in L \cup {Null} : n + i = Null /\ R[n] # F[n]}
  <2> SUFFICES ASSUME Bad # {} PROVE FALSE
    <3>1. ASSUME NEW n \in L \cup {Null}, R[n] # F[n] PROVE FALSE
      <4>1. n \in 0 .. Null BY <1>1, Bounds
      <4>2. Null - n \in Nat /\ n + (Null - n) = Null BY <4>1, Bounds
      <4> QED BY <3>1, <4>2
    <3> QED BY <3>1
  <2>1. PICK i \in Bad : \A j \in Bad : i <= j BY LeastNat
  <2>2. PICK n \in L \cup {Null} : n + i = Null /\ R[n] # F[n] BY <2>1
  <2>3. n # Null /\ n \in L
    <3>1. Null \in 0 .. Null BY Bounds
    <3>2. R[Null] = {} /\ F[Null] = {} BY <3>1, <1>5, <1>6
    <3> QED BY <2>2, <3>2
  <2> DEFINE m == next[l][n]
  <2>4. m \in L \cup {Null} /\ m > n /\ n \in 0 .. Null /\ m \in 0 .. Null
    BY <2>3, <1>1, <1>2, Bounds
  <2> HIDE DEF m
  <2>5. Null - m \in Nat /\ m + (Null - m) = Null /\ Null - m < i
    <3>1. i \in Nat /\ n + i = Null BY <2>1, <2>2
    <3>2. m \in Nat /\ n \in Nat /\ Null \in Nat /\ m > n /\ m <= Null BY <2>4, Bounds
    <3> HIDE DEF Bad
    <3> QED BY SMTT(30), <3>1, <3>2
  <2>6. Null - m \notin Bad BY <2>1, <2>5
  <2>7. R[m] = F[m] BY <2>4, <2>5, <2>6
  <2>8. R[n] = {n} \cup R[m] /\ F[n] = {n} \cup F[m] BY <1>5, <1>6, <2>3, <2>4 DEF m
  <2> QED BY <2>2, <2>7, <2>8
<1>9. R[0] = L BY <1>1, <1>7, <1>8
<1>10. L \ {0} = Linked(l) BY Bounds DEF L, Linked
<1> QED BY <1>0, <1>9, <1>10

(* A level's nodes are finitely many keys, and Present is level 0.         *)
LEMMA LinkedKeys ==
    ASSUME SkipConstants, SkipTypes, Lists, NEW l \in Levels
    PROVE /\ Linked(l) \subseteq 1 .. NumKeys /\ Linked(l) \cup {0} \subseteq 0 .. NumKeys
          /\ IsFiniteSet(Linked(l)) /\ Cardinality(Linked(l)) \in Nat
          /\ Reach(l) = Linked(l)
          /\ Linked(l) \subseteq Linked(0)
<1>1. Linked(l) \subseteq 1 .. NumKeys BY DEF Linked
<1>2. IsFiniteSet(1 .. NumKeys) BY FS_Interval, Bounds
<1>3. IsFiniteSet(Linked(l)) BY <1>1, <1>2, FS_Subset
<1>4. Reach(l) = Linked(l) BY ReachIsLinked DEF Lists
<1>5. Linked(l) \subseteq Linked(0) BY Bounds DEF Lists
<1> QED BY <1>1, <1>3, <1>4, <1>5, FS_CardinalityType, Bounds

(* What is in the list is what level 0 links.                              *)
LEMMA PresentIsLinked == ASSUME SkipConstants, SkipTypes, Lists PROVE Present = Linked(0)
BY LinkedKeys, Bounds DEF Present, Linked

(* The same as one formula, ...                                            *)
LEMMA PresentFact == SkipConstants /\ SkipTypes /\ Lists => Present = Linked(0)
BY PresentIsLinked

(* ... and so in the next state.                                          *)
LEMMA PresentPrime == (SkipConstants /\ SkipTypes /\ Lists => Present = Linked(0))'
BY PresentFact, PTL

(* The successor of a node, or of the head.                                *)
LEMMA Successor ==
    ASSUME SkipConstants, SkipTypes, Lists, NEW l \in Levels, NEW n \in Linked(l) \cup {0}
    PROVE /\ n \in 0 .. NumKeys /\ n \in Nat
          /\ next[l][n] \in Linked(l) \cup {Null} /\ next[l][n] \in 1 .. Null
          /\ next[l][n] \in Nat /\ next[l][n] > n
          /\ \A m \in Linked(l) : m > n => next[l][n] <= m
<1>1. n \in 0 .. NumKeys /\ n \in Nat BY LinkedKeys, Bounds
<1>2. /\ next[l][n] \in Linked(l) \cup {Null} /\ next[l][n] > n
      /\ \A m \in Linked(l) : m > n => next[l][n] <= m
  BY DEF Lists, Chained
<1>3. Linked(l) \cup {Null} \subseteq 1 .. Null /\ 1 .. Null \subseteq Nat BY LinkedKeys, Bounds
<1> QED BY <1>1, <1>2, <1>3

(* The search of the writer: the last node before the key.                 *)
LEMMA PrevOfOK ==
    ASSUME SkipConstants, SkipTypes, Lists, NEW l \in Levels, NEW k \in 1 .. NumKeys,
           k \notin Linked(l)
    PROVE /\ PrevOf(l, k) \in Linked(l) \cup {0} /\ PrevOf(l, k) < k
          /\ next[l][PrevOf(l, k)] > k
<1> DEFINE S == {n \in Linked(l) \cup {0} : n = 0 \/ n < k}
           P(n) == (n = 0 \/ n < k) /\ ~KeyIsAfterNode(k, next[l][n])
<1>1. S \in SUBSET (0 .. NumKeys) /\ 0 \in S BY LinkedKeys
<1>2. PICK n \in S : \A m \in S : m <= n BY <1>1, GreatestNat, Bounds
<1>3. n \in Linked(l) \cup {0} /\ (n = 0 \/ n < k) BY <1>2
<1>4. ~KeyIsAfterNode(k, next[l][n])
  <2> SUFFICES ASSUME next[l][n] # Null, next[l][n] < k PROVE FALSE BY DEF KeyIsAfterNode
  <2>1. next[l][n] \in Linked(l) /\ next[l][n] > n /\ next[l][n] \in Nat /\ n \in Nat
    BY <1>3, Successor
  <2>2. next[l][n] \in S BY <2>1
  <2> QED BY <2>1, <2>2, <1>2
<1>5. Reach(l) = Linked(l) BY LinkedKeys
<1>6. \E x \in Reach(l) \cup {0} : P(x) BY <1>3, <1>4, <1>5
<1>7. PrevOf(l, k) = CHOOSE x \in Reach(l) \cup {0} : P(x) BY DEF PrevOf
<1>8. PrevOf(l, k) \in Reach(l) \cup {0} /\ P(PrevOf(l, k)) BY <1>6, <1>7
<1>9. PICK p : p = PrevOf(l, k) OBVIOUS
<1>10. p \in Linked(l) \cup {0} /\ (p = 0 \/ p < k) /\ ~KeyIsAfterNode(k, next[l][p])
  BY <1>5, <1>8, <1>9
<1>11. next[l][p] \in Linked(l) \cup {Null} /\ next[l][p] \in Nat BY <1>10, Successor
<1>12. next[l][p] # k BY <1>11, Bounds
<1>13. next[l][p] > k BY <1>10, <1>11, <1>12, Bounds DEF KeyIsAfterNode
<1>14. p < k BY <1>10, Bounds
<1> QED BY <1>9, <1>10, <1>13, <1>14

(* Answers stay right while nodes are added.                               *)
LEMMA AnswerFrame ==
    ASSUME AnswerRight, UNCHANGED seek, Present \subseteq Present' PROVE AnswerRight'
BY DEF AnswerRight

(* What a search knows stays true while nodes are added.                   *)
LEMMA StandingFrame ==
    ASSUME SkipConstants, SkipTypes, Lists, SkipTypes', Lists', Standing, UNCHANGED seek,
           \A l \in Levels : Linked(l) \subseteq Linked(l)'
    PROVE Standing'
<1>1. Present \subseteq Present'
  <2>1. Present' = Linked(0)' BY PresentPrime
  <2> QED BY <2>1, PresentIsLinked, Bounds
<1>2. seek.level \in Levels /\ seek.iter \in Levels BY DEF SkipTypes
<1>3. Searching' = Searching BY DEF Searching
<1>4. ~Searching => AnswerRight' BY <1>1, AnswerFrame DEF Standing
<1> QED BY <1>2, <1>3, <1>4, Bounds DEF Standing

(* The list is as it was while no pointer changes.                         *)
LEMMA ListsFrame ==
    ASSUME SkipConstants, SkipTypes, Lists, UNCHANGED next,
           max_height' \in Nat, max_height' >= max_height
    PROVE Lists' /\ \A l \in Levels : Linked(l)' = Linked(l)
<1>1. \A l \in Levels : Linked(l)' = Linked(l) BY DEF Linked
<1>2. \A l \in Levels : Chained(l)' BY <1>1 DEF Lists, Chained
<1>3. max_height \in Nat BY DEF SkipTypes
<1>4. \A l \in Levels : l >= max_height' => l >= max_height BY <1>3, Bounds
<1> QED BY <1>1, <1>2, <1>4 DEF Lists

-----------------------------------------------------------------------------
(* The writer.                                                             *)

(* Insert finds where the node belongs on every level.                     *)
LEMMA InsertOK ==
    ASSUME SkipConstants, SkipInv, NEW k \in 1 .. NumKeys, NEW h \in 1 .. MaxHeight, Insert(k, h)
    PROVE SkipInv'
<1> USE DEF SkipInv
<1>0. MaxHeight \in Nat /\ max_height \in 1 .. MaxHeight /\ max_height \in Nat /\ h \in Nat
  BY DEF SkipConstants, SkipTypes
<1>1. \A l \in Levels : k \notin Linked(l)
  BY PresentIsLinked, LinkedKeys DEF Insert
<1> DEFINE P(l) == IF l < max_height THEN PrevOf(l, k) ELSE 0
<1>2. PICK prev : prev = [l \in Levels |-> P(l)] OBVIOUS
<1>3. ASSUME NEW l \in Levels
      PROVE /\ prev[l] \in Linked(l) \cup {0} /\ prev[l] \in 0 .. NumKeys
            /\ prev[l] < k /\ next[l][prev[l]] > k
  <2>1. CASE l < max_height
    <3>1. prev[l] = PrevOf(l, k) BY <1>2, <2>1
    <3>2. prev[l] \in Linked(l) \cup {0} /\ prev[l] < k /\ next[l][prev[l]] > k
      BY <3>1, <1>1, PrevOfOK
    <3> QED BY <3>2, LinkedKeys
  <2>2. CASE ~(l < max_height)
    <3>1. prev[l] = 0 BY <1>2, <2>2
    <3>2. Linked(l) = {} BY <2>2, <1>0, Bounds DEF Lists
    <3>3. next[l][0] = Null BY <3>2, Successor
    <3> QED BY <3>1, <3>3, Bounds
  <2> QED BY <2>1, <2>2
<1>4. /\ ins = NoInsert
      /\ ins' = [key |-> k, height |-> h, at |-> 0, linked |-> FALSE, prev |-> prev]
      /\ max_height' = IF h > max_height THEN h ELSE max_height
      /\ UNCHANGED <<next, nputs, seek>>
  BY <1>2 DEF Insert
<1>5. max_height' \in 1 .. MaxHeight /\ max_height' >= max_height /\ h <= max_height'
  BY <1>0, <1>4
<1>6. SkipTypes'
  <2>1. prev \in [Levels -> 0 .. NumKeys] BY <1>2, <1>3
  <2>2. ins' \in [key : 0 .. NumKeys, height : 0 .. MaxHeight, prev : [Levels -> 0 .. NumKeys],
                  at : 0 .. MaxHeight, linked : BOOLEAN]
    BY <1>0, <1>4, <2>1, Bounds
  <2> QED BY <1>4, <1>5, <2>2 DEF SkipTypes
<1>7. Lists' /\ \A l \in Levels : Linked(l)' = Linked(l) BY <1>4, <1>5, ListsFrame
<1>8. Inserting'
  <2>1. \A l \in Levels : ~Done(l)' BY <1>4, Bounds DEF Done
  <2> QED BY <1>0, <1>1, <1>3, <1>4, <1>5, <1>7, <2>1 DEF Inserting
<1>9. Counted' BY <1>4, <1>7 DEF Counted, NoInsert
<1>10. Standing' BY <1>4, <1>6, <1>7, StandingFrame
<1> QED BY <1>6, <1>7, <1>8, <1>9, <1>10

(* LinkLevel puts the node between its predecessor and its successor.      *)
LEMMA LinkLevelOK == ASSUME SkipConstants, SkipInv, LinkLevel PROVE SkipInv'
<1> USE DEF SkipInv
<1>1. PICK l, k, p, s : l = ins.at /\ k = ins.key /\ p = ins.prev[l] /\ s = next[l][p] OBVIOUS
<1>2. ins # NoInsert
  <2>1. ins.at < ins.height BY DEF LinkLevel
  <2> QED BY <2>1 DEF NoInsert
<1>3. /\ ~ins.linked /\ ins.at < ins.height /\ ins.height <= max_height
      /\ ins.at \in Nat /\ ins.height \in Nat /\ max_height \in 1 .. MaxHeight
      /\ MaxHeight \in Nat
  BY <1>2 DEF LinkLevel, Inserting, SkipTypes, SkipConstants
<1>4. l \in Levels /\ l < max_height BY <1>1, <1>3, Bounds
<1>5. ~Done(l) BY <1>1, <1>3 DEF Done
<1>6. /\ k \in 1 .. NumKeys /\ k \notin Linked(l)
      /\ p \in Linked(l) \cup {0} /\ p < k /\ s > k
  BY <1>1, <1>2, <1>3, <1>4, <1>5 DEF Inserting
<1>7. /\ p \in 0 .. NumKeys /\ s \in Linked(l) \cup {Null} /\ s \in 1 .. Null
      /\ \A m \in Linked(l) : m > p => s <= m
  BY <1>1, <1>4, <1>6, Successor
<1>8. /\ next' = [next EXCEPT ![l][k] = s, ![l][p] = k]
      /\ ins' = [ins EXCEPT !.linked = TRUE]
      /\ UNCHANGED <<max_height, nputs, seek>>
  BY <1>1 DEF LinkLevel
<1>9. /\ next' \in [Levels -> [0 .. NumKeys -> 0 .. Null]]
      /\ \A m \in Levels : m # l => next'[m] = next[m]
      /\ \A n \in 0 .. NumKeys :
           next'[l][n] = IF n = p THEN k ELSE IF n = k THEN s ELSE next[l][n]
  <2>1. next \in [Levels -> [0 .. NumKeys -> 0 .. Null]] BY DEF SkipTypes
  <2>2. k \in 0 .. Null /\ s \in 0 .. Null /\ k \in 0 .. NumKeys BY <1>6, <1>7, Bounds
  <2> QED BY <1>4, <1>7, <1>8, <2>1, <2>2
<1>10. Linked(l)' = Linked(l) \cup {k}
  <2>1. \A n \in 1 .. NumKeys : next'[l][n] # 0 <=> n \in Linked(l) \cup {k}
    BY <1>6, <1>7, <1>9, Bounds DEF Linked
  <2> QED BY <2>1, <1>6 DEF Linked
<1>11. \A m \in Levels : m # l => Linked(m)' = Linked(m) BY <1>9 DEF Linked
<1>12. SkipTypes'
  <2>1. ins' \in [key : 0 .. NumKeys, height : 0 .. MaxHeight, prev : [Levels -> 0 .. NumKeys],
                  at : 0 .. MaxHeight, linked : BOOLEAN]
    BY <1>8 DEF SkipTypes
  <2> QED BY <1>8, <1>9, <2>1 DEF SkipTypes
<1>13. Chained(l)'
  <2> SUFFICES ASSUME NEW n \in Linked(l) \cup {k, 0}
               PROVE /\ next'[l][n] \in Linked(l) \cup {k, Null} /\ next'[l][n] > n
                     /\ \A m \in Linked(l) \cup {k} : m > n => next'[l][n] <= m
    BY <1>10 DEF Chained
  <2>1. n \in 0 .. NumKeys /\ \A m \in Linked(l) : m \in Nat
    BY <1>4, <1>6, LinkedKeys, Bounds
  <2>2. CASE n = p
    <3>1. next'[l][n] = k BY <1>9, <2>1, <2>2
    <3>2. \A m \in Linked(l) : m > n => k <= m BY <1>6, <1>7, <2>1, <2>2, Bounds
    <3> QED BY <3>1, <3>2, <1>6, <2>2
  <2>3. CASE n = k
    <3>1. next'[l][n] = s BY <1>6, <1>9, <2>1, <2>3, Bounds
    <3>2. \A m \in Linked(l) : m > n => s <= m BY <1>6, <1>7, <2>1, <2>3, Bounds
    <3> QED BY <3>1, <3>2, <1>6, <1>7, <2>3
  <2>4. CASE n # p /\ n # k
    <3>1. next'[l][n] = next[l][n] BY <1>9, <2>1, <2>4
    <3>2. /\ next[l][n] \in Linked(l) \cup {Null} /\ next[l][n] > n /\ next[l][n] \in Nat
          /\ \A m \in Linked(l) : m > n => next[l][n] <= m
      BY <1>4, <2>4, Successor
    <3>3. k > n => next[l][n] <= k
      <4> SUFFICES ASSUME k > n PROVE next[l][n] <= k OBVIOUS
      <4>1. n < p
        <5> SUFFICES ASSUME n > p PROVE FALSE BY <1>7, <2>1, <2>4, Bounds
        <5>1. n \in Linked(l) BY <1>7, <2>1, <2>4, Bounds
        <5> QED BY <5>1, <1>6, <1>7, <2>1, Bounds
      <4>2. p \in Linked(l) BY <4>1, <1>6, <2>1, Bounds
      <4> QED BY <4>1, <4>2, <3>2, <1>6, <1>7, Bounds
    <3> QED BY <3>1, <3>2, <3>3
  <2> QED BY <2>2, <2>3, <2>4
<1>14. Lists'
  <2>1. \A m \in Levels : Chained(m)'
    <3> TAKE m \in Levels
    <3>1. CASE m # l BY <3>1, <1>9, <1>11 DEF Lists, Chained
    <3> QED BY <3>1, <1>13
  <2>2. \A j \in Levels : j < l => k \in Linked(j) BY <1>1, <1>2 DEF Inserting, Done
  <2>3. \A j, m \in Levels : j <= m => Linked(m)' \subseteq Linked(j)'
    <3> TAKE j, m \in Levels
    <3> HAVE j <= m
    <3>1. Linked(m) \subseteq Linked(j) BY DEF Lists
    <3>2. CASE m # l BY <3>1, <3>2, <1>10, <1>11
    <3>3. CASE m = l
      <4>1. CASE j = l BY <3>3, <4>1
      <4>2. CASE j # l
        <5>1. j < l BY <3>3, <4>2, <1>4, Bounds
        <5> QED BY <5>1, <4>2, <3>1, <3>3, <2>2, <1>10, <1>11
      <4> QED BY <4>1, <4>2
    <3> QED BY <3>2, <3>3
  <2>4. \A m \in Levels : m >= max_height' => Linked(m)' = {}
    BY <1>3, <1>4, <1>8, <1>11, Bounds DEF Lists
  <2> QED BY <2>1, <2>3, <2>4 DEF Lists
<1>15. /\ ins'.key = k /\ ins'.at = l /\ ins'.height = ins.height /\ ins'.prev = ins.prev
       /\ ins'.linked
  BY <1>1, <1>8 DEF SkipTypes
<1>16. Inserting'
  <2>1. \A j \in Levels : Done(j)' <=> (Done(j) \/ j = l) BY <1>1, <1>3, <1>15 DEF Done
  <2>2. \A j \in Levels : k \in Linked(j)' <=> Done(j)'
    BY <1>1, <1>2, <1>10, <1>11, <2>1 DEF Inserting
  <2>3. ASSUME NEW j \in Levels, j < ins'.height, ~Done(j)'
        PROVE /\ ins'.prev[j] \in Linked(j)' \cup {0}
              /\ ins'.prev[j] < ins'.key /\ next'[j][ins'.prev[j]] > ins'.key
    <3>1. j # l /\ ~Done(j) BY <2>1, <2>3
    <3>2. next'[j] = next[j] /\ Linked(j)' = Linked(j) BY <3>1, <1>9, <1>11
    <3> QED BY <2>3, <3>1, <3>2, <1>1, <1>2, <1>15 DEF Inserting
  <2>4. ins'.key \in 1 .. NumKeys /\ ins'.at < ins'.height /\ ins'.height <= max_height'
    BY <1>1, <1>3, <1>6, <1>8, <1>15
  <2> QED BY <2>2, <2>3, <2>4, <1>15 DEF Inserting
<1>17. Counted'
  <2> SUFFICES ASSUME NEW m \in Levels
               PROVE Cardinality(Linked(m)') =
                       nputs'[m] + (IF ins'.linked /\ ins'.at = m THEN 1 ELSE 0)
    BY DEF Counted
  <2>1. Cardinality(Linked(m)) = nputs[m] + (IF ins.linked /\ ins.at = m THEN 1 ELSE 0)
    BY DEF Counted
  <2>2. nputs[m] \in Nat BY DEF SkipTypes
  <2>3. CASE m # l BY <2>1, <2>2, <2>3, <1>1, <1>8, <1>11, <1>15
  <2>4. CASE m = l
    <3>1. Cardinality(Linked(l) \cup {k}) = Cardinality(Linked(l)) + 1
      BY <1>4, <1>6, LinkedKeys, FS_AddElement
    <3> QED BY <2>1, <2>2, <2>4, <3>1, <1>3, <1>8, <1>10, <1>15
  <2> QED BY <2>3, <2>4
<1>18. Standing'
  <2>1. \A m \in Levels : Linked(m) \subseteq Linked(m)' BY <1>10, <1>11
  <2> QED BY <2>1, <1>8, <1>12, <1>14, StandingFrame
<1> QED BY <1>12, <1>14, <1>16, <1>17, <1>18

(* CountPut goes to the next level, or ends the insertion.                 *)
LEMMA CountPutOK == ASSUME SkipConstants, SkipInv, CountPut PROVE SkipInv'
<1> USE DEF SkipInv
<1>1. PICK l : l = ins.at OBVIOUS
<1>2. ins.linked /\ ins # NoInsert BY DEF CountPut, NoInsert
<1>3. /\ ins.at < ins.height /\ ins.height <= max_height
      /\ ins.at \in Nat /\ ins.height \in 0 .. MaxHeight /\ max_height \in 1 .. MaxHeight
      /\ MaxHeight \in Nat
  BY <1>2 DEF Inserting, SkipTypes, SkipConstants
<1>4. l \in Levels BY <1>1, <1>3, Bounds
<1>5. /\ nputs' = [nputs EXCEPT ![l] = @ + 1]
      /\ UNCHANGED <<next, max_height, seek>>
      /\ \/ ins' = NoInsert
         \/ ins.at + 1 # ins.height /\ ins' = [ins EXCEPT !.at = @ + 1, !.linked = FALSE]
  BY <1>1 DEF CountPut
<1>6. Lists' /\ \A m \in Levels : Linked(m)' = Linked(m)
  <2>1. max_height' \in Nat /\ max_height' >= max_height BY <1>3, <1>5
  <2> QED BY <2>1, <1>5, ListsFrame
<1>7. ins'.linked = FALSE
  <2>1. CASE ins' = NoInsert BY <2>1 DEF NoInsert
  <2>2. CASE ins' = [ins EXCEPT !.at = @ + 1, !.linked = FALSE] BY <2>2 DEF SkipTypes
  <2> QED BY <2>1, <2>2, <1>5
<1>8. SkipTypes'
  <2>1. nputs' \in [Levels -> Nat]
    <3>1. nputs \in [Levels -> Nat] BY DEF SkipTypes
    <3> QED BY <3>1, <1>4, <1>5
  <2> DEFINE T == [key : 0 .. NumKeys, height : 0 .. MaxHeight, prev : [Levels -> 0 .. NumKeys],
                   at : 0 .. MaxHeight, linked : BOOLEAN]
  <2>2. CASE ins' = NoInsert
    <3>1. ins' \in T BY <2>2, <1>3, Bounds DEF NoInsert
    <3> QED BY <2>1, <3>1, <1>5 DEF SkipTypes
  <2>3. CASE ins' = [ins EXCEPT !.at = @ + 1, !.linked = FALSE]
    <3>1. ins.at + 1 \in 0 .. MaxHeight BY <1>3
    <3>2. ins' \in T BY <2>3, <3>1 DEF SkipTypes
    <3> QED BY <2>1, <3>2, <1>5 DEF SkipTypes
  <2> QED BY <2>2, <2>3, <1>5
<1>9. Inserting'
  <2> SUFFICES ASSUME ins' # NoInsert PROVE Inserting' BY DEF Inserting, NoInsert
  <2>1. /\ ins'.key = ins.key /\ ins'.height = ins.height /\ ins'.prev = ins.prev
        /\ ins'.at = ins.at + 1 /\ ins.at + 1 # ins.height
    BY <1>5 DEF SkipTypes
  <2>2. ins.at + 1 < ins.height BY <2>1, <1>3
  <2>3. \A m \in Levels : Done(m)' <=> Done(m)
    BY <2>1, <1>2, <1>3, <1>7, Bounds DEF Done
  <2> QED BY <2>1, <2>2, <2>3, <1>2, <1>5, <1>6 DEF Inserting
<1>10. Counted'
  <2> SUFFICES ASSUME NEW m \in Levels PROVE Cardinality(Linked(m)) = nputs'[m]
    <3>1. \A m \in Levels : nputs'[m] \in Nat BY <1>8 DEF SkipTypes
    <3> QED BY <3>1, <1>6, <1>7 DEF Counted
  <2>1. Cardinality(Linked(m)) = nputs[m] + (IF ins.linked /\ ins.at = m THEN 1 ELSE 0)
    BY DEF Counted
  <2>2. nputs \in [Levels -> Nat] BY DEF SkipTypes
  <2> QED BY <2>1, <2>2, <1>1, <1>2, <1>5
<1>11. Standing' BY <1>5, <1>6, <1>8, StandingFrame
<1> QED BY <1>6, <1>8, <1>9, <1>10, <1>11

-----------------------------------------------------------------------------
(* Readers.                                                                *)
SeekRecords == [op : Ops, key : 0 .. NumKeys, x : 0 .. NumKeys, level : Levels,
                before : SUBSET (1 .. NumKeys), res : 0 .. Null, iter : Levels]

(* A reader changes nothing but its own state.                             *)
LEMMA ReaderFrame ==
    ASSUME SkipConstants, SkipInv, UNCHANGED <<next, max_height, nputs, ins>>,
           seek' \in SeekRecords
    PROVE /\ SkipTypes' /\ Lists' /\ Inserting' /\ Counted'
          /\ Present' = Linked(0) /\ \A l \in Levels : Linked(l)' = Linked(l)
<1> USE DEF SkipInv
<1>1. SkipTypes' BY DEF SkipTypes, SeekRecords
<1>2. Lists' /\ \A l \in Levels : Linked(l)' = Linked(l)
  <2>1. max_height' \in Nat /\ max_height' >= max_height BY DEF SkipTypes
  <2> QED BY <2>1, ListsFrame
<1>3. \A l \in Levels : Done(l)' <=> Done(l) BY DEF Done
<1>4. Inserting' BY <1>2, <1>3 DEF Inserting
<1>5. Counted' BY <1>2 DEF Counted
<1>6. Present' = Linked(0) BY <1>1, <1>2, PresentPrime, Bounds
<1> QED BY <1>1, <1>2, <1>4, <1>5, <1>6

(* The fields of the reader's record.                                      *)
LEMMA SeekFields ==
    ASSUME SkipConstants, SkipTypes
    PROVE /\ seek \in SeekRecords /\ seek.op \in Ops /\ seek.key \in 0 .. NumKeys
          /\ seek.x \in 0 .. NumKeys /\ seek.level \in Levels
          /\ seek.before \subseteq 1 .. NumKeys /\ seek.res \in 0 .. Null /\ seek.iter \in Levels
          /\ seek.level \in Nat /\ seek.x \in Nat /\ seek.key \in Nat
BY Bounds DEF SkipTypes, SeekRecords

(* A search starts at the head.                                            *)
LEMMA StartOK ==
    ASSUME SkipConstants, SkipInv, NEW op \in {"ge", "lt", "last"}, NEW k \in 0 .. NumKeys,
           op = "last" \/ k > 0, seek.iter = 0, Start(op, k)
    PROVE SkipInv'
<1> USE DEF SkipInv
<1>1. PICK h \in 1 .. max_height :
        seek' = [seek EXCEPT !.op = op, !.key = k, !.x = 0, !.level = h - 1,
                             !.before = Present, !.res = 0]
  BY DEF Start
<1>2. UNCHANGED <<next, max_height, nputs, ins>> BY DEF Start
<1>3. h - 1 \in Levels BY Bounds DEF SkipTypes, SkipConstants
<1>4. Present = Linked(0) /\ Linked(0) \subseteq 1 .. NumKeys
  BY PresentIsLinked, LinkedKeys, Bounds
<1>5. op \in Ops /\ 0 \in 0 .. NumKeys /\ 0 \in 0 .. Null BY Bounds DEF Ops
<1>6. seek' \in SeekRecords
  BY <1>1, <1>3, <1>4, <1>5, SeekFields DEF SeekRecords
<1>7. /\ seek'.op = op /\ seek'.key = k /\ seek'.x = 0 /\ seek'.level = h - 1
      /\ seek'.before = Linked(0) /\ seek'.res = 0 /\ seek'.iter = 0
  BY <1>1, <1>4, SeekFields DEF SeekRecords
<1>8. /\ SkipTypes' /\ Lists' /\ Inserting' /\ Counted'
      /\ Present' = Linked(0) /\ \A l \in Levels : Linked(l)' = Linked(l)
  BY <1>2, <1>6, ReaderFrame
<1>9. Searching' BY <1>7 DEF Searching
<1>10. Standing' BY <1>7, <1>8, <1>9, Bounds DEF Standing
<1> QED BY <1>8, <1>10

(* The steps of a search that does not end with it.                        *)
LEMMA OnwardOK ==
    ASSUME SkipConstants, SkipInv, Searching, NEW l \in Levels, NEW x \in Linked(l) \cup {0},
           seek.op \in {"ge", "lt"} => x < seek.key, Move(x, l, 0)
    PROVE SkipInv'
<1> USE DEF SkipInv
<1>1. UNCHANGED <<next, max_height, nputs, ins>> BY DEF Move
<1>2. seek' = [seek EXCEPT !.x = x, !.level = l, !.res = 0] BY DEF Move
<1>3. x \in 0 .. NumKeys BY LinkedKeys
<1>4. seek' \in SeekRecords BY <1>2, <1>3, SeekFields, Bounds DEF SeekRecords
<1>5. /\ seek'.op = seek.op /\ seek'.key = seek.key /\ seek'.x = x /\ seek'.level = l
      /\ seek'.before = seek.before /\ seek'.res = 0 /\ seek'.iter = seek.iter
  BY <1>2, SeekFields DEF SeekRecords
<1>6. /\ SkipTypes' /\ Lists' /\ Inserting' /\ Counted'
      /\ Present' = Linked(0) /\ \A m \in Levels : Linked(m)' = Linked(m)
  BY <1>1, <1>4, ReaderFrame
<1>7. Searching' BY <1>5 DEF Searching
<1>8. Standing'
  <2>1. (seek.before \subseteq Linked(0)) /\ (seek.op \in {"ge", "lt", "last"} => seek.iter = 0)
    BY DEF Standing
  <2>2. Linked(0)' = Linked(0) /\ Linked(l)' = Linked(l) BY Zenon, <1>6, Bounds
  <2>3. seek'.before \subseteq Linked(0)' BY Zenon, <2>1, <2>2, <1>5
  <2>4. seek'.op \in {"ge", "lt", "last"} => seek'.iter = 0 BY Zenon, <2>1, <1>5
  <2>5. (seek.x \in Linked(seek.level) \cup {0})' BY Zenon, <2>2, <1>5
  <2>6. seek'.op \in {"ge", "lt"} => seek'.x < seek'.key BY Zenon, <1>5
  <2> QED BY Zenon, <1>7, <2>3, <2>4, <2>5, <2>6 DEF Standing
<1> QED BY <1>6, <1>8

(* The one that does: on level 0, with what the search asked for.          *)
LEMMA AnswerOK ==
    ASSUME SkipConstants, SkipInv, Searching, NEW r \in Linked(0) \cup {Null},
           Move(seek.x, 0, r),
           seek.op = "ge" => r >= seek.key /\ \A k \in seek.before : k >= seek.key => r <= k,
           seek.op = "lt" => IF r = Null THEN \A k \in seek.before : k >= seek.key
                             ELSE /\ r < seek.key
                                  /\ \A k \in seek.before : k < seek.key => k <= r,
           seek.op = "last" => IF r = Null THEN seek.before = {}
                               ELSE \A k \in seek.before : k <= r
    PROVE SkipInv'
<1> USE DEF SkipInv
<1>1. UNCHANGED <<next, max_height, nputs, ins>> BY DEF Move
<1>2. seek' = [seek EXCEPT !.x = seek.x, !.level = 0, !.res = r] BY DEF Move
<1>3. r \in 0 .. Null /\ r # 0 BY LinkedKeys, Bounds
<1>4. seek' \in SeekRecords BY <1>2, <1>3, SeekFields, Bounds DEF SeekRecords
<1>5. /\ seek'.op = seek.op /\ seek'.key = seek.key /\ seek'.x = seek.x /\ seek'.level = 0
      /\ seek'.before = seek.before /\ seek'.res = r /\ seek'.iter = seek.iter
  BY <1>2, SeekFields DEF SeekRecords
<1>6. /\ SkipTypes' /\ Lists' /\ Inserting' /\ Counted'
      /\ Present' = Linked(0) /\ \A m \in Levels : Linked(m)' = Linked(m)
  BY <1>1, <1>4, ReaderFrame
<1>7. ~Searching' BY <1>3, <1>5 DEF Searching
<1>8. seek.op \in {"ge", "lt", "last"} /\ seek.iter = 0 BY DEF Searching, Standing
<1>9. AnswerRight'
  <2>1. CASE seek.op = "ge" BY <2>1, <1>5, <1>6 DEF AnswerRight
  <2>2. CASE seek.op = "lt" BY <2>2, <1>5, <1>6 DEF AnswerRight
  <2>3. CASE seek.op = "last" BY <2>3, <1>5, <1>6 DEF AnswerRight
  <2> QED BY <2>1, <2>2, <2>3, <1>8
<1>10. r \in 1 .. NumKeys => r \in Linked(0) BY Bounds
<1>11. Standing' BY <1>5, <1>6, <1>7, <1>8, <1>9, <1>10, Bounds DEF Standing
<1> QED BY <1>6, <1>11

(* A level below holds what the level above holds.                         *)
LEMMA OneDown ==
    ASSUME SkipConstants, SkipTypes, Lists, NEW l \in Levels, l # 0
    PROVE l - 1 \in Levels /\ Linked(l) \subseteq Linked(l - 1)
<1>1. l - 1 \in Levels /\ l - 1 <= l BY Bounds DEF SkipConstants
<1> QED BY <1>1 DEF Lists

(* Each step of a search for the first node not before the key.            *)
LEMMA FindGreaterOrEqualOK ==
    ASSUME SkipConstants, SkipInv, FindGreaterOrEqual PROVE SkipInv'
<1> USE DEF SkipInv
<1>1. PICK l, x, n : l = seek.level /\ x = seek.x /\ n = next[l][x] OBVIOUS
<1>2. Searching /\ seek.op = "ge" BY DEF FindGreaterOrEqual
<1>3. l \in Levels /\ x \in Linked(l) \cup {0} /\ x < seek.key /\ x \in Nat /\ seek.key \in Nat
  BY <1>1, <1>2, SeekFields DEF Standing
<1>4. /\ n \in Linked(l) \cup {Null} /\ n \in Nat
      /\ \A m \in Linked(l) : m > x => n <= m
  BY <1>1, <1>3, Successor
<1>5. CASE KeyIsAfterNode(seek.key, n)
  <2>1. Move(n, l, 0) BY <1>1, <1>5 DEF FindGreaterOrEqual
  <2>2. n \in Linked(l) /\ n < seek.key BY <1>4, <1>5 DEF KeyIsAfterNode
  <2> QED BY <2>1, <2>2, <1>2, <1>3, OnwardOK
<1>6. CASE ~KeyIsAfterNode(seek.key, n) /\ l = 0
  <2>1. Move(seek.x, 0, n) BY <1>1, <1>6 DEF FindGreaterOrEqual
  <2>2. n >= seek.key BY <1>3, <1>4, <1>6, SeekFields, Bounds DEF KeyIsAfterNode
  <2>3. \A k \in seek.before : k \in Linked(0) /\ k \in Nat
    BY LinkedKeys, Bounds DEF Standing
  <2>4. \A k \in seek.before : k >= seek.key => n <= k BY <2>3, <1>3, <1>4, <1>6
  <2> QED BY <2>1, <2>2, <2>4, <1>2, <1>4, <1>6, AnswerOK
<1>7. CASE ~KeyIsAfterNode(seek.key, n) /\ l # 0
  <2>1. Move(x, l - 1, 0) BY <1>1, <1>7 DEF FindGreaterOrEqual
  <2>2. l - 1 \in Levels /\ x \in Linked(l - 1) \cup {0} BY <1>3, <1>7, OneDown
  <2> QED BY <2>1, <2>2, <1>2, <1>3, OnwardOK
<1> QED BY <1>5, <1>6, <1>7

(* ... for the last node before the key.                                   *)
LEMMA FindLessThanOK == ASSUME SkipConstants, SkipInv, FindLessThan PROVE SkipInv'
<1> USE DEF SkipInv
<1>1. PICK l, x, n : l = seek.level /\ x = seek.x /\ n = next[l][x] OBVIOUS
<1>2. Searching /\ seek.op = "lt" BY DEF FindLessThan
<1>3. l \in Levels /\ x \in Linked(l) \cup {0} /\ x < seek.key /\ x \in Nat /\ seek.key \in Nat
  BY <1>1, <1>2, SeekFields DEF Standing
<1>4. /\ n \in Linked(l) \cup {Null} /\ n \in Nat
      /\ \A m \in Linked(l) : m > x => n <= m
  BY <1>1, <1>3, Successor
<1>5. CASE ~(n = Null \/ n >= seek.key)
  <2>1. Move(n, l, 0) BY <1>1, <1>5 DEF FindLessThan
  <2>2. n \in Linked(l) /\ n < seek.key BY <1>3, <1>4, <1>5
  <2> QED BY <2>1, <2>2, <1>2, <1>3, OnwardOK
<1>6. CASE (n = Null \/ n >= seek.key) /\ l = 0
  <2>1. PICK r : r = NodeOrNull(x) OBVIOUS
  <2>2. Move(seek.x, 0, r) BY <1>1, <1>6, <2>1 DEF FindLessThan
  <2>3. \A k \in seek.before : k \in Linked(0) /\ k \in 1 .. NumKeys
    BY LinkedKeys, Bounds DEF Standing
  <2>4. \A k \in seek.before : k > x => k >= seek.key
    BY <2>3, <1>3, <1>4, <1>6, SeekFields, Bounds
  <2>5. CASE x = 0
    <3>1. r = Null BY <2>1, <2>5 DEF NodeOrNull
    <3>2. \A k \in seek.before : k >= seek.key BY <2>3, <2>4, <2>5, Bounds
    <3> QED BY <2>2, <3>1, <3>2, <1>2, AnswerOK
  <2>6. CASE x # 0
    <3>1. r = x BY <2>1, <2>6 DEF NodeOrNull
    <3>2. r \in Linked(0) /\ r < seek.key /\ r # Null
      BY <3>1, <2>6, <1>3, <1>6, LinkedKeys, Bounds
    <3>3. \A k \in seek.before : k < seek.key => k <= r BY <2>3, <2>4, <3>1, <1>3, Bounds
    <3> QED BY <2>2, <3>2, <3>3, <1>2, AnswerOK
  <2> QED BY <2>5, <2>6
<1>7. CASE (n = Null \/ n >= seek.key) /\ l # 0
  <2>1. Move(x, l - 1, 0) BY <1>1, <1>7 DEF FindLessThan
  <2>2. l - 1 \in Levels /\ x \in Linked(l - 1) \cup {0} BY <1>3, <1>7, OneDown
  <2> QED BY <2>1, <2>2, <1>2, <1>3, OnwardOK
<1> QED BY <1>5, <1>6, <1>7

(* ... for the last node.                                                  *)
LEMMA FindLastOK == ASSUME SkipConstants, SkipInv, FindLast PROVE SkipInv'
<1> USE DEF SkipInv
<1>1. PICK l, x, n : l = seek.level /\ x = seek.x /\ n = next[l][x] OBVIOUS
<1>2. Searching /\ seek.op = "last" BY DEF FindLast
<1>3. l \in Levels /\ x \in Linked(l) \cup {0} /\ x \in Nat
  BY <1>1, <1>2, SeekFields DEF Standing
<1>4. /\ n \in Linked(l) \cup {Null} /\ n \in Nat
      /\ \A m \in Linked(l) : m > x => n <= m
  BY <1>1, <1>3, Successor
<1>5. CASE n # Null
  <2>1. Move(n, l, 0) BY <1>1, <1>5 DEF FindLast
  <2> QED BY <2>1, <1>2, <1>3, <1>4, <1>5, OnwardOK
<1>6. CASE n = Null /\ l = 0
  <2>1. PICK r : r = NodeOrNull(x) OBVIOUS
  <2>2. Move(seek.x, 0, r) BY <1>1, <1>6, <2>1 DEF FindLast
  <2>3. \A k \in seek.before : k \in Linked(0) /\ k \in 1 .. NumKeys
    BY LinkedKeys, Bounds DEF Standing
  <2>4. \A k \in seek.before : k <= x BY <2>3, <1>3, <1>4, <1>6, Bounds
  <2>5. CASE x = 0
    <3>1. r = Null BY <2>1, <2>5 DEF NodeOrNull
    <3>2. seek.before = {} BY <2>3, <2>4, <2>5, Bounds
    <3> QED BY <2>2, <3>1, <3>2, <1>2, AnswerOK
  <2>6. CASE x # 0
    <3>1. r = x BY <2>1, <2>6 DEF NodeOrNull
    <3>2. r \in Linked(0) /\ r # Null BY <3>1, <2>6, <1>3, <1>6, LinkedKeys, Bounds
    <3> QED BY <2>2, <2>4, <3>1, <3>2, <1>2, AnswerOK
  <2> QED BY <2>5, <2>6
<1>7. CASE n = Null /\ l # 0
  <2>1. Move(x, l - 1, 0) BY <1>1, <1>7 DEF FindLast
  <2>2. l - 1 \in Levels /\ x \in Linked(l - 1) \cup {0} BY <1>3, <1>7, OneDown
  <2> QED BY <2>1, <2>2, <1>2, <1>3, OnwardOK
<1> QED BY <1>5, <1>6, <1>7

(* A step of an iterator, on the level it was made for.                    *)
LEMMA IterateOK ==
    ASSUME SkipConstants, SkipInv, UNCHANGED <<next, max_height, nputs, ins>>,
           NEW l \in Levels, NEW n \in Linked(l) \cup {0},
           seek' = [op |-> "next", key |-> n, x |-> 0, level |-> seek'.level,
                    before |-> Reach(l), res |-> next[l][n], iter |-> l],
           seek'.level \in Levels
    PROVE SkipInv'
<1> USE DEF SkipInv
<1>1. Reach(l) = Linked(l) /\ Linked(l) \subseteq 1 .. NumKeys /\ Linked(l) \subseteq Linked(0)
  BY LinkedKeys
<1>2. PICK r : r = next[l][n] OBVIOUS
<1>3. /\ n \in 0 .. NumKeys /\ n \in Nat /\ r \in Linked(l) \cup {Null} /\ r \in 1 .. Null
      /\ r > n /\ \A m \in Linked(l) : m > n => r <= m
  BY <1>2, Successor
<1>4. /\ seek'.op = "next" /\ seek'.key = n /\ seek'.x = 0
      /\ seek'.before = Linked(l) /\ seek'.res = r /\ seek'.iter = l
  BY <1>1, <1>2
<1>5. seek' \in SeekRecords
  <2>1. /\ "next" \in Ops /\ 0 \in 0 .. NumKeys /\ r \in 0 .. Null
        /\ Reach(l) \in SUBSET (1 .. NumKeys)
    BY <1>1, <1>3, Bounds DEF Ops
  <2> QED BY <2>1, <1>2, <1>3 DEF SeekRecords
<1>6. /\ SkipTypes' /\ Lists' /\ Inserting' /\ Counted'
      /\ Present' = Linked(0) /\ \A m \in Levels : Linked(m)' = Linked(m)
  BY <1>5, ReaderFrame
<1>7. ~Searching' BY <1>4 DEF Searching
<1>8. AnswerRight' BY <1>1, <1>3, <1>4, <1>6 DEF AnswerRight
<1>9. r \in 1 .. NumKeys => r \in Linked(l) BY <1>3, Bounds
<1>10. Standing' BY <1>1, <1>4, <1>6, <1>7, <1>8, <1>9, Bounds DEF Standing
<1> QED BY <1>6, <1>10

(* A sampling iterator starts on a level there is.                         *)
LEMMA SampledLevelOK ==
    ASSUME SkipConstants, NEW puts PROVE SampledLevel(puts) \in Levels
<1> DEFINE dense == {l \in Levels : nputs[l] > puts}
<1>1. CASE puts = 0 \/ dense = {} BY <1>1, Bounds DEF SampledLevel
<1>2. CASE ~(puts = 0 \/ dense = {})
  <2>1. MaxHeight - 1 \in Nat /\ dense \in SUBSET (0 .. MaxHeight - 1)
    BY Bounds DEF SkipConstants
  <2>2. \E l \in dense : \A m \in dense : m <= l BY <1>2, <2>1, GreatestNat
  <2>3. SampledLevel(puts) = CHOOSE l \in dense : \A m \in dense : m <= l
    BY <1>2 DEF SampledLevel
  <2> HIDE DEF dense
  <2>4. (CHOOSE l \in dense : \A m \in dense : m <= l) \in dense BY <2>2
  <2> QED BY <2>1, <2>3, <2>4, Bounds
<1> QED BY <1>1, <1>2

(* An iterator made at the head of its level.                              *)
LEMMA SeekToFirstOK == ASSUME SkipConstants, SkipInv, NEW puts, SeekToFirst(puts) PROVE SkipInv'
<1>1. PICK l : l = SampledLevel(puts) OBVIOUS
<1>2. l \in Levels /\ 0 \in Levels BY <1>1, SampledLevelOK, Bounds
<1>3. /\ UNCHANGED <<next, max_height, nputs, ins>>
      /\ seek' = [op |-> "next", key |-> 0, x |-> 0, level |-> 0,
                  before |-> Reach(l), res |-> next[l][0], iter |-> l]
  BY Zenon, <1>1 DEF SeekToFirst
<1>4. seek'.level = 0 BY <1>3
<1> QED BY <1>2, <1>3, <1>4, IterateOK

(* An iterator moved to the next node of its level.                        *)
LEMMA SkipNextOK == ASSUME SkipConstants, SkipInv, SkipNext PROVE SkipInv'
<1>1. PICK l, n : l = seek.iter /\ n = seek.res OBVIOUS
<1>2. l \in Levels /\ n \in Linked(l) /\ seek.level \in Levels /\ seek \in SeekRecords
  BY <1>1, SeekFields DEF SkipNext, Positioned, SkipInv, Standing
<1>3. /\ UNCHANGED <<next, max_height, nputs, ins>>
      /\ seek' = [seek EXCEPT !.op = "next", !.key = n, !.x = 0, !.before = Reach(l),
                              !.res = next[l][n]]
  BY <1>1 DEF SkipNext
<1>4. /\ seek' = [op |-> "next", key |-> n, x |-> 0, level |-> seek.level,
                  before |-> Reach(l), res |-> next[l][n], iter |-> l]
      /\ seek'.level = seek.level
  BY <1>1, <1>2, <1>3 DEF SeekRecords
<1> QED BY <1>2, <1>3, <1>4, IterateOK

-----------------------------------------------------------------------------
(* An empty list.                                                          *)
LEMMA SkipInitOK == ASSUME SkipConstants, SkipInit PROVE SkipInv
<1>1. \A l \in Levels : /\ next[l][0] = Null
                         /\ \A n \in 1 .. NumKeys : next[l][n] = 0
  BY Bounds DEF SkipInit
<1>2. \A l \in Levels : Linked(l) = {} BY <1>1 DEF Linked
<1>3. SkipTypes
  <2>1. next \in [Levels -> [0 .. NumKeys -> 0 .. Null]] BY Bounds DEF SkipInit
  <2>2. max_height \in 1 .. MaxHeight /\ nputs \in [Levels -> Nat]
    BY DEF SkipInit, SkipConstants
  <2>3. ins \in [key : 0 .. NumKeys, height : 0 .. MaxHeight, prev : [Levels -> 0 .. NumKeys],
                 at : 0 .. MaxHeight, linked : BOOLEAN]
    BY Bounds DEF SkipInit, NoInsert, SkipConstants
  <2>4. seek \in SeekRecords BY Bounds DEF SkipInit, SeekRecords, Ops
  <2> QED BY <2>1, <2>2, <2>3, <2>4 DEF SkipTypes, SeekRecords
<1>4. Lists BY <1>1, <1>2, Bounds DEF Lists, Chained
<1>5. Inserting BY DEF Inserting, SkipInit
<1>6. Counted
  <2>1. ~ins.linked /\ \A l \in Levels : nputs[l] = 0 BY DEF SkipInit, NoInsert
  <2>2. \A l \in Levels : Cardinality(Linked(l)) = 0 BY <1>2, FS_EmptySet
  <2> QED BY <2>1, <2>2 DEF Counted
<1>7. seek.op = "none" /\ seek.before = {} /\ seek.res = 0 BY DEF SkipInit
<1>8. Standing BY <1>7 DEF Standing, Searching, AnswerRight
<1> QED BY <1>3, <1>4, <1>5, <1>6, <1>8 DEF SkipInv

(* Every step keeps the invariant.                                         *)
LEMMA SkipStepOK == ASSUME SkipConstants, SkipInv, [SkipStep]_skipVars PROVE SkipInv'
<1>1. CASE UNCHANGED skipVars
  <2>1. UNCHANGED <<next, max_height, nputs, ins, seek>> BY <1>1 DEF skipVars
  <2>2. seek' \in SeekRecords BY <2>1, SeekFields DEF SkipInv
  <2>3. SkipTypes' /\ Lists' /\ Inserting' /\ Counted' /\ \A l \in Levels : Linked(l)' = Linked(l)
    BY <2>1, <2>2, ReaderFrame
  <2>4. Standing' BY <2>1, <2>3, StandingFrame DEF SkipInv
  <2> QED BY <2>3, <2>4 DEF SkipInv
<1>2. CASE SkipStep
  <2>1. CASE \E k \in 1 .. NumKeys, h \in 1 .. MaxHeight : Insert(k, h) BY <2>1, InsertOK
  <2>2. CASE LinkLevel BY <2>2, LinkLevelOK
  <2>3. CASE CountPut BY <2>3, CountPutOK
  <2>4. CASE \E k \in 1 .. NumKeys : seek.iter = 0 /\ SeekCall(k)
    <3>1. PICK k \in 1 .. NumKeys : seek.iter = 0 /\ Start("ge", k) BY <2>4 DEF SeekCall
    <3>2. k \in 0 .. NumKeys /\ k > 0 BY Bounds
    <3> QED BY <3>1, <3>2, StartOK
  <2>5. CASE PrevCall
    <3>1. seek.res \in 1 .. NumKeys /\ seek.iter = 0 /\ Start("lt", seek.res)
      BY <2>5 DEF PrevCall, Positioned
    <3>2. seek.res \in 0 .. NumKeys /\ seek.res > 0 BY <3>1, Bounds
    <3> QED BY <3>1, <3>2, StartOK
  <2>6. CASE seek.iter = 0 /\ SeekToLastCall
    <3>1. 0 \in 0 .. NumKeys BY Bounds
    <3> QED BY <2>6, <3>1, StartOK DEF SeekToLastCall
  <2>7. CASE FindGreaterOrEqual BY <2>7, FindGreaterOrEqualOK
  <2>8. CASE FindLessThan BY <2>8, FindLessThanOK
  <2>9. CASE FindLast BY <2>9, FindLastOK
  <2>10. CASE \E puts \in Samples : SeekToFirst(puts) BY <2>10, SeekToFirstOK
  <2>11. CASE SkipNext BY <2>11, SkipNextOK
  <2> QED BY <1>2, <2>1, <2>2, <2>3, <2>4, <2>5, <2>6, <2>7, <2>8, <2>9, <2>10, <2>11
       DEF SkipStep
<1> QED BY <1>1, <1>2

(* What the invariant says of readers.                                     *)
LEMMA SkipInvSuffices == ASSUME SkipConstants, SkipInv PROVE LockFreeReads
<1> USE DEF SkipInv
<1>1. ~Searching => AnswerRight BY DEF Standing
<1>2. ASSUME NEW l \in Levels
      PROVE /\ Sorted(l)
            /\ l > 0 => Reach(l) \subseteq Reach(l - 1)
            /\ Cardinality(Reach(l)) = nputs[l] + (IF ins.linked /\ ins.at = l THEN 1 ELSE 0)
  <2>1. Reach(l) = Linked(l) BY LinkedKeys
  <2>2. Sorted(l) BY <2>1, Successor DEF Sorted
  <2>3. ASSUME l > 0 PROVE Reach(l) \subseteq Reach(l - 1)
    <3>1. l - 1 \in Levels /\ Linked(l) \subseteq Linked(l - 1) BY <2>3, Bounds, OneDown
    <3>2. Reach(l - 1) = Linked(l - 1) BY <3>1, LinkedKeys
    <3> QED BY <2>1, <3>1, <3>2
  <2> QED BY <2>1, <2>2, <2>3 DEF Counted
<1> QED BY <1>1, <1>2 DEF LockFreeReads

(* The skip list without locks (db/skiplist.h): whatever the keys, the     *)
(* levels and the sampling, and however the steps of an insertion and of a *)
(* search interleave, a finished read answers as it must, every level is a *)
(* sorted sublist of the one below it, and nputs_per_level counts its      *)
(* nodes.                                                                  *)
THEOREM ReadsNeedNoLock == ASSUME SkipConstants PROVE SkipSpec => []LockFreeReads
<1>1. SkipInit => SkipInv BY SkipInitOK
<1>2. SkipInv /\ [SkipStep]_skipVars => SkipInv' BY SkipStepOK
<1>3. SkipInv => LockFreeReads BY SkipInvSuffices
<1> QED BY <1>1, <1>2, <1>3, PTL DEF SkipSpec
=============================================================================
