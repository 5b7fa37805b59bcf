------------------------- MODULE LsmReadPath_levels -------------------------
(***************************************************************************)
(* VersionWellFormed holds in every reachable state, whatever the          *)
(* constants: the sets that ComputeCompactions picks lie apart from each   *)
(* other and from what stays in the level they go to, and what a merge     *)
(* writes lies within what it read.                                        *)
(***************************************************************************)
EXTENDS LsmReadPath_compactions

\* Leaves are tried with Zenon; those that need arithmetic or EXCEPT cite SMT.
USE Zenon, SMT

\* the keys A lie below the keys B
LeftOf(A, B) == \A a \in A, b \in B : a < b
Apart(A, B) == LeftOf(A, B) \/ LeftOf(B, A)

\* the tables f and g do not overlap
Disjoint(f, g) == Apart(KeysOf({f}), KeysOf({g}))

\* Above level 0 nothing changes between the coordinator's reference and its choice.
SameLevels == cpc = "pick" => \A l \in Level \ {0} : vfiles[cvid][l] = vfiles[current][l]

\* A compaction into level 1 or above lies apart from the tables that stay there and from
\* the other compactions into that level; its outputs lie apart from each other.
AsideFrom(c, fs) == \A h \in fs \ Inputs(c) : Apart(KeysOf({h}), KeysOf(Inputs(c)))

Within(c) ==
  /\ \A g \in c.out : KeysOf({g}) \subseteq KeysOf(Inputs(c))
  /\ \A g, h \in c.out : g # h => Disjoint(g, h)

Aside ==
  \A c \in Uninstalled : c.tgt # 0 =>
    /\ AsideFrom(c, vfiles[current][c.tgt]) /\ Within(c)
    /\ \A d \in Uninstalled : d # c /\ d.tgt = c.tgt => Apart(KeysOf(Inputs(c)), KeysOf(Inputs(d)))

\* VersionWellFormed, table by table.
Sorted ==
  \A v \in linked :
    /\ \A l \in Level \ {0} : \A f, g \in vfiles[v][l] : f # g => Disjoint(f, g)
    /\ \A l, o \in Level : l # o => vfiles[v][l] \cap vfiles[v][o] = {}

LevelInv == Sorted /\ SameLevels /\ Aside

-----------------------------------------------------------------------------
(* Keys *)

\* The keys of tables are numbers.
LEMMA KeysNumbers == ASSUME IInv, NEW F \in SUBSET Fn PROVE KeysOf(F) \subseteq Int
<1>1. \A f \in F : content[f] \subseteq Entry BY DEF IInv, TypeOK, TypeFiles
<1>2. \A e \in Entry : e[1] \in Int
  <2>1. \A e \in Entry : e[1] \in Key BY SMT DEF Entry
  <2>2. Key \subseteq Int BY ConstantsOK
  <2> QED BY <2>1, <2>2
<1> QED BY <1>1, <1>2 DEF KeysOf

\* A key of tables is a key of one of them.
LEMMA KeysIn ==
  ASSUME NEW F, NEW k PROVE k \in KeysOf(F) <=> \E f \in F : k \in KeysOf({f})
BY DEF KeysOf

\* Overlaps compares the ranges of keys.
LEMMA OverlapsApart ==
  ASSUME NEW f, NEW F, KeysOf({f}) \subseteq Int, KeysOf(F) \subseteq Int
  PROVE  ~Overlaps(f, F) <=> Apart(KeysOf({f}), KeysOf(F))
<1>1. PICK A : A = KeysOf({f}) OBVIOUS
<1>2. PICK B : B = KeysOf(F) OBVIOUS
<1>3. Overlaps(f, F) <=> (\E a \in A, b \in B : a <= b) /\ (\E a \in A, b \in B : b <= a)
  BY <1>1, <1>2 DEF Overlaps
<1>4. \A a \in A, b \in B : (~(a <= b) <=> b < a) /\ (~(b <= a) <=> a < b) BY <1>1, <1>2
<1>5. Apart(A, B) <=> (\A a \in A, b \in B : a < b) \/ (\A a \in A, b \in B : b < a) BY DEF Apart, LeftOf
<1>6. ~(\E a \in A, b \in B : a <= b) <=> (\A a \in A, b \in B : b < a) BY <1>4
<1>7. ~(\E a \in A, b \in B : b <= a) <=> (\A a \in A, b \in B : a < b) BY <1>4
<1> QED BY <1>1, <1>2, <1>3, <1>5, <1>6, <1>7

\* Apart is symmetric and goes over to smaller sets.
LEMMA ApartSmaller ==
  ASSUME NEW A, NEW B, NEW C, NEW D, Apart(A, B), C \subseteq A, D \subseteq B
  PROVE  Apart(C, D) /\ Apart(D, C)
BY DEF Apart, LeftOf

\* A table that lies on one side of a set, and apart from each table that overlaps the set,
\* lies on that side of all of them.
LEMMA SameSide ==
  ASSUME NEW A \in SUBSET Int, NEW S \in SUBSET Int, NEW T, \A B \in T : B \in SUBSET Int,
         \A B \in T : ~Apart(B, S), \A B \in T : Apart(A, B)
  PROVE  /\ LeftOf(A, S) => \A B \in T : LeftOf(A, B)
         /\ LeftOf(S, A) => \A B \in T : LeftOf(B, A)
<1>1. ASSUME LeftOf(A, S), NEW B \in T PROVE LeftOf(A, B)
  <2> SUFFICES ASSUME LeftOf(B, A), NEW a \in A PROVE FALSE BY DEF Apart, LeftOf
  <2>1. PICK y \in B : \E x \in S : ~(y < x) BY DEF Apart, LeftOf
  <2>2. PICK x \in S : ~(y < x) BY <2>1
  <2>3. y < a /\ a < x BY <1>1 DEF LeftOf
  <2> QED BY <2>2, <2>3
<1>2. ASSUME LeftOf(S, A), NEW B \in T PROVE LeftOf(B, A)
  <2> SUFFICES ASSUME LeftOf(A, B), NEW a \in A PROVE FALSE BY DEF Apart, LeftOf
  <2>1. PICK y \in B : \E x \in S : ~(x < y) BY DEF Apart, LeftOf
  <2>2. PICK x \in S : ~(x < y) BY <2>1
  <2>3. x < a /\ a < y BY <1>2 DEF LeftOf
  <2> QED BY <2>2, <2>3
<1> QED BY <1>1, <1>2

-----------------------------------------------------------------------------
(* What ComputeNonOverlappingSet picks *)

\* A compaction into the next level has a core, the whole component or one file: it takes what
\* overlaps the core in the next level, and from its own level besides the core only files inside that.
Core(c, s, l, u) ==
  /\ s \subseteq c.in0 /\ c.in0 \subseteq l /\ c.in1 = {h \in u : Overlaps(h, s)}
  /\ \A g \in c.in0 \ s : Inside(g, c.in1)
  /\ s \in Component(l, u) \/ \E f \in l : s = {f}

\* It has a core, or is a merge of files that overlap one of them.
Shape(c, lev, l, u) ==
  \/ c.tgt = lev + 1 /\ \E s \in SUBSET l : Core(c, s, l, u)
  \/ c.tgt = lev /\ c.in1 = {} /\ c.in0 \subseteq l /\ \E f \in c.in0 : \A g \in c.in0 : Overlaps(g, {f})

\* Every compaction is of one of the two kinds.
LEMMA PickCore ==
  ASSUME NEW lev \in Nat, NEW l \in SUBSET Fn, NEW u \in SUBSET Fn, NEW c \in Pick(lev, l, u)
  PROVE  Shape(c, lev, l, u)
<1>1. \A s \in Component(l, u) : s \subseteq l BY DEF Component
<1> DEFINE Beneath(s) == {h \in u : Overlaps(h, s)}
           Whole == {s \in Component(l, u) : Cardinality(s) + Cardinality(Beneath(s)) <= MaxInputs}
           Seeds == UNION (Component(l, u) \ Whole)
           Narrow == {f \in Seeds : 1 + Cardinality(Beneath({f})) <= MaxInputs}
           Room(f) == MaxInputs - 1 - Cardinality(Beneath({f}))
           First == {Compaction(lev, lev + 1, s, Beneath(s)) : s \in Whole}
           Second == UNION {{Compaction(lev, lev + 1, s \cup {f}, Beneath({f})) :
                       s \in {t \in SUBSET {h \in l \ {f} : Inside(h, Beneath({f}))} :
                                /\ Cardinality(t) <= Room(f)
                                /\ \A h \in l \ (t \cup {f}) : Inside(h, Beneath({f})) => Cardinality(t) = Room(f)}}
                       : f \in Narrow}
           Third == {Compaction(lev, lev, s, {}) :
                       s \in {t \in SUBSET l : /\ \E f \in t \ Narrow : f \in Seeds /\ \A g \in t : Overlaps(g, {f})
                                               /\ Cardinality(t) <= MaxInputs}}
<1>2. c \in First \/ c \in Second \/ c \in Third BY DEF Pick
<1>3. Narrow \subseteq l /\ Whole \subseteq Component(l, u) BY <1>1
<1>4. CASE c \in First
  <2>1. PICK s \in Whole : c = Compaction(lev, lev + 1, s, Beneath(s)) BY <1>4
  <2>2. c.tgt = lev + 1 /\ c.in0 = s /\ c.in1 = Beneath(s) BY <2>1 DEF Compaction
  <2>3. s \in Component(l, u) /\ s \in SUBSET l BY <1>1, <1>3, <2>1
  <2>4. Core(c, s, l, u) BY <2>2, <2>3 DEF Core
  <2> QED BY <2>2, <2>3, <2>4 DEF Shape
<1>5. CASE c \in Second
  <2>1. PICK f \in Narrow : \E s \in SUBSET {h \in l \ {f} : Inside(h, Beneath({f}))} :
                              c = Compaction(lev, lev + 1, s \cup {f}, Beneath({f}))
    BY <1>5
  <2>2. PICK s \in SUBSET {h \in l \ {f} : Inside(h, Beneath({f}))} :
               c = Compaction(lev, lev + 1, s \cup {f}, Beneath({f}))
    BY <2>1
  <2>3. c.tgt = lev + 1 /\ c.in0 = s \cup {f} /\ c.in1 = Beneath({f}) BY <2>2 DEF Compaction
  <2>4. f \in l /\ {f} \in SUBSET l /\ s \subseteq l BY <1>3, <2>1, <2>2
  <2>5. \A g \in c.in0 \ {f} : Inside(g, c.in1) BY <2>2, <2>3
  <2>6. Core(c, {f}, l, u) BY <2>3, <2>4, <2>5 DEF Core
  <2> QED BY <2>3, <2>4, <2>6 DEF Shape
<1>6. CASE c \in Third
  <2>1. PICK s \in SUBSET l : /\ c = Compaction(lev, lev, s, {})
                              /\ \E f \in s : \A g \in s : Overlaps(g, {f})
    BY <1>6
  <2>2. c.tgt = lev /\ c.in0 = s /\ c.in1 = {} BY <2>1 DEF Compaction
  <2> QED BY <2>1, <2>2 DEF Shape
<1> QED BY <1>2, <1>4, <1>5, <1>6

\* Keys that lie apart from the core and from each file beneath lie apart from all inputs.
LEMMA CoreSide ==
  ASSUME IInv, NEW A \in SUBSET Int, NEW c, NEW s, NEW l \in SUBSET Fn, NEW u \in SUBSET Fn,
         Core(c, s, l, u), Apart(A, KeysOf(s)), \A h \in c.in1 : Apart(A, KeysOf({h}))
  PROVE  Apart(A, KeysOf(Inputs(c)))
<1>0. PICK S, B : S = KeysOf(s) /\ B = KeysOf(c.in1) OBVIOUS
<1>1. s \in SUBSET Fn /\ c.in0 \in SUBSET Fn /\ c.in1 \in SUBSET Fn BY DEF Core
<1>2. S \in SUBSET Int /\ B \in SUBSET Int BY <1>0, <1>1, KeysNumbers
<1>3. \A h \in c.in1 : KeysOf({h}) \in SUBSET Int BY <1>1, KeysNumbers
<1>4. \A h \in c.in1 : ~Apart(KeysOf({h}), S)
  <2>1. \A h \in c.in1 : Overlaps(h, s) BY DEF Core
  <2> QED BY <2>1, <1>0, <1>2, <1>3, OverlapsApart
<1>5. PICK T : T = {KeysOf({h}) : h \in c.in1} OBVIOUS
<1>6. /\ LeftOf(A, S) => \A X \in T : LeftOf(A, X)
      /\ LeftOf(S, A) => \A X \in T : LeftOf(X, A)
  <2>1. \A X \in T : X \in SUBSET Int /\ ~Apart(X, S) /\ Apart(A, X) BY <1>3, <1>4, <1>5
  <2> QED BY <1>2, <2>1, SameSide
<1>7. \A b \in B : \E X \in T : b \in X
  <2>1. \A b \in B : \E h \in c.in1 : b \in KeysOf({h}) BY <1>0, KeysIn
  <2> QED BY <2>1, <1>5
<1>8. (LeftOf(A, S) => LeftOf(A, B)) /\ (LeftOf(S, A) => LeftOf(B, A)) BY <1>6, <1>7 DEF LeftOf
<1>9. ASSUME NEW k \in KeysOf(Inputs(c)), k \notin S, k \notin B
      PROVE  k \in Int /\ \E b, d \in B : b < k /\ k < d
  <2>1. PICK g \in Inputs(c) : k \in KeysOf({g}) BY KeysIn
  <2>2. g \in c.in0 \ s BY <2>1, <1>0, <1>9, KeysIn DEF Inputs
  <2>3. Inside(g, c.in1) BY <2>2 DEF Core
  <2>4. \E b, d \in B : b < k /\ k < d BY <1>0, <2>1, <2>3 DEF Inside
  <2>5. KeysOf({g}) \subseteq Int BY <1>1, <2>2, KeysNumbers
  <2> QED BY <2>1, <2>4, <2>5
<1>10. ASSUME LeftOf(A, S) PROVE LeftOf(A, KeysOf(Inputs(c)))
  <2> SUFFICES ASSUME NEW a \in A, NEW k \in KeysOf(Inputs(c)) PROVE a < k BY DEF LeftOf
  <2>1. CASE k \in S \/ k \in B BY <2>1, <1>8, <1>10 DEF LeftOf
  <2>2. CASE k \notin S /\ k \notin B
    <3>1. PICK b \in B : b < k /\ k \in Int BY <2>2, <1>9
    <3>2. a < b BY <1>8, <1>10 DEF LeftOf
    <3> QED BY SMT, <3>1, <3>2, <1>2
  <2> QED BY <2>1, <2>2
<1>11. ASSUME LeftOf(S, A) PROVE LeftOf(KeysOf(Inputs(c)), A)
  <2> SUFFICES ASSUME NEW a \in A, NEW k \in KeysOf(Inputs(c)) PROVE k < a BY DEF LeftOf
  <2>1. CASE k \in S \/ k \in B BY <2>1, <1>8, <1>11 DEF LeftOf
  <2>2. CASE k \notin S /\ k \notin B
    <3>1. PICK d \in B : k < d /\ k \in Int BY <2>2, <1>9
    <3>2. d < a BY <1>8, <1>11 DEF LeftOf
    <3> QED BY SMT, <3>1, <3>2, <1>2
  <2> QED BY <2>1, <2>2
<1> QED BY <1>0, <1>10, <1>11 DEF Apart

\* What a table overlaps together with others, it overlaps in every larger set.
LEMMA OverlapsMore ==
  ASSUME NEW f, NEW F, NEW G, F \subseteq G, Overlaps(f, F) PROVE Overlaps(f, G)
<1>1. KeysOf(F) \subseteq KeysOf(G) BY DEF KeysOf
<1> QED BY <1>1 DEF Overlaps

\* Keys that lie apart from every file of the two levels lie on one side of a component: the files
\* of the component on the other side would be a smaller one.
LEMMA ComponentSide ==
  ASSUME IInv, NEW A \in SUBSET Int, NEW l \in SUBSET Fn, NEW u \in SUBSET Fn, NEW s \in Component(l, u),
         \A h \in l \cup u : Apart(A, KeysOf({h}))
  PROVE  Apart(A, KeysOf(s))
<1>0. s \subseteq l /\ Closed(s, l, u) /\ \A t \in (SUBSET s) \ {{}, s} : ~Closed(t, l, u) BY DEF Component
<1> DEFINE t == {g \in s : LeftOf(KeysOf({g}), A)}
<1>1. CASE A = {} BY <1>1 DEF Apart, LeftOf
<1>2. CASE A # {} /\ t = s
  <2>1. \A k \in KeysOf(s) : \E g \in s : k \in KeysOf({g}) BY KeysIn
  <2>2. \A g \in s : LeftOf(KeysOf({g}), A) BY <1>2
  <2>3. LeftOf(KeysOf(s), A) BY <2>1, <2>2 DEF LeftOf
  <2> QED BY <2>3 DEF Apart
<1>3. CASE A # {} /\ t = {}
  <2>1. \A k \in KeysOf(s) : \E g \in s : k \in KeysOf({g}) BY KeysIn
  <2>2. \A g \in s : LeftOf(A, KeysOf({g})) BY <1>0, <1>3 DEF Apart
  <2>3. LeftOf(A, KeysOf(s)) BY <2>1, <2>2 DEF LeftOf
  <2> QED BY <2>3 DEF Apart
<1>4. CASE A # {} /\ t # s /\ t # {}
  <2>0. t \subseteq s /\ t \in (SUBSET s) \ {{}, s} BY <1>4
  <2>1. \A g \in t : LeftOf(KeysOf({g}), A) OBVIOUS
  <2>2. \A g \in s : LeftOf(KeysOf({g}), A) => g \in t OBVIOUS
  <2> HIDE DEF t
  <2>3. PICK a : a \in A BY <1>4
  <2>4. ASSUME NEW G \in SUBSET Fn, LeftOf(KeysOf(G), A), NEW h \in l \cup u, Overlaps(h, G)
        PROVE  LeftOf(KeysOf({h}), A)
    <3>1. KeysOf({h}) \subseteq Int /\ KeysOf(G) \subseteq Int BY KeysNumbers
    <3> SUFFICES ASSUME LeftOf(A, KeysOf({h})) PROVE FALSE BY DEF Apart
    <3>2. PICK x \in KeysOf({h}), y \in KeysOf(G) : x <= y BY <2>4 DEF Overlaps
    <3>3. a < x /\ y < a BY <2>3, <2>4 DEF LeftOf
    <3> QED BY SMT, <3>1, <3>2, <3>3, <2>3
  <2> DEFINE B == {h \in u : Overlaps(h, t)}
             D == {h \in u : Overlaps(h, s)}
  <2>5. LeftOf(KeysOf(t), A)
    <3>1. \A k \in KeysOf(t) : \E g \in t : k \in KeysOf({g}) BY KeysIn
    <3> QED BY <2>1, <3>1 DEF LeftOf
  <2>6. t \in SUBSET Fn /\ B \in SUBSET Fn BY <1>0, <2>0
  <2>7. \A h \in B : LeftOf(KeysOf({h}), A) BY <2>4, <2>5, <2>6
  <2>8. B \subseteq D BY <2>0, OverlapsMore
  <2>9. LeftOf(KeysOf(t \cup B), A)
    <3>1. \A k \in KeysOf(t \cup B) : \E g \in t \cup B : k \in KeysOf({g}) BY KeysIn
    <3> HIDE DEF B
    <3>2. \A g \in t \cup B : LeftOf(KeysOf({g}), A) BY <2>1, <2>7
    <3> QED BY <3>1, <3>2 DEF LeftOf
  <2>10. ASSUME NEW g \in l, Overlaps(g, t \cup B) PROVE g \in t
    <3> HIDE DEF B, D
    <3>1. t \cup B \subseteq s \cup D BY <2>0, <2>8
    <3>2. Overlaps(g, s \cup D) BY <2>10, <3>1, OverlapsMore
    <3>3. g \in s BY <1>0, <3>2 DEF Closed, D
    <3>4. t \cup B \in SUBSET Fn BY <2>6
    <3>5. LeftOf(KeysOf({g}), A) BY <2>4, <2>9, <2>10, <3>4
    <3> QED BY <2>2, <3>3, <3>5
  <2>11. Closed(t, l, u) BY <2>10 DEF Closed
  <2> QED BY <1>0, <2>0, <2>11
<1> QED BY <1>1, <1>2, <1>3, <1>4

\* A compaction into the next level lies apart from what stays there.
LEMMA PickAside ==
  ASSUME IInv, NEW c, NEW s, NEW l \in SUBSET Fn, NEW u \in SUBSET Fn, Core(c, s, l, u),
         \A f, g \in u : f # g => Disjoint(f, g), NEW h \in u \ c.in1
  PROVE  Apart(KeysOf({h}), KeysOf(Inputs(c)))
<1>1. KeysOf({h}) \in SUBSET Int BY KeysNumbers
<1>2. s \in SUBSET Fn /\ c.in1 \subseteq u BY DEF Core
<1>3. Apart(KeysOf({h}), KeysOf(s))
  <2>1. ~Overlaps(h, s) BY DEF Core
  <2>2. KeysOf(s) \subseteq Int BY <1>2, KeysNumbers
  <2> QED BY <2>1, <2>2, <1>1, OverlapsApart
<1>4. \A g \in c.in1 : Apart(KeysOf({h}), KeysOf({g})) BY <1>2 DEF Disjoint
<1> QED BY <1>1, <1>3, <1>4, CoreSide

\* It lies apart from keys that lie apart from every file it could be picked from.
LEMMA PickBeside ==
  ASSUME IInv, NEW A \in SUBSET Int, NEW c, NEW s, NEW l \in SUBSET Fn, NEW u \in SUBSET Fn, Core(c, s, l, u),
         \A h \in l \cup u : Apart(A, KeysOf({h}))
  PROVE  Apart(A, KeysOf(Inputs(c)))
<1>1. Apart(A, KeysOf(s))
  <2>1. CASE s \in Component(l, u) BY <2>1, ComponentSide
  <2>2. CASE \E f \in l : s = {f} BY <2>2
  <2> QED BY <2>1, <2>2 DEF Core
<1>2. c.in1 \subseteq u BY DEF Core
<1> QED BY <1>1, <1>2, CoreSide

-----------------------------------------------------------------------------
(* The batch of ComputeCompactions *)

\* cs is the batch that begins with c, from the files l of level lev and u of the next
Batch(lev, l, u, c, cs) ==
  /\ c \in Pick(lev, l, u)
  /\ cs = {c} \/ \E d \in Pick(lev, Rest(c, l), Rest(c, u)) : cs = {c, d}
  /\ ctodo' = {d \in cs : ~Trivial(d)}
  /\ ccur' = {[d EXCEPT !.out = d.in0] : d \in {x \in cs : Trivial(x)}}

\* ComputeCompactions works on the version the coordinator referenced.
LEMMA BatchPicks ==
  ASSUME ComputeCompactions
  PROVE  \E lev \in 0 .. NumLevels - 2 : \E c, cs : Batch(lev, vfiles[cvid][lev], vfiles[cvid][lev + 1], c, cs)
<1>1. PICK lev \in 0 .. NumLevels - 2 :
        \E c \in Pick(lev, vfiles[cvid][lev], vfiles[cvid][lev + 1]) :
          \E cs \in {{c}} \cup {{c, d} : d \in Pick(lev, Rest(c, vfiles[cvid][lev]), Rest(c, vfiles[cvid][lev + 1]))} :
             /\ ctodo' = {d \in cs : ~Trivial(d)}
             /\ ccur' = {[d EXCEPT !.out = d.in0] : d \in {x \in cs : Trivial(x)}}
  BY Zenon DEF ComputeCompactions
<1>2. PICK c \in Pick(lev, vfiles[cvid][lev], vfiles[cvid][lev + 1]) :
          \E cs \in {{c}} \cup {{c, d} : d \in Pick(lev, Rest(c, vfiles[cvid][lev]), Rest(c, vfiles[cvid][lev + 1]))} :
             /\ ctodo' = {d \in cs : ~Trivial(d)}
             /\ ccur' = {[d EXCEPT !.out = d.in0] : d \in {x \in cs : Trivial(x)}}
  BY <1>1, Zenon
<1>3. PICK cs \in {{c}} \cup {{c, d} : d \in Pick(lev, Rest(c, vfiles[cvid][lev]), Rest(c, vfiles[cvid][lev + 1]))} :
             /\ ctodo' = {d \in cs : ~Trivial(d)}
             /\ ccur' = {[d EXCEPT !.out = d.in0] : d \in {x \in cs : Trivial(x)}}
  BY <1>2, Zenon
<1>4. Batch(lev, vfiles[cvid][lev], vfiles[cvid][lev + 1], c, cs) BY <1>2, <1>3, Zenon DEF Batch
<1> QED BY <1>4, Zenon

\* A merge within a level whose tables do not overlap has one input.
LEMMA OneInput ==
  ASSUME IInv, NEW x, NEW l \in SUBSET Fn, \A f, g \in l : f # g => Disjoint(f, g),
         x.in1 = {}, x.in0 \subseteq l, NEW f \in x.in0, \A g \in x.in0 : Overlaps(g, {f})
  PROVE  Inputs(x) = {f}
<1> SUFFICES ASSUME NEW g \in x.in0, g # f PROVE FALSE BY DEF Inputs
<1>1. KeysOf({g}) \subseteq Int /\ KeysOf({f}) \subseteq Int BY KeysNumbers
<1>2. Apart(KeysOf({g}), KeysOf({f})) BY DEF Disjoint
<1> QED BY <1>1, <1>2, OverlapsApart

\* The sets of a batch lie apart from what stays in their target level, and from each other.
LEMMA BatchAside ==
  ASSUME IInv, NEW lev \in 0 .. NumLevels - 2, NEW l \in SUBSET Fn, NEW u \in SUBSET Fn, NEW c, NEW cs,
         Batch(lev, l, u, c, cs), l \cap u = {}, \A f, g \in u : f # g => Disjoint(f, g),
         lev # 0 => \A f, g \in l : f # g => Disjoint(f, g)
  PROVE  \A x \in cs : x.tgt # 0 =>
           /\ x.tgt = lev + 1 => AsideFrom(x, u)
           /\ x.tgt = lev => AsideFrom(x, l)
           /\ \A y \in cs : y # x /\ y.tgt = x.tgt => Apart(KeysOf(Inputs(x)), KeysOf(Inputs(y)))
<1>1. lev \in Nat /\ lev + 1 # lev OBVIOUS
<1>2. c \in Pick(lev, l, u) BY DEF Batch
<1>3. /\ c.lev = lev /\ c.tgt \in {lev, lev + 1} /\ (c.tgt = lev => c.in1 = {})
      /\ c.in0 \subseteq l /\ c.in1 \subseteq u
  <2>1. Picked(c, lev, l, u) BY <1>2, PickFacts
  <2> QED BY <2>1 DEF Picked
<1>a. Shape(c, lev, l, u) BY <1>1, <1>2, PickCore
<1>4. Inputs(c) \in SUBSET Fn BY <1>3 DEF Inputs
<1>5. \A f \in Fn : KeysOf({f}) \subseteq Int BY KeysNumbers
<1>6. KeysOf(Inputs(c)) \subseteq Int BY <1>4, KeysNumbers
<1>7. ASSUME c.tgt = lev + 1 PROVE AsideFrom(c, u)
  <2>1. PICK s : Core(c, s, l, u) BY <1>1, <1>7, <1>a DEF Shape
  <2> QED BY <2>1, PickAside DEF AsideFrom, Inputs
<1>8. ASSUME lev # 0, c.tgt = lev PROVE AsideFrom(c, l) /\ \E f \in l : Inputs(c) = {f}
  <2>1. PICK f \in c.in0 : \A g \in c.in0 : Overlaps(g, {f}) BY <1>1, <1>8, <1>a DEF Shape
  <2>2. Inputs(c) = {f} BY <1>3, <1>8, <2>1, OneInput
  <2>3. f \in l BY <1>3, <2>1
  <2> QED BY <1>8, <2>2, <2>3 DEF AsideFrom, Disjoint
<1> DEFINE m == Rest(c, l)
           v == Rest(c, u)
<1>9. m \subseteq l /\ v \subseteq u /\ m \cap Inputs(c) = {} /\ v \cap Inputs(c) = {} BY DEF Rest
<1>10. ASSUME c.tgt = lev + 1, NEW h \in m \cup v PROVE Apart(KeysOf(Inputs(c)), KeysOf({h}))
  <2>1. ~Overlaps(h, Inputs(c)) BY <1>1, <1>3, <1>10 DEF Rest
  <2>2. h \in Fn BY <1>9
  <2>3. Apart(KeysOf({h}), KeysOf(Inputs(c))) BY <1>5, <1>6, <2>1, <2>2, OverlapsApart
  <2> QED BY <2>3 DEF Apart
<1>11. ASSUME c.tgt = lev + 1, NEW h \in u \ v, h \notin Inputs(c) PROVE FALSE
  <2>1. Overlaps(h, Inputs(c)) BY <1>11 DEF Rest
  <2>2. Apart(KeysOf({h}), KeysOf(Inputs(c))) BY <1>7, <1>11 DEF AsideFrom
  <2> QED BY <1>5, <1>6, <2>1, <2>2, OverlapsApart
<1>12. c.tgt = lev => v = u BY <1>3 DEF Rest, Inputs
<1> HIDE DEF m, v
<1>13. ASSUME NEW d \in Pick(lev, m, v)
       PROVE  /\ d.tgt \in {lev, lev + 1}
              /\ d.tgt = lev + 1 => AsideFrom(d, u)
              /\ lev # 0 /\ d.tgt = lev => AsideFrom(d, l)
              /\ d.tgt # 0 /\ d.tgt = c.tgt => Apart(KeysOf(Inputs(c)), KeysOf(Inputs(d)))
  <2>0. m \in SUBSET Fn /\ v \in SUBSET Fn /\ \A f, g \in v : f # g => Disjoint(f, g) BY <1>9
  <2>1. /\ d.lev = lev /\ d.tgt \in {lev, lev + 1} /\ (d.tgt = lev => d.in1 = {})
        /\ d.in0 \subseteq m /\ d.in1 \subseteq v
    <3>1. Picked(d, lev, m, v) BY <2>0, PickFacts
    <3> QED BY <3>1 DEF Picked
  <2>a. Shape(d, lev, m, v) BY <1>1, <2>0, PickCore
  <2>2. CASE d.tgt = lev + 1
    <3>1. PICK s : Core(d, s, m, v) BY <1>1, <2>2, <2>a DEF Shape
    <3>2. \A h \in v \ d.in1 : Apart(KeysOf({h}), KeysOf(Inputs(d))) BY <3>1, <2>0, PickAside
    <3>3. CASE c.tgt = lev
      <4>1. AsideFrom(d, u) BY <3>2, <3>3, <1>12 DEF AsideFrom, Inputs
      <4> QED BY <4>1, <2>2, <3>3, <1>1
    <3>4. CASE c.tgt = lev + 1
      <4>1. Apart(KeysOf(Inputs(c)), KeysOf(Inputs(d))) BY <3>1, <3>4, <2>0, <1>6, <1>10, PickBeside
      <4>2. ASSUME NEW h \in u \ Inputs(d), h \notin v PROVE Apart(KeysOf({h}), KeysOf(Inputs(d)))
        <5>1. h \in Inputs(c) BY <1>11, <3>4, <4>2
        <5>2. KeysOf({h}) \subseteq KeysOf(Inputs(c)) BY <5>1, KeysIn
        <5> QED BY <4>1, <5>2, ApartSmaller
      <4>3. AsideFrom(d, u) BY <3>2, <4>2 DEF AsideFrom, Inputs
      <4> QED BY <4>1, <4>3, <2>2, <1>1
    <3> QED BY <1>3, <3>3, <3>4
  <2>3. CASE d.tgt = lev
    <3> SUFFICES ASSUME lev # 0
                 PROVE  AsideFrom(d, l) /\ (c.tgt = lev => Apart(KeysOf(Inputs(c)), KeysOf(Inputs(d))))
      BY <1>1, <2>3
    <3>1. PICK f \in d.in0 : \A g \in d.in0 : Overlaps(g, {f}) BY <1>1, <2>3, <2>a DEF Shape
    <3>2. f \in l /\ f \notin Inputs(c) /\ d.in0 \subseteq l BY <1>9, <2>1, <3>1
    <3>3. Inputs(d) = {f} BY <2>1, <2>3, <3>1, <3>2, OneInput
    <3>4. AsideFrom(d, l) BY <3>2, <3>3 DEF AsideFrom, Disjoint
    <3>5. ASSUME c.tgt = lev PROVE Apart(KeysOf(Inputs(c)), KeysOf(Inputs(d)))
      <4>1. PICK g \in l : Inputs(c) = {g} BY <1>8, <3>5
      <4> QED BY <4>1, <3>2, <3>3 DEF Disjoint
    <3> QED BY <3>4, <3>5
  <2> QED BY <2>1, <2>2, <2>3
<1>14. CASE cs = {c} BY <1>1, <1>7, <1>8, <1>14
<1>15. ASSUME NEW d \in Pick(lev, m, v), cs = {c, d}
       PROVE  \A x \in cs : x.tgt # 0 =>
                /\ x.tgt = lev + 1 => AsideFrom(x, u)
                /\ x.tgt = lev => AsideFrom(x, l)
                /\ \A y \in cs : y # x /\ y.tgt = x.tgt => Apart(KeysOf(Inputs(x)), KeysOf(Inputs(y)))
  <2>1. d.tgt # 0 /\ d.tgt = c.tgt => /\ Apart(KeysOf(Inputs(c)), KeysOf(Inputs(d)))
                                      /\ Apart(KeysOf(Inputs(d)), KeysOf(Inputs(c)))
    BY <1>13 DEF Apart
  <2> QED BY <1>7, <1>8, <1>13, <1>15, <2>1
<1> QED BY <1>14, <1>15 DEF Batch, m, v

-----------------------------------------------------------------------------
(* Frames *)

\* Tables lose their keys only when they are deleted; new ones get new numbers.
NoNewKeys == \A f \in 1 .. nextFile - 1 : content'[f] \subseteq content[f]

\* The versions that are still linked lose tables or keep them.
LEMMA SortedFrame ==
  ASSUME IInv, Sorted, NoNewKeys, linked' \subseteq linked,
         \A v \in linked', l \in Level : vfiles'[v][l] \subseteq vfiles[v][l]
  PROVE  Sorted'
<1>1. \A v \in linked, l \in Level : vfiles[v][l] \subseteq 1 .. nextFile - 1
  BY LevelFiles DEF IInv, FreshFiles, TypeOK, TypeVersions
<1>2. \A f \in 1 .. nextFile - 1 : KeysOf({f})' \subseteq KeysOf({f}) BY DEF KeysOf, NoNewKeys
<1>3. ASSUME NEW f \in 1 .. nextFile - 1, NEW g \in 1 .. nextFile - 1, Disjoint(f, g) PROVE Disjoint(f, g)'
  <2>1. Apart(KeysOf({f})', KeysOf({g})') BY <1>2, <1>3, ApartSmaller DEF Disjoint
  <2> QED BY <2>1 DEF Disjoint, Apart, LeftOf
<1>4. ASSUME NEW v \in linked', NEW l \in Level \ {0}, NEW f \in vfiles'[v][l], NEW g \in vfiles'[v][l], f # g
      PROVE  Disjoint(f, g)'
  <2>1. v \in linked /\ f \in vfiles[v][l] /\ g \in vfiles[v][l] OBVIOUS
  <2>2. Disjoint(f, g) BY <1>4, <2>1 DEF Sorted
  <2> QED BY <1>1, <1>3, <2>1, <2>2
<1>5. \A v \in linked' : \A l, o \in Level : l # o => vfiles'[v][l] \cap vfiles'[v][o] = {}
  BY Zenon DEF Sorted
<1> QED BY <1>4, <1>5 DEF Sorted

\* Tables in use keep their keys.
LEMMA KeysKept ==
  ASSUME IInv, ContentKept
  PROVE  /\ \A f \in disk \ deleting : KeysOf({f})' = KeysOf({f})
         /\ \A c \in Uninstalled : KeysOf(Inputs(c))' = KeysOf(Inputs(c))
         /\ \A l \in Level : vfiles[current][l] \subseteq disk \ deleting
<1>1. \A f \in disk \ deleting : KeysOf({f})' = KeysOf({f}) BY DEF KeysOf, ContentKept
<1>2. ASSUME NEW c \in Uninstalled PROVE KeysOf(Inputs(c))' = KeysOf(Inputs(c))
  <2>1. \A f \in Inputs(c) : content'[f] = content[f] BY CompactionOnDisk DEF ContentKept
  <2>2. Inputs(c)' = Inputs(c) BY DEF Inputs
  <2> QED BY <2>1, <2>2 DEF KeysOf
<1>3. \A l \in Level : vfiles[current][l] \subseteq disk \ deleting
  BY LevelFiles, Zero DEF IInv, FilesKept
<1> QED BY <1>1, <1>2, <1>3

\* No compaction is begun or run, and nothing comes into the levels above 0.
LEMMA AsideFrame ==
  ASSUME IInv, Aside, ContentKept, Uninstalled' \subseteq Uninstalled,
         \A l \in Level \ {0} : vfiles'[current'][l] \subseteq vfiles[current][l]
  PROVE  Aside'
<1> SUFFICES ASSUME NEW c \in Uninstalled', c.tgt # 0
             PROVE  /\ AsideFrom(c, vfiles[current][c.tgt])' /\ Within(c)'
                    /\ \A d \in Uninstalled' : d # c /\ d.tgt = c.tgt =>
                         Apart(KeysOf(Inputs(c)), KeysOf(Inputs(d)))'
  BY DEF Aside
<1>1. /\ \A f \in disk \ deleting : KeysOf({f})' = KeysOf({f})
      /\ \A d \in Uninstalled : KeysOf(Inputs(d))' = KeysOf(Inputs(d))
      /\ \A l \in Level : vfiles[current][l] \subseteq disk \ deleting
  BY KeysKept
<1>2. c \in Uninstalled /\ c.tgt \in Level \ {0} /\ c.out \subseteq disk \ deleting
  BY InputsInCurrent, CompactionOnDisk
<1>3. Inputs(c)' = Inputs(c) BY DEF Inputs
<1>4. /\ AsideFrom(c, vfiles[current][c.tgt]) /\ Within(c)
      /\ \A d \in Uninstalled : d # c /\ d.tgt = c.tgt => Apart(KeysOf(Inputs(c)), KeysOf(Inputs(d)))
  BY <1>2 DEF Aside
<1>5. AsideFrom(c, vfiles[current][c.tgt])'
  <2>1. ASSUME NEW h \in vfiles'[current'][c.tgt], h \notin Inputs(c)
        PROVE  Apart(KeysOf({h})', KeysOf(Inputs(c))')
    <3>1. h \in vfiles[current][c.tgt] /\ h \in disk \ deleting BY <1>1, <1>2
    <3>2. Apart(KeysOf({h}), KeysOf(Inputs(c))) BY <1>4, <2>1, <3>1 DEF AsideFrom
    <3> QED BY <1>1, <1>2, <3>1, <3>2
  <2> QED BY <1>3, <2>1 DEF AsideFrom, Apart, LeftOf
<1>6. Within(c)'
  <2>0. KeysOf(Inputs(c))' = KeysOf(Inputs(c)) /\ \A g \in c.out : KeysOf({g})' = KeysOf({g})
    BY <1>1, <1>2
  <2>1. \A g \in c.out : KeysOf({g})' \subseteq KeysOf(Inputs(c))'
    <3>1. \A g \in c.out : KeysOf({g}) \subseteq KeysOf(Inputs(c)) BY <1>4 DEF Within
    <3> QED BY <2>0, <3>1
  <2>2. \A g, h \in c.out : g # h => Apart(KeysOf({g})', KeysOf({h})')
    BY <1>4, <2>0 DEF Within, Disjoint
  <2> QED BY <2>1, <2>2 DEF Within, Disjoint, Apart, LeftOf
<1>7. ASSUME NEW d \in Uninstalled', d # c, d.tgt = c.tgt PROVE Apart(KeysOf(Inputs(c)), KeysOf(Inputs(d)))'
  <2>1. Apart(KeysOf(Inputs(c)), KeysOf(Inputs(d))) BY <1>4, <1>7
  <2>2. Apart(KeysOf(Inputs(c))', KeysOf(Inputs(d))') BY <1>1, <1>2, <1>7, <2>1
  <2> QED BY <2>2 DEF Apart, LeftOf
<1> QED BY <1>5, <1>6, <1>7

\* The steps that change no level above 0 of the current version and pick no compaction.
LEMMA LevelSteady ==
  ASSUME IInv, LevelInv, ContentKept, NoNewKeys, linked' \subseteq linked,
         \A v \in linked', l \in Level : vfiles'[v][l] \subseteq vfiles[v][l],
         \A l \in Level \ {0} : vfiles'[current'][l] = vfiles[current][l],
         Uninstalled' \subseteq Uninstalled,
         cpc' = "pick" => cpc = "pick" /\ cvid' = cvid /\ vfiles'[cvid] = vfiles[cvid]
  PROVE  LevelInv'
<1>1. Sorted' BY SortedFrame DEF LevelInv
<1>2. Aside' BY AsideFrame DEF LevelInv
<1>3. SameLevels' BY DEF LevelInv, SameLevels
<1> QED BY <1>1, <1>2, <1>3 DEF LevelInv

\* The steps that leave all of it alone.
LEMMA LevelIdle ==
  ASSUME IInv, LevelInv,
         UNCHANGED <<content, linked, vfiles, current, mutex, ctodo, ccur, cpc, cvid>>,
         stage' = "edit" <=> stage = "edit"
  PROVE  LevelInv'
<1>1. ContentKept /\ NoNewKeys BY DEF ContentKept, NoNewKeys
<1>2. Uninstalled' = Uninstalled BY DEF Uninstalled
<1> QED BY <1>1, <1>2, LevelSteady

-----------------------------------------------------------------------------
(* Steps *)

\* The steps that neither write tables nor change what the versions hold.
LEMMA IdleLevels ==
  ASSUME IInv, LevelInv,
         \/ \E w \in Writer : Write(w)
         \/ \E p \in Partition : Rotate(p) \/ NewMemTable(p)
         \/ \E m \in pend : SetFlushed(m) \/ UpdateL0Files(m)
         \/ SetVersion \/ StoreCurrentId \/ SetCompaction
         \/ \E r \in Reader : Get(r)
         \/ UNCHANGED vars
  PROVE  LevelInv'
<1> DEFINE Same == UNCHANGED <<content, linked, vfiles, current, mutex, ctodo, ccur, cpc, cvid>>
<1>1. ASSUME NEW w \in Writer, Write(w) PROVE Same /\ stage' = stage
  BY <1>1 DEF Write, TakeSequence, BeginWrite, AddEntry, InsertIndex, fileVars, versVars, instVars, coordVars
<1>2. ASSUME NEW p \in Partition, Rotate(p) \/ NewMemTable(p) PROVE Same /\ stage' = stage
  BY <1>2 DEF Rotate, NewMemTable, fileVars, versVars, instVars, coordVars
<1>3. ASSUME NEW m \in pend, SetFlushed(m) \/ UpdateL0Files(m) PROVE Same /\ stage' = stage
  BY <1>3 DEF SetFlushed, UpdateL0Files, fileVars, versVars, coordVars
<1>4. ASSUME SetVersion \/ StoreCurrentId \/ SetCompaction
      PROVE  Same /\ stage # "edit" /\ stage' # "edit"
  BY <1>4 DEF SetVersion, StoreCurrentId, SetCompaction, fileVars, coordVars
<1>5. ASSUME NEW r \in Reader, Get(r) PROVE Same /\ stage' = stage
  <2>1. UNCHANGED <<linked, vfiles, current, otherThanReaders>>
    BY <1>5 DEF Get, Lookup, RefMemTable, GetFromMemTable, ReadVersionId, RefVersion, CheckL0Files,
       UnrefAndRetry, SearchL0, SearchLevels, UnrefAndReturn, Return, versVars, versRest
  <2> QED BY <2>1 DEF otherThanReaders, fileVars, instVars, coordVars
<1>6. ASSUME UNCHANGED vars PROVE Same /\ stage' = stage
  BY <1>6 DEF vars, fileVars, versVars, instVars, coordVars
<1>7. Same /\ (stage' = "edit" <=> stage = "edit") BY <1>1, <1>2, <1>3, <1>4, <1>5, <1>6
<1> QED BY <1>7, LevelIdle

\* mutex_ is taken, or the coordinator drops its reference.
LEMMA LockLevels ==
  ASSUME IInv, LevelInv,
         (\E f \in Flusher : FlushLock(f)) \/ (\E cs : CompactionLock(cs)) \/ ReleaseCompacted
  PROVE  LevelInv'
<1>1. /\ UNCHANGED <<content, linked, vfiles, current>>
      /\ cpc' = "pick" => cpc = "pick" /\ cvid' = cvid
  BY DEF FlushLock, CompactionLock, ReleaseCompacted, Lock, fileVars, coordVars
<1>2. Uninstalled' \subseteq Uninstalled
  <2>1. ASSUME NEW f \in Flusher, FlushLock(f) PROVE Uninstalled' = Uninstalled
    <3>1. mutex = NoOwner /\ mutex' = f /\ UNCHANGED <<ctodo, ccur>> BY <2>1 DEF FlushLock, Lock, coordVars
    <3> QED BY <3>1, ConstantsOK DEF Uninstalled
  <2>2. ASSUME NEW cs, CompactionLock(cs) PROVE Uninstalled' \subseteq Uninstalled
    <3>1. /\ mutex = NoOwner /\ mutex' = Coordinator /\ stage' = "edit" /\ ccur' = cs
          /\ cs \subseteq ctodo \cup ccur /\ ctodo' = ctodo
      BY <2>2 DEF CompactionLock, Lock
    <3>2. mutex # Coordinator BY <3>1, ConstantsOK
    <3> QED BY <3>1, <3>2 DEF Uninstalled
  <2>3. ASSUME ReleaseCompacted PROVE Uninstalled' = Uninstalled
    BY <2>3 DEF ReleaseCompacted, Uninstalled, instVars
  <2> QED BY <2>1, <2>2, <2>3
<1>3. ContentKept /\ NoNewKeys BY <1>1 DEF ContentKept, NoNewKeys
<1> QED BY <1>1, <1>2, <1>3, LevelSteady

\* A table that nobody knows is written, or one that nobody reads is dropped.
LEMMA TableContents ==
  ASSUME IInv, (\E f \in Flusher, m \in Mid : BuildTable(f, m)) \/ (\E f \in Fn : DeleteFile(f))
  PROVE  ContentKept /\ NoNewKeys
<1>1. /\ content \in [Fn -> SUBSET Entry] /\ disk \subseteq 1 .. nextFile - 1 /\ disk \subseteq Fn
      /\ nextFile \in 1 .. MaxFile + 1 /\ MaxFile \in Nat
  BY ConstantsOK DEF IInv, TypeOK, TypeFiles, FreshFiles
<1>2. 1 .. nextFile - 1 \subseteq Fn /\ nextFile \notin 1 .. nextFile - 1 BY <1>1 DEF Fn
<1>3. ASSUME NEW f \in Flusher, NEW m \in Mid, BuildTable(f, m) PROVE ContentKept /\ NoNewKeys
  <2>1. content' = [content EXCEPT ![nextFile] = entries[m]] BY <1>3 DEF BuildTable, NewFileNumber
  <2>2. \A g \in 1 .. nextFile - 1 : content'[g] = content[g] BY <1>1, <1>2, <2>1
  <2> QED BY <1>1, <2>2 DEF ContentKept, NoNewKeys
<1>4. ASSUME NEW f \in Fn, DeleteFile(f) PROVE ContentKept /\ NoNewKeys
  <2>1. f \in deleting /\ content' = [content EXCEPT ![f] = {}] BY <1>4 DEF DeleteFile
  <2>2. \A g \in Fn : content'[g] = IF g = f THEN {} ELSE content[g] BY <1>1, <2>1
  <2> QED BY <1>1, <1>2, <2>1, <2>2 DEF ContentKept, NoNewKeys
<1> QED BY <1>3, <1>4

\* Neither disturbs the levels.
LEMMA TableLevels ==
  ASSUME IInv, LevelInv, (\E f \in Flusher, m \in Mid : BuildTable(f, m)) \/ (\E f \in Fn : DeleteFile(f))
  PROVE  LevelInv'
<1>1. UNCHANGED <<linked, vfiles, current, mutex, stage, ctodo, ccur, cpc, cvid>>
  BY DEF BuildTable, DeleteFile, versVars, instVars, coordVars
<1>2. ContentKept /\ NoNewKeys BY TableContents
<1>3. Uninstalled' = Uninstalled BY <1>1 DEF Uninstalled
<1> QED BY <1>1, <1>2, <1>3, LevelSteady

\* Whoever collects keeps the versions that are referenced.
LEMMA CollectLevels ==
  ASSUME IInv, LevelInv, current \in vset, NEW s, Collect(s) \/ UNCHANGED <<gcVars, versVars>>,
         s # 0 => s \in vcompacting /\ Holders(s) = {}, UNCHANGED content, Uninstalled' \subseteq Uninstalled,
         cpc' = "pick" => cpc = "pick" /\ cvid' = cvid
  PROVE  LevelInv'
<1>1. /\ linked' \subseteq linked /\ current' = current /\ \A v \in vset \ vdeleted : vfiles'[v] = vfiles[v]
      /\ \A v \in Vid, l \in Level : vfiles'[v][l] \subseteq vfiles[v][l]
  BY CollectFacts
<1>2. current \in vset \ vdeleted BY CurrentAlive
<1>3. linked \subseteq Vid BY DEF IInv, TypeOK, TypeVersions
<1>4. ASSUME cpc = "pick" PROVE vfiles'[cvid] = vfiles[cvid]
  <2>1. cvid \in Vid /\ cvid \in vset BY <1>4 DEF IInv, Control, Versions
  <2>2. vrefs[cvid] # 0
    BY SMT, <1>4, <2>1, HoldersFinite DEF IInv, Versions, VersionRefsExact
  <2>3. cvid \in vset \ vdeleted BY <2>1, <2>2 DEF IInv, Versions
  <2> QED BY <1>1, <2>3
<1>5. ContentKept /\ NoNewKeys BY DEF ContentKept, NoNewKeys
<1>6. \A l \in Level \ {0} : vfiles'[current'][l] = vfiles[current][l] BY <1>1, <1>2
<1>7. \A v \in linked', l \in Level : vfiles'[v][l] \subseteq vfiles[v][l] BY <1>1, <1>3
<1> QED BY <1>1, <1>4, <1>5, <1>6, <1>7, LevelSteady

\* The four collections.
LEMMA GarbageLevels ==
  ASSUME IInv, LevelInv,
         (\E f \in Flusher : FlushUnlock(f)) \/ CompactionUnlock \/ DeleteObsoleteFiles \/ FinishCompaction
  PROVE  LevelInv'
<1>1. ASSUME NEW f \in Flusher, FlushUnlock(f) PROVE LevelInv'
  <2>1. /\ mutex = f /\ stage = "collect" /\ mutex' = NoOwner
        /\ Collect(0) \/ UNCHANGED <<gcVars, versVars>>
        /\ UNCHANGED <<content, ctodo, ccur, cpc, cvid>>
    BY <1>1 DEF FlushUnlock, Unlock, fileVars, coordVars
  <2>2. current \in vset BY <2>1 DEF IInv, Control, Appended
  <2>3. Uninstalled' = Uninstalled BY <2>1, ConstantsOK DEF Uninstalled
  <2> QED BY <2>1, <2>2, <2>3, CollectLevels
<1>2. ASSUME CompactionUnlock PROVE LevelInv'
  <2>1. /\ mutex = Coordinator /\ stage = "collect" /\ mutex' = NoOwner /\ cpc' = "run"
        /\ Collect(skip) /\ ctodo' = ctodo \ ccur /\ ccur' = {} /\ UNCHANGED content
    BY <1>2 DEF CompactionUnlock, Unlock, fileVars
  <2>2. current \in vset BY <2>1 DEF IInv, Control, Appended
  <2>3. skip # 0 => skip \in vcompacting /\ Holders(skip) = {} BY DEF IInv, FilesKept
  <2>4. Uninstalled' = Uninstalled BY <2>1, ConstantsOK DEF Uninstalled
  <2> QED BY <2>1, <2>2, <2>3, <2>4, CollectLevels
<1>3. ASSUME DeleteObsoleteFiles \/ FinishCompaction PROVE LevelInv'
  <2>1. /\ mutex = NoOwner /\ Collect(0) /\ UNCHANGED <<content, mutex, stage, ctodo, ccur>>
        /\ cpc' = "pick" => cpc = "pick" /\ cvid' = cvid
    BY <1>3 DEF DeleteObsoleteFiles, FinishCompaction, fileVars, instVars, coordVars
  <2>2. current \in vset BY <2>1 DEF IInv, Control
  <2>3. Uninstalled' = Uninstalled BY <2>1 DEF Uninstalled
  <2> QED BY <2>1, <2>2, <2>3, CollectLevels
<1> QED BY <1>1, <1>2, <1>3

\* The coordinator references the current version.
LEMMA StartLevels == ASSUME IInv, LevelInv, StartCompaction PROVE LevelInv'
<1>1. /\ cvid' = current /\ UNCHANGED <<content, linked, vfiles, current, mutex, stage, ctodo, ccur>>
  BY DEF StartCompaction, fileVars, instVars
<1>2. ContentKept /\ NoNewKeys BY <1>1 DEF ContentKept, NoNewKeys
<1>3. Uninstalled' = Uninstalled BY <1>1 DEF Uninstalled
<1>4. Sorted' BY <1>1, <1>2, SortedFrame DEF LevelInv
<1>5. Aside' BY <1>1, <1>2, <1>3, AsideFrame DEF LevelInv
<1>6. SameLevels' BY <1>1 DEF SameLevels
<1> QED BY <1>4, <1>5, <1>6 DEF LevelInv

\* The sets of a batch, before they are run.
LEMMA BatchPicked ==
  ASSUME NEW lev \in 0 .. NumLevels - 2, NEW l \in SUBSET Fn, NEW u \in SUBSET Fn, NEW c, NEW cs,
         Batch(lev, l, u, c, cs)
  PROVE  \A x \in cs : /\ x \in Compactions /\ x.lev = lev /\ x.tgt \in {lev, lev + 1} /\ x.out = {}
                       /\ x.in0 \subseteq Fn
<1>1. Picked(c, lev, l, u) BY PickFacts DEF Batch
<1>2. Rest(c, l) \in SUBSET Fn /\ Rest(c, u) \in SUBSET Fn BY DEF Rest
<1>3. ASSUME NEW d \in Pick(lev, Rest(c, l), Rest(c, u)) PROVE Picked(d, lev, Rest(c, l), Rest(c, u))
  BY <1>2, PickFacts
<1>4. \A x \in cs : x = c \/ x \in Pick(lev, Rest(c, l), Rest(c, u)) BY DEF Batch
<1>5. \A x \in cs : \E a, b : Picked(x, lev, a, b) BY <1>1, <1>3, <1>4
<1>6. \A x \in Compactions : x.in0 \subseteq Fn BY DEF Compactions
<1> QED BY <1>5, <1>6 DEF Picked

\* Each compaction that ComputeCompactions leaves to run or to install is one of the batch.
LEMMA BatchMembers ==
  ASSUME NEW lev, NEW l, NEW u, NEW c, NEW cs \in SUBSET Compactions, Batch(lev, l, u, c, cs),
         NEW e \in ctodo' \cup ccur'
  PROVE  \E x \in cs : /\ e = IF Trivial(x) THEN [x EXCEPT !.out = x.in0] ELSE x
                       /\ e.tgt = x.tgt /\ e.in0 = x.in0 /\ e.in1 = x.in1
                       /\ e.out = IF Trivial(x) THEN x.in0 ELSE x.out
<1>1. CASE e \in ctodo' BY <1>1 DEF Batch
<1>2. CASE e \in ccur'
  <2>1. PICK x \in cs : Trivial(x) /\ e = [x EXCEPT !.out = x.in0] BY <1>2 DEF Batch
  <2>2. x \in Compactions BY <2>1
  <2> QED BY <2>1, <2>2 DEF Compactions
<1> QED BY <1>1, <1>2

\* Tables are numbered from 1, so a set of tables is finite; one with a single member is a singleton.
LEMMA OneFile == ASSUME NEW F \in SUBSET Fn, Cardinality(F) = 1 PROVE \A g, h \in F : g = h
<1>1. IsFiniteSet(Fn) BY FS_Interval, ConstantsOK DEF Fn
<1>2. IsFiniteSet(F) BY <1>1, FS_Subset
<1>3. \E f : F = {f} BY <1>2, FS_Singleton
<1> QED BY <1>3

\* ComputeCompactions picks sets that lie apart from what stays, and from each other.
LEMMA PickLevels == ASSUME IInv, LevelInv, ComputeCompactions PROVE LevelInv'
<1>1. /\ cpc = "pick" /\ UNCHANGED <<content, linked, vfiles, current, mutex, stage>>
  BY DEF ComputeCompactions, fileVars, versVars, instVars
<1>2. cpc' # "pick" BY BatchFacts
<1>3. ContentKept /\ NoNewKeys BY <1>1 DEF ContentKept, NoNewKeys
<1>4. Sorted' BY <1>1, <1>3, SortedFrame DEF LevelInv
<1>5. SameLevels' BY <1>2 DEF SameLevels
<1>6. PICK lev \in 0 .. NumLevels - 2 :
        \E c, cs : Batch(lev, vfiles[cvid][lev], vfiles[cvid][lev + 1], c, cs)
  BY BatchPicks
<1>7. PICK c, cs : Batch(lev, vfiles[cvid][lev], vfiles[cvid][lev + 1], c, cs) BY <1>6
<1> DEFINE l == vfiles[cvid][lev]
           u == vfiles[cvid][lev + 1]
<1>8. lev \in Level /\ lev + 1 \in Level \ {0} /\ lev + 1 # lev BY SMT, <1>6, ConstantsOK DEF Level
<1>9. cvid \in Vid /\ current \in Vid /\ mutex # Coordinator BY <1>1, Zero DEF IInv, Control
<1>10. l \in SUBSET Fn /\ u \in SUBSET Fn BY <1>8, <1>9, LevelFiles
<1>11. /\ l \subseteq vfiles[current][lev] /\ u = vfiles[current][lev + 1]
       /\ lev # 0 => l = vfiles[current][lev]
  BY <1>1, <1>8 DEF IInv, InputsCurrent, LevelInv, SameLevels
<1>12. l \cap u = {}
  <2>1. vfiles[current][lev] \cap vfiles[current][lev + 1] = {} BY <1>8 DEF IInv, InputsCurrent
  <2> QED BY <1>11, <2>1
<1>13. current \in linked BY DEF IInv, Versions
<1>14. \A f, g \in u : f # g => Disjoint(f, g) BY <1>8, <1>11, <1>13 DEF LevelInv, Sorted
<1>15. lev # 0 => \A f, g \in l : f # g => Disjoint(f, g) BY <1>8, <1>11, <1>13 DEF LevelInv, Sorted
<1>16. Batch(lev, l, u, c, cs) BY <1>7
<1> HIDE DEF l, u
<1>17. \A x \in cs : x.tgt # 0 =>
         /\ x.tgt = lev + 1 => AsideFrom(x, u)
         /\ x.tgt = lev => AsideFrom(x, l)
         /\ \A y \in cs : y # x /\ y.tgt = x.tgt => Apart(KeysOf(Inputs(x)), KeysOf(Inputs(y)))
  BY <1>6, <1>10, <1>12, <1>14, <1>15, <1>16, BatchAside
<1>18. \A x \in cs : /\ x \in Compactions /\ x.lev = lev /\ x.tgt \in {lev, lev + 1} /\ x.out = {}
                     /\ x.in0 \subseteq Fn
  BY <1>6, <1>10, <1>16, BatchPicked
<1>19. cs \in SUBSET Compactions BY <1>18
<1>20. Uninstalled' = ctodo' \cup ccur' BY <1>1, <1>9 DEF Uninstalled
<1>21. \A F : KeysOf(F)' = KeysOf(F) BY <1>1 DEF KeysOf
<1>22. ASSUME NEW e \in Uninstalled', e.tgt # 0
       PROVE  /\ AsideFrom(e, vfiles[current][e.tgt])' /\ Within(e)'
              /\ \A d \in Uninstalled' : d # e /\ d.tgt = e.tgt => Apart(KeysOf(Inputs(e)), KeysOf(Inputs(d)))'
  <2>1. PICK x \in cs : /\ e = IF Trivial(x) THEN [x EXCEPT !.out = x.in0] ELSE x
                        /\ e.tgt = x.tgt /\ e.in0 = x.in0 /\ e.in1 = x.in1
                        /\ e.out = IF Trivial(x) THEN x.in0 ELSE x.out
    BY <1>16, <1>19, <1>20, BatchMembers
  <2>2. Inputs(e) = Inputs(x) /\ Inputs(e)' = Inputs(x) /\ x.in0 \subseteq Inputs(x) BY <2>1 DEF Inputs
  <2>3. AsideFrom(x, vfiles[current][e.tgt])
    <3>1. x.tgt = lev + 1 \/ (x.tgt = lev /\ lev # 0) BY <1>18, <1>22, <2>1
    <3> QED BY <1>11, <1>17, <1>22, <2>1, <3>1
  <2>4. AsideFrom(e, vfiles[current][e.tgt])'
    <3>1. \A h \in vfiles[current][e.tgt] \ Inputs(x) : Apart(KeysOf({h})', KeysOf(Inputs(x))')
      BY <1>21, <2>3 DEF AsideFrom
    <3>2. KeysOf(Inputs(e))' = KeysOf(Inputs(x))' BY <2>2 DEF KeysOf
    <3> QED BY <1>1, <2>2, <3>1, <3>2 DEF AsideFrom, Apart, LeftOf
  <2>5. Within(e)'
    <3>1. \A g \in e.out : g \in Inputs(x) BY <1>18, <2>1, <2>2
    <3>2. \A g, h \in e.out : g = h BY <1>18, <2>1, OneFile DEF Trivial
    <3>3. \A g \in e.out : KeysOf({g})' \subseteq KeysOf(Inputs(e))' BY <2>2, <3>1 DEF KeysOf
    <3> QED BY <3>2, <3>3 DEF Within
  <2>6. ASSUME NEW d \in Uninstalled', d # e, d.tgt = e.tgt PROVE Apart(KeysOf(Inputs(e)), KeysOf(Inputs(d)))'
    <3>1. PICK y \in cs : /\ d = IF Trivial(y) THEN [y EXCEPT !.out = y.in0] ELSE y
                          /\ d.tgt = y.tgt /\ d.in0 = y.in0 /\ d.in1 = y.in1
      BY <1>16, <1>19, <1>20, BatchMembers
    <3>2. y # x BY <2>1, <2>6, <3>1
    <3>3. Apart(KeysOf(Inputs(x)), KeysOf(Inputs(y))) BY <1>17, <1>22, <2>1, <2>6, <3>1, <3>2
    <3>4. KeysOf(Inputs(e))' = KeysOf(Inputs(x)) BY <1>1, <2>2 DEF KeysOf
    <3>5. KeysOf(Inputs(d))' = KeysOf(Inputs(y)) BY <1>1, <3>1 DEF KeysOf, Inputs
    <3>6. Apart(KeysOf(Inputs(e))', KeysOf(Inputs(d))') BY <3>3, <3>4, <3>5
    <3> QED BY <3>6 DEF Apart, LeftOf
  <2> QED BY <2>4, <2>5, <2>6
<1>23. Aside' BY <1>22 DEF Aside
<1> QED BY <1>4, <1>5, <1>23 DEF LevelInv

\* What CompactTables writes lies within what it read, and is cut at a key.
LEMMA OutputsApart ==
  ASSUME IInv, NEW c \in ctodo, CompactTables(c)
  PROVE  \E outs \in SUBSET Fn :
           /\ ctodo' = (ctodo \ {c}) \cup {[c EXCEPT !.out = outs]}
           /\ \A f \in Fn : f < nextFile => content'[f] = content[f]
           /\ \A g \in outs : KeysOf({g})' \subseteq KeysOf(Inputs(c))
           /\ \A g, h \in outs : g # h => Apart(KeysOf({g})', KeysOf({h})')
<1> DEFINE all == UNION {content[f] : f \in Inputs(c)}
           merged == Newest(all)
           low(k) == {e \in merged : e[1] <= k}
           Outs(k) == IF low(k) = merged THEN {nextFile} ELSE {nextFile, nextFile + 1}
<1>1. PICK cut \in KeysOf(Inputs(c)) :
        /\ Outs(cut) \subseteq Fn
        /\ content' = [f \in Fn |-> IF f \notin Outs(cut) THEN content[f]
                                      ELSE IF f = nextFile THEN low(cut) ELSE merged \ low(cut)]
        /\ ctodo' = (ctodo \ {c}) \cup {[c EXCEPT !.out = Outs(cut)]}
  BY DEF CompactTables
<1>2. c \in Uninstalled BY DEF CompactTables, Uninstalled
<1>3. Inputs(c) \in SUBSET Fn BY <1>2, InputsInCurrent, LevelFiles, Zero
<1>4. KeysOf(Inputs(c)) \subseteq Int BY <1>3, KeysNumbers
<1>5. \A e \in merged : e[1] \in KeysOf(Inputs(c)) BY DEF KeysOf, Newest
<1>6. /\ \A e \in low(cut) : e \in merged /\ e[1] <= cut
      /\ \A e \in merged \ low(cut) : ~(e[1] <= cut)
  OBVIOUS
<1>7. nextFile \in Int BY SMT DEF IInv, TypeOK, TypeFiles
<1>8. /\ \A g \in Outs(cut) : g = nextFile \/ g = nextFile + 1
      /\ \A f \in Fn : f < nextFile => f \notin Outs(cut)
  BY SMT, <1>7 DEF Fn
<1> HIDE DEF merged, low, Outs
<1>9. /\ \A f \in Fn : f < nextFile => content'[f] = content[f]
      /\ \A g \in Outs(cut) : content'[g] = IF g = nextFile THEN low(cut) ELSE merged \ low(cut)
  BY <1>1, <1>8
<1>10. \A g : KeysOf({g})' = {e[1] : e \in content'[g]} BY DEF KeysOf
<1>11. ASSUME NEW g \in Outs(cut) PROVE KeysOf({g})' \subseteq KeysOf(Inputs(c))
  <2>1. content'[g] \subseteq merged BY <1>6, <1>9
  <2> SUFFICES ASSUME NEW k \in KeysOf({g})' PROVE k \in KeysOf(Inputs(c)) OBVIOUS
  <2>2. PICK e \in content'[g] : k = e[1] BY DEF KeysOf
  <2> QED BY <1>5, <2>1, <2>2
<1>12. LeftOf({e[1] : e \in low(cut)}, {e[1] : e \in merged \ low(cut)})
  <2> SUFFICES ASSUME NEW d \in low(cut), NEW e \in merged \ low(cut) PROVE d[1] < e[1] BY DEF LeftOf
  <2>1. cut \in Int /\ d[1] \in Int /\ e[1] \in Int BY <1>1, <1>4, <1>5, <1>6
  <2> QED BY SMT, <1>6, <2>1
<1>13. ASSUME NEW g \in Outs(cut), NEW h \in Outs(cut), g # h PROVE Apart(KeysOf({g})', KeysOf({h})')
  <2>1. (g = nextFile /\ h # nextFile) \/ (h = nextFile /\ g # nextFile) BY <1>8, <1>13
  <2> QED BY <1>9, <1>10, <1>12, <2>1 DEF Apart
<1>14. Outs(cut) \in SUBSET Fn BY <1>1
<1> QED BY <1>1, <1>9, <1>11, <1>13, <1>14

\* CompactTables: the compaction lies where it lay, its outputs within.
LEMMA MergeLevels == ASSUME IInv, LevelInv, NEW c \in ctodo, CompactTables(c) PROVE LevelInv'
<1>1. c \notin ccur /\ UNCHANGED <<linked, vfiles, current, mutex, stage, cpc, cvid, ccur>>
  BY DEF CompactTables, versVars, instVars
<1>2. PICK outs \in SUBSET Fn :
        /\ ctodo' = (ctodo \ {c}) \cup {[c EXCEPT !.out = outs]}
        /\ \A f \in Fn : f < nextFile => content'[f] = content[f]
        /\ \A g \in outs : KeysOf({g})' \subseteq KeysOf(Inputs(c))
        /\ \A g, h \in outs : g # h => Apart(KeysOf({g})', KeysOf({h})')
  BY OutputsApart
<1>3. ContentKept /\ NoNewKeys
  <2>1. disk \subseteq 1 .. nextFile - 1 /\ nextFile \in 1 .. MaxFile + 1 /\ MaxFile \in Nat
    BY ConstantsOK DEF IInv, FreshFiles, TypeOK, TypeFiles
  <2>2. \A f \in 1 .. nextFile - 1 : f \in Fn /\ f < nextFile BY SMT, <2>1 DEF Fn
  <2> QED BY <1>2, <2>1, <2>2 DEF ContentKept, NoNewKeys
<1>4. PICK x : x = [c EXCEPT !.out = outs] OBVIOUS
<1>5. /\ c \in Uninstalled /\ c \in Compactions
      /\ Uninstalled' \subseteq Uninstalled \cup {x} /\ (c \in Uninstalled' => c = x)
  BY <1>1, <1>2, <1>4 DEF Uninstalled, IInv, TypeOK, TypeThreads
<1>6. x.tgt = c.tgt /\ x.in0 = c.in0 /\ x.in1 = c.in1 /\ x.out = outs
  BY <1>4, <1>5 DEF Compactions
<1>7. Inputs(x) = Inputs(c) /\ Inputs(x)' = Inputs(c) BY <1>6 DEF Inputs
<1>8. /\ \A f \in disk \ deleting : KeysOf({f})' = KeysOf({f})
      /\ \A d \in Uninstalled : KeysOf(Inputs(d))' = KeysOf(Inputs(d))
      /\ \A l \in Level : vfiles[current][l] \subseteq disk \ deleting
  BY <1>3, KeysKept
<1>9. KeysOf(Inputs(x))' = KeysOf(Inputs(c))
  <2>1. KeysOf(Inputs(c))' = KeysOf(Inputs(c)) BY <1>5, <1>8
  <2>2. Inputs(c)' = Inputs(c) BY DEF Inputs
  <2>3. KeysOf(Inputs(x))' = KeysOf(Inputs(c))' BY <1>7, <2>2 DEF KeysOf
  <2> QED BY <2>1, <2>3
\* the compaction before the step, of which d is one after it
<1> DEFINE Was(d) == IF d = x THEN c ELSE d
<1>10. ASSUME NEW d \in Uninstalled'
       PROVE  /\ Was(d) \in Uninstalled /\ Was(d).tgt = d.tgt /\ Inputs(d)' = Inputs(Was(d))
              /\ KeysOf(Inputs(d))' = KeysOf(Inputs(Was(d)))
  <2>1. CASE d = x BY <2>1, <1>5, <1>6, <1>7, <1>9
  <2>2. CASE d # x
    <3>1. d \in Uninstalled BY <2>2, <1>5
    <3>2. Inputs(d)' = Inputs(d) BY DEF Inputs
    <3> QED BY <2>2, <3>1, <3>2, <1>8
  <2> QED BY <2>1, <2>2
<1>11. ASSUME NEW d \in Uninstalled', NEW e \in Uninstalled', d # e PROVE Was(d) # Was(e)
  BY <1>5, <1>11
<1>12. ASSUME NEW d \in Uninstalled', d.tgt # 0
       PROVE  /\ AsideFrom(d, vfiles[current][d.tgt])' /\ Within(d)'
              /\ \A e \in Uninstalled' : e # d /\ e.tgt = d.tgt => Apart(KeysOf(Inputs(d)), KeysOf(Inputs(e)))'
  <2>0. PICK w : w = Was(d) OBVIOUS
  <2>1. /\ w \in Uninstalled /\ w.tgt = d.tgt /\ Inputs(d)' = Inputs(w)
        /\ KeysOf(Inputs(d))' = KeysOf(Inputs(w))
    BY <1>10, <2>0
  <2>2. /\ AsideFrom(w, vfiles[current][d.tgt]) /\ Within(w)
        /\ \A e \in Uninstalled : e # w /\ e.tgt = d.tgt => Apart(KeysOf(Inputs(w)), KeysOf(Inputs(e)))
    BY <1>12, <2>1 DEF LevelInv, Aside
  <2>3. d.tgt \in Level BY <2>1, InputsInCurrent
  <2>4. AsideFrom(d, vfiles[current][d.tgt])'
    <3>1. ASSUME NEW h \in vfiles[current][d.tgt], h \notin Inputs(w)
          PROVE  Apart(KeysOf({h})', KeysOf(Inputs(d))')
      <4>1. Apart(KeysOf({h}), KeysOf(Inputs(w))) BY <2>2, <3>1 DEF AsideFrom
      <4>2. KeysOf({h})' = KeysOf({h}) BY <1>8, <2>3
      <4> QED BY <2>1, <4>1, <4>2
    <3> QED BY <1>1, <2>1, <3>1 DEF AsideFrom, Apart, LeftOf
  <2>5. Within(d)'
    <3>1. CASE d = x
      <4>1. \A g \in d.out : KeysOf({g})' \subseteq KeysOf(Inputs(d))' BY <1>2, <1>6, <1>9, <3>1
      <4>2. \A g, h \in d.out : g # h => Apart(KeysOf({g})', KeysOf({h})') BY <1>2, <1>6, <3>1
      <4> QED BY <4>1, <4>2 DEF Within, Disjoint, Apart, LeftOf
    <3>2. CASE d # x
      <4>0. w = d BY <2>0, <3>2
      <4>a. d.out \subseteq disk \ deleting BY <2>1, <4>0, CompactionOnDisk
      <4>b. \A g \in d.out : KeysOf({g})' = KeysOf({g}) BY <1>8, <4>a
      <4>c. Within(d) /\ KeysOf(Inputs(d))' = KeysOf(Inputs(d)) BY <2>1, <2>2, <4>0
      <4>1. \A g \in d.out : KeysOf({g})' \subseteq KeysOf(Inputs(d))' BY <4>b, <4>c DEF Within
      <4>2. \A g, h \in d.out : g # h => Apart(KeysOf({g})', KeysOf({h})')
        BY <4>b, <4>c DEF Within, Disjoint
      <4> QED BY <4>1, <4>2 DEF Within, Disjoint, Apart, LeftOf
    <3> QED BY <3>1, <3>2
  <2>6. ASSUME NEW e \in Uninstalled', e # d, e.tgt = d.tgt PROVE Apart(KeysOf(Inputs(d)), KeysOf(Inputs(e)))'
    <3>0. PICK v : v = Was(e) OBVIOUS
    <3>1. v \in Uninstalled /\ v.tgt = e.tgt /\ KeysOf(Inputs(e))' = KeysOf(Inputs(v)) BY <1>10, <3>0
    <3>2. v # w BY <1>11, <2>0, <2>6, <3>0
    <3>3. Apart(KeysOf(Inputs(w)), KeysOf(Inputs(v))) BY <2>2, <2>6, <3>1, <3>2
    <3>4. Apart(KeysOf(Inputs(d))', KeysOf(Inputs(e))') BY <2>1, <3>1, <3>3
    <3> QED BY <3>4 DEF Apart, LeftOf
  <2> QED BY <2>4, <2>5, <2>6
<1>13. Aside' BY <1>12 DEF Aside
<1>14. Sorted' BY <1>1, <1>3, SortedFrame DEF LevelInv
<1>15. SameLevels' BY <1>1 DEF LevelInv, SameLevels
<1> QED BY <1>13, <1>14, <1>15 DEF LevelInv

\* What an installation adds above level 0 comes from a compaction into that level.
LEMMA AddedFrom ==
  ASSUME IInv, stage = "edit", mutex # NoOwner, NEW l \in Level \ {0}, NEW f \in Added(l)
  PROVE  mutex = Coordinator /\ \E c \in ccur : c \in Uninstalled /\ c.tgt = l /\ f \in c.out
<1>1. mutex \notin Flusher BY DEF Added
<1>2. mutex = Coordinator BY <1>1 DEF IInv, TypeOK, TypeThreads
<1>3. \E c \in ccur : c.tgt = l /\ f \in c.out BY <1>1 DEF Added
<1> QED BY <1>2, <1>3 DEF Uninstalled

\* The level l of the version to come is sorted.
LEMMA NextSorted ==
  ASSUME IInv, LevelInv, stage = "edit", mutex # NoOwner, NEW l \in Level \ {0},
         NEW f \in NextLevel(l), NEW g \in NextLevel(l), f # g
  PROVE  Disjoint(f, g)
<1>1. \A a, b : Disjoint(a, b) => Disjoint(b, a) BY DEF Disjoint, Apart
<1>2. ASSUME NEW h \in vfiles[current][l], h \notin Added(l), h \notin Deleted(l), NEW a \in Added(l)
      PROVE  Disjoint(h, a)
  <2>1. mutex = Coordinator /\ \E c \in ccur : c \in Uninstalled /\ c.tgt = l /\ a \in c.out BY AddedFrom
  <2>2. PICK c \in ccur : c \in Uninstalled /\ c.tgt = l /\ a \in c.out BY <2>1
  <2>3. h \notin Inputs(c) BY <1>2, <2>1, InputsLeave
  <2>4. AsideFrom(c, vfiles[current][l]) /\ Within(c) BY <2>2 DEF LevelInv, Aside
  <2>5. Apart(KeysOf({h}), KeysOf(Inputs(c))) BY <2>3, <2>4 DEF AsideFrom
  <2>6. KeysOf({a}) \subseteq KeysOf(Inputs(c)) BY <2>2, <2>4 DEF Within
  <2> QED BY <2>5, <2>6, ApartSmaller DEF Disjoint
<1>3. ASSUME NEW a \in Added(l), NEW b \in Added(l), a # b PROVE Disjoint(a, b)
  <2>1. PICK c \in ccur : c \in Uninstalled /\ c.tgt = l /\ a \in c.out BY AddedFrom
  <2>2. PICK d \in ccur : d \in Uninstalled /\ d.tgt = l /\ b \in d.out BY AddedFrom
  <2>3. Within(c) /\ Within(d) BY <2>1, <2>2 DEF LevelInv, Aside
  <2>4. CASE c = d BY <1>3, <2>1, <2>2, <2>3, <2>4 DEF Within
  <2>5. CASE c # d
    <3>1. Apart(KeysOf(Inputs(c)), KeysOf(Inputs(d))) BY <2>1, <2>2, <2>5 DEF LevelInv, Aside
    <3>2. KeysOf({a}) \subseteq KeysOf(Inputs(c)) /\ KeysOf({b}) \subseteq KeysOf(Inputs(d))
      BY <2>1, <2>2, <2>3 DEF Within
    <3> QED BY <3>1, <3>2, ApartSmaller DEF Disjoint
  <2> QED BY <2>4, <2>5
<1>4. current \in linked BY DEF IInv, Versions
<1>5. \A a, b \in vfiles[current][l] : a # b => Disjoint(a, b) BY <1>4 DEF LevelInv, Sorted
<1>6. \A h \in NextLevel(l) : h \in Added(l) \/ (h \in vfiles[current][l] /\ h \notin Added(l) /\ h \notin Deleted(l))
  BY DEF NextLevel
<1> QED BY <1>1, <1>2, <1>3, <1>5, <1>6

\* AppendVersion: the version to come is sorted, and what is added lies apart from the
\* compactions that are still to be installed.
LEMMA AppendLevels == ASSUME IInv, LevelInv, AppendVersion PROVE LevelInv'
<1>1. /\ mutex # NoOwner /\ stage = "edit" /\ current' = newVid /\ stage' = "set"
      /\ linked' = linked \cup {newVid} /\ UNCHANGED <<content, ctodo, ccur, mutex, cpc, cvid>>
  BY DEF AppendVersion, coordVars
<1>2. /\ newVid \in Vid /\ newVid \notin vset \cup linked
      /\ \A v \in Vid : v # newVid => vfiles'[v] = vfiles[v]
      /\ \A l \in Level : vfiles'[newVid][l] = NextLevel(l)
  BY NewFiles DEF NextLevel
<1>3. \A F : KeysOf(F)' = KeysOf(F) BY <1>1 DEF KeysOf
<1>4. InputsCurrent' BY AppendInputs
<1>5. Sorted'
  <2>1. ASSUME NEW f, NEW g, Disjoint(f, g) PROVE Disjoint(f, g)'
    <3>1. Apart(KeysOf({f})', KeysOf({g})') BY <1>3, <2>1 DEF Disjoint
    <3> QED BY <3>1 DEF Disjoint, Apart, LeftOf
  <2>2. ASSUME NEW v \in linked
        PROVE  /\ \A l \in Level \ {0} : \A f, g \in vfiles'[v][l] : f # g => Disjoint(f, g)'
               /\ \A l, o \in Level : l # o => vfiles'[v][l] \cap vfiles'[v][o] = {}
    <3>1. v \in Vid /\ v # newVid BY <1>2 DEF IInv, TypeOK, TypeVersions
    <3>2. vfiles'[v] = vfiles[v] BY <1>2, <3>1
    <3> QED BY <2>1, <3>2 DEF LevelInv, Sorted
  <2>3. \A l \in Level \ {0} : \A f, g \in vfiles'[newVid][l] : f # g => Disjoint(f, g)'
    BY <1>1, <1>2, <2>1, NextSorted
  <2>4. \A l, o \in Level : l # o => vfiles'[newVid][l] \cap vfiles'[newVid][o] = {}
    BY <1>1, <1>4 DEF InputsCurrent
  <2> QED BY <1>1, <2>2, <2>3, <2>4 DEF Sorted
<1>6. SameLevels'
  <2> SUFFICES ASSUME cpc = "pick", NEW l \in Level \ {0} PROVE vfiles'[cvid][l] = vfiles'[newVid][l]
    BY <1>1 DEF SameLevels
  <2>1. cvid \in Vid /\ cvid # newVid BY <1>2 DEF IInv, Control, Versions
  <2>2. mutex \in Flusher BY <1>1 DEF IInv, Control, TypeOK, TypeThreads
  <2>3. NextLevel(l) = vfiles[current][l] BY <2>2 DEF NextLevel, Added, Deleted
  <2>4. vfiles[cvid][l] = vfiles[current][l] BY DEF LevelInv, SameLevels
  <2> QED BY <1>2, <2>1, <2>3, <2>4
<1>7. /\ Uninstalled' \subseteq Uninstalled
      /\ mutex = Coordinator => \A c \in Uninstalled' : c \notin ccur
  BY <1>1 DEF Uninstalled
<1>8. ASSUME NEW c \in Uninstalled', c.tgt # 0
      PROVE  /\ AsideFrom(c, vfiles[current][c.tgt])' /\ Within(c)'
             /\ \A d \in Uninstalled' : d # c /\ d.tgt = c.tgt => Apart(KeysOf(Inputs(c)), KeysOf(Inputs(d)))'
  <2>1. c \in Uninstalled /\ c.tgt \in Level \ {0} BY <1>7, <1>8, InputsInCurrent
  <2>2. /\ AsideFrom(c, vfiles[current][c.tgt]) /\ Within(c)
        /\ \A d \in Uninstalled : d # c /\ d.tgt = c.tgt => Apart(KeysOf(Inputs(c)), KeysOf(Inputs(d)))
    BY <1>8, <2>1 DEF LevelInv, Aside
  <2>3. ASSUME NEW d \in Uninstalled PROVE KeysOf(Inputs(d))' = KeysOf(Inputs(d)) BY <1>1 DEF KeysOf, Inputs
  <2>4. ASSUME NEW h \in NextLevel(c.tgt), h \notin Inputs(c) PROVE Apart(KeysOf({h}), KeysOf(Inputs(c)))
    <3>1. CASE h \in Added(c.tgt)
      <4>1. mutex = Coordinator /\ \E d \in ccur : d \in Uninstalled /\ d.tgt = c.tgt /\ h \in d.out
        BY <1>1, <2>1, <3>1, AddedFrom
      <4>2. PICK d \in ccur : d \in Uninstalled /\ d.tgt = c.tgt /\ h \in d.out BY <4>1
      <4>3. d # c BY <1>7, <4>1, <4>2
      <4>4. Apart(KeysOf(Inputs(c)), KeysOf(Inputs(d))) BY <2>2, <4>2, <4>3
      <4>5. Within(d) BY <1>8, <4>2 DEF LevelInv, Aside
      <4>6. KeysOf({h}) \subseteq KeysOf(Inputs(d)) BY <4>2, <4>5 DEF Within
      <4> QED BY <4>4, <4>6, ApartSmaller
    <3>2. CASE h \notin Added(c.tgt)
      <4>1. h \in vfiles[current][c.tgt] BY <2>4, <3>2 DEF NextLevel
      <4> QED BY <2>2, <2>4, <4>1 DEF AsideFrom
    <3> QED BY <3>1, <3>2
  <2>5. AsideFrom(c, vfiles[current][c.tgt])'
    <3>1. ASSUME NEW h \in vfiles'[newVid][c.tgt], h \notin Inputs(c)
          PROVE  Apart(KeysOf({h})', KeysOf(Inputs(c))')
      <4>1. h \in NextLevel(c.tgt) BY <1>2, <2>1
      <4>2. Apart(KeysOf({h}), KeysOf(Inputs(c))) BY <2>4, <3>1, <4>1
      <4> QED BY <1>3, <2>1, <2>3, <4>2
    <3>2. Inputs(c)' = Inputs(c) BY DEF Inputs
    <3> QED BY <1>1, <3>1, <3>2 DEF AsideFrom, Apart, LeftOf
  <2>6. Within(c)'
    <3>1. \A g \in c.out : KeysOf({g})' \subseteq KeysOf(Inputs(c))' BY <1>3, <2>1, <2>2, <2>3 DEF Within
    <3>2. \A g, h \in c.out : g # h => Apart(KeysOf({g})', KeysOf({h})')
      BY <1>3, <2>2 DEF Within, Disjoint
    <3> QED BY <3>1, <3>2 DEF Within, Disjoint, Apart, LeftOf
  <2>7. ASSUME NEW d \in Uninstalled', d # c, d.tgt = c.tgt PROVE Apart(KeysOf(Inputs(c)), KeysOf(Inputs(d)))'
    <3>1. d \in Uninstalled BY <1>7
    <3>2. Apart(KeysOf(Inputs(c)), KeysOf(Inputs(d))) BY <2>2, <2>7, <3>1
    <3>3. Apart(KeysOf(Inputs(c))', KeysOf(Inputs(d))') BY <2>1, <2>3, <3>1, <3>2
    <3> QED BY <3>3 DEF Apart, LeftOf
  <2> QED BY <2>5, <2>6, <2>7
<1>9. Aside' BY <1>8 DEF Aside
<1> QED BY <1>5, <1>6, <1>9 DEF LevelInv

-----------------------------------------------------------------------------
(* Versions *)

\* Every step keeps the levels sorted.
LEMMA LevelInvStep == ASSUME IInv, LevelInv, [Next]_vars PROVE LevelInv'
<1>1. ASSUME NEW f \in Flusher, Flush(f) PROVE LevelInv'
  BY <1>1, TableLevels, LockLevels, GarbageLevels DEF Flush
<1>2. ASSUME Install PROVE LevelInv'
  BY <1>2, IdleLevels, AppendLevels DEF Install
<1>3. ASSUME Compact PROVE LevelInv'
  BY <1>3, StartLevels, PickLevels, MergeLevels, LockLevels, GarbageLevels DEF Compact
<1>4. ASSUME DeleteObsoleteFiles \/ \E f \in Fn : DeleteFile(f) PROVE LevelInv'
  BY <1>4, TableLevels, GarbageLevels
<1> QED BY <1>1, <1>2, <1>3, <1>4, IdleLevels DEF Next

\* At first no version has a table.
LEMMA LevelInvInit == ASSUME Init PROVE LevelInv
<1>1. linked = {1} /\ 1 \in Vid /\ vfiles = [v \in Vid |-> [l \in Level |-> {}]]
  BY ConstantsOK DEF Init, Vid
<1>2. \A l \in Level : vfiles[1][l] = {} BY <1>1
<1>3. Sorted BY <1>1, <1>2 DEF Sorted
<1>4. SameLevels /\ Aside BY DEF Init, SameLevels, Aside, Uninstalled
<1> QED BY <1>3, <1>4 DEF LevelInv

\* Above level 0 the tables of a version never overlap, and no table is in two levels, although
\* the sets of a batch are compacted and installed one by one while flushes install versions.
THEOREM VersionsWellFormed == Spec => []VersionWellFormed
<1>1. Init => IInv /\ LevelInv BY InitInv, LevelInvInit
<1>2. IInv /\ LevelInv /\ [Next]_vars => (IInv /\ LevelInv)' BY InvStep, LevelInvStep
<1>3. ASSUME IInv, LevelInv PROVE VersionWellFormed
  <2>1. ASSUME NEW v \in linked, NEW l \in Level \ {0}, NEW f \in vfiles[v][l], NEW g \in vfiles[v][l], f # g
        PROVE  ~Overlaps(f, {g})
    <3>1. v \in Vid BY <1>3 DEF IInv, TypeOK, TypeVersions
    <3>2. f \in Fn /\ g \in Fn BY <1>3, <3>1, LevelFiles
    <3>3. KeysOf({f}) \subseteq Int /\ KeysOf({g}) \subseteq Int BY <1>3, <3>2, KeysNumbers
    <3>4. Apart(KeysOf({f}), KeysOf({g})) BY <1>3, <2>1 DEF LevelInv, Sorted, Disjoint
    <3> QED BY <3>3, <3>4, OverlapsApart
  <2> QED BY <1>3, <2>1 DEF VersionWellFormed, LevelInv, Sorted
<1> QED BY <1>1, <1>2, <1>3, PTL DEF Spec

=============================================================================
