------------------------- MODULE SlabMemory_theorems -------------------------
(***************************************************************************)
(* BuffersDisjoint holds in every reachable state, for any slab size, any  *)
(* sizes of the classes and any number of slabs and threads.               *)
(*                                                                         *)
(* A slab belongs to the free slabs, to a thread that just took it or to   *)
(* one class (SlabsOwned); the items of a class lie in the part of one of  *)
(* its slabs that has been cut (ItemsPlaced).  What is cut next is then    *)
(* apart from every item, so the items stay apart (ItemsApart).            *)
(***************************************************************************)
EXTENDS SlabMemory, SequenceTheorems, WellFoundedInduction, TLAPS

(* The classes the constructor builds: none has items larger than a slab,  *)
(* the last one has items of the size of a slab.                           *)
SlabConstants ==
    /\ SlabSize \in Nat \ {0} /\ NumSlabs \in Nat
    /\ ClassSize \in Seq(Nat \ {0})
    /\ \A c \in Class : ClassSize[c] <= SlabSize
    /\ Len(ClassSize) > 0 /\ ClassSize[Len(ClassSize)] = SlabSize

SlabSpec == SlabInit /\ [][SlabNext]_slabVars

Typed ==
    /\ freeSlabs \in Seq(Nat)
    /\ classes \in [Class -> [free : Seq(Nat), slabs : Seq([next : Nat, avail : Nat])]]
    /\ held \in [User -> SUBSET [class : Class, addr : Nat]]
    /\ taking \in SUBSET [user : User, class : Class, base : Nat]

Bases == {k * SlabSize : k \in 0..NumSlabs-1}

(* What a slab of class c has room for, and where the n-th one begins.     *)
Room(c) == (SlabSize \div ClassSize[c]) * ClassSize[c]
BaseOf(c, slab) == slab.next + slab.avail - Room(c)

SlabsOwned ==
    /\ \A i \in 1..Len(freeSlabs) : freeSlabs[i] \in Bases
    /\ \A i, j \in 1..Len(freeSlabs) : freeSlabs[i] = freeSlabs[j] => i = j
    /\ \A t \in taking :
         /\ t.base \in Bases
         /\ \A i \in 1..Len(freeSlabs) : freeSlabs[i] # t.base
         /\ \A v \in taking : v.base = t.base => v = t
    /\ \A c \in Class : \A n \in 1..Len(classes[c].slabs) :
         LET b == BaseOf(c, classes[c].slabs[n])
         IN /\ b \in Bases /\ classes[c].slabs[n].avail <= Room(c)
            /\ \A i \in 1..Len(freeSlabs) : freeSlabs[i] # b
            /\ \A t \in taking : t.base # b
            /\ \A d \in Class : \A m \in 1..Len(classes[d].slabs) :
                 BaseOf(d, classes[d].slabs[m]) = b => d = c /\ m = n

(* The item of class c at a is in what has been cut of a slab of c.        *)
Placed(c, a) ==
    \E n \in 1..Len(classes[c].slabs) :
      /\ BaseOf(c, classes[c].slabs[n]) <= a
      /\ a + ClassSize[c] <= classes[c].slabs[n].next

ItemsPlaced ==
    /\ \A u \in User : \A it \in held[u] : Placed(it.class, it.addr)
    /\ \A c \in Class : \A k \in 1..Len(classes[c].free) : Placed(c, classes[c].free[k])

Apart(c, a, d, b) == a + ClassSize[c] <= b \/ b + ClassSize[d] <= a

ItemsApart ==
    /\ \A u, w \in User : \A i \in held[u], j \in held[w] :
         Apart(i.class, i.addr, j.class, j.addr) \/ (u = w /\ i = j)
    /\ \A u \in User : \A i \in held[u] : \A c \in Class : \A k \in 1..Len(classes[c].free) :
         Apart(i.class, i.addr, c, classes[c].free[k])
    /\ \A c, d \in Class : \A k \in 1..Len(classes[c].free), l \in 1..Len(classes[d].free) :
         Apart(c, classes[c].free[k], d, classes[d].free[l]) \/ (c = d /\ k = l)

SlabInv == Typed /\ SlabsOwned /\ ItemsPlaced /\ ItemsApart

-----------------------------------------------------------------------------
(* Arithmetic of slabs.                                                    *)

(* Division rounds down: the items that fit in a slab do not exceed it.    *)
LEMMA DivMul ==
    ASSUME NEW s \in Nat, NEW c \in Nat \ {0}, c <= s
    PROVE (s \div c) * c \in Nat /\ c <= (s \div c) * c /\ (s \div c) * c <= s
<1>1. s \div c \in Nat /\ s = c * (s \div c) + (s % c) /\ s % c \in 0..c-1 OBVIOUS
<1>2. s \div c >= 1 BY <1>1
<1> QED BY <1>1, <1>2

(* A slab of a class holds at least one item, and no more than fit.        *)
LEMMA RoomOK ==
    ASSUME SlabConstants, NEW c \in Class
    PROVE /\ ClassSize[c] \in Nat \ {0}
          /\ Room(c) \in Nat /\ ClassSize[c] <= Room(c) /\ Room(c) <= SlabSize
<1>1. ClassSize[c] \in Nat \ {0} /\ SlabSize \in Nat /\ ClassSize[c] <= SlabSize
  BY DEF SlabConstants, Class
<1> QED BY <1>1, DivMul DEF Room

(* Two slabs do not overlap.                                               *)
LEMMA BasesApart ==
    ASSUME SlabConstants, NEW x \in Bases, NEW y \in Bases, x # y
    PROVE x \in Nat /\ y \in Nat /\ (x + SlabSize <= y \/ y + SlabSize <= x)
<1>1. PICK i \in 0..NumSlabs-1 : x = i * SlabSize BY DEF Bases
<1>2. PICK j \in 0..NumSlabs-1 : y = j * SlabSize BY DEF Bases
<1>3. SlabSize \in Nat \ {0} /\ i \in Nat /\ j \in Nat /\ i # j BY <1>1, <1>2 DEF SlabConstants
<1>4. ASSUME NEW m \in Nat, NEW n \in Nat, NEW s \in Nat, m < n PROVE m * s + s <= n * s
  <2>1. (n - m - 1) * s >= 0 BY <1>4
  <2>2. (n - m - 1) * s = n * s - m * s - s BY <1>4
  <2> QED BY <2>1, <2>2
<1> QED BY <1>1, <1>2, <1>3, <1>4

(* All bytes of a slab have the same quotient.                             *)
LEMMA SameSlab ==
    ASSUME NEW k \in Nat, NEW s \in Nat \ {0}, NEW x \in Nat, k * s <= x, x < k * s + s
    PROVE x \div s = k
<1>1. x \div s \in Nat /\ x = s * (x \div s) + (x % s) /\ x % s \in 0..s-1 OBVIOUS
<1> DEFINE q == x \div s
<1>2. k * s <= s * q + (s - 1) /\ s * q < k * s + s BY <1>1
<1>3. (k - q) * s < s /\ (q - k) * s < s BY <1>1, <1>2
<1>4. k - q < 1 /\ q - k < 1 BY <1>1, <1>3
<1> QED BY <1>1, <1>4

(* Every size up to that of a slab has a class.                            *)
LEMMA ClassOfSize ==
    ASSUME SlabConstants, NEW size \in 1..SlabSize
    PROVE slabclassid(size) \in Class
<1> DEFINE T == {c \in Class : ClassSize[c] >= size}
<1>1. /\ Class \subseteq Nat /\ \A c \in Class : ClassSize[c] \in Nat
      /\ Len(ClassSize) \in T /\ Len(ClassSize) \in Nat
  BY DEF SlabConstants, Class
<1>2. T \subseteq Nat /\ T # {} BY <1>1
<1>3. PICK c \in T : \A d \in T : <<d, c>> \notin OpToRel(<, Nat)
  BY <1>2, NatLessThanWellFounded, WFMin
<1>4. \A d \in T : ~(d < c) BY <1>1, <1>3 DEF OpToRel
<1>5. \A d \in 1..c-1 : ClassSize[d] < size
  <2> TAKE d \in 1..c-1
  <2>1. c \in 1..Len(ClassSize) BY <1>3 DEF Class
  <2>2. d \in Class /\ d < c BY <1>1, <2>1 DEF Class
  <2> QED BY <2>2, <1>1, <1>4
<1> QED BY <1>3, <1>5 DEF slabclassid

-----------------------------------------------------------------------------
(* What the invariant says of a slab: where it begins and what is left.    *)

(* The free list and the slabs of a class, taken apart.                    *)
LEMMA ClassTypes ==
    ASSUME NEW cl \in [Class -> [free : Seq(Nat), slabs : Seq([next : Nat, avail : Nat])]],
           NEW c \in Class
    PROVE /\ cl[c].free \in Seq(Nat) /\ Len(cl[c].free) \in Nat
          /\ \A k \in 1..Len(cl[c].free) : cl[c].free[k] \in Nat
          /\ cl[c].slabs \in Seq([next : Nat, avail : Nat]) /\ Len(cl[c].slabs) \in Nat
          /\ \A n \in 1..Len(cl[c].slabs) : /\ cl[c].slabs[n] \in [next : Nat, avail : Nat]
                                           /\ cl[c].slabs[n].next \in Nat
                                           /\ cl[c].slabs[n].avail \in Nat
<1> DEFINE F == cl[c].free
           S == cl[c].slabs
           R == [next : Nat, avail : Nat]
<1>1. F \in Seq(Nat) /\ S \in Seq(R) OBVIOUS
<1> HIDE DEF F, S, R
<1>2. Len(F) \in Nat /\ \A k \in 1..Len(F) : F[k] \in Nat BY <1>1
<1>3. Len(S) \in Nat /\ \A n \in 1..Len(S) : S[n] \in R BY <1>1
<1>4. \A n \in 1..Len(S) : S[n].next \in Nat /\ S[n].avail \in Nat BY SMTT(30), <1>3 DEF R
<1> QED BY <1>1, <1>2, <1>3, <1>4 DEF F, S, R

(* A slab of a class begins at a base; its cut part ends inside it.        *)
LEMMA SlabBounds ==
    ASSUME SlabConstants, Typed, SlabsOwned, NEW c \in Class, NEW n \in 1..Len(classes[c].slabs)
    PROVE LET slab == classes[c].slabs[n]
              b == BaseOf(c, slab)
          IN /\ slab.next \in Nat /\ slab.avail \in Nat
             /\ b \in Bases /\ b \in Nat /\ b <= slab.next /\ slab.next + slab.avail <= b + SlabSize
<1> DEFINE slab == classes[c].slabs[n]
           b == BaseOf(c, slab)
<1>1. slab.next \in Nat /\ slab.avail \in Nat BY ClassTypes DEF Typed
<1>2. b \in Bases /\ slab.avail <= Room(c) BY DEF SlabsOwned
<1>3. Room(c) \in Nat /\ Room(c) <= SlabSize /\ SlabSize \in Nat BY RoomOK DEF SlabConstants
<1>4. Bases \subseteq Nat BY DEF Bases, SlabConstants
<1>5. b = slab.next + slab.avail - Room(c) BY DEF BaseOf
<1> HIDE DEF slab, b
<1>6. b \in Nat /\ b <= slab.next /\ slab.next + slab.avail <= b + SlabSize
  BY <1>1, <1>2, <1>3, <1>4, <1>5
<1> QED BY <1>1, <1>2, <1>6 DEF slab, b

(* The order of numbers is transitive: stated for steps that compare       *)
(* addresses within larger expressions.                                    *)
LEMMA LeqTransitive ==
    ASSUME NEW p \in Int, NEW q \in Int, NEW r \in Int, p <= q, q <= r
    PROVE p <= r
OBVIOUS

(* What is cut next of a slab is apart from all items.                     *)
LEMMA CutApart ==
    ASSUME SlabConstants, Typed, SlabsOwned,
           NEW c \in Class, NEW n \in 1..Len(classes[c].slabs), HasItem(c, classes[c].slabs[n]),
           NEW d \in Class, NEW a \in Nat, Placed(d, a)
    PROVE Apart(c, classes[c].slabs[n].next, d, a)
<1>1. PICK m \in 1..Len(classes[d].slabs) :
        /\ BaseOf(d, classes[d].slabs[m]) <= a
        /\ a + ClassSize[d] <= classes[d].slabs[m].next
  BY DEF Placed
<1> DEFINE s == classes[c].slabs[n]
           x == BaseOf(c, s)
           v == classes[d].slabs[m]
           y == BaseOf(d, v)
<1>2. /\ s.next \in Nat /\ s.avail \in Nat
      /\ x \in Bases /\ x \in Nat /\ x <= s.next /\ s.next + s.avail <= x + SlabSize
  BY SlabBounds
<1>3. /\ v.next \in Nat /\ v.avail \in Nat
      /\ y \in Bases /\ y \in Nat /\ y <= v.next /\ v.next + v.avail <= y + SlabSize
  BY SlabBounds
<1>4. ClassSize[c] \in Nat /\ ClassSize[d] \in Nat /\ SlabSize \in Nat
  BY RoomOK DEF SlabConstants
<1>5. ClassSize[c] <= s.avail BY <1>2, <1>4 DEF HasItem
<1>6. y <= a /\ a + ClassSize[d] <= v.next BY <1>1
<1>7. x = y => c = d /\ n = m BY DEF SlabsOwned
<1>8. (c = d /\ n = m) => s = v OBVIOUS
<1> HIDE DEF s, x, v, y
<1>9. CASE x = y
  <2>1. a + ClassSize[d] <= s.next BY <1>6, <1>7, <1>8, <1>9
  <2> QED BY <2>1 DEF Apart, s
<1>10. CASE x # y
  <2>1. x + SlabSize <= y \/ y + SlabSize <= x BY <1>2, <1>3, <1>10, BasesApart
  <2>2. s.next + ClassSize[c] <= x + SlabSize BY <1>2, <1>4, <1>5
  <2>3. a + ClassSize[d] <= y + SlabSize BY <1>3, <1>4, <1>6
  <2>4. /\ s.next \in Int /\ s.next + ClassSize[c] \in Int /\ a + ClassSize[d] \in Int
        /\ x \in Int /\ x + SlabSize \in Int /\ y \in Int /\ y + SlabSize \in Int /\ a \in Int
    BY SMTT(30), <1>2, <1>3, <1>4
  <2>5. CASE x + SlabSize <= y
    <3>1. s.next + ClassSize[c] <= y BY Zenon, <2>2, <2>4, <2>5, LeqTransitive
    <3>2. s.next + ClassSize[c] <= a BY Zenon, <3>1, <2>4, <1>6, LeqTransitive
    <3> QED BY <3>2 DEF Apart, s
  <2>6. CASE y + SlabSize <= x
    <3>1. a + ClassSize[d] <= x BY Zenon, <2>3, <2>4, <2>6, LeqTransitive
    <3>2. a + ClassSize[d] <= s.next BY Zenon, <3>1, <2>4, <1>2, LeqTransitive
    <3> QED BY <3>2 DEF Apart, s
  <2> QED BY <2>1, <2>5, <2>6
<1> QED BY <1>9, <1>10

(* A slab that belongs to no class is apart from all items.                *)
LEMMA NewSlabApart ==
    ASSUME SlabConstants, Typed, SlabsOwned, NEW t \in taking,
           NEW d \in Class, NEW a \in Nat, Placed(d, a)
    PROVE Apart(t.class, t.base, d, a)
<1>1. PICK m \in 1..Len(classes[d].slabs) :
        /\ BaseOf(d, classes[d].slabs[m]) <= a
        /\ a + ClassSize[d] <= classes[d].slabs[m].next
  BY DEF Placed
<1> DEFINE v == classes[d].slabs[m]
           y == BaseOf(d, v)
<1>2. t.class \in Class /\ t.base \in Bases /\ t.base # y BY DEF Typed, SlabsOwned
<1>3. /\ v.next \in Nat /\ v.avail \in Nat
      /\ y \in Bases /\ y \in Nat /\ y <= v.next /\ v.next + v.avail <= y + SlabSize
  BY SMTT(30), SlabBounds
<1>4. /\ ClassSize[t.class] \in Nat /\ ClassSize[d] \in Nat /\ SlabSize \in Nat
      /\ ClassSize[t.class] <= SlabSize
  BY <1>2, RoomOK DEF SlabConstants
<1>5. t.base \in Nat /\ (t.base + SlabSize <= y \/ y + SlabSize <= t.base)
  BY <1>2, <1>3, BasesApart
<1>6. y <= a /\ a + ClassSize[d] <= v.next BY <1>1
<1> HIDE DEF v, y
<1>7. a + ClassSize[d] <= y + SlabSize BY <1>3, <1>4, <1>6
<1> QED BY <1>3, <1>4, <1>5, <1>6, <1>7 DEF Apart

-----------------------------------------------------------------------------
(* What a step that leaves the slabs alone keeps.                          *)

(* A step that leaves the slabs alone keeps their owners.                  *)
LEMMA SlabsKept ==
    ASSUME SlabsOwned, UNCHANGED <<freeSlabs, taking>>,
           \A d \in Class : classes'[d].slabs = classes[d].slabs
    PROVE SlabsOwned' /\ \A d \in Class, b \in Nat : Placed(d, b) => Placed(d, b)'
<1>1. SlabsOwned'
  <2>1. ASSUME NEW d \in Class, NEW n \in 1..Len(classes'[d].slabs)
        PROVE  LET b == BaseOf(d, classes'[d].slabs[n])
               IN /\ b \in Bases /\ classes'[d].slabs[n].avail <= Room(d)
                  /\ \A i \in 1..Len(freeSlabs) : freeSlabs[i] # b
                  /\ \A t \in taking : t.base # b
                  /\ \A e \in Class : \A m \in 1..Len(classes'[e].slabs) :
                       BaseOf(e, classes'[e].slabs[m]) = b => e = d /\ m = n
    <3>1. classes'[d].slabs = classes[d].slabs OBVIOUS
    <3>2. \A e \in Class : \A m \in 1..Len(classes[e].slabs) :
            BaseOf(e, classes[e].slabs[m]) = BaseOf(d, classes[d].slabs[n]) => e = d /\ m = n
      BY <3>1 DEF SlabsOwned
    <3>3. \A e \in Class : \A m \in 1..Len(classes'[e].slabs) :
            BaseOf(e, classes'[e].slabs[m]) = BaseOf(d, classes[d].slabs[n]) => e = d /\ m = n
      BY <3>2, Zenon
    <3> QED BY <3>1, <3>3 DEF SlabsOwned
  <2> QED BY <2>1 DEF SlabsOwned
<1>2. \A d \in Class, b \in Nat : Placed(d, b) => Placed(d, b)' BY DEF Placed
<1> QED BY <1>1, <1>2

(* An item that is apart from all others is given to u.                    *)
LEMMA ItemGiven ==
    ASSUME SlabInv, NEW u \in User, NEW c \in Class, NEW a \in Nat,
           held' = [held EXCEPT ![u] = @ \cup {Item(c, a)}],
           \A d \in Class : classes'[d].free = classes[d].free,
           \A d \in Class, b \in Nat : Placed(d, b) => Placed(d, b)',
           Placed(c, a)',
           \A d \in Class, b \in Nat : Placed(d, b) => Apart(c, a, d, b)
    PROVE ItemsPlaced' /\ ItemsApart'
<1> USE DEF SlabInv
<1>1. /\ Item(c, a).class = c /\ Item(c, a).addr = a
      /\ \A w \in User : \A i \in held'[w] : i \in held[w] \/ (w = u /\ i = Item(c, a))
  BY DEF Item, Typed
<1>2. \A w \in User : \A i \in held[w] : /\ i.class \in Class /\ i.addr \in Nat
                                       /\ Placed(i.class, i.addr)
  BY DEF Typed, ItemsPlaced
<1>3. \A d \in Class : \A k \in 1..Len(classes[d].free) :
        classes[d].free[k] \in Nat /\ Placed(d, classes[d].free[k])
  BY DEF Typed, ItemsPlaced
<1>4. ItemsPlaced'
  <2>1. \A w \in User : \A i \in held'[w] : Placed(i.class, i.addr)' BY <1>1, <1>2
  <2>2. \A d \in Class : \A k \in 1..Len(classes'[d].free) : Placed(d, classes[d].free[k])'
    BY <1>3
  <2> QED BY <2>1, <2>2 DEF ItemsPlaced
<1>5. \A d, e \in Class, x, y \in Nat : Apart(d, x, e, y) => Apart(e, y, d, x) BY DEF Apart
<1>6. \A v, w \in User : \A i \in held'[v], j \in held'[w] :
        Apart(i.class, i.addr, j.class, j.addr) \/ (v = w /\ i = j)
  <2> TAKE v, w \in User
  <2> TAKE i \in held'[v], j \in held'[w]
  <2>1. CASE i \in held[v] /\ j \in held[w] BY <2>1 DEF ItemsApart
  <2>2. CASE i \in held[v] /\ w = u /\ j = Item(c, a) BY <2>2, <1>1, <1>2, <1>5
  <2>3. CASE v = u /\ i = Item(c, a) /\ j \in held[w] BY <2>3, <1>1, <1>2
  <2>4. CASE v = u /\ i = Item(c, a) /\ w = u /\ j = Item(c, a) BY <2>4
  <2> QED BY <2>1, <2>2, <2>3, <2>4, <1>1
<1>7. \A w \in User : \A i \in held'[w] : \A d \in Class : \A k \in 1..Len(classes'[d].free) :
        Apart(i.class, i.addr, d, classes'[d].free[k])
  <2> TAKE w \in User
  <2> TAKE i \in held'[w]
  <2> TAKE d \in Class
  <2> TAKE k \in 1..Len(classes'[d].free)
  <2>1. CASE i \in held[w] BY <2>1 DEF ItemsApart
  <2>2. CASE i = Item(c, a) BY <2>2, <1>1, <1>3
  <2> QED BY <2>1, <2>2, <1>1
<1>8. \A d, e \in Class : \A k \in 1..Len(classes'[d].free), l \in 1..Len(classes'[e].free) :
        Apart(d, classes'[d].free[k], e, classes'[e].free[l]) \/ (d = e /\ k = l)
  <2> TAKE d, e \in Class
  <2>1. classes'[d].free = classes[d].free /\ classes'[e].free = classes[e].free BY Zenon
  <2>2. \A k \in 1..Len(classes[d].free), l \in 1..Len(classes[e].free) :
          Apart(d, classes[d].free[k], e, classes[e].free[l]) \/ (d = e /\ k = l)
    BY Zenon DEF ItemsApart
  <2> QED BY Zenon, <2>1, <2>2
<1>9. ItemsApart' BY <1>6, <1>7, <1>8 DEF ItemsApart
<1> QED BY <1>4, <1>9

-----------------------------------------------------------------------------
(* One lemma for each way a step of the memory manager can go.             *)

(* ItemAlloc takes the first item of the free list.                        *)
LEMMA FromFreeList ==
    ASSUME SlabConstants, SlabInv, NEW u \in User, NEW c \in Class, classes[c].free # <<>>,
           held' = [held EXCEPT ![u] = @ \cup {Item(c, Head(classes[c].free))}],
           classes' = [classes EXCEPT ![c].free = Tail(@)],
           UNCHANGED <<freeSlabs, taking>>
    PROVE SlabInv'
<1> USE DEF SlabInv
<1> DEFINE F == classes[c].free
           a == Head(F)
           Old(d, k) == IF d = c THEN k + 1 ELSE k
<1>1. /\ F \in Seq(Nat) /\ Len(F) \in Nat \ {0} /\ a = F[1] /\ a \in Nat
      /\ Tail(F) \in Seq(Nat) /\ Len(Tail(F)) = Len(F) - 1
      /\ \A k \in 1..Len(F)-1 : Tail(F)[k] = F[k + 1]
  <2>1. F \in Seq(Nat) BY DEF Typed
  <2> QED BY <2>1
<1>2. /\ \A d \in Class : classes'[d].slabs = classes[d].slabs
      /\ classes'[c].free = Tail(F)
      /\ \A d \in Class : d # c => classes'[d].free = classes[d].free
  BY DEF Typed
<1>3. Typed'
  <2>1. classes' \in [Class -> [free : Seq(Nat), slabs : Seq([next : Nat, avail : Nat])]]
    BY <1>1 DEF Typed
  <2>2. Item(c, a) \in [class : Class, addr : Nat] BY <1>1 DEF Item
  <2> QED BY <2>1, <2>2 DEF Typed
<1>4. SlabsOwned' /\ \A d \in Class, b \in Nat : Placed(d, b) => Placed(d, b)'
  BY <1>2, SlabsKept
<1>5. \A d \in Class : \A k \in 1..Len(classes'[d].free) :
        /\ Old(d, k) \in 1..Len(classes[d].free)
        /\ classes'[d].free[k] = classes[d].free[Old(d, k)] /\ classes'[d].free[k] \in Nat
        /\ d = c => Old(d, k) # 1
  <2> TAKE d \in Class
  <2> TAKE k \in 1..Len(classes'[d].free)
  <2>1. CASE d = c
    <3>1. Len(classes'[d].free) = Len(F) - 1 /\ classes'[d].free = Tail(F) BY <2>1, <1>1, <1>2
    <3>2. classes[d].free = F BY <2>1
    <3> HIDE DEF F
    <3>3. k \in 1..Len(F)-1 BY <3>1
    <3>4. Len(F) \in Nat BY <1>1
    <3>5. k + 1 \in 1..Len(F) /\ k + 1 # 1 BY <3>3, <3>4
    <3>6. Tail(F)[k] = F[k + 1] /\ F[k + 1] \in Nat BY <3>3, <3>5, <1>1
    <3> QED BY <2>1, <3>1, <3>2, <3>5, <3>6
  <2>2. CASE d # c BY <2>2, <1>2, ClassTypes DEF Typed
  <2> QED BY SMTT(30), <2>1, <2>2
<1>6. /\ Item(c, a).class = c /\ Item(c, a).addr = a
      /\ \A w \in User : \A i \in held'[w] : i \in held[w] \/ (w = u /\ i = Item(c, a))
  BY DEF Item, Typed
<1>7. \A w \in User : \A i \in held[w] : i.class \in Class /\ i.addr \in Nat BY DEF Typed
<1>8. ItemsPlaced'
  <2>1. Placed(c, a) BY <1>1 DEF ItemsPlaced
  <2> HIDE DEF F, a, Old
  <2>2. \A w \in User : \A i \in held'[w] : Placed(i.class, i.addr)'
    BY SMTT(30), <1>1, <1>4, <1>6, <1>7, <2>1 DEF ItemsPlaced
  <2>3. \A d \in Class : \A k \in 1..Len(classes'[d].free) : Placed(d, classes[d].free[k])'
    BY SMTT(30), <1>4, <1>5 DEF ItemsPlaced
  <2> QED BY <2>2, <2>3 DEF ItemsPlaced
<1>9. ItemsApart'
  <2> HIDE DEF F, a, Old
  <2>1. \A v, w \in User : \A i \in held'[v], j \in held'[w] :
          Apart(i.class, i.addr, j.class, j.addr) \/ (v = w /\ i = j)
    <3>1. \A w \in User : \A i \in held[w] :
            Apart(i.class, i.addr, c, a) /\ Apart(c, a, i.class, i.addr)
      <4>1. 1 \in 1..Len(classes[c].free) /\ a = classes[c].free[1] BY <1>1 DEF F
      <4>2. \A w \in User : \A i \in held[w] : Apart(i.class, i.addr, c, a)
        BY <4>1 DEF ItemsApart
      <4> QED BY <4>2 DEF Apart
    <3> QED BY <1>6, <3>1 DEF ItemsApart
  <2>2. \A w \in User : \A i \in held'[w] : \A d \in Class :
          \A k \in 1..Len(classes'[d].free) : Apart(i.class, i.addr, d, classes'[d].free[k])
    <3> TAKE w \in User
    <3> TAKE i \in held'[w]
    <3> TAKE d \in Class
    <3> TAKE k \in 1..Len(classes'[d].free)
    <3>1. CASE i \in held[w] BY SMTT(30), <3>1, <1>5 DEF ItemsApart
    <3>2. CASE i = Item(c, a)
      <4>1. 1 \in 1..Len(classes[c].free) /\ a = classes[c].free[1] BY <1>1 DEF F
      <4> QED BY <3>2, <4>1, <1>5, <1>6 DEF ItemsApart
    <3> QED BY <3>1, <3>2, <1>6
  <2>3. \A d, e \in Class :
          \A k \in 1..Len(classes'[d].free), l \in 1..Len(classes'[e].free) :
            Apart(d, classes'[d].free[k], e, classes'[e].free[l]) \/ (d = e /\ k = l)
    <3> TAKE d, e \in Class
    <3> TAKE k \in 1..Len(classes'[d].free), l \in 1..Len(classes'[e].free)
    <3>1. (d = e /\ Old(d, k) = Old(e, l)) => k = l BY DEF Old
    <3>2. \/ Apart(d, classes[d].free[Old(d, k)], e, classes[e].free[Old(e, l)])
          \/ d = e /\ Old(d, k) = Old(e, l)
      BY <1>5 DEF ItemsApart
    <3> QED BY <3>1, <3>2, <1>5
  <2> QED BY <2>1, <2>2, <2>3 DEF ItemsApart
<1> QED BY <1>3, <1>4, <1>8, <1>9

(* ItemAlloc cuts an item off the last slab of the class.                  *)
LEMMA FromLastSlab ==
    ASSUME SlabConstants, SlabInv, NEW u \in User, NEW c \in Class,
           NEW n \in 1..Len(classes[c].slabs), HasItem(c, classes[c].slabs[n]),
           held' = [held EXCEPT ![u] = @ \cup {Item(c, classes[c].slabs[n].next)}],
           classes' = [classes EXCEPT ![c].slabs[n] = Cut(c, @)],
           UNCHANGED <<freeSlabs, taking>>
    PROVE SlabInv'
<1> USE DEF SlabInv
<1> DEFINE R == [next : Nat, avail : Nat]
           S == classes[c].slabs
           s == S[n]
           new == Cut(c, s)
           T == [S EXCEPT ![n] = new]
<1>1. S \in Seq(R) /\ Len(S) \in Nat BY ClassTypes DEF Typed
<1>2. /\ s.next \in Nat /\ s.avail \in Nat
      /\ ClassSize[c] \in Nat /\ Room(c) \in Nat
  BY ClassTypes, RoomOK DEF Typed
<1>3. ClassSize[c] <= s.avail BY SMTT(30), <1>2 DEF HasItem
<1>4. PICK a \in Nat : a = s.next BY SMTT(30), <1>2
<1>5. /\ BaseOf(c, s) <= a
      /\ \A d \in Class, b \in Nat : Placed(d, b) => Apart(c, a, d, b)
  BY <1>4, SlabBounds, CutApart
<1>6. classes' = [classes EXCEPT ![c] = [classes[c] EXCEPT !.slabs = T]] OBVIOUS
<1> HIDE DEF s
<1>7. new \in R /\ new.next = s.next + ClassSize[c] /\ new.avail = s.avail - ClassSize[c]
  <2>1. s.next + ClassSize[c] \in Nat /\ s.avail - ClassSize[c] \in Nat BY <1>2, <1>3
  <2> QED BY <2>1 DEF Cut
<1> HIDE DEF new, R
<1>8. BaseOf(c, new) = BaseOf(c, s) BY <1>2, <1>7 DEF BaseOf
<1>9. /\ T \in Seq(R) /\ Len(T) = Len(S) /\ T[n] = new
      /\ \A m \in 1..Len(S) : m # n => T[m] = S[m]
  <2> HIDE DEF R, S
  <2>1. n \in 1..Len(S) BY DEF S
  <2> QED BY <2>1, <1>1, <1>7, ExceptSeq
<1> HIDE DEF T
<1>10. /\ classes'[c].slabs = T
       /\ \A d \in Class : d # c => classes'[d].slabs = classes[d].slabs
       /\ \A d \in Class : classes'[d].free = classes[d].free
  BY <1>6 DEF Typed
<1>11. Typed'
  <2>1. classes' \in [Class -> [free : Seq(Nat), slabs : Seq(R)]]
    <3>1. [classes[c] EXCEPT !.slabs = T] \in [free : Seq(Nat), slabs : Seq(R)]
      BY <1>9 DEF Typed, R
    <3> QED BY <3>1, <1>6 DEF Typed, R
  <2>2. Item(c, a) \in [class : Class, addr : Nat] BY DEF Item
  <2>3. held' = [held EXCEPT ![u] = @ \cup {Item(c, a)}] BY <1>4 DEF s
  <2>4. held' \in [User -> SUBSET [class : Class, addr : Nat]] BY SMTT(30), <2>2, <2>3 DEF Typed
  <2> QED BY <2>1, <2>4 DEF Typed, R
<1>12. \A d \in Class : /\ Len(classes'[d].slabs) = Len(classes[d].slabs)
                        /\ \A m \in 1..Len(classes[d].slabs) :
                             /\ BaseOf(d, classes'[d].slabs[m]) = BaseOf(d, classes[d].slabs[m])
                             /\ classes'[d].slabs[m].avail <= classes[d].slabs[m].avail
                             /\ classes[d].slabs[m].next <= classes'[d].slabs[m].next
  <2> TAKE d \in Class
  <2>1. \A m \in 1..Len(classes[d].slabs) :
          classes[d].slabs[m].next \in Nat /\ classes[d].slabs[m].avail \in Nat
    BY ClassTypes DEF Typed
  <2>2. CASE d # c
    <3>1. classes'[d].slabs = classes[d].slabs BY Zenon, <2>2, <1>10
    <3>2. \A k \in Nat : k <= k OBVIOUS
    <3> QED BY Zenon, <2>1, <3>1, <3>2
  <2>3. CASE d = c
    <3>1. new.avail <= s.avail /\ s.next <= new.next BY <1>2, <1>7
    <3>2. \A m \in 1..Len(S) : S[m].next \in Nat /\ S[m].avail \in Nat BY <2>1, <2>3
    <3>3. S[n] = s /\ classes[d].slabs = S /\ classes'[d].slabs = T BY <2>3, <1>10 DEF s
    <3> HIDE DEF S
    <3>4. \A m \in 1..Len(S) : /\ BaseOf(c, T[m]) = BaseOf(c, S[m])
                               /\ T[m].avail <= S[m].avail /\ S[m].next <= T[m].next
      <4> TAKE m \in 1..Len(S)
      <4>1. CASE m = n BY <4>1, <3>1, <3>3, <1>8, <1>9
      <4>2. CASE m # n BY SMTT(30), <4>2, <3>2, <1>9
      <4> QED BY <4>1, <4>2
    <3> QED BY <2>3, <3>3, <3>4, <1>9
  <2> QED BY <2>2, <2>3
<1>13. \A d \in Class : \A m \in 1..Len(classes[d].slabs) :
         /\ classes[d].slabs[m].next \in Nat /\ classes'[d].slabs[m].next \in Nat
         /\ classes[d].slabs[m].avail \in Nat /\ classes'[d].slabs[m].avail \in Nat
         /\ BaseOf(d, classes[d].slabs[m]) \in Nat
  BY <1>11, <1>12, ClassTypes, SlabBounds DEF Typed
<1>14. SlabsOwned'
  <2>1. \A d \in Class : \A m \in 1..Len(classes[d].slabs) : classes'[d].slabs[m].avail <= Room(d)
    <3> TAKE d \in Class
    <3> TAKE m \in 1..Len(classes[d].slabs)
    <3>1. classes[d].slabs[m].avail <= Room(d) /\ Room(d) \in Nat BY SMTT(30), RoomOK DEF SlabsOwned
    <3>2. classes'[d].slabs[m].avail <= classes[d].slabs[m].avail BY Zenon, <1>12
    <3>3. classes'[d].slabs[m].avail \in Nat /\ classes[d].slabs[m].avail \in Nat BY Zenon, <1>13
    <3>4. \A p, q, r \in Nat : p <= q /\ q <= r => p <= r OBVIOUS
    <3> QED BY Zenon, <3>1, <3>2, <3>3, <3>4
  <2>2. \A d \in Class : \A m \in 1..Len(classes'[d].slabs) :
          /\ m \in 1..Len(classes[d].slabs)
          /\ BaseOf(d, classes'[d].slabs[m]) = BaseOf(d, classes[d].slabs[m])
    BY Zenon, <1>12
  <2>3. freeSlabs' = freeSlabs /\ taking' = taking OBVIOUS
  <2>4. /\ \A i \in 1..Len(freeSlabs') : freeSlabs'[i] \in Bases
        /\ \A i, j \in 1..Len(freeSlabs') : freeSlabs'[i] = freeSlabs'[j] => i = j
    BY Zenon, <2>3 DEF SlabsOwned
  <2>5. \A t \in taking' :
          /\ t.base \in Bases
          /\ \A i \in 1..Len(freeSlabs') : freeSlabs'[i] # t.base
          /\ \A v \in taking' : v.base = t.base => v = t
    BY Zenon, <2>3 DEF SlabsOwned
  <2>6. ASSUME NEW d \in Class, NEW m \in 1..Len(classes'[d].slabs)
        PROVE  LET b == BaseOf(d, classes'[d].slabs[m])
               IN /\ b \in Bases /\ classes'[d].slabs[m].avail <= Room(d)
                  /\ \A i \in 1..Len(freeSlabs') : freeSlabs'[i] # b
                  /\ \A t \in taking' : t.base # b
                  /\ \A e \in Class : \A k \in 1..Len(classes'[e].slabs) :
                       BaseOf(e, classes'[e].slabs[k]) = b => e = d /\ k = m
    <3> DEFINE b == BaseOf(d, classes[d].slabs[m])
    <3>1. m \in 1..Len(classes[d].slabs) /\ BaseOf(d, classes'[d].slabs[m]) = b BY Zenon, <2>2
    <3>2. /\ b \in Bases
          /\ \A i \in 1..Len(freeSlabs) : freeSlabs[i] # b
          /\ \A t \in taking : t.base # b
          /\ \A e \in Class : \A k \in 1..Len(classes[e].slabs) :
               BaseOf(e, classes[e].slabs[k]) = b => e = d /\ k = m
      BY Zenon, <3>1 DEF SlabsOwned
    <3> HIDE DEF b
    <3>3. \A e \in Class : \A k \in 1..Len(classes'[e].slabs) :
            BaseOf(e, classes'[e].slabs[k]) = b => e = d /\ k = m
      <4> TAKE e \in Class
      <4> TAKE k \in 1..Len(classes'[e].slabs)
      <4> HAVE BaseOf(e, classes'[e].slabs[k]) = b
      <4>1. k \in 1..Len(classes[e].slabs) /\ BaseOf(e, classes[e].slabs[k]) = b BY Zenon, <2>2
      <4> QED BY Zenon, <4>1, <3>2
    <3>4. \A i \in 1..Len(freeSlabs') : freeSlabs'[i] # b BY Zenon, <3>2, <2>3
    <3>5. \A t \in taking' : t.base # b BY Zenon, <3>2, <2>3
    <3> QED BY Zenon, <3>1, <3>2, <3>3, <3>4, <3>5, <2>1
  <2> QED BY Zenon, <2>4, <2>5, <2>6 DEF SlabsOwned
<1>15. ASSUME NEW d \in Class, NEW b \in Nat, Placed(d, b) PROVE Placed(d, b)'
  <2>1. PICK m \in 1..Len(classes[d].slabs) :
          BaseOf(d, classes[d].slabs[m]) <= b /\ b + ClassSize[d] <= classes[d].slabs[m].next
    BY <1>15 DEF Placed
  <2>2. ClassSize[d] \in Nat BY SMTT(30), RoomOK
  <2>3. /\ Len(classes'[d].slabs) = Len(classes[d].slabs)
        /\ BaseOf(d, classes'[d].slabs[m]) = BaseOf(d, classes[d].slabs[m])
        /\ classes[d].slabs[m].next <= classes'[d].slabs[m].next
    BY <1>12
  <2>4. m \in 1..Len(classes'[d].slabs) BY <2>3
  <2>5. BaseOf(d, classes'[d].slabs[m]) <= b BY Zenon, <2>1, <2>3
  <2>6. classes[d].slabs[m].next \in Nat /\ classes'[d].slabs[m].next \in Nat BY <1>13
  <2>7. b + ClassSize[d] <= classes'[d].slabs[m].next
    <3>1. b + ClassSize[d] \in Nat BY <2>2
    <3>2. \A p, q, r \in Nat : p <= q /\ q <= r => p <= r OBVIOUS
    <3> QED BY Zenon, <3>1, <3>2, <2>1, <2>3, <2>6
  <2> QED BY <2>4, <2>5, <2>7 DEF Placed
<1>16. Placed(c, a)'
  <2>1. n \in 1..Len(classes'[c].slabs) /\ classes'[c].slabs[n] = new BY <1>9, <1>10
  <2>2. BaseOf(c, new) <= a /\ a + ClassSize[c] <= new.next BY <1>2, <1>4, <1>5, <1>7, <1>8
  <2> QED BY <2>1, <2>2 DEF Placed
<1>17. ItemsPlaced' /\ ItemsApart'
  <2>1. held' = [held EXCEPT ![u] = @ \cup {Item(c, a)}] BY <1>4 DEF s
  <2> QED BY <2>1, <1>5, <1>10, <1>15, <1>16, ItemGiven
<1> QED BY <1>11, <1>14, <1>17

(* ItemAlloc takes a slab off the free slabs.                              *)
LEMMA SlabTaken ==
    ASSUME SlabConstants, SlabInv, NEW u \in User, NEW c \in Class, freeSlabs # <<>>,
           taking' = taking \cup {[user |-> u, class |-> c, base |-> Last(freeSlabs)]},
           freeSlabs' = Front(freeSlabs),
           UNCHANGED <<classes, held>>
    PROVE SlabInv'
<1> USE DEF SlabInv
<1> DEFINE n == Len(freeSlabs)
           new == [user |-> u, class |-> c, base |-> freeSlabs[n]]
<1>1. /\ n \in Nat \ {0} /\ freeSlabs[n] \in Nat
      /\ freeSlabs' \in Seq(Nat) /\ Len(freeSlabs') = n - 1
      /\ \A i \in 1..n-1 : freeSlabs'[i] = freeSlabs[i]
  <2>1. freeSlabs \in Seq(Nat) /\ freeSlabs' = SubSeq(freeSlabs, 1, n - 1) BY DEF Typed, Front
  <2>2. n \in Nat \ {0} /\ \A i \in 1..n : freeSlabs[i] \in Nat BY <2>1
  <2>3. \A i \in 1..n-1 : i \in 1..n /\ i - 1 + 1 = i BY <2>2
  <2> HIDE DEF n
  <2>4. n \in 1..n BY <2>2
  <2>5. freeSlabs' \in Seq(Nat) /\ Len(freeSlabs') = n - 1 BY <2>1, <2>2
  <2>6. \A i \in 1..n-1 : freeSlabs'[i] = freeSlabs[i] BY <2>1, <2>2, <2>3
  <2> QED BY <2>2, <2>4, <2>5, <2>6
<1>2. taking' = taking \cup {new} BY DEF Last
<1>3. Typed' BY SMTT(30), <1>1, <1>2 DEF Typed
<1>4. SlabsOwned'
  <2>1. \A i \in 1..Len(freeSlabs') : i \in 1..n /\ i # n /\ freeSlabs'[i] = freeSlabs[i]
    BY <1>1
  <2>2. n \in 1..n BY SMTT(30), <1>1
  <2>3. \A t \in taking' :
          /\ t.base \in Bases
          /\ \A i \in 1..Len(freeSlabs') : freeSlabs'[i] # t.base
          /\ \A v \in taking' : v.base = t.base => v = t
    BY SMTT(30), <2>1, <2>2, <1>2 DEF SlabsOwned
  <2>4. \A d \in Class : \A m \in 1..Len(classes[d].slabs) :
          \A t \in taking' : t.base # BaseOf(d, classes[d].slabs[m])
    BY SMTT(30), <2>2, <1>2 DEF SlabsOwned
  <2> HIDE DEF n, new
  <2>5. n = Len(freeSlabs) BY DEF n
  <2>6. \A i \in 1..Len(freeSlabs') : freeSlabs'[i] \in Bases BY Zenon, <2>1, <2>5 DEF SlabsOwned
  <2>7. \A i, j \in 1..Len(freeSlabs') : freeSlabs'[i] = freeSlabs'[j] => i = j
    <3> TAKE i, j \in 1..Len(freeSlabs')
    <3>1. i \in 1..Len(freeSlabs) /\ j \in 1..Len(freeSlabs) BY Zenon, <2>1, <2>5
    <3>2. freeSlabs'[i] = freeSlabs[i] /\ freeSlabs'[j] = freeSlabs[j] BY Zenon, <2>1
    <3>3. freeSlabs[i] = freeSlabs[j] => i = j BY Zenon, <3>1 DEF SlabsOwned
    <3> QED BY Zenon, <3>2, <3>3
  <2>8. \A d \in Class : \A m \in 1..Len(classes[d].slabs) :
          \A i \in 1..Len(freeSlabs') : freeSlabs'[i] # BaseOf(d, classes[d].slabs[m])
    <3> TAKE d \in Class
    <3> TAKE m \in 1..Len(classes[d].slabs)
    <3> TAKE i \in 1..Len(freeSlabs')
    <3>1. i \in 1..Len(freeSlabs) /\ freeSlabs'[i] = freeSlabs[i] BY Zenon, <2>1, <2>5
    <3>2. freeSlabs[i] # BaseOf(d, classes[d].slabs[m]) BY Zenon, <3>1 DEF SlabsOwned
    <3> QED BY Zenon, <3>1, <3>2
  <2>9. classes' = classes OBVIOUS
  <2>10. \A d \in Class : \A m \in 1..Len(classes[d].slabs) :
           LET b == BaseOf(d, classes[d].slabs[m])
           IN /\ b \in Bases /\ classes[d].slabs[m].avail <= Room(d)
              /\ \A e \in Class : \A k \in 1..Len(classes[e].slabs) :
                   BaseOf(e, classes[e].slabs[k]) = b => e = d /\ k = m
    BY Zenon DEF SlabsOwned
  <2>11. \A d \in Class : \A m \in 1..Len(classes[d].slabs) :
           LET b == BaseOf(d, classes[d].slabs[m])
           IN /\ b \in Bases /\ classes[d].slabs[m].avail <= Room(d)
              /\ \A i \in 1..Len(freeSlabs') : freeSlabs'[i] # b
              /\ \A t \in taking' : t.base # b
              /\ \A e \in Class : \A k \in 1..Len(classes[e].slabs) :
                   BaseOf(e, classes[e].slabs[k]) = b => e = d /\ k = m
    BY Zenon, <2>4, <2>8, <2>10
  <2> QED BY SMTT(30), <2>3, <2>6, <2>7, <2>9, <2>11 DEF SlabsOwned
<1>5. classes' = classes /\ held' = held OBVIOUS
<1>6. ItemsPlaced' BY Zenon, <1>5 DEF ItemsPlaced, Placed
<1>7. ItemsApart' BY Zenon, <1>5 DEF ItemsApart, Apart
<1> QED BY <1>3, <1>4, <1>6, <1>7

(* The slab that was taken becomes the last one of its class, and its      *)
(* first item is given out.                                                *)
LEMMA SlabAdded ==
    ASSUME SlabConstants, SlabInv, AddSlab
    PROVE SlabInv'
<1> USE DEF SlabInv
<1> DEFINE Slabs == [next : Nat, avail : Nat]
<1>1. PICK t \in taking :
        LET slab == NewSlab(t.base, t.class)
        IN /\ held' = [held EXCEPT ![t.user] = @ \cup {Item(t.class, slab.next)}]
           /\ classes' = [classes EXCEPT ![t.class].slabs = Append(@, Cut(t.class, slab))]
           /\ taking' = taking \ {t}
           /\ UNCHANGED freeSlabs
  BY DEF AddSlab
<1> DEFINE c == t.class
           S == classes[c].slabs
           new == Cut(c, NewSlab(t.base, c))
<1>2. c \in Class /\ t.user \in User /\ t.base \in Nat /\ t.base \in Bases
  BY DEF Typed, SlabsOwned
<1>3. ClassSize[c] \in Nat /\ Room(c) \in Nat /\ ClassSize[c] <= Room(c) BY SMTT(30), <1>2, RoomOK
<1>4. /\ NewSlab(t.base, c).next = t.base
      /\ new \in Slabs /\ new.next = t.base + ClassSize[c] /\ new.avail = Room(c) - ClassSize[c]
      /\ BaseOf(c, new) = t.base
  BY <1>2, <1>3 DEF NewSlab, Cut, Room, BaseOf
<1>5. /\ S \in Seq(Slabs) /\ Append(S, new) \in Seq(Slabs)
      /\ Len(S) \in Nat /\ Len(Append(S, new)) = Len(S) + 1
      /\ \A m \in 1..Len(S) : Append(S, new)[m] = S[m]
      /\ Append(S, new)[Len(S) + 1] = new
  <2>1. S \in Seq(Slabs) BY <1>2 DEF Typed
  <2> HIDE DEF S, new, Slabs
  <2> QED BY <2>1, <1>4
<1>6. /\ classes'[c].slabs = Append(S, new)
      /\ \A d \in Class : d # c => classes'[d].slabs = classes[d].slabs
      /\ \A d \in Class : classes'[d].free = classes[d].free
  BY SMTT(30), <1>1, <1>2 DEF Typed
<1>7. Typed'
  <2>1. classes' \in [Class -> [free : Seq(Nat), slabs : Seq(Slabs)]]
    <3>1. DOMAIN classes' = Class /\ \A d \in Class : d # c => classes'[d] = classes[d]
      BY SMTT(30), <1>1, <1>2 DEF Typed
    <3>2. classes'[c] = [free |-> classes[c].free, slabs |-> Append(S, new)]
      BY <1>1, <1>2 DEF Typed
    <3>3. classes[c].free \in Seq(Nat) BY SMTT(30), <1>2, ClassTypes DEF Typed
    <3> HIDE DEF S, new, Slabs
    <3>4. classes'[c] \in [free : Seq(Nat), slabs : Seq(Slabs)] BY <1>5, <3>2, <3>3
    <3>5. \A d \in Class : d # c => classes'[d] \in [free : Seq(Nat), slabs : Seq(Slabs)]
      BY SMTT(30), <3>1 DEF Typed, Slabs
    <3>6. classes' = [d \in Class |-> classes'[d]] BY <1>1, <3>1 DEF Typed
    <3> QED BY <3>4, <3>5, <3>6
  <2>2. Item(c, t.base) \in [class : Class, addr : Nat] BY <1>2 DEF Item
  <2> QED BY <2>1, <2>2, <1>1, <1>2, <1>4 DEF Typed
<1>8. \A d \in Class : \A m \in 1..Len(classes'[d].slabs) :
        \/ m \in 1..Len(classes[d].slabs) /\ classes'[d].slabs[m] = classes[d].slabs[m]
        \/ d = c /\ m = Len(S) + 1 /\ classes'[d].slabs[m] = new
  <2> TAKE d \in Class
  <2> TAKE m \in 1..Len(classes'[d].slabs)
  <2>1. CASE d # c BY <2>1, <1>6
  <2>2. CASE d = c
    <3>1. classes[d].slabs = S /\ classes'[d].slabs = Append(S, new) BY <2>2, <1>6
    <3> HIDE DEF S, new, Slabs
    <3>2. m \in 1..Len(S) + 1 BY <3>1, <1>5
    <3>3. m \in 1..Len(S) \/ m = Len(S) + 1 BY SMTT(30), <3>2, <1>5
    <3> QED BY SMTT(30), <2>2, <3>1, <3>3, <1>5
  <2> QED BY <2>1, <2>2
<1>9. SlabsOwned'
  <2> DEFINE Base(d, m) == BaseOf(d, classes'[d].slabs[m])
  <2> HIDE DEF S, new
  <2>1. \A d \in Class : \A m \in 1..Len(classes'[d].slabs) :
          /\ Base(d, m) \in Bases /\ classes'[d].slabs[m].avail <= Room(d)
          /\ \A i \in 1..Len(freeSlabs) : freeSlabs[i] # Base(d, m)
          /\ \A v \in taking' : v.base # Base(d, m)
    <3> TAKE d \in Class
    <3> TAKE m \in 1..Len(classes'[d].slabs)
    <3>1. CASE m \in 1..Len(classes[d].slabs) /\ classes'[d].slabs[m] = classes[d].slabs[m]
      BY SMTT(30), <3>1, <1>1 DEF SlabsOwned
    <3>2. CASE d = c /\ m = Len(S) + 1 /\ classes'[d].slabs[m] = new
      BY SMTT(30), <3>2, <1>1, <1>2, <1>3, <1>4 DEF SlabsOwned
    <3> QED BY <3>1, <3>2, <1>8
  <2>2. \A d, e \in Class :
          \A m \in 1..Len(classes'[d].slabs), k \in 1..Len(classes'[e].slabs) :
            Base(e, k) = Base(d, m) => e = d /\ k = m
    <3> TAKE d, e \in Class
    <3> TAKE m \in 1..Len(classes'[d].slabs), k \in 1..Len(classes'[e].slabs)
    <3>1. CASE /\ m \in 1..Len(classes[d].slabs) /\ classes'[d].slabs[m] = classes[d].slabs[m]
               /\ k \in 1..Len(classes[e].slabs) /\ classes'[e].slabs[k] = classes[e].slabs[k]
      BY SMTT(30), <3>1 DEF SlabsOwned
    <3>2. CASE /\ d = c /\ m = Len(S) + 1 /\ classes'[d].slabs[m] = new
               /\ k \in 1..Len(classes[e].slabs) /\ classes'[e].slabs[k] = classes[e].slabs[k]
      <4>1. Base(d, m) = t.base BY Zenon, <3>2, <1>4
      <4>2. Base(e, k) = BaseOf(e, classes[e].slabs[k]) BY Zenon, <3>2
      <4>3. BaseOf(e, classes[e].slabs[k]) # t.base BY Zenon, <3>2 DEF SlabsOwned
      <4> QED BY Zenon, <4>1, <4>2, <4>3
    <3>3. CASE /\ m \in 1..Len(classes[d].slabs) /\ classes'[d].slabs[m] = classes[d].slabs[m]
               /\ e = c /\ k = Len(S) + 1 /\ classes'[e].slabs[k] = new
      <4>1. Base(e, k) = t.base BY Zenon, <3>3, <1>4
      <4>2. Base(d, m) = BaseOf(d, classes[d].slabs[m]) BY Zenon, <3>3
      <4>3. BaseOf(d, classes[d].slabs[m]) # t.base BY Zenon, <3>3 DEF SlabsOwned
      <4> QED BY Zenon, <4>1, <4>2, <4>3
    <3>4. CASE d = c /\ m = Len(S) + 1 /\ e = c /\ k = Len(S) + 1 BY <3>4
    <3> QED BY <3>1, <3>2, <3>3, <3>4, <1>8
  <2>3. \A v \in taking' : /\ v.base \in Bases
                           /\ \A i \in 1..Len(freeSlabs) : freeSlabs[i] # v.base
                           /\ \A w \in taking' : w.base = v.base => w = v
    BY <1>1 DEF SlabsOwned
  <2>4. freeSlabs' = freeSlabs BY <1>1
  <2>5. /\ \A i \in 1..Len(freeSlabs') : freeSlabs'[i] \in Bases
        /\ \A i, j \in 1..Len(freeSlabs') : freeSlabs'[i] = freeSlabs'[j] => i = j
    BY Zenon, <2>4 DEF SlabsOwned
  <2>6. \A d \in Class : \A m \in 1..Len(classes'[d].slabs) :
          /\ Base(d, m) \in Bases /\ classes'[d].slabs[m].avail <= Room(d)
          /\ \A i \in 1..Len(freeSlabs') : freeSlabs'[i] # Base(d, m)
          /\ \A v \in taking' : v.base # Base(d, m)
          /\ \A e \in Class : \A k \in 1..Len(classes'[e].slabs) :
               Base(e, k) = Base(d, m) => e = d /\ k = m
    <3> HIDE DEF Base
    <3> TAKE d \in Class
    <3> TAKE m \in 1..Len(classes'[d].slabs)
    <3>1. \A i \in 1..Len(freeSlabs') : freeSlabs'[i] # Base(d, m) BY Zenon, <2>1, <2>4
    <3>2. \A e \in Class : \A k \in 1..Len(classes'[e].slabs) :
            Base(e, k) = Base(d, m) => e = d /\ k = m
      BY Zenon, <2>2
    <3> QED BY Zenon, <2>1, <3>1, <3>2
  <2> QED BY Zenon, <2>3, <2>4, <2>5, <2>6 DEF SlabsOwned
<1>10. \A d \in Class, b \in Nat : Placed(d, b) => Placed(d, b)'
  <2> HIDE DEF S, new
  <2>1. \A d \in Class : \A m \in 1..Len(classes[d].slabs) :
          m \in 1..Len(classes'[d].slabs) /\ classes'[d].slabs[m] = classes[d].slabs[m]
    <3> TAKE d \in Class
    <3>1. CASE d # c BY <3>1, <1>6
    <3>2. CASE d = c
      <4>1. classes[d].slabs = S /\ classes'[d].slabs = Append(S, new) BY <3>2, <1>6 DEF S
      <4>2. \A m \in 1..Len(S) : m \in 1..Len(S) + 1 BY <1>5
      <4> QED BY <4>1, <4>2, <1>5
    <3> QED BY <3>1, <3>2
  <2> QED BY <2>1 DEF Placed
<1>11. Placed(c, t.base)'
  <2> HIDE DEF S, new, Slabs
  <2>1. classes'[c].slabs = Append(S, new) BY <1>6
  <2>2. Len(S) + 1 \in 1..(Len(S) + 1) BY SMTT(30), <1>5
  <2>3. Len(S) + 1 \in 1..Len(classes'[c].slabs) /\ classes'[c].slabs[Len(S) + 1] = new
    BY Zenon, <2>1, <2>2, <1>5
  <2>4. BaseOf(c, new) <= t.base /\ t.base + ClassSize[c] <= new.next
    BY SMTT(30), <1>2, <1>3, <1>4
  <2> QED BY SMTT(30), <2>3, <2>4 DEF Placed
<1>12. \A d \in Class, b \in Nat : Placed(d, b) => Apart(c, t.base, d, b) BY SMTT(30), NewSlabApart
<1>13. ItemsPlaced' /\ ItemsApart'
  BY <1>1, <1>2, <1>4, <1>6, <1>10, <1>11, <1>12, ItemGiven
<1> QED BY <1>7, <1>9, <1>13

(* FreeItem appends the item to the free list of its class.                *)
LEMMA ItemFreed ==
    ASSUME SlabConstants, SlabInv, NEW u \in User, FreeItem(u)
    PROVE SlabInv'
<1> USE DEF SlabInv
<1>1. PICK it \in held[u] :
        /\ held' = [held EXCEPT ![u] = @ \ {it}]
        /\ classes' = [classes EXCEPT ![it.class].free = Append(@, it.addr)]
        /\ UNCHANGED <<freeSlabs, taking>>
  BY DEF FreeItem
<1> DEFINE c == it.class
           F == classes[c].free
<1>2. c \in Class /\ it.addr \in Nat BY DEF Typed
<1>3. /\ F \in Seq(Nat) /\ Append(F, it.addr) \in Seq(Nat)
      /\ Len(F) \in Nat /\ Len(Append(F, it.addr)) = Len(F) + 1
      /\ \A k \in 1..Len(F) : Append(F, it.addr)[k] = F[k]
      /\ Append(F, it.addr)[Len(F) + 1] = it.addr
  <2>1. F \in Seq(Nat) BY <1>2 DEF Typed
  <2> HIDE DEF F
  <2> QED BY <2>1, <1>2
<1>4. /\ classes'[c].free = Append(F, it.addr)
      /\ \A d \in Class : d # c => classes'[d].free = classes[d].free
      /\ \A d \in Class : classes'[d].slabs = classes[d].slabs
  BY <1>1, <1>2 DEF Typed
<1>5. \A w \in User : \A i \in held'[w] : i \in held[w] /\ (w # u \/ i # it)
  BY <1>1 DEF Typed
<1>6. Typed'
  <2>1. classes' \in [Class -> [free : Seq(Nat), slabs : Seq([next : Nat, avail : Nat])]]
    BY <1>1, <1>2, <1>3 DEF Typed
  <2> QED BY SMTT(30), <2>1, <1>1 DEF Typed
<1>7. SlabsOwned' /\ \A d \in Class, b \in Nat : Placed(d, b) => Placed(d, b)'
  BY <1>1, <1>4, SlabsKept
<1>8. \A d \in Class : \A k \in 1..Len(classes'[d].free) :
        \/ k \in 1..Len(classes[d].free) /\ classes'[d].free[k] = classes[d].free[k]
        \/ d = c /\ k = Len(F) + 1 /\ classes'[d].free[k] = it.addr
  <2> TAKE d \in Class
  <2> TAKE k \in 1..Len(classes'[d].free)
  <2>1. CASE d # c BY <2>1, <1>4
  <2>2. CASE d = c
    <3>1. classes[d].free = F /\ classes'[d].free = Append(F, it.addr) BY <2>2, <1>4
    <3> HIDE DEF F
    <3>2. k \in 1..Len(F) + 1 BY <3>1, <1>3
    <3>3. k \in 1..Len(F) \/ k = Len(F) + 1 BY <3>2, <1>3
    <3> QED BY SMTT(30), <2>2, <3>1, <3>3, <1>3
  <2> QED BY SMTT(30), <2>1, <2>2
<1>9. \A w \in User : \A i \in held[w] : i.class \in Class /\ i.addr \in Nat BY DEF Typed
<1>10. \A d \in Class : \A k \in 1..Len(classes[d].free) : classes[d].free[k] \in Nat
  BY SMTT(30) DEF Typed
<1> HIDE DEF F
<1>11. ItemsPlaced'
  <2>1. \A w \in User : \A i \in held'[w] : Placed(i.class, i.addr)'
    BY <1>5, <1>7, <1>9 DEF ItemsPlaced
  <2>2. \A d \in Class : \A k \in 1..Len(classes'[d].free) : Placed(d, classes[d].free[k])'
    BY SMTT(30), <1>2, <1>7, <1>8, <1>10 DEF ItemsPlaced
  <2> QED BY <2>1, <2>2 DEF ItemsPlaced
<1>12. ItemsApart'
  <2>1. \A v, w \in User : \A i \in held'[v], j \in held'[w] :
          Apart(i.class, i.addr, j.class, j.addr) \/ (v = w /\ i = j)
    BY SMTT(30), <1>5 DEF ItemsApart
  <2>2. \A w \in User : \A i \in held'[w] : \A d \in Class :
          \A k \in 1..Len(classes'[d].free) : Apart(i.class, i.addr, d, classes'[d].free[k])
    BY SMTT(30), <1>5, <1>8 DEF ItemsApart
  <2>3. \A d \in Class : \A k \in 1..Len(classes[d].free) :
          /\ Apart(c, it.addr, d, classes[d].free[k])
          /\ Apart(d, classes[d].free[k], c, it.addr)
    BY SMTT(30), <1>2, <1>10 DEF ItemsApart, Apart
  <2>4. \A d, e \in Class :
          \A k \in 1..Len(classes'[d].free), l \in 1..Len(classes'[e].free) :
            Apart(d, classes'[d].free[k], e, classes'[e].free[l]) \/ (d = e /\ k = l)
    BY <2>3, <1>8 DEF ItemsApart
  <2> QED BY SMTT(30), <2>1, <2>2, <2>4 DEF ItemsApart
<1> QED BY <1>6, <1>7, <1>11, <1>12

-----------------------------------------------------------------------------
(* At first all slabs are free, and all are different.                     *)
LEMMA SlabInitInv ==
    ASSUME SlabConstants, SlabInit
    PROVE SlabInv
<1>1. SlabSize \in Nat /\ NumSlabs \in Nat BY DEF SlabConstants
<1>2. \A i \in 1..NumSlabs : (i - 1) * SlabSize \in Nat /\ (i - 1) * SlabSize \in Bases
  BY <1>1 DEF Bases
<1>3. freeSlabs \in Seq(Nat) /\ Len(freeSlabs) = NumSlabs BY <1>1, <1>2 DEF SlabInit
<1>4. Typed BY <1>3 DEF SlabInit, Typed
<1>5. ASSUME NEW i \in 1..NumSlabs, NEW j \in 1..NumSlabs,
             (i - 1) * SlabSize = (j - 1) * SlabSize
      PROVE i = j
  <2>1. SlabSize \in Nat \ {0} BY DEF SlabConstants
  <2>2. (i - j) * SlabSize = 0 BY SMTT(30), <1>1, <1>5
  <2> QED BY <1>1, <2>1, <2>2
<1>6. SlabsOwned
  <2>1. \A i \in 1..Len(freeSlabs) : i \in 1..NumSlabs /\ freeSlabs[i] = (i - 1) * SlabSize
    BY <1>3 DEF SlabInit
  <2>2. \A i \in 1..Len(freeSlabs) : freeSlabs[i] \in Bases BY <2>1, <1>2
  <2>3. \A i, j \in 1..Len(freeSlabs) : freeSlabs[i] = freeSlabs[j] => i = j BY <2>1, <1>5
  <2>4. taking = {} /\ \A c \in Class : 1..Len(classes[c].slabs) = {} BY DEF SlabInit
  <2> QED BY <2>2, <2>3, <2>4 DEF SlabsOwned
<1>7. ItemsPlaced /\ ItemsApart BY DEF SlabInit, ItemsPlaced, ItemsApart
<1> QED BY <1>4, <1>6, <1>7 DEF SlabInv

(* No allocation, no change.                                               *)
LEMMA SlabStutter == ASSUME SlabInv, UNCHANGED slabVars PROVE SlabInv'
<1>1. UNCHANGED <<freeSlabs, classes, held, taking>> BY DEF slabVars
<1>2. Typed' BY <1>1 DEF SlabInv, Typed
<1>3. SlabsOwned' BY <1>1, SlabsKept DEF SlabInv
<1>4. \A d, b : Placed(d, b)' <=> Placed(d, b) BY <1>1 DEF Placed
<1>5. ItemsPlaced' BY Zenon, <1>1, <1>4 DEF SlabInv, ItemsPlaced
<1>6. ItemsApart' BY Zenon, <1>1 DEF SlabInv, ItemsApart
<1> QED BY <1>2, <1>3, <1>5, <1>6 DEF SlabInv

(* Every step keeps the invariant.                                         *)
LEMMA SlabStep ==
    ASSUME SlabConstants, SlabInv, [SlabNext]_slabVars
    PROVE SlabInv'
<1>1. ASSUME NEW u \in User, NEW size \in 1..SlabSize, ItemAlloc(u, size) PROVE SlabInv'
  <2> DEFINE c == slabclassid(size)
             S == classes[c].slabs
  <2>1. c \in Class BY ClassOfSize
  <2> HIDE DEF c
  <2>2. CASE /\ classes[c].free # <<>>
             /\ held' = [held EXCEPT ![u] = @ \cup {Item(c, Head(classes[c].free))}]
             /\ classes' = [classes EXCEPT ![c].free = Tail(@)]
             /\ UNCHANGED <<freeSlabs, taking>>
    BY <2>1, <2>2, FromFreeList
  <2>3. CASE /\ Len(S) > 0 /\ HasItem(c, S[Len(S)])
             /\ held' = [held EXCEPT ![u] = @ \cup {Item(c, S[Len(S)].next)}]
             /\ classes' = [classes EXCEPT ![c].slabs[Len(S)] = Cut(c, @)]
             /\ UNCHANGED <<freeSlabs, taking>>
    <3>1. Len(S) \in 1..Len(S) BY <2>1, <2>3 DEF SlabInv, Typed
    <3> QED BY <2>1, <2>3, <3>1, FromLastSlab
  <2>4. CASE /\ freeSlabs # <<>>
             /\ taking' = taking \cup {[user |-> u, class |-> c, base |-> Last(freeSlabs)]}
             /\ freeSlabs' = Front(freeSlabs)
             /\ UNCHANGED <<classes, held>>
    BY <2>1, <2>4, SlabTaken
  <2>5. CASE UNCHANGED slabVars BY <2>5, SlabStutter
  <2> QED BY <1>1, <2>2, <2>3, <2>4, <2>5 DEF ItemAlloc, c
<1>2. ASSUME AddSlab PROVE SlabInv' BY <1>2, SlabAdded
<1>3. ASSUME NEW u \in User, FreeItem(u) PROVE SlabInv' BY <1>3, ItemFreed
<1>4. CASE UNCHANGED slabVars BY SMTT(30), <1>4, SlabStutter
<1> QED BY Zenon, <1>1, <1>2, <1>3, <1>4 DEF SlabNext

(* The invariant says that buffers are disjoint.                           *)
LEMMA SlabInvDisjoint ==
    ASSUME SlabConstants, SlabInv
    PROVE BuffersDisjoint
<1> USE DEF SlabInv
<1>1. \A c \in Class : ClassSize[c] \in Nat \ {0} BY RoomOK
<1>2. \A it \in Given : /\ it \in [class : Class, addr : Nat]
                        /\ \E u \in User : it \in held[u]
  BY DEF Given, Typed
<1>3. \A it \in Freed : /\ it \in [class : Class, addr : Nat]
                        /\ \E k \in 1..Len(classes[it.class].free) :
                             it.addr = classes[it.class].free[k]
  <2> TAKE it \in Freed
  <2>1. PICK c \in Class, d \in Class :
          /\ it = Item(c, it.addr) /\ it.addr \in ToSet(classes[d].free)
    BY DEF Freed, Listed, Item
  <2>2. it.class = c /\ it.addr \in ToSet(classes[c].free) BY <2>1 DEF Freed, Item
  <2>3. classes[c].free \in Seq(Nat) BY DEF Typed
  <2>4. PICK k \in 1..Len(classes[c].free) : it.addr = classes[c].free[k]
    BY SMTT(30), <2>2, <2>3 DEF ToSet
  <2> QED BY <2>1, <2>2, <2>3, <2>4 DEF Item
<1>4. ASSUME NEW i \in [class : Class, addr : Nat], NEW j \in [class : Class, addr : Nat],
             Apart(i.class, i.addr, j.class, j.addr)
      PROVE Units(i) \cap Units(j) = {} /\ i # j
  BY <1>1, <1>4 DEF Apart, Units
<1>5. \A i \in Given, j \in Freed :
        Apart(i.class, i.addr, j.class, j.addr) /\ Apart(j.class, j.addr, i.class, i.addr)
  BY <1>1, <1>2, <1>3 DEF ItemsApart, Apart
<1>6. \A i, j \in Given \cup Freed : i # j => Units(i) \cap Units(j) = {}
  <2> TAKE i, j \in Given \cup Freed
  <2> HAVE i # j
  <2>1. CASE i \in Given /\ j \in Given BY <2>1, <1>2, <1>4 DEF ItemsApart
  <2>2. CASE i \in Given /\ j \in Freed BY <2>2, <1>2, <1>3, <1>4, <1>5
  <2>3. CASE i \in Freed /\ j \in Given BY <2>3, <1>2, <1>3, <1>4, <1>5
  <2>4. CASE i \in Freed /\ j \in Freed
    <3>1. PICK k \in 1..Len(classes[i.class].free) : i.addr = classes[i.class].free[k]
      BY <2>4, <1>3
    <3>2. PICK l \in 1..Len(classes[j.class].free) : j.addr = classes[j.class].free[l]
      BY <2>4, <1>3
    <3>3. ~(i.class = j.class /\ k = l) BY SMTT(30), <2>4, <1>3, <3>1, <3>2
    <3>4. Apart(i.class, i.addr, j.class, j.addr)
      BY <2>4, <1>3, <3>1, <3>2, <3>3 DEF ItemsApart
    <3> QED BY <2>4, <3>4, <1>3, <1>4
  <2> QED BY <2>1, <2>2, <2>3, <2>4
<1>7. ASSUME NEW i \in Given
      PROVE /\ \A u, w \in User : u # w => i \notin held[u] \cap held[w]
            /\ i \notin Freed
  BY SMTT(30), <1>1, <1>2, <1>4, <1>5 DEF ItemsApart
<1>8. ASSUME NEW i \in Given
      PROVE /\ i.addr \div SlabSize = (i.addr + ClassSize[i.class] - 1) \div SlabSize
            /\ i.addr \div SlabSize < NumSlabs
  <2>1. i.class \in Class /\ i.addr \in Nat /\ Placed(i.class, i.addr)
    BY SMTT(30), <1>2 DEF ItemsPlaced
  <2>2. PICK n \in 1..Len(classes[i.class].slabs) :
          /\ BaseOf(i.class, classes[i.class].slabs[n]) <= i.addr
          /\ i.addr + ClassSize[i.class] <= classes[i.class].slabs[n].next
    BY SMTT(30), <2>1 DEF Placed
  <2> DEFINE slab == classes[i.class].slabs[n]
             b == BaseOf(i.class, slab)
             size == ClassSize[i.class]
  <2>3. /\ slab.next \in Nat /\ slab.avail \in Nat /\ b \in Bases /\ b \in Nat
        /\ slab.next + slab.avail <= b + SlabSize
    <3>1. Typed /\ SlabsOwned OBVIOUS
    <3> QED BY Zenon, <3>1, <2>1, SlabBounds
  <2>4. PICK k \in 0..NumSlabs-1 : b = k * SlabSize BY <2>3 DEF Bases
  <2>5. size \in Nat \ {0} /\ SlabSize \in Nat \ {0} /\ NumSlabs \in Nat /\ k \in Nat
    BY SMTT(30), <1>1, <2>1 DEF SlabConstants
  <2>6. b <= i.addr /\ i.addr + size <= slab.next BY <2>2
  <2> HIDE DEF slab, b, size
  <2>7. i.addr + size <= b + SlabSize BY <2>1, <2>3, <2>5, <2>6
  <2>8. /\ i.addr < k * SlabSize + SlabSize /\ i.addr + size - 1 \in Nat
        /\ k * SlabSize <= i.addr + size - 1 /\ i.addr + size - 1 < k * SlabSize + SlabSize
    <3>1. /\ i.addr < b + SlabSize /\ i.addr + size - 1 \in Nat
          /\ b <= i.addr + size - 1 /\ i.addr + size - 1 < b + SlabSize
      BY SMTT(30), <2>1, <2>3, <2>5, <2>6, <2>7
    <3> QED BY Zenon, <3>1, <2>4
  <2>9. i.addr \div SlabSize = k /\ (i.addr + size - 1) \div SlabSize = k
    BY <2>1, <2>4, <2>5, <2>6, <2>8, SameSlab
  <2> QED BY SMTT(30), <2>4, <2>5, <2>9 DEF size
<1>9. \A c \in Class : IsInjective(classes[c].free)
  <2> TAKE c \in Class
  <2>1. classes[c].free \in Seq(Nat) BY DEF Typed
  <2>2. \A k, l \in 1..Len(classes[c].free) : classes[c].free[k] = classes[c].free[l] => k = l
    <3> TAKE k, l \in 1..Len(classes[c].free)
    <3>1. Apart(c, classes[c].free[k], c, classes[c].free[l]) \/ k = l BY SMTT(30) DEF ItemsApart
    <3>2. classes[c].free[k] \in Nat /\ ClassSize[c] \in Nat \ {0} BY <1>1, ClassTypes DEF Typed
    <3>3. \A x \in Nat : ~Apart(c, x, c, x) BY <3>2 DEF Apart
    <3> QED BY <3>1, <3>2, <3>3
  <2> QED BY <2>1, <2>2 DEF IsInjective
<1> QED BY <1>6, <1>7, <1>8, <1>9 DEF BuffersDisjoint

(* No byte of the registered memory is ever in two buffers, and every      *)
(* buffer lies in one slab, for every table of size classes whose last     *)
(* one is the slab, every number of slabs and every set of threads.        *)
THEOREM BuffersStayDisjoint ==
    ASSUME SlabConstants
    PROVE SlabSpec => []BuffersDisjoint
<1>1. SlabInit => SlabInv BY SlabInitInv
<1>2. SlabInv /\ [SlabNext]_slabVars => SlabInv' BY SlabStep
<1>3. SlabInv => BuffersDisjoint BY SlabInvDisjoint
<1> QED BY <1>1, <1>2, <1>3, PTL DEF SlabSpec
=============================================================================
