------------------------------ MODULE SlabMemory ------------------------------
(***************************************************************************)
(* The registered memory of a server: NovaPartitionedMemManager, SlabClass *)
(* and Slab (src/common/nova_mem_manager.cpp), shared by the threads that  *)
(* allocate RDMA buffers.  One partition; addresses count units of the     *)
(* smallest item.                                                          *)
(***************************************************************************)
EXTENDS Naturals, Sequences, SequencesExt, FiniteSets

CONSTANTS
    User,        \* threads
    ClassSize,   \* ClassSize[c]: slab_classes_[c].size, ascending, the last one SlabSize
    SlabSize,
    NumSlabs,
    MaxHeld      \* bound: items a thread holds

VARIABLES
    freeSlabs,   \* free_slabs_[0 .. free_slab_index_]: base addresses
    classes,     \* classes[c]: free_list and slabs
    held,        \* held[u]: items of thread u
    taking       \* threads that hold a slab_class_mutex_ and got a slab

slabVars == <<freeSlabs, classes, held, taking>>
Class == 1..Len(ClassSize)

(* The constructor: all slabs are free, the highest one is taken first.    *)
SlabInit ==
    /\ freeSlabs = [i \in 1..NumSlabs |-> (i - 1) * SlabSize]
    /\ classes = [c \in Class |-> [free |-> <<>>, slabs |-> <<>>]]
    /\ held = [u \in User |-> {}]
    /\ taking = {}

(* slabclassid: the first class whose items are large enough.              *)
slabclassid(size) == CHOOSE c \in Class : /\ ClassSize[c] >= size
                                          /\ \A d \in 1..c-1 : ClassSize[d] < size

(* An item is cut off and the rest of the slab not counted down.           *)
CutOnly(c, slab) == [slab EXCEPT !.next = @ + ClassSize[c]]

(* Slab::AllocItem and Slab::Init of a slab [next, avail].                 *)
NewSlab(base, c) == [next |-> base, avail |-> (SlabSize \div ClassSize[c]) * ClassSize[c]]
HasItem(c, slab) == slab.avail >= ClassSize[c]
Cut(c, slab) == [next |-> slab.next + ClassSize[c], avail |-> slab.avail - ClassSize[c]]
Item(c, a) == [class |-> c, addr |-> a]

Locked(c) == \E t \in taking : t.class = c

(* ItemAlloc, under the mutex of the class: SlabClass::AllocItem tries the *)
(* free list and then the last slab ...                                    *)
ItemAlloc(u, size) ==
    LET c == slabclassid(size)
        k == classes[c]
        n == Len(k.slabs)
    IN /\ ~Locked(c) /\ \A t \in taking : t.user # u
       /\ Cardinality(held[u]) < MaxHeld
       /\ \/ /\ k.free # <<>>
             /\ held' = [held EXCEPT ![u] = @ \cup {Item(c, Head(k.free))}]
             /\ classes' = [classes EXCEPT ![c].free = Tail(@)]
             /\ UNCHANGED <<freeSlabs, taking>>
          \/ /\ k.free = <<>> /\ n > 0 /\ HasItem(c, k.slabs[n])
             /\ held' = [held EXCEPT ![u] = @ \cup {Item(c, k.slabs[n].next)}]
             /\ classes' = [classes EXCEPT ![c].slabs[n] = Cut(c, @)]
             /\ UNCHANGED <<freeSlabs, taking>>
          \* ... and then takes a slab under free_slabs_mutex_, if any is left.
          \/ /\ k.free = <<>> /\ ~(n > 0 /\ HasItem(c, k.slabs[n]))
             /\ freeSlabs # <<>>
             /\ taking' = taking \cup {[user |-> u, class |-> c, base |-> Last(freeSlabs)]}
             /\ freeSlabs' = Front(freeSlabs)
             /\ UNCHANGED <<classes, held>>
          \/ /\ k.free = <<>> /\ ~(n > 0 /\ HasItem(c, k.slabs[n]))
             /\ freeSlabs = <<>> /\ UNCHANGED slabVars

(* The rest of ItemAlloc, with only the mutex of the class held.           *)
AddSlab ==
    \E t \in taking :
      LET slab == NewSlab(t.base, t.class)
      IN /\ held' = [held EXCEPT ![t.user] = @ \cup {Item(t.class, slab.next)}]
         /\ classes' = [classes EXCEPT ![t.class].slabs = Append(@, Cut(t.class, slab))]
         /\ taking' = taking \ {t}
         /\ UNCHANGED freeSlabs

FreeItem(u) ==
    \E it \in held[u] :
      /\ ~Locked(it.class) /\ \A t \in taking : t.user # u
      /\ held' = [held EXCEPT ![u] = @ \ {it}]
      /\ classes' = [classes EXCEPT ![it.class].free = Append(@, it.addr)]
      /\ UNCHANGED <<freeSlabs, taking>>

SlabNext ==
    \/ \E u \in User, size \in 1..SlabSize : ItemAlloc(u, size)
    \/ AddSlab
    \/ \E u \in User : FreeItem(u)

-----------------------------------------------------------------------------
Units(it) == it.addr .. (it.addr + ClassSize[it.class] - 1)
Given == UNION {held[u] : u \in User}
Listed == {Item(c, a) : c \in Class, a \in UNION {ToSet(classes[d].free) : d \in Class}}
Freed == {it \in Listed : it.addr \in ToSet(classes[it.class].free)}

(* No byte of the registered memory is in two buffers at once, whoever     *)
(* allocates and frees buffers of whatever size; every buffer lies within  *)
(* one slab; a freed buffer is listed once.                                *)
BuffersDisjoint ==
    /\ \A i, j \in Given \cup Freed : i # j => Units(i) \cap Units(j) = {}
    /\ \A i \in Given : /\ \A u, w \in User : u # w => i \notin held[u] \cap held[w]
                        /\ i \notin Freed
                        /\ i.addr \div SlabSize = (i.addr + ClassSize[i.class] - 1) \div SlabSize
                        /\ i.addr \div SlabSize < NumSlabs
    /\ \A c \in Class : IsInjective(classes[c].free)
=============================================================================
