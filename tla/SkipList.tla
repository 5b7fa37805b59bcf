------------------------------ MODULE SkipList ------------------------------
(***************************************************************************)
(* The memtable's skip list (db/skiplist.h): one writer at a time, under   *)
(* the partition's mutex, and readers that take no lock.  A step is one    *)
(* access to a shared pointer: the writer links a node level by level, a   *)
(* search reads one next pointer at a time, so that every interleaving of  *)
(* a search with an insertion is a behaviour.  max_height_ is read and     *)
(* written relaxed: a reader may see any value it has had.                 *)
(*                                                                         *)
(* A node is its key; 0 is the head and Null the end of every list.        *)
(***************************************************************************)
EXTENDS Naturals, FiniteSets

CONSTANTS
    NumKeys,     \* keys 1 .. NumKeys
    MaxHeight,   \* kMaxHeight, 12
    Samples      \* the sampled_puts a sampling iterator is made with

VARIABLES
    next,        \* next[l][n] = the pointer of node n at level l
    max_height,
    nputs,       \* nputs[l] = nodes linked at level l
    ins,         \* the insertion under way: [key, height, prev, at, linked]
    seek         \* the reader: [op, key, x, level, before, res, iter]

skipVars == <<next, max_height, nputs, ins, seek>>

Null == NumKeys + 1
Levels == 0 .. MaxHeight - 1
NoInsert == [key |-> 0, height |-> 0, prev |-> [l \in Levels |-> 0], at |-> 0,
             linked |-> FALSE]

(* The nodes of a level, as the chain from the head reaches them.          *)
Reach(l) ==
    LET R[n \in 0 .. Null] == IF n = Null THEN {} ELSE {n} \cup R[next[l][n]]
    IN R[0] \ {0}

Present == {k \in 1 .. NumKeys : next[0][k] # 0 /\ k \in Reach(0)}

SkipInit ==
    /\ next = [l \in Levels |-> [n \in 0 .. NumKeys |-> IF n = 0 THEN Null ELSE 0]]
    /\ max_height = 1
    /\ nputs = [l \in Levels |-> 0]
    /\ ins = NoInsert
    /\ seek = [op |-> "none", key |-> 0, x |-> 0, level |-> 0, before |-> {},
               res |-> 0, iter |-> 0]

(***************************************************************************)
(* Insert.                                                                 *)
(***************************************************************************)
KeyIsAfterNode(k, n) == n # Null /\ n < k

(* FindGreaterOrEqual with prev: nothing else writes while it runs, so the *)
(* writer's search is one step.                                            *)
PrevOf(l, k) == CHOOSE n \in Reach(l) \cup {0} :
                  (n = 0 \/ n < k) /\ ~KeyIsAfterNode(k, next[l][n])

(* The height is random; the levels above max_height_ start at the head.   *)
Insert(k, height) ==
    /\ ins = NoInsert /\ k \notin Present
    /\ ins' = [key |-> k, height |-> height, at |-> 0, linked |-> FALSE,
               prev |-> [l \in Levels |-> IF l < max_height THEN PrevOf(l, k) ELSE 0]]
    /\ max_height' = IF height > max_height THEN height ELSE max_height
    /\ UNCHANGED <<next, nputs, seek>>

(* As LinkLevel, from the highest level down.                              *)
LinkFromTop ==
    LET l == ins.height - ins.at - 1
        p == ins.prev[l]
    IN /\ ins.at < ins.height /\ ~ins.linked
       /\ next' = [next EXCEPT ![l][ins.key] = next[l][p], ![l][p] = ins.key]
       /\ ins' = [ins EXCEPT !.linked = TRUE]
       /\ UNCHANGED <<max_height, nputs, seek>>

(* One turn of the loop over the levels: the node is linked, then counted. *)
(* NoBarrier_SetNext on the new node and SetNext on its predecessor are    *)
(* one step: no reader has the node before the second, and the release     *)
(* store orders the first.                                                 *)
LinkLevel ==
    LET l == ins.at
        p == ins.prev[l]
    IN /\ ins.at < ins.height /\ ~ins.linked
       /\ next' = [next EXCEPT ![l][ins.key] = next[l][p], ![l][p] = ins.key]
       /\ ins' = [ins EXCEPT !.linked = TRUE]
       /\ UNCHANGED <<max_height, nputs, seek>>

CountPut ==
    /\ ins.linked
    /\ nputs' = [nputs EXCEPT ![ins.at] = @ + 1]
    /\ ins' = IF ins.at + 1 = ins.height THEN NoInsert
              ELSE [ins EXCEPT !.at = @ + 1, !.linked = FALSE]
    /\ UNCHANGED <<next, max_height, seek>>

(***************************************************************************)
(* Readers.                                                                *)
(***************************************************************************)
Searching == seek.op \in {"ge", "lt", "last"} /\ seek.res = 0

(* A search starts at the head, on a level below a max_height_ it read.    *)
Start(op, k) ==
    /\ ~Searching
    /\ \E h \in 1 .. max_height :
         seek' = [seek EXCEPT !.op = op, !.key = k, !.x = 0, !.level = h - 1,
                              !.before = Present, !.res = 0]
    /\ UNCHANGED <<next, max_height, nputs, ins>>

Move(x, level, res) ==
    /\ seek' = [seek EXCEPT !.x = x, !.level = level, !.res = res]
    /\ UNCHANGED <<next, max_height, nputs, ins>>

(* Iterator::Seek, Contains and MemTable::Get.                             *)
FindGreaterOrEqual ==
    LET n == next[seek.level][seek.x]
    IN /\ Searching /\ seek.op = "ge"
       /\ IF KeyIsAfterNode(seek.key, n) THEN Move(n, seek.level, 0)
          ELSE IF seek.level = 0 THEN Move(seek.x, 0, n)
          ELSE Move(seek.x, seek.level - 1, 0)

(* Iterator::Prev and SeekToLast: at the head the iterator is not valid,   *)
(* which is Null here.                                                     *)
NodeOrNull(x) == IF x = 0 THEN Null ELSE x

FindLessThan ==
    LET n == next[seek.level][seek.x]
    IN /\ Searching /\ seek.op = "lt"
       /\ IF n = Null \/ n >= seek.key
          THEN IF seek.level = 0 THEN Move(seek.x, 0, NodeOrNull(seek.x))
               ELSE Move(seek.x, seek.level - 1, 0)
          ELSE Move(n, seek.level, 0)

FindLast ==
    LET n == next[seek.level][seek.x]
    IN /\ Searching /\ seek.op = "last"
       /\ IF n = Null
          THEN IF seek.level = 0 THEN Move(seek.x, 0, NodeOrNull(seek.x))
               ELSE Move(seek.x, seek.level - 1, 0)
          ELSE Move(n, seek.level, 0)

Positioned == ~Searching /\ seek.res \in 1 .. NumKeys

SeekCall(k) == Start("ge", k)
PrevCall == Positioned /\ seek.iter = 0 /\ Start("lt", seek.res)
SeekToLastCall == Start("last", 0)

(* Iterator::Iterator: the highest level with more than the sampled puts,  *)
(* or level 0; SeekToFirst on it.                                          *)
SampledLevel(puts) ==
    LET dense == {l \in Levels : nputs[l] > puts}
    IN IF puts = 0 \/ dense = {} THEN 0 ELSE CHOOSE l \in dense : \A m \in dense : m <= l

SeekToFirst(puts) ==
    LET l == SampledLevel(puts)
    IN /\ ~Searching
       /\ seek' = [op |-> "next", key |-> 0, x |-> 0, level |-> 0,
                   before |-> Reach(l), res |-> next[l][0], iter |-> l]
       /\ UNCHANGED <<next, max_height, nputs, ins>>

SkipNext ==
    /\ Positioned
    /\ seek' = [seek EXCEPT !.op = "next", !.key = seek.res, !.x = 0,
                            !.before = Reach(seek.iter),
                            !.res = next[seek.iter][seek.res]]
    /\ UNCHANGED <<next, max_height, nputs, ins>>

SkipStep ==
    \/ \E k \in 1 .. NumKeys, h \in 1 .. MaxHeight : Insert(k, h)
    \/ LinkLevel
    \/ CountPut
    \/ \E k \in 1 .. NumKeys : seek.iter = 0 /\ SeekCall(k)
    \/ PrevCall
    \/ seek.iter = 0 /\ SeekToLastCall
    \/ FindGreaterOrEqual
    \/ FindLessThan
    \/ FindLast
    \/ \E puts \in Samples : SeekToFirst(puts)
    \/ SkipNext

(***************************************************************************)
(* What readers may rely on.                                               *)
(***************************************************************************)
Sorted(l) == \A n \in Reach(l) : next[l][n] = Null \/ next[l][n] > n

(* A read that runs through insertions answers as if it had been alone at  *)
(* one moment of its run: what it returns is in the list, on the side of   *)
(* its key that was asked for, and nothing that was in the list when it    *)
(* began lies between the key and the answer.                              *)
AnswerRight ==
    LET r == seek.res
        b == seek.before
        isKey == r \in Present
    IN CASE seek.op = "ge" -> (isKey \/ r = Null) /\ r >= seek.key
                              /\ \A k \in b : k >= seek.key => r <= k
         [] seek.op = "next" -> (isKey \/ r = Null) /\ r > seek.key
                              /\ \A k \in b : k > seek.key => r <= k
         [] seek.op = "lt" -> IF r = Null THEN \A k \in b : k >= seek.key
                              ELSE isKey /\ r < seek.key
                                   /\ \A k \in b : k < seek.key => k <= r
         [] seek.op = "last" -> IF r = Null THEN b = {}
                                ELSE isKey /\ \A k \in b : k <= r
         [] OTHER -> TRUE

(* Reads without locks are correct (AnswerRight); and between insertions   *)
(* and during them every level is a sorted sublist of the one below it and *)
(* nputs_per_level its length, but for a node just linked: the level a     *)
(* sampling iterator takes rests on it.                                    *)
LockFreeReads ==
    /\ ~Searching => AnswerRight
    /\ \A l \in Levels :
         /\ Sorted(l)
         /\ l > 0 => Reach(l) \subseteq Reach(l - 1)
         /\ Cardinality(Reach(l)) =
              nputs[l] + (IF ins.linked /\ ins.at = l THEN 1 ELSE 0)
=============================================================================
