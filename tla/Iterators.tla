----------------------------- MODULE Iterators -----------------------------
(***************************************************************************)
(* The iterators a scan is made of, as values: the iterator of a memtable  *)
(* (db/memtable.cc), of a block (table/block.cc), of the files of a level  *)
(* (db/version_set.cc), of the ranges of the range index                   *)
(* (db/range_index.h), the two-level iterator that walks an index iterator *)
(* and the iterators its entries stand for (table/two_level_iterator.cc),  *)
(* the merging iterator (table/merger.cc), and DBIter (db/db_iter.cc),     *)
(* which turns the merged internal keys into user keys.                    *)
(*                                                                         *)
(* An internal key is <<user key, sequence>>; it sorts by user key and     *)
(* then newest first.  The state machine builds one iterator over tables   *)
(* chosen in the initial state and calls its operations in any legal       *)
(* order: either the iterator DBImpl::NewIterator returns, or the merging  *)
(* iterator of a compaction, which also moves backwards.                   *)
(***************************************************************************)
EXTENDS Naturals, Sequences, FiniteSets, FiniteSetsExt

CONSTANTS
    NumKeys,     \* user keys 1 .. NumKeys
    NumRanges,   \* ranges of the range index (1 or 2)
    Placements   \* the sets of sequence numbers a key may have

(* Which table holds the entry with a sequence number.  5 is written after *)
(* the iterator took its snapshot, 4 is.                                   *)
Snapshot == 4
ActiveMem == {5, 4}
ImmMem == {3}
L0Table == {2}
L1Table == {1}

Keys == 1 .. NumKeys
(* Ranges [lower, upper) of the range index; the last one ends the         *)
(* database's partition.                                                   *)
Ranges ==
    IF NumRanges = 1 THEN << <<1, NumKeys + 1>> >>
    ELSE LET mid == NumKeys \div 2 + 1
         IN << <<1, mid>>, <<mid, NumKeys + 1>> >>

Less(a, b) == a[1] < b[1] \/ (a[1] = b[1] /\ a[2] > b[2])

RECURSIVE SortKeys(_)
SortKeys(S) ==
    IF S = {} THEN <<>>
    ELSE LET m == CHOOSE x \in S : \A y \in S \ {x} : Less(x, y)
         IN <<m>> \o SortKeys(S \ {m})

FirstAtOrPast(ents, k) ==
    LET at == {i \in 1 .. Len(ents) : ~Less(ents[i], k)}
    IN IF at = {} THEN 0 ELSE Min(at)

(***************************************************************************)
(* Leaf iterators: memtable, block, files of a level.  p = 0 is "not       *)
(* valid"; sk is the seeked_ flag.                                         *)
(***************************************************************************)
Leaf(kind, ents) == [t |-> kind, ents |-> ents, p |-> 0, sk |-> FALSE]

LeafSeek(it, k) == [it EXCEPT !.p = FirstAtOrPast(it.ents, k), !.sk = TRUE]

LeafFirst(it) ==
    [it EXCEPT !.p = IF it.ents = <<>> THEN 0 ELSE 1, !.sk = TRUE]

LeafLast(it) == [it EXCEPT !.p = Len(it.ents), !.sk = TRUE]

LeafNext(it) == [it EXCEPT !.p = IF @ = Len(it.ents) THEN 0 ELSE @ + 1]

LeafPrev(it) == [it EXCEPT !.p = @ - 1]

(* MemTableIterator::SkipToNextUserKey stops at the first other user key,  *)
(* LevelFileNumIterator's at the first file that does not end in it;       *)
(* Block::Iter's goes past smaller keys too.                               *)
MemSkip(it0, k) ==
    LET it == IF it0.sk THEN it0 ELSE LeafSeek(it0, k)
        on == {i \in it.p .. Len(it.ents) : it.ents[i][1] # k[1]}
    IN IF it.p = 0 THEN it ELSE [it EXCEPT !.p = IF on = {} THEN 0 ELSE Min(on)]

LevelSkip(it0, k) ==
    LET it == IF it0.sk THEN it0 ELSE LeafSeek(it0, k)
        on == {i \in it.p .. Len(it.ents) : it.ents[i][1] # k[1]}
    IN IF it.p = 0 THEN it ELSE [it EXCEPT !.p = IF on = {} THEN 0 ELSE Min(on)]

BlockSkip(it0, k) ==
    LET it == IF it0.sk THEN it0 ELSE LeafSeek(it0, k)
        on == {i \in it.p .. Len(it.ents) : it.ents[i][1] > k[1]}
    IN IF it.p = 0 THEN it ELSE [it EXCEPT !.p = IF on = {} THEN 0 ELSE Min(on)]

(***************************************************************************)
(* RangeIndexIterator: p is index_ + 1, 0 or Len + 1 "not valid".          *)
(***************************************************************************)
RangeIter(ranges) == [t |-> "rng", ents |-> ranges, p |-> Len(ranges) + 1]

RangeSearch(ranges, u) ==
    LET at == {i \in 1 .. Len(ranges) : ranges[i][1] <= u /\ u < ranges[i][2]}
    IN IF at = {} THEN 0 ELSE Min(at)

RangeSeek(it, k) == [it EXCEPT !.p = RangeSearch(it.ents, k[1])]

RangeValid(it) == it.p \in 1 .. Len(it.ents)

RangeSkip(it0, k) ==
    LET it == IF RangeValid(it0) THEN it0 ELSE RangeSeek(it0, k)
    IN IF RangeValid(it) /\ it.ents[it.p][2] = k[1] + 1
       THEN [it EXCEPT !.p = @ + 1] ELSE it

(***************************************************************************)
(* The merging iterator over Len(ch) children, and the two-level iterator. *)
(* A two-level iterator makes the iterator of an index entry from src; a   *)
(* merging one (mg) is the one over the range index.                       *)
(***************************************************************************)
Nil == [t |-> "nil"]

NewMergingIterator(list) ==
    IF Len(list) = 1 THEN list[1]
    ELSE [t |-> "mrg", ch |-> list, cur |-> 0, fwd |-> TRUE]

NewTwoLevelIterator(idx, src, merging) ==
    [t |-> "two", idx |-> idx, src |-> src, data |-> Nil, h |-> 0,
     mg |-> merging]

RECURSIVE Valid(_)
Valid(it) ==
    CASE it.t \in {"mem", "blk", "lvl"} -> it.p # 0
      [] it.t = "rng" -> RangeValid(it)
      [] it.t = "mrg" -> it.cur # 0
      [] it.t = "two" -> Valid(it.data)
      [] it.t = "nil" -> FALSE

RECURSIVE Key(_)
Key(it) ==
    CASE it.t \in {"mem", "blk", "lvl"} -> it.ents[it.p]
      [] it.t = "mrg" -> Key(it.ch[it.cur])
      [] it.t = "two" -> Key(it.data)

FindSmallest(ch) ==
    LET v == {i \in DOMAIN ch : Valid(ch[i])}
        least == {i \in v : \A j \in v : ~Less(Key(ch[j]), Key(ch[i]))}
    IN IF v = {} THEN 0 ELSE Min(least)

FindLargest(ch) ==
    LET v == {i \in DOMAIN ch : Valid(ch[i])}
        most == {i \in v : \A j \in v : ~Less(Key(ch[i]), Key(ch[j]))}
    IN IF v = {} THEN 0 ELSE Max(most)

Forward(it, ch) == [it EXCEPT !.ch = ch, !.cur = FindSmallest(ch), !.fwd = TRUE]
Reverse(it, ch) == [it EXCEPT !.ch = ch, !.cur = FindLargest(ch), !.fwd = FALSE]

RECURSIVE Seek(_, _), SeekToFirst(_), SeekToLast(_), Next(_), Prev(_),
          SkipToNextUserKey(_, _), SkipEmptyDataBlocksForward(_),
          SkipEmptyDataBlocksBackward(_), MergingDataBlocksForward(_)

(* InitDataBlock.  With the flag, the iterator of a range is placed at the *)
(* range's lower bound (GetRangeIndexFragmentIterator); without it, it is  *)
(* not placed at all.                                                      *)
InitDataBlock(it, flag) ==
    IF ~Valid(it.idx) THEN [it EXCEPT !.data = Nil]
    ELSE IF it.data.t # "nil" /\ it.h = it.idx.p THEN it
    ELSE LET new == it.src[it.idx.p]
         IN [it EXCEPT !.h = it.idx.p,
                !.data = IF flag THEN Seek(new, <<it.idx.ents[it.idx.p][1], 0>>)
                         ELSE new]

OnData(it, Op(_)) ==
    IF it.data.t = "nil" THEN it ELSE [it EXCEPT !.data = Op(it.data)]

SkipEmptyDataBlocksForward(it) ==
    IF Valid(it.data) THEN it
    ELSE IF ~Valid(it.idx) THEN [it EXCEPT !.data = Nil]
    ELSE SkipEmptyDataBlocksForward(
           OnData(InitDataBlock([it EXCEPT !.idx = Next(it.idx)], FALSE),
                  SeekToFirst))

SkipEmptyDataBlocksBackward(it) ==
    IF Valid(it.data) THEN it
    ELSE IF ~Valid(it.idx) THEN [it EXCEPT !.data = Nil]
    ELSE SkipEmptyDataBlocksBackward(
           OnData(InitDataBlock([it EXCEPT !.idx = Prev(it.idx)], FALSE),
                  SeekToLast))

MergingDataBlocksForward(it) ==
    IF Valid(it.data) THEN it
    ELSE IF ~Valid(it.idx) THEN [it EXCEPT !.data = Nil]
    ELSE MergingDataBlocksForward(
           InitDataBlock([it EXCEPT !.idx = Next(it.idx)], FALSE))

TwoLevelSeek(it, k) ==
    LET placed == OnData(InitDataBlock([it EXCEPT !.idx = Seek(@, k)], FALSE),
                         LAMBDA d : Seek(d, k))
    IN SkipEmptyDataBlocksForward(placed)

MergingSeek(it, k) ==
    LET placed == OnData(InitDataBlock([it EXCEPT !.idx = Seek(@, k)], TRUE),
                         LAMBDA d : Seek(d, k))
    IN MergingDataBlocksForward(placed)

TwoLevelSkip(it, k) ==
    LET placed ==
          OnData(InitDataBlock([it EXCEPT !.idx = SkipToNextUserKey(@, k)], FALSE),
                 LAMBDA d : SkipToNextUserKey(d, k))
    IN IF it.mg THEN MergingDataBlocksForward(placed)
       ELSE SkipEmptyDataBlocksForward(placed)

TwoLevelFirst(it) ==
    SkipEmptyDataBlocksForward(
      OnData(InitDataBlock([it EXCEPT !.idx = SeekToFirst(@)], FALSE),
             SeekToFirst))

TwoLevelLast(it) ==
    SkipEmptyDataBlocksBackward(
      OnData(InitDataBlock([it EXCEPT !.idx = SeekToLast(@)], FALSE),
             SeekToLast))

TwoLevelNext(it) ==
    LET moved == [it EXCEPT !.data = Next(@)]
    IN IF it.mg THEN MergingDataBlocksForward(moved)
       ELSE SkipEmptyDataBlocksForward(moved)

TwoLevelPrev(it) == SkipEmptyDataBlocksBackward([it EXCEPT !.data = Prev(@)])

MergeSeek(it, k) == Forward(it, [i \in DOMAIN it.ch |-> Seek(it.ch[i], k)])
MergeFirst(it) == Forward(it, [i \in DOMAIN it.ch |-> SeekToFirst(it.ch[i])])
MergeLast(it) == Reverse(it, [i \in DOMAIN it.ch |-> SeekToLast(it.ch[i])])
MergeSkip(it, k) ==
    Forward(it, [i \in DOMAIN it.ch |-> SkipToNextUserKey(it.ch[i], k)])

(* Turning round: every other child is placed just after (before) the      *)
(* current key.                                                            *)
AfterKey(child, k) ==
    LET c == Seek(child, k)
    IN IF Valid(c) /\ Key(c) = k THEN Next(c) ELSE c

BeforeKey(child, k) ==
    LET c == Seek(child, k)
    IN IF Valid(c) THEN Prev(c) ELSE SeekToLast(c)

MergeNextKeepsPlace(it) ==
    Forward(it, [i \in DOMAIN it.ch |->
                   IF i = it.cur THEN Next(it.ch[i]) ELSE it.ch[i]])

MergeNext(it) ==
    Forward(it, [i \in DOMAIN it.ch |->
                   IF i = it.cur THEN Next(it.ch[i])
                   ELSE IF it.fwd THEN it.ch[i]
                   ELSE AfterKey(it.ch[i], Key(it))])

MergePrev(it) ==
    Reverse(it, [i \in DOMAIN it.ch |->
                   IF i = it.cur THEN Prev(it.ch[i])
                   ELSE IF ~it.fwd THEN it.ch[i]
                   ELSE BeforeKey(it.ch[i], Key(it))])

(* The virtual calls of Iterator (IteratorWrapper caches Valid and key).   *)
Seek(it, k) ==
    CASE it.t \in {"mem", "blk", "lvl"} -> LeafSeek(it, k)
      [] it.t = "rng" -> RangeSeek(it, k)
      [] it.t = "mrg" -> MergeSeek(it, k)
      [] it.t = "two" -> IF it.mg THEN MergingSeek(it, k) ELSE TwoLevelSeek(it, k)

SeekToFirst(it) ==
    CASE it.t \in {"mem", "blk", "lvl"} -> LeafFirst(it)
      [] it.t = "mrg" -> MergeFirst(it)
      [] it.t = "two" -> TwoLevelFirst(it)

SeekToLast(it) ==
    CASE it.t \in {"mem", "blk", "lvl"} -> LeafLast(it)
      [] it.t = "mrg" -> MergeLast(it)
      [] it.t = "two" -> TwoLevelLast(it)

Next(it) ==
    CASE it.t \in {"mem", "blk", "lvl"} -> LeafNext(it)
      [] it.t = "rng" -> [it EXCEPT !.p = @ + 1]
      [] it.t = "mrg" -> MergeNext(it)
      [] it.t = "two" -> TwoLevelNext(it)

Prev(it) ==
    CASE it.t \in {"mem", "blk", "lvl"} -> LeafPrev(it)
      [] it.t = "mrg" -> MergePrev(it)
      [] it.t = "two" -> TwoLevelPrev(it)

SkipToNextUserKey(it, k) ==
    CASE it.t = "mem" -> MemSkip(it, k)
      [] it.t = "blk" -> BlockSkip(it, k)
      [] it.t = "lvl" -> LevelSkip(it, k)
      [] it.t = "rng" -> RangeSkip(it, k)
      [] it.t = "mrg" -> MergeSkip(it, k)
      [] it.t = "two" -> TwoLevelSkip(it, k)

(***************************************************************************)
(* The tables, and the iterators over them.                                *)
(***************************************************************************)
VARIABLES
    kind,   \* "db": DBIter of a scan; "merge": the iterator of a compaction
    place,  \* place[k] = sequence numbers of the entries of k
    it,     \* the iterator (iter_ of DBIter)
    valid,  \* DBIter's valid_
    from,   \* DBIter: the user key the iterator has to go past
    ref     \* "merge": the same calls on one sorted list of all entries

itVars == <<kind, place, it, valid, from, ref>>

Entries(seqs, lo, hi) ==
    SortKeys({<<k, s>> : k \in lo .. hi - 1, s \in seqs} \cap
             {<<k, s>> \in Keys \X (1 .. 5) : s \in place[k]})

(* A table: blocks of two entries, the index block holds their last keys.  *)
TableIter(ents) ==
    LET n == (Len(ents) + 1) \div 2
        last(b) == IF 2 * b > Len(ents) THEN Len(ents) ELSE 2 * b
    IN NewTwoLevelIterator(
         Leaf("blk", [b \in 1 .. n |-> ents[last(b)]]),
         [b \in 1 .. n |-> Leaf("blk", SubSeq(ents, 2 * b - 1, last(b)))],
         FALSE)

IfAny(ents, iter) == IF ents = <<>> THEN <<>> ELSE <<iter>>

(* The files of L1: one for the keys below, one for the keys from mid on.  *)
ConcatenatingIterator ==
    LET mid == NumKeys \div 2 + 1
        files == SelectSeq(<<Entries(L1Table, 1, mid),
                             Entries(L1Table, mid, NumKeys + 1)>>,
                           LAMBDA f : f # <<>>)
    IN IF files = <<>> THEN <<>>
       ELSE << NewTwoLevelIterator(
                 Leaf("lvl", [f \in DOMAIN files |-> files[f][Len(files[f])]]),
                 [f \in DOMAIN files |-> TableIter(files[f])], FALSE) >>

(* The tables of a range: its memtables and its L0 table.                  *)
FragmentIterator(r) ==
    LET lo == Ranges[r][1]
        hi == Ranges[r][2]
        mem == Leaf("mem", Entries(ActiveMem, lo, hi))
        imm == Entries(ImmMem, lo, hi)
        l0 == Entries(L0Table, lo, hi)
    IN NewMergingIterator(<<mem>> \o IfAny(imm, Leaf("mem", imm))
                                  \o IfAny(l0, TableIter(l0)))

NewInternalIterator ==
    NewMergingIterator(
      << NewTwoLevelIterator(RangeIter(Ranges),
                             [r \in 1 .. NumRanges |-> FragmentIterator(r)],
                             TRUE) >> \o ConcatenatingIterator)

(* The input of a compaction: L0 tables one by one, L1 as one iterator.    *)
MakeInputIterator ==
    LET imm == Entries(ImmMem, 1, NumKeys + 1)
        l0 == Entries(L0Table, 1, NumKeys + 1)
    IN NewMergingIterator(IfAny(imm, TableIter(imm)) \o IfAny(l0, TableIter(l0))
                          \o ConcatenatingIterator)

IterInit ==
    /\ kind \in {"db", "merge"}
    /\ place \in [Keys -> Placements]
    /\ it = IF kind = "db" THEN NewInternalIterator ELSE MakeInputIterator
    /\ valid = FALSE
    /\ from = NumKeys
    /\ ref = IF kind = "db" THEN Nil
             ELSE Leaf("mem", Entries(ImmMem \cup L0Table \cup L1Table,
                                      1, NumKeys + 1))

(***************************************************************************)
(* DBIter.                                                                 *)
(***************************************************************************)
(* FindNextUserEntry, called with nothing to skip: the first entry the     *)
(* snapshot sees.                                                          *)
RECURSIVE FindNextUserEntry(_)
FindNextUserEntry(i) ==
    IF ~Valid(i) THEN i
    ELSE IF Key(i)[2] <= Snapshot THEN i
    ELSE FindNextUserEntry(Next(i))

DBIterSeek(u) ==
    LET i == FindNextUserEntry(Seek(it, <<u, Snapshot>>))
    IN /\ kind = "db"
       /\ it' = i
       /\ valid' = Valid(i)
       /\ from' = u - 1
       /\ UNCHANGED <<kind, place, ref>>

(* GoToNextEntry: one step; done if it is at a larger key the snapshot     *)
(* sees.                                                                   *)
GoToNextEntry(i, saved) ==
    Valid(i) /\ Key(i)[2] <= Snapshot /\ Key(i)[1] > saved[1]

DBIterNext ==
    /\ kind = "db" /\ valid
    /\ from' = Key(it)[1]
    /\ IF Key(it)[1] = NumKeys
       THEN valid' = FALSE /\ it' = it
       ELSE LET saved == Key(it)
                one == Next(it)
                i == IF ~GoToNextEntry(one, saved) /\ Valid(one)
                     THEN SkipToNextUserKey(one, saved) ELSE one
            IN it' = i /\ valid' = Valid(i)
    /\ UNCHANGED <<kind, place, ref>>

(***************************************************************************)
(* The calls on the merging iterator, mirrored on the reference.           *)
(***************************************************************************)
MergeCall(call) ==
    /\ kind = "merge"
    /\ it' = IF call = "first" THEN SeekToFirst(it)
             ELSE IF call = "last" THEN SeekToLast(it)
             ELSE IF call = "next" THEN Next(it) ELSE Prev(it)
    /\ ref' = IF call = "first" THEN LeafFirst(ref)
              ELSE IF call = "last" THEN LeafLast(ref)
              ELSE IF call = "next" THEN LeafNext(ref) ELSE LeafPrev(ref)
    /\ UNCHANGED <<kind, place, valid, from>>

MergeSeekCall(k) ==
    /\ kind = "merge"
    /\ it' = Seek(it, k)
    /\ ref' = LeafSeek(ref, k)
    /\ UNCHANGED <<kind, place, valid, from>>

IterNext ==
    \/ \E u \in Keys : DBIterSeek(u)
    \/ DBIterNext
    \/ \E call \in {"first", "last"} : MergeCall(call)
    \/ \E call \in {"next", "prev"} :
          kind = "merge" /\ Valid(it) /\ MergeCall(call)
    \/ \E k \in Keys, s \in {5, 2} : MergeSeekCall(<<k, s>>)

(***************************************************************************)
(* Properties.                                                             *)
(***************************************************************************)
(* What include/leveldb/iterator.h promises of Seek, Next and Prev.  A     *)
(* scan goes through the user keys in order: it never passes over a key    *)
(* that has an entry its snapshot sees, it ends only when there is none    *)
(* left, and it shows the newest entry of the key in the snapshot or one   *)
(* written since.  The merging iterator is always where the same calls put *)
(* an iterator over one sorted list, in both directions.                   *)
IteratorContract ==
    /\ kind = "db" =>
         LET left == {k \in Keys : k > from /\ \E s \in place[k] : s <= Snapshot}
         IN IF valid
            THEN /\ Key(it)[1] > from
                 /\ \A k \in left : k >= Key(it)[1]
                 /\ \/ Key(it)[2] > Snapshot
                    \/ Key(it)[2] = Max(place[Key(it)[1]] \cap 1 .. Snapshot)
            ELSE left = {}
    /\ kind = "merge" =>
         /\ Valid(it) = Valid(ref)
         /\ Valid(it) => Key(it) = Key(ref)
=============================================================================
