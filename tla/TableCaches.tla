----------------------------- MODULE TableCaches -----------------------------
(***************************************************************************)
(* The LRU cache (util/cache.cc) as the table cache (db/table_cache.cc)    *)
(* uses it: threads look a table up, open and insert it on a miss, read    *)
(* through the handle, release it, and evict the tables of a deleted file. *)
(* The block cache (Table::DataBlockReader) has the same life cycle, with  *)
(* charges other than 1 and reads that do not fill the cache.              *)
(*                                                                         *)
(* One shard; each of its operations is one step under its mutex.  Between *)
(* a miss and the insertion the table is opened without a lock, unless     *)
(* there are several configurations, when Env::LockFile is held.  An entry *)
(* is a slot of memory; slots are reused once freed.                       *)
(***************************************************************************)
EXTENDS Integers, Sequences, FiniteSets, FiniteSetsExt, SequencesExt

CONSTANTS
    Readers,    \* threads
    Files,      \* file numbers
    Charges,    \* what an entry may be charged
    Capacity,   \* of the shard
    MinLength   \* the initial length of the hash table (4)

VARIABLES
    slots,      \* slots[e] = [key, charge, refs, in_cache]; refs 0 is free
    buckets,    \* the hash table: buckets[b] = a list of entries, 0 <= b < length
    lru,        \* entries no client refers to, oldest first
    in_use,     \* entries of the cache that clients refer to
    usage,
    rd,         \* rd[t] = [st, key, e]
    locking     \* several configurations

cacheVars == <<slots, buckets, lru, in_use, usage, rd, locking>>

Cache == [slots |-> slots, buckets |-> buckets, lru |-> lru,
          in_use |-> in_use, usage |-> usage]

Become(c) ==
    /\ slots' = c.slots /\ buckets' = c.buckets /\ lru' = c.lru
    /\ in_use' = c.in_use /\ usage' = c.usage

(* User reads and compactions open a file apart, under keys of their own.  *)
Keys == {"c", "u"} \X Files
Hash(k) == 2 * k[2] + (IF k[1] = "u" THEN 1 ELSE 0)
Free == [key |-> <<"", 0>>, charge |-> 0, refs |-> 0, in_cache |-> FALSE]

(***************************************************************************)
(* HandleTable.                                                            *)
(***************************************************************************)
BucketOf(b, k) == Hash(k) % Cardinality(DOMAIN b)

(* FindPointer: the entry of the bucket with the key, or 0.                *)
FindPointer(c, k) ==
    LET l == c.buckets[BucketOf(c.buckets, k)]
        at == {i \in DOMAIN l : c.slots[l[i]].key = k}
    IN IF at = {} THEN 0 ELSE l[Min(at)]

Elems(c) ==
    LET n[b \in 0 .. Cardinality(DOMAIN c.buckets)] ==
          IF b = 0 THEN 0 ELSE n[b - 1] + Len(c.buckets[b - 1])
    IN n[Cardinality(DOMAIN c.buckets)]

(* The first of min, 2 min, 4 min, ... that is at least n.                 *)
NewLength(n) ==
    LET at[l \in 1 .. 2 * (n + MinLength)] == IF l >= n THEN l ELSE at[2 * l]
    IN at[MinLength]

(* Resize pushes the entries of each old bucket, in order, on the front of *)
(* their new ones.                                                         *)
Resize(c) ==
    LET old == Cardinality(DOMAIN c.buckets)
        all[b \in 0 .. old] ==
          IF b = 0 THEN <<>> ELSE all[b - 1] \o c.buckets[b - 1]
        length == NewLength(Elems(c))
    IN [c EXCEPT !.buckets =
          [b \in 0 .. length - 1 |->
             Reverse(SelectSeq(all[old],
                               LAMBDA e : Hash(c.slots[e].key) % length = b))]]

(* HandleTable::Insert puts an entry in the place of the old one with its  *)
(* key, or at the end of the bucket.                                       *)
TableInsert(c, e) ==
    LET k == c.slots[e].key
        b == BucketOf(c.buckets, k)
        old == FindPointer(c, k)
        new == [c EXCEPT !.buckets[b] =
                  IF old = 0 THEN Append(@, e)
                  ELSE [i \in DOMAIN @ |-> IF @[i] = old THEN e ELSE @[i]]]
    IN IF old = 0 /\ Elems(new) > Cardinality(DOMAIN c.buckets)
       THEN Resize(new) ELSE new

TableRemove(c, k) ==
    [c EXCEPT !.buckets[BucketOf(c.buckets, k)] =
       SelectSeq(@, LAMBDA e : e # FindPointer(c, k))]

(***************************************************************************)
(* LRUCache.                                                               *)
(***************************************************************************)
LRU_Remove(c, e) ==
    [c EXCEPT !.lru = SelectSeq(@, LAMBDA x : x # e), !.in_use = @ \ {e}]

CacheRef(c, e) ==
    LET h == c.slots[e]
        moved == IF h.refs = 1 /\ h.in_cache
                 THEN [LRU_Remove(c, e) EXCEPT !.in_use = @ \cup {e}] ELSE c
    IN [moved EXCEPT !.slots[e].refs = @ + 1]

(* The deleter runs and the slot is free when the last reference goes.     *)
CacheUnref(c, e) ==
    LET left == c.slots[e].refs - 1
        h == c.slots[e]
    IN IF left = 0 THEN [c EXCEPT !.slots[e] = Free]
       ELSE IF h.in_cache /\ left = 1
       THEN [LRU_Remove(c, e) EXCEPT !.slots[e].refs = 1, !.lru = Append(@, e)]
       ELSE [c EXCEPT !.slots[e].refs = left]

(* As FinishErase, leaving the charge on the cache when a client still     *)
(* refers to the entry.                                                    *)
FinishEraseKeepsCharge(c, e) ==
    IF e = 0 THEN c
    ELSE CacheUnref([LRU_Remove(c, e) EXCEPT
           !.slots[e].in_cache = FALSE,
           !.usage = IF c.slots[e].refs > 1 THEN @ ELSE @ - c.slots[e].charge], e)

(* FinishErase: the entry has left the hash table.                         *)
FinishErase(c, e) ==
    IF e = 0 THEN c
    ELSE CacheUnref([LRU_Remove(c, e) EXCEPT !.slots[e].in_cache = FALSE,
                                             !.usage = @ - c.slots[e].charge], e)

EraseKey(c, k) == FinishErase(TableRemove(c, k), FindPointer(c, k))

(* Insert evicts the oldest unused entries while the cache is too full.    *)
Shrink(c) ==
    LET after[n \in 0 .. Len(c.lru)] ==
          IF n = 0 THEN c
          ELSE LET d == after[n - 1]
               IN IF d.usage > Capacity /\ d.lru # <<>>
                  THEN EraseKey(d, d.slots[d.lru[1]].key) ELSE d
    IN after[Len(c.lru)]

CacheInsert(c, e, k, charge) ==
    LET h == [key |-> k, charge |-> charge, refs |-> 1, in_cache |-> FALSE]
        new == [c EXCEPT !.slots[e] = h]
        old == FindPointer(c, k)
        cached == [new EXCEPT !.slots[e].refs = 2, !.slots[e].in_cache = TRUE,
                              !.in_use = @ \cup {e}, !.usage = @ + charge]
    IN IF Capacity > 0 THEN Shrink(FinishErase(TableInsert(cached, e), old))
       ELSE Shrink(new)

(* Prune drops every entry that is not in use.                             *)
PruneAll(c) ==
    LET after[n \in 0 .. Len(c.lru)] ==
          IF n = 0 THEN c
          ELSE EraseKey(after[n - 1], c.slots[c.lru[n]].key)
    IN after[Len(c.lru)]

(***************************************************************************)
(* The threads.                                                            *)
(***************************************************************************)
CacheInit ==
    /\ slots = [e \in 1 .. 2 * Cardinality(Readers) + Capacity + 1 |-> Free]
    /\ buckets = [b \in 0 .. MinLength - 1 |-> <<>>]
    /\ lru = <<>> /\ in_use = {} /\ usage = 0
    /\ rd = [t \in Readers |-> [st |-> "idle", key |-> <<"", 0>>, e |-> 0]]
    /\ locking \in BOOLEAN

LockedFile(f) == locking /\ \E t \in Readers : rd[t].st = "opening" /\ rd[t].key[2] = f

(* FindTable, up to the hit or the miss.                                   *)
FindTable(t, k) ==
    LET e == FindPointer(Cache, k)
    IN /\ rd[t].st = "idle" /\ ~LockedFile(k[2])
       /\ IF e # 0
          THEN /\ Become(CacheRef(Cache, e))
               /\ rd' = [rd EXCEPT ![t] = [st |-> "using", key |-> k, e |-> e]]
          ELSE /\ UNCHANGED <<slots, buckets, lru, in_use, usage>>
               /\ rd' = [rd EXCEPT ![t] = [st |-> "opening", key |-> k, e |-> 0]]
       /\ UNCHANGED locking

(* FindTable with force_insert: the table is opened whatever the cache     *)
(* holds, and no file lock is taken.                                       *)
ForceInsert(t, k) ==
    /\ rd[t].st = "idle"
    /\ rd' = [rd EXCEPT ![t] = [st |-> "forcing", key |-> k, e |-> 0]]
    /\ UNCHANGED <<slots, buckets, lru, in_use, usage, locking>>

(* The rest of FindTable: the open table is inserted.                      *)
InsertTable(t, charge) ==
    LET e == Min({x \in DOMAIN slots : slots[x].refs = 0})
    IN /\ rd[t].st \in {"opening", "forcing"}
       /\ Become(CacheInsert(Cache, e, rd[t].key, charge))
       /\ rd' = [rd EXCEPT ![t].st = "using", ![t].e = e]
       /\ UNCHANGED locking

(* DataBlockReader with fill_cache off: the block belongs to the iterator. *)
ReadUncached(t) ==
    /\ rd[t].st = "opening"
    /\ rd' = [rd EXCEPT ![t] = [st |-> "idle", key |-> <<"", 0>>, e |-> 0]]
    /\ UNCHANGED <<slots, buckets, lru, in_use, usage, locking>>

(* TableCache::Get ends, or an iterator is destroyed (UnrefEntry).         *)
ReleaseHandle(t) ==
    /\ rd[t].st = "using"
    /\ Become(CacheUnref(Cache, rd[t].e))
    /\ rd' = [rd EXCEPT ![t] = [st |-> "idle", key |-> <<"", 0>>, e |-> 0]]
    /\ UNCHANGED locking

(* TableCache::Evict erases the compaction's entry, and the users' too     *)
(* unless only the compaction's is asked for; each Erase is a step.        *)
Evict(k) ==
    /\ FindPointer(Cache, k) # 0
    /\ Become(EraseKey(Cache, k))
    /\ UNCHANGED <<rd, locking>>

Prune ==
    /\ lru # <<>>
    /\ Become(PruneAll(Cache))
    /\ UNCHANGED <<rd, locking>>

CacheNext ==
    \/ \E t \in Readers, k \in Keys : FindTable(t, k) \/ ForceInsert(t, k)
    \/ \E t \in Readers, charge \in Charges : InsertTable(t, charge)
    \/ \E t \in Readers : ReadUncached(t) \/ ReleaseHandle(t)
    \/ \E k \in Keys : Evict(k)
    \/ Prune

(***************************************************************************)
(* The cache's contract.                                                   *)
(***************************************************************************)
Cached == {e \in DOMAIN slots : slots[e].in_cache}
Holders(e) == {t \in Readers : rd[t].st = "using" /\ rd[t].e = e}

(* The handle a thread reads through is the table it asked for and has not *)
(* been deleted, whatever was evicted, replaced or shrunk away since;      *)
(* every entry has one reference for each of its holders and one for the   *)
(* cache, and none is leaked; the hash table finds each cached entry and   *)
(* no other, across a resize and the replacement of an entry by a          *)
(* concurrent open of the same table; the lists split the cached entries   *)
(* by use; and the charge is that of the cached entries, over the capacity *)
(* by no more than what threads may hold at once.                          *)
CacheKeepsHandles ==
    /\ \A t \in Readers : rd[t].st = "using" => slots[rd[t].e].key = rd[t].key
    /\ \A e \in DOMAIN slots :
         slots[e].refs = Cardinality(Holders(e)) + (IF e \in Cached THEN 1 ELSE 0)
    /\ \A k \in Keys :
         FindPointer(Cache, k) = (LET in == {e \in Cached : slots[e].key = k}
                                  IN IF in = {} THEN 0 ELSE CHOOSE e \in in : TRUE)
    /\ Elems(Cache) = Cardinality(Cached)
    /\ in_use = {e \in Cached : slots[e].refs > 1}
    /\ ToSet(lru) = Cached \ in_use /\ Len(lru) = Cardinality(ToSet(lru))
    /\ usage = MapThenSumSet(LAMBDA e : slots[e].charge, Cached)
    /\ usage <= Max({Capacity, Max(Charges) * Cardinality(Readers)})
=============================================================================
