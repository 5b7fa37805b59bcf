------------------------ MODULE LsmReadPath_theorems ------------------------
(***************************************************************************)
(* IInv, and the safety properties it implies, hold in every reachable     *)
(* state, whatever the constants.                                          *)
(***************************************************************************)
EXTENDS LsmReadPath_compactions

\* The invariant holds in every reachable state, for every number of readers, writers,
\* flush threads, partitions, keys, levels and for every bound on the ids.
THEOREM Invariance == Spec => []IInv
<1>1. Init => IInv BY InitInv
<1>2. IInv /\ [Next]_vars => IInv' BY InvStep
<1> QED BY <1>1, <1>2, PTL DEF Spec

\* Every variable keeps its type: in particular no id generator and no reference count
\* leaves its range.
THEOREM TypeCorrect == Spec => []TypeOK
<1>1. IInv => TypeOK BY DEF IInv
<1> QED BY <1>1, Invariance, PTL

\* No Get opens a table that the StoCs have deleted.
THEOREM ReadsSucceed == Spec => []NoIOError
<1>1. IInv => NoIOError BY DEF IInv, L0Files
<1> QED BY <1>1, Invariance, PTL

\* The count of a version is exactly the number of its holders: every Ref of a Get, of the
\* coordinator and of current_ is paired with one Unref.
THEOREM RefsExact == Spec => []VersionRefsExact
<1>1. IInv => VersionRefsExact BY DEF IInv, Versions
<1> QED BY <1>1, Invariance, PTL

\* A table whose deletion was scheduled is never in the current version again.
THEOREM NeverResurrected == Spec => []NoResurrection
<1>1. IInv => NoResurrection BY DEF IInv, FilesKept, NoResurrection
<1> QED BY <1>1, Invariance, PTL

\* The version that SetCompaction marks is alive: the coordinator still holds it.
THEOREM MarksLiveVersion == Spec => []CompactedVersionAlive
<1>1. ASSUME IInv, stage = "mark" PROVE cvid \in vset /\ cvid \notin vdeleted /\ vrefs[cvid] >= 1
  <2>1. mutex = Coordinator /\ cpc \in {"move", "install"} BY <1>1 DEF IInv, Control
  <2>2. cvid \in Vid /\ cvid \in vset BY <1>1, <2>1 DEF IInv, Control, Versions
  <2>3. vrefs[cvid] = Cardinality(Holders(cvid)) + (IF cvid = current /\ cvid \in vset THEN 1 ELSE 0) + 1
    BY <1>1, <2>1, <2>2 DEF IInv, Versions, VersionRefsExact
  <2>4. Cardinality(Holders(cvid)) \in Nat BY HoldersFinite
  <2>5. vrefs[cvid] >= 1 BY <2>3, <2>4
  <2> QED BY <1>1, <2>2, <2>5 DEF IInv, Versions
<1>2. IInv => CompactedVersionAlive BY <1>1 DEF CompactedVersionAlive
<1> QED BY <1>2, Invariance, PTL

\* Every table that a Get, the current version or a compaction that has not been run yet
\* will read is on disk and not handed out for deletion.
THEOREM FilesInUse == Spec => []FilesInUseOnDisk
<1>1. ASSUME IInv, NEW r \in Reader, HoldsVersion(r)
      PROVE  rvid[r] \in linked /\ FilesOf(rvid[r]) \subseteq disk \ deleting
  <2>1. rvid[r] \in vset \ vdeleted /\ rvid[r] \in linked BY <1>1, HeldAlive
  <2>2. r \in Holders(rvid[r]) BY <1>1 DEF Holders
  <2> QED BY <1>1, <2>1, <2>2 DEF IInv, FilesKept
<1>2. ASSUME IInv PROVE FilesOf(current) \subseteq disk \ deleting BY <1>2 DEF IInv, FilesKept
<1>3. ASSUME IInv, NEW c \in ctodo, c.out = {} PROVE Inputs(c) \subseteq disk \ deleting
  <2>1. c \notin ccur \/ ~(mutex = Coordinator) BY <1>3 DEF IInv, Control
  <2>2. c \in Uninstalled BY <2>1 DEF Uninstalled
  <2> QED BY <1>2, <1>3, <2>2, InputsInCurrent
<1>4. IInv => FilesInUseOnDisk BY <1>1, <1>2, <1>3 DEF FilesInUseOnDisk
<1> QED BY <1>4, Invariance, PTL

-----------------------------------------------------------------------------
(***************************************************************************)
(* Memtables: the count of a memtable is exact, and what a flush thread    *)
(* has still to release was never released before.                         *)
(***************************************************************************)

\* the Gets that read memtable m
MemReaders(m) == {r \in Reader : rpc[r] = "memget" /\ rmid[r] = m}

\* One reference per Get that reads the memtable, and one until its flush is installed;
\* the memtable is there as long as there is a reference.
MemCounts ==
  /\ \A m \in flushed : m < nextMid
  /\ \A r \in Reader : rpc[r] = "memget" => rmid[r] < nextMid
  /\ \A m \in Mid : mrefs[m] = Cardinality(MemReaders(m))
                               + (IF m < nextMid /\ m \notin flushed THEN 1 ELSE 0)
  /\ \A m \in Mid : m \in inMem <=> m < nextMid /\ mrefs[m] > 0

\* A memtable of a flush thread is not flushed, unless the thread is installing it and has
\* gone past it.
FlushOwed ==
  \A f \in Flusher : \A m \in fmem[f] :
    m < nextMid /\ (m \in flushed => mutex = f /\ m \notin pend)

MemInv == MemCounts /\ FlushOwed

\* A memtable has finitely many readers.
LEMMA MemReadersFinite ==
  ASSUME NEW m PROVE IsFiniteSet(MemReaders(m)) /\ Cardinality(MemReaders(m)) \in Nat
BY ConstantsOK, FS_Subset, FS_CardinalityType DEF MemReaders

\* A Get that reads a memtable, or a flush that is owed, counts.
LEMMA MemReferenced ==
  ASSUME IInv, MemCounts
  PROVE  /\ \A r \in Reader : rpc[r] = "memget" => rmid[r] \in Mid /\ rmid[r] \in inMem
         /\ \A m \in Mid : m < nextMid /\ m \notin flushed => m \in inMem
<1>1. ASSUME NEW r \in Reader, rpc[r] = "memget" PROVE rmid[r] \in Mid /\ rmid[r] \in inMem
  <2>1. rmid[r] \in Mid BY <1>1 DEF IInv, TypeOK, TypeReaders
  <2>2. r \in MemReaders(rmid[r]) BY <1>1 DEF MemReaders
  <2>3. Cardinality(MemReaders(rmid[r])) # 0 BY <2>2, FS_EmptySet, MemReadersFinite
  <2>4. mrefs[rmid[r]] > 0 BY <2>1, <2>3, MemReadersFinite DEF MemCounts
  <2> QED BY <1>1, <2>1, <2>4 DEF MemCounts
<1>2. ASSUME NEW m \in Mid, m < nextMid, m \notin flushed PROVE m \in inMem
  <2>1. mrefs[m] > 0 BY <1>2, MemReadersFinite DEF MemCounts
  <2> QED BY <1>2, <2>1 DEF MemCounts
<1> QED BY <1>1, <1>2

-----------------------------------------------------------------------------
(* Frames *)

\* Nobody starts or ends reading a memtable.
LEMMA CountsFrame ==
  ASSUME MemCounts, UNCHANGED <<flushed, nextMid, mrefs, inMem>>,
         \A r \in Reader : rpc'[r] = "memget" <=> rpc[r] = "memget",
         \A r \in Reader : rpc[r] = "memget" => rmid'[r] = rmid[r]
  PROVE  MemCounts'
<1>1. \A m : MemReaders(m)' = MemReaders(m) BY DEF MemReaders
<1> QED BY <1>1 DEF MemCounts

\* No flush is started or installed.
LEMMA OwedFrame ==
  ASSUME FlushOwed, UNCHANGED <<flushed, nextMid, fmem>>,
         mutex \notin Flusher \/ (mutex' = mutex /\ pend' \subseteq pend)
  PROVE  FlushOwed'
BY DEF FlushOwed

\* The steps that leave the memtables and their readers alone.
LEMMA QuietStep ==
  ASSUME MemInv, UNCHANGED <<nextMid, memVars, fmem, rpc, rmid>>,
         mutex \notin Flusher \/ (mutex' = mutex /\ pend' \subseteq pend)
  PROVE  MemInv'
BY CountsFrame, OwedFrame DEF MemInv, memVars

\* Neither nobody nor the coordinator is a flush thread.
LEMMA OtherOwners == NoOwner \notin Flusher /\ Coordinator \notin Flusher
BY ConstantsOK

-----------------------------------------------------------------------------
(* Steps *)

\* A new memtable has one reference, and nobody reads it yet.
LEMMA NewMemTableCounts ==
  ASSUME IInv, MemInv, NEW p \in Partition, NewMemTable(p) PROVE MemInv'
<1>1. nextMid \in Int /\ nextMid \in Mid BY DEF NewMemTable, IInv, TypeOK, TypeWriters, Mid
<1>2. /\ nextMid' = nextMid + 1 /\ inMem' = inMem \cup {nextMid} /\ flushed' = flushed \ {nextMid}
      /\ mrefs' = [mrefs EXCEPT ![nextMid] = 1] /\ UNCHANGED <<rpc, rmid, fmem, mutex, pend>>
  BY DEF NewMemTable, readVars, flushVars, instVars
<1>3. Mid \subseteq Int /\ flushed \subseteq Mid /\ mrefs \in [Mid -> Int]
  BY DEF IInv, TypeOK, TypeMemTables, Mid
<1>4. \A r \in Reader : rpc[r] = "memget" => rmid[r] \in Mid /\ rmid[r] < nextMid
  BY MemReferenced DEF MemInv, MemCounts
<1>5. \A m : MemReaders(m)' = MemReaders(m) BY <1>2 DEF MemReaders
<1>6. MemReaders(nextMid) = {} BY <1>1, <1>4 DEF MemReaders
<1>7. Cardinality(MemReaders(nextMid)) = 0 BY <1>6, FS_EmptySet
<1>8. nextMid \notin flushed BY <1>1 DEF MemInv, MemCounts
<1>9. MemCounts'
  <2>1. \A m \in flushed' : m < nextMid' BY <1>1, <1>2, <1>3 DEF MemInv, MemCounts
  <2>2. ASSUME NEW r \in Reader, rpc'[r] = "memget" PROVE rmid'[r] < nextMid'
    <3>1. rmid[r] \in Int /\ rmid[r] < nextMid BY <2>2, <1>2, <1>3, <1>4
    <3> QED BY <3>1, <1>1, <1>2
  <2>3. ASSUME NEW m \in Mid
        PROVE  /\ mrefs'[m] = Cardinality(MemReaders(m)')
                              + (IF m < nextMid' /\ m \notin flushed' THEN 1 ELSE 0)
               /\ m \in inMem' <=> m < nextMid' /\ mrefs'[m] > 0
    <3>1. CASE m = nextMid BY <3>1, <1>1, <1>2, <1>3, <1>5, <1>7, <1>8
    <3>2. CASE m # nextMid
      <4>1. m < nextMid' <=> m < nextMid BY <3>2, <1>1, <1>2, <1>3
      <4>2. mrefs'[m] = mrefs[m] BY <3>2, <1>2, <1>3
      <4> QED BY <3>2, <4>1, <4>2, <1>2, <1>5 DEF MemInv, MemCounts
    <3> QED BY <3>1, <3>2
  <2> QED BY <2>1, <2>2, <2>3 DEF MemCounts
<1>10. FlushOwed'
  <2>1. fmem \in [Flusher -> SUBSET Mid] BY DEF IInv, TypeOK, TypeThreads
  <2> QED BY <2>1, <1>1, <1>2, <1>3 DEF MemInv, FlushOwed
<1> QED BY <1>9, <1>10 DEF MemInv

\* RefMemTable counts the Get that it lets read.
LEMMA RefMemTableCounts ==
  ASSUME IInv, MemInv, NEW r \in Reader, RefMemTable(r) PROVE MemInv'
<1>1. FlushOwed'
  BY OwedFrame DEF RefMemTable, MemInv, otherThanReaders, partVars, flushVars, instVars
<1>2. UNCHANGED <<inMem, flushed, nextMid, rmid>>
  BY DEF RefMemTable, otherThanReaders, partVars
<1>a. \A pc : \A x \in Reader : Goto(r, pc) => rpc'[x] = IF x = r THEN pc ELSE rpc[x]
  BY DEF Goto, IInv, TypeOK, TypeReaders
<1>3. CASE rmid[r] \in inMem /\ mrefs' = [mrefs EXCEPT ![rmid[r]] = @ + 1] /\ Goto(r, "memget")
  <2>0. PICK n : n = rmid[r] OBVIOUS
  <2>1. /\ rpc[r] = "refmem" /\ rpc'[r] = "memget"
        /\ \A x \in Reader \ {r} : rpc'[x] = rpc[x]
    BY <1>3, <1>a DEF RefMemTable
  <2>2. n \in Mid /\ mrefs \in [Mid -> Int]
    BY <2>0, <2>1 DEF IInv, TypeOK, TypeReaders, TypeMemTables
  <2>3. n < nextMid BY <2>0, <1>3, <2>2 DEF MemInv, MemCounts
  <2>4. r \notin MemReaders(n) /\ MemReaders(n)' = MemReaders(n) \cup {r}
    BY <2>0, <1>2, <2>1 DEF MemReaders
  <2>5. Cardinality(MemReaders(n)') = Cardinality(MemReaders(n)) + 1
    BY <2>4, MemReadersFinite, FS_AddElement
  <2>6. \A m : m # n => MemReaders(m)' = MemReaders(m) BY <2>0, <1>2, <2>1 DEF MemReaders
  <2>7. \A x \in Reader : rpc'[x] = "memget" => rmid'[x] < nextMid'
    BY <2>0, <1>2, <2>1, <2>3 DEF MemInv, MemCounts
  <2>8. \A m \in flushed' : m < nextMid' BY <1>2 DEF MemInv, MemCounts
  <2>9. ASSUME NEW m \in Mid
        PROVE  /\ mrefs'[m] = Cardinality(MemReaders(m)')
                              + (IF m < nextMid' /\ m \notin flushed' THEN 1 ELSE 0)
               /\ m \in inMem' <=> m < nextMid' /\ mrefs'[m] > 0
    <3>0. mrefs' = [mrefs EXCEPT ![n] = @ + 1] /\ n \in inMem BY <2>0, <1>3
    <3>1. CASE m = n
      <4>1. mrefs'[n] = mrefs[n] + 1 /\ mrefs[n] > 0 /\ mrefs[n] \in Int
        BY <3>0, <2>2 DEF MemInv, MemCounts
      <4>2. mrefs[n] = Cardinality(MemReaders(n)) + (IF n < nextMid /\ n \notin flushed THEN 1 ELSE 0)
        BY <2>2 DEF MemInv, MemCounts
      <4>3. Cardinality(MemReaders(n)) \in Nat BY MemReadersFinite
      <4>4. mrefs'[n] = Cardinality(MemReaders(n)')
                       + (IF n < nextMid' /\ n \notin flushed' THEN 1 ELSE 0)
        BY <4>1, <4>2, <4>3, <2>5, <1>2
      <4>5. mrefs'[n] > 0 /\ n \in inMem' /\ n < nextMid' BY <3>0, <4>1, <2>3, <1>2
      <4> QED BY <3>1, <4>4, <4>5
    <3>2. CASE m # n BY <3>0, <3>2, <2>2, <2>6, <1>2 DEF MemInv, MemCounts
    <3> QED BY <3>1, <3>2
  <2> QED BY <2>7, <2>8, <2>9, <1>1 DEF MemInv, MemCounts
<1>4. CASE UNCHANGED mrefs /\ Goto(r, "version")
  <2>1. /\ rpc[r] = "refmem" /\ rpc'[r] = "version"
        /\ \A x \in Reader \ {r} : rpc'[x] = rpc[x]
    BY <1>4, <1>a DEF RefMemTable
  <2>2. \A x \in Reader : rpc'[x] = "memget" <=> rpc[x] = "memget" BY <2>1
  <2> QED BY <1>1, <1>2, <1>4, <2>2, CountsFrame DEF MemInv
<1> QED BY <1>3, <1>4 DEF RefMemTable

\* What UnrefMem does to the counts, for a reference that is given back.
LEMMA UnrefMemCounts ==
  ASSUME IInv, MemCounts, NEW n \in Mid, n < nextMid, UnrefMem(n), UNCHANGED nextMid,
         flushed \subseteq flushed', flushed' \subseteq flushed \cup {n},
         \A m : m # n => MemReaders(m)' = MemReaders(m),
         Cardinality(MemReaders(n)') + (IF n \notin flushed' THEN 1 ELSE 0)
           = Cardinality(MemReaders(n)) + (IF n \notin flushed THEN 1 ELSE 0) - 1,
         \A r \in Reader : rpc'[r] = "memget" => rpc[r] = "memget",
         UNCHANGED rmid
  PROVE  MemCounts'
<1>1. mrefs \in [Mid -> Int] /\ inMem \subseteq Mid BY DEF IInv, TypeOK, TypeMemTables
<1>2. mrefs' = [mrefs EXCEPT ![n] = @ - 1] /\ inMem' = IF mrefs[n] = 1 THEN inMem \ {n} ELSE inMem
  BY DEF UnrefMem
<1>3. \A m \in flushed' : m < nextMid' BY DEF MemCounts
<1>4. \A r \in Reader : rpc'[r] = "memget" => rmid'[r] < nextMid' BY DEF MemCounts
<1>5. ASSUME NEW m \in Mid
      PROVE  /\ mrefs'[m] = Cardinality(MemReaders(m)')
                            + (IF m < nextMid' /\ m \notin flushed' THEN 1 ELSE 0)
             /\ m \in inMem' <=> m < nextMid' /\ mrefs'[m] > 0
  <2>1. CASE m = n
    <3>1. mrefs'[n] = mrefs[n] - 1 BY <1>1, <1>2
    <3>2. mrefs[n] = Cardinality(MemReaders(n)) + (IF n \notin flushed THEN 1 ELSE 0)
      BY DEF MemCounts
    <3>3. Cardinality(MemReaders(n)) \in Nat BY MemReadersFinite
    <3>4. n \in inMem <=> mrefs[n] > 0 BY DEF MemCounts
    <3>5. mrefs'[n] = Cardinality(MemReaders(n)') + (IF n \notin flushed' THEN 1 ELSE 0)
      BY <3>1, <3>2, <3>3
    <3>6. n \in inMem' <=> mrefs'[n] > 0 BY <3>1, <3>4, <1>1, <1>2
    <3> QED BY <2>1, <3>5, <3>6
  <2>2. CASE m # n
    <3>1. mrefs'[m] = mrefs[m] /\ (m \in inMem' <=> m \in inMem) BY <2>2, <1>1, <1>2
    <3> QED BY <2>2, <3>1 DEF MemCounts
  <2> QED BY <2>1, <2>2
<1> QED BY <1>3, <1>4, <1>5 DEF MemCounts

\* A Get that has read gives back its reference.
LEMMA GetFromMemTableCounts ==
  ASSUME IInv, MemInv, NEW r \in Reader, GetFromMemTable(r) PROVE MemInv'
<1>0. PICK n : n = rmid[r] OBVIOUS
<1>1. FlushOwed'
  BY OwedFrame DEF GetFromMemTable, MemInv, otherThanReaders, partVars, flushVars, instVars
<1>2. UNCHANGED <<flushed, nextMid, rmid>> /\ UnrefMem(n) /\ rpc[r] = "memget"
  BY <1>0 DEF GetFromMemTable, otherThanReaders, partVars
<1>3. \A x \in Reader : rpc'[x] = IF x = r THEN "done" ELSE rpc[x]
  BY DEF GetFromMemTable, Goto, IInv, TypeOK, TypeReaders
<1>4. n \in Mid /\ n < nextMid BY <1>0, <1>2, MemReferenced DEF MemInv, MemCounts
<1>5. r \in MemReaders(n) /\ MemReaders(n)' = MemReaders(n) \ {r} BY <1>0, <1>2, <1>3 DEF MemReaders
<1>6. \A m : m # n => MemReaders(m)' = MemReaders(m) BY <1>0, <1>2, <1>3 DEF MemReaders
<1>7. Cardinality(MemReaders(n)') = Cardinality(MemReaders(n)) - 1
  BY <1>5, MemReadersFinite, FS_RemoveElement
<1>8. Cardinality(MemReaders(n)) \in Nat BY MemReadersFinite
<1>9. \A x \in Reader : rpc'[x] = "memget" => rpc[x] = "memget" BY <1>3
<1>10. Cardinality(MemReaders(n)') + (IF n \notin flushed' THEN 1 ELSE 0)
       = Cardinality(MemReaders(n)) + (IF n \notin flushed THEN 1 ELSE 0) - 1
  BY <1>2, <1>7, <1>8
<1>11. MemCounts' BY <1>2, <1>4, <1>6, <1>9, <1>10, UnrefMemCounts DEF MemInv
<1> QED BY <1>1, <1>11 DEF MemInv

\* SetFlushed releases what the flush owes, once.
LEMMA SetFlushedCounts ==
  ASSUME IInv, MemInv, NEW m \in pend, SetFlushed(m) PROVE MemInv'
<1>1. /\ mutex \in Flusher /\ m \in fmem[mutex] /\ m \in Mid /\ m \in pend
      /\ fmem \in [Flusher -> SUBSET Mid]
  BY DEF SetFlushed, IInv, Control, TypeOK, TypeThreads
<1>2. m < nextMid /\ m \notin flushed BY <1>1 DEF MemInv, FlushOwed
<1>3. /\ UnrefMem(m) /\ flushed' = flushed \cup {m} /\ pend' = pend \ {m}
      /\ UNCHANGED <<nextMid, rpc, rmid, fmem, mutex>>
  BY DEF SetFlushed, partVars, readVars, flushVars
<1>4. \A n : MemReaders(n)' = MemReaders(n) BY <1>3 DEF MemReaders
<1>5. Cardinality(MemReaders(m)) \in Nat BY MemReadersFinite
<1>6. Cardinality(MemReaders(m)') + (IF m \notin flushed' THEN 1 ELSE 0)
      = Cardinality(MemReaders(m)) + (IF m \notin flushed THEN 1 ELSE 0) - 1
  BY <1>2, <1>3, <1>4, <1>5
<1>7. MemCounts' BY <1>1, <1>2, <1>3, <1>4, <1>6, UnrefMemCounts DEF MemInv
<1>8. \A f \in Flusher : f # mutex => m \notin fmem[f] BY <1>1 DEF IInv, FreshFiles
<1>9. FlushOwed' BY <1>3, <1>8 DEF MemInv, FlushOwed
<1> QED BY <1>7, <1>9 DEF MemInv

\* A flush thread takes an immutable memtable that is not flushed.
LEMMA BuildTableOwed ==
  ASSUME IInv, MemInv, NEW f \in Flusher, NEW m \in Mid, BuildTable(f, m) PROVE MemInv'
<1>1. /\ UNCHANGED <<nextMid, memVars, rpc, rmid, mutex, pend>>
      /\ fmem' = [fmem EXCEPT ![f] = @ \cup {m}] /\ m < nextMid /\ m \notin flushed
  BY DEF BuildTable, Immutable, partVars, readVars, instVars
<1>2. MemCounts' BY <1>1, CountsFrame DEF MemInv, memVars
<1>3. fmem \in [Flusher -> SUBSET Mid] BY DEF IInv, TypeOK, TypeThreads
<1>4. FlushOwed' BY <1>1, <1>3 DEF MemInv, FlushOwed, memVars
<1> QED BY <1>2, <1>4 DEF MemInv

\* At the end of its installation a flush thread owes nothing.
LEMMA FlushUnlockOwed ==
  ASSUME IInv, MemInv, NEW f \in Flusher, FlushUnlock(f) PROVE MemInv'
<1>1. /\ UNCHANGED <<nextMid, memVars, rpc, rmid>> /\ mutex = f
      /\ fmem' = [fmem EXCEPT ![f] = {}]
  BY DEF FlushUnlock, partVars, readVars
<1>2. MemCounts' BY <1>1, CountsFrame DEF MemInv, memVars
<1>3. fmem \in [Flusher -> SUBSET Mid] BY DEF IInv, TypeOK, TypeThreads
<1>4. FlushOwed' BY <1>1, <1>3 DEF MemInv, FlushOwed, memVars
<1> QED BY <1>2, <1>4 DEF MemInv

\* The other steps of a Get neither start nor end reading a memtable.
LEMMA OtherGetSteps ==
  ASSUME IInv, MemInv, NEW r \in Reader, Get(r), ~RefMemTable(r), ~GetFromMemTable(r)
  PROVE  MemInv'
<1>1. /\ rmid \in [Reader -> 0 .. MaxMid]
      /\ \A pc : \A x \in Reader : Goto(r, pc) => rpc'[x] = IF x = r THEN pc ELSE rpc[x]
  BY DEF IInv, TypeOK, TypeReaders, Goto
<1>2. UNCHANGED <<memVars, otherThanReaders>>
  BY DEF Get, Lookup, ReadVersionId, RefVersion, CheckL0Files, UnrefAndRetry, SearchL0,
         SearchLevels, UnrefAndReturn, Return
<1>3. \E pc : Goto(r, pc) /\ pc # "memget" /\ rpc[r] # "memget"
  BY DEF Get, Lookup, ReadVersionId, RefVersion, CheckL0Files, UnrefAndRetry, SearchL0,
         SearchLevels, UnrefAndReturn, Return
<1>4. \A x \in Reader : x # r => rmid'[x] = rmid[x]
  BY <1>1 DEF Get, Lookup, ReadVersionId, RefVersion, CheckL0Files, UnrefAndRetry, SearchL0,
              SearchLevels, UnrefAndReturn, Return
<1>5. \A x \in Reader : rpc'[x] = "memget" <=> rpc[x] = "memget" BY <1>1, <1>3
<1>6. MemCounts'
  BY <1>2, <1>3, <1>4, <1>5, CountsFrame DEF MemInv, memVars, otherThanReaders, partVars
<1>7. FlushOwed'
  BY <1>2, OwedFrame DEF MemInv, memVars, otherThanReaders, partVars, flushVars, instVars
<1> QED BY <1>6, <1>7 DEF MemInv

-----------------------------------------------------------------------------
\* Every step keeps the counts of memtables exact.
LEMMA MemInvStep == ASSUME IInv, MemInv, [Next]_vars PROVE MemInv'
<1> USE OtherOwners
<1>1. ASSUME NEW w \in Writer, Write(w) PROVE MemInv'
  BY <1>1, QuietStep DEF Write, TakeSequence, BeginWrite, AddEntry, InsertIndex, partVars, flushVars,
     readVars, instVars
<1>2. ASSUME NEW p \in Partition, Rotate(p) PROVE MemInv'
  BY <1>2, QuietStep DEF Rotate, flushVars, readVars, instVars
<1>3. ASSUME NEW f \in Flusher, Flush(f) PROVE MemInv'
  <2>1. ASSUME FlushLock(f) PROVE MemInv'
    BY <2>1, QuietStep DEF FlushLock, Lock, partVars, readVars
  <2> QED BY <1>3, <2>1, BuildTableOwed, FlushUnlockOwed DEF Flush
<1>4. ASSUME Install PROVE MemInv'
  <2>1. ASSUME NEW m \in pend, UpdateL0Files(m) PROVE MemInv'
    <3>1. UNCHANGED <<nextMid, mrefs, inMem, flushed, fmem, rpc, rmid>> /\ mutex = Coordinator
      BY <2>1 DEF UpdateL0Files, partVars, flushVars, readVars
    <3> QED BY <3>1, CountsFrame, OwedFrame DEF MemInv
  <2>2. ASSUME AppendVersion \/ SetVersion \/ StoreCurrentId \/ SetCompaction PROVE MemInv'
    BY <2>2, QuietStep DEF AppendVersion, SetVersion, StoreCurrentId, SetCompaction, partVars,
       flushVars, readVars
  <2> QED BY <1>4, <2>1, <2>2, SetFlushedCounts DEF Install
<1>5. ASSUME Compact PROVE MemInv'
  <2>1. ASSUME StartCompaction \/ ComputeCompactions \/ ReleaseCompacted \/ FinishCompaction
        PROVE  MemInv'
    BY <2>1, QuietStep DEF StartCompaction, ComputeCompactions, ReleaseCompacted, FinishCompaction,
       partVars, flushVars, readVars, instVars
  <2>2. ASSUME NEW c \in ctodo, CompactTables(c) PROVE MemInv'
    BY <2>2, QuietStep DEF CompactTables, partVars, flushVars, readVars, instVars
  <2>3. ASSUME NEW cs, CompactionLock(cs) PROVE MemInv'
    BY <2>3, QuietStep DEF CompactionLock, Lock, partVars, flushVars, readVars
  <2>4. ASSUME CompactionUnlock PROVE MemInv'
    BY <2>4, QuietStep DEF CompactionUnlock, partVars, flushVars, readVars
  <2> QED BY <1>5, <2>1, <2>2, <2>3, <2>4 DEF Compact
<1>6. ASSUME DeleteObsoleteFiles \/ \E f \in Fn : DeleteFile(f) PROVE MemInv'
  BY <1>6, QuietStep DEF DeleteObsoleteFiles, DeleteFile, partVars, flushVars, readVars, instVars
<1>7. ASSUME NEW r \in Reader, Get(r) PROVE MemInv'
  BY <1>7, OtherGetSteps, RefMemTableCounts, GetFromMemTableCounts
<1>8. ASSUME UNCHANGED vars PROVE MemInv'
  BY <1>8, QuietStep DEF vars, partVars, flushVars, readVars, instVars
<1> QED BY <1>1, <1>2, <1>3, <1>4, <1>5, <1>6, <1>7, <1>8, NewMemTableCounts DEF Next

\* At first there is no memtable.
LEMMA MemInvInit == ASSUME Init PROVE MemInv
<1>1. /\ nextMid = 1 /\ inMem = {} /\ flushed = {} /\ mrefs = [m \in Mid |-> 0]
      /\ fmem = [f \in Flusher |-> {}] /\ rpc = [r \in Reader |-> "idle"]
  BY DEF Init
<1>2. \A m : MemReaders(m) = {} BY <1>1 DEF MemReaders
<1>3. \A m : Cardinality(MemReaders(m)) = 0 BY <1>2, FS_EmptySet
<1>4. \A m \in Mid : ~(m < nextMid) BY <1>1, ConstantsOK DEF Mid
<1>5. MemCounts BY <1>1, <1>3, <1>4 DEF MemCounts
<1> QED BY <1>1, <1>5 DEF MemInv, FlushOwed

\* No Get reads a freed memtable and no flush releases one twice: the assertions on
\* memtable_ in AtomicMemTable::Unref and SetFlushed never fail.
THEOREM MemTablesStayAlive == Spec => []MemTableAlive
<1>1. Init => MemInv BY MemInvInit
<1>2. IInv /\ MemInv /\ [Next]_vars => MemInv' BY MemInvStep
<1>3. ASSUME IInv, MemInv PROVE MemTableAlive
  <2>1. \A r \in Reader : rpc[r] = "memget" => rmid[r] \in inMem
    BY <1>3, MemReferenced DEF MemInv
  <2>2. ASSUME mutex \in Flusher, NEW m \in pend PROVE m \in inMem \ flushed
    <3>1. m \in fmem[mutex] /\ m \in Mid BY <1>3, <2>2 DEF IInv, Control, TypeOK, TypeThreads
    <3>2. m < nextMid /\ m \notin flushed BY <1>3, <2>2, <3>1 DEF MemInv, FlushOwed
    <3> QED BY <1>3, <3>1, <3>2, MemReferenced DEF MemInv
  <2> QED BY <2>1, <2>2 DEF MemTableAlive
<1> QED BY <1>1, <1>2, <1>3, Invariance, PTL DEF Spec

=============================================================================
