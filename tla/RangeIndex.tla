----------------------------- MODULE RangeIndex -----------------------------
(***************************************************************************)
(* The range index (db/range_index.cpp) under concurrent scans: a list of  *)
(* versions, each naming for every range the memtables and L0 tables that  *)
(* hold its keys and the LSM version that goes with them.  Writers that    *)
(* open a memtable, flushes, merges of memtables and compactions append    *)
(* versions; scans (DBImpl::NewInternalIterator) and gets                  *)
(* (DBImpl::GetWithRangeIndex) reference one, read its tables, and let go  *)
(* of it.  A memtable stands for the writes it received.                   *)
(*                                                                         *)
(* Each action is a section under RangeIndexManager::mutex_ or between two *)
(* of them.  A version that was freed may still be read: the scan reads    *)
(* lsm_version_id_ of its range index after giving up its reference.  The  *)
(* outcome is undefined, and the behaviour ends there (freedRead).         *)
(***************************************************************************)
EXTENDS Naturals, Sequences, FiniteSets, FiniteSetsExt

CONSTANTS
    Rng,       \* the ranges of the index
    Span,      \* Span[p] = the ranges the subrange of memtable partition p meets
    Scans,     \* the threads that scan
    MaxMem,    \* memtables created
    MaxFile,   \* tables created
    MaxIndex   \* range index versions appended

VARIABLES
    mems,      \* memtables: [refs, live (memtable_ # null), own, data, part]
    tables,    \* the writes in a table, as the memtables they were put into
    vers,      \* LSM versions: [refs, compacting, l0, l1]; the last is current
    idx,       \* index versions: [refs, freed, lsm, mem, l0]; the last is current
    compaction,\* the version being compacted, or 0
    install,   \* the edit of the thread that holds DBImpl::mutex_
    merged,    \* memtables a merge has replaced and not yet set flushed
    drop,      \* drop[t] = references a thread has collected and not yet given up
    scan,      \* scan[s] = [st, idx, need]
    freedRead

riVars ==
    <<mems, tables, vers, idx, compaction, install, merged, drop, scan, freedRead>>

Cur == Len(idx)
CurVer == Len(vers)
NoEdit == [kind |-> "none"]
Deleters == {"installer", "merger"}
Empty == [x \in {} |-> 0]

IsDeleted(i) == idx[i].refs = 0
VerDeleted(v) == vers[v].refs = 0

MemIn(i, m) == {r \in Rng : m \in idx[i].mem[r]}

(* RefMemTable for every range of a new version: nothing happens to a      *)
(* memtable that is gone.                                                  *)
RefMems(ms, mem) ==
    [m \in DOMAIN ms |->
       IF ms[m].live
       THEN [ms[m] EXCEPT !.refs = @ + Cardinality({r \in Rng : m \in mem[r]})]
       ELSE ms[m]]

(* AppendNewVersion(RangeIndex): the new version replaces the current one, *)
(* which loses the manager's reference, and references its memtables.      *)
AppendVersion(ms, new) ==
    /\ Cur < MaxIndex
    /\ idx' = Append([idx EXCEPT ![Cur].refs = @ - 1], new)
    /\ mems' = RefMems(ms, new.mem)

(* AppendNewVersion(edit): a copy of the current version, with a memtable  *)
(* added to its ranges, and tables removed and replaced in all of them.    *)
Edited(add, rngs, removedMems, removedL0, toFile, replacedL0, lsm) ==
    [refs |-> 1, freed |-> FALSE, lsm |-> lsm,
     mem |-> [r \in Rng |->
        ((idx[Cur].mem[r] \cup (IF r \in rngs THEN add ELSE {})) \ removedMems)
           \ DOMAIN toFile],
     l0 |-> [r \in Rng |->
        LET had == idx[Cur].l0[r]
        IN (had \ (removedL0 \cup DOMAIN replacedL0))
             \cup {toFile[m] : m \in DOMAIN toFile \cap idx[Cur].mem[r]}
             \cup UNION {replacedL0[f] : f \in DOMAIN replacedL0 \cap had}]]

(* Initialize (DBImpl::Recover): every partition has an active memtable.   *)
NewMem(data, p) == [refs |-> 1, live |-> TRUE, own |-> TRUE, data |-> data, part |-> p]

InitialTables == [r \in Rng |-> {p \in DOMAIN Span : r \in Span[p]}]

RiInit ==
    LET first == InitialTables
    IN /\ mems = RefMems([p \in DOMAIN Span |-> NewMem({p}, p)], first)
       /\ idx = << [refs |-> 1, freed |-> FALSE, lsm |-> 1,
                    mem |-> first, l0 |-> [r \in Rng |-> {}]] >>
       /\ tables = <<>>
       /\ vers = << [refs |-> 1, compacting |-> FALSE, l0 |-> {}, l1 |-> {}] >>
       /\ compaction = 0
       /\ install = NoEdit
       /\ merged = {}
       /\ drop = [t \in Deleters |-> Empty]
       /\ scan = [s \in Scans |-> [st |-> "off", idx |-> 0, need |-> {}]]
       /\ freedRead = FALSE

(* WriteStaticPartition opens a memtable for a partition: SetMemTable,     *)
(* then an edit without an LSM version.                                    *)
AddMemTable(p) ==
    LET m == Len(mems) + 1
    IN /\ Len(mems) < MaxMem
       /\ AppendVersion(Append(mems, NewMem({m}, p)),
                        Edited({m}, Span[p], {}, {}, Empty, Empty, idx[Cur].lsm))
       /\ UNCHANGED <<tables, vers, compaction, install, merged, drop, scan, freedRead>>

(* ReorganizeSubranges opens memtables without telling the range index;    *)
(* what is put into them is no scan's to find until they are flushed past  *)
(* L0 or merged, so they count as empty here.                              *)
ReorgMemTable(p) ==
    /\ Len(mems) < MaxMem
    /\ mems' = Append(mems, NewMem({}, p))
    /\ UNCHANGED <<tables, vers, idx, compaction, install, merged, drop, scan, freedRead>>

(* CompactMultipleMemTablesStaticPartitionToMemTable: immutable memtables  *)
(* of a partition become one that stays in memory.  They are set flushed   *)
(* once the range index no longer names them.                              *)
MergeMemTables(S, p) ==
    LET m == Len(mems) + 1
    IN /\ merged = {} /\ Len(mems) < MaxMem
       /\ AppendVersion(Append(mems, NewMem(UNION {mems[x].data : x \in S}, p)),
                        Edited({m}, Span[p], S, {}, Empty, Empty, idx[Cur].lsm))
       /\ merged' = S
       /\ UNCHANGED <<tables, vers, compaction, install, drop, scan, freedRead>>

(* SetFlushed gives up the memtable's own reference.                       *)
SetFlushed(S) ==
    [m \in DOMAIN mems |->
       IF m \in S THEN [mems[m] EXCEPT !.own = FALSE, !.refs = @ - 1,
                                       !.live = mems[m].refs > 1]
       ELSE mems[m]]

MergedSetFlushed ==
    /\ merged # {}
    /\ mems' = SetFlushed(merged)
    /\ merged' = {}
    /\ UNCHANGED <<tables, vers, idx, compaction, install, drop, scan, freedRead>>

(***************************************************************************)
(* A thread that installs an LSM version holds DBImpl::mutex_ from the     *)
(* first step to the last: LogAndApply, then the edit of the range index,  *)
(* then the collection of its old versions.                                *)
(***************************************************************************)
Unref(v) == [vers EXCEPT ![v].refs = @ - 1]
LogAndApply(l0, l1) ==
    Append(Unref(CurVer), [refs |-> 1, compacting |-> FALSE, l0 |-> l0, l1 |-> l1])

(* PerformCompaction: memtables flushed to a table.                        *)
InstallFlush(S) ==
    LET f == Len(tables) + 1
    IN /\ install = NoEdit /\ Len(tables) < MaxFile
       /\ tables' = Append(tables, UNION {mems[m].data : m \in S})
       /\ mems' = SetFlushed(S)
       /\ vers' = LogAndApply(vers[CurVer].l0 \cup {f}, vers[CurVer].l1)
       /\ install' = [kind |-> "append", removed |-> {},
                      toFile |-> [m \in S |-> f], replaced |-> Empty]
       /\ UNCHANGED <<idx, compaction, merged, drop, scan, freedRead>>

(* CoordinateMajorCompaction references the version it compacts.           *)
StartCompaction ==
    /\ install = NoEdit /\ compaction = 0 /\ vers[CurVer].l0 # {}
    /\ Len(tables) < MaxFile
    /\ compaction' = CurVer
    /\ vers' = [vers EXCEPT ![CurVer].refs = @ + 1]
    /\ UNCHANGED <<mems, tables, idx, install, merged, drop, scan, freedRead>>

(* CleanupLSMCompaction: L0 tables compacted to L1, or within L0; no one   *)
(* takes a new reference on the compacted version after SetCompaction.     *)
InstallCompaction(S, target) ==
    LET f == Len(tables) + 1
        v == vers[CurVer]
    IN /\ install = NoEdit /\ Len(tables) < MaxFile
       /\ tables' = Append(tables, UNION {tables[x] : x \in S})
       /\ vers' = [(IF target = 1 THEN LogAndApply(v.l0 \ S, v.l1 \cup {f})
                    ELSE LogAndApply((v.l0 \ S) \cup {f}, v.l1))
                   EXCEPT ![compaction].compacting = TRUE]
       /\ install' = [kind |-> "append", toFile |-> Empty,
                      removed |-> IF target = 1 THEN S ELSE {},
                      replaced |-> IF target = 1 THEN Empty
                                   ELSE [x \in S |-> {f}]]
       /\ UNCHANGED <<mems, idx, compaction, merged, drop, scan, freedRead>>

InstallAppend ==
    /\ install.kind = "append"
    /\ AppendVersion(mems, Edited({}, {}, {}, install.removed, install.toFile,
                                  install.replaced, CurVer))
    /\ install' = [kind |-> "collect"]
    /\ UNCHANGED <<tables, vers, compaction, merged, drop, scan, freedRead>>

(* The coordinator gives the compacted version up.                         *)
EndCompaction ==
    /\ compaction # 0 /\ vers[compaction].compacting /\ install = NoEdit
    /\ vers' = Unref(compaction)
    /\ compaction' = 0
    /\ UNCHANGED <<mems, tables, idx, install, merged, drop, scan, freedRead>>

(* DeleteObsoleteVersions: the versions that were given up leave the list  *)
(* and are freed under the mutex; their memtables are unreferenced after.  *)
(* The thread that installs calls it with DBImpl::mutex_ held, flush and   *)
(* merge threads also without.                                             *)
Obsolete == {i \in 1 .. Cur : IsDeleted(i) /\ ~idx[i].freed}

DeleteObsoleteVersions(t) ==
    /\ drop[t] = Empty
    /\ IF t = "installer" THEN install.kind = "collect" ELSE Obsolete # {}
    /\ idx' = [i \in 1 .. Cur |->
                 IF i \in Obsolete THEN [idx[i] EXCEPT !.freed = TRUE] ELSE idx[i]]
    /\ drop' = [drop EXCEPT ![t] =
         [m \in {x \in DOMAIN mems : \E i \in Obsolete : MemIn(i, x) # {}} |->
            Cardinality({ir \in Obsolete \X Rng : m \in idx[ir[1]].mem[ir[2]]})]]
    /\ install' = IF t = "installer" THEN [kind |-> "unref"] ELSE install
    /\ UNCHANGED <<mems, tables, vers, compaction, merged, scan, freedRead>>

UnrefMemTables(t) ==
    /\ IF t = "installer" THEN install.kind = "unref" ELSE drop[t] # Empty
    /\ mems' = [m \in DOMAIN mems |->
                  IF m \in DOMAIN drop[t]
                  THEN [mems[m] EXCEPT !.refs = @ - drop[t][m],
                                       !.live = mems[m].refs # drop[t][m]]
                  ELSE mems[m]]
    /\ drop' = [drop EXCEPT ![t] = Empty]
    /\ install' = IF t = "installer" THEN NoEdit ELSE install
    /\ UNCHANGED <<tables, vers, idx, compaction, merged, scan, freedRead>>

(***************************************************************************)
(* Scans.                                                                  *)
(***************************************************************************)
(* As Ref, without the reference on the LSM version.                       *)
RefIndexOnly(s) ==
    /\ scan[s].st = "off"
    /\ ~VerDeleted(idx[Cur].lsm) /\ ~vers[idx[Cur].lsm].compacting
    /\ idx' = [idx EXCEPT ![Cur].refs = @ + 1]
    /\ scan' = [scan EXCEPT ![s] = [st |-> "on", idx |-> Cur,
                  need |-> UNION {mems[m].data : m \in DOMAIN mems}]]
    /\ UNCHANGED <<mems, tables, vers, compaction, install, merged, drop, freedRead>>

(* RangeIndexManager::current: both references, or another attempt.  need  *)
(* records the writes a scan from here on must find.                       *)
Ref(s) ==
    LET v == idx[Cur].lsm
    IN /\ scan[s].st = "off"
       /\ ~VerDeleted(v) /\ ~vers[v].compacting
       /\ idx' = [idx EXCEPT ![Cur].refs = @ + 1]
       /\ vers' = [vers EXCEPT ![v].refs = @ + 1]
       /\ scan' = [scan EXCEPT ![s] = [st |-> "on", idx |-> Cur,
                     need |-> UNION {mems[m].data : m \in DOMAIN mems}]]
       /\ UNCHANGED <<mems, tables, compaction, install, merged, drop, freedRead>>

(* CleanupIteratorState and the end of GetWithRangeIndex: first the range  *)
(* index, then the LSM version it names.                                   *)
UnRefIndex(s) ==
    /\ scan[s].st = "on"
    /\ idx' = [idx EXCEPT ![scan[s].idx].refs = @ - 1]
    /\ scan' = [scan EXCEPT ![s].st = "half", ![s].need = {}]
    /\ UNCHANGED <<mems, tables, vers, compaction, install, merged, drop, freedRead>>

UnRefVersion(s) ==
    LET i == idx[scan[s].idx]
    IN /\ scan[s].st = "half"
       /\ freedRead' = i.freed
       /\ vers' = IF i.freed THEN vers ELSE Unref(i.lsm)
       /\ scan' = [scan EXCEPT ![s] = [st |-> "off", idx |-> 0, need |-> {}]]
       /\ UNCHANGED <<mems, tables, idx, compaction, install, merged, drop>>

(* The memtables a flush or a merge may still take.                        *)
Immutable == {m \in DOMAIN mems : mems[m].own /\ m \notin merged}

RiStep ==
    \/ \E p \in DOMAIN Span : AddMemTable(p) \/ ReorgMemTable(p)
    \/ \E S \in kSubset(2, Immutable), p \in DOMAIN Span :
         (\A m \in S : mems[m].part = p) /\ MergeMemTables(S, p)
    \/ MergedSetFlushed
    \/ \E S \in kSubset(1, Immutable) \cup kSubset(2, Immutable) : InstallFlush(S)
    \/ StartCompaction
    \/ /\ compaction # 0
       /\ \E S \in SUBSET vers[compaction].l0 \ {{}}, target \in {0, 1} :
            S \subseteq vers[CurVer].l0 /\ InstallCompaction(S, target)
    \/ InstallAppend
    \/ EndCompaction
    \/ \E t \in Deleters : DeleteObsoleteVersions(t) \/ UnrefMemTables(t)
    \/ \E s \in Scans : Ref(s) \/ UnRefIndex(s) \/ UnRefVersion(s)

RiEnd == UNCHANGED riVars

RiNext == (~freedRead /\ RiStep) \/ RiEnd

(***************************************************************************)
(* The scan's view.                                                        *)
(***************************************************************************)
(* A thread holds range index i and reads its tables.                      *)
Held(s) == scan[s].st = "on"
View(s) == idx[scan[s].idx]

(* What a scan reads for range r: the memtables and the L0 tables the      *)
(* range index names, and all of L1.                                       *)
Found(i, r) ==
    UNION ({mems[m].data : m \in i.mem[r]}
             \cup {tables[f] : f \in i.l0[r] \cup vers[i.lsm].l1})

(* While a scan holds its version of the range index, nothing it names has *)
(* gone: the version is not freed, every memtable it lists is in memory,   *)
(* its LSM version is not deleted and has every L0 table it lists; and it  *)
(* is complete: every write that the index covered before the scan began   *)
(* is found, in each range it could be in, in exactly the tables the scan  *)
(* reads, however memtables were flushed, merged and compacted meanwhile   *)
(* ("so that a scan sees a consistent view", AppendNewVersion).            *)
ViewComplete(s) ==
    LET i == View(s)
    IN /\ ~i.freed /\ ~VerDeleted(i.lsm)
       /\ \A r \in Rng :
            /\ \A m \in i.mem[r] : mems[m].live
            /\ i.l0[r] \subseteq vers[i.lsm].l0
            /\ {m \in scan[s].need : r \in Span[mems[m].part]} \subseteq Found(i, r)

(* The references on a memtable are its own, and one for each range of     *)
(* each version of the index, until that version's references are dropped. *)
MemRefsExact ==
    \A m \in DOMAIN mems :
      mems[m].refs =
        (IF mems[m].own THEN 1 ELSE 0)
        + Cardinality({ir \in (1 .. Cur) \X Rng :
                         ~idx[ir[1]].freed /\ m \in idx[ir[1]].mem[ir[2]]})
        + MapThenSumSet(LAMBDA t : IF m \in DOMAIN drop[t] THEN drop[t][m] ELSE 0,
                        Deleters)

(* Scans see a consistent view of a changing tree: see ViewComplete; and   *)
(* the memtable references that protect it are neither lost nor leaked.    *)
ScanViewConsistent ==
    ~freedRead => MemRefsExact /\ \A s \in Scans : Held(s) => ViewComplete(s)
=============================================================================
