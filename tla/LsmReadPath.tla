---------------------------- MODULE LsmReadPath ----------------------------
(***************************************************************************)
(* One range of the LSM-tree component (LTC): point reads through the      *)
(* lookup index, racing with writes, memtable flushes, the coordinator of  *)
(* major compactions and the collection of obsolete SSTables.              *)
(*                                                                         *)
(* A Get takes neither DBImpl::mutex_ nor a partition mutex.  It meets the *)
(* installers of new versions through four shared pieces of state only:    *)
(* the lookup index (key -> memtable id), AtomicMemTable (the memtable or  *)
(* the L0 files that replaced it, stamped with the version that made the   *)
(* replacement), AtomicVersion (a reference-counted version) and           *)
(* current_version_id_.  An installer holds mutex_ while it changes them   *)
(* one at a time, so each of these changes is an action of its own here.   *)
(*                                                                         *)
(* Data are abstracted to pairs <<key, sequence number>>; a value is       *)
(* identified by its sequence number.                                      *)
(***************************************************************************)
EXTENDS Integers, FiniteSets

CONSTANTS
  Key,          \* user keys, ordered as numbers
  Reader,       \* threads in DBImpl::GetWithLookupIndex
  Writer,       \* threads in DBImpl::Put
  Partition,    \* memtable partitions
  Flusher,      \* background threads that flush memtables
  Coordinator,  \* the compaction coordinator (a value that is no Flusher)
  NoOwner,      \* mutex_ is free
  NumLevels,    \* options_.level
  OrderedFlush, \* NovaConfig::use_ordered_flush
  MaxInputs,    \* options_.max_num_sstables_in_nonoverlapping_set
  MaxSeq, MaxMid, MaxVid, MaxFile  \* bounds of the four id generators

ASSUME ConstantsOK ==
  /\ Key \subseteq Nat
  /\ IsFiniteSet(Reader)
  /\ Coordinator \notin Flusher
  /\ NoOwner \notin Flusher \cup {Coordinator}
  /\ NumLevels \in Nat /\ NumLevels >= 2
  /\ OrderedFlush \in BOOLEAN
  /\ MaxInputs \in Nat /\ MaxInputs >= 2
  /\ MaxSeq \in Nat /\ MaxMid \in Nat /\ MaxVid \in Nat /\ MaxFile \in Nat
  /\ MaxVid >= 1

Level == 0 .. NumLevels - 1
Mid   == 1 .. MaxMid          \* memtable ids; 0 means none
Vid   == 1 .. MaxVid          \* version ids; 0 is the list head
Fn    == 1 .. MaxFile         \* SSTable numbers
Entry == Key \X (1 .. MaxSeq) \* <<user key, sequence number>>

VARIABLES
  (* writers *)
  lastSeq,      \* last_sequence_: the next sequence number to hand out
  wpc, wkey, wseq, wmid,
  nextMid,      \* memtable_id_seq_
  active,       \* active_memtable of each partition, 0 for nullptr
  (* AtomicMemTable, by memtable id *)
  entries,      \* what the MemTable holds
  mrefs,        \* MemTable::refs_
  inMem,        \* ids with memtable_ # nullptr
  flushed,      \* is_flushed_
  lastVid,      \* last_version_id_
  l0,           \* l0_file_numbers_
  lookup,       \* LookupIndex: key -> memtable id
  committed,    \* history: the write that last set lookup[k]
  (* SSTables *)
  nextFile,     \* next_file_number_
  content,      \* the entries of an SSTable
  fmids,        \* FileMetaData::memtable_ids
  disk,         \* SSTables the StoCs hold
  compacted,    \* compacted_tables_
  deleting,     \* handed to DeleteFiles, not yet gone from the StoCs
  (* VersionSet and AtomicVersion *)
  nextVid,      \* version_id_seq_
  vfiles,       \* Version::files_, by version id and level
  vrefs,        \* Version::refs_
  vset,         \* ids with AtomicVersion::version # nullptr
  vdeleted,     \* AtomicVersion::deleted
  vcompacting,  \* AtomicVersion::is_compacting
  linked,       \* versions in the list of dummy_versions_
  current,      \* current_
  currentId,    \* current_version_id_
  (* the holder of mutex_ and its progress through an installation *)
  mutex, stage, newVid, pend, skip,
  (* flush threads *)
  fpc, fmem, flushFile, scheduled,
  (* the coordinator *)
  cpc, cvid, ctodo, ccur,
  (* readers *)
  rpc, rkey, rmid, rvid, rl0, rres, rneed

writerVars == <<lastSeq, wpc, wkey, wseq, wmid>>
partVars   == <<nextMid, active>>
memVars    == <<mrefs, inMem, flushed, lastVid, l0>>
fileVars   == <<nextFile, content, fmids>>
gcVars     == <<disk, compacted, deleting>>
versVars   == <<nextVid, vfiles, vrefs, vset, vdeleted, vcompacting, linked, current, currentId>>
instVars   == <<mutex, stage, newVid, pend, skip>>
flushVars  == <<fpc, fmem, flushFile, scheduled>>
coordVars  == <<cpc, cvid, ctodo, ccur>>
readVars   == <<rpc, rkey, rmid, rvid, rl0, rres, rneed>>
vars == <<writerVars, partVars, entries, memVars, lookup, committed, fileVars, gcVars,
          versVars, instVars, flushVars, coordVars, readVars>>

-----------------------------------------------------------------------------
(* Contents of SSTables and versions *)

KeysOf(F) == {e[1] : e \in UNION {content[f] : f \in F}}

\* [smallest, largest] of f meets [smallest, largest] of the files F together
Overlaps(f, F) ==
  /\ \E a \in KeysOf({f}), b \in KeysOf(F) : a <= b
  /\ \E a \in KeysOf({f}), b \in KeysOf(F) : b <= a

\* GetOverlappingInputs with contained = true
Inside(f, F) ==
  /\ \E b \in KeysOf(F) : \A a \in KeysOf({f}) : b < a
  /\ \E b \in KeysOf(F) : \A a \in KeysOf({f}) : a < b

\* mutant: a merge keeps the oldest entry of every key
Oldest(E) == {e \in E : \A d \in E : d[1] = e[1] => d[2] >= e[2]}

\* what a merge keeps: the newest entry of every key
Newest(E) == {e \in E : \A d \in E : d[1] = e[1] => d[2] <= e[2]}

FilesOf(v) == UNION {vfiles[v][l] : l \in Level}

Holds(f, k) == \E e \in content[f] : e[1] = k

\* TableCache::Get finds the write s for k in f
Finds(f, k, s) == <<k, s>> \in Newest(content[f])

Init ==
  /\ lastSeq = 1
  /\ wpc = [w \in Writer |-> "idle"]
  /\ wkey = [w \in Writer |-> 0] /\ wseq = [w \in Writer |-> 0] /\ wmid = [w \in Writer |-> 0]
  /\ nextMid = 1 /\ active = [p \in Partition |-> 0]
  /\ entries = [m \in Mid |-> {}] /\ mrefs = [m \in Mid |-> 0]
  /\ inMem = {} /\ flushed = {}
  /\ lastVid = [m \in 0 .. MaxMid |-> 0] /\ l0 = [m \in 0 .. MaxMid |-> {}]
  /\ lookup = [k \in Key |-> 0] /\ committed = [k \in Key |-> 0]
  /\ nextFile = 1 /\ content = [f \in Fn |-> {}] /\ fmids = [f \in Fn |-> {}]
  /\ disk = {} /\ compacted = {} /\ deleting = {}
  /\ nextVid = 2
  /\ vfiles = [v \in Vid |-> [l \in Level |-> {}]]
  /\ vrefs = [v \in Vid |-> IF v = 1 THEN 1 ELSE 0]
  /\ vset = {1} /\ vdeleted = {} /\ vcompacting = {} /\ linked = {1}
  /\ current = 1 /\ currentId = 1
  /\ mutex = NoOwner /\ stage = "none" /\ newVid = 0 /\ pend = {} /\ skip = 0
  /\ fpc = [f \in Flusher |-> "idle"] /\ fmem = [f \in Flusher |-> {}]
  /\ flushFile = [m \in Mid |-> 0] /\ scheduled = {}
  /\ cpc = "idle" /\ cvid = 0 /\ ctodo = {} /\ ccur = {}
  /\ rpc = [r \in Reader |-> "idle"] /\ rkey = [r \in Reader |-> 0]
  /\ rmid = [r \in Reader |-> 0] /\ rvid = [r \in Reader |-> 0]
  /\ rl0 = [r \in Reader |-> {}] /\ rres = [r \in Reader |-> 0] /\ rneed = [r \in Reader |-> 0]

-----------------------------------------------------------------------------
(* Writes, as the read path sees them (the slots of a partition and the    *)
(* scheduling of flushes are left to the write path).                      *)

\* WriteStaticPartition / WriteSubrange: the sequence number is taken first
TakeSequence(w, k) ==
  /\ wpc[w] = "idle" /\ lastSeq <= MaxSeq
  /\ wpc' = [wpc EXCEPT ![w] = "seq"]
  /\ wkey' = [wkey EXCEPT ![w] = k]
  /\ wseq' = [wseq EXCEPT ![w] = lastSeq]
  /\ lastSeq' = lastSeq + 1
  /\ UNCHANGED <<wmid, partVars, entries, memVars, lookup, committed, fileVars, gcVars,
                 versVars, instVars, flushVars, coordVars, readVars>>

\* a write is pending on m: number_of_pending_writes_ > 0 (it is lowered before the Insert, with
\* the partition mutex held until after it, so nobody who looks at it sees the difference)
Pending(m) == \E w \in Writer : wpc[w] \in {"pend", "added"} /\ wmid[w] = m

\* the partition is locked, the active memtable has room
BeginWrite(w, p) ==
  /\ wpc[w] = "seq" /\ active[p] # 0
  /\ wpc' = [wpc EXCEPT ![w] = "pend"]
  /\ wmid' = [wmid EXCEPT ![w] = active[p]]
  /\ UNCHANGED <<lastSeq, wkey, wseq, partVars, entries, memVars, lookup, committed, fileVars,
                 gcVars, versVars, instVars, flushVars, coordVars, readVars>>

\* table->Add, under the partition mutex
AddEntry(w) ==
  /\ wpc[w] = "pend"
  /\ \A x \in Writer : ~(wpc[x] = "added" /\ wmid[x] = wmid[w])
  /\ entries' = [entries EXCEPT ![wmid[w]] = @ \cup {<<wkey[w], wseq[w]>>}]
  /\ wpc' = [wpc EXCEPT ![w] = "added"]
  /\ UNCHANGED <<lastSeq, wkey, wseq, wmid, partVars, memVars, lookup, committed, fileVars, gcVars,
                 versVars, instVars, flushVars, coordVars, readVars>>

\* lookup_index_->Insert, under the partition mutex still
InsertIndex(w) ==
  /\ wpc[w] = "added"
  /\ lookup' = [lookup EXCEPT ![wkey[w]] = wmid[w]]
  /\ committed' = [committed EXCEPT ![wkey[w]] = wseq[w]]
  /\ wpc' = [wpc EXCEPT ![w] = "idle"] /\ wkey' = [wkey EXCEPT ![w] = 0]
  /\ wseq' = [wseq EXCEPT ![w] = 0] /\ wmid' = [wmid EXCEPT ![w] = 0]
  /\ UNCHANGED <<lastSeq, partVars, entries, memVars, fileVars, gcVars,
                 versVars, instVars, flushVars, coordVars, readVars>>

\* the active memtable is full and no write is pending on it: it becomes immutable
\* (FlushMemTables and a reorganisation do not wait for pending writes; see WritePath)
Rotate(p) ==
  /\ active[p] # 0 /\ entries[active[p]] # {} /\ ~Pending(active[p])
  /\ active' = [active EXCEPT ![p] = 0]
  /\ UNCHANGED <<writerVars, nextMid, entries, memVars, lookup, committed, fileVars, gcVars,
                 versVars, instVars, flushVars, coordVars, readVars>>

\* a new active memtable, AtomicMemTable::SetMemTable
NewMemTable(p) ==
  /\ active[p] = 0 /\ nextMid <= MaxMid
  /\ active' = [active EXCEPT ![p] = nextMid]
  /\ nextMid' = nextMid + 1
  /\ inMem' = inMem \cup {nextMid}
  /\ mrefs' = [mrefs EXCEPT ![nextMid] = 1]
  /\ l0' = [l0 EXCEPT ![nextMid] = {}]
  /\ flushed' = flushed \ {nextMid}
  /\ UNCHANGED <<lastVid, writerVars, entries, lookup, committed, fileVars, gcVars,
                 versVars, instVars, flushVars, coordVars, readVars>>

-----------------------------------------------------------------------------
(* Flush: PerformCompaction on memtable tasks *)

\* a memtable that may be scheduled; IsSafeToFlush would only hold some of them back
Immutable(m) == m < nextMid /\ m \notin flushed /\ \A p \in Partition : active[p] # m

\* mutant: the number is incremented after it was handed out, not before
NewFileNumberBehind == nextFile - 1

\* VersionSet::NewFileNumber
NewFileNumber == nextFile

\* CompactMemTableStaticPartition: write the SSTable of one more memtable task
BuildTable(f, m) ==
  /\ fpc[f] = "idle" /\ Immutable(m) /\ m \notin scheduled /\ nextFile <= MaxFile
  /\ scheduled' = scheduled \cup {m}
  /\ fmem' = [fmem EXCEPT ![f] = @ \cup {m}]
  /\ flushFile' = [flushFile EXCEPT ![m] = NewFileNumber]
  /\ content' = [content EXCEPT ![NewFileNumber] = entries[m]]
  /\ fmids' = [fmids EXCEPT ![NewFileNumber] = {m}]
  /\ disk' = disk \cup {NewFileNumber}
  /\ nextFile' = nextFile + 1
  /\ UNCHANGED <<writerVars, partVars, entries, memVars, lookup, committed, compacted, deleting,
                 versVars, instVars, fpc, coordVars, readVars>>

\* mutex_.Lock() and the id of the version to install
Lock(owner, mids) ==
  /\ mutex = NoOwner /\ nextVid <= MaxVid
  /\ mutex' = owner /\ stage' = "edit"
  /\ newVid' = nextVid /\ nextVid' = nextVid + 1
  /\ pend' = mids /\ skip' = 0
  /\ UNCHANGED <<vfiles, vrefs, vset, vdeleted, vcompacting, linked, current, currentId>>

FlushLock(f) ==
  /\ fpc[f] = "idle" /\ fmem[f] # {}
  /\ Lock(f, fmem[f])
  /\ fpc' = [fpc EXCEPT ![f] = "install"]
  /\ UNCHANGED <<writerVars, partVars, entries, memVars, lookup, committed, fileVars, gcVars,
                 fmem, flushFile, scheduled, coordVars, readVars>>

\* mutant of UnrefMem: deleted one reference too early
UnrefMemEarly(m) ==
  /\ mrefs' = [mrefs EXCEPT ![m] = @ - 1]
  /\ inMem' = IF mrefs[m] <= 2 THEN inMem \ {m} ELSE inMem
  /\ entries' = IF mrefs[m] <= 2 THEN [entries EXCEPT ![m] = {}] ELSE entries

\* AtomicMemTable::Unref: the last reference deletes the memtable
UnrefMem(m) ==
  /\ mrefs' = [mrefs EXCEPT ![m] = @ - 1]
  /\ inMem' = IF mrefs[m] = 1 THEN inMem \ {m} ELSE inMem
  /\ entries' = IF mrefs[m] = 1 THEN [entries EXCEPT ![m] = {}] ELSE entries

Max2(a, b) == IF a >= b THEN a ELSE b

\* mutant: the table is not recorded
FlushedFnsNone(m) == {}

\* imm->meta().number, which CompactMemTableStaticPartition left in the memtable
FlushedFns(m) == {flushFile[m]}

\* AtomicMemTable::SetFlushed
SetFlushed(m) ==
  /\ mutex \in Flusher /\ stage = "edit" /\ m \in pend
  /\ lastVid' = [lastVid EXCEPT ![m] = Max2(@, newVid)]
  /\ l0' = [l0 EXCEPT ![m] = @ \cup FlushedFns(m)]
  /\ flushed' = flushed \cup {m}
  /\ UnrefMem(m)
  /\ pend' = pend \ {m}
  /\ UNCHANGED <<writerVars, partVars, lookup, committed, fileVars, gcVars, versVars,
                 mutex, stage, newVid, skip, flushVars, coordVars, readVars>>

-----------------------------------------------------------------------------
(* Installing a version under mutex_, by a flush thread or the coordinator *)

\* VersionEdit: what the installation adds to and deletes from a level.  ccur holds
\* the compactions the coordinator is installing (a moved file is its own output).
Added(l) ==
  IF mutex \in Flusher
    THEN IF l = 0 THEN {flushFile[m] : m \in fmem[mutex]} ELSE {}
    ELSE UNION {c.out : c \in {d \in ccur : d.tgt = l}}
\* mutant of Deleted: AddInputDeletions forgets the inputs of the lower level
DeletedUpperOnly(l) ==
  IF mutex \in Flusher THEN {} ELSE UNION {c.in0 : c \in {d \in ccur : d.lev = l}}

Deleted(l) ==
  IF mutex \in Flusher THEN {}
    ELSE (UNION {c.in0 : c \in {d \in ccur : d.lev = l}})
         \cup (UNION {c.in1 : c \in {d \in ccur : d.lev + 1 = l}})

Inputs(c) == c.in0 \cup c.in1

\* mutant: deleted one reference too early
UnrefVersionEarly(v) ==
  /\ vrefs' = [vrefs EXCEPT ![v] = @ - 1]
  /\ vdeleted' = IF vrefs[v] <= 2 THEN vdeleted \cup {v} ELSE vdeleted

\* AtomicVersion::Unref
UnrefVersion(v) ==
  /\ vrefs' = [vrefs EXCEPT ![v] = @ - 1]
  /\ vdeleted' = IF vrefs[v] = 1 THEN vdeleted \cup {v} ELSE vdeleted

\* AddCompactedInputs; LogAndApply: Builder::Apply and SaveTo on current_, then AppendVersion
\* up to SetVersion.  Builder takes a reference on current_ and gives it up at the end
\* of LogAndApply, all with mutex_ held, which is no step.
AppendVersion ==
  /\ mutex # NoOwner /\ stage = "edit" /\ pend = {}
  /\ vfiles' = [vfiles EXCEPT ![newVid] =
                  [l \in Level |-> (vfiles[current][l] \ (Deleted(l) \ Added(l))) \cup Added(l)]]
  /\ UnrefVersion(current)
  /\ current' = newVid
  /\ linked' = linked \cup {newVid}
  /\ compacted' = compacted \cup
       (IF mutex = Coordinator /\ cpc = "install" THEN UNION {Inputs(c) : c \in ccur} ELSE {})
  /\ fmids' = [f \in Fn |-> IF mutex = Coordinator /\ cpc = "move" /\ \E c \in ccur : f \in c.out
                              THEN {} ELSE fmids[f]]
  /\ stage' = "set"
  /\ UNCHANGED <<writerVars, partVars, entries, memVars, lookup, committed, nextFile, content, disk, deleting,
                 nextVid, vset, vcompacting, currentId, mutex, newVid, pend, skip,
                 flushVars, coordVars, readVars>>

\* AtomicVersion::SetVersion
SetVersion ==
  /\ stage = "set"
  /\ vset' = vset \cup {newVid}
  /\ vrefs' = [vrefs EXCEPT ![newVid] = @ + 1]
  /\ stage' = "store"
  /\ UNCHANGED <<writerVars, partVars, entries, memVars, lookup, committed, fileVars, gcVars,
                 nextVid, vfiles, vdeleted, vcompacting, linked, current, currentId,
                 mutex, newVid, pend, skip, flushVars, coordVars, readVars>>

\* current_version_id_.store
StoreCurrentId ==
  /\ stage = "store"
  /\ currentId' = newVid
  /\ stage' = IF mutex = Coordinator THEN "mark" ELSE "collect"
  /\ UNCHANGED <<writerVars, partVars, entries, memVars, lookup, committed, fileVars, gcVars,
                 nextVid, vfiles, vrefs, vset, vdeleted, vcompacting, linked, current,
                 mutex, newVid, pend, skip, flushVars, coordVars, readVars>>

\* mutants: the version is skipped although a Get references it; the new version is marked
SkippedAlways == cvid
MarkedNew == newVid

\* "If refcount == 1, it means only the compaction thread is referencing it"
Skipped == IF vrefs[cvid] = 1 THEN cvid ELSE 0
Marked == cvid

\* AtomicVersion::SetCompaction on the version the coordinator compacts
SetCompaction ==
  /\ stage = "mark"
  /\ vcompacting' = vcompacting \cup {Marked}
  /\ skip' = Skipped
  /\ stage' = "collect"
  /\ UNCHANGED <<writerVars, partVars, entries, memVars, lookup, committed, fileVars, gcVars,
                 nextVid, vfiles, vrefs, vset, vdeleted, linked, current, currentId,
                 mutex, newVid, pend, flushVars, coordVars, readVars>>

\* DeleteObsoleteVersions, then ObtainObsoleteFiles (without a background error, after which
\* nothing is collected any more); the caller hands the result to DeleteFiles once mutex_ is
\* released
Collect(skipped) ==
  LET linkedNow == linked \ vdeleted
      live == UNION {FilesOf(v) : v \in linkedNow \ {skipped}}
  IN  /\ linked' = linkedNow
      /\ compacted' = compacted \cap live
      /\ deleting' = deleting \cup (compacted \ live)
      /\ vfiles' = [v \in Vid |-> IF v \in linkedNow THEN vfiles[v] ELSE [l \in Level |-> {}]]
      /\ UNCHANGED <<disk, nextVid, vrefs, vset, vdeleted, vcompacting, current, currentId>>

Unlock ==
  /\ mutex' = NoOwner /\ stage' = "none" /\ newVid' = 0 /\ pend' = {} /\ skip' = 0

\* the end of an installation by a flush thread: it collects if there is anything to collect
FlushUnlock(f) ==
  /\ mutex = f /\ stage = "collect"
  /\ IF compacted # {} THEN Collect(0) ELSE UNCHANGED <<gcVars, versVars>>
  /\ Unlock
  /\ fpc' = [fpc EXCEPT ![f] = "idle"] /\ fmem' = [fmem EXCEPT ![f] = {}]
  /\ flushFile' = [m \in Mid |-> IF m \in fmem[f] THEN 0 ELSE flushFile[m]]
  /\ UNCHANGED <<writerVars, partVars, entries, memVars, lookup, committed, fileVars,
                 scheduled, coordVars, readVars>>

\* the end of CleanupLSMCompaction
CompactionUnlock ==
  /\ mutex = Coordinator /\ stage = "collect"
  /\ Collect(skip)
  /\ Unlock
  /\ ctodo' = ctodo \ ccur /\ ccur' = {}
  /\ cpc' = "run"
  /\ UNCHANGED <<cvid, writerVars, partVars, entries, memVars, lookup, committed, fileVars,
                 flushVars, readVars>>

\* the delete_obsolete_files task, at any time; FileDeletion has who schedules it and when
DeleteObsoleteFiles ==
  /\ mutex = NoOwner /\ compacted # {}
  /\ Collect(0)
  /\ UNCHANGED <<writerVars, partVars, entries, memVars, lookup, committed, fileVars, instVars,
                 flushVars, coordVars, readVars>>

\* DeleteFiles: the StoCs drop an SSTable, some time after it was requested
DeleteFile(f) ==
  /\ f \in deleting
  /\ disk' = disk \ {f} /\ deleting' = deleting \ {f}
  /\ content' = [content EXCEPT ![f] = {}]
  /\ UNCHANGED <<writerVars, partVars, entries, memVars, lookup, committed, nextFile, fmids, compacted,
                 versVars, instVars, flushVars, coordVars, readVars>>

-----------------------------------------------------------------------------
(* Major compaction: CoordinateMajorCompaction *)

\* the coordinator references the current version
StartCompaction ==
  /\ cpc = "idle" /\ mutex = NoOwner
  /\ \E l \in 0 .. NumLevels - 2 : vfiles[current][l] # {}
  /\ vrefs' = [vrefs EXCEPT ![current] = @ + 1]
  /\ cvid' = current /\ cpc' = "pick"
  /\ UNCHANGED <<ctodo, ccur, writerVars, partVars, entries, memVars, lookup, committed, fileVars,
                 gcVars, nextVid, vfiles, vset, vdeleted, vcompacting, linked, current, currentId,
                 instVars, flushVars, readVars>>

\* files of the upper level u that overlap files of the lower level set s, s and all
Closed(s, l, u) == \A g \in l : Overlaps(g, s \cup {h \in u : Overlaps(h, s)}) => g \in s

\* ComputeOverlappingFilesForRange from some file: a connected set of overlapping files
Component(l, u) ==
  {s \in (SUBSET l) \ {{}} : Closed(s, l, u) /\ \A t \in (SUBSET s) \ {{}, s} : ~Closed(t, l, u)}

Compaction(lev, tgt, in0, in1) ==
  [lev |-> lev, tgt |-> tgt, in0 |-> in0, in1 |-> in1, out |-> {}]

\* One round of the loop of ComputeNonOverlappingSet on the files l of level lev and u of
\* the next: the whole set of overlapping files, or, when that is too large, one file with
\* what it overlaps below (and files of its own level inside that range), or, when that
\* is too large as well, a merge of overlapping files within the level.  The expansion of
\* the range to tables that share a boundary key (ExpandRangeWithBoundaries) finds none while
\* the tables of the next level are disjoint, which VersionWellFormed shows.
Pick(lev, l, u) ==
  LET Below(s) == {h \in u : Overlaps(h, s)}
      Whole == {s \in Component(l, u) : Cardinality(s) + Cardinality(Below(s)) <= MaxInputs}
      Seeds == UNION (Component(l, u) \ Whole)
      Narrow == {f \in Seeds : 1 + Cardinality(Below({f})) <= MaxInputs}
  IN  {Compaction(lev, lev + 1, s, Below(s)) : s \in Whole}
      \cup (UNION {LET room == MaxInputs - 1 - Cardinality(Below({f}))
                 IN  {Compaction(lev, lev + 1, s \cup {f}, Below({f})) :
                        s \in {t \in SUBSET {h \in l \ {f} : Inside(h, Below({f}))} :
                                /\ Cardinality(t) <= room
                                /\ \A h \in l \ (t \cup {f}) : Inside(h, Below({f})) => Cardinality(t) = room}}
                 : f \in Narrow})
      \cup {Compaction(lev, lev, s, {}) :
              s \in {t \in SUBSET l : /\ \E f \in t \ Narrow : f \in Seeds /\ \A g \in t : Overlaps(g, {f})
                                      /\ Cardinality(t) <= MaxInputs}}

\* mutant of Rest: only the inputs themselves are removed
RestInputsOnly(c, fs) == fs \ Inputs(c)

\* what later rounds may pick from the files fs
Rest(c, fs) ==
  {f \in fs \ Inputs(c) : c.lev = c.tgt \/ ~Overlaps(f, Inputs(c))}

Trivial(c) == Cardinality(c.in0) = 1 /\ c.in1 = {} /\ c.lev # c.tgt

\* ComputeCompactions on the referenced version: one or two sets; the single-file moves
\* among them are installed at once
ComputeCompactions ==
  /\ cpc = "pick"
  /\ \E lev \in 0 .. NumLevels - 2 :
       LET l == vfiles[cvid][lev]
           u == vfiles[cvid][lev + 1]
       IN  \E c \in Pick(lev, l, u) :
           \E cs \in {{c}} \cup {{c, d} : d \in Pick(lev, Rest(c, l), Rest(c, u))} :
             LET moves == {[d EXCEPT !.out = d.in0] : d \in {x \in cs : Trivial(x)}}
             IN  /\ ctodo' = {d \in cs : ~Trivial(d)}
                 /\ ccur' = moves
                 /\ cpc' = IF moves = {} THEN "run" ELSE "move"
  /\ UNCHANGED <<cvid, writerVars, partVars, entries, memVars, lookup, committed, fileVars, gcVars,
                 versVars, instVars, flushVars, readVars>>

\* CompactTables on a background thread: the newest entries of the inputs, cut into
\* output tables at a key
CompactTables(c) ==
  /\ cpc \in {"run", "install"} /\ c \in ctodo \ ccur /\ c.out = {}
  /\ LET merged == Newest(UNION {content[f] : f \in Inputs(c)})
     IN  \E cut \in KeysOf(Inputs(c)) :
           LET low == {e \in merged : e[1] <= cut}
               outs == IF low = merged THEN {nextFile} ELSE {nextFile, nextFile + 1}
           IN  /\ outs \subseteq Fn
               /\ content' = [f \in Fn |-> IF f \notin outs THEN content[f]
                                            ELSE IF f = nextFile THEN low ELSE merged \ low]
               /\ fmids' = [f \in Fn |-> IF f \in outs /\ c.tgt = 0
                                           THEN UNION {fmids[g] : g \in c.in0} ELSE fmids[f]]
               /\ disk' = disk \cup outs
               /\ nextFile' = IF low = merged THEN nextFile + 1 ELSE nextFile + 2
               /\ ctodo' = (ctodo \ {c}) \cup {[c EXCEPT !.out = outs]}
  /\ UNCHANGED <<cpc, cvid, ccur, writerVars, partVars, entries, memVars, lookup, committed,
                 compacted, deleting, versVars, instVars, flushVars, readVars>>

\* ObtainLookupIndexEdits (and the edits of the moves): the memtables whose L0 files change
EditMids(cs) ==
  UNION {UNION {fmids[f] : f \in Inputs(c)} : c \in {d \in cs : d.lev = 0 /\ d.tgt \in {0, 1}}}
RemoveFns(m) == {f \in UNION {Inputs(c) : c \in {d \in ccur : d.lev = 0 /\ d.tgt \in {0, 1}}} : m \in fmids[f]}
\* mutant of AddFns: the outputs of a merge within L0 are not recorded
AddFnsNone(m) == {}

AddFns(m) ==
  UNION {c.out : c \in {d \in ccur : d.lev = 0 /\ d.tgt = 0 /\ \E f \in d.in0 : m \in fmids[f]}}

\* CleanupLSMCompaction takes mutex_, for the moves or for a compaction that completed
CompactionLock(cs) ==
  /\ \/ cpc = "move" /\ cs = ccur /\ cpc' = "move"
     \/ cpc = "run" /\ (\E c \in ctodo : c.out # {} /\ cs = {c}) /\ cpc' = "install"
  /\ Lock(Coordinator, EditMids(cs))
  /\ ccur' = cs
  /\ UNCHANGED <<cvid, ctodo, writerVars, partVars, entries, memVars, lookup, committed, fileVars,
                 gcVars, flushVars, readVars>>

\* AtomicMemTable::UpdateL0Files
UpdateL0Files(m) ==
  /\ mutex = Coordinator /\ stage = "edit" /\ m \in pend
  /\ lastVid' = [lastVid EXCEPT ![m] = Max2(@, newVid)]
  /\ l0' = [l0 EXCEPT ![m] = (@ \cup AddFns(m)) \ RemoveFns(m)]
  /\ pend' = pend \ {m}
  /\ UNCHANGED <<mrefs, inMem, flushed, writerVars, partVars, entries, lookup, committed, fileVars,
                 gcVars, versVars, mutex, stage, newVid, skip, flushVars, coordVars, readVars>>

\* every compaction of the batch is installed: the coordinator drops its reference
ReleaseCompacted ==
  /\ cpc = "run" /\ ctodo = {}
  /\ UnrefVersion(cvid)
  /\ cpc' = "collect"
  /\ UNCHANGED <<cvid, ctodo, ccur, writerVars, partVars, entries, memVars, lookup, committed,
                 fileVars, gcVars, nextVid, vfiles, vset, vcompacting, linked, current, currentId,
                 instVars, flushVars, readVars>>

\* and collects once more; FileDeletion has the task it schedules for what is left
FinishCompaction ==
  /\ cpc = "collect" /\ mutex = NoOwner
  /\ Collect(0)
  /\ cpc' = "idle" /\ cvid' = 0
  /\ UNCHANGED <<ctodo, ccur, writerVars, partVars, entries, memVars, lookup, committed, fileVars,
                 instVars, flushVars, readVars>>

-----------------------------------------------------------------------------
(* Reads: GetWithLookupIndex *)

otherThanReaders == <<writerVars, partVars, lookup, committed, fileVars, gcVars,
                      instVars, flushVars, coordVars>>
versRest == <<nextVid, vfiles, vset, vcompacting, linked, current, currentId>>

Goto(r, pc) == rpc' = [rpc EXCEPT ![r] = pc]

\* lookup_index_->Lookup
Lookup(r, k) ==
  /\ rpc[r] = "idle"
  /\ rkey' = [rkey EXCEPT ![r] = k]
  /\ rmid' = [rmid EXCEPT ![r] = lookup[k]]
  /\ rneed' = [rneed EXCEPT ![r] = committed[k]]
  /\ Goto(r, IF lookup[k] # 0 THEN "refmem" ELSE "version")
  /\ UNCHANGED <<rvid, rl0, rres, memVars, versVars, entries, otherThanReaders>>

\* AtomicMemTable::RefMemTable
RefMemTable(r) ==
  /\ rpc[r] = "refmem"
  /\ \/ /\ rmid[r] \in inMem
        /\ mrefs' = [mrefs EXCEPT ![rmid[r]] = @ + 1]
        /\ Goto(r, "memget")
     \/ /\ rmid[r] \notin inMem
        /\ UNCHANGED mrefs
        /\ Goto(r, "version")
  /\ UNCHANGED <<inMem, flushed, lastVid, l0, rkey, rmid, rvid, rl0, rres, rneed, versVars,
                 entries, otherThanReaders>>

\* MemTable::Get and AtomicMemTable::Unref; found or not, this is the answer
GetFromMemTable(r) ==
  /\ rpc[r] = "memget"
  /\ LET hit == {e \in Newest(entries[rmid[r]]) : e[1] = rkey[r]}
     IN  \/ hit = {} /\ UNCHANGED rres
         \/ \E e \in hit : rres' = [rres EXCEPT ![r] = e[2]]
  /\ UnrefMem(rmid[r])
  /\ Goto(r, "done")
  /\ UNCHANGED <<flushed, lastVid, l0, rkey, rmid, rvid, rl0, rneed, versVars, otherThanReaders>>

\* vid = current_version_id()
ReadVersionId(r) ==
  /\ rpc[r] = "version"
  /\ rvid' = [rvid EXCEPT ![r] = currentId]
  /\ Goto(r, "ref")
  /\ UNCHANGED <<rkey, rmid, rl0, rres, rneed, memVars, versVars, entries, otherThanReaders>>

Referable(v) == v \in vset /\ v \notin vdeleted /\ v \notin vcompacting

\* AtomicVersion::Ref; on nullptr the id is read again
RefVersion(r) ==
  /\ rpc[r] = "ref"
  /\ \/ /\ Referable(rvid[r])
        /\ vrefs' = [vrefs EXCEPT ![rvid[r]] = @ + 1]
        /\ Goto(r, "check")
     \/ /\ ~Referable(rvid[r])
        /\ UNCHANGED vrefs
        /\ Goto(r, "version")
  /\ UNCHANGED <<rkey, rmid, rvid, rl0, rres, rneed, memVars, vdeleted, versRest, entries, otherThanReaders>>

\* mutant: the L0 files are taken whatever the version
RecentEnoughAlways(r) == TRUE

\* the version is at least as recent as the last change of the L0 files of the memtable
RecentEnough(r) == rvid[r] >= lastVid[rmid[r]]

\* vid >= last_version_id_, under AtomicMemTable::mutex_: the L0 files are copied, or it tries again
CheckL0Files(r) ==
  /\ rpc[r] = "check"
  /\ \/ /\ RecentEnough(r)
        /\ rl0' = [rl0 EXCEPT ![r] = l0[rmid[r]]]
        /\ Goto(r, "l0")
     \/ /\ ~RecentEnough(r)
        /\ UNCHANGED rl0
        /\ Goto(r, "retry")
  /\ UNCHANGED <<rkey, rmid, rvid, rres, rneed, memVars, versVars, entries, otherThanReaders>>

\* mutant of UnrefAndRetry: the version is not released before the retry
RetryNoUnref(r) ==
  /\ rpc[r] = "retry"
  /\ Goto(r, "version")
  /\ UNCHANGED <<rkey, rmid, rvid, rl0, rres, rneed, memVars, versVars, entries, otherThanReaders>>

\* AtomicVersion::Unref before the next try
UnrefAndRetry(r) ==
  /\ rpc[r] = "retry"
  /\ UnrefVersion(rvid[r])
  /\ Goto(r, "version")
  /\ UNCHANGED <<rkey, rmid, rvid, rl0, rres, rneed, memVars, versRest, entries, otherThanReaders>>

\* Version::Get on the L0 files: from the highest number down, every hit overwrites the
\* value.  A number the version does not have is the IOError that the caller asserts away.
SearchL0(r) ==
  /\ rpc[r] = "l0"
  /\ LET hits == {f \in rl0[r] : Holds(f, rkey[r])}
     IN  \/ /\ ~(rl0[r] \subseteq FilesOf(rvid[r]))
           /\ UNCHANGED rres /\ Goto(r, "ioerror")
        \/ /\ rl0[r] \subseteq FilesOf(rvid[r]) /\ hits = {}
           /\ UNCHANGED rres /\ Goto(r, "levels")
        \/ /\ rl0[r] \subseteq FilesOf(rvid[r])
           /\ \E f \in hits : /\ \A g \in hits : f <= g
                              /\ \E s \in 1 .. MaxSeq : /\ Finds(f, rkey[r], s)
                                                        /\ rres' = [rres EXCEPT ![r] = s]
           /\ Goto(r, "unref")
  /\ UNCHANGED <<rkey, rmid, rvid, rl0, rneed, memVars, versVars, entries, otherThanReaders>>

\* the value of level l stands when level o has the key as well
Answers(l, o) == IF OrderedFlush THEN l <= o ELSE o <= l

\* Version::Get on the levels above 0, ForEachOverlapping with kL1AndAbove: with ordered
\* flushes the first level that has the key answers, otherwise every level is searched
\* and each hit overwrites the value of the one before
SearchLevels(r) ==
  /\ rpc[r] = "levels"
  /\ LET HitsAt(l) == {f \in vfiles[rvid[r]][l] : Holds(f, rkey[r])}
         Hits == {l \in Level \ {0} : HitsAt(l) # {}}
     IN  \/ Hits = {} /\ UNCHANGED rres
         \/ \E l \in Hits :
              /\ \A o \in Hits : Answers(l, o)
              /\ \E f \in HitsAt(l), s \in 1 .. MaxSeq : /\ Finds(f, rkey[r], s)
                                                        /\ rres' = [rres EXCEPT ![r] = s]
  /\ Goto(r, "unref")
  /\ UNCHANGED <<rkey, rmid, rvid, rl0, rneed, memVars, versVars, entries, otherThanReaders>>

\* AtomicVersion::Unref
UnrefAndReturn(r) ==
  /\ rpc[r] = "unref"
  /\ UnrefVersion(rvid[r])
  /\ Goto(r, "done")
  /\ UNCHANGED <<rkey, rmid, rvid, rl0, rres, rneed, memVars, versRest, entries, otherThanReaders>>

\* the caller has its answer
Return(r) ==
  /\ rpc[r] = "done"
  /\ Goto(r, "idle")
  /\ rkey' = [rkey EXCEPT ![r] = 0] /\ rmid' = [rmid EXCEPT ![r] = 0]
  /\ rvid' = [rvid EXCEPT ![r] = 0] /\ rl0' = [rl0 EXCEPT ![r] = {}]
  /\ rres' = [rres EXCEPT ![r] = 0] /\ rneed' = [rneed EXCEPT ![r] = 0]
  /\ UNCHANGED <<memVars, versVars, entries, otherThanReaders>>

-----------------------------------------------------------------------------
Write(w) ==
  \/ \E k \in Key : TakeSequence(w, k)
  \/ \E p \in Partition : BeginWrite(w, p)
  \/ AddEntry(w)
  \/ InsertIndex(w)

Flush(f) ==
  \/ \E m \in Mid : BuildTable(f, m)
  \/ FlushLock(f)
  \/ FlushUnlock(f)

\* steps of whichever thread holds mutex_
Install ==
  \/ \E m \in pend : SetFlushed(m)
  \/ \E m \in pend : UpdateL0Files(m)
  \/ AppendVersion
  \/ SetVersion
  \/ StoreCurrentId
  \/ SetCompaction

Compact ==
  \/ StartCompaction
  \/ ComputeCompactions
  \/ \E c \in ctodo : CompactTables(c)
  \/ \E c \in ctodo : CompactionLock({c})
  \/ CompactionLock(ccur)
  \/ CompactionUnlock
  \/ ReleaseCompacted
  \/ FinishCompaction

Get(r) ==
  \/ \E k \in Key : Lookup(r, k)
  \/ RefMemTable(r)
  \/ GetFromMemTable(r)
  \/ ReadVersionId(r)
  \/ RefVersion(r)
  \/ CheckL0Files(r)
  \/ UnrefAndRetry(r)
  \/ SearchL0(r)
  \/ SearchLevels(r)
  \/ UnrefAndReturn(r)
  \/ Return(r)

Next ==
  \/ \E w \in Writer : Write(w)
  \/ \E p \in Partition : Rotate(p) \/ NewMemTable(p)
  \/ \E f \in Flusher : Flush(f)
  \/ Install
  \/ Compact
  \/ DeleteObsoleteFiles
  \/ \E f \in Fn : DeleteFile(f)
  \/ \E r \in Reader : Get(r)

Spec == Init /\ [][Next]_vars

-----------------------------------------------------------------------------
(* Properties *)

Compactions == [lev : Level, tgt : Level, in0 : SUBSET Fn, in1 : SUBSET Fn, out : SUBSET Fn]

TypeWriters ==
  /\ lastSeq \in 1 .. MaxSeq + 1
  /\ wpc \in [Writer -> {"idle", "seq", "pend", "added"}]
  /\ wkey \in [Writer -> Key \cup {0}] /\ wseq \in [Writer -> 0 .. MaxSeq]
  /\ wmid \in [Writer -> 0 .. MaxMid]
  /\ \A w \in Writer : wpc[w] # "idle" => <<wkey[w], wseq[w]>> \in Entry
  /\ nextMid \in 1 .. MaxMid + 1 /\ active \in [Partition -> 0 .. MaxMid]
  /\ lookup \in [Key -> 0 .. MaxMid] /\ committed \in [Key -> 0 .. MaxSeq]

TypeMemTables ==
  /\ entries \in [Mid -> SUBSET Entry] /\ mrefs \in [Mid -> Int]
  /\ inMem \subseteq Mid /\ flushed \subseteq Mid
  /\ lastVid \in [0 .. MaxMid -> 0 .. MaxVid] /\ l0 \in [0 .. MaxMid -> SUBSET Fn]

TypeFiles ==
  /\ nextFile \in 1 .. MaxFile + 1
  /\ content \in [Fn -> SUBSET Entry] /\ fmids \in [Fn -> SUBSET Mid]
  /\ disk \subseteq Fn /\ compacted \subseteq Fn /\ deleting \subseteq Fn

TypeVersions ==
  /\ nextVid \in 2 .. MaxVid + 1
  /\ vfiles \in [Vid -> [Level -> SUBSET Fn]] /\ vrefs \in [Vid -> Int]
  /\ vset \subseteq Vid /\ vdeleted \subseteq Vid /\ vcompacting \subseteq Vid
  /\ linked \subseteq Vid /\ current \in Vid /\ currentId \in Vid

TypeThreads ==
  /\ mutex \in Flusher \cup {Coordinator, NoOwner}
  /\ stage \in {"none", "edit", "set", "store", "mark", "collect"}
  /\ newVid \in 0 .. MaxVid /\ pend \subseteq Mid /\ skip \in 0 .. MaxVid
  /\ fpc \in [Flusher -> {"idle", "install"}] /\ fmem \in [Flusher -> SUBSET Mid]
  /\ flushFile \in [Mid -> 0 .. MaxFile] /\ scheduled \subseteq Mid
  /\ cpc \in {"idle", "pick", "move", "run", "install", "collect"}
  /\ cvid \in 0 .. MaxVid /\ ctodo \subseteq Compactions /\ ccur \subseteq Compactions

TypeReaders ==
  /\ rpc \in [Reader -> {"idle", "refmem", "memget", "version", "ref", "check", "retry", "l0",
                         "ioerror", "levels", "unref", "done"}]
  /\ rkey \in [Reader -> Key \cup {0}] /\ rmid \in [Reader -> 0 .. MaxMid]
  /\ rvid \in [Reader -> 0 .. MaxVid] /\ rl0 \in [Reader -> SUBSET Fn]
  /\ rres \in [Reader -> 0 .. MaxSeq] /\ rneed \in [Reader -> 0 .. MaxSeq]
  /\ \A r \in Reader : rpc[r] \in {"refmem", "memget"} => rmid[r] \in Mid

\* Every variable stays in its range; in particular no version, memtable or table gets
\* the number 0, which the code uses for "none".
TypeOK == TypeWriters /\ TypeMemTables /\ TypeFiles /\ TypeVersions /\ TypeThreads /\ TypeReaders

\* r has a reference on version rvid[r]
HoldsVersion(r) == rpc[r] \in {"check", "retry", "l0", "levels", "unref"}
Holders(v) == {r \in Reader : HoldsVersion(r) /\ rvid[r] = v}

\* A Get never meets the IOError that GetWithLookupIndex asserts away: the L0 files it
\* copied from AtomicMemTable are files of the version it referenced before, although
\* flushes and compactions change the two one after the other and without its knowledge.
NoIOError == \A r \in Reader : rpc[r] # "ioerror"

\* Collecting obsolete files never takes an SSTable from under a reader, the current
\* version, or a compaction still to run, whatever order references are dropped in and
\* although the coordinator skips its own version when it collects.
FilesInUseOnDisk ==
  /\ \A r \in Reader : HoldsVersion(r) => rvid[r] \in linked /\ FilesOf(rvid[r]) \subseteq disk \ deleting
  /\ FilesOf(current) \subseteq disk \ deleting
  /\ \A c \in ctodo : c.out = {} => Inputs(c) \subseteq disk \ deleting

\* A Get returns the write that the lookup index pointed to when the Get looked it up,
\* or a newer one, wherever flushes and compactions have moved it meanwhile.
FreshGet == \A r \in Reader : rpc[r] = "done" => rres[r] >= rneed[r]

\* What FreshGet needs of the stored data, between installations: the memtable or the
\* tables that the lookup index leads to hold the write it was last set for.
IndexLeadsToData ==
  mutex = NoOwner => \A k \in Key :
    LET m == lookup[k]
    IN  committed[k] # 0 =>
          \E e \in (IF m \in inMem THEN entries[m] ELSE {})
                 \cup (UNION {content[f] : f \in l0[m] \cup (FilesOf(current) \ vfiles[current][0])}) :
            e[1] = k /\ e[2] >= committed[k]

\* version_set.h on ForEachOverlapping: levels are visited from newest to oldest and the
\* first hit ends the search, so the value of the topmost level that has the key is returned.
LevelsNewestFirst ==
  \A r \in Reader : rpc[r] = "unref" /\ (\A f \in rl0[r] : ~Holds(f, rkey[r])) =>
    \A l \in Level \ {0} : \A f \in vfiles[rvid[r]][l] :
      Holds(f, rkey[r]) /\ (\A o \in 1 .. l - 1 : \A g \in vfiles[rvid[r]][o] : ~Holds(g, rkey[r]))
        => Finds(f, rkey[r], rres[r])

\* The assertions on memtable_ in AtomicMemTable::Unref and SetFlushed: nobody frees the
\* memtable a Get reads or a flush is about to release.
MemTableAlive ==
  /\ \A r \in Reader : rpc[r] = "memget" => rmid[r] \in inMem
  /\ mutex \in Flusher => pend \subseteq inMem \ flushed

\* Reference counts of versions are exact: one for current_, one for the coordinator,
\* one per Get that holds the version.  A missed or doubled Unref leaks the files of the
\* version forever or deletes them under a reader.
VersionRefsExact ==
  \A v \in Vid :
    vrefs[v] = Cardinality(Holders(v))
               + (IF v = current /\ v \in vset THEN 1 ELSE 0)
               + (IF v = cvid /\ cpc # "collect" THEN 1 ELSE 0)

\* The assertions of Builder::MaybeAddFile: above level 0 the tables of a version do not
\* overlap, and no table is in two levels, although the sets of a batch are compacted
\* and installed one by one while flushes install versions in between.
VersionWellFormed ==
  \A v \in linked :
    /\ \A l \in Level \ {0} : \A f, g \in vfiles[v][l] : f # g => ~Overlaps(f, {g})
    /\ \A l, o \in Level : l # o => vfiles[v][l] \cap vfiles[v][o] = {}

\* A table that a compaction replaced never becomes part of a current version again.
NoResurrection == FilesOf(current) \cap (compacted \cup deleting) = {}

\* The assertions of AtomicVersion::SetCompaction: the coordinator still has its reference
\* on the version whose files it replaced, which was never freed meanwhile.
CompactedVersionAlive ==
  stage = "mark" => cvid \in vset /\ cvid \notin vdeleted /\ vrefs[cvid] >= 1

\* A Get returns, although it has to retry as long as an installation has changed the L0
\* files of its memtable and not yet current_version_id_, or has freed the version it read.
GetReturns == \A r \in Reader : rpc[r] # "idle" ~> rpc[r] = "idle"

=============================================================================
