-------------------------- MODULE LsmReadPath_gets --------------------------
(***************************************************************************)
(* Facts about a state that satisfies IInv, used by the proofs of all      *)
(* steps; IInv holds initially and is kept by the steps of writers and of  *)
(* Gets.                                                                   *)
(***************************************************************************)
EXTENDS LsmReadPathInv, FiniteSetTheorems, TLAPS

\* The id ranges and their extensions by 0, which stands for none.
LEMMA Ranges ==
  /\ Mid \subseteq 0 .. MaxMid /\ Vid \subseteq 0 .. MaxVid /\ Fn \subseteq 0 .. MaxFile
  /\ 1 .. MaxSeq \subseteq 0 .. MaxSeq
  /\ \A m \in 0 .. MaxMid : m # 0 => m \in Mid
  /\ \A v \in 0 .. MaxVid : v # 0 => v \in Vid
  /\ 0 \notin Mid /\ 0 \notin Vid /\ 0 \notin Fn
BY ConstantsOK DEF Mid, Vid, Fn

\* A version has finitely many holders, so its count is a number.
LEMMA HoldersFinite ==
  ASSUME NEW v PROVE IsFiniteSet(Holders(v)) /\ Cardinality(Holders(v)) \in Nat
BY ConstantsOK, FS_Subset, FS_CardinalityType DEF Holders

\* whoever holds a version keeps it from being deleted
LEMMA HeldAlive ==
  ASSUME IInv, NEW r \in Reader, HoldsVersion(r)
  PROVE  /\ rvid[r] \in Vid /\ rvid[r] \in vset \ vdeleted /\ rvid[r] \in linked
         /\ vrefs[rvid[r]] >= 1
<1>1. rvid[r] \in Vid BY DEF IInv, TypeOK, TypeVersions, Versions
<1>2. r \in Holders(rvid[r]) BY DEF Holders
<1>3. Cardinality(Holders(rvid[r])) # 0 BY <1>2, FS_EmptySet, HoldersFinite
<1>4. vrefs[rvid[r]] >= 1 BY <1>1, <1>3, HoldersFinite DEF IInv, Versions, VersionRefsExact
<1> QED BY <1>1, <1>4 DEF IInv, Versions

\* The tables of a level are tables of the version.
LEMMA LevelFiles ==
  ASSUME IInv, NEW v \in Vid, NEW l \in Level
  PROVE  vfiles[v][l] \subseteq FilesOf(v) /\ FilesOf(v) \subseteq Fn
BY DEF IInv, TypeOK, TypeVersions, FilesOf

\* Level 0 exists, and current_ is a version.
LEMMA Zero == 0 \in Level /\ (IInv => current \in Vid)
BY ConstantsOK DEF Level, IInv, TypeOK, TypeVersions

\* The current version, once published, is referenced, linked and not deleted.
LEMMA CurrentAlive ==
  ASSUME IInv, current \in vset
  PROVE  current \in Vid /\ current \in linked \ vdeleted /\ vrefs[current] >= 1
<1>1. current \in Vid BY Zero
<1>2. vrefs[current] >= 1 BY <1>1, HoldersFinite DEF IInv, Versions, VersionRefsExact
<1> QED BY <1>1, <1>2 DEF IInv, Versions

\* The inputs of a compaction that is not installed yet are in the current version.
LEMMA InputsInCurrent ==
  ASSUME IInv, NEW c \in Uninstalled
  PROVE  /\ Inputs(c) \subseteq FilesOf(current)
         /\ c.lev \in Level /\ c.lev + 1 \in Level /\ c.tgt \in {c.lev, c.lev + 1}
         /\ c.in0 \subseteq vfiles[current][c.lev] /\ c.in1 \subseteq vfiles[current][c.lev + 1]
<1>1. c \in Compactions BY DEF IInv, TypeOK, TypeThreads, Uninstalled
<1>2. c.lev \in Level BY <1>1 DEF Compactions
<1> QED BY <1>2, LevelFiles, Zero DEF IInv, InputsCurrent, Inputs

\* what an installation adds is on disk and nobody has asked to delete it
LEMMA AddedOnDisk ==
  ASSUME IInv, stage = "edit", NEW l
  PROVE  Added(l) \subseteq disk \ (compacted \cup deleting)
<1>1. CASE mutex \in Flusher
  BY <1>1 DEF Added, IInv, FreshFiles, Unborn
<1>2. CASE mutex \notin Flusher
  <2>1. mutex = Coordinator /\ cpc \in {"move", "install"} BY <1>2 DEF IInv, Control, TypeOK, TypeThreads
  <2> SUFFICES ASSUME NEW c \in ccur PROVE c.out \subseteq disk \ (compacted \cup deleting)
    BY <1>2 DEF Added
  <2>2. CASE cpc = "move"
    <3>1. c.out = c.in0 BY <2>2 DEF IInv, Control
    <3>2. c.in0 \subseteq FilesOf(current) BY InputsInCurrent DEF Uninstalled, Inputs
    <3> QED BY <3>1, <3>2 DEF IInv, FilesKept
  <2>3. CASE cpc = "install"
    BY <2>1, <2>3 DEF IInv, Control, FreshFiles, Produced
  <2> QED BY <2>1, <2>2, <2>3
<1> QED BY <1>1, <1>2

\* The written tables that nobody has asked to delete keep their contents.
ContentKept == \A f \in disk \ deleting : content'[f] = content[f]

\* What a compaction that is not installed yet reads and writes.
LEMMA CompactionOnDisk ==
  ASSUME IInv, NEW c \in Uninstalled
  PROVE  Inputs(c) \subseteq disk \ deleting /\ c.out \subseteq disk \ deleting
<1>1. Inputs(c) \subseteq disk \ deleting BY InputsInCurrent DEF IInv, FilesKept
<1>2. CASE c \in Produced BY <1>1, <1>2 DEF IInv, FreshFiles
<1>3. CASE c \notin Produced
  <2>1. c \in ccur \ ctodo BY <1>3 DEF Uninstalled, Produced
  <2>2. cpc = "move" BY <2>1 DEF IInv, Control, TypeOK, TypeThreads
  <2>3. c.out = c.in0 BY <2>1, <2>2 DEF IInv, Control
  <2> QED BY <1>1, <2>3 DEF Inputs
<1> QED BY <1>2, <1>3

\* every L0 file of a memtable is a file of the current version or of the next one
LEMMA L0OnDisk == ASSUME IInv, NEW m \in 0 .. MaxMid PROVE l0[m] \subseteq disk
<1>1. vfiles[current][0] \subseteq disk BY LevelFiles, Zero DEF IInv, FilesKept
<1>2. stage = "edit" => NextL0 \subseteq disk BY <1>1, AddedOnDisk DEF NextL0
<1> QED BY <1>1, <1>2 DEF IInv, L0Files

\* Outside of an installation every last_version_id_ is below the next version id.
LEMMA LastVidOld ==
  ASSUME IInv, stage = "none"
  PROVE  /\ \A m \in 0 .. MaxMid : lastVid[m] <= nextVid
         /\ \A v \in vset \cup linked : v \in Int /\ v < nextVid
<1>1. current \in Int /\ nextVid \in Int /\ current < nextVid
  BY Zero DEF IInv, Control, Versions, TypeOK, TypeVersions, Vid
<1>2. \A m \in 0 .. MaxMid : lastVid[m] \in Int /\ lastVid[m] <= current
  BY DEF IInv, TypeOK, TypeMemTables, L0Files
<1>3. vset \cup linked \subseteq Int BY DEF IInv, TypeOK, TypeVersions, Vid
<1>4. \A v \in vset \cup linked : v < nextVid BY DEF IInv, Versions
<1> QED BY <1>1, <1>2, <1>3, <1>4

-----------------------------------------------------------------------------
(* Frames: a part of the invariant is kept by a step that leaves its variables alone. *)

\* Nobody enters, leaves or advances an installation or a run of the coordinator.
LEMMA ControlFrame ==
  ASSUME Control,
         UNCHANGED <<mutex, stage, newVid, pend, skip, current, vset, linked, nextVid, fpc, fmem>>,
         UNCHANGED <<cpc, cvid, ctodo, ccur>>
  PROVE  Control'
BY Zenon DEF Control, Appended

\* The inputs of compactions stay where they are.
LEMMA InputsFrame ==
  ASSUME InputsCurrent, UNCHANGED <<mutex, stage, cpc, cvid, ctodo, ccur, vfiles, current>>
  PROVE  InputsCurrent'
BY Zenon DEF InputsCurrent, Uninstalled, Inputs

\* The tables that are in no version yet stay so.
LEMMA FreshFrame ==
  ASSUME FreshFiles,
         UNCHANGED <<mutex, stage, ctodo, ccur, vfiles, current, nextFile, disk, compacted, deleting>>,
         UNCHANGED <<fmem, flushFile, scheduled>>
  PROVE  FreshFiles'
<1>1. Unborn' = Unborn BY DEF Unborn
<1>2. Produced' = Produced BY DEF Produced
<1>3. \A v : FilesOf(v)' = FilesOf(v) BY DEF FilesOf
<1> QED BY Zenon, <1>1, <1>2, <1>3 DEF FreshFiles

\* The L0 files of memtables and the versions they belong to stay the same.
LEMMA L0Frame ==
  ASSUME L0Files, UNCHANGED <<l0, lastVid, fmids, vfiles, vset, current, fmem, flushFile>>,
         UNCHANGED <<mutex, stage, newVid, pend, cpc, ctodo, ccur>>, vdeleted \subseteq vdeleted',
         \A r \in Reader : rpc'[r] = "l0" => rl0'[r] \subseteq FilesOf(rvid'[r]), NoIOError'
  PROVE  L0Files'
<1>1. Unborn' = Unborn BY DEF Unborn
<1>2. Produced' = Produced BY DEF Produced
<1>3. NextL0' = NextL0 BY DEF NextL0, Added, Deleted
<1>4. \A r \in Reader : rpc'[r] = "l0" => rl0'[r] \subseteq FilesOf(rvid[r])' BY DEF FilesOf
<1> QED BY Zenon, <1>1, <1>2, <1>3, <1>4 DEF L0Files

\* Memtables lose L0 files, all else that L0Files speaks of stays.
LEMMA L0Shrinks ==
  ASSUME L0Files, UNCHANGED <<lastVid, fmids, vfiles, vset, vdeleted, current, fmem, flushFile, scheduled>>,
         UNCHANGED <<mutex, stage, newVid, pend, cpc, ctodo, ccur, rpc, rl0, rvid>>,
         \A m \in 0 .. MaxMid : l0'[m] \subseteq l0[m]
  PROVE  L0Files'
<1>1. Unborn' = Unborn BY DEF Unborn
<1>2. Produced' = Produced BY DEF Produced
<1>3. NextL0' = NextL0 BY DEF NextL0, Added, Deleted
<1>4. \A v : FilesOf(v)' = FilesOf(v) BY DEF FilesOf
<1>5. \A m \in 0 .. MaxMid : l0'[m] \subseteq IF stage = "edit" /\ m \notin pend
                                               THEN NextL0 ELSE vfiles[current][0]
  BY Zenon DEF L0Files
<1>6. \A m \in 0 .. MaxMid : \A f \in l0'[m] : m \in fmids[f] BY Zenon DEF L0Files
<1>7. \A v \in vset \ vdeleted, m \in 0 .. MaxMid : lastVid[m] <= v => l0'[m] \subseteq vfiles[v][0]
  BY Zenon DEF L0Files
<1>8. NoIOError' BY Zenon DEF L0Files, NoIOError
<1>9. \A r \in Reader : rpc[r] = "l0" => rl0[r] \subseteq FilesOf(rvid[r]) BY Zenon DEF L0Files
<1>10. \A r \in Reader : rpc'[r] = "l0" => rl0'[r] \subseteq FilesOf(rvid[r])' BY Zenon, <1>9 DEF FilesOf
<1> QED BY Zenon, <1>1, <1>2, <1>3, <1>5, <1>6, <1>7, <1>8, <1>10 DEF L0Files

\* Nobody comes to hold a version, no table is given to the StoCs for deletion.
LEMMA KeptFrame ==
  ASSUME FilesKept, UNCHANGED <<disk, compacted, deleting, vset, vcompacting, skip, current, vfiles>>,
         vdeleted \subseteq vdeleted',
         \A r \in Reader : HoldsVersion(r)' => HoldsVersion(r) /\ rvid'[r] = rvid[r]
  PROVE  FilesKept'
<1>1. Holders(skip)' \subseteq Holders(skip) /\ \A v : Holders(v)' \subseteq Holders(v) BY DEF Holders
<1>2. FilesOf(current)' = FilesOf(current) /\ \A v : FilesOf(v)' = FilesOf(v) BY DEF FilesOf
<1> QED BY Zenon, <1>1, <1>2 DEF FilesKept

\* References and versions stay the same, version ids may be handed out.
LEMMA VersionsFrame ==
  ASSUME Versions, UNCHANGED <<vrefs, vset, vdeleted, linked, current, cvid, rpc, rvid>>,
         cpc' = "collect" <=> cpc = "collect", cpc' = "idle" <=> cpc = "idle",
         \A v \in vset \cup linked : v < nextVid'
  PROVE  Versions'
<1>1. \A r \in Reader : HoldsVersion(r)' = HoldsVersion(r) BY Zenon DEF HoldsVersion
<1>2. \A v : Holders(v)' = Holders(v) BY DEF Holders, HoldsVersion
<1>3. VersionRefsExact' BY Zenon, <1>2 DEF Versions, VersionRefsExact
<1> QED BY Zenon, <1>1, <1>3 DEF Versions

-----------------------------------------------------------------------------
(* Steps *)

\* Leaves are tried with Zenon; those that need arithmetic or EXCEPT cite SMT.
USE Zenon, SMT

\* The state DB::Open leaves behind: one empty version, held as current_.
LEMMA InitInv == ASSUME Init PROVE IInv
<1> USE ConstantsOK DEF Init
<1>1. 1 \in Vid /\ Vid \subseteq Int /\ 0 .. MaxMid \subseteq Int /\ 0 \in 0 .. MaxMid /\ 0 \in 0 .. MaxSeq
      /\ 0 \in 0 .. MaxFile /\ 0 \in 0 .. MaxVid /\ 1 \in 0 .. MaxVid
  BY SMT DEF Vid
<1>2. TypeWriters /\ TypeMemTables BY SMT, <1>1 DEF TypeWriters, TypeMemTables
<1>3. TypeFiles BY SMT DEF TypeFiles
<1>4. TypeVersions BY SMT, <1>1 DEF TypeVersions
<1>5. TypeThreads BY <1>1 DEF TypeThreads
<1>6. TypeReaders BY <1>1 DEF TypeReaders
<1>7. Control BY <1>1 DEF Control, Appended
<1>8. \A v : Holders(v) = {} BY DEF Holders, HoldsVersion
<1>9. Versions
  <2>1. VersionRefsExact
    <3>1. Cardinality({}) = 0 BY FS_EmptySet
    <3>2. \A v \in Vid : v # cvid /\ (v = current /\ v \in vset <=> v = 1) BY Ranges
    <3>3. \A v \in Vid : vrefs[v] = 0 + (IF v = current /\ v \in vset THEN 1 ELSE 0)
                                       + (IF v = cvid /\ cpc # "collect" THEN 1 ELSE 0)
      BY SMT, <3>2
    <3> QED BY <1>8, <3>1, <3>3 DEF VersionRefsExact
  <2> QED BY SMT, <1>1, <2>1 DEF Versions, HoldsVersion
<1>10. \A v \in Vid : FilesOf(v) = {} BY DEF FilesOf
<1>11. Uninstalled = {} /\ Produced = {} /\ Unborn = {} BY DEF Uninstalled, Produced, Unborn
<1>12. InputsCurrent BY <1>1, <1>11 DEF InputsCurrent
<1>13. FreshFiles BY <1>1, <1>10, <1>11 DEF FreshFiles
<1>14. L0Files BY SMT, <1>1, <1>11 DEF L0Files, NoIOError
<1>15. FilesKept BY <1>1, <1>10 DEF FilesKept
<1> QED BY <1>2, <1>3, <1>4, <1>5, <1>6, <1>7, <1>9, <1>12, <1>13, <1>14, <1>15 DEF IInv, TypeOK

\* the variables IInv speaks of besides TypeOK
invVars == <<lastVid, l0, nextFile, fmids, gcVars, versVars, instVars, flushVars, coordVars, readVars>>

\* A step that changes none of invVars keeps every part of the invariant but the types.
LEMMA Frame == ASSUME IInv, UNCHANGED invVars
               PROVE  (Control /\ Versions /\ InputsCurrent /\ FreshFiles /\ L0Files /\ FilesKept)'
<1> USE DEF invVars, gcVars, versVars, instVars, flushVars, coordVars, readVars
<1>0. UNCHANGED <<lastVid, l0, nextFile, fmids, disk, compacted, deleting, nextVid, vfiles, vrefs, vset,
                 vdeleted, vcompacting, linked, current, currentId, mutex, stage, newVid, pend, skip,
                 fpc, fmem, flushFile, scheduled, cpc, cvid, ctodo, ccur, rpc, rvid, rl0>>
  BY Zenon
<1>00. IInv OBVIOUS
<1> HIDE DEF invVars
<1>1. Control' BY <1>0, <1>00, ControlFrame DEF IInv
<1>2. Versions'
  <2>1. Versions /\ \A v \in vset \cup linked : v < nextVid' BY Zenon, <1>0, <1>00 DEF IInv, Versions
  <2> QED BY <1>0, <2>1, VersionsFrame
<1>3. InputsCurrent' BY <1>0, <1>00, InputsFrame DEF IInv
<1>4. FreshFiles' BY <1>0, <1>00, FreshFrame DEF IInv
<1>5. L0Files' BY <1>0, <1>00, L0Shrinks DEF IInv
<1>6. FilesKept' BY <1>0, <1>00, KeptFrame DEF IInv, HoldsVersion
<1> QED BY <1>1, <1>2, <1>3, <1>4, <1>5, <1>6

\* No step of a write, nor a rotation of the active memtable, touches what IInv speaks of.
LEMMA WriterSteps ==
  ASSUME IInv, (\E w \in Writer : Write(w)) \/ (\E p \in Partition : Rotate(p))
  PROVE  IInv'
<1> USE DEF IInv, TypeOK
<1>1. UNCHANGED invVars /\ UNCHANGED <<mrefs, inMem, flushed, content>>
  BY DEF Write, TakeSequence, BeginWrite, AddEntry, InsertIndex, Rotate, invVars, memVars, fileVars
<1>2. TypeWriters' /\ TypeMemTables'
  <2>1. ASSUME NEW w \in Writer, NEW k \in Key, TakeSequence(w, k) PROVE TypeWriters' /\ entries' = entries
    BY SMT, <2>1, ConstantsOK DEF TypeWriters, TakeSequence, partVars, Entry
  <2>2. ASSUME NEW w \in Writer, NEW p \in Partition, BeginWrite(w, p) PROVE TypeWriters' /\ entries' = entries
    BY <2>2, ConstantsOK DEF TypeWriters, BeginWrite, partVars
  <2>3. ASSUME NEW w \in Writer, InsertIndex(w) PROVE TypeWriters' /\ entries' = entries
    <3>1. wkey[w] \in Key /\ wseq[w] \in 0 .. MaxSeq /\ wmid[w] \in 0 .. MaxMid /\ 0 \in 0 .. MaxMid /\ 0 \in 0 .. MaxSeq
      <4>1. <<wkey[w], wseq[w]>> \in Entry BY <2>3 DEF TypeWriters, InsertIndex
      <4>2. wkey[w] \in Key BY <4>1 DEF Entry
      <4>3. wseq \in [Writer -> 0 .. MaxSeq] /\ wmid \in [Writer -> 0 .. MaxMid] BY DEF TypeWriters
      <4> QED BY SMT, <4>2, <4>3, ConstantsOK
    <3>2. lookup' \in [Key -> 0 .. MaxMid] /\ committed' \in [Key -> 0 .. MaxSeq]
      BY <2>3, <3>1 DEF TypeWriters, InsertIndex
    <3>3. \A v \in Writer : wpc'[v] # "idle" => <<wkey'[v], wseq'[v]>> \in Entry
      BY <2>3 DEF TypeWriters, InsertIndex
    <3> QED BY <2>3, <3>1, <3>2, <3>3 DEF TypeWriters, InsertIndex, partVars
  <2>4. ASSUME NEW p \in Partition, Rotate(p) PROVE TypeWriters' /\ entries' = entries
    <3>1. active' \in [Partition -> 0 .. MaxMid]
      <4>1. 0 \in 0 .. MaxMid BY SMT, ConstantsOK
      <4> QED BY Zenon, <2>4, <4>1 DEF TypeWriters, Rotate
    <3> QED BY Zenon, <2>4, <3>1 DEF TypeWriters, Rotate, writerVars
  <2>5. ASSUME NEW w \in Writer, AddEntry(w) PROVE TypeWriters' /\ entries' \in [Mid -> SUBSET Entry]
    BY <2>5, ConstantsOK DEF TypeWriters, TypeMemTables, AddEntry, partVars
  <2>6. TypeWriters' /\ entries' \in [Mid -> SUBSET Entry]
    BY <2>1, <2>2, <2>3, <2>4, <2>5 DEF Write, TypeMemTables
  <2> QED BY <1>1, <2>6 DEF TypeMemTables, invVars, TypeWriters, InsertIndex
<1>3. TypeFiles' /\ TypeVersions' /\ TypeThreads' /\ TypeReaders'
  BY <1>1 DEF TypeFiles, TypeVersions, TypeThreads, TypeReaders, invVars, gcVars, versVars, instVars,
              flushVars, coordVars, readVars
<1> QED BY <1>1, <1>2, <1>3, Frame

\* AtomicMemTable::SetMemTable on a fresh id keeps the invariant.
LEMMA NewMemTableStep == ASSUME IInv, NEW p \in Partition, NewMemTable(p) PROVE IInv'
<1> USE ConstantsOK DEF NewMemTable
<1>1. nextMid \in Mid /\ nextMid \in 0 .. MaxMid BY SMT DEF IInv, TypeOK, TypeWriters, Mid
<1>2. TypeWriters' BY SMT DEF IInv, TypeOK, TypeWriters, writerVars
<1>3. TypeMemTables' BY SMT, <1>1 DEF IInv, TypeOK, TypeMemTables
<1>4. (TypeFiles /\ TypeVersions /\ TypeThreads /\ TypeReaders)'
  BY DEF IInv, TypeOK, TypeFiles, TypeVersions, TypeThreads, TypeReaders, fileVars, gcVars, versVars,
         instVars, flushVars, coordVars, readVars
<1>5. (Control /\ Versions /\ InputsCurrent /\ FreshFiles /\ FilesKept)'
  <2>1. UNCHANGED <<nextFile, gcVars, versVars, instVars, flushVars, coordVars, readVars>> BY DEF fileVars
  <2> HIDE DEF NewMemTable
  <2>2. Control' BY <2>1, ControlFrame DEF IInv, versVars, instVars, flushVars, coordVars
  <2>3. InputsCurrent' BY <2>1, InputsFrame DEF IInv, versVars, instVars, coordVars
  <2>4. FreshFiles' BY <2>1, FreshFrame DEF IInv, gcVars, versVars, instVars, flushVars, coordVars
  <2>5. \A v : Holders(v)' = Holders(v) /\ FilesOf(v)' = FilesOf(v)
    BY <2>1 DEF Holders, HoldsVersion, FilesOf, versVars, readVars
  <2>6. Versions' BY <2>1, <2>5 DEF IInv, Versions, VersionRefsExact, HoldsVersion, versVars, coordVars, readVars
  <2>7. FilesKept' BY <2>1, KeptFrame DEF IInv, HoldsVersion, gcVars, versVars, instVars, readVars
  <2> QED BY <2>2, <2>3, <2>4, <2>6, <2>7
<1>6. L0Files'
  <2>1. \A m \in 0 .. MaxMid : l0'[m] \subseteq l0[m] BY <1>1 DEF IInv, TypeOK, TypeMemTables
  <2>2. UNCHANGED <<lastVid, fmids, vfiles, vset, vdeleted, current, fmem, flushFile, scheduled>>
    BY Zenon DEF fileVars, versVars, flushVars
  <2>3. UNCHANGED <<mutex, stage, newVid, pend, cpc, ctodo, ccur, rpc, rl0, rvid>>
    BY Zenon DEF instVars, coordVars, readVars
  <2>4. L0Files BY DEF IInv
  <2> HIDE DEF NewMemTable
  <2> QED BY <2>1, <2>2, <2>3, <2>4, L0Shrinks
<1> QED BY <1>2, <1>3, <1>4, <1>5, <1>6 DEF IInv, TypeOK

\* everything but what a Get changes
notReaders == <<lastVid, l0, nextFile, fmids, gcVars, instVars, flushVars, coordVars,
                nextVid, vfiles, vset, vcompacting, linked, current, currentId>>

\* a step of a Get that neither takes nor drops a reference
LEMMA ReaderFrame ==
  ASSUME IInv, UNCHANGED <<notReaders, vrefs, vdeleted>>,
         \A r \in Reader : /\ HoldsVersion(r)' <=> HoldsVersion(r)
                           /\ HoldsVersion(r) => rvid'[r] = rvid[r]
                           /\ rpc'[r] = "l0" => rl0'[r] \subseteq FilesOf(rvid'[r])
                           /\ rpc'[r] # "ioerror"
  PROVE  (Control /\ Versions /\ InputsCurrent /\ FreshFiles /\ L0Files /\ FilesKept)'
<1>0. \A v : Holders(v)' = Holders(v) BY DEF Holders
<1>1. Control' BY ControlFrame DEF IInv, notReaders, instVars, flushVars, coordVars
<1>2. Versions' BY <1>0 DEF IInv, Versions, VersionRefsExact, notReaders, coordVars
<1>3. InputsCurrent' BY InputsFrame DEF IInv, notReaders, instVars, coordVars
<1>4. FreshFiles' BY FreshFrame DEF IInv, notReaders, gcVars, instVars, flushVars, coordVars
<1>5. L0Files' BY L0Frame DEF IInv, NoIOError, notReaders, instVars, flushVars, coordVars
<1>6. FilesKept' BY KeptFrame DEF IInv, notReaders, gcVars, instVars
<1> QED BY <1>1, <1>2, <1>3, <1>4, <1>5, <1>6

\* A Get changes nothing but its own state, reference counts and memtables it frees.
LEMMA GetFrame ==
  ASSUME NEW r \in Reader, Get(r)
  PROVE  UNCHANGED <<notReaders, writerVars, partVars, lookup, committed, content, flushed>>
<1> USE DEF notReaders, otherThanReaders, fileVars, memVars, versVars, versRest
<1>1. ASSUME NEW k \in Key, Lookup(r, k) PROVE UNCHANGED <<notReaders, writerVars, partVars, lookup, committed, content, flushed>>
  BY <1>1 DEF Lookup
<1>2. CASE RefMemTable(r) BY <1>2 DEF RefMemTable
<1>3. CASE GetFromMemTable(r) BY <1>3 DEF GetFromMemTable
<1>4. CASE ReadVersionId(r) BY <1>4 DEF ReadVersionId
<1>5. CASE RefVersion(r) BY <1>5 DEF RefVersion
<1>6. CASE CheckL0Files(r) BY <1>6 DEF CheckL0Files
<1>7. CASE UnrefAndRetry(r) BY <1>7 DEF UnrefAndRetry
<1>8. CASE SearchL0(r) BY <1>8 DEF SearchL0
<1>9. CASE SearchLevels(r) BY <1>9 DEF SearchLevels
<1>10. CASE UnrefAndReturn(r) BY <1>10 DEF UnrefAndReturn
<1>11. CASE Return(r) BY <1>11 DEF Return
<1> QED BY <1>1, <1>2, <1>3, <1>4, <1>5, <1>6, <1>7, <1>8, <1>9, <1>10, <1>11 DEF Get

\* Recording a result keeps rres a function into sequence numbers.
LEMMA ResultType ==
  ASSUME NEW r \in Reader, rres \in [Reader -> 0 .. MaxSeq],
         rres' = rres \/ \E s \in 0 .. MaxSeq : rres' = [rres EXCEPT ![r] = s]
  PROVE  rres' \in [Reader -> 0 .. MaxSeq]
OBVIOUS

\* Every step of GetWithLookupIndex keeps the types.
LEMMA GetTypes ==
  ASSUME IInv, NEW r \in Reader, Get(r)
  PROVE  TypeOK'
<1> USE ConstantsOK DEF IInv, TypeOK
<1>1. TypeWriters' /\ TypeFiles' /\ TypeThreads'
  <2>1. UNCHANGED <<nextFile, fmids, gcVars, instVars, flushVars, coordVars, writerVars, partVars,
                    lookup, committed, content>>
    BY Zenon, GetFrame DEF notReaders
  <2>2. TypeWriters' BY Zenon, <2>1 DEF TypeWriters, writerVars, partVars
  <2>3. TypeFiles' BY Zenon, <2>1 DEF TypeFiles, gcVars
  <2>4. TypeThreads' BY Zenon, <2>1 DEF TypeThreads, instVars, flushVars, coordVars
  <2> QED BY <2>2, <2>3, <2>4
<1>2. TypeReaders'
  <2> USE DEF TypeReaders, TypeMemTables, TypeVersions, Goto
  <2>1. ASSUME NEW k \in Key, Lookup(r, k) PROVE TypeReaders'
    BY <2>1, Ranges DEF Lookup, TypeWriters
  <2>2. CASE RefMemTable(r) BY <2>2 DEF RefMemTable
  <2>3. CASE GetFromMemTable(r)
    <3>1. rres' = rres \/ \E s \in 0 .. MaxSeq : rres' = [rres EXCEPT ![r] = s]
      <4>1. rmid[r] \in Mid BY <2>3 DEF GetFromMemTable, TypeReaders
      <4>2. rres' = rres \/ \E e \in Entry : rres' = [rres EXCEPT ![r] = e[2]]
        BY <2>3, <4>1 DEF GetFromMemTable, Newest
      <4>3. \A e \in Entry : e[2] \in 0 .. MaxSeq BY Ranges DEF Entry
      <4> QED BY <4>2, <4>3
    <3>2. rres \in [Reader -> 0 .. MaxSeq] OBVIOUS
    <3>3. rres' \in [Reader -> 0 .. MaxSeq] BY <3>1, <3>2, ResultType
    <3> QED BY <2>3, <3>3 DEF GetFromMemTable
  <2>4. CASE ReadVersionId(r) BY <2>4, Ranges DEF ReadVersionId
  <2>5. CASE RefVersion(r) BY <2>5 DEF RefVersion
  <2>6. CASE CheckL0Files(r) BY <2>6 DEF CheckL0Files
  <2>7. CASE UnrefAndRetry(r) BY <2>7 DEF UnrefAndRetry
  <2>8. CASE SearchL0(r)
    <3>1. rres' = rres \/ \E s \in 0 .. MaxSeq : rres' = [rres EXCEPT ![r] = s] BY <2>8, Ranges DEF SearchL0
    <3>2. rres' \in [Reader -> 0 .. MaxSeq]
      <4>1. rres \in [Reader -> 0 .. MaxSeq] OBVIOUS
      <4> QED BY <4>1, <3>1, ResultType
    <3>3. rpc' = [rpc EXCEPT ![r] = rpc'[r]] /\ rpc'[r] \in {"ioerror", "levels", "unref"}
      BY <2>8 DEF SearchL0
    <3>4. rpc' \in [Reader -> {"idle", "refmem", "memget", "version", "ref", "check", "retry", "l0",
                               "ioerror", "levels", "unref", "done"}]
      BY <3>3
    <3>5. UNCHANGED <<rkey, rmid, rvid, rl0, rneed>> BY <2>8 DEF SearchL0
    <3>6. \A q \in Reader : rpc'[q] \in {"refmem", "memget"} => rpc[q] = rpc'[q]
      BY <3>3 DEF TypeReaders
    <3>7. \A q \in Reader : rpc'[q] \in {"refmem", "memget"} => rmid'[q] \in Mid
      BY Zenon, <3>5, <3>6 DEF TypeReaders
    <3>8. TypeReaders OBVIOUS
    <3> QED BY Zenon, <3>2, <3>4, <3>5, <3>7, <3>8 DEF TypeReaders
  <2>9. CASE SearchLevels(r)
    <3>1. rres' = rres \/ \E s \in 0 .. MaxSeq : rres' = [rres EXCEPT ![r] = s] BY <2>9, Ranges DEF SearchLevels
    <3>2. rres' \in [Reader -> 0 .. MaxSeq]
      <4>1. rres \in [Reader -> 0 .. MaxSeq] OBVIOUS
      <4> QED BY <4>1, <3>1, ResultType
    <3> QED BY <2>9, <3>2 DEF SearchLevels
  <2>10. CASE UnrefAndReturn(r) BY <2>10 DEF UnrefAndReturn
  <2>11. CASE Return(r) BY SMT, <2>11 DEF Return
  <2> QED BY <2>1, <2>2, <2>3, <2>4, <2>5, <2>6, <2>7, <2>8, <2>9, <2>10, <2>11 DEF Get
<1>3. TypeMemTables'
  <2> USE DEF TypeMemTables, memVars
  <2>1. ASSUME NEW k \in Key, Lookup(r, k) PROVE TypeMemTables'
    BY <2>1 DEF Lookup
  <2>2. CASE RefMemTable(r)
    <3>1. TypeMemTables OBVIOUS
    <3>2. mrefs' \in [Mid -> Int]
      <4>1. mrefs' = mrefs \/ (rmid[r] \in Mid /\ mrefs' = [mrefs EXCEPT ![rmid[r]] = @ + 1])
        BY Zenon, <2>2, <3>1 DEF RefMemTable
      <4>2. mrefs \in [Mid -> Int] BY Zenon, <3>1
      <4> HIDE DEF TypeMemTables
      <4> QED BY SMT, <4>1, <4>2
    <3>3. UNCHANGED <<entries, inMem, flushed, lastVid, l0>> BY Zenon, <2>2 DEF RefMemTable
    <3> QED BY Zenon, <3>1, <3>2, <3>3
  <2>3. CASE GetFromMemTable(r)
    <3>1. rmid[r] \in Mid BY <2>3 DEF GetFromMemTable, TypeReaders
    <3>2. TypeMemTables OBVIOUS
    <3>3. mrefs' = [mrefs EXCEPT ![rmid[r]] = @ - 1] /\ inMem' \subseteq inMem
          /\ (entries' = entries \/ entries' = [entries EXCEPT ![rmid[r]] = {}])
      BY Zenon, <2>3 DEF GetFromMemTable, UnrefMem
    <3>4. mrefs' \in [Mid -> Int]
      <4>1. mrefs \in [Mid -> Int] BY Zenon, <3>2
      <4> HIDE DEF TypeMemTables
      <4> QED BY SMT, <3>1, <3>3, <4>1
    <3>5. entries' \in [Mid -> SUBSET Entry] BY Zenon, <3>1, <3>2, <3>3
    <3>6. UNCHANGED <<flushed, lastVid, l0>> BY Zenon, <2>3 DEF GetFromMemTable
    <3> QED BY Zenon, <3>2, <3>3, <3>4, <3>5, <3>6
  <2>4. CASE ReadVersionId(r) BY <2>4 DEF ReadVersionId
  <2>5. CASE RefVersion(r) BY <2>5 DEF RefVersion
  <2>6. CASE CheckL0Files(r) BY <2>6 DEF CheckL0Files
  <2>7. CASE UnrefAndRetry(r) BY <2>7 DEF UnrefAndRetry
  <2>8. CASE SearchL0(r) BY <2>8 DEF SearchL0
  <2>9. CASE SearchLevels(r) BY <2>9 DEF SearchLevels
  <2>10. CASE UnrefAndReturn(r) BY <2>10 DEF UnrefAndReturn
  <2>11. CASE Return(r) BY <2>11 DEF Return
  <2> QED BY <2>1, <2>2, <2>3, <2>4, <2>5, <2>6, <2>7, <2>8, <2>9, <2>10, <2>11 DEF Get
<1>4. TypeVersions'
  <2> USE DEF TypeVersions, versVars, versRest
  <2>1. ASSUME NEW k \in Key, Lookup(r, k) PROVE TypeVersions'
    BY <2>1 DEF Lookup
  <2>2. CASE RefMemTable(r) BY <2>2 DEF RefMemTable
  <2>3. CASE GetFromMemTable(r) BY <2>3 DEF GetFromMemTable
  <2>4. CASE ReadVersionId(r) BY <2>4 DEF ReadVersionId
  <2>5. CASE RefVersion(r)
    <3>1. vrefs' = vrefs \/ vrefs' = [vrefs EXCEPT ![rvid[r]] = @ + 1] BY <2>5 DEF RefVersion
    <3>2. vrefs' \in [Vid -> Int]
      <4> HIDE DEF Get
      <4> QED BY SMT, <3>1
    <3>3. UNCHANGED <<vdeleted, versRest>> BY <2>5 DEF RefVersion
    <3> QED BY <3>2, <3>3
  <2>6. CASE CheckL0Files(r) BY <2>6 DEF CheckL0Files
  <2>7. CASE UnrefAndRetry(r) BY SMT, <2>7 DEF UnrefAndRetry, UnrefVersion, Versions, HoldsVersion
  <2>8. CASE SearchL0(r) BY <2>8 DEF SearchL0
  <2>9. CASE SearchLevels(r) BY <2>9 DEF SearchLevels
  <2>10. CASE UnrefAndReturn(r) BY SMT, <2>10 DEF UnrefAndReturn, UnrefVersion, Versions, HoldsVersion
  <2>11. CASE Return(r) BY <2>11 DEF Return
  <2> QED BY <2>1, <2>2, <2>3, <2>4, <2>5, <2>6, <2>7, <2>8, <2>9, <2>10, <2>11 DEF Get
<1> QED BY <1>1, <1>2, <1>3, <1>4

\* A Get that references its version is one more holder of it, and of no other.
LEMMA TakeReference ==
  ASSUME NEW r \in Reader, ~HoldsVersion(r), HoldsVersion(r)', rvid' = rvid,
         \A q \in Reader : q # r => (HoldsVersion(q)' <=> HoldsVersion(q)), NEW v
  PROVE  Cardinality(Holders(v))' = Cardinality(Holders(v)) + IF v = rvid[r] THEN 1 ELSE 0
<1>1. CASE v = rvid[r]
  <2>1. Holders(v)' = Holders(v) \cup {r} /\ r \notin Holders(v) BY <1>1 DEF Holders
  <2> QED BY <1>1, <2>1, HoldersFinite, FS_AddElement
<1>2. CASE v # rvid[r]
  <2>1. Holders(v)' = Holders(v) BY <1>2 DEF Holders
  <2> QED BY SMT, <1>2, <2>1, HoldersFinite
<1> QED BY <1>1, <1>2

\* A Get that unreferences its version is one holder less of it, and of no other.
LEMMA DropReference ==
  ASSUME NEW r \in Reader, HoldsVersion(r), ~HoldsVersion(r)', rvid' = rvid,
         \A q \in Reader : q # r => (HoldsVersion(q)' <=> HoldsVersion(q)), NEW v
  PROVE  Cardinality(Holders(v))' = Cardinality(Holders(v)) - IF v = rvid[r] THEN 1 ELSE 0
<1>1. CASE v = rvid[r]
  <2>1. Holders(v)' = Holders(v) \ {r} /\ r \in Holders(v) BY <1>1 DEF Holders
  <2>2. Cardinality(Holders(v) \ {r}) = Cardinality(Holders(v)) - 1
    BY <2>1, HoldersFinite, FS_RemoveElement
  <2> QED BY <1>1, <2>1, <2>2
<1>2. CASE v # rvid[r]
  <2>1. Holders(v)' = Holders(v) BY <1>2 DEF Holders
  <2> QED BY SMT, <1>2, <2>1, HoldersFinite
<1> QED BY <1>1, <1>2

\* a Get takes or drops a reference: the parts that do not count references
LEMMA ReferenceFrame ==
  ASSUME IInv, UNCHANGED notReaders, vdeleted \subseteq vdeleted',
         \A r \in Reader : rpc'[r] \notin {"l0", "ioerror"} \/ (rpc'[r] = rpc[r] /\ rl0'[r] = rl0[r] /\ rvid'[r] = rvid[r])
  PROVE  (Control /\ InputsCurrent /\ FreshFiles /\ L0Files)'
<1>1. Control' BY ControlFrame DEF IInv, notReaders, instVars, flushVars, coordVars
<1>2. InputsCurrent' BY InputsFrame DEF IInv, notReaders, instVars, coordVars
<1>3. FreshFiles' BY FreshFrame DEF IInv, notReaders, gcVars, instVars, flushVars, coordVars
<1>4. \A r \in Reader : rpc'[r] = "l0" => rl0'[r] \subseteq FilesOf(rvid'[r]) BY DEF IInv, L0Files
<1>5. NoIOError' BY DEF IInv, L0Files, NoIOError
<1>6. L0Files' BY <1>4, <1>5, L0Frame DEF IInv, notReaders, instVars, flushVars, coordVars
<1> QED BY <1>1, <1>2, <1>3, <1>6

\* AtomicVersion::Unref by a Get: the count stays exact and only an unreferenced version is freed.
LEMMA UnrefVersionStep ==
  ASSUME IInv, NEW r \in Reader, HoldsVersion(r), UnrefVersion(rvid[r]), UNCHANGED <<notReaders, rvid, rl0>>,
         NEW pc, pc \in {"version", "done"}, rpc' = [rpc EXCEPT ![r] = pc]
  PROVE  (Control /\ Versions /\ InputsCurrent /\ FreshFiles /\ L0Files /\ FilesKept)'
<1> USE DEF notReaders, gcVars, instVars, flushVars, coordVars
<1>0. \A q \in Reader : rpc'[q] = IF q = r THEN pc ELSE rpc[q] BY DEF IInv, TypeOK, TypeReaders
<1>1. ~HoldsVersion(r)' /\ \A q \in Reader : q # r => (HoldsVersion(q)' <=> HoldsVersion(q))
  BY <1>0 DEF HoldsVersion
<1>2. /\ rvid[r] \in Vid /\ rvid[r] \in vset \ vdeleted
      /\ vrefs[rvid[r]] >= 1
  BY HeldAlive
<1>3. (Control /\ InputsCurrent /\ FreshFiles /\ L0Files)'
  BY <1>0, ReferenceFrame DEF UnrefVersion
<1>4. Versions'
  <2>1. vrefs' = [vrefs EXCEPT ![rvid[r]] = @ - 1] /\ vrefs \in [Vid -> Int]
    BY DEF UnrefVersion, IInv, TypeOK, TypeVersions
  <2>2. ASSUME NEW v \in Vid
        PROVE  Cardinality(Holders(v))' = Cardinality(Holders(v)) - IF v = rvid[r] THEN 1 ELSE 0
    BY <1>1, DropReference
  <2>3. VersionRefsExact'
    <3> SUFFICES ASSUME NEW v \in Vid
                 PROVE  vrefs'[v] = Cardinality(Holders(v))'
                                    + (IF v = current /\ v \in vset THEN 1 ELSE 0)
                                    + (IF v = cvid /\ cpc # "collect" THEN 1 ELSE 0)
      BY DEF VersionRefsExact
    <3>1. vrefs[v] = Cardinality(Holders(v)) + (IF v = current /\ v \in vset THEN 1 ELSE 0)
                     + (IF v = cvid /\ cpc # "collect" THEN 1 ELSE 0)
      BY DEF IInv, Versions, VersionRefsExact
    <3> QED BY SMT, <2>1, <2>2, <3>1, <1>2, HoldersFinite
  <2>4. \A v \in vdeleted' : vrefs'[v] = 0
    BY SMT, <1>2, <2>1 DEF UnrefVersion, IInv, Versions, TypeOK, TypeVersions
  <2> QED BY <2>3, <2>4, <1>1, <1>2 DEF IInv, Versions, UnrefVersion
<1>5. FilesKept' BY <1>1, KeptFrame DEF IInv, UnrefVersion
<1> QED BY <1>3, <1>4, <1>5

\* AtomicVersion::Ref by a Get: the version is alive and not being compacted, so its tables are kept.
LEMMA RefVersionStep ==
  ASSUME IInv, NEW r \in Reader, RefVersion(r), Referable(rvid[r])
  PROVE  (Control /\ Versions /\ InputsCurrent /\ FreshFiles /\ L0Files /\ FilesKept)'
<1> USE DEF notReaders, gcVars, instVars, flushVars, coordVars
<1>0. /\ UNCHANGED <<notReaders, vdeleted, rvid, rl0>> /\ rpc[r] = "ref"
      /\ \A q \in Reader : rpc'[q] = IF q = r THEN "check" ELSE rpc[q]
  BY GetFrame DEF IInv, TypeOK, TypeReaders, RefVersion, Get, Goto
<1>1. HoldsVersion(r)' /\ ~HoldsVersion(r) /\ \A q \in Reader : q # r => (HoldsVersion(q)' <=> HoldsVersion(q))
  BY <1>0 DEF HoldsVersion
<1>2. rvid[r] \in Vid /\ rvid[r] \in vset \ vdeleted /\ rvid[r] \notin vcompacting
  BY DEF Referable, IInv, TypeOK, TypeVersions
<1>3. (Control /\ InputsCurrent /\ FreshFiles /\ L0Files)'
  BY <1>0, ReferenceFrame
<1>4. Versions'
  <2>1. vrefs' = [vrefs EXCEPT ![rvid[r]] = @ + 1] /\ vrefs \in [Vid -> Int]
    BY DEF RefVersion, IInv, TypeOK, TypeVersions
  <2>2. ASSUME NEW v \in Vid
        PROVE  Cardinality(Holders(v))' = Cardinality(Holders(v)) + IF v = rvid[r] THEN 1 ELSE 0
    BY <1>0, <1>1, TakeReference
  <2>3. VersionRefsExact'
    <3> SUFFICES ASSUME NEW v \in Vid
                 PROVE  vrefs'[v] = Cardinality(Holders(v))'
                                    + (IF v = current /\ v \in vset THEN 1 ELSE 0)
                                    + (IF v = cvid /\ cpc # "collect" THEN 1 ELSE 0)
      BY <1>0 DEF VersionRefsExact
    <3>1. vrefs[v] = Cardinality(Holders(v)) + (IF v = current /\ v \in vset THEN 1 ELSE 0)
                     + (IF v = cvid /\ cpc # "collect" THEN 1 ELSE 0)
      BY DEF IInv, Versions, VersionRefsExact
    <3> QED BY SMT, <2>1, <2>2, <3>1, <1>2, HoldersFinite
  <2>4. \A v \in vdeleted' : vrefs'[v] = 0
    BY <1>0, <1>2, <2>1 DEF IInv, Versions, TypeOK, TypeVersions
  <2> QED BY <2>3, <2>4, <1>0, <1>1, <1>2 DEF IInv, Versions
<1>5. FilesKept'
  <2>1. \A v : v # rvid[r] => Holders(v)' = Holders(v) BY <1>0, <1>1 DEF Holders
  <2>2. /\ UNCHANGED <<gcVars, vcompacting, vset, vdeleted, skip, current>>
        /\ FilesOf(current)' = FilesOf(current) /\ \A v : FilesOf(v)' = FilesOf(v)
    BY <1>0 DEF FilesOf
  <2>3. skip # rvid[r] BY <1>2, Ranges DEF IInv, FilesKept
  <2> HIDE DEF notReaders, instVars, flushVars, coordVars
  <2>4. FilesOf(current)' \subseteq disk \ (compacted \cup deleting) BY <2>2 DEF IInv, FilesKept
  <2>5. \A v \in vset \ vdeleted : v \notin vcompacting \/ Holders(v)' # {} => FilesOf(v) \subseteq disk \ deleting
    BY <2>1, <1>2 DEF IInv, FilesKept
  <2>6. skip # 0 => skip \in vcompacting /\ Holders(skip)' = {}
    <3>1. Holders(skip)' = Holders(skip)
      <4>1. PICK n : n = skip OBVIOUS
      <4>2. Holders(n)' = Holders(n) BY <4>1, <2>1, <2>3
      <4> QED BY <4>1, <4>2, <2>2 DEF Holders
    <3> QED BY <3>1 DEF IInv, FilesKept
  <2> QED BY Zenon, <2>2, <2>4, <2>5, <2>6 DEF FilesKept, gcVars
<1> QED BY <1>3, <1>4, <1>5

\* Every step of GetWithLookupIndex keeps the parts of the invariant but the types.
LEMMA GetKeeps ==
  ASSUME IInv, NEW r \in Reader, Get(r)
  PROVE  (Control /\ Versions /\ InputsCurrent /\ FreshFiles /\ L0Files /\ FilesKept)'
<1>0. rpc = [q \in Reader |-> rpc[q]] /\ rvid \in [Reader -> 0 .. MaxVid] /\ rl0 \in [Reader -> SUBSET Fn]
  BY DEF IInv, TypeOK, TypeReaders
<1>00. UNCHANGED notReaders BY GetFrame
<1>000. \A v : FilesOf(v)' = FilesOf(v) BY <1>00 DEF notReaders, FilesOf
<1> USE <1>0, <1>00, <1>000 DEF HoldsVersion, Goto
<1>1. ASSUME NEW k \in Key, Lookup(r, k) 
      PROVE  (Control /\ Versions /\ InputsCurrent /\ FreshFiles /\ L0Files /\ FilesKept)'
  BY <1>1, ReaderFrame DEF Lookup, IInv, L0Files, NoIOError, versVars
<1>2. CASE RefMemTable(r) BY <1>2, ReaderFrame DEF RefMemTable, IInv, L0Files, NoIOError, versVars
<1>3. CASE GetFromMemTable(r) BY <1>3, ReaderFrame DEF GetFromMemTable, IInv, L0Files, NoIOError, versVars
<1>4. CASE ReadVersionId(r) BY <1>4, ReaderFrame DEF ReadVersionId, IInv, L0Files, NoIOError, versVars
<1>5. CASE RefVersion(r)
  <2>1. CASE Referable(rvid[r]) BY <2>1, <1>5, RefVersionStep
  <2>2. CASE ~Referable(rvid[r])
    BY <1>5, <2>2, ReaderFrame DEF RefVersion, IInv, L0Files, NoIOError
  <2> QED BY <2>1, <2>2
<1>6. CASE CheckL0Files(r)
  <2>1. rpc[r] = "check" BY <1>6 DEF CheckL0Files
  <2>2. ASSUME RecentEnough(r) PROVE l0[rmid[r]] \subseteq FilesOf(rvid[r])
    <3>1. rvid[r] \in Vid /\ rvid[r] \in vset \ vdeleted BY <2>1, HeldAlive
    <3>2. rmid[r] \in 0 .. MaxMid BY DEF IInv, TypeOK, TypeReaders
    <3>3. l0[rmid[r]] \subseteq vfiles[rvid[r]][0] BY <2>2, <3>1, <3>2 DEF IInv, L0Files, RecentEnough
    <3> QED BY <3>1, <3>3, LevelFiles, Zero
  <2> QED BY <1>6, <2>2, ReaderFrame DEF CheckL0Files, IInv, L0Files, NoIOError, versVars
<1>7. CASE UnrefAndRetry(r) BY <1>7, UnrefVersionStep DEF UnrefAndRetry
<1>8. CASE SearchL0(r)
  <2>1. rpc[r] = "l0" /\ rl0[r] \subseteq FilesOf(rvid[r]) BY <1>8 DEF SearchL0, IInv, L0Files
  <2> QED BY <1>8, <2>1, ReaderFrame DEF SearchL0, IInv, L0Files, NoIOError, versVars
<1>9. CASE SearchLevels(r) BY <1>9, ReaderFrame DEF SearchLevels, IInv, L0Files, NoIOError, versVars
<1>10. CASE UnrefAndReturn(r) BY <1>10, UnrefVersionStep DEF UnrefAndReturn
<1>11. CASE Return(r) BY <1>11, ReaderFrame DEF Return, IInv, L0Files, NoIOError, versVars
<1> QED
  BY <1>1, <1>2, <1>3, <1>4, <1>5, <1>6, <1>7, <1>8, <1>9, <1>10, <1>11 DEF Get

\* Every step of GetWithLookupIndex keeps the invariant.
LEMMA GetStep == ASSUME IInv, NEW r \in Reader, Get(r) PROVE IInv'
BY GetKeeps, GetTypes DEF IInv

\* A stuttering step keeps the invariant.
LEMMA StutterStep == ASSUME IInv, UNCHANGED vars PROVE IInv'
<1>1. UNCHANGED invVars /\ UNCHANGED <<writerVars, partVars, entries, memVars, lookup, committed, fileVars,
                                     gcVars, versVars, instVars, flushVars, coordVars, readVars>>
  BY DEF vars, invVars, memVars, fileVars
<1>2. TypeWriters' /\ TypeMemTables' /\ TypeFiles'
  BY <1>1 DEF IInv, TypeOK, TypeWriters, TypeMemTables, TypeFiles, writerVars, partVars, memVars, fileVars, gcVars
<1>3. TypeVersions' BY <1>1 DEF IInv, TypeOK, TypeVersions, versVars
<1>4. TypeThreads' BY <1>1 DEF IInv, TypeOK, TypeThreads, instVars, flushVars, coordVars
<1>5. TypeReaders' BY <1>1 DEF IInv, TypeOK, TypeReaders, readVars
<1> QED BY <1>1, <1>2, <1>3, <1>4, <1>5, Frame DEF IInv, TypeOK

=============================================================================
