---------------------- MODULE LsmReadPath_compactions -----------------------
(***************************************************************************)
(* IInv is kept by the collection of obsolete versions and files and by the*)
(* compaction coordinator, and so by every step (InvStep).                 *)
(***************************************************************************)
EXTENDS LsmReadPath_installs

\* Leaves are tried with Zenon; those that need arithmetic or EXCEPT cite SMT.
USE Zenon, SMT

\* what a collection keeps, whichever version it may skip
LEMMA CollectFacts ==
  ASSUME IInv, current \in vset, NEW s, Collect(s) \/ UNCHANGED <<gcVars, versVars>>,
         s # 0 => s \in vcompacting /\ Holders(s) = {}
  PROVE  /\ current \in linked' /\ vset \subseteq linked' \cup vdeleted /\ linked' \subseteq linked
         /\ \A v \in Vid, l \in Level : vfiles'[v][l] \subseteq vfiles[v][l]
         /\ \A v \in vset \ vdeleted : vfiles'[v] = vfiles[v]
         /\ compacted' \cup deleting' = compacted \cup deleting
         /\ \A v \in vset \ vdeleted : v \notin vcompacting \/ Holders(v) # {} => FilesOf(v) \subseteq disk \ deleting'
         /\ TypeVersions' /\ compacted' \subseteq Fn /\ deleting' \subseteq Fn
         /\ UNCHANGED <<disk, nextVid, vrefs, vset, vdeleted, vcompacting, current, currentId>>
<1>1. CASE UNCHANGED <<gcVars, versVars>>
  <2> USE <1>1 DEF gcVars, versVars
  <2>1. TypeVersions' BY DEF IInv, TypeOK, TypeVersions
  <2> QED BY <2>1, CurrentAlive DEF IInv, Versions, FilesKept, TypeOK, TypeFiles
<1>2. CASE Collect(s)
  <2> USE <1>2 DEF Collect
  <2> DEFINE live == UNION {FilesOf(v) : v \in (linked \ vdeleted) \ {s}}
  <2>1. current \in linked' /\ vset \subseteq linked' \cup vdeleted /\ linked' \subseteq linked
    BY CurrentAlive DEF IInv, Versions
  <2>2. \A v \in Vid : vfiles'[v] = IF v \in linked \ vdeleted THEN vfiles[v] ELSE [l \in Level |-> {}]
    OBVIOUS
  <2>3. \A v \in Vid, l \in Level : vfiles'[v][l] \subseteq vfiles[v][l] BY <2>2
  <2>4. \A v \in vset \ vdeleted : v \in Vid /\ v \in linked \ vdeleted BY DEF IInv, Versions, TypeOK, TypeVersions
  <2>5. \A v \in vset \ vdeleted : vfiles'[v] = vfiles[v] BY <2>2, <2>4
  <2>6. compacted' = compacted \cap live /\ deleting' = deleting \cup (compacted \ live) OBVIOUS
  <2>7. ASSUME NEW v \in vset \ vdeleted, v \notin vcompacting \/ Holders(v) # {}
        PROVE  FilesOf(v) \subseteq disk \ deleting'
    <3>1. v # s
      <4>1. v # 0 BY <2>4, Ranges
      <4> QED BY <2>7, <4>1
    <3>2. FilesOf(v) \subseteq live BY <2>4, <3>1
    <3>3. FilesOf(v) \subseteq disk \ deleting BY <2>7 DEF IInv, FilesKept
    <3> HIDE DEF live
    <3> QED BY <2>6, <3>2, <3>3
  <2>8. TypeVersions'
    <3>1. \A v \in Vid : vfiles[v] \in [Level -> SUBSET Fn] BY DEF IInv, TypeOK, TypeVersions
    <3>2. [l \in Level |-> {}] \in [Level -> SUBSET Fn] OBVIOUS
    <3>3. vfiles' \in [Vid -> [Level -> SUBSET Fn]] BY <3>1, <3>2
    <3> QED BY <3>3 DEF IInv, TypeOK, TypeVersions
  <2> HIDE DEF live
  <2>9. compacted' \subseteq Fn /\ deleting' \subseteq Fn /\ compacted' \cup deleting' = compacted \cup deleting
    BY <2>6 DEF IInv, TypeOK, TypeFiles
  <2> QED BY <2>1, <2>3, <2>5, <2>7, <2>8, <2>9
<1> QED BY <1>1, <1>2

\* a thread that collects, and gives mutex_ back if it holds it, is at rest afterwards
LEMMA CollectStep ==
  ASSUME IInv, current \in vset, stage # "edit", NEW s, Collect(s) \/ UNCHANGED <<gcVars, versVars>>,
         s # 0 => s \in vcompacting /\ Holders(s) = {},
         stage' = "none", skip' = 0, UNCHANGED <<memVars, fileVars, readVars, scheduled>>,
         Uninstalled' = Uninstalled, Produced' = Produced, Unborn' = Unborn,
         \A m \in Unborn : flushFile'[m] = flushFile[m],
         \A g \in Flusher : fmem'[g] \subseteq fmem[g],
         cpc' = "pick" => cpc = "pick" /\ cvid' = cvid,
         cpc' \notin {"idle", "collect"} => cpc \notin {"idle", "collect"} /\ cvid' = cvid,
         \A v \in Vid : (v = cvid' /\ cpc' # "collect") <=> (v = cvid /\ cpc # "collect")
  PROVE  (Versions /\ InputsCurrent /\ FreshFiles /\ L0Files /\ FilesKept)'
         /\ TypeVersions' /\ (TypeMemTables => (entries' = entries => TypeMemTables')) /\ TypeFiles' /\ TypeReaders'
<1>1. /\ current \in linked' /\ vset \subseteq linked' \cup vdeleted /\ linked' \subseteq linked
      /\ \A v \in Vid, l \in Level : vfiles'[v][l] \subseteq vfiles[v][l]
      /\ \A v \in vset \ vdeleted : vfiles'[v] = vfiles[v]
      /\ compacted' \cup deleting' = compacted \cup deleting
      /\ \A v \in vset \ vdeleted : v \notin vcompacting \/ Holders(v) # {} => FilesOf(v) \subseteq disk \ deleting'
      /\ TypeVersions' /\ compacted' \subseteq Fn /\ deleting' \subseteq Fn
      /\ UNCHANGED <<disk, nextVid, vrefs, vset, vdeleted, vcompacting, current, currentId>>
  BY CollectFacts
<1>2. \A v : Holders(v)' = Holders(v) BY DEF Holders, HoldsVersion, readVars
<1>3. current \in Vid /\ current \in vset \ vdeleted BY CurrentAlive
<1>4. \A v \in vset \ vdeleted : FilesOf(v)' = FilesOf(v) BY SMT, <1>1 DEF FilesOf
<1>5. \A v \in Vid : FilesOf(v)' \subseteq FilesOf(v) BY SMT, <1>1 DEF FilesOf
<1>6. FilesOf(current)' = FilesOf(current) /\ vfiles'[current'] = vfiles[current] BY SMT, <1>1, <1>3 DEF FilesOf
<1>7. Versions'
  <2>1. VersionRefsExact'
    <3> SUFFICES ASSUME NEW v \in Vid
                 PROVE  vrefs[v] = Cardinality(Holders(v)) + (IF v = current /\ v \in vset THEN 1 ELSE 0)
                                   + (IF v = cvid' /\ cpc' # "collect" THEN 1 ELSE 0)
      BY <1>1, <1>2 DEF VersionRefsExact
    <3> QED BY DEF IInv, Versions, VersionRefsExact
  <2> QED BY <1>1, <2>1 DEF IInv, Versions, HoldsVersion, readVars
<1>8. InputsCurrent'
  <2>1. ASSUME cpc' = "pick", NEW l \in Level PROVE vfiles'[cvid'][l] \subseteq vfiles[current][l]
    <3>1. cvid \in Vid /\ cvid' = cvid /\ cpc = "pick" BY <2>1 DEF IInv, Control
    <3> QED BY <1>1, <3>1 DEF IInv, InputsCurrent
  <2> QED BY <1>6, <2>1 DEF IInv, InputsCurrent, Inputs
<1>9. FreshFiles'
  <2>1. \A v \in Vid : FilesOf(v)' \subseteq 1 .. nextFile - 1 BY <1>5 DEF IInv, FreshFiles
  <2>2. disk' \cup compacted' \cup deleting' \subseteq 1 .. nextFile - 1 BY <1>1 DEF IInv, FreshFiles
  <2>3. /\ \A f \in Flusher : fmem'[f] \subseteq scheduled'
        /\ \A f, g \in Flusher : f # g => fmem'[f] \cap fmem'[g] = {}
    BY DEF IInv, FreshFiles
  <2>4. \A m \in Unborn : flushFile'[m] \in disk' \ (compacted' \cup deleting' \cup FilesOf(current)')
    BY <1>1, <1>6 DEF IInv, FreshFiles
  <2>5. \A c \in Produced : c.out \subseteq disk' \ (compacted' \cup deleting' \cup FilesOf(current)')
    BY <1>1, <1>6 DEF IInv, FreshFiles
  <2>6. /\ \A m, n \in Unborn : m # n => flushFile'[m] # flushFile'[n]
        /\ \A m \in Unborn, c \in Produced : flushFile'[m] \notin c.out
    BY DEF IInv, FreshFiles
  <2> QED BY <2>1, <2>2, <2>3, <2>4, <2>5, <2>6 DEF IInv, FreshFiles, fileVars
<1>10. L0Files'
  <2>1. \A m \in 0 .. MaxMid : l0[m] \subseteq vfiles[current][0] BY DEF IInv, L0Files
  <2>2. ASSUME NEW r \in Reader, rpc[r] = "l0" PROVE rl0[r] \subseteq FilesOf(rvid[r])'
    <3>1. rvid[r] \in vset \ vdeleted BY <2>2, HeldAlive DEF HoldsVersion
    <3>2. FilesOf(rvid[r])' = FilesOf(rvid[r]) BY SMT, <1>1, <3>1 DEF FilesOf, readVars
    <3> QED BY <2>2, <3>2 DEF IInv, L0Files
  <2>3. \A v \in vset' \ vdeleted', m \in 0 .. MaxMid : lastVid[m] <= v => l0[m] \subseteq vfiles'[v][0]
    BY <1>1 DEF IInv, L0Files
  <2>4. \A m \in Unborn : m \in fmids[flushFile'[m]] BY DEF IInv, L0Files
  <2>5. /\ \A m \in 0 .. MaxMid : \A f \in l0[m] : m \in fmids[f]
        /\ \A m \in 0 .. MaxMid : lastVid[m] <= current
        /\ \A c \in Produced : c.tgt = 0 => \A f \in c.out, g \in c.in0 : fmids[g] \subseteq fmids[f]
        /\ \A r \in Reader : rpc[r] # "ioerror"
    BY DEF IInv, L0Files, NoIOError
  <2>6. UNCHANGED <<l0, lastVid, fmids, rpc, rl0>> BY DEF memVars, fileVars, readVars
  <2> QED BY <1>1, <1>6, <2>1, <2>2, <2>3, <2>4, <2>5, <2>6 DEF L0Files, NoIOError
<1>11. FilesKept'
  <2>1. FilesOf(current) \subseteq disk' \ (compacted' \cup deleting') BY <1>1 DEF IInv, FilesKept
  <2>2. \A v \in vset' \ vdeleted' : v \notin vcompacting' \/ Holders(v)' # {} => FilesOf(v)' \subseteq disk' \ deleting'
    BY <1>1, <1>2, <1>4
  <2> QED BY <1>6, <2>1, <2>2 DEF FilesKept
<1>12. TypeFiles' /\ TypeReaders' BY <1>1 DEF IInv, TypeOK, TypeFiles, TypeReaders, fileVars, readVars
<1> QED BY <1>1, <1>7, <1>8, <1>9, <1>10, <1>11, <1>12 DEF TypeMemTables, memVars

\* FlushUnlock: a flush thread leaves mutex_ and may collect.
LEMMA FlushUnlockStep == ASSUME IInv, NEW f \in Flusher, FlushUnlock(f) PROVE IInv'
<1> USE DEF FlushUnlock, Unlock
<1>1. mutex # Coordinator /\ mutex # NoOwner /\ cpc # "install" BY ConstantsOK DEF IInv, Control
<1>2. current \in vset BY DEF IInv, Control, Appended
<1>3. Uninstalled' = Uninstalled /\ Produced' = Produced
  BY <1>1, ConstantsOK DEF Uninstalled, Produced, coordVars
<1>4. \A g \in Flusher : fmem'[g] = IF g = f THEN {} ELSE fmem[g] BY DEF IInv, TypeOK, TypeThreads
<1>5. Unborn' = UNION {fmem[g] : g \in {h \in Flusher : h # f}}
  <2>1. Unborn' = UNION {fmem'[g] : g \in Flusher} BY ConstantsOK DEF Unborn
  <2> QED BY SMT, <1>4, <2>1
<1>6. Unborn = UNION {fmem[g] : g \in {h \in Flusher : h # f}} BY DEF Unborn
<1>7. \A m \in Unborn : flushFile'[m] = flushFile[m]
  <2>1. \A m \in Unborn : m \notin fmem[f] BY SMT, <1>6 DEF IInv, FreshFiles
  <2>2. \A m \in Unborn : m \in Mid BY SMT DEF Unborn, IInv, TypeOK, TypeThreads
  <2> QED BY <2>1, <2>2
<1>8. Collect(0) \/ UNCHANGED <<gcVars, versVars>> OBVIOUS
<1>9. /\ (Versions /\ InputsCurrent /\ FreshFiles /\ L0Files /\ FilesKept)'
      /\ TypeVersions' /\ TypeMemTables' /\ TypeFiles' /\ TypeReaders'
  BY SMT, <1>2, <1>3, <1>4, <1>5, <1>6, <1>7, <1>8, CollectStep DEF IInv, TypeOK, coordVars
<1>10. TypeWriters' BY DEF IInv, TypeOK, TypeWriters, writerVars, partVars
<1>11. TypeThreads'
  <2>1. fpc' \in [Flusher -> {"idle", "install"}] /\ fmem' \in [Flusher -> SUBSET Mid]
    BY DEF IInv, TypeOK, TypeThreads
  <2>2. flushFile' \in [Mid -> 0 .. MaxFile] BY SMT, ConstantsOK DEF IInv, TypeOK, TypeThreads
  <2> QED BY SMT, <2>1, <2>2, ConstantsOK DEF IInv, TypeOK, TypeThreads, coordVars
<1>12. Control'
  <2>1. \A g \in Flusher : fpc'[g] = "install" <=> mutex' = g
    BY ConstantsOK DEF IInv, Control, TypeOK, TypeThreads
  <2>2. current' = current /\ vset' = vset BY <1>8 DEF Collect, versVars
  <2> QED BY <1>1, <1>2, <2>1, <2>2, ConstantsOK DEF IInv, Control, Appended, coordVars
<1> QED BY <1>9, <1>10, <1>11, <1>12 DEF IInv, TypeOK

\* CompactionUnlock: the coordinator collects, without its own version, and leaves mutex_.
LEMMA CompactionUnlockStep == ASSUME IInv, CompactionUnlock PROVE IInv'
<1> USE DEF CompactionUnlock, Unlock
<1>1. mutex \notin Flusher /\ cpc \in {"move", "install"} BY ConstantsOK DEF IInv, Control
<1>2. current \in vset BY DEF IInv, Control, Appended
<1>3. Uninstalled' = Uninstalled /\ Produced' = Produced
  BY ConstantsOK DEF Uninstalled, Produced
<1>4. Unborn' = Unborn BY <1>1, ConstantsOK DEF Unborn, flushVars
<1>5. skip # 0 => skip \in vcompacting /\ Holders(skip) = {} BY DEF IInv, FilesKept
<1>6. /\ (Versions /\ InputsCurrent /\ FreshFiles /\ L0Files /\ FilesKept)'
      /\ TypeVersions' /\ TypeMemTables' /\ TypeFiles' /\ TypeReaders'
  BY <1>1, <1>2, <1>3, <1>4, <1>5, CollectStep DEF IInv, TypeOK, flushVars
<1>7. TypeWriters' BY DEF IInv, TypeOK, TypeWriters, writerVars, partVars
<1>8. TypeThreads' BY SMT, ConstantsOK DEF IInv, TypeOK, TypeThreads, flushVars
<1>9. Control'
  <2>1. \A g \in Flusher : fpc'[g] = "install" <=> mutex' = g
    BY <1>1, ConstantsOK DEF IInv, Control, flushVars
  <2>2. current' = current /\ vset' = vset BY DEF Collect
  <2> QED BY <1>1, <1>2, <2>1, <2>2, ConstantsOK DEF IInv, Control, Appended
<1> QED BY <1>6, <1>7, <1>8, <1>9 DEF IInv, TypeOK

\* DeleteObsoleteFiles: the task of the cleaner thread.
LEMMA DeleteObsoleteFilesStep == ASSUME IInv, DeleteObsoleteFiles PROVE IInv'
<1> USE DEF DeleteObsoleteFiles, instVars
<1>1. stage = "none" /\ current \in vset /\ skip = 0 BY DEF IInv, Control
<1>2. Uninstalled' = Uninstalled /\ Produced' = Produced /\ Unborn' = Unborn
  BY DEF Uninstalled, Produced, Unborn, coordVars, flushVars
<1>3. /\ (Versions /\ InputsCurrent /\ FreshFiles /\ L0Files /\ FilesKept)'
      /\ TypeVersions' /\ TypeMemTables' /\ TypeFiles' /\ TypeReaders'
  BY <1>1, <1>2, CollectStep DEF IInv, TypeOK, flushVars, coordVars
<1>4. (TypeWriters /\ TypeThreads)'
  BY DEF IInv, TypeOK, TypeWriters, TypeThreads, writerVars, partVars, flushVars, coordVars
<1>5. Control' BY <1>1 DEF Collect, IInv, Control, Appended, flushVars, coordVars
<1> QED BY <1>3, <1>4, <1>5 DEF IInv, TypeOK

\* FinishCompaction: the last collection of CoordinateMajorCompaction.
LEMMA FinishCompactionStep == ASSUME IInv, FinishCompaction PROVE IInv'
<1> USE DEF FinishCompaction, instVars
<1>1. stage = "none" /\ current \in vset /\ skip = 0 BY DEF IInv, Control
<1>2. Uninstalled' = Uninstalled /\ Produced' = Produced /\ Unborn' = Unborn
  BY DEF Uninstalled, Produced, Unborn, flushVars
<1>3. /\ (Versions /\ InputsCurrent /\ FreshFiles /\ L0Files /\ FilesKept)'
      /\ TypeVersions' /\ TypeMemTables' /\ TypeFiles' /\ TypeReaders'
  BY <1>1, <1>2, Ranges, CollectStep DEF IInv, TypeOK, flushVars
<1>4. (TypeWriters /\ TypeThreads)'
  BY SMT, ConstantsOK DEF IInv, TypeOK, TypeWriters, TypeThreads, writerVars, partVars, flushVars
<1>5. Control' BY <1>1 DEF Collect, IInv, Control, Appended, flushVars
<1> QED BY <1>3, <1>4, <1>5 DEF IInv, TypeOK

\* DeleteFile: a file that nobody uses leaves the StoCs.
LEMMA DeleteFileStep == ASSUME IInv, NEW f \in Fn, DeleteFile(f) PROVE IInv'
<1> USE DEF DeleteFile
<1>1. (TypeWriters /\ TypeMemTables /\ TypeVersions /\ TypeThreads /\ TypeReaders)'
  BY DEF IInv, TypeOK, TypeWriters, TypeMemTables, TypeVersions, TypeThreads, TypeReaders, writerVars,
         partVars, memVars, versVars, instVars, flushVars, coordVars, readVars
<1>2. TypeFiles' BY DEF IInv, TypeOK, TypeFiles
<1>3. Control' BY DEF IInv, Control, Appended, versVars, instVars, flushVars, coordVars
<1>4. Versions' BY SMT DEF IInv, Versions, VersionRefsExact, Holders, HoldsVersion, versVars, coordVars, readVars
<1>5. Uninstalled' = Uninstalled /\ Produced' = Produced /\ Unborn' = Unborn /\ NextL0' = NextL0
      /\ \A v : FilesOf(v)' = FilesOf(v) /\ Holders(v)' = Holders(v)
  BY DEF Uninstalled, Produced, Unborn, NextL0, Added, Deleted, FilesOf, Holders, HoldsVersion,
         versVars, instVars, coordVars, flushVars, readVars
<1>6. InputsCurrent' BY <1>5 DEF IInv, InputsCurrent, Inputs, coordVars, versVars
<1>7. FreshFiles' BY SMT, <1>5 DEF IInv, FreshFiles, flushVars, versVars
<1>8. L0Files'
  BY <1>5 DEF IInv, L0Files, NoIOError, memVars, flushVars, readVars, versVars, instVars
<1>9. FilesKept'
  BY <1>5 DEF IInv, FilesKept, versVars, instVars
<1> QED BY <1>1, <1>2, <1>3, <1>4, <1>6, <1>7, <1>8, <1>9 DEF IInv, TypeOK

\* a step of the coordinator between installations: what it leaves alone
LEMMA CoordinatorFrame ==
  ASSUME IInv, UNCHANGED <<writerVars, partVars, entries, memVars, lookup, committed, fileVars, gcVars,
                           nextVid, vfiles, vset, vcompacting, linked, current, currentId,
                           instVars, flushVars, readVars>>
  PROVE  /\ (TypeWriters /\ TypeMemTables /\ TypeFiles /\ TypeReaders)'
         /\ Unborn' = Unborn
         /\ \A v : FilesOf(v)' = FilesOf(v) /\ Holders(v)' = Holders(v)
<1>1. (TypeWriters /\ TypeMemTables /\ TypeFiles /\ TypeReaders)'
  BY DEF IInv, TypeOK, TypeWriters, TypeMemTables, TypeFiles, TypeReaders, writerVars, partVars,
         memVars, fileVars, gcVars, readVars
<1>2. Unborn' = Unborn /\ \A v : FilesOf(v)' = FilesOf(v) /\ Holders(v)' = Holders(v)
  BY DEF Unborn, FilesOf, Holders, HoldsVersion, instVars, flushVars, readVars
<1> QED BY <1>1, <1>2

\* StartCompaction: the coordinator references the current version.
LEMMA StartCompactionStep == ASSUME IInv, StartCompaction PROVE IInv'
<1> USE DEF StartCompaction
<1>1. stage = "none" /\ current \in vset /\ current \in Vid /\ cvid = 0 BY Zero DEF IInv, Control
<1>2. /\ (TypeWriters /\ TypeMemTables /\ TypeFiles /\ TypeReaders)'
      /\ Unborn' = Unborn
      /\ \A v : FilesOf(v)' = FilesOf(v) /\ Holders(v)' = Holders(v)
  BY CoordinatorFrame
<1>3. (TypeVersions /\ TypeThreads)'
  BY SMT, <1>1, Ranges DEF IInv, TypeOK, TypeVersions, TypeThreads, instVars, flushVars
<1>4. Control' BY <1>1 DEF IInv, Control, Appended, instVars, flushVars
<1>5. Versions'
  <2>1. \A v \in Vid : vrefs'[v] = IF v = current THEN vrefs[v] + 1 ELSE vrefs[v]
    BY DEF IInv, TypeOK, TypeVersions
  <2>2. VersionRefsExact'
    <3> SUFFICES ASSUME NEW v \in Vid
                 PROVE  vrefs'[v] = Cardinality(Holders(v)) + (IF v = current /\ v \in vset THEN 1 ELSE 0)
                                    + (IF v = current THEN 1 ELSE 0)
      BY <1>2 DEF VersionRefsExact
    <3>1. vrefs[v] = Cardinality(Holders(v)) + (IF v = current /\ v \in vset THEN 1 ELSE 0)
                     + (IF v = cvid /\ cpc # "collect" THEN 1 ELSE 0)
      BY DEF IInv, Versions, VersionRefsExact
    <3>2. v # cvid BY <1>1, Ranges
    <3> QED BY SMT, <2>1, <3>1, <3>2, HoldersFinite
  <2>3. \A v \in vdeleted : vrefs'[v] = 0
    BY <1>1, <2>1, CurrentAlive DEF IInv, Versions, TypeOK, TypeVersions
  <2> QED BY <1>1, <2>2, <2>3 DEF IInv, Versions, HoldsVersion, readVars
<1>6. Uninstalled' = Uninstalled /\ Produced' = Produced BY DEF Uninstalled, Produced, instVars
<1>7. InputsCurrent' BY <1>6 DEF IInv, InputsCurrent, Inputs
<1>8. FreshFiles' BY <1>2, <1>6 DEF IInv, FreshFiles, fileVars, gcVars, flushVars
<1>9. L0Files'
  BY <1>1, <1>2, <1>6 DEF IInv, L0Files, NoIOError, memVars, fileVars, flushVars, readVars, instVars
<1>10. FilesKept' BY <1>2 DEF IInv, FilesKept, gcVars, instVars
<1> QED BY <1>2, <1>3, <1>4, <1>5, <1>7, <1>8, <1>9, <1>10 DEF IInv, TypeOK

\* ReleaseCompacted: the coordinator drops its reference.
LEMMA ReleaseCompactedStep == ASSUME IInv, ReleaseCompacted PROVE IInv'
<1> USE DEF ReleaseCompacted
<1>1. cvid \in Vid /\ cvid \in vset /\ mutex # Coordinator BY DEF IInv, Control, Versions
<1>2. /\ (TypeWriters /\ TypeMemTables /\ TypeFiles /\ TypeReaders)'
      /\ Unborn' = Unborn
      /\ \A v : FilesOf(v)' = FilesOf(v) /\ Holders(v)' = Holders(v)
  BY CoordinatorFrame
<1>3. (TypeVersions /\ TypeThreads)'
  BY SMT, <1>1 DEF IInv, TypeOK, TypeVersions, TypeThreads, UnrefVersion, instVars, flushVars
<1>4. Control' BY <1>1 DEF IInv, Control, Appended, instVars, flushVars
<1>5. Versions'
  <2>1. \A v \in Vid : vrefs'[v] = IF v = cvid THEN vrefs[v] - 1 ELSE vrefs[v]
    BY DEF UnrefVersion, IInv, TypeOK, TypeVersions
  <2>2. vrefs[cvid] >= 1 BY SMT, <1>1, HoldersFinite DEF IInv, Versions, VersionRefsExact
  <2>3. VersionRefsExact'
    <3> SUFFICES ASSUME NEW v \in Vid
                 PROVE  vrefs'[v] = Cardinality(Holders(v)) + (IF v = current /\ v \in vset THEN 1 ELSE 0)
      BY SMT, <1>2, HoldersFinite DEF VersionRefsExact
    <3>1. vrefs[v] = Cardinality(Holders(v)) + (IF v = current /\ v \in vset THEN 1 ELSE 0)
                     + (IF v = cvid THEN 1 ELSE 0)
      BY DEF IInv, Versions, VersionRefsExact
    <3>2. Cardinality(Holders(v)) \in Nat BY HoldersFinite
    <3>3. CASE v = cvid BY SMT, <2>1, <3>1, <3>2, <3>3
    <3>4. CASE v # cvid BY SMT, <2>1, <3>1, <3>2, <3>4
    <3> QED BY <3>3, <3>4
  <2>4. \A v \in vdeleted' : vrefs'[v] = 0
    BY SMT, <1>1, <2>1, <2>2 DEF UnrefVersion, IInv, Versions, TypeOK, TypeVersions
  <2>5. vdeleted' \subseteq vset /\ vdeleted \subseteq vdeleted' BY <1>1 DEF UnrefVersion, IInv, Versions
  <2> QED BY <2>3, <2>4, <2>5 DEF IInv, Versions, HoldsVersion, readVars
<1>6. Uninstalled' = Uninstalled /\ Produced' = Produced /\ NextL0' = NextL0
  BY DEF Uninstalled, Produced, NextL0, Added, Deleted, instVars, flushVars
<1>7. InputsCurrent' BY <1>6 DEF IInv, InputsCurrent, Inputs
<1>8. FreshFiles' BY <1>2, <1>6 DEF IInv, FreshFiles, fileVars, gcVars, flushVars
<1>9. L0Files'
  <2>1. vdeleted \subseteq vdeleted' BY DEF UnrefVersion
  <2> QED BY <1>2, <1>6, <2>1 DEF IInv, L0Files, NoIOError, memVars, fileVars, flushVars, readVars, instVars
<1>10. FilesKept' BY <1>2 DEF UnrefVersion, IInv, FilesKept, gcVars, instVars
<1> QED BY <1>2, <1>3, <1>4, <1>5, <1>7, <1>8, <1>9, <1>10 DEF IInv, TypeOK

\* CompactionLock: the coordinator takes mutex_ to install moves or a finished compaction.
LEMMA CompactionLockStep == ASSUME IInv, NEW cs, CompactionLock(cs) PROVE IInv'
<1> USE DEF CompactionLock, Lock
<1>1. stage = "none" /\ current \in vset /\ current \in Vid BY Zero DEF IInv, Control
<1>2. nextVid \in Vid /\ nextVid \in 0 .. MaxVid BY SMT DEF IInv, TypeOK, TypeVersions, Vid
<1>3. cs \subseteq ctodo \cup ccur /\ Uninstalled' = Uninstalled /\ Produced' = Produced
  BY <1>1, ConstantsOK DEF Uninstalled, Produced, IInv, Control
<1>4. cs \subseteq Compactions /\ cs \subseteq Uninstalled
  BY <1>1, <1>3, ConstantsOK DEF IInv, TypeOK, TypeThreads, Uninstalled
<1>5. EditMids(cs) \subseteq Mid
  <2>1. \A c \in cs : \A f \in Inputs(c) : f \in Fn BY <1>4 DEF Compactions, Inputs
  <2>2. \A f \in Fn : fmids[f] \subseteq Mid BY DEF IInv, TypeOK, TypeFiles
  <2> QED BY SMT, <2>1, <2>2 DEF EditMids
<1>6. (TypeWriters /\ TypeMemTables /\ TypeFiles /\ TypeReaders)'
  BY DEF IInv, TypeOK, TypeWriters, TypeMemTables, TypeFiles, TypeReaders, writerVars, partVars,
         memVars, fileVars, gcVars, readVars
<1>7. TypeVersions'
  <2>1. /\ nextVid' = nextVid + 1 /\ nextVid <= MaxVid
        /\ UNCHANGED <<vfiles, vrefs, vset, vdeleted, vcompacting, linked, current, currentId>>
    OBVIOUS
  <2>2. nextVid' \in 2 .. MaxVid + 1 BY SMT, <2>1, ConstantsOK DEF IInv, TypeOK, TypeVersions
  <2> HIDE DEF CompactionLock
  <2> QED BY <2>1, <2>2 DEF IInv, TypeOK, TypeVersions
<1>8. TypeThreads'
  <2>1. mutex' = Coordinator /\ stage' = "edit" /\ newVid' = nextVid /\ pend' = EditMids(cs) /\ skip' = 0
        /\ ccur' = cs /\ cpc' \in {"move", "install"}
        /\ UNCHANGED <<fpc, fmem, flushFile, scheduled, cvid, ctodo>>
    BY DEF flushVars
  <2>2. 0 \in 0 .. MaxVid BY SMT, ConstantsOK
  <2>3. TypeThreads BY DEF IInv, TypeOK
  <2> HIDE DEF CompactionLock, Lock
  <2> QED BY <1>2, <1>4, <1>5, <2>1, <2>2, <2>3 DEF TypeThreads
<1>9. Control'
  <2>1. \A v \in vset \cup linked : v < nextVid BY <1>1, LastVidOld
  <2>2. nextVid < nextVid'
    <3>1. nextVid' = nextVid + 1 OBVIOUS
    <3> HIDE DEF CompactionLock
    <3> QED BY SMT, <1>2, <3>1 DEF Vid
  <2>3. \A f \in Flusher : fpc'[f] = "install" <=> mutex' = f
    BY ConstantsOK DEF IInv, Control, flushVars
  <2> QED BY <1>1, <1>2, <1>5, <2>1, <2>2, <2>3, ConstantsOK DEF IInv, Control, Appended, flushVars
<1>10. Versions'
  <2>1. \A v \in vset \cup linked : v < nextVid'
    <3>1. nextVid' = nextVid + 1 OBVIOUS
    <3> HIDE DEF CompactionLock
    <3> QED BY SMT, <1>1, <1>2, <3>1, LastVidOld DEF Vid
  <2>2. /\ UNCHANGED <<vrefs, vset, vdeleted, linked, current, cvid, rpc, rvid>>
        /\ cpc \in {"move", "run"} /\ cpc' \in {"move", "install"}
    BY DEF readVars
  <2>3. Versions BY DEF IInv
  <2> HIDE DEF CompactionLock, Lock
  <2> QED BY <2>1, <2>2, <2>3, VersionsFrame
<1>11. Unborn' = Unborn /\ \A v : FilesOf(v)' = FilesOf(v) /\ Holders(v)' = Holders(v)
  BY <1>1, ConstantsOK DEF Unborn, FilesOf, Holders, HoldsVersion, flushVars, readVars
<1>12. InputsCurrent' BY <1>3 DEF IInv, InputsCurrent, Inputs
<1>13. FreshFiles' BY <1>3, <1>11 DEF IInv, FreshFiles, fileVars, gcVars, flushVars
<1>14. L0Files'
  <2>1. \A m \in 0 .. MaxMid : lastVid[m] <= nextVid BY <1>1, LastVidOld
  <2>2. ASSUME NEW m \in 0 .. MaxMid, m \notin EditMids(cs) PROVE l0[m] \subseteq NextL0'
    <3> SUFFICES ASSUME NEW f \in l0[m], f \in Deleted(0)' PROVE FALSE
      BY <1>1 DEF NextL0, IInv, L0Files
    <3>1. m \in fmids[f] BY DEF IInv, L0Files
    <3>2. PICK c \in cs : (c.lev = 0 /\ f \in c.in0) \/ (c.lev + 1 = 0 /\ f \in c.in1)
      BY ConstantsOK DEF Deleted
    <3>3. c.lev \in Level /\ c.tgt \in {c.lev, c.lev + 1} BY <1>4, InputsInCurrent
    <3>4. c.lev = 0 /\ f \in Inputs(c) /\ c.tgt \in {0, 1}
      <4> HIDE DEF CompactionLock, Lock
      <4>1. c.lev + 1 # 0 BY SMT, <3>3, ConstantsOK DEF Level
      <4>2. c.lev = 0 /\ f \in c.in0 BY <3>2, <4>1
      <4>3. c.tgt \in {0, 1} BY SMT, <3>3, <4>2
      <4> QED BY <4>2, <4>3 DEF Inputs
    <3>5. m \in UNION {fmids[g] : g \in Inputs(c)} BY <3>1, <3>4, Zenon
    <3>6. c \in {d \in cs : d.lev = 0 /\ d.tgt \in {0, 1}} BY <3>4, Zenon
    <3>7. m \in EditMids(cs) BY <3>5, <3>6, Zenon DEF EditMids
    <3> QED BY <2>2, <3>7
  <2> QED BY <1>1, <1>3, <1>11, <2>1, <2>2
         DEF IInv, L0Files, NoIOError, memVars, fileVars, flushVars, readVars
<1>15. FilesKept' BY <1>11 DEF IInv, FilesKept, gcVars
<1> QED BY <1>6, <1>7, <1>8, <1>9, <1>10, <1>12, <1>13, <1>14, <1>15 DEF IInv, TypeOK

\* what is known of a compaction the coordinator picked, before its merge
Picked(c, lev, l, u) ==
  /\ c \in Compactions /\ c.lev = lev /\ c.tgt \in {lev, lev + 1}
  /\ c.in0 \subseteq l /\ c.in1 \subseteq u /\ c.out = {} /\ (c.tgt = lev => c.in1 = {})

\* what ComputeNonOverlappingSet may pick from the files l of a level and u of the next
LEMMA PickFacts ==
  ASSUME NEW lev \in 0 .. NumLevels - 2, NEW l \in SUBSET Fn, NEW u \in SUBSET Fn, NEW c \in Pick(lev, l, u)
  PROVE  Picked(c, lev, l, u)
<1>1. \A s \in Component(l, u) : s \subseteq l BY DEF Component
<1>2. \E t \in {lev, lev + 1}, a \in SUBSET l, b \in SUBSET u :
        c = Compaction(lev, t, a, b) /\ (t = lev => b = {})
  <2> DEFINE Below(s) == {h \in u : Overlaps(h, s)}
             Whole == {s \in Component(l, u) : Cardinality(s) + Cardinality(Below(s)) <= MaxInputs}
             Seeds == UNION (Component(l, u) \ Whole)
             Narrow == {f \in Seeds : 1 + Cardinality(Below({f})) <= MaxInputs}
             Room(f) == MaxInputs - 1 - Cardinality(Below({f}))
             First == {Compaction(lev, lev + 1, s, Below(s)) : s \in Whole}
             Second == UNION {{Compaction(lev, lev + 1, s \cup {f}, Below({f})) :
                         s \in {t \in SUBSET {h \in l \ {f} : Inside(h, Below({f}))} :
                                  /\ Cardinality(t) <= Room(f)
                                  /\ \A h \in l \ (t \cup {f}) : Inside(h, Below({f})) => Cardinality(t) = Room(f)}}
                         : f \in Narrow}
             Third == {Compaction(lev, lev, s, {}) :
                         s \in {t \in SUBSET l : /\ \E f \in t \ Narrow : f \in Seeds /\ \A g \in t : Overlaps(g, {f})
                                                 /\ Cardinality(t) <= MaxInputs}}
  <2>1. c \in First \/ c \in Second \/ c \in Third BY DEF Pick
  <2>2. Narrow \subseteq l BY <1>1
  <2>3. \A s : Below(s) \in SUBSET u OBVIOUS
  <2>4. Whole \subseteq SUBSET l /\ lev + 1 # lev BY SMT, <1>1
  <2>5. CASE c \in First
    <3>1. PICK s \in Whole : c = Compaction(lev, lev + 1, s, Below(s)) BY <2>5
    <3> HIDE DEF Below, Whole
    <3> QED BY <2>3, <2>4, <3>1
  <2>6. CASE c \in Second
    <3>1. PICK f \in Narrow : \E s \in SUBSET {h \in l \ {f} : Inside(h, Below({f}))} :
                               c = Compaction(lev, lev + 1, s \cup {f}, Below({f})) BY <2>6
    <3>2. PICK s \in SUBSET {h \in l \ {f} : Inside(h, Below({f}))} :
                               c = Compaction(lev, lev + 1, s \cup {f}, Below({f})) BY <3>1
    <3>3. s \cup {f} \in SUBSET l BY <2>2
    <3> HIDE DEF Below, Narrow
    <3> QED BY <2>3, <2>4, <3>2, <3>3
  <2>7. CASE c \in Third
    <3>1. PICK s \in SUBSET l : c = Compaction(lev, lev, s, {}) BY <2>7
    <3> QED BY <3>1
  <2> QED BY <2>1, <2>5, <2>6, <2>7
<1>3. PICK t \in {lev, lev + 1}, a \in SUBSET l, b \in SUBSET u : 
        c = Compaction(lev, t, a, b) /\ (t = lev => b = {})
  BY <1>2
<1>4. lev \in Level /\ lev + 1 \in Level BY SMT, ConstantsOK DEF Level
<1>5. /\ c.lev = lev /\ c.tgt = t /\ c.in0 = a /\ c.in1 = b /\ c.out = {}
      /\ c = [lev |-> lev, tgt |-> t, in0 |-> a, in1 |-> b, out |-> {}]
  BY <1>3 DEF Compaction
<1>6. c \in Compactions BY <1>4, <1>5 DEF Compactions
<1> QED BY <1>3, <1>5, <1>6 DEF Picked

\* the batch of ComputeCompactions
LEMMA BatchFacts ==
  ASSUME IInv, ComputeCompactions
  PROVE  \E lev \in 0 .. NumLevels - 2 : \E cs \in SUBSET Compactions :
           /\ \A c \in cs : /\ c.lev = lev /\ c.tgt \in {lev, lev + 1} /\ c.out = {}
                            /\ (c.tgt = lev => c.in1 = {})
                            /\ c.in0 \subseteq vfiles[cvid][lev] /\ c.in1 \subseteq vfiles[cvid][lev + 1]
           /\ \A c, d \in cs : c # d => Inputs(c) \cap Inputs(d) = {}
           /\ ctodo' = {d \in cs : ~Trivial(d)}
           /\ ccur' = {[d EXCEPT !.out = d.in0] : d \in {x \in cs : Trivial(x)}}
           /\ cpc' = IF ccur' = {} THEN "run" ELSE "move"
<1>1. cvid \in Vid BY DEF ComputeCompactions, IInv, Control
<1>2. PICK lev \in 0 .. NumLevels - 2, c \in Compactions :
        /\ c \in Pick(lev, vfiles[cvid][lev], vfiles[cvid][lev + 1])
        /\ \E cs \in {{c}} \cup {{c, d} : d \in Pick(lev, Rest(c, vfiles[cvid][lev]), Rest(c, vfiles[cvid][lev + 1]))} :
             /\ ctodo' = {d \in cs : ~Trivial(d)}
             /\ ccur' = {[d EXCEPT !.out = d.in0] : d \in {x \in cs : Trivial(x)}}
             /\ cpc' = IF ccur' = {} THEN "run" ELSE "move"
  <2>1. PICK lev \in 0 .. NumLevels - 2 :
          \E c \in Pick(lev, vfiles[cvid][lev], vfiles[cvid][lev + 1]) :
            \E cs \in {{c}} \cup {{c, d} : d \in Pick(lev, Rest(c, vfiles[cvid][lev]), Rest(c, vfiles[cvid][lev + 1]))} :
             /\ ctodo' = {d \in cs : ~Trivial(d)}
             /\ ccur' = {[d EXCEPT !.out = d.in0] : d \in {x \in cs : Trivial(x)}}
             /\ cpc' = IF ccur' = {} THEN "run" ELSE "move"
    BY Zenon DEF ComputeCompactions
  <2>2. vfiles[cvid][lev] \in SUBSET Fn /\ vfiles[cvid][lev + 1] \in SUBSET Fn
    BY SMT, <1>1, ConstantsOK DEF IInv, TypeOK, TypeVersions, Level
  <2>3. ASSUME NEW c \in Pick(lev, vfiles[cvid][lev], vfiles[cvid][lev + 1]) PROVE c \in Compactions
    <3> DEFINE l == vfiles[cvid][lev]
               u == vfiles[cvid][lev + 1]
    <3>1. l \in SUBSET Fn /\ u \in SUBSET Fn /\ c \in Pick(lev, l, u) BY <2>2
    <3>2. lev \in 0 .. NumLevels - 2 BY <2>1
    <3> HIDE DEF l, u
    <3>3. Picked(c, lev, l, u) BY <3>1, <3>2, PickFacts
    <3> QED BY <3>3 DEF Picked
  <2> QED BY <2>1, <2>3, Zenon
<1> DEFINE l == vfiles[cvid][lev]
           u == vfiles[cvid][lev + 1]
<1>3. PICK cs : /\ cs = {c} \/ \E d \in Pick(lev, Rest(c, l), Rest(c, u)) : cs = {c, d}
                /\ ctodo' = {d \in cs : ~Trivial(d)}
                /\ ccur' = {[d EXCEPT !.out = d.in0] : d \in {x \in cs : Trivial(x)}}
                /\ cpc' = IF ccur' = {} THEN "run" ELSE "move"
  BY <1>2, Zenon
<1>4. l \in SUBSET Fn /\ u \in SUBSET Fn BY SMT, <1>1, ConstantsOK DEF IInv, TypeOK, TypeVersions, Level
<1>5. Rest(c, l) \in SUBSET l /\ Rest(c, u) \in SUBSET u
      /\ Rest(c, l) \cap Inputs(c) = {} /\ Rest(c, u) \cap Inputs(c) = {}
  BY DEF Rest
<1> HIDE DEF l, u
<1>6. /\ c.lev = lev /\ c.tgt \in {lev, lev + 1} /\ c.out = {} /\ c.in0 \subseteq l /\ c.in1 \subseteq u
      /\ (c.tgt = lev => c.in1 = {})
  <2>1. c \in Pick(lev, l, u) BY <1>2 DEF l, u
  <2>2. lev \in 0 .. NumLevels - 2 BY <1>2
  <2>3. Picked(c, lev, l, u) BY <1>4, <2>1, <2>2, PickFacts
  <2> QED BY <2>3 DEF Picked
<1>7. ASSUME NEW d \in Pick(lev, Rest(c, l), Rest(c, u))
      PROVE  /\ d \in Compactions /\ d.lev = lev /\ d.tgt \in {lev, lev + 1} /\ d.out = {}
             /\ d.in0 \subseteq l /\ d.in1 \subseteq u /\ Inputs(c) \cap Inputs(d) = {}
             /\ (d.tgt = lev => d.in1 = {})
  <2>1. Rest(c, l) \in SUBSET Fn /\ Rest(c, u) \in SUBSET Fn BY <1>4, <1>5
  <2>2. Picked(d, lev, Rest(c, l), Rest(c, u))
    <3>1. lev \in 0 .. NumLevels - 2 BY <1>2
    <3> QED BY <2>1, <3>1, PickFacts
  <2> QED BY <1>5, <2>2 DEF Picked, Inputs
<1>8. cs \in SUBSET Compactions BY <1>2, <1>3, <1>7
<1>9. \A x \in cs : /\ x.lev = lev /\ x.tgt \in {lev, lev + 1} /\ x.out = {}
                    /\ (x.tgt = lev => x.in1 = {})
                    /\ x.in0 \subseteq l /\ x.in1 \subseteq u
  BY <1>3, <1>6, <1>7
<1>10. \A x, y \in cs : x # y => Inputs(x) \cap Inputs(y) = {}
  <2>1. CASE cs = {c} BY <2>1
  <2>2. ASSUME NEW d \in Pick(lev, Rest(c, l), Rest(c, u)), cs = {c, d}
        PROVE  \A x, y \in cs : x # y => Inputs(x) \cap Inputs(y) = {}
    <3>1. Inputs(c) \cap Inputs(d) = {} BY <1>7
    <3> QED BY <2>2, <3>1
  <2> QED BY <1>3, <2>1, <2>2
<1> QED BY <1>3, <1>8, <1>9, <1>10 DEF l, u

\* ComputeCompactions: the sets of a batch are disjoint and part of the current version.
LEMMA ComputeCompactionsStep == ASSUME IInv, ComputeCompactions PROVE IInv'
<1>1. /\ cpc = "pick" /\ cvid' = cvid
      /\ UNCHANGED <<writerVars, partVars, entries, memVars, lookup, committed, fileVars, gcVars,
                     versVars, instVars, flushVars, readVars>>
  BY DEF ComputeCompactions
<1>2. PICK lev \in 0 .. NumLevels - 2, cs \in SUBSET Compactions :
        /\ \A c \in cs : /\ c.lev = lev /\ c.tgt \in {lev, lev + 1} /\ c.out = {}
                         /\ (c.tgt = lev => c.in1 = {})
                         /\ c.in0 \subseteq vfiles[cvid][lev] /\ c.in1 \subseteq vfiles[cvid][lev + 1]
        /\ \A c, d \in cs : c # d => Inputs(c) \cap Inputs(d) = {}
        /\ ctodo' = {d \in cs : ~Trivial(d)}
        /\ ccur' = {[d EXCEPT !.out = d.in0] : d \in {x \in cs : Trivial(x)}}
        /\ cpc' = IF ccur' = {} THEN "run" ELSE "move"
  BY BatchFacts
<1>3. lev \in Level /\ lev + 1 \in Level BY SMT, <1>2, ConstantsOK DEF Level
<1>4. mutex # Coordinator /\ cvid \in Vid /\ cvid \in vset BY <1>1 DEF IInv, Control, Versions
<1>5. /\ (TypeWriters /\ TypeMemTables /\ TypeFiles /\ TypeReaders)'
      /\ Unborn' = Unborn
      /\ \A v : FilesOf(v)' = FilesOf(v) /\ Holders(v)' = Holders(v)
  BY <1>1, CoordinatorFrame DEF versVars
<1>6. ASSUME NEW x \in cs
      PROVE  /\ [x EXCEPT !.out = x.in0] \in Compactions
             /\ [x EXCEPT !.out = x.in0].lev = x.lev /\ [x EXCEPT !.out = x.in0].tgt = x.tgt
             /\ [x EXCEPT !.out = x.in0].in0 = x.in0 /\ [x EXCEPT !.out = x.in0].in1 = x.in1
             /\ [x EXCEPT !.out = x.in0].out = x.in0
  <2>1. x \in Compactions BY <1>2
  <2> QED BY <2>1 DEF Compactions
<1>7. ASSUME NEW c \in ctodo' \cup ccur'
      PROVE  \E x \in cs : /\ c = IF Trivial(x) THEN [x EXCEPT !.out = x.in0] ELSE x
                           /\ c \in Compactions /\ c.lev = x.lev /\ c.tgt = x.tgt /\ c.in0 = x.in0 /\ c.in1 = x.in1
  <2>1. CASE c \in ctodo' BY <1>2, <2>1
  <2>2. CASE c \in ccur'
    <3>1. PICK x \in cs : Trivial(x) /\ c = [x EXCEPT !.out = x.in0] BY <1>2, <2>2
    <3> QED BY <1>6, <3>1
  <2> QED BY <2>1, <2>2
<1>8. TypeVersions' /\ TypeThreads'
  BY <1>1, <1>2, <1>7 DEF IInv, TypeOK, TypeVersions, TypeThreads, versVars, instVars, flushVars
<1>9. \A c \in ctodo' : c.out = {} BY <1>2
<1>10. \A c \in ccur' : c.out = c.in0 /\ c.out # {} /\ c.tgt = c.lev + 1
  <2> SUFFICES ASSUME NEW c \in ccur' PROVE c.out = c.in0 /\ c.out # {} /\ c.tgt = c.lev + 1 OBVIOUS
  <2>1. PICK x \in cs : Trivial(x) /\ c = [x EXCEPT !.out = x.in0] BY <1>2
  <2>2. x.tgt = x.lev + 1 BY <1>2, <2>1 DEF Trivial
  <2>3. x.in0 # {} BY SMT, <2>1, FS_EmptySet DEF Trivial
  <2> QED BY <1>6, <2>1, <2>2, <2>3
<1>11. Control'
  BY <1>1, <1>2, <1>4, <1>9, <1>10 DEF IInv, Control, Appended, versVars, instVars, flushVars
<1>12. Versions'
  BY <1>1, <1>2, <1>4, <1>5 DEF IInv, Versions, VersionRefsExact, HoldsVersion, versVars, readVars
<1>13. Uninstalled' = ctodo' \cup ccur' /\ Produced' = ctodo'
  BY <1>1, <1>4 DEF Uninstalled, Produced, instVars
<1>14. InputsCurrent'
  <2>1. vfiles[cvid][lev] \subseteq vfiles[current][lev] /\ vfiles[cvid][lev + 1] \subseteq vfiles[current][lev + 1]
    BY <1>1, <1>3 DEF IInv, InputsCurrent
  <2>2. ASSUME NEW c \in ctodo' \cup ccur'
        PROVE  /\ c.lev + 1 \in Level /\ c.tgt \in {c.lev, c.lev + 1}
               /\ c.in0 \subseteq vfiles[current][c.lev] /\ c.in1 \subseteq vfiles[current][c.lev + 1]
    <3>1. PICK x \in cs : c.lev = x.lev /\ c.tgt = x.tgt /\ c.in0 = x.in0 /\ c.in1 = x.in1 BY <1>7
    <3>2. /\ x.lev = lev /\ x.tgt \in {lev, lev + 1}
          /\ x.in0 \subseteq vfiles[cvid][lev] /\ x.in1 \subseteq vfiles[cvid][lev + 1]
      BY <1>2, <3>1
    <3> QED BY <1>3, <2>1, <3>1, <3>2
  <2>3. ASSUME NEW c \in ctodo' \cup ccur', NEW d \in ctodo' \cup ccur', c # d
        PROVE  Inputs(c) \cap Inputs(d) = {}
    <3>1. PICK x \in cs : /\ c = IF Trivial(x) THEN [x EXCEPT !.out = x.in0] ELSE x
                          /\ c.in0 = x.in0 /\ c.in1 = x.in1 BY <1>7
    <3>2. PICK y \in cs : /\ d = IF Trivial(y) THEN [y EXCEPT !.out = y.in0] ELSE y
                          /\ d.in0 = y.in0 /\ d.in1 = y.in1 BY <1>7
    <3>3. x # y BY <2>3, <3>1, <3>2
    <3>4. Inputs(x) \cap Inputs(y) = {} BY <1>2, <3>1, <3>2, <3>3
    <3> QED BY <3>1, <3>2, <3>4 DEF Inputs
  <2>4. cpc' # "pick" BY <1>2
  <2>5. UNCHANGED <<vfiles, current>> BY <1>1 DEF versVars
  <2> QED BY <1>13, <2>2, <2>3, <2>4, <2>5 DEF IInv, InputsCurrent, Inputs
<1>15. FreshFiles'
  BY <1>1, <1>5, <1>9, <1>13 DEF IInv, FreshFiles, fileVars, gcVars, flushVars, versVars
<1>16. L0Files'
  <2>1. stage = "edit" => mutex \in Flusher BY <1>4 DEF IInv, Control, TypeOK, TypeThreads
  <2>2. stage = "edit" => NextL0' = NextL0
    BY <1>1, <2>1 DEF NextL0, Added, Deleted, versVars, instVars, flushVars
  <2>3. \A m \in 0 .. MaxMid : (l0[m] \subseteq IF stage = "edit" /\ m \notin pend
                                              THEN NextL0 ELSE vfiles[current][0])'
    BY <1>1, <2>2 DEF IInv, L0Files, memVars, versVars, instVars
  <2> QED BY <1>1, <1>5, <1>9, <1>13, <2>3
         DEF IInv, L0Files, NoIOError, memVars, fileVars, versVars, flushVars, readVars, instVars
<1>17. FilesKept' BY <1>1, <1>5 DEF IInv, FilesKept, gcVars, versVars, instVars
<1> QED BY <1>5, <1>8, <1>11, <1>12, <1>14, <1>15, <1>16, <1>17 DEF IInv, TypeOK

\* a merge of compaction c wrote the tables outs
Written(c, outs) ==
  /\ outs \subseteq nextFile .. nextFile' - 1
  /\ outs # {} /\ nextFile <= nextFile' /\ disk' = disk \cup outs
  /\ ctodo' = (ctodo \ {c}) \cup {[c EXCEPT !.out = outs]}
  /\ fmids' = [f \in Fn |-> IF f \in outs /\ c.tgt = 0
                              THEN UNION {fmids[g] : g \in c.in0} ELSE fmids[f]]
  /\ nextFile' \in 1 .. MaxFile + 1
  /\ content' \in [Fn -> SUBSET Entry]

\* What CompactTables writes: fresh tables that inherit, at level 0, the memtables of their inputs.
LEMMA OutputFacts ==
  ASSUME IInv, NEW c, CompactTables(c)
  PROVE  \E outs \in SUBSET Fn : Written(c, outs)
<1> DEFINE merged == Newest(UNION {content[f] : f \in Inputs(c)})
           low(k) == {e \in merged : e[1] <= k}
           Outs(k) == IF low(k) = merged THEN {nextFile} ELSE {nextFile, nextFile + 1}
<1>1. PICK cut \in KeysOf(Inputs(c)) :
        /\ Outs(cut) \subseteq Fn
        /\ content' = [f \in Fn |-> IF f \notin Outs(cut) THEN content[f]
                                      ELSE IF f = nextFile THEN low(cut) ELSE merged \ low(cut)]
        /\ fmids' = [f \in Fn |-> IF f \in Outs(cut) /\ c.tgt = 0
                                    THEN UNION {fmids[g] : g \in c.in0} ELSE fmids[f]]
        /\ disk' = disk \cup Outs(cut)
        /\ nextFile' = IF low(cut) = merged THEN nextFile + 1 ELSE nextFile + 2
        /\ ctodo' = (ctodo \ {c}) \cup {[c EXCEPT !.out = Outs(cut)]}
  BY DEF CompactTables
<1>2. c \in Uninstalled BY DEF CompactTables, Uninstalled
<1>3. Inputs(c) \subseteq Fn BY <1>2, InputsInCurrent, LevelFiles, Zero
<1>4. merged \subseteq Entry
  <2>1. \A f \in Inputs(c) : content[f] \subseteq Entry BY <1>3 DEF IInv, TypeOK, TypeFiles
  <2>2. UNION {content[f] : f \in Inputs(c)} \subseteq Entry BY <2>1
  <2> QED BY <2>2 DEF Newest
<1>5. low(cut) \subseteq Entry BY <1>4
<1> HIDE DEF merged, low
<1>6. content' \in [Fn -> SUBSET Entry]
  <2>1. content \in [Fn -> SUBSET Entry] BY DEF IInv, TypeOK, TypeFiles
  <2> QED BY <1>1, <1>4, <1>5, <2>1
<1>7. nextFile \in Nat /\ MaxFile \in Nat BY SMT, ConstantsOK DEF IInv, TypeOK, TypeFiles
<1>8. /\ Outs(cut) \subseteq nextFile .. nextFile' - 1 /\ Outs(cut) # {} /\ nextFile <= nextFile'
      /\ nextFile' \in 1 .. MaxFile + 1
  BY SMT, <1>1, <1>7 DEF Fn
<1> HIDE DEF Outs
<1>9. Outs(cut) \in SUBSET Fn BY <1>1
<1>10. Written(c, Outs(cut)) BY <1>1, <1>6, <1>8 DEF Written
<1> QED BY <1>9, <1>10

\* CompactTables replaces one compaction by the same compaction with its outputs.
LEMMA CompactTablesStep == ASSUME IInv, NEW c \in ctodo, CompactTables(c) PROVE IInv'
<1>0. PICK outs \in SUBSET Fn : Written(c, outs) BY OutputFacts
<1>1.   /\ outs \subseteq nextFile .. nextFile' - 1
        /\ outs # {} /\ nextFile <= nextFile' /\ disk' = disk \cup outs
        /\ ctodo' = (ctodo \ {c}) \cup {[c EXCEPT !.out = outs]}
        /\ fmids' = [f \in Fn |-> IF f \in outs /\ c.tgt = 0
                                    THEN UNION {fmids[g] : g \in c.in0} ELSE fmids[f]]
        /\ nextFile' \in 1 .. MaxFile + 1
        /\ content' \in [Fn -> SUBSET Entry]
        /\ outs \subseteq Fn
  BY <1>0 DEF Written
<1> DEFINE d == [c EXCEPT !.out = outs]
<1>2. /\ cpc \in {"run", "install"} /\ c \notin ccur /\ c.out = {}
      /\ UNCHANGED <<cpc, cvid, ccur, writerVars, partVars, entries, memVars, lookup, committed,
                     compacted, deleting, versVars, instVars, flushVars, readVars>>
  BY DEF CompactTables
<1>3. c \in Compactions /\ outs \subseteq Fn BY <1>1 DEF IInv, TypeOK, TypeThreads
<1>4. /\ d \in Compactions /\ d.lev = c.lev /\ d.tgt = c.tgt /\ d.in0 = c.in0 /\ d.in1 = c.in1
      /\ d.out = outs
  BY <1>3 DEF Compactions
<1>5. ctodo' = (ctodo \ {c}) \cup {d} BY <1>1
<1> HIDE DEF d
<1>6. c \in Uninstalled /\ c \in Produced /\ Produced \subseteq Uninstalled
  BY <1>2 DEF Uninstalled, Produced
<1>7. /\ Uninstalled' \subseteq (Uninstalled \ {c}) \cup {d}
      /\ Produced' \subseteq (Produced \ {c}) \cup {d}
      /\ Unborn' = Unborn /\ NextL0' = NextL0
      /\ \A v : FilesOf(v)' = FilesOf(v) /\ Holders(v)' = Holders(v)
  <2>1. UNCHANGED <<ccur, mutex, stage, vfiles, current, fmem, flushFile, rpc, rvid>>
    BY <1>2 DEF instVars, versVars, flushVars, readVars
  <2>2. Uninstalled' \subseteq (Uninstalled \ {c}) \cup {d} BY <1>2, <1>5, <2>1 DEF Uninstalled
  <2>3. Produced' \subseteq (Produced \ {c}) \cup {d} BY <1>2, <1>5, <2>1 DEF Produced
  <2>4. Unborn' = Unborn BY <2>1 DEF Unborn
  <2>5. NextL0' = NextL0 BY <2>1 DEF NextL0, Added, Deleted
  <2>6. \A v : FilesOf(v)' = FilesOf(v) /\ Holders(v)' = Holders(v)
    BY <2>1 DEF FilesOf, Holders, HoldsVersion
  <2> QED BY <2>2, <2>3, <2>4, <2>5, <2>6
<1>8. outs \cap (1 .. nextFile - 1) = {} /\ outs \subseteq 1 .. nextFile' - 1
      /\ 1 .. nextFile - 1 \subseteq 1 .. nextFile' - 1
  <2>1. nextFile \in Nat /\ nextFile' \in Nat /\ nextFile >= 1
    BY SMT, <1>1, ConstantsOK DEF IInv, TypeOK, TypeFiles
  <2> QED BY SMT, <1>1, <2>1
<1>9. (TypeWriters /\ TypeMemTables /\ TypeVersions /\ TypeReaders)'
  BY <1>2 DEF IInv, TypeOK, TypeWriters, TypeMemTables, TypeVersions, TypeReaders, writerVars, partVars,
              memVars, versVars, readVars
<1>10. TypeThreads'
  BY <1>2, <1>4, <1>5 DEF IInv, TypeOK, TypeThreads, instVars, flushVars
<1>11. \A g \in c.in0 : g \in Fn /\ g \notin outs
  BY <1>6, <1>8, InputsInCurrent, LevelFiles, Zero DEF Inputs, IInv, FreshFiles
<1>12. TypeFiles'
  <2>1. fmids \in [Fn -> SUBSET Mid] BY DEF IInv, TypeOK, TypeFiles
  <2>2. \A g \in c.in0 : fmids[g] \subseteq Mid BY <1>11, <2>1
  <2>3. UNION {fmids[g] : g \in c.in0} \subseteq Mid BY <2>2
  <2>4. fmids' \in [Fn -> SUBSET Mid] BY <1>1, <2>1, <2>3
  <2> QED BY <1>1, <1>2, <2>4 DEF IInv, TypeOK, TypeFiles
<1>13. Control'
  BY <1>2, <1>5 DEF IInv, Control, Appended, versVars, instVars, flushVars
<1>14. Versions'
  BY <1>2, <1>7 DEF IInv, Versions, VersionRefsExact, HoldsVersion, versVars, readVars
<1>15. InputsCurrent'
  <2>1. UNCHANGED <<vfiles, current>> BY <1>2 DEF versVars
  <2>2. \A e \in Uninstalled' : /\ e.lev + 1 \in Level /\ e.tgt \in {e.lev, e.lev + 1}
                                /\ e.in0 \subseteq vfiles[current][e.lev]
                                /\ e.in1 \subseteq vfiles[current][e.lev + 1]
    BY <1>4, <1>6, <1>7 DEF IInv, InputsCurrent
  <2>3. \A x, y \in Uninstalled' : x # y => Inputs(x) \cap Inputs(y) = {}
    <3>1. Inputs(d) = Inputs(c) BY <1>4 DEF Inputs
    <3>2. Uninstalled' \subseteq (Uninstalled \ {c}) \cup {d} BY <1>7
    <3>3. \A x, y \in Uninstalled : x # y => Inputs(x) \cap Inputs(y) = {} BY DEF IInv, InputsCurrent
    <3>4. c \in Uninstalled BY <1>6
    <3>5. ASSUME NEW x \in Uninstalled \ {c} PROVE Inputs(x) \cap Inputs(d) = {} /\ Inputs(d) \cap Inputs(x) = {}
      BY <3>1, <3>3, <3>4
    <3> SUFFICES ASSUME NEW x \in Uninstalled', NEW y \in Uninstalled', x # y
                 PROVE  Inputs(x) \cap Inputs(y) = {}
      OBVIOUS
    <3>6. CASE x = d
      <4>1. y \in Uninstalled \ {c} BY <3>2, <3>6
      <4> QED BY <3>5, <3>6, <4>1
    <3>7. CASE y = d
      <4>1. x \in Uninstalled \ {c} BY <3>2, <3>7
      <4> QED BY <3>5, <3>7, <4>1
    <3>8. CASE x # d /\ y # d
      <4>1. x \in Uninstalled /\ y \in Uninstalled BY <3>2, <3>8
      <4> QED BY <3>3, <4>1
    <3> QED BY <3>6, <3>7, <3>8
  <2> QED BY <1>2, <2>1, <2>2, <2>3 DEF IInv, InputsCurrent, Inputs
<1>16. FreshFiles'
  <2>1. (disk \cup compacted \cup deleting \subseteq 1 .. nextFile - 1)'
        /\ outs \cap (disk \cup compacted \cup deleting) = {}
    BY <1>1, <1>2, <1>8 DEF IInv, FreshFiles
  <2>2. \A v \in Vid : FilesOf(v)' \subseteq 1 .. nextFile' - 1 /\ outs \cap FilesOf(v) = {}
    BY <1>7, <1>8 DEF IInv, FreshFiles
  <2>3. UNCHANGED <<fmem, flushFile, scheduled, current>> /\ current \in Vid
    BY <1>2, Zero DEF flushVars, versVars
  <2>4. \A m \in Unborn : /\ flushFile[m] \in disk' \ (compacted' \cup deleting' \cup FilesOf(current)')
                          /\ flushFile[m] \notin outs
    BY <1>1, <1>2, <1>7, <2>1, <2>3 DEF IInv, FreshFiles
  <2>5. outs \subseteq disk' \ (compacted' \cup deleting' \cup FilesOf(current)')
    BY <1>1, <1>2, <1>7, <2>1, <2>2, <2>3
  <2>6. \A e \in Produced : /\ e.out \subseteq disk' \ (compacted' \cup deleting' \cup FilesOf(current)')
                            /\ e.out \cap outs = {}
    BY <1>1, <1>2, <1>7, <2>1, <2>3 DEF IInv, FreshFiles
  <2>7. \A e \in Produced' : e.out \subseteq disk' \ (compacted' \cup deleting' \cup FilesOf(current)')
    BY <1>4, <1>7, <2>5, <2>6
  <2>8. \A x, y \in Produced' : x # y => x.out \cap y.out = {}
    BY <1>4, <1>7, <2>6 DEF IInv, FreshFiles
  <2>9. \A m \in Unborn, e \in Produced' : flushFile[m] \notin e.out
    BY <1>4, <1>7, <2>4 DEF IInv, FreshFiles
  <2> QED BY <1>7, <2>1, <2>2, <2>3, <2>4, <2>7, <2>8, <2>9 DEF IInv, FreshFiles
<1>17. L0Files'
  <2>1. \A f \in Fn : f \notin outs => fmids'[f] = fmids[f] BY <1>1
  <2>2. disk \subseteq Fn /\ disk \cap outs = {} BY <1>8 DEF IInv, TypeOK, TypeFiles, FreshFiles
  <2>3. \A n \in 0 .. MaxMid : \A g \in l0[n] : n \in fmids'[g]
    <3>1. \A n \in 0 .. MaxMid : \A g \in l0[n] : n \in fmids[g] BY DEF IInv, L0Files
    <3> QED BY <2>1, <2>2, <3>1, L0OnDisk
  <2>4. \A m \in Unborn : m \in fmids'[flushFile[m]]
    <3>1. \A m \in Unborn : flushFile[m] \in disk /\ m \in fmids[flushFile[m]] BY DEF IInv, FreshFiles, L0Files
    <3> QED BY <2>1, <2>2, <3>1
  <2>5. ASSUME NEW e \in Produced', e.tgt = 0, NEW f \in e.out, NEW g \in e.in0
        PROVE  fmids'[g] \subseteq fmids'[f]
    <3>1. CASE e = d
      <4>1. f \in outs /\ g \in c.in0 /\ c.tgt = 0 BY <1>4, <2>5, <3>1
      <4>2. fmids'[g] = fmids[g] BY <1>11, <2>1, <4>1
      <4>3. fmids'[f] = UNION {fmids[h] : h \in c.in0} BY <1>1, <1>3, <4>1
      <4> QED BY <4>1, <4>2, <4>3
    <3>2. CASE e # d
      <4>1. e \in Produced /\ e \in Uninstalled BY <1>6, <1>7, <3>2
      <4>2. f \in disk BY <4>1 DEF IInv, FreshFiles
      <4>3. g \in Fn /\ g \notin outs
        BY <4>1, <1>8, InputsInCurrent, LevelFiles, Zero DEF Inputs, IInv, FreshFiles
      <4>4. fmids[g] \subseteq fmids[f] BY <2>5, <4>1 DEF IInv, L0Files
      <4> QED BY <2>1, <2>2, <4>2, <4>3, <4>4
    <3> QED BY <3>1, <3>2
  <2>6. UNCHANGED <<memVars, vset, vdeleted, vfiles, current, stage, pend, newVid, flushFile, rpc, rl0, rvid>>
    BY <1>2 DEF versVars, instVars, flushVars, readVars
  <2> QED BY <1>7, <2>3, <2>4, <2>5, <2>6 DEF IInv, L0Files, NoIOError, memVars
<1>18. FilesKept' BY <1>1, <1>2, <1>7, <1>16 DEF IInv, FilesKept, versVars, instVars
<1> QED BY <1>9, <1>10, <1>12, <1>13, <1>14, <1>15, <1>16, <1>17, <1>18 DEF IInv, TypeOK

\* Every step of every thread keeps the invariant.
LEMMA InvStep == ASSUME IInv, [Next]_vars PROVE IInv'
<1>1. ASSUME NEW w \in Writer, Write(w) PROVE IInv' BY <1>1, WriterSteps
<1>2. ASSUME NEW p \in Partition, Rotate(p) \/ NewMemTable(p) PROVE IInv'
  BY <1>2, WriterSteps, NewMemTableStep
<1>3. ASSUME NEW f \in Flusher, Flush(f) PROVE IInv'
  BY <1>3, BuildTableStep, FlushLockStep, FlushUnlockStep DEF Flush
<1>4. ASSUME Install PROVE IInv'
  BY <1>4, SetFlushedStep, UpdateL0FilesStep, AppendVersionStep, SetVersionStep, StoreCurrentIdStep,
     SetCompactionStep DEF Install
<1>5. ASSUME Compact PROVE IInv'
  BY <1>5, StartCompactionStep, ComputeCompactionsStep, CompactTablesStep, CompactionLockStep,
     CompactionUnlockStep, ReleaseCompactedStep, FinishCompactionStep DEF Compact
<1>6. ASSUME DeleteObsoleteFiles \/ \E f \in Fn : DeleteFile(f) PROVE IInv'
  BY <1>6, DeleteObsoleteFilesStep, DeleteFileStep
<1>7. ASSUME NEW r \in Reader, Get(r) PROVE IInv' BY <1>7, GetStep
<1>8. CASE UNCHANGED vars BY <1>8, StutterStep
<1> QED BY <1>1, <1>2, <1>3, <1>4, <1>5, <1>6, <1>7, <1>8 DEF Next

=============================================================================
