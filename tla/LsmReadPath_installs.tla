------------------------ MODULE LsmReadPath_installs ------------------------
(***************************************************************************)
(* IInv is kept by a flush and by the installation of a version, up to the *)
(* collection of files.                                                    *)
(***************************************************************************)
EXTENDS LsmReadPath_gets

\* Leaves are tried with Zenon; those that need arithmetic or EXCEPT cite SMT.
USE Zenon, SMT

\* CompactMemTableStaticPartition writes a table that nobody else knows.
LEMMA BuildTableStep == ASSUME IInv, NEW f \in Flusher, NEW m \in Mid, BuildTable(f, m) PROVE IInv'
<1> USE ConstantsOK DEF BuildTable, NewFileNumber
<1>1. nextFile \in Fn BY SMT DEF IInv, TypeOK, TypeFiles, Fn
<1>2. (TypeWriters /\ TypeMemTables /\ TypeVersions /\ TypeReaders)'
  BY DEF IInv, TypeOK, TypeWriters, TypeMemTables, TypeVersions, TypeReaders, writerVars, partVars,
         memVars, versVars, readVars
<1>3. TypeFiles' BY SMT, <1>1 DEF IInv, TypeOK, TypeFiles, TypeMemTables
<1>4. TypeThreads' BY <1>1, Ranges DEF IInv, TypeOK, TypeThreads, instVars, coordVars
<1>5. mutex # f BY DEF IInv, Control
<1>6. Control'
  <2>1. mutex \in Flusher => fmem'[mutex] = fmem[mutex] BY <1>5 DEF IInv, TypeOK, TypeThreads
  <2> QED BY SMT, <2>1 DEF IInv, Control, Appended, versVars, instVars, coordVars
<1>7. (Versions /\ InputsCurrent)'
  BY SMT DEF IInv, Versions, VersionRefsExact, Holders, HoldsVersion, InputsCurrent, Uninstalled, Inputs,
         versVars, instVars, coordVars, readVars
<1>8. Unborn' = Unborn \cup {m} /\ m \notin Unborn
  BY SMT, <1>5 DEF Unborn, instVars, IInv, TypeOK, TypeThreads, FreshFiles
<1>9. \A n \in Mid : flushFile'[n] = IF n = m THEN nextFile ELSE flushFile[n]
  BY DEF IInv, TypeOK, TypeThreads
<1>10. \A x \in Unborn : x \in Mid BY SMT DEF Unborn, IInv, TypeOK, TypeThreads
<1>11. Produced' = Produced /\ \A v : FilesOf(v)' = FilesOf(v)
  BY DEF Produced, FilesOf, instVars, coordVars, versVars
<1>12. nextFile \notin 1 .. nextFile - 1 /\ 1 .. nextFile - 1 \subseteq 1 .. nextFile /\ nextFile \in 1 .. nextFile
       /\ nextFile' - 1 = nextFile
  BY SMT, <1>1 DEF Fn
<1>13. FreshFiles'
  <2>1. (disk \cup compacted \cup deleting \subseteq 1 .. nextFile - 1)' /\ nextFile \notin disk \cup compacted \cup deleting
    BY <1>12 DEF IInv, FreshFiles
  <2>2. \A v \in Vid : FilesOf(v)' \subseteq 1 .. nextFile' - 1 /\ nextFile \notin FilesOf(v)
    BY <1>11, <1>12 DEF IInv, FreshFiles
  <2>3. /\ \A g \in Flusher : fmem'[g] \subseteq scheduled'
        /\ \A g, h \in Flusher : g # h => fmem'[g] \cap fmem'[h] = {}
    BY SMT DEF IInv, FreshFiles, TypeOK, TypeThreads
  <2>4. current \in Vid /\ current' = current BY DEF IInv, TypeOK, TypeVersions, versVars
  <2>5. \A n \in Unborn' : flushFile'[n] \in disk' \ (compacted' \cup deleting' \cup FilesOf(current)')
    BY SMT, <1>8, <1>9, <1>10, <1>11, <2>1, <2>2, <2>4 DEF IInv, FreshFiles
  <2>6. \A c \in Produced' : c.out \subseteq disk' \ (compacted' \cup deleting' \cup FilesOf(current)') /\ nextFile \notin c.out
    BY <1>11, <2>1, <2>4 DEF IInv, FreshFiles
  <2>7. \A n, o \in Unborn' : n # o => flushFile'[n] # flushFile'[o]
    BY SMT, <1>8, <1>9, <1>10, <2>1 DEF IInv, FreshFiles
  <2>8. \A n \in Unborn', c \in Produced' : flushFile'[n] \notin c.out
    BY SMT, <1>8, <1>9, <1>10, <1>11, <2>6 DEF IInv, FreshFiles
  <2> QED BY <2>1, <2>2, <2>3, <2>4, <2>5, <2>6, <2>7, <2>8, <1>11 DEF IInv, FreshFiles
<1>14. L0Files'
  <2>1. \A g \in Fn : fmids'[g] = IF g = nextFile THEN {m} ELSE fmids[g]
    BY DEF IInv, TypeOK, TypeFiles
  <2>2. NextL0' = NextL0
    <3>1. mutex \in Flusher => fmem'[mutex] = fmem[mutex] /\ \A n \in fmem[mutex] : flushFile'[n] = flushFile[n]
      BY SMT, <1>5, <1>9 DEF IInv, TypeOK, TypeThreads, FreshFiles
    <3> QED BY SMT, <3>1 DEF NextL0, Added, Deleted, versVars, instVars, coordVars
  <2>3. \A n \in 0 .. MaxMid : nextFile \notin l0[n]
    BY L0OnDisk, <1>12 DEF IInv, FreshFiles
  <2>4. \A n \in 0 .. MaxMid : \A g \in l0[n] : g \in Fn BY DEF IInv, TypeOK, TypeMemTables
  <2>5. \A n \in Unborn' : n \in fmids'[flushFile'[n]]
    <3>1. \A n \in Unborn : flushFile[n] \in Fn /\ flushFile[n] # nextFile
      BY <1>12 DEF IInv, FreshFiles, TypeOK, TypeFiles
    <3> QED BY SMT, <3>1, <1>1, <1>8, <1>9, <1>10, <2>1 DEF IInv, L0Files
  <2>6. \A c \in Produced' : c.tgt = 0 => \A g \in c.out, h \in c.in0 : fmids'[h] \subseteq fmids'[g]
    <3> SUFFICES ASSUME NEW c \in Produced, c.tgt = 0, NEW g \in c.out, NEW h \in c.in0
                 PROVE  fmids'[h] \subseteq fmids'[g]
      BY <1>11
    <3>1. g \in Fn /\ g # nextFile
      BY <1>12 DEF IInv, FreshFiles, TypeOK, TypeFiles
    <3>2. h \in Fn /\ h # nextFile
      <4>1. c \in Uninstalled BY DEF Produced, Uninstalled
      <4>2. h \in FilesOf(current) BY <4>1, InputsInCurrent DEF Inputs
      <4> QED BY <4>2, <1>12, LevelFiles, Zero DEF IInv, FreshFiles
    <3> QED BY <3>1, <3>2, <2>1 DEF IInv, L0Files
  <2>7. \A n \in 0 .. MaxMid : \A g \in l0[n] : n \in fmids'[g]
    <3>1. \A n \in 0 .. MaxMid : \A g \in l0[n] : n \in fmids[g] BY DEF IInv, L0Files
    <3> QED BY <2>1, <2>3, <2>4, <3>1
  <2> QED BY <2>2, <2>5, <2>6, <2>7, <1>11 DEF IInv, L0Files, NoIOError, memVars, versVars, instVars, readVars
<1>15. FilesKept'
  BY SMT, <1>11 DEF IInv, FilesKept, FilesOf, Holders, HoldsVersion, versVars, instVars, readVars
<1> QED BY <1>2, <1>3, <1>4, <1>6, <1>7, <1>13, <1>14, <1>15 DEF IInv, TypeOK

\* PerformCompaction takes mutex_ and a fresh version id.
LEMMA FlushLockStep == ASSUME IInv, NEW f \in Flusher, FlushLock(f) PROVE IInv'
<1> USE ConstantsOK DEF FlushLock, Lock
<1>1. (TypeWriters /\ TypeMemTables /\ TypeFiles /\ TypeReaders)'
  BY DEF IInv, TypeOK, TypeWriters, TypeMemTables, TypeFiles, TypeReaders, writerVars, partVars,
         memVars, fileVars, gcVars, readVars
<1>a. /\ nextVid' = nextVid + 1 /\ nextVid <= MaxVid
      /\ UNCHANGED <<vfiles, vrefs, vset, vdeleted, vcompacting, linked, current, currentId>>
  OBVIOUS
<1>b. nextVid \in 2 .. MaxVid + 1 BY DEF IInv, TypeOK, TypeVersions
<1>2. nextVid \in Vid /\ nextVid \in 0 .. MaxVid /\ nextVid < nextVid' /\ nextVid' \in 2 .. MaxVid + 1
  <2> HIDE DEF FlushLock, Lock
  <2> QED BY SMT, <1>a, <1>b DEF Vid
<1>3. TypeVersions'
  <2>1. TypeVersions BY DEF IInv, TypeOK
  <2> HIDE DEF FlushLock, Lock
  <2> QED BY <1>a, <1>2, <2>1 DEF TypeVersions
<1>4. TypeThreads'
  <2>1. mutex' = f /\ stage' = "edit" /\ newVid' = nextVid /\ pend' = fmem[f] /\ skip' = 0
        /\ fpc' = [fpc EXCEPT ![f] = "install"] /\ UNCHANGED <<fmem, flushFile, scheduled, cpc, cvid, ctodo, ccur>>
    BY DEF coordVars
  <2>2. 0 \in 0 .. MaxVid BY SMT
  <2>3. TypeThreads BY DEF IInv, TypeOK
  <2>4. fpc' \in [Flusher -> {"idle", "install"}] BY <2>1, <2>3 DEF TypeThreads
  <2>5. pend' \subseteq Mid BY <2>1, <2>3 DEF TypeThreads
  <2> HIDE DEF FlushLock, Lock
  <2> QED BY <1>2, <2>1, <2>2, <2>3, <2>4, <2>5 DEF TypeThreads
<1>5. stage = "none" /\ current \in vset BY DEF IInv, Control
<1>6. Control'
  <2>1. \A g \in Flusher : fpc'[g] = "install" <=> mutex' = g BY DEF IInv, Control, TypeOK, TypeThreads
  <2>2. \A v \in vset \cup linked : v < nextVid BY DEF IInv, Versions
  <2>3. mutex' = f /\ stage' = "edit" /\ newVid' = nextVid /\ pend' = fmem[f] /\ skip' = 0
        /\ mutex = NoOwner /\ UNCHANGED <<fmem, cpc, cvid, ctodo, ccur>>
    BY DEF coordVars
  <2>4. fmem[f] \subseteq Mid BY DEF IInv, TypeOK, TypeThreads
  <2>5. f # NoOwner /\ f # Coordinator /\ NoOwner # Coordinator OBVIOUS
  <2>6. Control BY DEF IInv
  <2> HIDE DEF FlushLock, Lock
  <2> QED BY <1>a, <1>2, <1>5, <2>1, <2>2, <2>3, <2>4, <2>5, <2>6 DEF Control, Appended
<1>7. Versions'
  <2>1. \A v \in vset \cup linked : v < nextVid'
    <3>1. vset \cup linked \subseteq Vid /\ \A v \in vset \cup linked : v < nextVid
      BY DEF IInv, Versions, TypeOK, TypeVersions
    <3> HIDE DEF FlushLock, Lock
    <3>2. \A v \in Vid : v < nextVid => v < nextVid' BY SMT, <1>2 DEF Vid
    <3> QED BY <3>1, <3>2
  <2>2. UNCHANGED <<cpc, cvid, rpc, rvid>> BY DEF coordVars, readVars
  <2>3. Versions BY DEF IInv
  <2> HIDE DEF FlushLock, Lock
  <2> QED BY <1>a, <2>1, <2>2, <2>3, VersionsFrame
<1>8. Uninstalled' = Uninstalled /\ Produced' = Produced /\ Unborn' = Unborn
      /\ \A v : FilesOf(v)' = FilesOf(v)
  BY <1>5 DEF Uninstalled, Produced, Unborn, FilesOf, coordVars
<1>9. InputsCurrent' BY <1>8 DEF IInv, InputsCurrent, Inputs, coordVars
<1>10. FreshFiles' BY <1>8 DEF IInv, FreshFiles, fileVars, gcVars
<1>11. L0Files'
  <2>1. vfiles[current][0] \subseteq NextL0' BY DEF NextL0, Deleted
  <2>2. \A m \in 0 .. MaxMid : lastVid[m] <= nextVid BY <1>5, LastVidOld
  <2> QED BY <1>5, <1>8, <2>1, <2>2 DEF IInv, L0Files, NoIOError, memVars, fileVars, readVars
<1>12. FilesKept' BY <1>8 DEF IInv, FilesKept, Holders, HoldsVersion, gcVars, readVars
<1> QED BY <1>1, <1>3, <1>4, <1>6, <1>7, <1>9, <1>10, <1>11, <1>12 DEF IInv, TypeOK

\* an edit of the L0 files of one memtable, by a flush or by the coordinator
LEMMA EditStep ==
  ASSUME IInv, stage = "edit", NEW m \in pend,
         lastVid' = [lastVid EXCEPT ![m] = Max2(@, newVid)],
         NEW fs \in SUBSET Fn, l0' = [l0 EXCEPT ![m] = fs],
         fs \subseteq NextL0, \A f \in fs : m \in fmids[f],
         pend' = pend \ {m},
         UNCHANGED <<fileVars, gcVars, versVars, mutex, stage, newVid, skip, flushVars, coordVars, readVars>>
  PROVE  /\ (Control /\ Versions /\ InputsCurrent /\ FreshFiles /\ L0Files /\ FilesKept)'
         /\ (TypeFiles /\ TypeVersions /\ TypeThreads /\ TypeReaders)'
         /\ lastVid' \in [0 .. MaxMid -> 0 .. MaxVid] /\ l0' \in [0 .. MaxMid -> SUBSET Fn]
<1>1. (TypeFiles /\ TypeVersions /\ TypeThreads /\ TypeReaders)'
  <2>1. TypeFiles' BY DEF IInv, TypeOK, TypeFiles, fileVars, gcVars
  <2>2. TypeVersions' BY DEF IInv, TypeOK, TypeVersions, versVars
  <2>3. TypeThreads' BY DEF IInv, TypeOK, TypeThreads, flushVars, coordVars
  <2>4. TypeReaders' BY DEF IInv, TypeOK, TypeReaders, readVars
  <2> QED BY <2>1, <2>2, <2>3, <2>4
<1>2. m \in 0 .. MaxMid /\ newVid \in 0 .. MaxVid BY Ranges DEF IInv, TypeOK, TypeThreads
<1>3. /\ lastVid' \in [0 .. MaxMid -> 0 .. MaxVid] /\ l0' \in [0 .. MaxMid -> SUBSET Fn]
      /\ lastVid'[m] = newVid
  BY SMT, <1>2 DEF Max2, IInv, TypeOK, TypeMemTables, L0Files
<1>4. Control'
  BY DEF IInv, Control, Appended, versVars, flushVars, coordVars
<1>5. (Versions /\ InputsCurrent /\ FreshFiles /\ FilesKept)'
  <2>1. \A v : Holders(v)' = Holders(v) /\ FilesOf(v)' = FilesOf(v)
    BY DEF Holders, HoldsVersion, FilesOf, versVars, readVars
  <2>2. Versions' BY <2>1 DEF IInv, Versions, VersionRefsExact, HoldsVersion, versVars, coordVars, readVars
  <2>3. InputsCurrent' BY InputsFrame DEF IInv, versVars, coordVars
  <2>4. FreshFiles' BY FreshFrame DEF IInv, fileVars, gcVars, versVars, flushVars, coordVars
  <2>5. FilesKept' BY <2>1 DEF IInv, FilesKept, gcVars, versVars
  <2> QED BY <2>2, <2>3, <2>4, <2>5
<1>6. L0Files'
  <2>1. \A n \in 0 .. MaxMid : n # m => l0'[n] = l0[n] /\ lastVid'[n] = lastVid[n]
    BY DEF IInv, TypeOK, TypeMemTables
  <2>2. l0'[m] = fs BY <1>2 DEF IInv, TypeOK, TypeMemTables
  <2>3. NextL0' = NextL0 BY DEF NextL0, Added, Deleted, versVars, flushVars, coordVars
  <2> USE DEF versVars
  <2>4. \A n \in 0 .. MaxMid : l0'[n] \subseteq IF stage' = "edit" /\ n \notin pend'
                                                 THEN NextL0' ELSE vfiles'[current'][0]
    BY <2>1, <2>2, <2>3 DEF IInv, L0Files
  <2>5. \A n \in 0 .. MaxMid : \A f \in l0'[n] : n \in fmids'[f]
    BY <2>1, <2>2 DEF IInv, L0Files, fileVars
  <2>6. \A v \in vset' \ vdeleted', n \in 0 .. MaxMid : lastVid'[n] <= v => l0'[n] \subseteq vfiles'[v][0]
    <3> SUFFICES ASSUME NEW v \in vset \ vdeleted, NEW n \in 0 .. MaxMid, lastVid'[n] <= v
                 PROVE  l0'[n] \subseteq vfiles[v][0]
      OBVIOUS
    <3>1. v \in Vid /\ v < newVid BY DEF IInv, Control, TypeOK, TypeVersions
    <3>2. n # m
      <4>1. ~(newVid <= v)
        <5> HIDE DEF versVars
        <5> QED BY SMT, <1>2, <3>1 DEF Vid
      <4> QED BY <1>3, <4>1
    <3> QED BY <3>2, <2>1 DEF IInv, L0Files
  <2>7. \A n \in 0 .. MaxMid : lastVid'[n] <= newVid
    <3>1. newVid <= newVid BY SMT, <1>2
    <3> QED BY <1>3, <2>1, <3>1 DEF IInv, L0Files
  <2>8. Unborn' = Unborn BY DEF Unborn, flushVars
  <2>9. Produced' = Produced BY DEF Produced, coordVars
  <2>10. UNCHANGED <<vfiles, flushFile, fmids, rpc, rl0, rvid>> BY DEF fileVars, flushVars, readVars
  <2>11. \A r \in Reader : rpc'[r] = "l0" => rl0'[r] \subseteq FilesOf(rvid[r])'
    BY <2>10 DEF IInv, L0Files, FilesOf
  <2>12. NoIOError' BY <2>10 DEF IInv, L0Files, NoIOError
  <2> QED BY <2>4, <2>5, <2>6, <2>7, <2>8, <2>9, <2>10, <2>11, <2>12 DEF IInv, L0Files
<1> QED BY <1>1, <1>3, <1>4, <1>5, <1>6

\* AtomicMemTable::SetFlushed: the table joins the L0 files of its memtable, which are those of the
\* version to come.
LEMMA SetFlushedStep == ASSUME IInv, NEW m \in pend, SetFlushed(m) PROVE IInv'
<1> USE DEF SetFlushed, FlushedFns
<1>1. m \in Mid /\ m \in fmem[mutex] /\ m \in Unborn
  BY DEF IInv, Control, TypeOK, TypeThreads, Unborn
<1>2. m \in 0 .. MaxMid BY <1>1, Ranges
<1>3. flushFile[m] \in Fn /\ l0[m] \subseteq Fn
  BY <1>1, <1>2 DEF IInv, FreshFiles, TypeOK, TypeFiles, TypeMemTables
<1>4. l0[m] \cup {flushFile[m]} \subseteq NextL0
  <2>1. l0[m] \subseteq vfiles[current][0] BY <1>2 DEF IInv, L0Files
  <2>2. Deleted(0) = {} /\ flushFile[m] \in Added(0) BY <1>1 DEF Deleted, Added
  <2> QED BY <2>1, <2>2 DEF NextL0
<1>5. \A f \in l0[m] \cup {flushFile[m]} : m \in fmids[f] BY <1>1, <1>2 DEF IInv, L0Files
<1> DEFINE fs == l0[m] \cup {flushFile[m]}
<1>6. l0' = [l0 EXCEPT ![m] = fs] /\ fs \in SUBSET Fn BY <1>3
<1>7. /\ (Control /\ Versions /\ InputsCurrent /\ FreshFiles /\ L0Files /\ FilesKept)'
      /\ (TypeFiles /\ TypeVersions /\ TypeThreads /\ TypeReaders)'
      /\ lastVid' \in [0 .. MaxMid -> 0 .. MaxVid] /\ l0' \in [0 .. MaxMid -> SUBSET Fn]
  BY <1>3, <1>4, <1>5, <1>6, EditStep
<1>8. TypeMemTables' BY SMT, <1>1, <1>7 DEF IInv, TypeOK, TypeMemTables, UnrefMem
<1>9. TypeWriters' BY DEF IInv, TypeOK, TypeWriters, writerVars, partVars
<1> QED BY <1>7, <1>8, <1>9 DEF IInv, TypeOK

\* AtomicMemTable::UpdateL0Files: the L0 files of a memtable follow a compaction.
LEMMA UpdateL0FilesStep == ASSUME IInv, NEW m \in pend, UpdateL0Files(m) PROVE IInv'
<1> USE DEF UpdateL0Files
<1>1. m \in 0 .. MaxMid /\ mutex \notin Flusher /\ cpc \in {"move", "install"}
  BY Ranges, ConstantsOK DEF IInv, Control, TypeOK, TypeThreads
<1>2. \A c \in ccur : c \in Uninstalled /\ c.lev \in Level /\ c.tgt \in {c.lev, c.lev + 1}
  BY InputsInCurrent DEF Uninstalled
<1> DEFINE fs == (l0[m] \cup AddFns(m)) \ RemoveFns(m)
<1>3. AddFns(m) \subseteq Added(0) BY <1>1 DEF AddFns, Added
<1>4. Added(0) \subseteq disk /\ disk \subseteq Fn BY AddedOnDisk DEF IInv, TypeOK, TypeFiles
<1>5. fs \subseteq Fn BY <1>1, <1>3, <1>4 DEF IInv, TypeOK, TypeMemTables
<1>6. l0[m] \ RemoveFns(m) \subseteq vfiles[current][0] \ Deleted(0)
  <2> SUFFICES ASSUME NEW f \in l0[m], f \in Deleted(0) PROVE f \in RemoveFns(m)
    BY <1>1 DEF IInv, L0Files
  <2>1. m \in fmids[f] BY <1>1 DEF IInv, L0Files
  <2>2. PICK c \in ccur : c.lev = 0 /\ f \in c.in0
    BY SMT, <1>1, <1>2, ConstantsOK DEF Deleted, Level
  <2>3. c.tgt \in {0, 1} BY SMT, <1>2, <2>2
  <2> QED BY SMT, <2>1, <2>2, <2>3 DEF RemoveFns, Inputs
<1>7. fs \subseteq NextL0 BY <1>3, <1>6 DEF NextL0
<1>8. \A f \in fs : m \in fmids[f]
  <2>1. \A f \in l0[m] : m \in fmids[f] BY <1>1 DEF IInv, L0Files
  <2>2. ASSUME NEW f \in AddFns(m) PROVE m \in fmids[f]
    <3>1. PICK c \in ccur : c.lev = 0 /\ c.tgt = 0 /\ f \in c.out /\ \E g \in c.in0 : m \in fmids[g]
      BY DEF AddFns
    <3>2. cpc = "install" BY SMT, <3>1, <1>1 DEF IInv, Control
    <3>3. c \in Produced BY <3>2 DEF IInv, Control, Produced
    <3> QED BY <3>1, <3>3 DEF IInv, L0Files
  <2> QED BY <2>1, <2>2
<1>9. /\ (Control /\ Versions /\ InputsCurrent /\ FreshFiles /\ L0Files /\ FilesKept)'
      /\ (TypeFiles /\ TypeVersions /\ TypeThreads /\ TypeReaders)'
      /\ lastVid' \in [0 .. MaxMid -> 0 .. MaxVid] /\ l0' \in [0 .. MaxMid -> SUBSET Fn]
  BY <1>5, <1>7, <1>8, EditStep
<1>10. (TypeMemTables /\ TypeWriters)'
  BY <1>9 DEF IInv, TypeOK, TypeMemTables, TypeWriters, writerVars, partVars
<1> QED BY <1>9, <1>10 DEF IInv, TypeOK

\* what an installation adds was in no version, except for a file that moves down a level
LEMMA AddedWhere ==
  ASSUME IInv, stage = "edit", mutex # NoOwner, NEW l \in Level, NEW f \in Added(l)
  PROVE  \/ f \notin FilesOf(current)
         \/ /\ mutex = Coordinator /\ cpc = "move"
            /\ \E c \in ccur : f \in c.in0 /\ f \in vfiles[current][c.lev] /\ c.lev \in Level
                             /\ l = c.lev + 1 /\ f \in Deleted(c.lev)
<1>1. CASE mutex \in Flusher
  BY <1>1 DEF Added, IInv, FreshFiles, Unborn
<1>2. CASE mutex \notin Flusher
  <2>1. mutex = Coordinator /\ cpc \in {"move", "install"} BY <1>2 DEF IInv, Control, TypeOK, TypeThreads
  <2>2. PICK c \in ccur : c.tgt = l /\ f \in c.out BY <1>2 DEF Added
  <2>3. CASE cpc = "move"
    <3>1. c.out = c.in0 /\ c.tgt = c.lev + 1 BY <2>3 DEF IInv, Control
    <3>2. c.lev \in Level /\ c.in0 \subseteq vfiles[current][c.lev] BY <2>1, InputsInCurrent DEF Uninstalled
    <3>3. f \in Deleted(c.lev) BY <1>2, <2>2, <3>1 DEF Deleted
    <3> QED BY <2>1, <2>2, <2>3, <3>1, <3>2, <3>3
  <2>4. CASE cpc = "install"
    BY <2>1, <2>2, <2>4 DEF IInv, Control, FreshFiles, Produced
  <2> QED BY <2>1, <2>3, <2>4
<1> QED BY <1>1, <1>2

\* An installation adds a table to one level only.
LEMMA AddedOnce ==
  ASSUME IInv, stage = "edit", mutex # NoOwner, NEW l \in Level, NEW o \in Level, l # o
  PROVE  Added(l) \cap Added(o) = {}
<1>1. CASE mutex \in Flusher BY <1>1 DEF Added
<1>2. CASE mutex \notin Flusher
  <2>1. mutex = Coordinator /\ cpc \in {"move", "install"} BY <1>2 DEF IInv, Control, TypeOK, TypeThreads
  <2> SUFFICES ASSUME NEW c \in ccur, NEW d \in ccur, c # d PROVE c.out \cap d.out = {}
    BY SMT, <1>2 DEF Added
  <2>3. CASE cpc = "move"
    <3>1. c.out = c.in0 /\ d.out = d.in0 BY <2>3 DEF IInv, Control
    <3>2. Inputs(c) \cap Inputs(d) = {} BY <2>1 DEF IInv, InputsCurrent, Uninstalled
    <3> QED BY <3>1, <3>2 DEF Inputs
  <2>4. CASE cpc = "install"
    BY <2>1, <2>4 DEF IInv, Control, FreshFiles, Produced
  <2> QED BY <2>1, <2>3, <2>4
<1> QED BY <1>1, <1>2

\* An installation deletes inputs of its compactions only.
LEMMA DeletedFiles ==
  ASSUME mutex \notin Flusher, NEW l, NEW f
  PROVE  f \in Deleted(l) <=>
           \E c \in ccur : (c.lev = l /\ f \in c.in0) \/ (c.lev + 1 = l /\ f \in c.in1)
BY Zenon DEF Deleted

\* an input of a compaction that is being installed leaves its level
LEMMA InputsLeave ==
  ASSUME IInv, stage = "edit", mutex = Coordinator, NEW c \in ccur, NEW f \in Inputs(c),
         NEW l \in Level, f \in vfiles[current][l]
  PROVE  f \in Deleted(l)
<1>1. /\ c.lev \in Level /\ c.lev + 1 \in Level
      /\ c.in0 \subseteq vfiles[current][c.lev] /\ c.in1 \subseteq vfiles[current][c.lev + 1]
  BY InputsInCurrent DEF Uninstalled
<1>2. f \in c.in0 => l = c.lev BY <1>1 DEF IInv, InputsCurrent
<1>3. f \in c.in1 => l = c.lev + 1 BY <1>1 DEF IInv, InputsCurrent
<1>4. mutex \notin Flusher BY ConstantsOK
<1>5. f \in c.in0 \/ f \in c.in1 BY DEF Inputs
<1>6. \E d \in ccur : (d.lev = l /\ f \in d.in0) \/ (d.lev + 1 = l /\ f \in d.in1)
  BY <1>2, <1>3, <1>5
<1> QED BY <1>4, <1>6, DeletedFiles

\* level l of the version under installation
NextLevel(l) == (vfiles[current][l] \ (Deleted(l) \ Added(l))) \cup Added(l)

\* the new version, file by file
LEMMA NewFiles ==
  ASSUME IInv, AppendVersion
  PROVE  /\ newVid \in Vid /\ newVid \notin vset \cup linked
         /\ \A v \in Vid : v # newVid => vfiles'[v] = vfiles[v]
         /\ \A l \in Level : vfiles'[newVid][l] = (vfiles[current][l] \ (Deleted(l) \ Added(l))) \cup Added(l)
<1>1. newVid \in Vid /\ newVid \notin vset \cup linked
  BY SMT DEF AppendVersion, IInv, Control, Vid, TypeOK, TypeVersions
<1> QED BY <1>1 DEF AppendVersion, IInv, TypeOK, TypeVersions

\* AppendVersion keeps the types.
LEMMA AppendTypes == ASSUME IInv, AppendVersion PROVE TypeOK'
<1> USE DEF AppendVersion
<1>1. (TypeWriters /\ TypeMemTables /\ TypeReaders)'
  BY DEF IInv, TypeOK, TypeWriters, TypeMemTables, TypeReaders, writerVars, partVars, memVars, readVars
<1>2. TypeThreads' BY DEF IInv, TypeOK, TypeThreads, flushVars, coordVars
<1>3. newVid \in Vid BY NewFiles
<1>4. \A l \in Level : Added(l) \subseteq Fn BY AddedOnDisk DEF IInv, TypeOK, TypeFiles
<1>5. [l \in Level |-> (vfiles[current][l] \ (Deleted(l) \ Added(l))) \cup Added(l)] \in [Level -> SUBSET Fn]
  BY <1>4 DEF IInv, TypeOK, TypeVersions
<1>6. vfiles' \in [Vid -> [Level -> SUBSET Fn]] BY <1>3, <1>5 DEF IInv, TypeOK, TypeVersions
<1>7. TypeVersions'
  <2>1. vrefs' \in [Vid -> Int]
    <3>1. vrefs \in [Vid -> Int] /\ vrefs' = [vrefs EXCEPT ![current] = @ - 1]
      BY DEF IInv, TypeOK, TypeVersions, UnrefVersion
    <3>2. vrefs[current] - 1 \in Int
      <4>1. vrefs[current] \in Int BY <3>1, Zero
      <4> HIDE DEF AppendVersion
      <4> QED BY SMT, <4>1
    <3> QED BY <3>1, <3>2
  <2>2. vdeleted' \subseteq Vid BY DEF IInv, TypeOK, TypeVersions, UnrefVersion
  <2> QED BY <1>3, <1>6, <2>1, <2>2 DEF IInv, TypeOK, TypeVersions
<1>8. TypeFiles'
  <2>1. \A c \in ccur : Inputs(c) \subseteq Fn BY DEF IInv, TypeOK, TypeThreads, Compactions, Inputs
  <2>2. compacted' \subseteq Fn BY <2>1 DEF IInv, TypeOK, TypeFiles
  <2>3. fmids' \in [Fn -> SUBSET Mid] BY DEF IInv, TypeOK, TypeFiles
  <2> QED BY <2>2, <2>3 DEF IInv, TypeOK, TypeFiles
<1> QED BY <1>1, <1>2, <1>7, <1>8 DEF TypeOK

\* AppendVersion keeps control and counts: the old version loses the reference of current_.
LEMMA AppendControl == ASSUME IInv, AppendVersion PROVE Control' /\ Versions'
<1>1. newVid \in Vid /\ newVid \notin vset \cup linked BY NewFiles
<1> USE DEF AppendVersion
<1>2. Control'
  BY <1>1 DEF IInv, Control, Appended, flushVars, coordVars
<1>3. current \in vset /\ current \in Vid /\ vrefs[current] >= 1
  <2>1. current \in vset BY DEF IInv, Control
  <2> QED BY <2>1, CurrentAlive
<1>4. \A v \in Vid : vrefs'[v] = IF v = current THEN vrefs[v] - 1 ELSE vrefs[v]
  BY DEF UnrefVersion, IInv, TypeOK, TypeVersions
<1>5. \A v : Holders(v)' = Holders(v) BY DEF Holders, HoldsVersion, readVars
<1>6. VersionRefsExact'
  <2> SUFFICES ASSUME NEW v \in Vid
               PROVE  vrefs'[v] = Cardinality(Holders(v)) + (IF v = newVid /\ v \in vset THEN 1 ELSE 0)
                                  + (IF v = cvid /\ cpc # "collect" THEN 1 ELSE 0)
    BY <1>5 DEF VersionRefsExact, coordVars
  <2>1. vrefs[v] = Cardinality(Holders(v)) + (IF v = current /\ v \in vset THEN 1 ELSE 0)
                   + (IF v = cvid /\ cpc # "collect" THEN 1 ELSE 0)
    BY DEF IInv, Versions, VersionRefsExact
  <2>2. vrefs[v] \in Int BY DEF IInv, TypeOK, TypeVersions
  <2> HIDE DEF AppendVersion
  <2> QED BY SMT, <1>1, <1>3, <1>4, <2>1, <2>2, HoldersFinite
<1>7. \A v \in vdeleted' : vrefs'[v] = 0
  <2>1. \A v \in vdeleted' : v \in vdeleted \/ (v = current /\ vrefs[current] = 1) BY DEF UnrefVersion
  <2>2. vdeleted \subseteq Vid /\ \A v \in vdeleted : vrefs[v] = 0 BY DEF IInv, Versions, TypeOK, TypeVersions
  <2> HIDE DEF AppendVersion
  <2> QED BY SMT, <1>3, <1>4, <2>1, <2>2
<1>8. \A v \in vset' \cup linked' : v < nextVid' BY DEF IInv, Versions, Control
<1>9. vdeleted' \subseteq vset' /\ vdeleted \subseteq vdeleted' BY <1>3 DEF UnrefVersion, IInv, Versions
<1> QED BY <1>2, <1>6, <1>7, <1>8, <1>9 DEF IInv, Versions, HoldsVersion, readVars, coordVars

\* AppendVersion leaves in the current version what the other compactions of the batch will read.
LEMMA AppendInputs == ASSUME IInv, AppendVersion PROVE InputsCurrent'
<1>1. stage = "edit" /\ mutex # NoOwner BY DEF AppendVersion
<1>2. current \in Vid /\ current' = newVid BY Zero DEF AppendVersion
<1>3. /\ newVid \in Vid /\ newVid \notin vset \cup linked
      /\ \A v \in Vid : v # newVid => vfiles'[v] = vfiles[v]
      /\ \A l \in Level : vfiles'[newVid][l] = (vfiles[current][l] \ (Deleted(l) \ Added(l))) \cup Added(l)
  BY NewFiles
<1>4. Uninstalled' = IF mutex = Coordinator THEN ctodo \ ccur ELSE ctodo \cup ccur
  BY DEF Uninstalled, AppendVersion, coordVars
<1>5. Uninstalled' \subseteq Uninstalled BY <1>1, <1>4 DEF Uninstalled
<1>6. ASSUME cpc = "pick", NEW l \in Level PROVE vfiles'[cvid][l] \subseteq vfiles'[newVid][l]
  <2>1. cvid \in Vid /\ cvid # newVid BY <1>6, <1>3 DEF IInv, Control, Versions
  <2>2. mutex \in Flusher BY <1>1, <1>6 DEF IInv, Control, TypeOK, TypeThreads
  <2>3. Deleted(l) = {} BY <2>2 DEF Deleted
  <2> QED BY SMT, <1>3, <1>6, <2>1, <2>3 DEF IInv, InputsCurrent
<1>7. ASSUME NEW c \in Uninstalled', NEW l \in Level PROVE Inputs(c) \cap Deleted(l) = {}
  <2> SUFFICES ASSUME mutex \notin Flusher PROVE Inputs(c) \cap Deleted(l) = {} BY DEF Deleted
  <2>1. mutex = Coordinator BY <1>1 DEF IInv, TypeOK, TypeThreads
  <2>2. \A d \in ccur : Inputs(c) \cap Inputs(d) = {}
    BY SMT, <1>1, <1>4, <1>5, <2>1 DEF IInv, InputsCurrent, Uninstalled
  <2> QED BY <2>2, DeletedFiles DEF Inputs
<1>8. ASSUME NEW c \in Uninstalled'
      PROVE  /\ c.lev + 1 \in Level /\ c.tgt \in {c.lev, c.lev + 1}
             /\ c.in0 \subseteq vfiles'[newVid][c.lev] /\ c.in1 \subseteq vfiles'[newVid][c.lev + 1]
  <2>1. c \in Uninstalled BY <1>5
  <2>2. /\ c.lev \in Level /\ c.lev + 1 \in Level /\ c.tgt \in {c.lev, c.lev + 1}
        /\ c.in0 \subseteq vfiles[current][c.lev] /\ c.in1 \subseteq vfiles[current][c.lev + 1]
    BY <2>1, InputsInCurrent
  <2>3. c.in0 \cap Deleted(c.lev) = {} /\ c.in1 \cap Deleted(c.lev + 1) = {} BY <1>7, <2>2 DEF Inputs
  <2> QED BY <1>3, <2>2, <2>3
<1>9. ASSUME NEW l \in Level, NEW o \in Level, l # o PROVE vfiles'[newVid][l] \cap vfiles'[newVid][o] = {}
  <2>1. vfiles[current][l] \cap vfiles[current][o] = {} BY <1>9 DEF IInv, InputsCurrent
  <2>2. Added(l) \cap Added(o) = {} BY <1>1, <1>9, AddedOnce
  <2>3. ASSUME NEW a \in Level, NEW b \in Level, a # b, NEW f \in Added(a), f \in vfiles[current][b]
        PROVE  f \in Deleted(b)
    <3>1. f \in FilesOf(current) BY <1>2, <2>3, LevelFiles
    <3>2. PICK c \in ccur : f \in vfiles[current][c.lev] /\ c.lev \in Level /\ f \in Deleted(c.lev)
      BY <1>1, <3>1, AddedWhere
    <3>3. c.lev = b BY <2>3, <3>2 DEF IInv, InputsCurrent
    <3> QED BY <3>2, <3>3
  <2>4. \A f \in Added(l) : f \in vfiles[current][o] => f \in Deleted(o) BY <1>9, <2>3
  <2>5. \A f \in Added(o) : f \in vfiles[current][l] => f \in Deleted(l) BY <1>9, <2>3
  <2> QED BY <1>3, <2>1, <2>2, <2>4, <2>5
<1>10. \A c, d \in Uninstalled' : c # d => Inputs(c) \cap Inputs(d) = {} BY <1>5 DEF IInv, InputsCurrent
<1>11. cpc' = cpc /\ cvid' = cvid BY DEF AppendVersion, coordVars
<1> QED BY <1>2, <1>6, <1>8, <1>9, <1>10, <1>11 DEF InputsCurrent, Inputs

\* the files of the new version and what becomes obsolete with it
LEMMA AppendFiles ==
  ASSUME IInv, AppendVersion
  PROVE  /\ FilesOf(newVid)' \subseteq FilesOf(current) \cup UNION {Added(l) : l \in Level}
         /\ \A v \in Vid : v # newVid => FilesOf(v)' = FilesOf(v)
         /\ compacted \subseteq compacted' /\ compacted' \subseteq compacted \cup FilesOf(current)
         /\ FilesOf(newVid)' \subseteq disk \ (compacted' \cup deleting)
<1>1. stage = "edit" /\ mutex # NoOwner BY DEF AppendVersion
<1>2. current \in Vid BY Zero
<1>3. /\ newVid \in Vid /\ \A v \in Vid : v # newVid => vfiles'[v] = vfiles[v]
      /\ \A l \in Level : vfiles'[newVid][l] = (vfiles[current][l] \ (Deleted(l) \ Added(l))) \cup Added(l)
  BY NewFiles
<1>0. newVid' = newVid BY DEF AppendVersion
<1>4. FilesOf(newVid)' \subseteq FilesOf(current) \cup UNION {Added(l) : l \in Level} BY SMT, <1>0, <1>3 DEF FilesOf
<1>5. \A v \in Vid : v # newVid => FilesOf(v)' = FilesOf(v) BY <1>3 DEF FilesOf
<1>6. ASSUME mutex = Coordinator, NEW c \in ccur PROVE Inputs(c) \subseteq FilesOf(current)
  BY <1>1, <1>6, InputsInCurrent DEF Uninstalled
<1>7. compacted \subseteq compacted' /\ compacted' \subseteq compacted \cup FilesOf(current)
  BY <1>6 DEF AppendVersion
<1>8. ASSUME NEW l \in Level, NEW f \in vfiles'[newVid][l] PROVE f \in disk \ (compacted' \cup deleting)
  <2>1. CASE f \in Added(l)
    <3>1. f \in disk \ (compacted \cup deleting) BY <1>1, <2>1, AddedOnDisk
    <3>2. CASE f \notin FilesOf(current) BY <1>7, <3>1, <3>2
    <3>3. CASE mutex = Coordinator /\ cpc = "move" BY <3>1, <3>3 DEF AppendVersion
    <3> QED BY <1>1, <2>1, <3>2, <3>3, AddedWhere
  <2>2. CASE f \notin Added(l)
    <3>1. f \in vfiles[current][l] /\ f \notin Deleted(l) BY <1>3, <2>2
    <3>2. f \in disk \ (compacted \cup deleting) BY <1>2, <3>1, LevelFiles DEF IInv, FilesKept
    <3>3. mutex = Coordinator => \A c \in ccur : f \notin Inputs(c) BY <1>1, <3>1, InputsLeave
    <3> QED BY <3>2, <3>3 DEF AppendVersion
  <2> QED BY <2>1, <2>2
<1>9. FilesOf(newVid)' \subseteq disk \ (compacted' \cup deleting) BY <1>0, <1>8 DEF FilesOf
<1> QED BY <1>4, <1>5, <1>7, <1>9

\* tables that stay uninstalled are not among what the installation adds
LEMMA AppendFresh ==
  ASSUME IInv, AppendVersion
  PROVE  /\ Unborn' \subseteq Unborn /\ Produced' \subseteq Produced
         /\ \A m \in Unborn' : flushFile[m] \notin FilesOf(newVid)' \cup compacted'
         /\ \A c \in Produced' : c.out \cap (FilesOf(newVid)' \cup compacted') = {}
<1>1. stage = "edit" /\ mutex # NoOwner BY DEF AppendVersion
<1>2. Unborn' = UNION {fmem[g] : g \in {h \in Flusher : mutex # h}}
  BY DEF Unborn, AppendVersion, flushVars
<1>3. Produced' = IF mutex = Coordinator THEN ctodo \ ccur ELSE ctodo
  BY DEF Produced, AppendVersion, coordVars
<1>4. Unborn' \subseteq Unborn /\ Produced' \subseteq Produced
  BY <1>1, <1>2, <1>3 DEF Unborn, Produced
<1>5. ASSUME NEW l \in Level, NEW f \in Added(l), f \notin FilesOf(current)
      PROVE  (\A m \in Unborn' : flushFile[m] # f) /\ (\A c \in Produced' : f \notin c.out)
  <2>1. CASE mutex \in Flusher
    <3>1. PICK n \in fmem[mutex] : f = flushFile[n] BY <2>1 DEF Added
    <3>2. n \in Unborn BY <1>1, <2>1 DEF Unborn
    <3>3. \A m \in Unborn' : m # n BY <1>2, <2>1 DEF IInv, FreshFiles
    <3> QED BY <1>4, <3>1, <3>2, <3>3 DEF IInv, FreshFiles
  <2>2. CASE mutex \notin Flusher
    <3>1. mutex = Coordinator /\ cpc \in {"move", "install"} BY <1>1, <2>2 DEF IInv, Control, TypeOK, TypeThreads
    <3>2. PICK c \in ccur : f \in c.out BY <2>2 DEF Added
    <3>3. cpc = "install"
      <4> SUFFICES ASSUME cpc = "move" PROVE f \in FilesOf(current) BY <1>5, <3>1
      <4>1. f \in Inputs(c) BY <3>2 DEF IInv, Control, Inputs
      <4> QED BY <1>1, <4>1, InputsInCurrent DEF Uninstalled
    <3>4. c \in Produced /\ c \notin Produced' BY <1>1, <1>3, <3>1, <3>3 DEF Produced, IInv, Control
    <3> QED BY <1>4, <3>2, <3>4 DEF IInv, FreshFiles
  <2> QED BY <2>1, <2>2
<1>6. /\ FilesOf(newVid)' \subseteq FilesOf(current) \cup UNION {Added(l) : l \in Level}
      /\ compacted' \subseteq compacted \cup FilesOf(current)
  BY AppendFiles
<1>7. \A m \in Unborn' : flushFile[m] \notin FilesOf(newVid)' \cup compacted'
  BY SMT, <1>4, <1>5, <1>6 DEF IInv, FreshFiles
<1>8. \A c \in Produced' : c.out \cap (FilesOf(newVid)' \cup compacted') = {}
  <2> SUFFICES ASSUME NEW c \in Produced', NEW f \in c.out PROVE f \notin FilesOf(newVid)' \cup compacted'
    OBVIOUS
  <2>1. f \notin compacted \cup FilesOf(current) BY <1>4 DEF IInv, FreshFiles
  <2> QED BY <1>5, <1>6, <2>1
<1> QED BY <1>4, <1>7, <1>8

\* LogAndApply and AppendVersion up to SetVersion keep the invariant.
LEMMA AppendVersionStep == ASSUME IInv, AppendVersion PROVE IInv'
<1>1. stage = "edit" /\ mutex # NoOwner /\ pend = {} BY DEF AppendVersion
<1>2. /\ newVid \in Vid /\ newVid \notin vset \cup linked
      /\ \A v \in Vid : v # newVid => vfiles'[v] = vfiles[v]
      /\ \A l \in Level : vfiles'[newVid][l] = (vfiles[current][l] \ (Deleted(l) \ Added(l))) \cup Added(l)
  BY NewFiles
<1>3. current' = newVid /\ newVid' = newVid /\ stage' = "set" BY DEF AppendVersion
<1>4. /\ FilesOf(newVid)' \subseteq FilesOf(current) \cup UNION {Added(l) : l \in Level}
      /\ \A v \in Vid : v # newVid => FilesOf(v)' = FilesOf(v)
      /\ compacted \subseteq compacted' /\ compacted' \subseteq compacted \cup FilesOf(current)
      /\ FilesOf(newVid)' \subseteq disk \ (compacted' \cup deleting)
  BY AppendFiles
<1>5. FilesOf(current)' = FilesOf(newVid)' BY <1>3 DEF FilesOf
<1>6. /\ Unborn' \subseteq Unborn /\ Produced' \subseteq Produced
      /\ \A m \in Unborn' : flushFile[m] \notin FilesOf(newVid)' \cup compacted'
      /\ \A c \in Produced' : c.out \cap (FilesOf(newVid)' \cup compacted') = {}
  BY AppendFresh
<1>7. current \in Vid BY Zero
<1>8. FreshFiles'
  <2>1. \A v \in Vid : FilesOf(v)' \subseteq 1 .. nextFile - 1
    <3>1. FilesOf(newVid)' \subseteq 1 .. nextFile - 1 BY <1>4 DEF IInv, FreshFiles
    <3>2. newVid' = newVid BY <1>3
    <3>3. \A v \in Vid : v = newVid => FilesOf(v)' \subseteq 1 .. nextFile - 1
      BY <3>1, <3>2 DEF FilesOf
    <3> QED BY <1>4, <3>3 DEF IInv, FreshFiles
  <2>2. compacted' \subseteq 1 .. nextFile - 1 BY <1>4, <1>7 DEF IInv, FreshFiles
  <2>3. UNCHANGED <<nextFile, disk, deleting, fmem, scheduled, flushFile>> BY DEF AppendVersion, flushVars
  <2>4. \A m \in Unborn' : flushFile[m] \in disk \ (compacted' \cup deleting \cup FilesOf(current)')
    BY <1>5, <1>6 DEF IInv, FreshFiles
  <2>5. \A c \in Produced' : c.out \subseteq disk \ (compacted' \cup deleting \cup FilesOf(current)')
    BY <1>5, <1>6 DEF IInv, FreshFiles
  <2>6. /\ \A m, n \in Unborn' : m # n => flushFile[m] # flushFile[n]
        /\ \A c, d \in Produced' : c # d => c.out \cap d.out = {}
        /\ \A m \in Unborn', c \in Produced' : flushFile[m] \notin c.out
    BY <1>6 DEF IInv, FreshFiles
  <2> QED BY <2>1, <2>2, <2>3, <2>4, <2>5, <2>6 DEF IInv, FreshFiles
<1>9. L0Files'
  <2> DEFINE Moved(f) == mutex = Coordinator /\ cpc = "move" /\ \E c \in ccur : f \in c.out
  <2>1. \A f \in Fn : fmids'[f] = IF Moved(f) THEN {} ELSE fmids[f] BY DEF AppendVersion
  <2>2. ASSUME NEW f, Moved(f) PROVE /\ f \in FilesOf(current) /\ f \notin NextL0
    <3>1. PICK c \in ccur : f \in c.out BY <2>2
    <3>2. f \in Inputs(c) /\ \A d \in ccur : d.tgt = d.lev + 1 BY <2>2, <3>1 DEF IInv, Control, Inputs
    <3>3. \A d \in ccur : d \in Uninstalled BY <1>1 DEF Uninstalled
    <3>4. f \in FilesOf(current) BY <3>2, <3>3, InputsInCurrent
    <3>5. mutex \notin Flusher BY <2>2, ConstantsOK
    <3>6. \A d \in ccur : d.lev \in Level BY <3>3, InputsInCurrent
    <3>7. \A d \in ccur : d.tgt # 0 BY SMT, <3>2, <3>6, ConstantsOK DEF Level
    <3>8. Added(0) = {} BY <3>5, <3>7 DEF Added
    <3>9. f \in vfiles[current][0] => f \in Deleted(0) BY <1>1, <2>2, <3>2, Zero, InputsLeave
    <3> QED BY <3>4, <3>8, <3>9 DEF NextL0
  <2>3. \A m \in 0 .. MaxMid : l0[m] \subseteq NextL0 BY <1>1 DEF IInv, L0Files
  <2>4. NextL0 \subseteq vfiles'[newVid][0] BY <1>2, Zero DEF NextL0
  <2>5. \A m \in 0 .. MaxMid : \A f \in l0[m] : m \in fmids'[f]
    <3>1. \A m \in 0 .. MaxMid : \A f \in l0[m] : f \in Fn /\ m \in fmids[f] /\ f \in NextL0
      BY <2>3 DEF IInv, TypeOK, TypeMemTables, L0Files
    <3> QED BY <2>1, <2>2, <3>1
  <2>6. \A v \in vset \ vdeleted', m \in 0 .. MaxMid : lastVid[m] <= v => l0[m] \subseteq vfiles'[v][0]
    <3>1. vdeleted \subseteq vdeleted' BY DEF AppendVersion, UnrefVersion
    <3>2. \A v \in vset : vfiles'[v] = vfiles[v] BY <1>2 DEF IInv, TypeOK, TypeVersions
    <3> QED BY <3>1, <3>2 DEF IInv, L0Files
  <2>7. \A m \in 0 .. MaxMid : lastVid[m] <= newVid BY <1>1 DEF IInv, L0Files
  <2>8. \A m \in Unborn' : m \in fmids'[flushFile[m]]
    <3>1. \A m \in Unborn : flushFile[m] \in Fn /\ flushFile[m] \notin FilesOf(current) /\ m \in fmids[flushFile[m]]
      BY DEF IInv, FreshFiles, TypeOK, TypeFiles, L0Files
    <3> QED BY <1>6, <2>1, <2>2, <3>1
  <2>9. \A c \in Produced' : c.tgt = 0 => \A f \in c.out, g \in c.in0 : fmids'[g] \subseteq fmids'[f]
    <3> SUFFICES ASSUME NEW c \in Produced, c.tgt = 0, NEW f \in c.out, NEW g \in c.in0
                 PROVE  fmids'[g] \subseteq fmids'[f]
      BY <1>6
    <3>1. f \in Fn /\ f \notin FilesOf(current) BY DEF IInv, FreshFiles, TypeOK, TypeFiles
    <3>2. c \in Compactions BY DEF Produced, IInv, TypeOK, TypeThreads
    <3>3. g \in Fn BY <3>2 DEF Compactions
    <3>4. fmids[g] \subseteq fmids[f] BY DEF IInv, L0Files
    <3> QED BY <2>1, <2>2, <3>1, <3>3, <3>4
  <2>10. ASSUME NEW r \in Reader, rpc[r] = "l0" PROVE rl0[r] \subseteq FilesOf(rvid[r])'
    <3>1. rvid[r] \in Vid /\ rvid[r] \in vset BY <2>10, HeldAlive DEF HoldsVersion
    <3>2. rvid' = rvid BY DEF AppendVersion, readVars
    <3>3. FilesOf(rvid[r])' = FilesOf(rvid[r]) BY SMT, <1>2, <3>1, <3>2 DEF FilesOf
    <3> QED BY <2>10, <3>3 DEF IInv, L0Files
  <2>11. UNCHANGED <<l0, lastVid, vset, flushFile, rpc, rl0, rvid>>
    BY DEF AppendVersion, memVars, flushVars, readVars
  <2> QED BY <1>3, <2>3, <2>4, <2>5, <2>6, <2>7, <2>8, <2>9, <2>10, <2>11 DEF IInv, L0Files, NoIOError
<1>10. FilesKept'
  <2>1. \A v : Holders(v)' = Holders(v) BY DEF Holders, HoldsVersion, AppendVersion, readVars
  <2>2. vdeleted \subseteq vdeleted' /\ UNCHANGED <<vset, vcompacting, disk, deleting, skip>>
    BY DEF AppendVersion, UnrefVersion
  <2>3. \A v \in vset : FilesOf(v)' = FilesOf(v) BY <1>2, <1>4 DEF IInv, TypeOK, TypeVersions
  <2>4. \A v \in vset' \ vdeleted' : v \notin vcompacting' \/ Holders(v)' # {} => FilesOf(v)' \subseteq disk' \ deleting'
    BY <2>1, <2>2, <2>3 DEF IInv, FilesKept
  <2>5. (skip # 0 => skip \in vcompacting /\ Holders(skip) = {})'
    BY <2>1, <2>2 DEF IInv, FilesKept, Holders, HoldsVersion, AppendVersion, readVars
  <2> QED BY <1>4, <1>5, <2>2, <2>4, <2>5 DEF FilesKept
<1> QED BY <1>8, <1>9, <1>10, AppendTypes, AppendControl, AppendInputs DEF IInv

\* AtomicVersion::SetVersion keeps the invariant.
LEMMA SetVersionStep == ASSUME IInv, SetVersion PROVE IInv'
<1> USE DEF SetVersion
<1>1. (TypeWriters /\ TypeMemTables /\ TypeFiles /\ TypeReaders)'
  BY DEF IInv, TypeOK, TypeWriters, TypeMemTables, TypeFiles, TypeReaders, writerVars, partVars,
         memVars, fileVars, gcVars, readVars
<1>2. /\ newVid \in Vid /\ current = newVid /\ newVid \notin vset /\ newVid \notin vdeleted
      /\ newVid < nextVid /\ newVid \in linked
  BY DEF IInv, Control, Appended, Versions
<1>3. TypeVersions' BY SMT, <1>2 DEF IInv, TypeOK, TypeVersions
<1>4. TypeThreads' BY DEF IInv, TypeOK, TypeThreads, flushVars, coordVars
<1>5. Control' BY <1>2 DEF IInv, Control, Appended, flushVars, coordVars
<1>6. \A v : Holders(v)' = Holders(v) BY DEF Holders, HoldsVersion, readVars
<1>7. Versions'
  <2>1. \A v \in Vid : vrefs'[v] = IF v = newVid THEN vrefs[v] + 1 ELSE vrefs[v]
    BY DEF IInv, TypeOK, TypeVersions
  <2>2. VersionRefsExact'
    <3> SUFFICES ASSUME NEW v \in Vid
                 PROVE  vrefs'[v] = Cardinality(Holders(v)) + (IF v = current /\ v \in vset' THEN 1 ELSE 0)
                                    + (IF v = cvid /\ cpc # "collect" THEN 1 ELSE 0)
      BY <1>6 DEF VersionRefsExact, coordVars
    <3>1. vrefs[v] = Cardinality(Holders(v)) + (IF v = current /\ v \in vset THEN 1 ELSE 0)
                     + (IF v = cvid /\ cpc # "collect" THEN 1 ELSE 0)
      BY DEF IInv, Versions, VersionRefsExact
    <3> QED BY SMT, <1>2, <2>1, <3>1, HoldersFinite
  <2>3. \A v \in vdeleted : vrefs'[v] = 0 BY <1>2, <2>1 DEF IInv, Versions, TypeOK, TypeVersions
  <2> QED BY <1>2, <2>2, <2>3 DEF IInv, Versions, HoldsVersion, coordVars, readVars
<1>8. Uninstalled' = Uninstalled /\ Produced' = Produced /\ Unborn' = Unborn
      /\ \A v : FilesOf(v)' = FilesOf(v)
  BY DEF Uninstalled, Produced, Unborn, FilesOf, coordVars, flushVars
<1>9. InputsCurrent' BY <1>8 DEF IInv, InputsCurrent, Inputs, coordVars
<1>10. FreshFiles' BY <1>8 DEF IInv, FreshFiles, fileVars, gcVars, flushVars
<1>11. L0Files'
  <2>1. \A m \in 0 .. MaxMid : l0[m] \subseteq vfiles[newVid][0] BY <1>2 DEF IInv, L0Files
  <2> QED BY <1>2, <1>8, <2>1 DEF IInv, L0Files, NoIOError, memVars, fileVars, flushVars, readVars
<1>12. FilesKept' BY <1>2, <1>6, <1>8 DEF IInv, FilesKept, gcVars
<1> QED BY <1>1, <1>3, <1>4, <1>5, <1>7, <1>9, <1>10, <1>11, <1>12 DEF IInv, TypeOK

\* a step of an installation after AppendVersion that leaves versions, files and references alone
LEMMA AppendedFrame ==
  ASSUME IInv, stage \in {"store", "mark"}, stage' \in {"mark", "collect"},
         stage' = "mark" => mutex = Coordinator,
         UNCHANGED <<writerVars, partVars, entries, memVars, lookup, committed, fileVars, gcVars,
                     nextVid, vfiles, vrefs, vset, vdeleted, linked, current,
                     mutex, newVid, pend, flushVars, coordVars, readVars>>
  PROVE  /\ (Control /\ Versions /\ InputsCurrent /\ FreshFiles /\ L0Files)'
         /\ (TypeWriters /\ TypeMemTables /\ TypeFiles /\ TypeReaders)'
         /\ \A v : Holders(v)' = Holders(v) /\ FilesOf(v)' = FilesOf(v)
<1>1. (TypeWriters /\ TypeMemTables /\ TypeFiles /\ TypeReaders)'
  BY DEF IInv, TypeOK, TypeWriters, TypeMemTables, TypeFiles, TypeReaders, writerVars, partVars,
         memVars, fileVars, gcVars, readVars
<1>2. Control' BY DEF IInv, Control, Appended, flushVars, coordVars
<1>3. Versions'
  <2>1. Versions /\ UNCHANGED <<cpc, cvid, rpc, rvid>> BY DEF IInv, coordVars, readVars
  <2>2. \A v \in vset \cup linked : v < nextVid' BY <2>1 DEF Versions
  <2> QED BY <2>1, <2>2, VersionsFrame
<1>4. Uninstalled' = Uninstalled /\ Produced' = Produced /\ Unborn' = Unborn
      /\ \A v : FilesOf(v)' = FilesOf(v)
  BY DEF Uninstalled, Produced, Unborn, FilesOf, coordVars, flushVars
<1>5. InputsCurrent' BY <1>4 DEF IInv, InputsCurrent, Inputs, coordVars
<1>6. FreshFiles' BY <1>4 DEF IInv, FreshFiles, fileVars, gcVars, flushVars
<1>7. L0Files' BY <1>4 DEF IInv, L0Files, NoIOError, memVars, fileVars, flushVars, readVars
<1>8. \A v : Holders(v)' = Holders(v) BY DEF Holders, HoldsVersion, readVars
<1> QED BY <1>1, <1>2, <1>3, <1>4, <1>5, <1>6, <1>7, <1>8

\* The store to current_version_id_ keeps the invariant.
LEMMA StoreCurrentIdStep == ASSUME IInv, StoreCurrentId PROVE IInv'
<1> USE DEF StoreCurrentId
<1>1. /\ (Control /\ Versions /\ InputsCurrent /\ FreshFiles /\ L0Files)'
      /\ (TypeWriters /\ TypeMemTables /\ TypeFiles /\ TypeReaders)'
      /\ \A v : Holders(v)' = Holders(v) /\ FilesOf(v)' = FilesOf(v)
  BY AppendedFrame
<1>2. TypeVersions' BY DEF IInv, Control, TypeOK, TypeVersions
<1>3. TypeThreads' BY DEF IInv, TypeOK, TypeThreads, flushVars, coordVars
<1>4. FilesKept' BY <1>1 DEF IInv, FilesKept, gcVars
<1> QED BY <1>1, <1>2, <1>3, <1>4 DEF IInv, TypeOK

\* AtomicVersion::SetCompaction: from here on no Get references the version; if no Get holds it, it
\* may be skipped.
LEMMA SetCompactionStep == ASSUME IInv, SetCompaction PROVE IInv'
<1> USE DEF SetCompaction, Marked, Skipped
<1>1. /\ (Control /\ Versions /\ InputsCurrent /\ FreshFiles /\ L0Files)'
      /\ (TypeWriters /\ TypeMemTables /\ TypeFiles /\ TypeReaders)'
      /\ \A v : Holders(v)' = Holders(v) /\ FilesOf(v)' = FilesOf(v)
  BY AppendedFrame
<1>2. cpc \in {"move", "install"} /\ cvid \in Vid BY DEF IInv, Control
<1>3. TypeVersions' BY <1>2 DEF IInv, TypeOK, TypeVersions
<1>4. TypeThreads' BY SMT, <1>2, Ranges, ConstantsOK DEF IInv, TypeOK, TypeThreads, flushVars, coordVars
<1>5. vrefs[cvid] = 1 => Holders(cvid) = {}
  <2>1. vrefs[cvid] = Cardinality(Holders(cvid)) + (IF cvid = current /\ cvid \in vset THEN 1 ELSE 0) + 1
    BY <1>2 DEF IInv, Versions, VersionRefsExact
  <2>2. vrefs[cvid] = 1 => Cardinality(Holders(cvid)) = 0 BY SMT, <2>1, HoldersFinite
  <2> QED BY <2>2, HoldersFinite, FS_EmptySet
<1>6. FilesKept'
  <2>1. (skip # 0 => skip \in vcompacting /\ Holders(skip) = {})'
    BY <1>1, <1>5 DEF Holders, HoldsVersion, readVars
  <2> QED BY <1>1, <2>1 DEF IInv, FilesKept, gcVars
<1> QED BY <1>1, <1>3, <1>4, <1>6 DEF IInv, TypeOK

=============================================================================
