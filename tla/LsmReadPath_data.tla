-------------------------- MODULE LsmReadPath_data --------------------------
(***************************************************************************)
(* IndexLeadsToData holds in every reachable state, whatever the           *)
(* constants: no flush, compaction, move or deletion loses the write that  *)
(* the lookup index was last set for.                                      *)
(***************************************************************************)
EXTENDS LsmReadPath_theorems, WellFoundedInduction

\* every entry of the tables F has one for its key in the tables G that is at least as new
Covered(F, G) ==
  \A f \in F : \A e \in content[f] : \E g \in G : \E d \in content[g] : d[1] = e[1] /\ e[2] <= d[2]

Lower == UNION {vfiles[current][l] : l \in Level \ {0}}
NextLower == UNION {NextLevel(l) : l \in Level \ {0}}

\* Where the entries of a flushed memtable are.  During an installation that is the version
\* to come for the memtables whose L0 files were changed already or will not change.
Tables(m) == l0[m] \cup (IF stage = "edit" /\ m \notin pend THEN NextLower ELSE Lower)

HasWrite(m, k, s) ==
  IF m \in flushed THEN \E f \in Tables(m) : \E e \in content[f] : e[1] = k /\ s <= e[2]
                   ELSE \E e \in entries[m] : e[1] = k /\ s <= e[2]

\* A memtable that is written to is active, one that is active is not being flushed.
Writing ==
  /\ flushed \subseteq scheduled
  /\ \A m \in scheduled : m < nextMid
  /\ \A p \in Partition : active[p] # 0 => active[p] < nextMid /\ active[p] \notin scheduled
  /\ \A w \in Writer : wpc[w] \in {"pend", "added"} => wmid[w] # 0 /\ \E p \in Partition : active[p] = wmid[w]
  /\ \A w \in Writer : wpc[w] = "added" => <<wkey[w], wseq[w]>> \in entries[wmid[w]]

\* The table of a memtable that is about to be flushed holds what the memtable holds.
Frozen == \A m \in Unborn : m \notin flushed => content[flushFile[m]] = entries[m]

\* The outputs of a compaction hold what its inputs hold, or newer entries.
Merged ==
  /\ \A c \in ctodo \cup ccur : c.tgt = c.lev => c.in1 = {}
  /\ \A c \in Uninstalled : c.out # {} => Covered(Inputs(c), c.out)

\* The write that the index was last set for is where the index leads.
Indexed ==
  \A k \in Key : committed[k] # 0 =>
    /\ lookup[k] \in Mid /\ lookup[k] < nextMid
    /\ HasWrite(lookup[k], k, committed[k])

DataInv == Writing /\ Frozen /\ Merged /\ Indexed

-----------------------------------------------------------------------------
(* Merging *)

\* A nonempty bounded set of naturals has a greatest element.
LEMMA Greatest ==
  ASSUME NEW b \in Nat, NEW S \in SUBSET (0 .. b), S # {}
  PROVE  \E n \in S : \A m \in S : m <= n
<1> DEFINE T == {b - n : n \in S}
<1>1. T \in SUBSET Nat /\ T # {}
  <2>1. \A n \in S : b - n \in Nat OBVIOUS
  <2> QED BY <2>1
<1>2. PICK t \in T : \A u \in T : ~(<<u, t>> \in OpToRel(<, Nat))
  BY <1>1, NatLessThanWellFounded, WFMin
<1>3. \A u \in T : ~(u < t) BY <1>1, <1>2 DEF OpToRel
<1>4. PICK n \in S : t = b - n BY <1>2
<1>5. \A m \in S : ~(b - m < b - n) BY <1>3, <1>4
<1> QED BY <1>5

\* What a merge keeps has an entry for every key that is at least as new.
LEMMA NewestCovers ==
  ASSUME NEW E \in SUBSET Entry, NEW e \in E
  PROVE  \E d \in Newest(E) : d[1] = e[1] /\ e[2] <= d[2]
<1> DEFINE S == {n \in 0 .. MaxSeq : <<e[1], n>> \in E}
<1>1. \A d \in E : d = <<d[1], d[2]>> /\ d[2] \in 0 .. MaxSeq BY DEF Entry
<1>2. e[2] \in S BY <1>1
<1>3. MaxSeq \in Nat BY ConstantsOK
<1>4. PICK n \in S : \A m \in S : m <= n BY <1>2, <1>3, Greatest
<1>5. \A d \in E : d[1] = e[1] => d[2] \in S BY <1>1
<1>6. <<e[1], n>> \in Newest(E) BY <1>4, <1>5 DEF Newest
<1> QED BY <1>2, <1>4, <1>6

-----------------------------------------------------------------------------
(* Where the tables are *)

\* Leaves are tried with Zenon; those that need arithmetic or EXCEPT cite SMT.
USE Zenon, SMT

\* What the index can lead to is on disk and nobody has asked to delete it.
LEMMA TablesOnDisk ==
  ASSUME IInv, NEW m \in 0 .. MaxMid
  PROVE  Tables(m) \subseteq disk \ deleting
<1>1. FilesOf(current) \subseteq disk \ deleting BY DEF IInv, FilesKept
<1>2. \A l \in Level : vfiles[current][l] \subseteq FilesOf(current) BY Zero DEF FilesOf
<1>3. Lower \subseteq disk \ deleting BY <1>1, <1>2 DEF Lower
<1>4. ASSUME stage = "edit"
      PROVE NextLower \subseteq disk \ deleting /\ NextL0 \subseteq disk \ deleting
  <2>1. \A l : Added(l) \subseteq disk \ deleting BY <1>4, AddedOnDisk
  <2>2. 0 \in Level BY Zero
  <2> QED BY <1>1, <1>2, <2>1, <2>2 DEF NextLower, NextLevel, NextL0
<1>5. l0[m] \subseteq disk \ deleting
  <2>1. vfiles[current][0] \subseteq disk \ deleting BY <1>1, <1>2, Zero
  <2> QED BY <1>4, <2>1 DEF IInv, L0Files
<1> QED BY <1>3, <1>4, <1>5 DEF Tables

\* What the current version holds above level 0, the version to come holds above level 0.
LEMMA NextCovers == IInv /\ Merged /\ stage = "edit" => Covered(Lower, NextLower)
<1> SUFFICES ASSUME IInv, Merged, stage = "edit" PROVE Covered(Lower, NextLower) OBVIOUS
<1> SUFFICES ASSUME NEW l \in Level \ {0}, NEW f \in vfiles[current][l], NEW e \in content[f]
             PROVE  \E g \in NextLower : \E d \in content[g] : d[1] = e[1] /\ e[2] <= d[2]
  BY SMT DEF Covered, Lower
<1>0. e[2] <= e[2]
  <2>1. f \in Fn BY Zero DEF IInv, TypeOK, TypeVersions
  <2>2. e \in Entry BY <2>1 DEF IInv, TypeOK, TypeFiles
  <2> QED BY <2>2, ConstantsOK DEF Entry
<1>1. CASE f \in NextLevel(l) BY <1>0, <1>1 DEF NextLower
<1>2. CASE f \notin NextLevel(l)
  <2>1. f \in Deleted(l) BY <1>2 DEF NextLevel
  <2>2. mutex \notin Flusher BY <2>1 DEF Deleted
  <2>3. PICK c \in ccur : (f \in c.in0 /\ c.lev = l) \/ (f \in c.in1 /\ c.lev + 1 = l)
    BY <2>1, <2>2 DEF Deleted
  <2>4. c \in Uninstalled BY DEF Uninstalled
  <2>5. mutex = Coordinator /\ cpc \in {"move", "install"} BY <2>2 DEF IInv, Control, TypeOK, TypeThreads
  <2>6. c.out # {} BY <2>5 DEF IInv, Control
  <2>7. PICK g \in c.out : \E d \in content[g] : d[1] = e[1] /\ e[2] <= d[2]
    BY <2>3, <2>4, <2>6 DEF Merged, Covered, Inputs
  <2>8. c.lev \in Level /\ c.lev + 1 \in Level /\ c.tgt \in {c.lev, c.lev + 1}
    BY <2>4, InputsInCurrent
  <2>9. c.tgt = c.lev => c.in1 = {} BY DEF Merged
  <2>10. c.tgt \in Level \ {0} BY SMT, <2>3, <2>8, <2>9, ConstantsOK DEF Level
  <2>11. g \in Added(c.tgt) BY <2>2 DEF Added
  <2>12. g \in NextLower BY SMT, <2>10, <2>11 DEF NextLower, NextLevel
  <2> QED BY <2>7, <2>12
<1> QED BY <1>1, <1>2

\* The same of the state after a step.
LEMMA NextCoversPrime == (IInv /\ Merged /\ stage = "edit" => Covered(Lower, NextLower))'
BY NextCovers, PTL

\* The tables of a memtable stay where they are between the steps of an installation.
LEMMA TablesFrame ==
  ASSUME UNCHANGED <<mutex, ccur, vfiles, current>>
  PROVE  /\ Lower' = Lower /\ NextLower' = NextLower
         /\ \A m : UNCHANGED <<l0, stage, pend>> => Tables(m)' = Tables(m)
<1>1. \A l \in Level \ {0} : Added(l)' = Added(l) BY DEF Added
<1>2. \A l \in Level \ {0} : Deleted(l)' = Deleted(l) BY DEF Deleted
<1>3. NextLower' = NextLower BY <1>1, <1>2 DEF NextLower, NextLevel
<1>4. Lower' = Lower BY DEF Lower
<1> QED BY <1>3, <1>4 DEF Tables

\* The table of a memtable that is about to be flushed.
LEMMA UnbornOnDisk ==
  ASSUME IInv, NEW m \in Unborn
  PROVE  flushFile[m] \in disk \ deleting /\ m \in scheduled /\ m \in Mid
BY SMT DEF IInv, FreshFiles, Unborn, TypeOK, TypeThreads

-----------------------------------------------------------------------------
(* Frames *)

\* Memtables that are not flushed lose nothing, the others stay in the same tables.
LEMMA IndexedFrame ==
  ASSUME IInv, Indexed, UNCHANGED <<lookup, committed, flushed>>,
         nextMid' \in Int, nextMid' >= nextMid, ContentKept,
         \A m \in Mid : m < nextMid /\ m \notin flushed => entries[m] \subseteq entries'[m],
         \A m \in Mid : m \in flushed => Tables(m)' = Tables(m)
  PROVE  Indexed'
<1> SUFFICES ASSUME NEW k \in Key, committed[k] # 0
             PROVE  /\ lookup[k] \in Mid /\ lookup[k] < nextMid'
                    /\ HasWrite(lookup[k], k, committed[k])'
  BY DEF Indexed
<1>0. PICK m : m = lookup[k] OBVIOUS
<1>1. m \in Mid /\ m < nextMid /\ HasWrite(m, k, committed[k]) BY <1>0 DEF Indexed
<1>2. m \in 0 .. MaxMid /\ m \in Int /\ nextMid \in Int
  BY SMT, <1>1, Ranges DEF Mid, IInv, TypeOK, TypeWriters
<1>3. m < nextMid' BY <1>1, <1>2
<1>4. CASE m \in flushed
  <2>1. PICK f \in Tables(m) : \E e \in content[f] : e[1] = k /\ committed[k] <= e[2]
    BY <1>1, <1>4 DEF HasWrite
  <2>2. content'[f] = content[f] BY <1>2, TablesOnDisk DEF ContentKept
  <2>3. \E e \in content'[f] : e[1] = k /\ committed'[k] <= e[2] BY <2>1, <2>2
  <2>4. f \in Tables(m)' BY <1>1, <1>4
  <2>5. HasWrite(m, k, committed[k])' BY <2>3, <2>4, <1>4 DEF HasWrite
  <2> QED BY <1>0, <1>1, <1>3, <2>5
<1>5. CASE m \notin flushed
  <2>1. \E e \in entries'[m] : e[1] = k /\ committed'[k] <= e[2] BY <1>1, <1>5 DEF HasWrite
  <2>2. HasWrite(m, k, committed[k])' BY <2>1, <1>5 DEF HasWrite
  <2> QED BY <1>0, <1>1, <1>3, <2>2
<1> QED BY <1>4, <1>5

\* No table is begun, no memtable to be flushed changes.
LEMMA FrozenFrame ==
  ASSUME IInv, Frozen, flushed \subseteq flushed', Unborn' \subseteq Unborn, ContentKept,
         \A m \in Unborn' : flushFile'[m] = flushFile[m],
         \A m \in Unborn' : m \notin flushed' => entries'[m] = entries[m]
  PROVE  Frozen'
<1> SUFFICES ASSUME NEW m \in Unborn', m \notin flushed' PROVE content'[flushFile'[m]] = entries'[m]
  BY DEF Frozen
<1>1. content[flushFile[m]] = entries[m] BY DEF Frozen
<1>2. content'[flushFile[m]] = content[flushFile[m]] BY UnbornOnDisk DEF ContentKept
<1> QED BY <1>1, <1>2

\* No compaction is begun or run.
LEMMA MergedFrame ==
  ASSUME IInv, Merged, ContentKept, ctodo' \cup ccur' \subseteq ctodo \cup ccur,
         Uninstalled' \subseteq Uninstalled
  PROVE  Merged'
<1> SUFFICES ASSUME NEW c \in Uninstalled', c.out # {} PROVE Covered(Inputs(c), c.out)'
  BY DEF Merged
<1>1. Covered(Inputs(c), c.out) BY DEF Merged
<1>2. \A f \in Inputs(c) \cup c.out : content'[f] = content[f]
  BY CompactionOnDisk DEF ContentKept
<1>3. Inputs(c)' = Inputs(c) BY DEF Inputs
<1> QED BY <1>1, <1>2, <1>3 DEF Covered

\* Nobody writes, flushes or schedules.
LEMMA WritingFrame ==
  ASSUME IInv, Writing, UNCHANGED <<wpc, wkey, wseq, wmid, active, nextMid, flushed, scheduled>>,
         \A m \in Mid : m < nextMid /\ m \notin flushed => entries[m] \subseteq entries'[m]
  PROVE  Writing'
<1>1. ASSUME NEW w \in Writer, wpc[w] = "added" PROVE <<wkey[w], wseq[w]>> \in entries'[wmid[w]]
  <2>1. wmid[w] # 0 /\ wmid[w] < nextMid /\ wmid[w] \notin scheduled BY <1>1 DEF Writing
  <2>2. wmid[w] \in Mid BY <2>1, Ranges DEF IInv, TypeOK, TypeWriters
  <2> QED BY <1>1, <2>1, <2>2 DEF Writing
<1> QED BY <1>1 DEF Writing

\* The steps that move no data.
LEMMA SteadyStep ==
  ASSUME IInv, DataInv, ContentKept,
         UNCHANGED <<wpc, wkey, wseq, wmid, active, nextMid, flushed, scheduled, lookup, committed>>,
         Unborn' \subseteq Unborn, \A m \in Unborn' : flushFile'[m] = flushFile[m],
         ctodo' \cup ccur' \subseteq ctodo \cup ccur, Uninstalled' \subseteq Uninstalled,
         \A m \in Mid : m < nextMid /\ m \notin flushed => entries'[m] = entries[m],
         \A m \in Mid : m \in flushed => Tables(m)' = Tables(m)
  PROVE  DataInv'
<1> USE DEF DataInv
<1>1. nextMid' \in Int /\ nextMid' >= nextMid BY DEF IInv, TypeOK, TypeWriters
<1>2. \A m \in Unborn' : m \in Mid /\ m < nextMid BY UnbornOnDisk DEF Writing
<1> QED BY <1>1, <1>2, IndexedFrame, FrozenFrame, MergedFrame, WritingFrame

\* The steps that leave all of it alone.
LEMMA IdleStep ==
  ASSUME IInv, DataInv,
         UNCHANGED <<wpc, wkey, wseq, wmid, active, nextMid, flushed, scheduled, lookup, committed>>,
         UNCHANGED <<fmem, flushFile, ctodo, ccur, mutex, pend, l0, vfiles, current, content>>,
         stage' = "edit" <=> stage = "edit",
         \A m \in Mid : m < nextMid /\ m \notin flushed => entries'[m] = entries[m]
  PROVE  DataInv'
<1>1. ContentKept BY DEF ContentKept
<1>2. Unborn' = Unborn BY DEF Unborn
<1>3. Uninstalled' = Uninstalled BY DEF Uninstalled
<1>4. Lower' = Lower /\ NextLower' = NextLower BY TablesFrame
<1>5. \A m : Tables(m)' = Tables(m) BY <1>4 DEF Tables
<1> QED BY <1>1, <1>2, <1>3, <1>5, SteadyStep

-----------------------------------------------------------------------------
(* Writers *)

\* TakeSequence, BeginWrite, AddEntry and InsertIndex.
LEMMA WriteData == ASSUME IInv, MemInv, DataInv, NEW w \in Writer, Write(w) PROVE DataInv'
<1> USE DEF DataInv
<1>1. /\ UNCHANGED <<active, nextMid, flushed, scheduled, fmem, flushFile, ctodo, ccur, mutex>>
      /\ UNCHANGED <<stage, pend, l0, vfiles, current, content>>
  BY DEF Write, TakeSequence, BeginWrite, AddEntry, InsertIndex, partVars, memVars, flushVars,
     coordVars, instVars, versVars, fileVars
<1>2. /\ wpc \in [Writer -> {"idle", "seq", "pend", "added"}] /\ wkey \in [Writer -> Key \cup {0}]
      /\ wseq \in [Writer -> 0 .. MaxSeq] /\ wmid \in [Writer -> 0 .. MaxMid]
      /\ entries \in [Mid -> SUBSET Entry] /\ nextMid \in Int
      /\ lookup \in [Key -> 0 .. MaxMid] /\ committed \in [Key -> 0 .. MaxSeq]
  BY SMT DEF IInv, TypeOK, TypeWriters, TypeMemTables
<1>3. ContentKept /\ Unborn' = Unborn /\ Uninstalled' = Uninstalled
  BY <1>1 DEF ContentKept, Unborn, Uninstalled
<1>4. \A m : Tables(m)' = Tables(m) BY <1>1, TablesFrame
<1>5. Merged' BY <1>1, <1>3, MergedFrame
<1>6. \A x \in Writer : wpc[x] \in {"pend", "added"} =>
        wmid[x] \in Mid /\ wmid[x] < nextMid /\ wmid[x] \notin scheduled /\ wmid[x] \notin flushed
  BY <1>2, Ranges DEF Writing
<1>7. ASSUME \E k \in Key : TakeSequence(w, k) PROVE DataInv'
  <2>1. PICK k \in Key : TakeSequence(w, k) BY <1>7
  <2>2. UNCHANGED <<wmid, entries, lookup, committed>> BY <2>1 DEF TakeSequence
  <2>3. \A x \in Writer : /\ x # w => wpc'[x] = wpc[x] /\ wkey'[x] = wkey[x] /\ wseq'[x] = wseq[x]
                          /\ wpc'[w] = "seq"
    BY <2>1, <1>2 DEF TakeSequence
  <2>4. Writing'
    <3>1. \A x \in Writer : wpc'[x] \in {"pend", "added"} =>
            wpc'[x] = wpc[x] /\ wkey'[x] = wkey[x] /\ wseq'[x] = wseq[x]
      BY <2>3
    <3> QED BY <1>1, <2>2, <3>1 DEF Writing
  <2>5. Frozen' BY <1>1, <1>3, <2>2, FrozenFrame
  <2>6. Indexed' BY SMT, <1>1, <1>2, <1>3, <1>4, <2>2, IndexedFrame
  <2> QED BY <1>5, <2>4, <2>5, <2>6
<1>8. ASSUME \E p \in Partition : BeginWrite(w, p) PROVE DataInv'
  <2>1. PICK p \in Partition : BeginWrite(w, p) BY <1>8
  <2>2. UNCHANGED <<wkey, wseq, entries, lookup, committed>> BY <2>1 DEF BeginWrite
  <2>3. /\ \A x \in Writer : x # w => wpc'[x] = wpc[x] /\ wmid'[x] = wmid[x]
        /\ wpc'[w] = "pend" /\ wmid'[w] = active[p] /\ active[p] # 0
    BY <2>1, <1>2 DEF BeginWrite
  <2>4. Writing' BY <1>1, <2>2, <2>3 DEF Writing
  <2>5. Frozen' BY <1>1, <1>3, <2>2, FrozenFrame
  <2>6. Indexed' BY <1>1, <1>2, <1>3, <1>4, <2>2, IndexedFrame
  <2> QED BY <1>5, <2>4, <2>5, <2>6
<1>9. ASSUME AddEntry(w) PROVE DataInv'
  <2>0. PICK n : n = wmid[w] OBVIOUS
  <2>1. /\ UNCHANGED <<wkey, wseq, wmid, lookup, committed>> /\ wpc[w] = "pend"
        /\ entries' = [entries EXCEPT ![n] = @ \cup {<<wkey[w], wseq[w]>>}]
        /\ \A x \in Writer : wpc'[x] = IF x = w THEN "added" ELSE wpc[x]
    BY <1>9, <1>2, <2>0 DEF AddEntry
  <2>2. n \in Mid /\ n \notin scheduled BY <1>6, <2>0, <2>1
  <2>3. /\ \A m \in Mid : entries[m] \subseteq entries'[m] /\ (m # n => entries'[m] = entries[m])
        /\ <<wkey[w], wseq[w]>> \in entries'[n]
    BY <1>2, <2>1, <2>2
  <2>4. Writing'
    <3>1. ASSUME NEW x \in Writer, wpc'[x] = "added" PROVE <<wkey[x], wseq[x]>> \in entries'[wmid[x]]
      <4>1. CASE x = w BY <4>1, <2>0, <2>3
      <4>2. CASE x # w BY <4>2, <3>1, <1>6, <2>1, <2>3 DEF Writing
      <4> QED BY <4>1, <4>2
    <3>2. ASSUME NEW x \in Writer, wpc'[x] \in {"pend", "added"}
          PROVE  wmid[x] # 0 /\ \E p \in Partition : active[p] = wmid[x]
      BY <3>2, <2>1 DEF Writing
    <3> QED BY <3>1, <3>2, <1>1, <2>1 DEF Writing
  <2>5. \A m \in Unborn' : entries'[m] = entries[m] BY <1>3, <2>2, <2>3, UnbornOnDisk
  <2>6. Frozen' BY <1>1, <1>3, <2>5, FrozenFrame
  <2>7. Indexed' BY SMT, <1>1, <1>2, <1>3, <1>4, <2>1, <2>3, IndexedFrame
  <2> QED BY <1>5, <2>4, <2>6, <2>7
<1>10. ASSUME InsertIndex(w) PROVE DataInv'
  <2>0. PICK n, s, j : n = wmid[w] /\ s = wseq[w] /\ j = wkey[w] OBVIOUS
  <2>1. /\ wpc[w] = "added" /\ UNCHANGED entries
        /\ lookup' = [lookup EXCEPT ![j] = n] /\ committed' = [committed EXCEPT ![j] = s]
        /\ wpc'[w] = "idle"
        /\ \A x \in Writer : x # w => /\ wpc'[x] = wpc[x] /\ wmid'[x] = wmid[x]
                                       /\ wkey'[x] = wkey[x] /\ wseq'[x] = wseq[x]
    BY <1>10, <1>2, <2>0 DEF InsertIndex
  <2>2. n \in Mid /\ n < nextMid /\ n \notin flushed /\ <<j, s>> \in entries[n] /\ s \in Int
    BY SMT, <1>2, <1>6, <2>0, <2>1 DEF Writing
  <2>3. Writing' BY <1>1, <2>1 DEF Writing
  <2>4. Frozen' BY <1>1, <1>3, <2>1, FrozenFrame
  <2>5. ASSUME NEW k \in Key, committed'[k] # 0
        PROVE  /\ lookup'[k] \in Mid /\ lookup'[k] < nextMid
               /\ \A m : m = lookup'[k] => HasWrite(m, k, committed[k])'
    <3>1. CASE k = j
      <4>1. lookup'[k] = n /\ committed'[k] = s BY <3>1, <1>2, <2>1
      <4>2. \E e \in entries'[n] : e[1] = k /\ s <= e[2] BY <3>1, <2>1, <2>2
      <4>3. HasWrite(n, k, committed[k])' BY <4>1, <4>2, <1>1, <2>2 DEF HasWrite
      <4> QED BY <4>1, <4>3, <2>2
    <3>2. CASE k # j
      <4>1. lookup'[k] = lookup[k] /\ committed'[k] = committed[k] BY <3>2, <1>2, <2>1
      <4>2. /\ lookup[k] \in Mid /\ lookup[k] < nextMid
            /\ \A m : m = lookup[k] => HasWrite(m, k, committed[k])
        BY <2>5, <4>1 DEF Indexed
      <4>3. \A m : HasWrite(m, k, committed[k])' <=> HasWrite(m, k, committed[k])
        BY <4>1, <1>1, <1>4, <2>1 DEF HasWrite
      <4> QED BY <4>1, <4>2, <4>3
    <3> QED BY <3>1, <3>2
  <2>6. Indexed' BY <2>5, <1>1 DEF Indexed
  <2> QED BY <1>5, <2>3, <2>4, <2>6
<1> QED BY <1>7, <1>8, <1>9, <1>10 DEF Write

\* A partition gives up a memtable that nobody writes to any more.
LEMMA RotateData == ASSUME IInv, DataInv, NEW p \in Partition, Rotate(p) PROVE DataInv'
<1> USE DEF DataInv
<1>1. /\ active[p] # 0 /\ ~Pending(active[p]) /\ active' = [active EXCEPT ![p] = 0]
      /\ UNCHANGED <<wpc, wkey, wseq, wmid, nextMid, flushed, scheduled, fmem, flushFile, ctodo, ccur>>
      /\ UNCHANGED <<mutex, stage, pend, l0, vfiles, current, content, entries, lookup, committed>>
  BY DEF Rotate, writerVars, memVars, flushVars, coordVars, instVars, versVars, fileVars
<1>2. active \in [Partition -> 0 .. MaxMid] /\ nextMid \in Int BY SMT DEF IInv, TypeOK, TypeWriters
<1>3. \A q \in Partition : active'[q] = IF q = p THEN 0 ELSE active[q] BY <1>1, <1>2
<1>4. ASSUME NEW w \in Writer, wpc[w] \in {"pend", "added"}
      PROVE  wmid[w] # 0 /\ \E q \in Partition : active'[q] = wmid[w]
  <2>1. wmid[w] # active[p] BY <1>1, <1>4 DEF Pending
  <2> QED BY <1>3, <1>4, <2>1 DEF Writing
<1>5. Writing' BY SMT, <1>1, <1>3, <1>4 DEF Writing
<1>6. ContentKept /\ Unborn' = Unborn /\ Uninstalled' = Uninstalled
  BY <1>1 DEF ContentKept, Unborn, Uninstalled
<1>7. \A m : Tables(m)' = Tables(m) BY <1>1, TablesFrame
<1>8. Indexed' BY <1>1, <1>2, <1>6, <1>7, IndexedFrame
<1> QED BY <1>1, <1>5, <1>6, <1>8, FrozenFrame, MergedFrame

\* A new memtable was never scheduled, flushed or written to.
LEMMA NewMemTableData == ASSUME IInv, DataInv, NEW p \in Partition, NewMemTable(p) PROVE DataInv'
<1> USE DEF DataInv
<1>1. /\ active[p] = 0 /\ active' = [active EXCEPT ![p] = nextMid] /\ nextMid' = nextMid + 1
      /\ l0' = [l0 EXCEPT ![nextMid] = {}] /\ flushed' = flushed \ {nextMid}
      /\ UNCHANGED <<wpc, wkey, wseq, wmid, scheduled, fmem, flushFile, ctodo, ccur>>
      /\ UNCHANGED <<mutex, stage, pend, vfiles, current, content, entries, lookup, committed>>
  BY DEF NewMemTable, writerVars, flushVars, coordVars, instVars, versVars, fileVars
<1>2. /\ active \in [Partition -> 0 .. MaxMid] /\ nextMid \in Int /\ l0 \in [0 .. MaxMid -> SUBSET Fn]
      /\ scheduled \subseteq Mid /\ Mid \subseteq 0 .. MaxMid
  BY SMT, Ranges DEF IInv, TypeOK, TypeWriters, TypeMemTables, TypeThreads
<1>3. \A q \in Partition : active'[q] = IF q = p THEN nextMid ELSE active[q] BY <1>1, <1>2
<1>4. nextMid \notin scheduled /\ nextMid \notin flushed BY SMT, <1>2 DEF Writing
<1>5. flushed' = flushed BY <1>1, <1>4
<1>6. Writing'
  <2>1. \A m \in scheduled : m < nextMid' 
    <3>1. \A m \in scheduled : m \in Int /\ m < nextMid
      <4>1. Mid \subseteq Int BY DEF Mid
      <4> QED BY Zenon, <1>2, <4>1 DEF Writing
    <3> QED BY <1>1, <1>2, <3>1
  <2>2. \A q \in Partition : active'[q] # 0 => active'[q] < nextMid' /\ active'[q] \notin scheduled
    BY SMT, <1>1, <1>2, <1>3, <1>4 DEF Writing
  <2>3. ASSUME NEW w \in Writer, wpc[w] \in {"pend", "added"}
        PROVE  wmid[w] # 0 /\ \E q \in Partition : active'[q] = wmid[w]
    BY <1>1, <1>3, <2>3 DEF Writing
  <2> QED BY <1>1, <1>5, <2>1, <2>2, <2>3 DEF Writing
<1>7. ContentKept /\ Unborn' = Unborn /\ Uninstalled' = Uninstalled
  BY <1>1 DEF ContentKept, Unborn, Uninstalled
<1>8. ASSUME NEW m \in Mid, m \in flushed PROVE Tables(m)' = Tables(m)
  <2>1. l0'[m] = l0[m] BY <1>1, <1>2, <1>4, <1>8
  <2>2. Lower' = Lower /\ NextLower' = NextLower BY <1>1, TablesFrame
  <2> QED BY <1>1, <2>1, <2>2 DEF Tables
<1>9. nextMid' \in Int /\ nextMid' >= nextMid BY <1>1, <1>2
<1>10. Indexed' BY <1>1, <1>5, <1>7, <1>8, <1>9, IndexedFrame
<1> QED BY <1>1, <1>5, <1>6, <1>7, <1>10, FrozenFrame, MergedFrame

-----------------------------------------------------------------------------
(* Flushes *)

\* BuildTable writes what the memtable holds to a table that nobody knows.
LEMMA BuildTableData ==
  ASSUME IInv, DataInv, NEW f \in Flusher, NEW m \in Mid, BuildTable(f, m) PROVE DataInv'
<1> USE DEF DataInv
<1>1. /\ m < nextMid /\ (\A p \in Partition : active[p] # m) /\ nextFile <= MaxFile
      /\ scheduled' = scheduled \cup {m} /\ fmem' = [fmem EXCEPT ![f] = @ \cup {m}]
      /\ flushFile' = [flushFile EXCEPT ![m] = nextFile]
      /\ content' = [content EXCEPT ![nextFile] = entries[m]]
      /\ UNCHANGED <<wpc, wkey, wseq, wmid, active, nextMid, flushed, ctodo, ccur>>
      /\ UNCHANGED <<mutex, stage, pend, l0, vfiles, current, entries, lookup, committed>>
  BY DEF BuildTable, Immutable, NewFileNumber, writerVars, partVars, memVars, coordVars, instVars, versVars
<1>2. /\ content \in [Fn -> SUBSET Entry] /\ flushFile \in [Mid -> 0 .. MaxFile]
      /\ fmem \in [Flusher -> SUBSET Mid] /\ nextMid \in Int
  BY SMT DEF IInv, TypeOK, TypeFiles, TypeThreads, TypeWriters
<1>3. nextFile \in Fn BY SMT, <1>1, ConstantsOK DEF IInv, TypeOK, TypeFiles, Fn
<1>4. nextFile \notin disk
  <2>1. disk \subseteq 1 .. nextFile - 1 BY DEF IInv, FreshFiles
  <2> QED BY <1>3, <2>1 DEF Fn
<1>5. ContentKept
  <2>1. disk \subseteq Fn BY DEF IInv, TypeOK, TypeFiles
  <2> QED BY <1>1, <1>2, <1>4, <2>1 DEF ContentKept
<1>6. Unborn' \subseteq Unborn \cup {m}
  <2>1. \A g \in Flusher : fmem'[g] \subseteq fmem[g] \cup {m} BY <1>1, <1>2
  <2> QED BY <1>1, <2>1 DEF Unborn
<1>7. Uninstalled' = Uninstalled BY <1>1 DEF Uninstalled
<1>8. \A n : Tables(n)' = Tables(n) BY <1>1, TablesFrame
<1>9. Writing' BY <1>1 DEF Writing
<1>10. Frozen'
  <2> SUFFICES ASSUME NEW n \in Unborn', n \notin flushed PROVE content'[flushFile'[n]] = entries[n]
    BY <1>1 DEF Frozen
  <2>1. CASE n = m BY <2>1, <1>1, <1>2, <1>3
  <2>2. CASE n # m
    <3>1. n \in Unborn /\ n \in Mid BY <2>2, <1>6, UnbornOnDisk
    <3>2. flushFile'[n] = flushFile[n] BY <2>2, <3>1, <1>1, <1>2
    <3>3. content'[flushFile[n]] = content[flushFile[n]] BY <3>1, <1>5, UnbornOnDisk DEF ContentKept
    <3> QED BY <3>1, <3>2, <3>3 DEF Frozen
  <2> QED BY <2>1, <2>2
<1>11. Indexed'
  <2>1. UNCHANGED <<lookup, committed, flushed, nextMid, entries>> BY <1>1
  <2>2. nextMid' \in Int /\ nextMid' >= nextMid BY <1>2, <2>1
  <2> QED BY <2>1, <2>2, <1>5, <1>8, IndexedFrame
<1> QED BY <1>1, <1>5, <1>7, <1>9, <1>10, <1>11, MergedFrame

\* A flush changes nothing above level 0, nor does anything change when nobody installs.
LEMMA PlainTables == IInv /\ mutex # Coordinator => \A m : Tables(m) = l0[m] \cup Lower
<1> SUFFICES ASSUME IInv, mutex # Coordinator, stage = "edit" PROVE NextLower = Lower BY DEF Tables
<1>1. mutex \in Flusher BY DEF IInv, Control, TypeOK, TypeThreads
<1>2. \A l \in Level \ {0} : Added(l) = {} /\ Deleted(l) = {} BY <1>1 DEF Added, Deleted
<1>3. \A l \in Level \ {0} : NextLevel(l) = vfiles[current][l] BY <1>2 DEF NextLevel
<1> QED BY <1>3 DEF NextLower, Lower

\* The same of the state after a step.
LEMMA PlainTablesPrime == (IInv /\ mutex # Coordinator => \A m : Tables(m) = l0[m] \cup Lower)'
BY PlainTables, PTL

\* FlushLock changes no table.
LEMMA FlushLockData == ASSUME IInv, MemInv, DataInv, NEW f \in Flusher, FlushLock(f) PROVE DataInv'
<1>1. /\ mutex = NoOwner /\ mutex' = f
      /\ UNCHANGED <<wpc, wkey, wseq, wmid, active, nextMid, flushed, scheduled, lookup, committed>>
      /\ UNCHANGED <<fmem, flushFile, ctodo, ccur, l0, vfiles, current, content, entries>>
      /\ stage' = "edit"
  BY DEF FlushLock, Lock, writerVars, partVars, memVars, coordVars, fileVars
<1>2. IInv' BY FlushLockStep
<1>3. mutex # Coordinator /\ mutex' # Coordinator /\ mutex \notin Flusher BY <1>1, ConstantsOK
<1>4. Lower' = Lower BY <1>1 DEF Lower
<1>5. \A m : Tables(m)' = Tables(m) BY <1>1, <1>2, <1>3, <1>4, PlainTables, PlainTablesPrime
<1>6. Unborn' = Unborn BY <1>1, <1>3 DEF Unborn
<1>7. Uninstalled' = Uninstalled BY <1>1, <1>3 DEF Uninstalled
<1>8. ContentKept BY <1>1 DEF ContentKept
<1> QED BY <1>1, <1>5, <1>6, <1>7, <1>8, SteadyStep

\* SetFlushed points the index to the table that was built from the memtable.
LEMMA SetFlushedData == ASSUME IInv, MemInv, DataInv, NEW n \in pend, SetFlushed(n) PROVE DataInv'
<1> USE DEF DataInv
<1>1. /\ mutex \in Flusher /\ stage = "edit" /\ n \in pend /\ pend' = pend \ {n}
      /\ l0' = [l0 EXCEPT ![n] = @ \cup {flushFile[n]}] /\ flushed' = flushed \cup {n}
      /\ UNCHANGED <<wpc, wkey, wseq, wmid, active, nextMid, scheduled, lookup, committed>>
      /\ UNCHANGED <<fmem, flushFile, ctodo, ccur, mutex, stage, vfiles, current, content>>
  BY DEF SetFlushed, FlushedFns, writerVars, partVars, coordVars, versVars, fileVars, flushVars
<1>2. n \in fmem[mutex] /\ n \in Mid BY <1>1 DEF IInv, Control, TypeOK, TypeThreads
<1>3. n \in Unborn /\ n \in scheduled BY <1>1, <1>2 DEF Unborn, IInv, FreshFiles
<1>4. n \notin flushed BY <1>1, <1>2 DEF MemInv, FlushOwed
<1>5. /\ entries \in [Mid -> SUBSET Entry] /\ l0 \in [0 .. MaxMid -> SUBSET Fn] /\ Mid \subseteq 0 .. MaxMid
      /\ wmid \in [Writer -> 0 .. MaxMid]
  BY Ranges DEF IInv, TypeOK, TypeMemTables, TypeWriters
<1>6. \A m \in Mid : m # n => entries'[m] = entries[m] BY <1>5 DEF SetFlushed, UnrefMem
<1>7. \A m \in Mid : l0'[m] = IF m = n THEN l0[m] \cup {flushFile[n]} ELSE l0[m] BY <1>1, <1>5
<1>8. content[flushFile[n]] = entries[n] BY <1>3, <1>4 DEF Frozen
<1>9. Unborn' = Unborn /\ Uninstalled' = Uninstalled /\ ContentKept
  BY <1>1 DEF Unborn, Uninstalled, ContentKept
<1>10. Writing'
  <2>1. ASSUME NEW w \in Writer, wpc[w] = "added" PROVE <<wkey[w], wseq[w]>> \in entries'[wmid[w]]
    <3>1. wmid[w] # 0 /\ wmid[w] \notin scheduled BY <2>1 DEF Writing
    <3>2. wmid[w] \in Mid /\ wmid[w] # n BY <3>1, <1>3, <1>5, Ranges
    <3> QED BY <2>1, <3>2, <1>6 DEF Writing
  <2> QED BY <2>1, <1>1, <1>3 DEF Writing
<1>11. Frozen'
  <2>1. \A m \in Unborn' : m \notin flushed' => entries'[m] = entries[m] BY <1>1, <1>6, <1>9, UnbornOnDisk
  <2> QED BY <2>1, <1>1, <1>9, FrozenFrame
<1>12. Merged' BY <1>1, <1>9, MergedFrame
<1>13. Indexed'
  <2>1. IInv' BY SetFlushedStep
  <2>2. mutex # Coordinator BY <1>1, ConstantsOK
  <2>3. Lower' = Lower BY <1>1 DEF Lower
  <2>4. \A m : Tables(m) = l0[m] \cup Lower /\ Tables(m)' = l0'[m] \cup Lower
    BY <1>1, <2>1, <2>2, <2>3, PlainTables, PlainTablesPrime
  <2>5. ASSUME NEW m \in Mid, NEW k, NEW s, HasWrite(m, k, s) PROVE HasWrite(m, k, s)'
    <3>1. CASE m = n
      <4>1. PICK e \in entries[n] : e[1] = k /\ s <= e[2] BY <3>1, <2>5, <1>4 DEF HasWrite
      <4>2. flushFile[n] \in Tables(m)' BY <3>1, <1>2, <1>7, <2>4
      <4>3. e \in content'[flushFile[n]] BY <4>1, <1>1, <1>8
      <4> QED BY <3>1, <4>1, <4>2, <4>3, <1>1 DEF HasWrite
    <3>2. CASE m # n
      <4>1. Tables(m)' = Tables(m) BY <3>2, <1>7, <2>4
      <4>2. m \in flushed' <=> m \in flushed BY <3>2, <1>1
      <4> QED BY <3>2, <4>1, <4>2, <2>5, <1>1, <1>6 DEF HasWrite
    <3> QED BY <3>1, <3>2
  <2> QED BY <2>5, <1>1 DEF Indexed
<1> QED BY <1>10, <1>11, <1>12, <1>13

-----------------------------------------------------------------------------
(* Collections *)

\* A collection keeps the tables of the current version.
LEMMA CollectData ==
  ASSUME IInv, DataInv, current \in vset, stage # "edit", stage' # "edit",
         NEW s, Collect(s) \/ UNCHANGED <<gcVars, versVars>>,
         s # 0 => s \in vcompacting /\ Holders(s) = {},
         UNCHANGED <<wpc, wkey, wseq, wmid, active, nextMid, flushed, scheduled, lookup, committed>>,
         UNCHANGED <<entries, l0, content>>,
         Unborn' \subseteq Unborn, \A m \in Unborn' : flushFile'[m] = flushFile[m],
         ctodo' \cup ccur' \subseteq ctodo \cup ccur, Uninstalled' \subseteq Uninstalled
  PROVE  DataInv'
<1>1. current \in vset \ vdeleted BY CurrentAlive
<1>2. current' = current /\ vfiles'[current] = vfiles[current] BY <1>1, CollectFacts
<1>3. Lower' = Lower BY <1>2 DEF Lower
<1>4. \A m : Tables(m)' = Tables(m) BY <1>3 DEF Tables
<1>5. ContentKept BY DEF ContentKept
<1> QED BY <1>4, <1>5, SteadyStep

\* The end of a flush.
LEMMA FlushUnlockData == ASSUME IInv, DataInv, NEW f \in Flusher, FlushUnlock(f) PROVE DataInv'
<1>1. /\ mutex = f /\ stage = "collect" /\ mutex' = NoOwner /\ stage' = "none"
      /\ fmem' = [fmem EXCEPT ![f] = {}]
      /\ flushFile' = [m \in Mid |-> IF m \in fmem[f] THEN 0 ELSE flushFile[m]]
      /\ Collect(0) \/ UNCHANGED <<gcVars, versVars>>
      /\ UNCHANGED <<wpc, wkey, wseq, wmid, active, nextMid, flushed, scheduled, lookup, committed>>
      /\ UNCHANGED <<entries, l0, content, ctodo, ccur>>
  BY DEF FlushUnlock, Unlock, writerVars, partVars, memVars, coordVars, fileVars
<1>2. current \in vset BY <1>1 DEF IInv, Control, Appended
<1>3. \A g \in Flusher : fmem'[g] = IF g = f THEN {} ELSE fmem[g] BY <1>1 DEF IInv, TypeOK, TypeThreads
<1>4. Unborn' \subseteq Unborn BY SMT, <1>1, <1>3 DEF Unborn
<1>5. \A m \in Unborn : m \notin fmem[f] BY <1>1 DEF Unborn, IInv, FreshFiles
<1>6. \A m \in Unborn' : flushFile'[m] = flushFile[m] BY <1>1, <1>4, <1>5, UnbornOnDisk
<1>7. Uninstalled' = Uninstalled BY <1>1, ConstantsOK DEF Uninstalled
<1> QED BY <1>1, <1>2, <1>4, <1>6, <1>7, CollectData

\* The end of an installation by the coordinator.
LEMMA CompactionUnlockData == ASSUME IInv, DataInv, CompactionUnlock PROVE DataInv'
<1>1. /\ mutex = Coordinator /\ stage = "collect" /\ mutex' = NoOwner /\ stage' = "none"
      /\ Collect(skip) /\ ctodo' = ctodo \ ccur /\ ccur' = {}
      /\ UNCHANGED <<wpc, wkey, wseq, wmid, active, nextMid, flushed, scheduled, lookup, committed>>
      /\ UNCHANGED <<entries, l0, content, fmem, flushFile>>
  BY DEF CompactionUnlock, Unlock, writerVars, partVars, memVars, flushVars, fileVars
<1>2. current \in vset BY <1>1 DEF IInv, Control, Appended
<1>3. skip # 0 => skip \in vcompacting /\ Holders(skip) = {} BY DEF IInv, FilesKept
<1>4. Unborn' = Unborn BY <1>1, ConstantsOK DEF Unborn
<1>5. Uninstalled' = Uninstalled BY <1>1, ConstantsOK DEF Uninstalled
<1> QED BY <1>1, <1>2, <1>3, <1>4, <1>5, CollectData

\* The collections outside of an installation.
LEMMA RestCollectData == ASSUME IInv, DataInv, DeleteObsoleteFiles \/ FinishCompaction PROVE DataInv'
<1>1. /\ mutex = NoOwner /\ Collect(0)
      /\ UNCHANGED <<wpc, wkey, wseq, wmid, active, nextMid, flushed, scheduled, lookup, committed>>
      /\ UNCHANGED <<entries, l0, content, fmem, flushFile, mutex, stage, ctodo, ccur>>
  BY DEF DeleteObsoleteFiles, FinishCompaction, writerVars, partVars, memVars, flushVars, fileVars,
     instVars, coordVars
<1>2. stage = "none" /\ current \in vset BY <1>1 DEF IInv, Control
<1>3. Unborn' = Unborn /\ Uninstalled' = Uninstalled BY <1>1 DEF Unborn, Uninstalled
<1> QED BY <1>1, <1>2, <1>3, CollectData

\* A file that goes was in no version that the index leads to.
LEMMA DeleteFileData == ASSUME IInv, DataInv, NEW f \in Fn, DeleteFile(f) PROVE DataInv'
<1>1. /\ f \in deleting /\ content' = [content EXCEPT ![f] = {}]
      /\ UNCHANGED <<wpc, wkey, wseq, wmid, active, nextMid, flushed, scheduled, lookup, committed>>
      /\ UNCHANGED <<fmem, flushFile, ctodo, ccur, mutex, pend, stage, l0, vfiles, current, entries>>
  BY DEF DeleteFile, writerVars, partVars, memVars, flushVars, instVars, coordVars, versVars
<1>2. ContentKept
  <2>1. content \in [Fn -> SUBSET Entry] /\ disk \subseteq Fn BY DEF IInv, TypeOK, TypeFiles
  <2> QED BY <1>1, <2>1 DEF ContentKept
<1>3. Unborn' = Unborn /\ Uninstalled' = Uninstalled BY <1>1 DEF Unborn, Uninstalled
<1>4. \A m : Tables(m)' = Tables(m) BY <1>1, TablesFrame
<1> QED BY <1>1, <1>2, <1>3, <1>4, SteadyStep

-----------------------------------------------------------------------------
(* Compactions *)

\* What the index leads to consists of entries.
LEMMA TableEntries ==
  IInv => \A m \in 0 .. MaxMid : \A f \in Tables(m) : \A e \in content[f] : e[2] \in Int
<1> SUFFICES ASSUME IInv, NEW m \in 0 .. MaxMid, NEW f \in Tables(m), NEW e \in content[f] PROVE e[2] \in Int
  OBVIOUS
<1>1. f \in disk BY TablesOnDisk
<1>2. e \in Entry BY <1>1 DEF IInv, TypeOK, TypeFiles
<1> QED BY <1>2, ConstantsOK DEF Entry

\* The same of the state after a step.
LEMMA TableEntriesPrime ==
  (IInv => \A m \in 0 .. MaxMid : \A f \in Tables(m) : \A e \in content[f] : e[2] \in Int)'
BY TableEntries, PTL

\* Tables that are replaced by tables with the same entries or newer ones.
LEMMA IndexedMove ==
  ASSUME IInv, IInv', Indexed, UNCHANGED <<lookup, committed, flushed, nextMid, entries>>,
         \A m \in Mid : \A f \in Tables(m) : \A e \in content[f] :
           \E g \in Tables(m)' : \E d \in content'[g] : d[1] = e[1] /\ e[2] <= d[2]
  PROVE  Indexed'
<1>1. ASSUME NEW m \in Mid, NEW k \in Key, HasWrite(m, k, committed[k])
      PROVE  HasWrite(m, k, committed[k])'
  <2>1. CASE m \in flushed
    <3>0. PICK f \in Tables(m) : \E e \in content[f] : e[1] = k /\ committed[k] <= e[2]
      BY <1>1, <2>1 DEF HasWrite
    <3>1. PICK e \in content[f] : e[1] = k /\ committed[k] <= e[2] BY <3>0
    <3>a. PICK g \in Tables(m)' : \E d \in content'[g] : d[1] = e[1] /\ e[2] <= d[2] OBVIOUS
    <3>2. PICK d \in content'[g] : d[1] = e[1] /\ e[2] <= d[2] BY <3>a
    <3>3. m \in 0 .. MaxMid BY Ranges
    <3>4. e[2] \in Int BY <3>3, TableEntries
    <3>5. d[2] \in Int BY <3>3, TableEntriesPrime
    <3>6. committed[k] \in Int
      <4>1. committed \in [Key -> 0 .. MaxSeq] BY DEF IInv, TypeOK, TypeWriters
      <4>2. committed[k] \in 0 .. MaxSeq BY <4>1
      <4> QED BY <4>2, Ranges
    <3>7. d[1] = k /\ committed'[k] <= d[2] BY SMT, <3>1, <3>2, <3>4, <3>5, <3>6
    <3> QED BY <2>1, <3>7 DEF HasWrite
  <2>2. CASE m \notin flushed BY <1>1, <2>2 DEF HasWrite
  <2> QED BY <2>1, <2>2
<1> QED BY <1>1 DEF Indexed

\* Every entry of the tables of a memtable covers itself.
LEMMA CoversItself ==
  ASSUME IInv, NEW m \in Mid, NEW f \in Tables(m), NEW e \in content[f] PROVE e[2] <= e[2]
<1>1. m \in 0 .. MaxMid BY Ranges
<1>2. e[2] \in Int BY <1>1, TableEntries
<1> QED BY <1>2

\* CompactionLock: what is read in the version to come covers what is read in the current one.
LEMMA CompactionLockData == ASSUME IInv, DataInv, NEW cs, CompactionLock(cs) PROVE DataInv'
<1> USE DEF DataInv
<1>1. /\ mutex = NoOwner /\ mutex' = Coordinator /\ stage' = "edit" /\ ccur' = cs
      /\ cs \subseteq ctodo \cup ccur
      /\ UNCHANGED <<wpc, wkey, wseq, wmid, active, nextMid, flushed, scheduled, lookup, committed>>
      /\ UNCHANGED <<fmem, flushFile, ctodo, l0, vfiles, current, content, entries>>
  BY DEF CompactionLock, Lock, writerVars, partVars, memVars, flushVars, fileVars
<1>2. IInv' BY CompactionLockStep
<1>3. mutex # Coordinator /\ mutex \notin Flusher /\ mutex' \notin Flusher BY <1>1, ConstantsOK
<1>4. Unborn' = Unborn BY <1>1, <1>3 DEF Unborn
<1>5. Uninstalled' \subseteq Uninstalled /\ ctodo' \cup ccur' \subseteq ctodo \cup ccur
  BY <1>1, <1>3 DEF Uninstalled
<1>6. ContentKept BY <1>1 DEF ContentKept
<1>7. Merged' BY <1>5, <1>6, MergedFrame
<1>8. Covered(Lower, NextLower)' BY <1>1, <1>2, <1>7, NextCoversPrime
<1>9. Lower' = Lower BY <1>1 DEF Lower
<1>10. Indexed'
  <2>1. ASSUME NEW m \in Mid, NEW f \in Tables(m), NEW e \in content[f]
        PROVE  \E g \in Tables(m)' : \E d \in content'[g] : d[1] = e[1] /\ e[2] <= d[2]
    <3>1. f \in l0[m] \/ f \in Lower BY <1>3, PlainTables
    <3>2. CASE f \in Tables(m)' BY <3>2, <1>1, CoversItself
    <3>3. CASE f \notin Tables(m)'
      <4>1. f \in Lower' /\ NextLower' \subseteq Tables(m)' BY <3>1, <3>3, <1>1, <1>9 DEF Tables
      <4>2. \E g \in NextLower' : \E d \in content'[g] : d[1] = e[1] /\ e[2] <= d[2]
        BY <4>1, <1>1, <1>8 DEF Covered
      <4> QED BY <4>1, <4>2
    <3> QED BY <3>2, <3>3
  <2> QED BY <2>1, <1>1, <1>2, IndexedMove
<1>11. Frozen' BY <1>1, <1>4, <1>6, FrozenFrame
<1>12. Writing' BY <1>1, WritingFrame
<1> QED BY <1>7, <1>10, <1>11, <1>12

\* UpdateL0Files: an L0 file that goes is replaced by the outputs of its compaction.
LEMMA UpdateL0FilesData == ASSUME IInv, DataInv, NEW n \in pend, UpdateL0Files(n) PROVE DataInv'
<1> USE DEF DataInv
<1>1. /\ mutex = Coordinator /\ stage = "edit" /\ n \in pend /\ pend' = pend \ {n}
      /\ l0' = [l0 EXCEPT ![n] = (@ \cup AddFns(n)) \ RemoveFns(n)]
      /\ UNCHANGED <<wpc, wkey, wseq, wmid, active, nextMid, flushed, scheduled, lookup, committed>>
      /\ UNCHANGED <<fmem, flushFile, ctodo, ccur, mutex, stage, vfiles, current, content, entries>>
  BY DEF UpdateL0Files, writerVars, partVars, flushVars, fileVars, versVars, coordVars
<1>2. IInv' BY UpdateL0FilesStep
<1>3. mutex \notin Flusher BY <1>1, ConstantsOK
<1>4. Unborn' = Unborn /\ Uninstalled' = Uninstalled /\ ContentKept
  BY <1>1 DEF Unborn, Uninstalled, ContentKept
<1>5. /\ l0 \in [0 .. MaxMid -> SUBSET Fn] /\ Mid \subseteq 0 .. MaxMid /\ n \in Mid /\ nextMid \in Int
  <2>1. l0 \in [0 .. MaxMid -> SUBSET Fn] /\ n \in Mid /\ nextMid \in 1 .. MaxMid + 1
    BY <1>1 DEF IInv, TypeOK, TypeMemTables, TypeThreads, TypeWriters
  <2>2. nextMid \in Int BY SMT, <2>1, ConstantsOK
  <2> QED BY <2>1, <2>2, Ranges
<1>6. \A m \in Mid : l0'[m] = IF m = n THEN (l0[n] \cup AddFns(n)) \ RemoveFns(n) ELSE l0[m] BY <1>1, <1>5
<1>7. Lower' = Lower /\ NextLower' = NextLower BY <1>1, TablesFrame
<1>8. ASSUME NEW m \in Mid, NEW f \in Tables(m), NEW e \in content[f]
      PROVE  \E g \in Tables(m)' : \E d \in content'[g] : d[1] = e[1] /\ e[2] <= d[2]
  <2>1. CASE f \in Tables(m)' BY <2>1, <1>1, CoversItself
  <2>2. CASE f \notin Tables(m)'
    <3>1. m = n BY <2>2, <1>1, <1>6, <1>7 DEF Tables
    <3>2. Tables(m)' = ((l0[n] \cup AddFns(n)) \ RemoveFns(n)) \cup NextLower
      BY <3>1, <1>1, <1>5, <1>6, <1>7 DEF Tables
    <3>3. f \in Lower \/ f \in l0[n] \cap RemoveFns(n) BY <2>2, <3>1, <3>2, <1>1 DEF Tables
    <3>4. CASE f \in Lower
      <4>1. \E g \in NextLower : \E d \in content[g] : d[1] = e[1] /\ e[2] <= d[2]
        BY <3>4, <1>1, NextCovers DEF Covered
      <4> QED BY <4>1, <3>2, <1>1
    <3>5. CASE f \in l0[n] \cap RemoveFns(n)
      <4>1. PICK c \in ccur : c.lev = 0 /\ c.tgt \in {0, 1} /\ f \in Inputs(c) /\ n \in fmids[f]
        BY <3>5 DEF RemoveFns
      <4>2. cpc \in {"move", "install"} /\ c.out # {} BY <1>1 DEF IInv, Control
      <4>3. c \in Uninstalled BY <1>1 DEF Uninstalled
      <4>4. PICK g \in c.out : \E d \in content[g] : d[1] = e[1] /\ e[2] <= d[2]
        BY <4>1, <4>2, <4>3 DEF Merged, Covered
      <4>5. CASE c.tgt = 1
        <5>1. 1 \in Level \ {0} BY ConstantsOK DEF Level
        <5>2. g \in Added(1) BY <4>5, <1>3 DEF Added
        <5>3. g \in NextLower BY SMT, <5>1, <5>2 DEF NextLower, NextLevel
        <5> QED BY <5>3, <4>4, <3>2, <1>1
      <4>6. CASE c.tgt = 0
        <5>1. f \in c.in0 BY <4>1, <4>6 DEF Merged, Inputs
        <5>2. g \in AddFns(n) BY <4>1, <4>6, <5>1 DEF AddFns
        <5>3. cpc = "install" BY SMT, <4>1, <4>2, <4>6 DEF IInv, Control
        <5>4. c \in Produced BY <5>3, <1>1 DEF IInv, Control, Produced
        <5>5. g \notin FilesOf(current) BY <5>4 DEF IInv, FreshFiles
        <5>6. \A d \in ccur : Inputs(d) \subseteq FilesOf(current) BY <1>1, InputsInCurrent DEF Uninstalled
        <5>7. g \notin RemoveFns(n) BY <5>5, <5>6 DEF RemoveFns
        <5> QED BY <5>2, <5>7, <4>4, <3>2, <1>1
      <4> QED BY <4>1, <4>5, <4>6
    <3> QED BY <3>3, <3>4, <3>5
  <2> QED BY <2>1, <2>2
<1>9. Indexed' BY <1>1, <1>2, <1>8, IndexedMove
<1>10. Frozen' BY <1>1, <1>4, FrozenFrame
<1>11. Merged' BY <1>1, <1>4, MergedFrame
<1>12. Writing' BY <1>1, WritingFrame
<1> QED BY <1>9, <1>10, <1>11, <1>12

\* AppendVersion: the version to come is the current one now.
LEMMA AppendVersionData == ASSUME IInv, DataInv, AppendVersion PROVE DataInv'
<1>1. /\ mutex # NoOwner /\ stage = "edit" /\ pend = {} /\ current' = newVid /\ stage' = "set"
      /\ UNCHANGED <<wpc, wkey, wseq, wmid, active, nextMid, flushed, scheduled, lookup, committed>>
      /\ UNCHANGED <<fmem, flushFile, ctodo, ccur, mutex, l0, content, entries>>
  BY DEF AppendVersion, writerVars, partVars, memVars, flushVars, coordVars
<1>2. \A l \in Level : vfiles'[current'][l] = NextLevel(l) BY <1>1, NewFiles DEF NextLevel
<1>3. Lower' = NextLower BY <1>2 DEF Lower, NextLower
<1>4. \A m : Tables(m)' = Tables(m) BY <1>1, <1>3 DEF Tables
<1>5. Unborn' \subseteq Unborn BY <1>1 DEF Unborn
<1>6. Uninstalled' \subseteq Uninstalled BY <1>1 DEF Uninstalled
<1>7. ContentKept BY <1>1 DEF ContentKept
<1> QED BY <1>1, <1>4, <1>5, <1>6, <1>7, SteadyStep

\* ComputeCompactions: nothing is merged yet, and a moved file is its own output.
LEMMA ComputeCompactionsData == ASSUME IInv, DataInv, ComputeCompactions PROVE DataInv'
<1> USE DEF DataInv
<1>1. /\ cpc = "pick"
      /\ UNCHANGED <<wpc, wkey, wseq, wmid, active, nextMid, flushed, scheduled, lookup, committed>>
      /\ UNCHANGED <<fmem, flushFile, mutex, pend, stage, l0, vfiles, current, content, entries>>
  BY DEF ComputeCompactions, writerVars, partVars, memVars, flushVars, instVars, versVars, fileVars
<1>2. IInv' BY ComputeCompactionsStep
<1>3. mutex # Coordinator BY <1>1 DEF IInv, Control
<1>4. Lower' = Lower BY <1>1 DEF Lower
<1>5. \A m : Tables(m)' = Tables(m) BY <1>1, <1>2, <1>3, <1>4, PlainTables, PlainTablesPrime
<1>6. Unborn' = Unborn /\ ContentKept BY <1>1 DEF Unborn, ContentKept
<1>7. PICK lev \in 0 .. NumLevels - 2, cs \in SUBSET Compactions :
           /\ \A c \in cs : /\ c.lev = lev /\ c.tgt \in {lev, lev + 1} /\ c.out = {}
                            /\ (c.tgt = lev => c.in1 = {})
                            /\ c.in0 \subseteq vfiles[cvid][lev] /\ c.in1 \subseteq vfiles[cvid][lev + 1]
           /\ \A c, d \in cs : c # d => Inputs(c) \cap Inputs(d) = {}
           /\ ctodo' = {d \in cs : ~Trivial(d)}
           /\ ccur' = {[d EXCEPT !.out = d.in0] : d \in {x \in cs : Trivial(x)}}
           /\ cpc' = IF ccur' = {} THEN "run" ELSE "move"
  BY BatchFacts
<1>8. ASSUME NEW c \in ctodo' PROVE (c.tgt = c.lev => c.in1 = {}) /\ c.out = {} BY <1>7
<1>9. ASSUME NEW c \in ccur' PROVE c.in1 = {} /\ c.out = c.in0
  <2>1. PICK x \in cs : Trivial(x) /\ c = [x EXCEPT !.out = x.in0] BY <1>7
  <2>2. x \in Compactions /\ x.in1 = {} BY <2>1 DEF Trivial
  <2> QED BY <2>1, <2>2 DEF Compactions
<1>10. Merged'
  <2>1. Uninstalled' \subseteq ctodo' \cup ccur' BY DEF Uninstalled
  <2>2. ASSUME NEW c \in Uninstalled', c.out # {} PROVE Covered(Inputs(c), c.out)'
    <3>1. c \in ccur' BY <2>1, <2>2, <1>8
    <3>2. c.in1 = {} /\ c.out = c.in0 BY <3>1, <1>9
    <3>3. Inputs(c)' = c.in0 BY <3>2 DEF Inputs
    <3>4. c.in0 \subseteq Fn BY <3>1, <1>2 DEF IInv, TypeOK, TypeThreads, Compactions
    <3>5. \A f \in c.in0 : \A e \in content'[f] : e[2] <= e[2]
      <4>1. \A f \in c.in0 : content'[f] \subseteq Entry BY <3>4, <1>2 DEF IInv, TypeOK, TypeFiles
      <4> QED BY <4>1, ConstantsOK DEF Entry
    <3> QED BY <3>2, <3>3, <3>5 DEF Covered
  <2> QED BY <2>2, <1>8, <1>9 DEF Merged
<1>11. Frozen' BY <1>1, <1>6, FrozenFrame
<1>12. Writing' BY <1>1, WritingFrame
<1>13. nextMid' \in Int /\ nextMid' >= nextMid BY <1>1 DEF IInv, TypeOK, TypeWriters
<1>14. Indexed' BY <1>1, <1>5, <1>6, <1>13, IndexedFrame
<1> QED BY <1>10, <1>11, <1>12, <1>14

\* What CompactTables writes covers what it read.
LEMMA OutputsCover ==
  ASSUME IInv, NEW c \in ctodo, CompactTables(c)
  PROVE  \E outs \in SUBSET Fn :
           /\ ctodo' = (ctodo \ {c}) \cup {[c EXCEPT !.out = outs]}
           /\ \A f \in Fn : f < nextFile => content'[f] = content[f]
           /\ \A f \in Inputs(c) : \A e \in content[f] :
                \E g \in outs : \E d \in content'[g] : d[1] = e[1] /\ e[2] <= d[2]
<1> DEFINE all == UNION {content[f] : f \in Inputs(c)}
           merged == Newest(all)
           low(k) == {e \in merged : e[1] <= k}
           Outs(k) == IF low(k) = merged THEN {nextFile} ELSE {nextFile, nextFile + 1}
<1>1. PICK cut \in KeysOf(Inputs(c)) :
        /\ Outs(cut) \subseteq Fn
        /\ content' = [f \in Fn |-> IF f \notin Outs(cut) THEN content[f]
                                      ELSE IF f = nextFile THEN low(cut) ELSE merged \ low(cut)]
        /\ ctodo' = (ctodo \ {c}) \cup {[c EXCEPT !.out = Outs(cut)]}
  BY DEF CompactTables
<1>2. c \in Uninstalled BY DEF CompactTables, Uninstalled
<1>3. Inputs(c) \subseteq Fn BY <1>2, InputsInCurrent, LevelFiles, Zero
<1>4. all \in SUBSET Entry BY <1>3 DEF IInv, TypeOK, TypeFiles
<1>5. \A f \in Inputs(c) : content[f] \subseteq all OBVIOUS
<1>6. nextFile \in Int /\ Fn \subseteq Int BY SMT DEF IInv, TypeOK, TypeFiles, Fn
<1> HIDE DEF all
<1>7. \A e \in all : \E d \in merged : d[1] = e[1] /\ e[2] <= d[2] BY <1>4, NewestCovers
<1> HIDE DEF merged
<1>8. low(cut) \subseteq merged OBVIOUS
<1> HIDE DEF low
<1>9. \A d \in merged : \E g \in Outs(cut) : d \in content'[g]
  <2> SUFFICES ASSUME NEW d \in merged PROVE \E g \in Outs(cut) : d \in content'[g] OBVIOUS
  <2>1. CASE d \in low(cut) BY <1>1, <2>1
  <2>2. CASE d \notin low(cut)
    <3>1. Outs(cut) = {nextFile, nextFile + 1} /\ nextFile + 1 # nextFile BY <2>2, <1>6
    <3>2. content'[nextFile + 1] = merged \ low(cut) BY <1>1, <3>1
    <3> QED BY <2>2, <3>1, <3>2
  <2> QED BY <2>1, <2>2
<1>10. \A f \in Fn : f < nextFile => f \notin Outs(cut) BY <1>6
<1> HIDE DEF Outs
<1>11. \A f \in Fn : f < nextFile => content'[f] = content[f] BY <1>1, <1>10
<1>12. \A f \in Inputs(c) : \A e \in content[f] :
         \E g \in Outs(cut) : \E d \in content'[g] : d[1] = e[1] /\ e[2] <= d[2]
  BY <1>5, <1>7, <1>9
<1>13. Outs(cut) \in SUBSET Fn BY <1>1
<1> QED BY <1>1, <1>11, <1>12, <1>13

\* CompactTables: the outputs are known to nobody yet and cover the inputs.
LEMMA CompactTablesData == ASSUME IInv, DataInv, NEW c \in ctodo, CompactTables(c) PROVE DataInv'
<1> USE DEF DataInv
<1>1. /\ c \notin ccur
      /\ UNCHANGED <<wpc, wkey, wseq, wmid, active, nextMid, flushed, scheduled, lookup, committed>>
      /\ UNCHANGED <<fmem, flushFile, mutex, pend, stage, l0, vfiles, current, ccur, entries>>
  BY DEF CompactTables, writerVars, partVars, memVars, flushVars, instVars, versVars
<1>2. PICK outs \in SUBSET Fn :
        /\ ctodo' = (ctodo \ {c}) \cup {[c EXCEPT !.out = outs]}
        /\ \A f \in Fn : f < nextFile => content'[f] = content[f]
        /\ \A f \in Inputs(c) : \A e \in content[f] :
             \E g \in outs : \E d \in content'[g] : d[1] = e[1] /\ e[2] <= d[2]
  BY OutputsCover
<1>3. ContentKept
  <2>1. disk \subseteq 1 .. nextFile - 1 /\ disk \subseteq Fn /\ nextFile \in Int
    BY SMT DEF IInv, FreshFiles, TypeOK, TypeFiles
  <2>2. \A f \in disk : f \in Fn /\ f < nextFile BY <2>1
  <2> QED BY <1>2, <2>2 DEF ContentKept
<1>4. PICK x : x = [c EXCEPT !.out = outs] OBVIOUS
<1>5. /\ c \in Uninstalled /\ c \in Compactions
      /\ Uninstalled' \subseteq Uninstalled \cup {x}
  BY <1>1, <1>2, <1>4 DEF Uninstalled, IInv, TypeOK, TypeThreads
<1>6. x.lev = c.lev /\ x.tgt = c.tgt /\ x.in0 = c.in0 /\ x.in1 = c.in1 /\ x.out = outs
  BY <1>4, <1>5 DEF Compactions
<1>7. Merged'
  <2>1. \A d \in ctodo' \cup ccur' : d.tgt = d.lev => d.in1 = {}
    <3>1. \A d \in ctodo \cup ccur : d.tgt = d.lev => d.in1 = {} BY DEF Merged
    <3>2. ctodo' \cup ccur' \subseteq (ctodo \cup ccur) \cup {x} BY <1>1, <1>2, <1>4
    <3>3. x.tgt = x.lev => x.in1 = {} BY <3>1, <1>6
    <3> QED BY <3>1, <3>2, <3>3
  <2>2. ASSUME NEW d \in Uninstalled', d.out # {} PROVE Covered(Inputs(d), d.out)'
    <3>1. CASE d = x
      <4>1. Inputs(d)' = Inputs(c) BY <3>1, <1>6 DEF Inputs
      <4>2. \A f \in Inputs(c) : content'[f] = content[f] BY <1>3, <1>5, CompactionOnDisk DEF ContentKept
      <4> QED BY <3>1, <4>1, <4>2, <1>2, <1>6 DEF Covered
    <3>2. CASE d # x
      <4>1. d \in Uninstalled BY <3>2, <1>5
      <4>2. Covered(Inputs(d), d.out) BY <2>2, <4>1 DEF Merged
      <4>3. \A f \in Inputs(d) \cup d.out : content'[f] = content[f]
        BY <4>1, <1>3, CompactionOnDisk DEF ContentKept
      <4>4. Inputs(d)' = Inputs(d) BY DEF Inputs
      <4> QED BY <4>2, <4>3, <4>4 DEF Covered
    <3> QED BY <3>1, <3>2
  <2> QED BY <2>1, <2>2 DEF Merged
<1>8. Unborn' = Unborn BY <1>1 DEF Unborn
<1>9. \A m : Tables(m)' = Tables(m) BY <1>1, TablesFrame
<1>10. Frozen' BY <1>1, <1>3, <1>8, FrozenFrame
<1>11. Writing' BY <1>1, WritingFrame
<1>12. nextMid' \in Int /\ nextMid' >= nextMid BY SMT, <1>1 DEF IInv, TypeOK, TypeWriters
<1>13. Indexed' BY <1>1, <1>3, <1>9, <1>12, IndexedFrame
<1> QED BY <1>7, <1>10, <1>11, <1>13

-----------------------------------------------------------------------------
(* Reads, and all steps *)

\* A Get frees a memtable only after its flush.
LEMMA GetData == ASSUME IInv, MemInv, DataInv, NEW r \in Reader, Get(r) PROVE DataInv'
<1>1. UNCHANGED <<flushed, l0, vfiles, current, otherThanReaders>>
  BY DEF Get, Lookup, RefMemTable, GetFromMemTable, ReadVersionId, RefVersion, CheckL0Files,
     UnrefAndRetry, SearchL0, SearchLevels, UnrefAndReturn, Return, memVars, versVars, versRest
<1>2. /\ UNCHANGED <<wpc, wkey, wseq, wmid, active, nextMid, flushed, scheduled, lookup, committed>>
      /\ UNCHANGED <<fmem, flushFile, ctodo, ccur, mutex, pend, l0, vfiles, current, content, stage>>
  BY <1>1 DEF otherThanReaders, writerVars, partVars, fileVars, instVars, flushVars, coordVars
<1>3. CASE UNCHANGED entries BY <1>2, <1>3, IdleStep
<1>4. CASE GetFromMemTable(r)
  <2>0. PICK n : n = rmid[r] OBVIOUS
  <2>1. UnrefMem(n) /\ rpc[r] = "memget" BY <1>4, <2>0 DEF GetFromMemTable
  <2>2. n \in Mid /\ n < nextMid BY <2>0, <2>1, MemReferenced DEF MemInv, MemCounts
  <2>3. r \in MemReaders(n) BY <2>0, <2>1 DEF MemReaders
  <2>4. Cardinality(MemReaders(n)) # 0 /\ Cardinality(MemReaders(n)) \in Nat
    BY <2>3, FS_EmptySet, MemReadersFinite
  <2>5. n \notin flushed => mrefs[n] # 1
    <3>1. mrefs[n] = Cardinality(MemReaders(n)) + (IF n < nextMid /\ n \notin flushed THEN 1 ELSE 0)
      BY <2>2 DEF MemInv, MemCounts
    <3> QED BY <3>1, <2>2, <2>4
  <2>6. entries \in [Mid -> SUBSET Entry] BY DEF IInv, TypeOK, TypeMemTables
  <2>7. entries' = IF mrefs[n] = 1 THEN [entries EXCEPT ![n] = {}] ELSE entries BY <2>1 DEF UnrefMem
  <2>8. \A m \in Mid : m \notin flushed => entries'[m] = entries[m] BY <2>5, <2>6, <2>7
  <2> QED BY <1>2, <2>8, IdleStep
<1>5. UNCHANGED entries \/ GetFromMemTable(r)
  BY DEF Get, Lookup, RefMemTable, ReadVersionId, RefVersion, CheckL0Files, UnrefAndRetry, SearchL0,
     SearchLevels, UnrefAndReturn, Return
<1> QED BY <1>3, <1>4, <1>5

\* The steps after AppendVersion, and the references of the coordinator.
LEMMA RestData ==
  ASSUME IInv, DataInv,
         \/ SetVersion \/ StoreCurrentId \/ SetCompaction
         \/ StartCompaction \/ ReleaseCompacted \/ UNCHANGED vars
  PROVE  DataInv'
<1>1. /\ UNCHANGED <<wpc, wkey, wseq, wmid, active, nextMid, flushed, scheduled, lookup, committed>>
      /\ UNCHANGED <<fmem, flushFile, ctodo, ccur, mutex, pend, l0, vfiles, current, content, entries>>
  BY DEF SetVersion, StoreCurrentId, SetCompaction, StartCompaction, ReleaseCompacted, vars, writerVars,
     partVars, memVars, fileVars, versVars, instVars, flushVars, coordVars
<1>2. stage' = "edit" <=> stage = "edit"
  BY DEF SetVersion, StoreCurrentId, SetCompaction, StartCompaction, ReleaseCompacted, vars, instVars
<1> QED BY <1>1, <1>2, IdleStep

\* No step loses the data that the index leads to.
LEMMA DataInvStep == ASSUME IInv, MemInv, DataInv, [Next]_vars PROVE DataInv'
<1>1. ASSUME NEW f \in Flusher, Flush(f) PROVE DataInv'
  BY <1>1, BuildTableData, FlushLockData, FlushUnlockData DEF Flush
<1>2. ASSUME Install PROVE DataInv'
  BY <1>2, SetFlushedData, UpdateL0FilesData, AppendVersionData, RestData DEF Install
<1>3. ASSUME Compact PROVE DataInv'
  BY <1>3, RestData, ComputeCompactionsData, CompactTablesData, CompactionLockData,
     CompactionUnlockData, RestCollectData DEF Compact
<1>4. ASSUME DeleteObsoleteFiles \/ \E f \in Fn : DeleteFile(f) PROVE DataInv'
  BY <1>4, RestCollectData, DeleteFileData
<1> QED BY <1>1, <1>2, <1>3, <1>4, WriteData, RotateData, NewMemTableData, GetData, RestData DEF Next

\* At first nothing was written.
LEMMA DataInvInit == ASSUME Init PROVE DataInv
<1>1. /\ flushed = {} /\ scheduled = {} /\ active = [p \in Partition |-> 0]
      /\ wpc = [w \in Writer |-> "idle"] /\ committed = [k \in Key |-> 0]
      /\ fmem = [f \in Flusher |-> {}] /\ ctodo = {} /\ ccur = {}
  BY DEF Init
<1>2. Writing BY <1>1 DEF Writing
<1>3. Frozen BY <1>1 DEF Frozen, Unborn
<1>4. Merged BY <1>1 DEF Merged, Uninstalled
<1>5. Indexed BY <1>1 DEF Indexed
<1> QED BY <1>2, <1>3, <1>4, <1>5 DEF DataInv

\* Between installations the memtable or the tables that the lookup index leads to hold the
\* write it was last set for: no flush, merge, move or deletion of a table loses it.
THEOREM IndexFindsData == Spec => []IndexLeadsToData
<1>1. Init => IInv /\ MemInv /\ DataInv BY InitInv, MemInvInit, DataInvInit
<1>2. IInv /\ MemInv /\ DataInv /\ [Next]_vars => (IInv /\ MemInv /\ DataInv)'
  BY InvStep, MemInvStep, DataInvStep
<1>3. ASSUME IInv, MemInv, DataInv PROVE IndexLeadsToData
  <2> SUFFICES ASSUME mutex = NoOwner, NEW k \in Key, committed[k] # 0
               PROVE  \E e \in (IF lookup[k] \in inMem THEN entries[lookup[k]] ELSE {})
                        \cup (UNION {content[f] : f \in l0[lookup[k]] \cup (FilesOf(current) \ vfiles[current][0])}) :
                          e[1] = k /\ e[2] >= committed[k]
    BY DEF IndexLeadsToData
  <2>0. PICK m : m = lookup[k] OBVIOUS
  <2>1. m \in Mid /\ m < nextMid /\ HasWrite(m, k, committed[k]) BY <1>3, <2>0 DEF DataInv, Indexed
  <2>2. m \in 0 .. MaxMid /\ committed[k] \in Int BY SMT, <1>3, <2>1, Ranges DEF IInv, TypeOK, TypeWriters
  <2>3. CASE m \in flushed
    <3>1. Tables(m) = l0[m] \cup Lower BY <1>3, ConstantsOK, PlainTables
    <3>2. PICK f \in Tables(m) : \E e \in content[f] : e[1] = k /\ committed[k] <= e[2]
      BY <2>1, <2>3 DEF HasWrite
    <3>3. Lower \subseteq FilesOf(current) \ vfiles[current][0]
      <4>1. \A l \in Level : l # 0 => vfiles[current][l] \cap vfiles[current][0] = {}
        BY <1>3, Zero DEF IInv, InputsCurrent
      <4>2. \A l \in Level : vfiles[current][l] \subseteq FilesOf(current) BY DEF FilesOf
      <4> QED BY <4>1, <4>2 DEF Lower
    <3>4. f \in l0[m] \cup (FilesOf(current) \ vfiles[current][0]) BY <3>1, <3>3
    <3>5. PICK e \in content[f] : e[1] = k /\ committed[k] <= e[2] BY <3>2
    <3>6. e[2] \in Int BY <1>3, <2>2, TableEntries
    <3>7. e[2] >= committed[k] BY <2>2, <3>5, <3>6
    <3> QED BY <2>0, <3>4, <3>5, <3>7
  <2>4. CASE m \notin flushed
    <3>1. m \in inMem BY <1>3, <2>1, <2>4, MemReferenced DEF MemInv
    <3>2. PICK e \in entries[m] : e[1] = k /\ committed[k] <= e[2] BY <2>1, <2>4 DEF HasWrite
    <3>3. e \in Entry BY <1>3, <2>1 DEF IInv, TypeOK, TypeMemTables
    <3>4. e[2] >= committed[k] BY <2>2, <3>2, <3>3, ConstantsOK DEF Entry
    <3> QED BY <2>0, <3>1, <3>2, <3>4
  <2> QED BY <2>3, <2>4
<1> QED BY <1>1, <1>2, <1>3, PTL DEF Spec

=============================================================================
