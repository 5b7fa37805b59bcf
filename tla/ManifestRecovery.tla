--------------------------- MODULE ManifestRecovery ---------------------------
(***************************************************************************)
(* The manifest of a range and recovery from it: AppendChangesToManifest,  *)
(* LogAndApply, Builder and Recover (src/db/version_set.cc), VersionEdit   *)
(* (src/db/version_edit.cc), and the threads that use them in              *)
(* src/db/db_impl.cc: flushes, the compaction coordinator, the update of   *)
(* replica locations, Recover.  Every edit is durable in the manifest      *)
(* before (flush, compaction) or after (relocation) the version it makes   *)
(* is installed; a crash may fall between any two steps.  The servers      *)
(* restart together: what a StoC knows of its files is gone, their blocks  *)
(* are not, and the LTC tells it again.  A table is its file number and    *)
(* the StoC files, <<server, id>>, of its metadata and of its data.        *)
(***************************************************************************)
EXTENDS Naturals, Sequences, SequencesExt, FiniteSetsExt

CONSTANTS
    Flusher,       \* flush threads
    MaxFile,       \* bound: file numbers
    ManifestCap,   \* edits that fit into manifest_file_size
    MapBatch,      \* files in one message of the file mapping
    MaxCrashes     \* bound: crashes

VARIABLES
    mf,          \* the manifest on the StoC: edits
    mfSize,      \* current_manifest_file_size_, in edits
    manLock,     \* who holds manifest_lock_
    version,     \* the current version: tables of each level
    disk,        \* files on the StoCs: [name, at]
    opened,      \* opened[s]: fn_stoc_file_map_ and stoc_files_ of StoC s
    nextId,      \* nextId[s]: current_stoc_file_id_ of StoC s
    fetched,     \* tables whose metadata files the LTC has
    rec,         \* DBImpl::Recover: where it is, what is left to install
    unopened,    \* a NOVA_ASSERT on StoC files failed
    content,     \* content[n]: sequence numbers in table n
    ft,          \* flush threads
    ct,          \* the coordinator
    rt,          \* the thread that relocates replicas
    nextFile, lastSeq,
    obsolete,    \* tables to delete from the StoCs
    installed,   \* sequence numbers in installed versions
    moved,       \* numbers of tables that were relocated
    overflow,    \* an edit did not fit
    crashes

stocFiles == <<disk, opened, nextId, fetched>>
manVars == <<mf, mfSize, manLock, version, stocFiles, content, ft, ct, rt, nextFile, lastSeq,
             obsolete, installed, moved, overflow, crashes, rec, unopened>>

Nobody == <<"none", 0>>
Idle == [pc |-> "idle", edit |-> <<>>]
StoCs == {0, 1}
Up == [pc |-> "up", todo |-> {}, stoc |-> 0, task |-> {}, msg |-> {}]
NoEdit == [del |-> {}, add |-> {}, next |-> 0, seq |-> 0, relocate |-> FALSE]

ManInit ==
    /\ mf = <<>> /\ mfSize = 0 /\ manLock = Nobody
    /\ version = [l \in {0, 1} |-> {}]
    /\ disk = {} /\ opened = [s \in StoCs |-> {}] /\ nextId = [s \in StoCs |-> 1]
    /\ fetched = {} /\ rec = Up /\ unopened = FALSE
    /\ content = [n \in 1..MaxFile |-> {}]
    /\ ft = [t \in Flusher |-> Idle] /\ ct = Idle /\ rt = Idle
    /\ nextFile = 1 /\ lastSeq = 1
    /\ obsolete = {} /\ installed = {} /\ moved = {} /\ overflow = FALSE /\ crashes = 0

-----------------------------------------------------------------------------
(* VersionEdit and Builder.                                                *)

(* Apply: deletions, then additions, which undo the deletion of the same   *)
(* number; a table already in the level's set is not replaced.             *)
Apply(b, e) ==
    [l \in {0, 1} |->
       LET new == {t \in {a[2] : a \in {x \in e.add : x[1] = l}} : \A o \in b[l].added : o.n # t.n}
           again == {x[2].n : x \in {y \in e.add : y[1] = l}}
       IN [deleted |-> (b[l].deleted \cup {d[2] : d \in {x \in e.del : x[1] = l}}) \ again,
           added |-> b[l].added \cup new]]

(* SaveTo, with MaybeAddFile: tables of the base and added ones that are   *)
(* not deleted; an edit of locations only replaces tables of the base.     *)
SaveTo(base, b, relocate) ==
    [l \in {0, 1} |->
       IF relocate
       THEN {IF \E a \in b[l].added : a.n = t.n THEN CHOOSE a \in b[l].added : a.n = t.n ELSE t : t \in base[l]}
       ELSE {t \in base[l] \cup b[l].added : t.n \notin b[l].deleted}]

Builder == [l \in {0, 1} |-> [deleted |-> {}, added |-> {}]]
LogAndApply(e) == SaveTo(version, Apply(Builder, e), e.relocate)

(* VersionSet::Recover: all edits of the manifest on an empty version.     *)
Recovered == SaveTo([l \in {0, 1} |-> {}], FoldLeft(Apply, Builder, mf), FALSE)
RecoveredFile == FoldLeft(LAMBDA a, e : IF e.next > a THEN e.next ELSE a, 0, mf) + 1
RecoveredSeq == FoldLeft(LAMBDA a, e : IF e.seq > a THEN e.seq ELSE a, 0, mf)

(* EncodeTo writes no field for an edit of locations.                      *)
EncodeTo(e) == [e EXCEPT !.relocate = FALSE]

(* AppendChangesToManifest takes manifest_lock_, stamps the edit, and      *)
(* appends it unless the manifest is full; SyncAppend returns when it is   *)
(* durable.                                                                *)
StartAppend(who) == manLock = Nobody /\ manLock' = who

FinishAppend(who, e) ==
    /\ manLock = who /\ manLock' = Nobody
    /\ mfSize' = mfSize + 1
    /\ IF mfSize' < ManifestCap
       THEN mf' = Append(mf, EncodeTo([e EXCEPT !.next = nextFile, !.seq = lastSeq])) /\ UNCHANGED overflow
       ELSE overflow' = TRUE /\ UNCHANGED mf

-----------------------------------------------------------------------------
(* The StoC files of tables.                                               *)

(* ObtainStoCFilesOfSSTable: the names and StoC files of a table.          *)
ObtainStoCFilesOfSSTable(t) ==
    {[name |-> <<"meta", t.n>>, at |-> t.meta], [name |-> <<"data", t.n>>, at |-> t.data]}
FilesAt(s, files) == {[name |-> f.name, id |-> f.at[2]] : f \in {g \in files : g.at[1] = s}}

(* A new table: its files are opened on the StoCs and get the next ids.    *)
NewTable(n) ==
    LET s == n % 2
    IN [n |-> n, data |-> <<s, nextId[s]>>, meta |-> <<0, nextId[0] + (IF s = 0 THEN 1 ELSE 0)>>]
WriteTable(t) ==
    LET files == ObtainStoCFilesOfSSTable(t)
    IN /\ disk' = disk \cup files
       /\ opened' = [s \in StoCs |-> opened[s] \cup FilesAt(s, files)]
       /\ nextId' = [s \in StoCs |-> nextId[s] + Cardinality(FilesAt(s, files))]
       /\ fetched' = fetched \cup {t.n}

-----------------------------------------------------------------------------
(* A flush: build the table, append the edit, install the version.         *)

BuildTable(t) ==
    /\ ft[t].pc = "idle" /\ nextFile <= MaxFile
    /\ nextFile' = nextFile + 1
    /\ lastSeq' = lastSeq + 1
    /\ content' = [content EXCEPT ![nextFile] = {lastSeq}]
    /\ WriteTable(NewTable(nextFile))
    /\ ft' = [ft EXCEPT ![t] = [pc |-> "built",
                edit |-> <<[NoEdit EXCEPT !.add = {<<0, NewTable(nextFile)>>}]>>]]
    /\ UNCHANGED <<mf, mfSize, manLock, version, ct, rt, obsolete, installed, moved, overflow, crashes>>

FlushAppends(t) ==
    /\ \/ ft[t].pc = "built" /\ StartAppend(<<"flush", t>>) /\ ft' = [ft EXCEPT ![t].pc = "append"]
          /\ UNCHANGED <<mf, mfSize, overflow>>
       \/ ft[t].pc = "append" /\ FinishAppend(<<"flush", t>>, ft[t].edit[1])
          /\ ft' = [ft EXCEPT ![t].pc = "install"]
    /\ UNCHANGED <<version, stocFiles, content, ct, rt, nextFile, lastSeq, obsolete, installed, moved, crashes>>

FlushInstalls(t) ==
    /\ ft[t].pc = "install"
    /\ version' = LogAndApply(ft[t].edit[1])
    /\ installed' = installed \cup UNION {content[a[2].n] : a \in ft[t].edit[1].add}
    /\ ft' = [ft EXCEPT ![t] = Idle]
    /\ UNCHANGED <<mf, mfSize, manLock, stocFiles, content, ct, rt, nextFile, lastSeq, obsolete, moved, overflow, crashes>>

(* A compaction of tables of level 0 with those of level 1 into level 1.   *)
CompactTables ==
    /\ ct.pc = "idle" /\ nextFile <= MaxFile
    /\ \E in \in SUBSET version[0] \ {{}} :
         LET out == NewTable(nextFile)
         IN /\ content' = [content EXCEPT ![nextFile] = UNION {content[f.n] : f \in in \cup version[1]}]
            /\ WriteTable(out)
            /\ ct' = [pc |-> "built",
                      edit |-> <<[NoEdit EXCEPT !.add = {<<1, out>>},
                                    !.del = {<<0, f.n>> : f \in in} \cup {<<1, f.n>> : f \in version[1]}],
                                  in \cup version[1]>>]
    /\ nextFile' = nextFile + 1
    /\ UNCHANGED <<mf, mfSize, manLock, version, ft, rt, lastSeq, obsolete, installed, moved, overflow, crashes>>

(* The inputs become obsolete as they were when the compaction was picked, *)
(* whether or not their replicas have been relocated since.                *)
AddCompactedInputs(inputs) == obsolete' = obsolete \cup inputs

(* The version is installed before its edit is in the manifest.            *)
CleanupInstallsFirst ==
    /\ \/ ct.pc = "append" /\ StartAppend(<<"compact", 0>>) /\ ct' = [ct EXCEPT !.pc = "appending"]
          /\ UNCHANGED <<mf, mfSize, overflow, version, obsolete>>
       \/ ct.pc = "appending" /\ FinishAppend(<<"compact", 0>>, ct.edit[1]) /\ ct' = Idle
          /\ UNCHANGED <<version, obsolete>>
       \/ ct.pc = "built" /\ ct' = [ct EXCEPT !.pc = "append"]
          /\ version' = LogAndApply(ct.edit[1])
          /\ AddCompactedInputs(ct.edit[2])
          /\ UNCHANGED <<mf, mfSize, manLock, overflow>>
    /\ UNCHANGED <<stocFiles, content, ft, rt, nextFile, lastSeq, installed, moved, crashes>>

(* CleanupLSMCompaction: append, then install; the inputs are obsolete.    *)
CleanupLSMCompaction ==
    /\ \/ ct.pc = "built" /\ StartAppend(<<"compact", 0>>) /\ ct' = [ct EXCEPT !.pc = "append"]
          /\ UNCHANGED <<mf, mfSize, overflow, version, obsolete>>
       \/ ct.pc = "append" /\ FinishAppend(<<"compact", 0>>, ct.edit[1])
          /\ ct' = [ct EXCEPT !.pc = "install"] /\ UNCHANGED <<version, obsolete>>
       \/ ct.pc = "install" /\ ct' = Idle
          /\ version' = LogAndApply(ct.edit[1])
          /\ AddCompactedInputs(ct.edit[2])
          /\ UNCHANGED <<mf, mfSize, manLock, overflow>>
    /\ UNCHANGED <<stocFiles, content, ft, rt, nextFile, lastSeq, installed, moved, crashes>>

(* ObtainObsoleteFiles and DeleteFiles.                                    *)
DeleteFiles ==
    /\ obsolete # {}
    /\ LET files == UNION {ObtainStoCFilesOfSSTable(t) : t \in obsolete}
       IN /\ disk' = disk \ files
          /\ opened' = [s \in StoCs |-> opened[s] \ FilesAt(s, files)]
          /\ fetched' = fetched \ {t.n : t \in obsolete}
    /\ obsolete' = {} /\ UNCHANGED nextId
    /\ UNCHANGED <<mf, mfSize, manLock, version, content, ft, ct, rt, nextFile, lastSeq, installed, moved, overflow, crashes>>

(* UpdateFileMetaReplicaLocations: a replica of a table went to another    *)
(* StoC; the version is installed first and the edit appended afterwards.  *)
UpdateFileMetaReplicaLocations ==
    /\ \/ /\ rt.pc = "idle" /\ moved = {}
          /\ \E l \in {0, 1} : \E f \in version[l], file \in {"meta", "data"} :
               LET s == 1 - f[file][1]
                   t == [f EXCEPT ![file] = <<s, nextId[s]>>]
                   e == [NoEdit EXCEPT !.add = {<<l, t>>}, !.relocate = TRUE]
                   copy == ObtainStoCFilesOfSSTable(t) \ ObtainStoCFilesOfSSTable(f)
                   old == ObtainStoCFilesOfSSTable(f) \ ObtainStoCFilesOfSSTable(t)
               IN /\ version' = LogAndApply(e)
                  /\ disk' = (disk \ old) \cup copy
                  /\ opened' = [v \in StoCs |-> (opened[v] \ FilesAt(v, old)) \cup FilesAt(v, copy)]
                  /\ nextId' = [nextId EXCEPT ![s] = @ + 1]
                  /\ moved' = moved \cup {f.n}
                  /\ rt' = [pc |-> "built", edit |-> <<e>>]
          /\ UNCHANGED <<mf, mfSize, manLock, overflow>>
       \/ /\ rt.pc = "built" /\ StartAppend(<<"relocate", 0>>) /\ rt' = [rt EXCEPT !.pc = "append"]
          /\ UNCHANGED <<mf, mfSize, overflow, version, disk, opened, nextId, moved>>
       \/ /\ rt.pc = "append" /\ FinishAppend(<<"relocate", 0>>, rt.edit[1]) /\ rt' = Idle
          /\ UNCHANGED <<version, disk, opened, nextId, moved>>
    /\ UNCHANGED <<fetched, content, ft, ct, nextFile, lastSeq, obsolete, installed, crashes>>

-----------------------------------------------------------------------------
(* Recovery.                                                               *)

(* The mapping between files and StoC files of all recovered tables.       *)
FileMapping(v) == UNION {ObtainStoCFilesOfSSTable(t) : t \in v[0] \cup v[1]}

(* All servers stop; an append that was on its way may or may not have     *)
(* been done.  DBImpl::Recover of the new process, up to the mapping.      *)
CrashAndRecover ==
    /\ crashes < MaxCrashes /\ crashes' = crashes + 1
    /\ version' = Recovered
    /\ nextFile' = RecoveredFile
    /\ lastSeq' = RecoveredSeq + 1
    /\ mfSize' = Len(mf)
    /\ manLock' = Nobody
    /\ ft' = [t \in Flusher |-> Idle] /\ ct' = Idle /\ rt' = Idle
    /\ obsolete' = {}
    /\ opened' = [s \in StoCs |-> {}] /\ nextId' = [s \in StoCs |-> 1] /\ fetched' = {}
    /\ rec' = [pc |-> "install", todo |-> FileMapping(Recovered), stoc |-> 0, task |-> {}, msg |-> {}]
    /\ installed' = installed \cup UNION {content[f.n] : f \in Recovered[0] \cup Recovered[1]}
    /\ UNCHANGED <<mf, disk, content, moved, overflow, unopened>>

(* OpenStoCFiles: no file may be open under the id of another; ids of new  *)
(* files come after these.                                                 *)
OpenStoCFiles(s, files) ==
    /\ unopened' = (unopened \/ \E f \in files, g \in opened[s] : f.id = g.id)
    /\ opened' = [opened EXCEPT ![s] = @ \cup files]
    /\ nextId' = [nextId EXCEPT ![s] = Max({@} \cup {f.id : f \in files}) + 1]

(* InitiateInstallFileNameStoCFileMapping: at once on this server, by a    *)
(* task of the handler for the other.                                      *)
InitiateInstallFileNameStoCFileMapping(s, files) ==
    LET left == rec.todo \ {[name |-> f.name, at |-> <<s, f.id>>] : f \in files}
    IN /\ rec' = [rec EXCEPT !.todo = left, !.stoc = s, !.task = IF s = 0 THEN {} ELSE files]
       /\ IF s = 0 THEN OpenStoCFiles(s, files) ELSE UNCHANGED <<opened, nextId, unopened>>

(* The loop over the StoCs: batches of the mapping, in any order; it waits *)
(* for each.                                                               *)
InstallMapping ==
    /\ rec.pc = "install" /\ rec.task = {} /\ rec.msg = {}
    /\ \E s \in StoCs :
         LET left == FilesAt(s, rec.todo)
         IN /\ left # {}
            /\ FilesAt(rec.stoc, rec.todo) # {} => s = rec.stoc
            /\ \E files \in kSubset(Min({MapBatch, Cardinality(left)}), left) :
                 InitiateInstallFileNameStoCFileMapping(s, files)
    /\ UNCHANGED <<mf, mfSize, manLock, version, disk, fetched, content, ft, ct, rt, nextFile, lastSeq,
                   obsolete, installed, moved, overflow, crashes>>

(* The handler encodes the mapping into a message.                         *)
PostMapping ==
    /\ rec.task # {}
    /\ rec' = [rec EXCEPT !.task = {}, !.msg = {<<f.name, f.id>> : f \in rec.task}]
    /\ UNCHANGED <<mf, mfSize, manLock, version, stocFiles, content, ft, ct, rt, nextFile, lastSeq,
                   obsolete, installed, moved, overflow, crashes, unopened>>

(* STOC_FILENAME_STOCFILEID at the StoC, and its answer.                   *)
ServeMapping ==
    /\ rec.msg # {}
    /\ OpenStoCFiles(rec.stoc, {[name |-> p[1], id |-> p[2]] : p \in rec.msg})
    /\ rec' = [rec EXCEPT !.msg = {}]
    /\ UNCHANGED <<mf, mfSize, manLock, version, disk, fetched, content, ft, ct, rt, nextFile, lastSeq,
                   obsolete, installed, moved, overflow, crashes>>

(* The metadata files of all tables are fetched from the StoCs by the ids  *)
(* of their StoC files, which must be open.                                *)
FetchMetadata ==
    LET ts == version[0] \cup version[1]
    IN /\ rec.pc = "install" /\ rec.todo = {} /\ rec.task = {} /\ rec.msg = {}
       /\ unopened' = (unopened \/ \E t \in ts : \A f \in opened[t.meta[1]] : f.id # t.meta[2])
       /\ fetched' = {t.n : t \in ts}
       /\ rec' = Up
       /\ UNCHANGED <<mf, mfSize, manLock, version, disk, opened, nextId, content, ft, ct, rt, nextFile,
                      lastSeq, obsolete, installed, moved, overflow, crashes>>

(* The bounds are used up.                                                 *)
ManEnds ==
    /\ nextFile > MaxFile /\ crashes = MaxCrashes /\ rec.pc = "up"
    /\ ct = Idle /\ rt = Idle /\ \A t \in Flusher : ft[t] = Idle
    /\ UNCHANGED manVars

ManNext ==
    \/ /\ rec.pc = "up" /\ UNCHANGED <<rec, unopened>>
       /\ \/ \E t \in Flusher : BuildTable(t) \/ FlushAppends(t) \/ FlushInstalls(t)
          \/ CompactTables \/ CleanupLSMCompaction \/ DeleteFiles
          \/ UpdateFileMetaReplicaLocations \/ ManEnds
    \/ CrashAndRecover \/ InstallMapping \/ PostMapping \/ ServeMapping \/ FetchMetadata

-----------------------------------------------------------------------------
(* Whenever the servers crash, and as long as every edit fitted into the   *)
(* manifest, the version recovered from it has every write of every        *)
(* version installed before, in tables whose files are on the StoCs and    *)
(* whose numbers and sequence numbers are below the recovered counters.    *)
(* Tables whose replicas were relocated are excepted: their edit comes     *)
(* after the installation and does not replace the location on recovery.   *)
(* Once recovery is over, and while the LTC runs, every table of the       *)
(* version is open on its StoCs under the ids the version has, its         *)
(* metadata is here, and no two files of a StoC share an id.               *)
ManifestRecovers ==
    \/ overflow
    \/ LET ts == Recovered[0] \cup Recovered[1]
           ok == {t \in ts : t.n \notin moved}
       IN /\ \A t \in ok : ObtainStoCFilesOfSSTable(t) \subseteq disk
          /\ moved = {} => installed \subseteq UNION {content[t.n] : t \in ts}
          /\ \A t \in ok : t.n < RecoveredFile /\ \A q \in content[t.n] : q <= RecoveredSeq
          /\ ~unopened
          /\ rec.pc = "up" =>
               /\ \A t \in version[0] \cup version[1] :
                    /\ t.n \in fetched
                    /\ \A s \in StoCs : FilesAt(s, ObtainStoCFilesOfSSTable(t)) \subseteq opened[s]
               /\ \A s \in StoCs : \A f, g \in opened[s] : f.id = g.id => f = g
=============================================================================
