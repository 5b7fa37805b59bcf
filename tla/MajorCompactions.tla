--------------------------- MODULE MajorCompactions ---------------------------
(***************************************************************************)
(* One round of the coordinator of major compactions: how it hands the     *)
(* compactions out to its own threads and to the StoCs and waits for them  *)
(* (DBImpl::CoordinateMajorCompaction, src/db/db_impl.cc), how a request   *)
(* gets to a StoC and its result back (src/ltc/stoc_client_impl.cpp,       *)
(* src/novalsm/rdma_server.cpp, src/stoc/storage_worker.cpp), and what the *)
(* job does (CompactionJob, src/db/compaction.cpp).  An entry is a user    *)
(* key and a sequence number, <<k, q>>; every entry has size one.          *)
(***************************************************************************)
EXTENDS Naturals, Sequences, SequencesExt, FiniteSetsExt

CONSTANTS
    Ltc,           \* the server of the coordinator
    Storages,      \* available_stoc_servers, a sequence
    Plans,         \* what ComputeCompactions may return: sequences of
                   \* [inputs : two sequences of tables, guides : tables]
    Subs,          \* latest_subranges_: sequences of tiny ranges [lo, hi]
    LastSequence,  \* smallest_snapshot
    MaxFileSize,   \* max_file_size
    NumReplicas,   \* replicas of a table and of its metadata
    BatchSize      \* FETCH_METADATA_BATCH_SIZE

VARIABLES
    plan,        \* the compactions
    where,       \* where[j]: selected_storages
    job,         \* job[j]: the compaction where it runs
    msg,         \* msg[j]: the request to the StoC, or its response
    compDone,    \* compDone[j]: is_completed_, or is_complete of the response
    outputs,     \* outputs[j]: CompactionRequest::outputs at the LTC
    coord,       \* the coordinator: where it is, loop counters, cleaned
    signal,      \* completion_signal
    numbers,     \* numbers[s]: the generator of file numbers of server s
    metas,       \* metas[s]: tables and replicas whose metadata file is on s
    tree,        \* tables that were installed, with their compaction
    unmet        \* a NOVA_ASSERT failed

mcVars == <<plan, where, job, msg, compDone, outputs, coord, signal, numbers, metas, tree, unmet>>

Jobs == 1 .. Len(plan)
Servers == {Ltc} \cup ToSet(Storages)

(* InternalKeyComparator: e sorts behind f, as a later key or an older     *)
(* version of the same key.                                                *)
Behind(e, f) == e[1] > f[1] \/ (e[1] = f[1] /\ e[2] < f[2])

(* What is stored in the table of an input, wherever it is read.           *)
Stored(number) ==
    LET ts == UNION {ToSet(plan[j].inputs[1]) \cup ToSet(plan[j].inputs[2]) : j \in Jobs}
    IN (CHOOSE t \in ts : t.number = number).entries

(* MakeInputIterator: the entries of all input tables, merged.             *)
MakeInputIterator(inputs) ==
    SetToSortSeq(UNION {ToSet(Stored(t.number)) : t \in ToSet(inputs[1]) \cup ToSet(inputs[2])},
                 LAMBDA e, f : Behind(f, e))

NoFile == <<0, 0>>

(* A Compaction and its CompactionState when a job begins.                 *)
CompactionState(pc, rest, guides, subs) ==
    [pc |-> pc, rest |-> rest, guides |-> guides, subs |-> subs, outs |-> <<>>, number |-> NoFile,
     builder |-> <<>>, grandparent |-> 0, seen |-> FALSE, overlapped |-> 0, subrange |-> 0,
     last |-> <<>>]

(* SelectAvailableStoCsForCompaction: round robin from wherever the        *)
(* process-wide counter stands; kMajorCoordinated stays on the LTC.        *)
SelectAvailableStoCs(start, n) ==
    [j \in 1..n |-> Storages[((start + j - 1) % Len(Storages)) + 1]]
Selections(n) ==
    {[j \in 1..n |-> Ltc]} \cup {SelectAvailableStoCs(s, n) : s \in 0 .. Len(Storages) - 1}

CompInit ==
    /\ plan \in Plans
    /\ where \in Selections(Len(plan))
    /\ job = [j \in Jobs |-> CompactionState("new", <<>>, <<>>, <<>>)]
    /\ msg = [j \in Jobs |-> <<>>]
    /\ compDone = [j \in Jobs |-> FALSE]
    /\ outputs = [j \in Jobs |-> <<>>]
    /\ coord = [pc |-> "schedule", i |-> 1, waited |-> 0, cleaned |-> {}]
    /\ signal = 0
    /\ numbers = [s \in Servers |-> IF s = Ltc THEN 100 ELSE 0]
    /\ metas = [s \in Servers |-> {}]
    /\ tree = {}
    /\ unmet = FALSE

-----------------------------------------------------------------------------
(* The job.                                                                *)

(* Compaction::ShouldStopBefore: skip the grandparents that end before e;  *)
(* a stop when enough of them were skipped since the last one.             *)
Skipped(c, e) ==
    {g \in c.grandparent + 1 .. Len(c.guides) : \A h \in c.grandparent + 1 .. g : Behind(e, c.guides[h].largest)}
MaxOverlap(c) == Max({Min({5, Len(c.guides) \div 4}), 1})
StopAtGrandparent(c, e) ==
    LET n == Cardinality(Skipped(c, e))
        over == c.overlapped + (IF c.seen THEN n ELSE 0)
    IN [c EXCEPT !.grandparent = @ + n, !.seen = TRUE,
                 !.overlapped = IF over >= MaxOverlap(c) THEN 0 ELSE over,
                 !.pc = IF over >= MaxOverlap(c) THEN "stop" ELSE @]

(* CompactionState::ShouldStopBefore: also where a subrange ends.          *)
GreaterThanUpper(e, sub) == e[1] > Last(sub).hi
ShouldStopBefore(c, e) ==
    LET passed == Cardinality({s \in c.subrange + 1 .. Len(c.subs) : GreaterThanUpper(e, c.subs[s])})
        d == StopAtGrandparent(c, e)
    IN [d EXCEPT !.subrange = @ + passed, !.pc = IF passed > 0 THEN "stop" ELSE @]

OpenCompactionOutputFile(c, fn) == [c EXCEPT !.number = fn]

(* FinishCompactionOutputFile: the table and the metadata of its replicas  *)
(* are complete and on the StoCs.                                          *)
FinishCompactionOutputFile(c) ==
    [c EXCEPT !.outs = Append(@, [number |-> c.number, entries |-> c.builder,
                                  smallest |-> c.builder[1], largest |-> Last(c.builder),
                                  handles |-> [i \in 1 .. NumReplicas |-> <<c.number, i>>]]),
              !.builder = <<>>, !.number = NoFile]

(* Hidden only when the very same version of the key came before.          *)
HiddenIfEqual(c, e) == c.last # <<>> /\ c.last = e

(* An entry is dropped when a newer one of its key came before that        *)
(* smallest_snapshot, the last sequence number, includes.                  *)
Hidden(c, e) == c.last # <<>> /\ c.last[1] = e[1] /\ c.last[2] <= LastSequence

(* The body of the loop in CompactTables, for the next entry; fn is what   *)
(* the generator of file numbers returns if a table is opened.             *)
CompactEntry(c, fn) ==
    LET e == Head(c.rest)
        s == ShouldStopBefore(c, e)
        cut == IF s.pc = "stop" /\ s.builder # <<>> THEN FinishCompactionOutputFile(s) ELSE s
        opened == IF cut.number = NoFile THEN OpenCompactionOutputFile(cut, fn) ELSE cut
        added == [opened EXCEPT !.builder = Append(@, e)]
        kept == IF Len(added.builder) >= MaxFileSize THEN FinishCompactionOutputFile(added) ELSE added
    IN [(IF Hidden(c, e) THEN cut ELSE kept) EXCEPT !.rest = Tail(@), !.last = e, !.pc = "run"]

(* Whether the step from c to d opened a table.                            *)
OpensFile(c, d) ==
    \/ d.number \notin {c.number, NoFile}
    \/ Len(d.outs) > Len(c.outs) /\ Last(d.outs).number # c.number

(* fn_generator: NewFileNumber at the LTC; at StoC s a counter of the      *)
(* process below s + 1 in the upper half of the number.                    *)
Generated(s) == IF s = Ltc THEN <<0, numbers[s]>> ELSE <<s + 1, numbers[s]>>

LocalMetas(ts) == UNION {ToSet(t.handles) : t \in ToSet(ts)}

CompactTables(j) ==
    LET s == where[j]
        d == CompactEntry(job[j], Generated(s))
    IN /\ job[j].pc = "run" /\ job[j].rest # <<>>
       /\ job' = [job EXCEPT ![j] = d]
       /\ numbers' = IF OpensFile(job[j], d) THEN [numbers EXCEPT ![s] = @ + 1] ELSE numbers
       /\ metas' = [metas EXCEPT ![s] = @ \cup LocalMetas(d.outs)]
       /\ UNCHANGED <<plan, where, msg, compDone, outputs, coord, signal, tree, unmet>>

(* The end of CompactTables, after the last table.                         *)
FinishCompactTables(j) ==
    LET c == job[j]
        d == IF c.builder # <<>> THEN FinishCompactionOutputFile(c) ELSE c
    IN /\ c.pc = "run" /\ c.rest = <<>>
       /\ job' = [job EXCEPT ![j] = [d EXCEPT !.pc = "compacted"]]
       /\ metas' = [metas EXCEPT ![where[j]] = @ \cup LocalMetas(d.outs)]
       /\ UNCHANGED <<plan, where, msg, compDone, outputs, coord, signal, numbers, tree, unmet>>

(* FetchMetadataFilesInParallel: a batch is fetched when it is full and    *)
(* more than another batch remains; returns the batches.                   *)
FetchInBatches(files) ==
    LET add(a, i) ==
          LET full == Len(a.batch) = BatchSize /\ Len(files) - (i - 1) > BatchSize
          IN [fetched |-> IF full THEN Append(a.fetched, a.batch) ELSE a.fetched,
              batch |-> IF full THEN <<files[i]>> ELSE Append(a.batch, files[i])]
        end == FoldLeft(add, [fetched |-> <<>>, batch |-> <<>>], [i \in 1 .. Len(files) |-> i])
    IN IF end.batch # <<>> THEN Append(end.fetched, end.batch) ELSE end.fetched
Counted(files, batches) == Len(FlattenSeq(batches)) = Len(files)

(* FetchMetadataFiles: read the metadata blocks of all replicas of a batch *)
(* and write them to local files.                                          *)
FetchMetadataFiles(s, batches) == [metas EXCEPT ![s] = @ \cup LocalMetas(FlattenSeq(batches))]

-----------------------------------------------------------------------------
(* Messages: fields one after the other, lists behind their length.        *)

(* FileMetaData::Encode and Decode; Decode returns what is left, too.      *)
EncodeMeta(t) == <<t.number, t.smallest, t.largest, Len(t.handles)>> \o t.handles
DecodeMeta(a) ==
    LET n == a.rest[4]
        t == [number |-> a.rest[1], smallest |-> a.rest[2], largest |-> a.rest[3],
              handles |-> SubSeq(a.rest, 5, 4 + n)]
    IN [got |-> Append(a.got, t), rest |-> SubSeq(a.rest, 5 + n, Len(a.rest))]

EncodeList(encode(_), ts) ==
    <<Len(ts)>> \o FlattenSeq([i \in 1 .. Len(ts) |-> encode(ts[i])])
DecodeList(decode(_), buf) ==
    FoldLeft(LAMBDA a, i : decode(a), [got |-> <<>>, rest |-> Tail(buf)], [i \in 1 .. Head(buf) |-> i])

(* SubRange::EncodeForCompaction: of the tiny ranges only the outer bounds *)
(* are sent, as one range.                                                 *)
EncodeForCompaction(sub) == <<sub[1].lo, Last(sub).hi>>
DecodeForCompaction(a) ==
    [got |-> Append(a.got, <<[lo |-> a.rest[1], hi |-> a.rest[2]]>>), rest |-> SubSeq(a.rest, 3, Len(a.rest))]

EncodeRequest(c) ==
    EncodeList(EncodeMeta, c.inputs[1]) \o EncodeList(EncodeMeta, c.inputs[2])
    \o EncodeList(EncodeMeta, c.guides) \o EncodeList(EncodeForCompaction, Subs)
DecodeRequest(buf) ==
    LET first == DecodeList(DecodeMeta, buf)
        second == DecodeList(DecodeMeta, first.rest)
        guides == DecodeList(DecodeMeta, second.rest)
    IN [inputs |-> <<first.got, second.got>>, guides |-> guides.got,
        subs |-> DecodeList(DecodeForCompaction, guides.rest).got]

-----------------------------------------------------------------------------
(* Where a job runs.                                                       *)

(* A background thread of the LTC takes the task.                          *)
StartLocal(j) ==
    /\ job[j].pc = "scheduled"
    /\ job' = [job EXCEPT ![j] =
                 CompactionState("run", MakeInputIterator(plan[j].inputs), plan[j].guides, Subs)]
    /\ UNCHANGED <<plan, where, msg, compDone, outputs, coord, signal, numbers, metas, tree, unmet>>

(* The handler of the LTC sends a queued request.                          *)
SendRequest(j) ==
    /\ job[j].pc = "requested"
    /\ msg' = [msg EXCEPT ![j] = EncodeRequest(plan[j])]
    /\ job' = [job EXCEPT ![j].pc = "sent"]
    /\ UNCHANGED <<plan, where, compDone, outputs, coord, signal, numbers, metas, tree, unmet>>

(* The handler of the StoC decodes the request into a task.                *)
RecvRequest(j) ==
    /\ job[j].pc = "sent"
    /\ msg' = [msg EXCEPT ![j] = <<DecodeRequest(msg[j])>>]
    /\ job' = [job EXCEPT ![j].pc = "queued"]
    /\ UNCHANGED <<plan, where, compDone, outputs, coord, signal, numbers, metas, tree, unmet>>

(* A worker of the StoC fetches the metadata files of the inputs and       *)
(* starts.                                                                 *)
StartOnStoC(j) ==
    LET req == msg[j][1]
        files == req.inputs[1] \o req.inputs[2]
        batches == FetchInBatches(files)
    IN /\ job[j].pc = "queued"
       /\ msg' = [msg EXCEPT ![j] = <<>>]
       /\ metas' = FetchMetadataFiles(where[j], batches)
       /\ unmet' = (unmet \/ ~Counted(files, batches))
       /\ job' = [job EXCEPT ![j] =
                    CompactionState("run", MakeInputIterator(req.inputs), req.guides, req.subs)]
       /\ UNCHANGED <<plan, where, compDone, outputs, coord, signal, numbers, tree>>

(* The handler of the StoC answers with the metadata of the outputs.       *)
SendResponse(j) ==
    /\ job[j].pc = "compacted" /\ where[j] # Ltc
    /\ msg' = [msg EXCEPT ![j] = EncodeList(EncodeMeta, job[j].outs)]
    /\ job' = [job EXCEPT ![j].pc = "response"]
    /\ UNCHANGED <<plan, where, compDone, outputs, coord, signal, numbers, metas, tree, unmet>>

(* OnRecv of STOC_COMPACTION_RESPONSE decodes the outputs into the request.*)
RecvResponse(j) ==
    /\ job[j].pc = "response"
    /\ outputs' = [outputs EXCEPT ![j] = DecodeList(DecodeMeta, msg[j]).got]
    /\ msg' = [msg EXCEPT ![j] = <<>>]
    /\ job' = [job EXCEPT ![j].pc = "received"]
    /\ UNCHANGED <<plan, where, compDone, coord, signal, numbers, metas, tree, unmet>>

(* Completion is visible before the semaphore is posted: is_completed_ at  *)
(* the end of CompactTables, is_complete in StoCRDMAClient::IsDone.        *)
SetCompleted(j) ==
    /\ job[j].pc = IF where[j] = Ltc THEN "compacted" ELSE "received"
    /\ compDone' = [compDone EXCEPT ![j] = TRUE]
    /\ job' = [job EXCEPT ![j].pc = "completed"]
    /\ UNCHANGED <<plan, where, msg, outputs, coord, signal, numbers, metas, tree, unmet>>

PostSignal(j) ==
    /\ job[j].pc = "completed"
    /\ signal' = signal + 1
    /\ job' = [job EXCEPT ![j].pc = "posted"]
    /\ UNCHANGED <<plan, where, msg, compDone, outputs, coord, numbers, metas, tree, unmet>>

-----------------------------------------------------------------------------
(* The coordinator.                                                        *)

(* For a background thread, and for the handler of RDMA messages.          *)
ScheduleCompactionTask(j) == job' = [job EXCEPT ![j].pc = "scheduled"]
InitiateCompaction(j) == job' = [job EXCEPT ![j].pc = "requested"]

ScheduleCompaction ==
    /\ coord.pc = "schedule"
    /\ IF where[coord.i] = Ltc THEN ScheduleCompactionTask(coord.i) ELSE InitiateCompaction(coord.i)
    /\ coord' = IF coord.i = Len(plan) THEN [coord EXCEPT !.pc = "wait", !.i = 1]
                ELSE [coord EXCEPT !.i = @ + 1]
    /\ UNCHANGED <<plan, where, msg, compDone, outputs, signal, numbers, metas, tree, unmet>>

(* sem_wait, once for each compaction.                                     *)
WaitForSignal ==
    /\ coord.pc = "wait" /\ signal > 0
    /\ signal' = signal - 1
    /\ coord' = [coord EXCEPT !.pc = "scan", !.i = 1, !.waited = @ + 1]
    /\ UNCHANGED <<plan, where, job, msg, compDone, outputs, numbers, metas, tree, unmet>>

(* The round ends when everything is cleaned.                              *)
AfterScanWhenCleaned(cleaned) ==
    IF coord.i < Len(plan) THEN [coord EXCEPT !.i = @ + 1, !.cleaned = cleaned]
    ELSE IF cleaned = Jobs THEN [coord EXCEPT !.pc = "end", !.cleaned = cleaned]
    ELSE [coord EXCEPT !.pc = "wait", !.cleaned = cleaned]

(* The round ends after as many waits as there are compactions.            *)
AfterScan(cleaned) ==
    IF coord.i < Len(plan) THEN [coord EXCEPT !.i = @ + 1, !.cleaned = cleaned]
    ELSE IF coord.waited = Len(plan) THEN [coord EXCEPT !.pc = "end", !.cleaned = cleaned]
    ELSE [coord EXCEPT !.pc = "wait", !.cleaned = cleaned]

(* The outputs in the state: of a StoC's, what the response brought.       *)
Installed(j) ==
    IF where[j] # Ltc THEN outputs[j]
    ELSE [i \in 1 .. Len(job[j].outs) |->
            [number |-> job[j].outs[i].number, smallest |-> job[j].outs[i].smallest,
             largest |-> job[j].outs[i].largest, handles |-> job[j].outs[i].handles]]

(* CleanupLSMCompaction of compaction j: outputs of a StoC are appended to *)
(* the state and their metadata fetched, then the tables are installed.    *)
CleanupLSMCompaction(j) ==
    LET files == IF where[j] = Ltc THEN <<>> ELSE outputs[j]
        batches == FetchInBatches(files)
    IN /\ metas' = FetchMetadataFiles(Ltc, batches)
       /\ unmet' = (unmet \/ ~Counted(files, batches))
       /\ tree' = tree \cup {[job |-> j, at |-> i, table |-> Installed(j)[i]] : i \in 1 .. Len(Installed(j))}

(* One compaction of the loop that finds out which ones are complete.      *)
ScanCompaction ==
    LET j == coord.i
    IN /\ coord.pc = "scan"
       /\ \/ /\ j \notin coord.cleaned /\ compDone[j]
             /\ CleanupLSMCompaction(j)
             /\ coord' = AfterScan(coord.cleaned \cup {j})
          \/ /\ j \in coord.cleaned \/ ~compDone[j]
             /\ coord' = AfterScan(coord.cleaned)
             /\ UNCHANGED <<metas, tree, unmet>>
       /\ UNCHANGED <<plan, where, job, msg, compDone, outputs, signal, numbers>>

(* The end of the round: every compaction must be cleaned; the states, the *)
(* requests and the semaphore, a local variable, are given up.             *)
EndRound ==
    /\ coord.pc = "end"
    /\ unmet' = (unmet \/ coord.cleaned # Jobs)
    /\ coord' = [coord EXCEPT !.pc = "done"]
    /\ UNCHANGED <<plan, where, job, msg, compDone, outputs, signal, numbers, metas, tree>>

RoundOver == coord.pc = "done" /\ UNCHANGED mcVars

CompNext ==
    \/ \E j \in Jobs : \/ StartLocal(j) \/ SendRequest(j) \/ RecvRequest(j) \/ StartOnStoC(j)
                       \/ CompactTables(j) \/ FinishCompactTables(j) \/ SendResponse(j)
                       \/ RecvResponse(j) \/ SetCompleted(j) \/ PostSignal(j)
    \/ ScheduleCompaction \/ WaitForSignal \/ ScanCompaction \/ EndRound \/ RoundOver

-----------------------------------------------------------------------------
(* The newest version of each user key of the inputs, in key order.        *)
Newest(j) ==
    LET all == ToSet(MakeInputIterator(plan[j].inputs))
    IN SetToSortSeq({e \in all : \A f \in all : f[1] = e[1] => f[2] <= e[2]},
                    LAMBDA e, f : e[1] < f[1])
TablesOf(j) ==
    LET ts == {x \in tree : x.job = j}
    IN [i \in 1 .. Cardinality(ts) |-> (CHOOSE x \in ts : x.at = i).table]
Written(number) ==
    LET ts == UNION {ToSet(job[j].outs) : j \in Jobs}
    IN (CHOOSE t \in ts : t.number = number).entries

(* Wherever a compaction ran and however completions interleave, what is   *)
(* installed for it is the newest version of every key of its inputs, in   *)
(* tables that do not overlap, do not cross a subrange and carry the right *)
(* bounds; no two tables, of whichever server, have the same number, and   *)
(* the LTC has the metadata of each.                                       *)
CompactionOutputs ==
    /\ \A j \in coord.cleaned :
         LET ts == TablesOf(j)
         IN /\ FlattenSeq([i \in 1 .. Len(ts) |-> Written(ts[i].number)]) = Newest(j)
            /\ \A i \in 1 .. Len(ts) :
                 LET entries == Written(ts[i].number)
                 IN /\ Len(entries) \in 1 .. MaxFileSize
                    /\ ts[i].smallest = entries[1] /\ ts[i].largest = Last(entries)
                    /\ \A s \in 1 .. Len(Subs) :
                         GreaterThanUpper(entries[1], Subs[s]) \/ ~GreaterThanUpper(Last(entries), Subs[s])
                    /\ ToSet(ts[i].handles) = {<<ts[i].number, r>> : r \in 1 .. NumReplicas}
                    /\ ToSet(ts[i].handles) \subseteq metas[Ltc]
    /\ \A x, y \in tree : x.table.number = y.table.number => x = y

(* The coordinator neither hangs nor leaves early: signals are never fewer *)
(* than the waits that are left, all compactions are cleaned after the     *)
(* last one, each exactly when it had completed, and the round ends only   *)
(* after every worker has used the state and the semaphore for the last    *)
(* time, although a compaction may be cleaned on the signal of another.    *)
CoordinatorRound ==
    /\ ~unmet
    /\ \A j \in coord.cleaned : job[j].pc \in {"completed", "posted"}
    /\ {x.job : x \in tree} \subseteq coord.cleaned
    /\ (coord.pc = "wait" /\ \A j \in Jobs : job[j].pc = "posted") => signal > 0
    /\ coord.pc \in {"end", "done"} => \A j \in Jobs : job[j].pc = "posted"
=============================================================================
