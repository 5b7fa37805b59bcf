--------------------------- MODULE LogReplication ---------------------------
(***************************************************************************)
(* Log records in the memory of the StoCs: LogCLogWriter on the LTC        *)
(* (src/log/logc_log_writer.cc), StoCInMemoryLogFileManager on both sides  *)
(* (src/log/stoc_log_manager.cpp), and how LogRecovery reads a log back    *)
(* (src/log/log_recovery.cpp).  A log file belongs to one memtable; one    *)
(* handler thread serves all records of it, another one closes it.         *)
(* Requests and completions of one queue pair stay in order, those of the  *)
(* two handlers do not.  A log record is one cell of a buffer.             *)
(***************************************************************************)
EXTENDS Naturals, Sequences, SequencesExt, FiniteSets

CONSTANTS
    Writer,    \* threads that put
    Replica,   \* log_replica_stoc_ids
    Log,       \* log files, in the order in which memtables are created
    Buf,       \* slab buffers of one StoC
    MaxRec,    \* bound: records of one log file
    NoBuf, Junk

VARIABLES
    queue,    \* tasks of the handler thread of log records
    closing,  \* tasks of the handler thread that closes logs
    lbuf,     \* lbuf[l][r]: logfile_last_buf_
    state,    \* state[w][r]: replicate_log_record_states of w
    sq,       \* sq[r]: posted to r and not yet executed
    dq,       \* dq[r]: posted to r by the handler that closes logs
    cq,       \* cq[r]: completions and answers from r, in order
    mem,      \* mem[r][b]: contents of buffer b of r
    local,    \* local[r][l]: local_backing_mems on r
    remote,   \* remote[l][r]: remote_backing_mems on the LTC
    wr,       \* wr[w]: what writer w is logging
    recs,     \* recs[l]: records in the order in which they were logged
    acked,    \* acked[l]: records whose put returned
    closed    \* log files that were closed

vars == <<queue, closing, lbuf, state, sq, dq, cq, mem, local, remote, wr, recs, acked, closed>>

NoLog == 0
Unset == [base |-> NoBuf, off |-> 0, init |-> FALSE]

Init ==
    /\ queue = <<>> /\ closing = <<>>
    /\ lbuf = [l \in Log |-> [r \in Replica |-> Unset]]
    /\ state = [w \in Writer |-> [r \in Replica |-> "none"]]
    /\ sq = [r \in Replica |-> <<>>]
    /\ dq = [r \in Replica |-> <<>>]
    /\ cq = [r \in Replica |-> <<>>]
    /\ mem = [r \in Replica |-> [b \in Buf |-> [i \in 1..MaxRec |-> Junk]]]
    /\ local = [r \in Replica |-> [l \in Log |-> <<>>]]
    /\ remote = [l \in Log |-> [r \in Replica |-> NoBuf]]
    /\ wr = [w \in Writer |-> [log |-> NoLog, rec |-> 0]]
    /\ recs = [l \in Log |-> <<>>]
    /\ acked = [l \in Log |-> {}]
    /\ closed = {}

Current == CHOOSE l \in Log \ closed : \A m \in Log \ closed : l <= m
Used(r) == UNION {ToSet(local[r][l]) : l \in Log}
NumLogged(l) == Len(recs[l]) + Cardinality({w \in Writer : wr[w].log = l /\ wr[w].rec \notin ToSet(recs[l])})

(* InitiateReplicateLogRecords of the block client: all records of a       *)
(* memtable go to the same handler.                                        *)
InitiateReplicateLogRecords(w, l, rec) ==
    queue' = Append(queue, [k |-> "record", w |-> w, log |-> l, rec |-> rec])

(* GenerateLogRecord: reset the replicate states and queue the record.     *)
GenerateLogRecord(w) ==
    /\ wr[w].log = NoLog
    /\ closed # Log
    /\ NumLogged(Current) < MaxRec
    /\ LET rec == <<Current, w, Len(recs[Current])>>
       IN /\ wr' = [wr EXCEPT ![w] = [log |-> Current, rec |-> rec]]
          /\ InitiateReplicateLogRecords(w, Current, rec)
    /\ state' = [state EXCEPT ![w] = [r \in Replica |-> "none"]]
    /\ UNCHANGED <<closing, lbuf, sq, dq, cq, mem, local, remote, recs, acked, closed>>

(* A record is sent without looking whether a buffer is being allocated.   *)
MayAddRecordAnyTime(l) == TRUE

(* AddRecord fails, and is retried, while a buffer is being allocated.     *)
MayAddRecord(l) == \A r \in Replica : ~lbuf[l][r].init

Ready(task) == task.k = "record" => MayAddRecord(task.log)

(* ProcessRequestQueue goes over the queue in order.                       *)
TakesTask(i) ==
    /\ i \in 1..Len(queue)
    /\ Ready(queue[i])
    /\ \A j \in 1..i-1 : ~Ready(queue[j])
    /\ queue' = RemoveAt(queue, i)

(* AddRecord: ask for a buffer where there is none, else write.            *)
AddRecord(t) ==
    LET l == t.log
        fresh(r) == lbuf[l][r].base = NoBuf
    IN /\ lbuf' = [lbuf EXCEPT ![l] = [r \in Replica |->
                     IF fresh(r) THEN [@[r] EXCEPT !.init = TRUE] ELSE [@[r] EXCEPT !.off = @ + 1]]]
       /\ state' = [state EXCEPT ![t.w] = [r \in Replica |-> IF fresh(r) THEN "alloc" ELSE "write"]]
       /\ sq' = [r \in Replica |-> Append(sq[r],
                   IF fresh(r) THEN [k |-> "alloc", w |-> t.w, log |-> l, rec |-> t.rec]
                   ELSE [k |-> "write", w |-> t.w, b |-> lbuf[l][r].base,
                         off |-> lbuf[l][r].off + 1, rec |-> t.rec])]

(* InitiateReplicateLogRecords of the RDMA client.                         *)
ReplicateLogRecord(i) ==
    LET t == queue[i]
    IN /\ TakesTask(i) /\ t.k = "record"
       /\ AddRecord(t)
       /\ recs' = [recs EXCEPT ![t.log] = Append(@, t.rec)]
       /\ UNCHANGED <<closing, dq, cq, mem, local, remote, wr, acked, closed>>

-----------------------------------------------------------------------------
(* The log manager: local buffers on a StoC, remote ones on the LTC.       *)
AddLocalBuf(r, l, b) == local' = [local EXCEPT ![r][l] = Append(@, b)]
AddRemoteBuf(l, r, b) == remote' = [remote EXCEPT ![l][r] = b]
DeleteLogBuf(r, l) == local' = [local EXCEPT ![r][l] = <<>>]

(* STOC_ALLOCATE_LOG_BUFFER on r: a slab item, whose old bytes are kept.   *)
AllocateLogBuffer(r) ==
    LET m == Head(sq[r])
    IN /\ sq[r] # <<>> /\ m.k = "alloc"
       /\ \E b \in Buf \ Used(r) :
            /\ AddLocalBuf(r, m.log, b)
            /\ cq' = [cq EXCEPT ![r] = Append(@, [k |-> "succ", w |-> m.w, log |-> m.log,
                                                  rec |-> m.rec, b |-> b])]
       /\ sq' = [sq EXCEPT ![r] = Tail(@)]
       /\ UNCHANGED <<queue, closing, lbuf, state, dq, mem, remote, wr, recs, acked, closed>>

(* The RDMA WRITE of a record (external), and its completion.              *)
ExecuteWrite(r) ==
    LET m == Head(sq[r])
    IN /\ sq[r] # <<>> /\ m.k = "write"
       /\ mem' = [mem EXCEPT ![r][m.b][m.off] = m.rec]
       /\ cq' = [cq EXCEPT ![r] = Append(@, [k |-> "done", w |-> m.w, rec |-> m.rec])]
       /\ sq' = [sq EXCEPT ![r] = Tail(@)]
       /\ UNCHANGED <<queue, closing, lbuf, state, dq, local, remote, wr, recs, acked, closed>>

(* STOC_DELETE_LOG_FILE on r.                                              *)
DeleteLogFile(r) ==
    /\ dq[r] # <<>>
    /\ DeleteLogBuf(r, Head(dq[r]))
    /\ dq' = [dq EXCEPT ![r] = Tail(@)]
    /\ UNCHANGED <<queue, closing, lbuf, state, sq, cq, mem, remote, wr, recs, acked, closed>>

(* OnRecv of STOC_ALLOCATE_LOG_BUFFER_SUCC: a task for the request queue.  *)
RecvAllocated(r) ==
    LET m == Head(cq[r])
    IN /\ cq[r] # <<>> /\ m.k = "succ"
       /\ queue' = Append(queue, [k |-> "succ", r |-> r, w |-> m.w, log |-> m.log,
                                  rec |-> m.rec, b |-> m.b])
       /\ cq' = [cq EXCEPT ![r] = Tail(@)]
       /\ UNCHANGED <<closing, lbuf, state, sq, dq, mem, local, remote, wr, recs, acked, closed>>

AckAllocLogBuf(i) ==
    LET t == queue[i]
    IN /\ TakesTask(i) /\ t.k = "succ"
       /\ AddRemoteBuf(t.log, t.r, t.b)
       /\ lbuf' = [lbuf EXCEPT ![t.log][t.r] = [base |-> t.b, off |-> 1, init |-> FALSE]]
       /\ state' = [state EXCEPT ![t.w][t.r] = "write"]
       /\ sq' = [sq EXCEPT ![t.r] = Append(@, [k |-> "write", w |-> t.w, b |-> t.b, off |-> 1,
                                               rec |-> t.rec])]
       /\ UNCHANGED <<closing, dq, cq, mem, local, wr, recs, acked, closed>>

(* CheckCompletion: every replica has acknowledged the record of w.        *)
CheckCompletion(st) == \A r \in Replica : st[r] = "ok"

(* OnRecv of the completion: AckWriteSuccess; once the record is complete  *)
(* the writer is woken up.                                                 *)
AckWriteSuccess(r) ==
    LET m == Head(cq[r])
        all == CheckCompletion([state[m.w] EXCEPT ![r] = "ok"])
        l == wr[m.w].log
    IN /\ cq[r] # <<>> /\ m.k = "done"
       /\ state' = [state EXCEPT ![m.w][r] = "ok"]
       /\ cq' = [cq EXCEPT ![r] = Tail(@)]
       /\ acked' = IF all THEN [acked EXCEPT ![l] = @ \cup {m.rec}] ELSE acked
       /\ wr' = IF all THEN [wr EXCEPT ![m.w] = [log |-> NoLog, rec |-> 0]] ELSE wr
       /\ UNCHANGED <<queue, closing, lbuf, sq, dq, mem, local, remote, recs, closed>>

(* The memtable was flushed, so nobody writes to its log: the flush asks   *)
(* one of the handlers to close it.                                        *)
InitiateCloseLogFiles(l) ==
    /\ l \notin closed /\ acked[l] # {}
    /\ \A w \in Writer : wr[w].log # l
    /\ closed' = closed \cup {l}
    /\ closing' = Append(closing, l)
    /\ UNCHANGED <<queue, lbuf, state, sq, dq, cq, mem, local, remote, wr, recs, acked>>

(* CloseLogFiles by that handler; the entry of the log in the writer of    *)
(* the other handler stays.                                                *)
CloseLogFiles ==
    /\ closing # <<>>
    /\ closing' = Tail(closing)
    /\ remote' = [remote EXCEPT ![Head(closing)] = [r \in Replica |-> NoBuf]]
    /\ dq' = [r \in Replica |-> Append(dq[r], Head(closing))]
    /\ UNCHANGED <<queue, lbuf, state, sq, cq, mem, local, wr, recs, acked, closed>>

Idle ==
    /\ closed = Log /\ closing = <<>> /\ \A r \in Replica : dq[r] = <<>>
    /\ UNCHANGED vars

Next ==
    \/ \E w \in Writer : GenerateLogRecord(w)
    \/ \E i \in 1..Len(queue) : ReplicateLogRecord(i) \/ AckAllocLogBuf(i)
    \/ \E r \in Replica :
         \/ AllocateLogBuffer(r) \/ ExecuteWrite(r) \/ DeleteLogFile(r)
         \/ RecvAllocated(r) \/ AckWriteSuccess(r)
    \/ \E l \in Log : InitiateCloseLogFiles(l)
    \/ CloseLogFiles \/ Idle

-----------------------------------------------------------------------------
(* LogRecovery: RDMA READ of the buffer of any one replica, then records   *)
(* are decoded until one does not parse.  The buffer may hold records of   *)
(* a log that used it before.                                              *)
InitiateReadInMemoryLogFile(r, b) == mem[r][b]
DecodeLogRecords(r, l) ==
    LET cells == InitiateReadInMemoryLogFile(r, remote[l][r])
        n == CHOOSE n \in 0..MaxRec : /\ \A i \in 1..n : cells[i] # Junk
                                      /\ n < MaxRec => cells[n + 1] = Junk
    IN [i \in 1..n |-> cells[i]]

(* From whichever replica a memtable is recovered, every put that returned *)
(* is among the decoded records, after all records logged before it, and   *)
(* no buffer that still backs an open log has been given to another one,   *)
(* although buffers are allocated while later records are already queued   *)
(* and freed while others are written.                                     *)
AckedRecordsRecoverable ==
    \A l \in Log \ closed, r \in Replica :
      acked[l] # {} =>
        /\ remote[l][r] \in ToSet(local[r][l])
        /\ \A m \in Log \ {l} : remote[l][r] \notin ToSet(local[r][m])
        /\ LET d == DecodeLogRecords(r, l)
           IN \A i \in 1..Len(recs[l]) : recs[l][i] \in acked[l] => IsPrefix(SubSeq(recs[l], 1, i), d)
=============================================================================
