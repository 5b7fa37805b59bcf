---------------------------- MODULE StoCProtocol ----------------------------
(***************************************************************************)
(* How LTC threads use the storage components: StoCBlockClient, the RDMA   *)
(* message handler thread of each server (client side StoCRDMAClient,      *)
(* server side RDMAServerImpl, which share the queue pairs and their       *)
(* admission control), the RDMA broker, the storage workers and the StoC   *)
(* files.  Every server runs one handler and one worker per pool.          *)
(*                                                                         *)
(* The request and completion queues are scanned as the code scans them: a *)
(* request that is not admitted is skipped and kept.  RDMA itself (posted  *)
(* work requests executed in order per queue pair, reliable, completions   *)
(* in order, receiver not ready) is external.                              *)
(***************************************************************************)
EXTENDS Naturals, Sequences, SequencesExt, FiniteSets, TLC, StoCFile

CONSTANTS
    Thread,     \* threads of the LTC that use a StoCBlockClient
    Server,     \* all servers
    Ltc,        \* the server the threads run on
    Table,      \* names of SSTable data blocks
    MetaOf,     \* MetaOf[n]: the name of the metadata block of table n
    Manifest,   \* names of manifest files
    MaxSends,   \* rdma_max_num_sends
    MaxReqId,   \* request ids of one server before they wrap
    Scripts,    \* bound: script[t][i], the kinds the i-th operation of t may have
    None,       \* no owner, no argument
    Queries     \* requests answered by the handler itself

Name == Table \cup {MetaOf[n] : n \in Table} \cup Manifest
Pool == {"fg", "bg", "cp"}
Worker == Server \X Pool
Owner == Thread \cup Worker
NoReq == <<0, 0>>   \* request id 0: nothing to wait for

VARIABLES
    h,       \* h[s]: the handler thread of s and its queue pairs
    file,    \* file[s][id]: the StoC files of s
    fnmap,   \* fnmap[s][n]: fn_stoc_file_map_, 0 when absent
    wk,      \* wk[<<s, p>>]: the storage worker of pool p on s
    sem,     \* sem[o]: the semaphore of o's StoCBlockClient
    resp,    \* resp[o]: the block handles in o's completed responses
    thr,     \* thr[t]: the operation thread t is in
    loc,     \* blocks the LSM tree's metadata refers to
    doomed,  \* deletions asked for
    got,     \* got[t]: the block the last read of t returned
    script,  \* the member of Scripts that the threads follow
    failed   \* NOVA_ASSERTs of the protocol that have failed

vars == <<h, file, fnmap, wk, sem, resp, thr, loc, doomed, got, script, failed>>

Idle == [op |-> "none"]
Assertion(ok, what) == IF ok THEN {} ELSE {what}

Init ==
    /\ h = [s \in Server |->
              [pub |-> <<>>, priv |-> <<>>, pend |-> <<>>, ctx |-> <<>>, k |-> 1,
               cq |-> <<>>, pcq |-> <<>>, sctx |-> <<>>, closing |-> {}, nbuf |-> 0,
               adm |-> [d \in Server |-> 0], sq |-> [d \in Server |-> <<>>],
               dlv |-> [d \in Server |-> 0], rq |-> [d \in Server |-> <<>>]]]
    /\ file = [s \in Server |-> <<>>]
    /\ fnmap = [s \in Server |-> [n \in Name |-> 0]]
    /\ wk = [w \in Worker |-> [q |-> <<>>, batch |-> <<>>, done |-> <<>>, pc |-> "idle",
                               tmp |-> <<>>]]
    /\ sem = [o \in Owner |-> 0]
    /\ resp = [o \in Owner |-> {}]
    /\ thr = [t \in Thread |-> [n |-> 0, op |-> Idle, todo |-> {}, wait |-> 0, buf |-> NoBlock,
                              fid |-> 0]]
    /\ loc = {}
    /\ doomed = {}
    /\ got = [t \in Thread |-> NoBlock]
    /\ script \in Scripts
    /\ failed = {}

-----------------------------------------------------------------------------
(* The files of a server.                                                  *)

(* OpenStoCFile: the id of n's file, and the files once it is open.        *)
FileId(s, n) == IF fnmap[s][n] # 0 THEN fnmap[s][n] ELSE Len(file[s]) + 1
OpenStoCFile(s, n) ==
    IF fnmap[s][n] # 0 THEN file[s]
    ELSE Append(file[s], NewFile(n, n \notin Manifest))
MapStoCFile(s, n) == [fnmap EXCEPT ![s][n] = FileId(s, n)]

(* The same without writing the buffers to the file.                       *)
PersistUnwritten(f) ==
    LET g == PersistTake(f)
        p == PersistEnd(PersistDone(g, g.wmem), g.wmem)
    IN IF p.table THEN ForceSeal(p) ELSE p

(* Persist, Handle and, for a table, ForceSeal, run by one thread.         *)
PersistNow(f) ==
    LET g == PersistTake(f)
        p == PersistEnd(PersistDone(PersistRun(g, g.wmem), g.wmem), g.wmem)
    IN IF p.table THEN ForceSeal(p) ELSE p

(* What a handle refers to: nothing when the file is closed.               *)
ReadDataBlock(f, off) == IF f.open /\ off < Len(f.disk) THEN f.disk[off + 1] ELSE NoBlock

(* DeleteSSTable of the files ids of s; Closing: the files the caller then *)
(* closes and unlinks, outside the lock.                                   *)
DeleteFiles(s, ids) ==
    [i \in 1..Len(file[s]) |-> IF i \in ids THEN DeleteSSTable(file[s][i]) ELSE file[s][i]]
Closing(s, ids) ==
    {i \in ids : ~file[s][i].deleted /\ DeleteSSTable(file[s][i]).deleted}
CloseFiles(fs, ids) ==
    [i \in 1..Len(fs) |-> IF i \in ids THEN CloseAndUnlink(fs[i]) ELSE fs[i]]
(* The files a deletion of table n finds by name.                          *)
Named(s, n) == {fnmap[s][m] : m \in {n, MetaOf[n]}} \ {0}

-----------------------------------------------------------------------------
(* The threads: StoCBlockClient.  A call on the thread's own server is     *)
(* served inline, any other is queued at the handler (AddAsyncTask).       *)

AddAsyncTask(s, task) == [h EXCEPT ![s].pub = Append(@, task)]

Used(n, s) == \/ fnmap[s][n] # 0
              \/ <<n, s>> \in doomed
              \/ \E t \in Thread : /\ thr[t].op.op = "append" /\ thr[t].op.n = n
                                   /\ s \in thr[t].op.to
              \/ \E t \in Thread : /\ thr[t].op.op = "replicate" /\ thr[t].op.n = n
                                   /\ s = thr[t].op.d

MayStart(t, kind) ==
    /\ thr[t].op = Idle
    /\ thr[t].n < Len(script[t])
    /\ kind \in script[t][thr[t].n + 1]
(* fid: the StoC file of the handle that the operation is about.           *)
Start(t, op, todo, fid) ==
    /\ thr' = [thr EXCEPT ![t].op = op, ![t].todo = todo, ![t].n = @ + 1,
                          ![t].buf = NoBlock, ![t].fid = fid]
    /\ UNCHANGED <<h, file, fnmap, wk, sem, resp, loc, doomed, got, failed>>

(* A table block goes to servers that never had it (its file number is     *)
(* fresh); manifest appends are serialised by manifest_lock_ and go to     *)
(* every manifest replica.                                                 *)
StartAppend(t) ==
    \/ \E n \in Name \ Manifest, to \in (SUBSET Server) \ {{}} :
         /\ MayStart(t, "append")
         /\ \A s \in Server : ~Used(n, s)
         /\ Start(t, [op |-> "append", n |-> n, to |-> to, b |-> <<t, thr[t].n>>], to, 0)
    \/ \E n \in Manifest :
         /\ MayStart(t, "manifest")
         /\ \A u \in Thread : thr[u].op.op = "append" => thr[u].op.n # n
         /\ Start(t, [op |-> "append", n |-> n, to |-> Server, b |-> <<t, thr[t].n>>], Server, 0)

StartRead(t) ==
    /\ MayStart(t, "read")
    /\ \E l \in loc : Start(t, [op |-> "read", n |-> l.n, s |-> l.s, i |-> l.off + 1], {l.s}, l.fid)

StartReplicate(t) ==
    \E l \in {x \in loc : x.n \in Table /\ x.s # Ltc}, d \in Server :
      /\ MayStart(t, "replicate")
      /\ d # l.s /\ ~Used(l.n, d)
      /\ Start(t, [op |-> "replicate", n |-> l.n, s |-> l.s, d |-> d], {l.s}, l.fid)

StartQuery(t) ==
    /\ MayStart(t, "other")
    /\ \E q \in Queries, d \in Server \ {Ltc} : Start(t, [op |-> "other", q |-> q], {d}, 0)

(* One Initiate call of the operation of t, on the StoC s.                 *)
InitiateAppendBlock(t, s) ==
    LET op == thr[t].op
        id == FileId(s, op.n)
        off == Len(OpenStoCFile(s, op.n)[id].mem)
        f == MarkOffsetAsWritten(WriteMem(AllocateBuf(OpenStoCFile(s, op.n)[id]), off, op.b), off)
    IN /\ op.op = "append"
       /\ IF s = Ltc
          THEN /\ file' = [file EXCEPT ![s] = [OpenStoCFile(s, op.n) EXCEPT ![id] = PersistNow(f)]]
               /\ fnmap' = MapStoCFile(s, op.n)
               /\ sem' = [sem EXCEPT ![t] = @ + 1]
               /\ resp' = [resp EXCEPT ![t] = @ \cup
                             {[s |-> s, fid |-> id, off |-> PersistNow(f).entry.off]}]
               /\ UNCHANGED h
          ELSE /\ h' = AddAsyncTask(Ltc, [k |-> "append", d |-> s, own |-> t, id |-> NoReq,
                                          arg |-> [n |-> op.n, b |-> op.b]])
               /\ UNCHANGED <<file, fnmap, sem, resp>>
       /\ UNCHANGED failed

InitiateReadDataBlock(t, s) ==
    LET op == thr[t].op
        f == file[s][thr[t].fid]
    IN /\ op.op = "read"
       /\ IF s = Ltc
          THEN /\ sem' = [sem EXCEPT ![t] = @ + 1]
               /\ failed' = failed \cup Assertion(f.open /\ (f.table => f.sealed), "read")
               /\ UNCHANGED h
          ELSE /\ h' = AddAsyncTask(Ltc, [k |-> "read", d |-> s, own |-> t, id |-> NoReq,
                                          arg |-> [fid |-> thr[t].fid, off |-> op.i - 1]])
               /\ UNCHANGED <<sem, failed>>
       /\ UNCHANGED <<file, fnmap, resp>>

(* The LTC asserts that it replicates from another server only.            *)
InitiateReplicateSSTables(t, s) ==
    LET op == thr[t].op
    IN /\ op.op = "replicate"
       /\ h' = AddAsyncTask(Ltc, [k |-> "replicate", d |-> s, own |-> t, id |-> NoReq,
                                  arg |-> [n |-> op.n, fid |-> thr[t].fid, d |-> op.d]])
       /\ UNCHANGED <<file, fnmap, sem, resp, failed>>

InitiateOther(t, s) ==
    /\ thr[t].op.op = "other"
    /\ h' = AddAsyncTask(Ltc, [k |-> thr[t].op.q, d |-> s, own |-> t, id |-> NoReq, arg |-> None])
    /\ UNCHANGED <<file, fnmap, sem, resp, failed>>

Initiate(t) ==
    /\ \E s \in thr[t].todo :
         /\ \A r \in thr[t].todo : s <= r
         /\ \/ InitiateAppendBlock(t, s) \/ InitiateReadDataBlock(t, s)
            \/ InitiateReplicateSSTables(t, s) \/ InitiateOther(t, s)
         /\ thr' = [thr EXCEPT ![t].todo = @ \ {s}, ![t].wait = @ + 1,
                               ![t].buf = IF thr[t].op.op = "read" /\ s = Ltc
                                          THEN ReadDataBlock(file[s][thr[t].fid],
                                                             thr[t].op.i - 1)
                                          ELSE @]
    /\ UNCHANGED <<wk, loc, doomed, got>>

(* Wait() once per request, then IsDone and the handles of each response.  *)
Returned(t) ==
    LET op == thr[t].op
    IN /\ op # Idle /\ thr[t].todo = {}
       /\ sem[t] >= thr[t].wait
       /\ sem' = [sem EXCEPT ![t] = @ - thr[t].wait]
       /\ resp' = [resp EXCEPT ![t] = {}]
       /\ loc' = IF op.op \in {"append", "replicate"}
                 THEN loc \cup {[n |-> op.n, s |-> r.s, fid |-> r.fid, off |-> r.off] : r \in resp[t]}
                 ELSE loc
       /\ failed' = failed \cup Assertion(op.op = "append" => {r.s : r \in resp[t]} = op.to, "response")
       /\ got' = IF op.op = "read" THEN [got EXCEPT ![t] = thr[t].buf] ELSE got
       /\ thr' = [thr EXCEPT ![t].op = Idle, ![t].wait = 0]
       /\ UNCHANGED <<h, file, fnmap, wk, doomed>>

(* InitiateDeleteTables of a table on s, with its metadata block.  Version *)
(* reference counts keep the LTC from deleting what it still reads or      *)
(* writes.  On the LTC's own server the name of the data file stays in     *)
(* fn_stoc_file_map_.                                                      *)
InitiateDeleteTables(t, n, s) ==
    LET N == {n, MetaOf[n]}
    IN /\ MayStart(t, "delete")
       /\ \E l \in loc : l.n = n /\ l.s = s
       /\ \A u \in Thread :
            /\ thr[u].op.op = "read" => thr[u].op.s # s \/ thr[u].op.n \notin N
            /\ thr[u].op.op = "append" => thr[u].op.n \notin N
       /\ loc' = {l \in loc : l.s # s \/ l.n \notin N}
       /\ doomed' = doomed \cup (N \X {s})
       /\ thr' = [thr EXCEPT ![t].n = @ + 1]
       /\ IF s = Ltc
          THEN LET ids == Named(s, n)
               IN /\ file' = [file EXCEPT ![s] = CloseFiles(DeleteFiles(s, ids), Closing(s, ids))]
                  /\ fnmap' = [fnmap EXCEPT ![s][MetaOf[n]] = 0]
                  /\ UNCHANGED h
          ELSE /\ h' = AddAsyncTask(Ltc, [k |-> "delete", d |-> s, own |-> None, id |-> NoReq,
                                          arg |-> [n |-> n]])
               /\ UNCHANGED <<file, fnmap>>
       /\ UNCHANGED <<wk, sem, resp, got, failed>>

-----------------------------------------------------------------------------
(* The handler as a client: StoCRDMAClient.  Request ids of different      *)
(* servers are disjoint (NICServer), and wrap within a server's range.     *)

ReqId(s, k) == <<s, k>>
IncrementReqId(k) == IF k = MaxReqId THEN 1 ELSE k + 1

(* One request more than there are send buffers is admitted.               *)
CanIssueOneMore(st, d) == st.adm[d] <= MaxSends

(* CanIssueRequest counts the request; the broker posts the work request   *)
(* in the next slot of the circular send buffer.                           *)
CanIssueRequest(st, d) == st.adm[d] < MaxSends
Posted(st, d, wr) == [st EXCEPT !.adm[d] = @ + 1, !.sq[d] = Append(@, wr)]

(* Second halves of two exchanges: an RDMA WRITE with the id as immediate. *)
Answers == {"alloc_ok", "buf_ok"}

PostAnswer(st, task) ==
    [Posted(st, task.d, [op |-> "WRITE", hdr |-> task.k, id |-> task.id, arg |-> task.arg])
       EXCEPT !.pend = Append(@, [id |-> task.id, own |-> task.own])]

(* InitiateDeleteTables of the RDMA client: no context, nobody waits.      *)
PostDelete(s, st, task) ==
    [Posted(st, task.d, [op |-> "SEND", hdr |-> "delete", id |-> ReqId(s, st.k), arg |-> task.arg])
       EXCEPT !.k = IncrementReqId(@), !.pend = Append(@, [id |-> NoReq, own |-> task.own])]

(* The other Initiate calls: a message, and a context until it is done; a  *)
(* read sends the address where the answer is to be written.               *)
PostRequest(s, st, task) ==
    LET id == ReqId(s, st.k)
        arg == IF task.k = "read" THEN task.arg @@ [mr |-> task.own] ELSE task.arg
    IN [Posted(st, task.d, [op |-> "SEND", hdr |-> task.k, id |-> id, arg |-> arg])
          EXCEPT !.k = IncrementReqId(@),
                 !.ctx = (id :> [k |-> task.k, done |-> FALSE, arg |-> task.arg, handles |-> {}]) @@ @,
                 !.pend = Append(@, [id |-> id, own |-> task.own])]

Issued(s, st, task) ==
    CASE task.k \in Answers -> PostAnswer(st, task)
      [] task.k = "delete" -> PostDelete(s, st, task)
      [] OTHER -> PostRequest(s, st, task)

(* A request that is not admitted is not kept.                             *)
IssueRequestOnce(s, st, task) ==
    IF CanIssueRequest(st, task.d) THEN Issued(s, st, task) ELSE st

IssueRequest(s, st, task) ==
    IF CanIssueRequest(st, task.d) THEN Issued(s, st, task) ELSE [st EXCEPT !.priv = Append(@, task)]

(* ProcessRequestQueue: wake up the owners of finished requests, then      *)
(* issue the queued ones that are admitted.                                *)
IsDone(ctx, id) == id = NoReq \/ id \notin DOMAIN ctx \/ ctx[id].done

Wake(a, e) ==
    IF ~IsDone(a.ctx, e.id) THEN [a EXCEPT !.pend = Append(@, e)]
    ELSE LET found == e.id \in DOMAIN a.ctx
         IN [a EXCEPT !.ctx = IF found THEN [i \in DOMAIN @ \ {e.id} |-> @[i]] ELSE @,
                      !.sem = IF e.own = None THEN @ ELSE [@ EXCEPT ![e.own] = @ + 1],
                      !.resp = IF found THEN [@ EXCEPT ![e.own] = @ \cup a.ctx[e.id].handles]
                               ELSE @]

ProcessRequestQueue(s) ==
    LET woken == FoldLeft(Wake, [ctx |-> h[s].ctx, pend |-> <<>>, sem |-> sem, resp |-> resp],
                          h[s].pend)
        st == [h[s] EXCEPT !.ctx = woken.ctx, !.pend = woken.pend, !.pub = <<>>, !.priv = <<>>]
    IN /\ h[s].closing = {}
       /\ h' = [h EXCEPT ![s] = FoldLeft(LAMBDA a, task : IssueRequest(s, a, task), st,
                                         h[s].priv \o h[s].pub)]
       /\ h' # h
       /\ sem' = woken.sem
       /\ resp' = woken.resp
       /\ UNCHANGED <<file, fnmap, wk, thr, loc, doomed, got, failed>>

(* OnRecv, the answers that end a request or, for an RDMA WRITE, start its *)
(* second half.                                                            *)
OnAnswer(st, d, m) ==
    CASE m.t = "buf_resp" ->
           [st |-> [st EXCEPT !.priv = Append(@, [k |-> "buf_ok", d |-> d, own |-> None,
                                                  id |-> m.id, arg |-> None])],
            processed |-> TRUE]
      [] m.t \in {"persist_resp", "replicate_resp"} ->
           [st |-> [st EXCEPT !.ctx[m.id].done = TRUE, !.ctx[m.id].handles = m.arg],
            processed |-> TRUE]
      [] m.t = "query_resp" ->
           [st |-> [st EXCEPT !.ctx[m.id].done = TRUE], processed |-> TRUE]
      [] OTHER -> [st |-> st, processed |-> FALSE]

(* OnRecv: what the client side does with a received message.              *)
OnRecv(st, d, m) ==
    CASE m.id \notin DOMAIN st.ctx -> [st |-> st, processed |-> FALSE]
      [] m.id \in DOMAIN st.ctx /\ m.t = "append_resp" ->
           [st |-> [st EXCEPT !.priv = Append(@, [k |-> "alloc_ok", d |-> d, own |-> None, id |-> m.id,
                                                  arg |-> m.arg @@ [b |-> st.ctx[m.id].arg.b]])],
            processed |-> TRUE]
      [] m.id \in DOMAIN st.ctx /\ m.t # "append_resp" /\ st.ctx[m.id].k = "read" ->
           [st |-> [st EXCEPT !.ctx[m.id].done = TRUE], processed |-> TRUE]
      [] OTHER -> OnAnswer(st, d, m)

-----------------------------------------------------------------------------
(* The handler as a server: RDMAServerImpl.                                *)

AddStorageTask(w, task) == wk' = [wk EXCEPT ![w].q = Append(@, task)]

(* A write announced by its immediate: the buffer holds the block.         *)
ServeWritten(s, d, m, st) ==
    LET c == st.sctx[<<d, m.id>>]
    IN /\ <<d, m.id>> \in DOMAIN st.sctx
       /\ h' = [h EXCEPT ![s] = [st EXCEPT !.sctx = [i \in DOMAIN @ \ {<<d, m.id>>} |-> @[i]]]]
       /\ IF c.k = "append"
          THEN /\ file' = [file EXCEPT ![s][c.fid] = MarkOffsetAsWritten(@, c.off)]
               /\ AddStorageTask(<<s, "bg">>, [k |-> "persist", d |-> d, id |-> m.id,
                                               arg |-> [fid |-> c.fid]])
          ELSE UNCHANGED <<file, wk>>
       /\ UNCHANGED fnmap

ServeDelete(s, d, m, st) ==
    LET ids == Named(s, m.arg.n)
    IN /\ m.t = "delete"
       /\ file' = [file EXCEPT ![s] = DeleteFiles(s, ids)]
       /\ fnmap' = [fnmap EXCEPT ![s] = [n \in Name |->
                      IF n \in {m.arg.n, MetaOf[m.arg.n]} THEN 0 ELSE @[n]]]
       /\ h' = [h EXCEPT ![s] = [st EXCEPT !.closing = Closing(s, ids)]]
       /\ UNCHANGED wk

ServeRead(s, d, m, st) ==
    /\ m.t = "read"
    /\ \E p \in {"fg", "bg"} : AddStorageTask(<<s, p>>, [k |-> "read", d |-> d, id |-> m.id, arg |-> m.arg])
    /\ h' = [h EXCEPT ![s] = [st EXCEPT !.nbuf = @ + 1]]
    /\ UNCHANGED <<file, fnmap>>

ServeAppend(s, d, m, st) ==
    LET n == m.arg.n
        id == FileId(s, n)
        fs == OpenStoCFile(s, n)
        off == Len(fs[id].mem)
    IN /\ m.t = "append"
       /\ file' = [file EXCEPT ![s] = [fs EXCEPT ![id] = AllocateBuf(@)]]
       /\ fnmap' = MapStoCFile(s, n)
       /\ h' = [h EXCEPT ![s] =
                  [st EXCEPT !.pcq = Append(@, [k |-> "append", d |-> d, id |-> m.id,
                                                arg |-> [fid |-> id, off |-> off]]),
                             !.sctx = (<<d, m.id>> :> [k |-> "append", fid |-> id, off |-> off]) @@ @]]
       /\ UNCHANGED wk

(* Statistics, readiness and file-name mappings are answered at once; an   *)
(* RDMA WRITE request gets a buffer.                                       *)
ServeQuery(s, d, m, st) ==
    /\ m.t \in Queries
    /\ h' = [h EXCEPT ![s] =
               [st EXCEPT !.pcq = Append(@, [k |-> m.t, d |-> d, id |-> m.id, arg |-> None]),
                          !.sctx = IF m.t = "rdmawrite"
                                   THEN (<<d, m.id>> :> [k |-> "rdmawrite"]) @@ @ ELSE @]]
    /\ UNCHANGED <<file, fnmap, wk>>

ServeReplicate(s, d, m, st) ==
    /\ m.t = "replicate"
    /\ AddStorageTask(<<s, "cp">>, [k |-> "replicate", d |-> d, id |-> m.id, arg |-> m.arg])
    /\ h' = [h EXCEPT ![s] = st]
    /\ UNCHANGED <<file, fnmap>>

(* PollRQ: the client side sees every message first, then the server side. *)
PollRQ(s, d) ==
    LET m == Head(h[s].rq[d])
        c == OnRecv(h[s], d, m)
        st == [c.st EXCEPT !.rq[d] = Tail(@)]
        served == m.t \in {"delete", "read", "append", "replicate"} \cup Queries
                  \/ <<d, m.id>> \in DOMAIN st.sctx
    IN /\ h[s].closing = {}
       /\ h[s].rq[d] # <<>>
       /\ \/ ServeWritten(s, d, m, st) \/ ServeDelete(s, d, m, st) \/ ServeRead(s, d, m, st)
          \/ ServeAppend(s, d, m, st) \/ ServeQuery(s, d, m, st) \/ ServeReplicate(s, d, m, st)
          \/ ~served /\ h' = [h EXCEPT ![s] = st] /\ UNCHANGED <<file, fnmap, wk>>
       /\ failed' = failed \cup Assertion(~(c.processed /\ served), "processed by both")
       /\ UNCHANGED <<sem, resp, thr, loc, doomed, got>>

(* The end of DeleteSSTable, outside the file's lock.                      *)
CloseDeleted(s) ==
    /\ h[s].closing # {}
    /\ file' = [file EXCEPT ![s] = CloseFiles(@, h[s].closing)]
    /\ h' = [h EXCEPT ![s].closing = {}]
    /\ UNCHANGED <<fnmap, wk, sem, resp, thr, loc, doomed, got, failed>>

(* What is posted for a completed task.                                    *)
Response(c) ==
    CASE c.k = "append"    -> [op |-> "SEND", hdr |-> "append_resp", id |-> c.id, arg |-> c.arg]
      [] c.k = "persist"   -> [op |-> "SEND", hdr |-> "persist_resp", id |-> c.id, arg |-> c.arg]
      [] c.k = "replicate" -> [op |-> "SEND", hdr |-> "replicate_resp", id |-> c.id, arg |-> c.arg]
      [] c.k = "read"      -> [op |-> "WRITE", hdr |-> "read", id |-> c.id, arg |-> c.arg]
      [] c.k = "rdmawrite" -> [op |-> "SEND", hdr |-> "buf_resp", id |-> c.id, arg |-> None]
      [] OTHER             -> [op |-> "SEND", hdr |-> "query_resp", id |-> c.id, arg |-> None]

Respond(st, c) ==
    IF CanIssueRequest(st, c.d) THEN Posted(st, c.d, Response(c))
    ELSE [st EXCEPT !.pcq = Append(@, c)]

ProcessCompletionQueue(s) ==
    /\ h[s].closing = {}
    /\ h' = [h EXCEPT ![s] = FoldLeft(Respond, [h[s] EXCEPT !.cq = <<>>, !.pcq = <<>>],
                                      h[s].pcq \o h[s].cq)]
    /\ h' # h
    /\ UNCHANGED <<file, fnmap, wk, sem, resp, thr, loc, doomed, got, failed>>

-----------------------------------------------------------------------------
(* The queue pairs (external), and the completions the handler polls.      *)

Deliver(s, d) ==
    LET i == h[s].dlv[d] + 1
        wr == h[s].sq[d][i]
        m == [t |-> IF wr.op = "SEND" THEN wr.hdr ELSE "imm", id |-> wr.id,
              arg |-> IF wr.op = "SEND" THEN wr.arg ELSE None]
    IN /\ i <= Len(h[s].sq[d])
       /\ Len(h[d].rq[s]) < MaxSends
       /\ h' = [h EXCEPT ![s].dlv[d] = i, ![d].rq[s] = Append(@, m)]
       /\ file' = IF wr.hdr = "alloc_ok"
                  THEN [file EXCEPT ![d][wr.arg.fid] = WriteMem(@, wr.arg.off, wr.arg.b)]
                  ELSE file
       /\ thr' = IF wr.op = "WRITE" /\ wr.hdr = "read"
                 THEN [thr EXCEPT ![wr.arg.mr].buf = wr.arg.b] ELSE thr
       /\ UNCHANGED <<fnmap, wk, sem, resp, loc, doomed, got, failed>>

(* PollSQ: a completion frees its slot and its admission; a completed WRITE*)
(* of read blocks frees the buffer, one of migrated state ends the request.*)
PollSQ(s, d) ==
    LET wr == Head(h[s].sq[d])
        st == [h[s] EXCEPT !.sq[d] = Tail(@), !.dlv[d] = @ - 1, !.adm[d] = @ - 1]
        ends == wr.op = "WRITE" /\ wr.hdr = "buf_ok"
    IN /\ h[s].closing = {}
       /\ h[s].dlv[d] > 0
       /\ h' = [h EXCEPT ![s] =
                  CASE wr.op = "WRITE" /\ wr.hdr = "read" -> [st EXCEPT !.nbuf = @ - 1]
                    [] ends /\ wr.id \in DOMAIN st.ctx -> [st EXCEPT !.ctx[wr.id].done = TRUE]
                    [] OTHER -> st]
       /\ failed' = failed \cup Assertion(ends => wr.id \in DOMAIN st.ctx, "write context")
       /\ UNCHANGED <<file, fnmap, wk, sem, resp, thr, loc, doomed, got>>

-----------------------------------------------------------------------------
(* The storage workers.  A worker takes its whole queue and hands over the *)
(* completions when it has done all of it.                                 *)

Completes(w, arg) ==
    LET task == Head(wk[w].batch)
    IN [wk EXCEPT ![w].batch = Tail(@), ![w].pc = "task", ![w].tmp = <<>>,
                  ![w].done = Append(@, [k |-> task.k, d |-> task.d, id |-> task.id, arg |-> arg])]

TakeTasks(w) ==
    /\ wk[w].pc = "idle" /\ wk[w].q # <<>>
    /\ wk' = [wk EXCEPT ![w].pc = "task", ![w].batch = wk[w].q, ![w].q = <<>>]
    /\ UNCHANGED <<h, file, fnmap, sem, resp, thr, loc, doomed, got, failed>>

Doing(w, k) == wk[w].pc = "task" /\ wk[w].batch # <<>> /\ Head(wk[w].batch).k = k

WorkerRead(w) ==
    LET a == Head(wk[w].batch).arg
        f == file[w[1]][a.fid]
    IN /\ Doing(w, "read")
       /\ wk' = Completes(w, [mr |-> a.mr, b |-> ReadDataBlock(f, a.off)])
       /\ failed' = failed \cup Assertion(f.open /\ (f.table => f.sealed), "read")
       /\ UNCHANGED <<h, file, fnmap, sem, resp, thr, loc, doomed, got>>

PersistBegin(w) ==
    LET fid == Head(wk[w].batch).arg.fid
    IN /\ Doing(w, "persist")
       /\ file' = [file EXCEPT ![w[1]][fid] = PersistTake(@)]
       /\ wk' = [wk EXCEPT ![w].pc = "persist", ![w].tmp = file'[w[1]][fid].wmem]
       /\ UNCHANGED <<h, fnmap, sem, resp, thr, loc, doomed, got, failed>>

PersistWrite(w) ==
    LET fid == Head(wk[w].batch).arg.fid
        run == FirstRun(wk[w].tmp)
    IN /\ wk[w].pc = "persist" /\ wk[w].tmp # <<>>
       /\ file' = [file EXCEPT ![w[1]][fid] = PersistDone(PersistRun(@, run), run)]
       /\ wk' = [wk EXCEPT ![w].tmp = SubSeq(@, Len(run) + 1, Len(@))]
       /\ UNCHANGED <<h, fnmap, sem, resp, thr, loc, doomed, got, failed>>

(* The end of Persist, then Handle and ForceSeal.                          *)
PersistFinish(w) ==
    LET s == w[1]
        fid == Head(wk[w].batch).arg.fid
        f == PersistEnd(file[s][fid], file[s][fid].wmem)
    IN /\ wk[w].pc = "persist" /\ wk[w].tmp = <<>>
       /\ file' = [file EXCEPT ![s][fid] = IF f.table THEN ForceSeal(f) ELSE f]
       /\ wk' = Completes(w, {[s |-> s, fid |-> fid, off |-> f.entry.off]})
       /\ failed' = failed \cup Assertion(f.entry # NoEntry, "handle")
       /\ UNCHANGED <<h, fnmap, sem, resp, thr, loc, doomed, got>>

(* ReplicateSSTables: read the file, unless it is deleted, and append it   *)
(* to the destination.                                                     *)
ReplicateBegin(w) ==
    LET a == Head(wk[w].batch).arg
        gone == file[w[1]][a.fid].deleted
    IN /\ Doing(w, "replicate")
       /\ file' = IF gone THEN file ELSE [file EXCEPT ![w[1]][a.fid] = StartReplicationRead(@)]
       /\ wk' = IF gone THEN Completes(w, {}) ELSE [wk EXCEPT ![w].pc = "reading"]
       /\ UNCHANGED <<h, fnmap, sem, resp, thr, loc, doomed, got, failed>>

ReplicateRead(w) ==
    LET f == file[w[1]][Head(wk[w].batch).arg.fid]
    IN /\ wk[w].pc = "reading"
       /\ wk' = [wk EXCEPT ![w].pc = "read", ![w].tmp = <<ReadDataBlock(f, 0)>>]
       /\ failed' = failed \cup Assertion(f.open, "replicate")
       /\ UNCHANGED <<h, file, fnmap, sem, resp, thr, loc, doomed, got>>

ReplicateAppend(w) ==
    LET s == w[1]
        a == Head(wk[w].batch).arg
        f == EndReplicationRead(file[s][a.fid])
    IN /\ wk[w].pc = "read"
       /\ file' = [file EXCEPT ![s][a.fid] = f]
       /\ IF f.deleted
          THEN wk' = Completes(w, {}) /\ UNCHANGED h
          ELSE /\ h' = AddAsyncTask(s, [k |-> "append", d |-> a.d, own |-> w, id |-> NoReq,
                                        arg |-> [n |-> a.n, b |-> wk[w].tmp[1]]])
               /\ wk' = [wk EXCEPT ![w].pc = "replicating", ![w].tmp = <<>>]
       /\ UNCHANGED <<fnmap, sem, resp, thr, loc, doomed, got, failed>>

ReplicateEnd(w) ==
    /\ wk[w].pc = "replicating" /\ sem[w] > 0
    /\ sem' = [sem EXCEPT ![w] = @ - 1]
    /\ resp' = [resp EXCEPT ![w] = {}]
    /\ wk' = Completes(w, resp[w])
    /\ failed' = failed \cup Assertion(Cardinality(resp[w]) = 1, "replication response")
    /\ UNCHANGED <<h, file, fnmap, thr, loc, doomed, got>>

AddCompleteTasks(w) ==
    /\ wk[w].pc = "task" /\ wk[w].batch = <<>>
    /\ h' = [h EXCEPT ![w[1]].cq = @ \o wk[w].done]
    /\ wk' = [wk EXCEPT ![w].pc = "idle", ![w].done = <<>>]
    /\ UNCHANGED <<file, fnmap, sem, resp, thr, loc, doomed, got, failed>>

WorkerStep(w) ==
    \/ TakeTasks(w) \/ WorkerRead(w) \/ PersistBegin(w) \/ PersistWrite(w) \/ PersistFinish(w)
    \/ ReplicateBegin(w) \/ ReplicateRead(w) \/ ReplicateAppend(w) \/ ReplicateEnd(w)
    \/ AddCompleteTasks(w)

HandlerStep(s) ==
    \/ ProcessRequestQueue(s) \/ ProcessCompletionQueue(s) \/ CloseDeleted(s)
    \/ \E d \in Server \ {s} : PollRQ(s, d) \/ PollSQ(s, d)

ThreadStep(t) ==
    \/ StartAppend(t) \/ StartRead(t) \/ StartReplicate(t) \/ StartQuery(t)
    \/ Initiate(t) \/ Returned(t)
    \/ \E n \in Table, s \in Server : InitiateDeleteTables(t, n, s)

(* Nothing is queued, posted, received or being worked on.                 *)
Quiet ==
    /\ \A s \in Server :
         /\ h[s].pub = <<>> /\ h[s].priv = <<>> /\ h[s].cq = <<>> /\ h[s].pcq = <<>>
         /\ h[s].closing = {}
         /\ \A d \in Server : h[s].sq[d] = <<>> /\ h[s].rq[d] = <<>>
         /\ \A i \in 1..Len(h[s].pend) : ~IsDone(h[s].ctx, h[s].pend[i].id)
    /\ \A w \in Worker : wk[w].pc = "idle" /\ wk[w].q = <<>>

(* All calls have returned and there is nothing left to do.                *)
Stopped ==
    /\ Quiet
    /\ \A t \in Thread : thr[t].op = Idle
    /\ UNCHANGED vars

MaxOps == 2   \* no script is longer

Next ==
  /\ UNCHANGED script
  /\ \/ \E t \in Thread : ThreadStep(t)
     \/ \E s \in Server : HandlerStep(s)
     \/ \E w \in Worker : WorkerStep(w)
     \/ \E s, d \in Server : s # d /\ Deliver(s, d)
     \/ Stopped

Spec == Init /\ [][Next]_vars

-----------------------------------------------------------------------------
(* Properties.                                                             *)

DiskOf(s, n) ==
    LET ids == {i \in 1..Len(file[s]) : file[s][i].name = n /\ file[s][i].linked}
    IN IF ids = {} THEN <<>> ELSE file[s][CHOOSE i \in ids : TRUE].disk

Calls == [t \in Thread |-> IF thr[t].op.op = "other" THEN [op |-> "other"] ELSE thr[t].op]

Store == INSTANCE BlockStore WITH
    Block <- Thread \X (0..MaxOps),
    store <- [s \in Server |-> [n \in Name |-> DiskOf(s, n)]],
    call <- Calls

(* The whole request path implements the abstract block store: when an     *)
(* append returns its block is on the disk of every StoC it was sent to, a *)
(* read returns the block that was appended at its handle, a replica is a  *)
(* copy of its source, and only requested deletions remove a file.         *)
StoreStep == [Store!Next]_(Store!bsVars)
ImplementsBlockStore == Store!Init /\ [][StoreStep]_vars

(* None of the NOVA_ASSERTs of StoCPersistentFile, StorageWorker,          *)
(* RDMAMsgHandler and StoCRDMAClient that the model keeps ever fails: no   *)
(* file is used after it is closed, sealed with unflushed bytes, or given  *)
(* a second block of the same table, and no message is taken both for a    *)
(* request and for a response.                                             *)
StoCAssertions ==
    /\ failed = {}
    /\ \A s \in Server : \A i \in 1..Len(file[s]) : file[s][i].bad = {}

(* Buffers are conserved.  The circular send buffer of a queue pair never  *)
(* overflows although requests and responses share it, and each buffer a   *)
(* StoC allocates for a read is held by exactly one of its task, its       *)
(* completion and its posted WRITE until it is freed.                      *)
ReadsHeld(q) == Cardinality({i \in 1..Len(q) : q[i].k = "read"})
ReadsPosted(q) == Cardinality({i \in 1..Len(q) : q[i].op = "WRITE" /\ q[i].hdr = "read"})
SumOver(S, F(_)) == FoldFunction(LAMBDA a, b : a + b, 0, [x \in S |-> F(x)])
BuffersConserved ==
    \A s \in Server :
      /\ \A d \in Server : h[s].adm[d] = Len(h[s].sq[d]) /\ h[s].adm[d] <= MaxSends
      /\ h[s].nbuf = ReadsHeld(h[s].cq) + ReadsHeld(h[s].pcq)
                     + SumOver(Server, LAMBDA d : ReadsPosted(h[s].sq[d]))
                     + SumOver(Pool, LAMBDA p : ReadsHeld(wk[<<s, p>>].q)
                                                + ReadsHeld(wk[<<s, p>>].batch)
                                                + ReadsHeld(wk[<<s, p>>].done))

(* No call is lost: while a caller waits for its semaphore, its request is *)
(* still queued, in flight or being worked on somewhere, although requests *)
(* that are not admitted are skipped and completions handed over in        *)
(* batches.  With no state in which a queue cannot move (a deadlock of the *)
(* model), every call of a StoCBlockClient returns.                        *)
NoLostCall ==
    Quiet => \A t \in Thread :
               thr[t].op # Idle /\ thr[t].todo = {} => sem[t] >= thr[t].wait
=============================================================================
