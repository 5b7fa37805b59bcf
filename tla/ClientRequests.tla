--------------------------- MODULE ClientRequests ---------------------------
(***************************************************************************)
(* Client connections of an LTC: the acceptor, one NICClientReqWorker with *)
(* its event loop, its request and reply buffers, which all connections of *)
(* the worker share, and the handlers of get, put, scan, configuration and *)
(* administration requests.                                                *)
(*                                                                         *)
(* A request and a reply are two pieces, the second ending in the message  *)
(* terminator; a client waits for its reply before its next request.  The  *)
(* shared buffers are sound in two regimes, and mode is one of them: one   *)
(* connection whose messages arrive and leave in pieces, or several whose  *)
(* messages are whole.  Databases are the keys of the local fragments;     *)
(* gets, puts and scans of one fragment are atomic (see LsmReadPath).      *)
(***************************************************************************)
EXTENDS Naturals, Sequences, FiniteSets, SequencesExt

CONSTANTS
    Clients,          \* connections
    Fragments,        \* configuration id -> sequence of [lo, hi, server]
    Loaded,           \* the keys loaded
    Values,
    OtherKeys,        \* the keys that clients of other workers put
    MaxRequests,      \* requests of all clients
    MaxScan           \* records of a scan

VARIABLES
    mode,             \* "pieces" or "whole"
    cfg_id,           \* current_cfg_id
    ready,            \* the fragments <<cfg, i>> with is_ready_
    complete,         \* those with is_complete_
    kv,               \* the databases: key -> value
    cl,               \* the clients
    sock,             \* pieces received and not read, of each connection
    conn_queue, conns,
    request_buf,      \* of the worker; req_ind is its length
    job,              \* the request the worker is at, or none
    cn,               \* the connections: [state, ind, reply]
    rdma,             \* an RDMA thread: [should_pause, paused, sem, pc, closing]
    requests

clientVars == <<mode, cfg_id, ready, complete, kv, cl, sock, conn_queue, conns,
                request_buf, job, cn, rdma, requests>>

Me == 1
NoJob == [conn |-> "none"]
KeysOf(f) == {k \in Loaded : f.lo <= k /\ k < f.hi}
Frags(c) == Fragments[c]

RECURSIVE HomeBetween(_, _, _, _)
(* home_fragment: the index of the fragment of a key, by binary search; 0  *)
(* if there is none.                                                       *)
HomeBetween(c, k, l, r) ==
    LET m == l + (r - l) \div 2
    IN IF l > r THEN 0
       ELSE IF k >= Frags(c)[m].lo /\ k < Frags(c)[m].hi THEN m
       ELSE IF k >= Frags(c)[m].hi THEN HomeBetween(c, k, m + 1, r)
       ELSE HomeBetween(c, k, l, m - 1)

Home(c, k) == HomeBetween(c, k, 1, Len(Frags(c)))
Local(c, k) == Home(c, k) # 0 /\ Frags(c)[Home(c, k)].server = Me

(***************************************************************************)
(* Clients.                                                                *)
(***************************************************************************)
DataTypes == {"get", "put", "scan"}

Request(type, c, k, v) == [type |-> type, cfg |-> c, key |-> k, arg |-> v]

(* What a client may ask, knowing configuration c: a client sends a key to *)
(* its home, and gets only keys that were loaded.                          *)
Requests(c) ==
    LET mine == {k \in Loaded : Local(c, k)}
    IN {Request("get", c, k, 0) : k \in mine}
         \cup {Request("put", c, k, v) : k \in mine, v \in Values}
         \cup {Request("scan", c, k, MaxScan) : k \in mine}
         \cup {Request(t, c, 0, 0) : t \in {"query", "reinit", "close"}}

NoRequest == Request("none", 0, 0, 0)
NotWaiting == [k \in Loaded |-> {}]

(* Closing the StoC files is the last thing a server is asked.             *)
Closing == rdma.closing

MaySend(c) == cl[c].st = "idle" /\ requests < MaxRequests /\ ~Closing

Send(c, r) ==
    /\ r.type = "reinit" => \A d \in Clients : cl[d].st = "idle"
    /\ \A d \in Clients : cl[d].st # "idle" => cl[d].req.type # "reinit"
    /\ requests' = requests + 1
    /\ cl' = [cl EXCEPT ![c] = [@ EXCEPT !.st = "wait", !.req = r, !.got = <<>>,
                                         !.seen = [k \in Loaded |-> {kv[k]}]]]
    /\ sock' = [sock EXCEPT ![c] = IF mode = "whole" THEN <<[req |-> r, part |-> 1],
                                                            [req |-> r, part |-> 2]>>
                                   ELSE <<[req |-> r, part |-> 1]>>]
    /\ UNCHANGED <<mode, cfg_id, ready, complete, kv, conn_queue, conns, request_buf, job,
                   cn, rdma>>

(* The second piece of a message arrives.                                  *)
Arrive(c) ==
    /\ mode = "pieces" /\ cl[c].st = "wait" /\ ~cl[c].sent
    /\ cl' = [cl EXCEPT ![c].sent = TRUE]
    /\ sock' = [sock EXCEPT ![c] = Append(@, [req |-> cl[c].req, part |-> 2])]
    /\ UNCHANGED <<mode, cfg_id, ready, complete, kv, conn_queue, conns, request_buf, job,
                   cn, rdma, requests>>

(* The client has its reply and learns of the server's configuration.      *)
Receive(c) ==
    /\ cl[c].st = "wait" /\ Len(cl[c].got) = 2
    /\ cl' = [cl EXCEPT ![c] = [@ EXCEPT !.st = "idle", !.sent = FALSE, !.got = <<>>,
                                         !.req = NoRequest, !.seen = NotWaiting,
                                         !.cfg = IF cl[c].got[1].reply.type \in DataTypes
                                                 THEN cl[c].got[1].reply.cfg ELSE @]]
    /\ UNCHANGED <<mode, cfg_id, ready, complete, kv, sock, conn_queue, conns, request_buf,
                   job, cn, rdma, requests>>

(***************************************************************************)
(* Connections: on_accept queues the descriptor, new_conn_handler makes    *)
(* the connections of all queued descriptors.  A client connects to send   *)
(* its first request.                                                      *)
(***************************************************************************)
NewConnection == [state |-> "READ", ind |-> 0, reply |-> NoJob]

OnAccept(c) ==
    /\ cl[c].st = "wait" /\ c \notin conns /\ c \notin ToSet(conn_queue)
    /\ conn_queue' = Append(conn_queue, c)
    /\ UNCHANGED <<mode, cfg_id, ready, complete, kv, cl, sock, conns, request_buf, job, cn,
                   rdma, requests>>

NewConnHandler ==
    /\ job = NoJob /\ conn_queue # <<>>
    /\ conns' = conns \cup ToSet(conn_queue)
    /\ cn' = [c \in Clients |-> IF c \in ToSet(conn_queue) THEN NewConnection ELSE cn[c]]
    /\ conn_queue' = <<>>
    /\ UNCHANGED <<mode, cfg_id, ready, complete, kv, cl, sock, request_buf, job, rdma, requests>>

(***************************************************************************)
(* Reading a request.                                                      *)
(***************************************************************************)
Terminated(pieces) == pieces # <<>> /\ pieces[Len(pieces)].part = 2

(* The request is parsed from the start of the buffer; its configuration   *)
(* is compared with the current one, which the job keeps.                  *)
Dispatch(c, pieces) ==
    LET r == pieces[1].req
    IN [conn |-> c, req |-> r, cfg |-> cfg_id,
        pc |-> IF r.type \in DataTypes /\ r.cfg # cfg_id THEN "stale"
               ELSE IF r.type = "scan" THEN "scan"
               ELSE IF r.type \in {"reinit", "close"} THEN "pause" ELSE "run",
        at |-> IF r.type \in DataTypes THEN Home(cfg_id, r.key) ELSE 0,
        prior |-> 0, records |-> <<>>]

(* event_handler, READ: what the socket has is appended to the worker's    *)
(* buffer up to the terminator; a whole request is dispatched.             *)
SocketRead(c) ==
    /\ job = NoJob /\ c \in conns
    /\ cn[c].state = "READ" /\ sock[c] # <<>>
    /\ LET pieces == request_buf \o sock[c]
       IN /\ request_buf' = pieces
          /\ job' = IF Terminated(pieces) THEN Dispatch(c, pieces) ELSE NoJob
    /\ sock' = [sock EXCEPT ![c] = <<>>]
    /\ UNCHANGED <<mode, cfg_id, ready, complete, kv, cl, conn_queue, conns, cn, rdma, requests>>

(***************************************************************************)
(* Replying.  socket_write_handler sends what the socket takes; the rest   *)
(* goes with later EV_WRITE events.                                        *)
(***************************************************************************)
(* As WriteSocketComplete, leaving req_ind.                                *)
CompleteKeepsRequest(c, done) == UNCHANGED request_buf

(* write_socket_complete: the request buffer is free again.                *)
WriteSocketComplete(c, done) ==
    request_buf' = IF done THEN <<>> ELSE request_buf

SendPieces(c, reply, from, n) ==
    /\ mode = "whole" => n = 2
    /\ cl' = [cl EXCEPT ![c].got = @ \o [i \in 1 .. n - from |->
                                           [reply |-> reply, part |-> from + i]]]
    /\ cn' = [cn EXCEPT ![c] = [state |-> IF n = 2 THEN "READ" ELSE "WRITE",
                                ind |-> IF n = 2 THEN 0 ELSE n,
                                reply |-> IF n = 2 THEN NoJob ELSE reply]]
    /\ WriteSocketComplete(c, n = 2)

Reply(fields) ==
    /\ \E n \in 0 .. 2 : SendPieces(job.conn, fields, 0, n)
    /\ job' = NoJob
    /\ UNCHANGED <<mode, sock, conn_queue, conns, requests>>

SocketWrite(c) ==
    /\ job = NoJob /\ c \in conns /\ cn[c].state = "WRITE"
    /\ \E n \in cn[c].ind + 1 .. 2 : SendPieces(c, cn[c].reply, cn[c].ind, n)
    /\ UNCHANGED <<mode, cfg_id, ready, complete, kv, sock, conn_queue, conns, job, rdma,
                   requests>>

Answer(type, val, records) ==
    [type |-> type, req |-> job.req, cfg |-> job.cfg, val |-> val, records |-> records]

(***************************************************************************)
(* The handlers.                                                           *)
(***************************************************************************)
(* The client's configuration is not the server's: only that is answered.  *)
ReplyConfig ==
    /\ job.conn # "none" /\ job.pc = "stale"
    /\ Reply(Answer(job.req.type, 0, <<>>))
    /\ UNCHANGED <<cfg_id, ready, complete, kv, rdma>>

(* The worker sleeps, with all its connections, until the fragment is      *)
(* ready.                                                                  *)
FragReady == <<job.cfg, job.at>> \in ready

(* A get is answered with the size of the value: the value is copied, and  *)
(* the terminator put over its first byte.  Values stand for sizes.        *)
ProcessGet ==
    /\ job.conn # "none" /\ job.pc = "run" /\ job.req.type = "get" /\ FragReady
    /\ Reply(Answer("get", kv[job.req.key], <<>>))
    /\ UNCHANGED <<cfg_id, ready, complete, kv, rdma>>

(* A client notes the values a key has while it waits for a reply.         *)
Observed(k, v) ==
    [c \in Clients |-> IF cl[c].st = "wait" THEN [cl[c] EXCEPT !.seen[k] = @ \cup {v}]
                       ELSE cl[c]]

ProcessPut ==
    /\ job.conn # "none" /\ job.pc = "run" /\ job.req.type = "put" /\ FragReady
    /\ kv' = [kv EXCEPT ![job.req.key] = job.req.arg]
    /\ job' = [job EXCEPT !.pc = "acked"]
    /\ cl' = Observed(job.req.key, job.req.arg)
    /\ UNCHANGED <<mode, cfg_id, ready, complete, sock, conn_queue, conns, request_buf, cn,
                   rdma, requests>>

ReplyPut ==
    /\ job.conn # "none" /\ job.pc = "acked"
    /\ Reply(Answer("put", 0, <<>>))
    /\ UNCHANGED <<cfg_id, ready, complete, kv, rdma>>

(* The loop condition and the breaks of process_socket_scan.               *)
ScanGoesOn ==
    /\ Len(job.records) < job.req.arg
    /\ job.at <= Len(Frags(job.cfg))
    /\ job.prior # 0 => job.prior = Frags(job.cfg)[job.at].lo
    /\ Frags(job.cfg)[job.at].server = Me

RECURSIVE Ascending(_)
Ascending(S) ==
    IF S = {} THEN <<>>
    ELSE LET m == CHOOSE m \in S : \A k \in S : m <= k IN <<m>> \o Ascending(S \ {m})

(* One round: the records of one fragment from the start key on.           *)
ScanFragment ==
    /\ job.conn # "none" /\ job.pc = "scan" /\ ScanGoesOn /\ FragReady
    /\ LET found == Ascending({k \in KeysOf(Frags(job.cfg)[job.at]) : k >= job.req.key})
           room == job.req.arg - Len(job.records)
           n == IF Len(found) < room THEN Len(found) ELSE room
       IN job' = [job EXCEPT !.records = @ \o [i \in 1 .. n |-> <<found[i], kv[found[i]]>>],
                             !.prior = Frags(job.cfg)[job.at].hi,
                             !.at = @ + 1]
    /\ UNCHANGED <<mode, cfg_id, ready, complete, kv, cl, sock, conn_queue, conns, request_buf,
                   cn, rdma, requests>>

ReplyScan ==
    /\ job.conn # "none" /\ job.pc = "scan" /\ ~ScanGoesOn
    /\ Reply(Answer("scan", 0, job.records))
    /\ UNCHANGED <<cfg_id, ready, complete, kv, rdma>>

(* process_socket_query_ready_request.                                     *)
LocalFragments(c) == {i \in DOMAIN Frags(c) : Frags(c)[i].server = Me}

ProcessQuery ==
    /\ job.conn # "none" /\ job.pc = "run" /\ job.req.type = "query"
    /\ Reply(Answer("query", IF \A i \in LocalFragments(cfg_id) : <<cfg_id, i>> \in complete
                             THEN 0 ELSE 1, <<>>))
    /\ UNCHANGED <<cfg_id, ready, complete, kv, rdma>>

(* process_reintialize_qps and process_close_stoc_files: every RDMA thread *)
(* is asked to pause and the handler spins until it has; the first then    *)
(* resumes them, the second leaves them paused.                            *)
PauseThreads ==
    /\ job.conn # "none" /\ job.pc = "pause"
    /\ rdma' = [rdma EXCEPT !.should_pause = TRUE,
                             !.closing = job.req.type = "close"]
    /\ job' = [job EXCEPT !.pc = "spin"]
    /\ UNCHANGED <<mode, cfg_id, ready, complete, kv, cl, sock, conn_queue, conns, request_buf,
                   cn, requests>>

ThreadsPaused ==
    /\ job.conn # "none" /\ job.pc = "spin" /\ rdma.paused
    /\ job' = [job EXCEPT !.pc = "quiet"]
    /\ UNCHANGED <<mode, cfg_id, ready, complete, kv, cl, sock, conn_queue, conns, request_buf,
                   cn, rdma, requests>>

(* The queue pairs are reinitialised and the threads resumed.              *)
ResumeThreads ==
    /\ job.conn # "none" /\ job.pc = "quiet" /\ job.req.type = "reinit"
    /\ rdma' = [rdma EXCEPT !.should_pause = FALSE, !.sem = @ + 1]
    /\ Reply(Answer("reinit", 0, <<>>))
    /\ UNCHANGED <<cfg_id, ready, complete, kv>>

(* The StoC files are closed, and the threads left paused.                 *)
CloseStoCFiles ==
    /\ job.conn # "none" /\ job.pc = "quiet" /\ job.req.type = "close"
    /\ Reply(Answer("close", 0, <<>>))
    /\ UNCHANGED <<cfg_id, ready, complete, kv, rdma>>

(***************************************************************************)
(* The other threads.                                                      *)
(***************************************************************************)
(* RDMAMsgHandler::Start: the pause loop before each round of polling.     *)
ThreadCheckPause ==
    /\ rdma.pc = "woken" \/ (rdma.pc = "poll" /\ rdma.should_pause)
    /\ rdma' = IF rdma.should_pause THEN [rdma EXCEPT !.paused = TRUE, !.pc = "wait"]
               ELSE [rdma EXCEPT !.pc = "poll"]

ThreadWakes ==
    /\ rdma.pc = "wait" /\ rdma.sem > 0
    /\ rdma' = [rdma EXCEPT !.sem = @ - 1, !.paused = FALSE, !.pc = "woken"]

RdmaThread ==
    /\ ThreadCheckPause \/ ThreadWakes
    /\ UNCHANGED <<mode, cfg_id, ready, complete, kv, cl, sock, conn_queue, conns, request_buf,
                   job, cn, requests>>

(* A put of a client of another worker.                                    *)
OtherPut(k, v) ==
    /\ Local(cfg_id, k) /\ <<cfg_id, Home(cfg_id, k)>> \in ready /\ kv[k] # v
    /\ \E c \in Clients : cl[c].st = "wait"
    /\ kv' = [kv EXCEPT ![k] = v]
    /\ cl' = Observed(k, v)
    /\ UNCHANGED <<mode, cfg_id, ready, complete, sock, conn_queue, conns, request_buf, job, cn,
                   rdma, requests>>

(* Another worker changes the configuration; the fragments that stay here  *)
(* are ready at once, the others when their migration is (see Migration).  *)
ChangeConfig ==
    /\ cfg_id < Len(Fragments)
    /\ cfg_id' = cfg_id + 1
    /\ LET stays == {i \in LocalFragments(cfg_id + 1) :
                       \E j \in LocalFragments(cfg_id) :
                          Frags(cfg_id)[j] = Frags(cfg_id + 1)[i]}
       IN /\ ready' = ready \cup {<<cfg_id + 1, i>> : i \in stays}
          /\ complete' = complete \cup {<<cfg_id + 1, i>> : i \in stays}
    /\ UNCHANGED <<mode, kv, cl, sock, conn_queue, conns, request_buf, job, cn, rdma, requests>>

FragmentReady(i) ==
    /\ i \in LocalFragments(cfg_id) /\ <<cfg_id, i>> \notin complete
    /\ IF <<cfg_id, i>> \notin ready
       THEN ready' = ready \cup {<<cfg_id, i>>} /\ UNCHANGED complete
       ELSE complete' = complete \cup {<<cfg_id, i>>} /\ UNCHANGED ready
    /\ UNCHANGED <<mode, cfg_id, kv, cl, sock, conn_queue, conns, request_buf, job, cn, rdma,
                   requests>>

(***************************************************************************)
(* The specification.                                                      *)
(***************************************************************************)
ClientInit ==
    /\ mode \in {"pieces", "whole"}
    /\ cfg_id = 1
    /\ ready = {<<1, i>> : i \in LocalFragments(1)} /\ complete = ready
    /\ kv = [k \in Loaded |-> 0]
    /\ cl = [c \in Clients |-> [st |-> "idle", req |-> NoRequest, cfg |-> 1,
                                sent |-> FALSE, got |-> <<>>,
                                seen |-> NotWaiting]]
    /\ sock = [c \in Clients |-> <<>>]
    /\ conn_queue = <<>> /\ conns = {}
    /\ request_buf = <<>> /\ job = NoJob
    /\ cn = [c \in Clients |-> NewConnection]
    /\ rdma = [should_pause |-> FALSE, paused |-> FALSE, sem |-> 0, pc |-> "poll",
               closing |-> FALSE]
    /\ requests = 0

TheOne == CHOOSE c \in Clients : TRUE
Active == IF mode = "pieces" THEN {TheOne} ELSE Clients

ClientStep ==
    \/ \E c \in Active : \/ MaySend(c) /\ \E r \in Requests(cl[c].cfg) : Send(c, r)
                         \/ Arrive(c) \/ Receive(c)
                         \/ OnAccept(c) \/ SocketRead(c) \/ SocketWrite(c)
    \/ NewConnHandler
    \/ ReplyConfig \/ ProcessGet \/ ProcessPut \/ ReplyPut \/ ScanFragment \/ ReplyScan
    \/ ProcessQuery \/ PauseThreads \/ ThreadsPaused \/ ResumeThreads
    \/ CloseStoCFiles
    \/ RdmaThread
    \/ \E k \in OtherKeys, v \in Values : OtherPut(k, v)
    \/ ChangeConfig
    \/ \E i \in LocalFragments(cfg_id) : FragmentReady(i)

AllAnswered == /\ \A c \in Clients : cl[c].st = "idle"
               /\ requests = MaxRequests \/ Closing
               /\ job = NoJob

ClientNext == ClientStep \/ (AllAnswered /\ UNCHANGED clientVars)

(***************************************************************************)
(* Properties.                                                             *)
(***************************************************************************)
(* The keys a scan should return: up to MaxScan loaded keys from the start *)
(* on in the fragments that follow its home without a gap on this server.  *)
RECURSIVE Chain(_, _)
Chain(c, i) ==
    IF i > Len(Frags(c)) \/ Frags(c)[i].server # Me THEN {}
    ELSE {i} \cup (IF i < Len(Frags(c)) /\ Frags(c)[i + 1].lo = Frags(c)[i].hi
                   THEN Chain(c, i + 1) ELSE {})

ScanKeys(r) ==
    LET all == Ascending({k \in UNION {KeysOf(Frags(r.cfg)[i]) : i \in Chain(r.cfg, Home(r.cfg, r.key))} :
                            k >= r.key})
    IN SubSeq(all, 1, IF Len(all) < r.arg THEN Len(all) ELSE r.arg)

Answers(c, a) ==
    LET r == cl[c].req
    IN /\ a.req = r
       /\ r.type \in DataTypes =>
            IF r.cfg # a.cfg THEN a.records = <<>>
            ELSE /\ r.type = "get" => a.val \in cl[c].seen[r.key]
                 /\ r.type = "put" => r.arg \in cl[c].seen[r.key]
                 /\ r.type = "scan" =>
                      /\ [i \in DOMAIN a.records |-> a.records[i][1]] = ScanKeys(r)
                      /\ \A i \in DOMAIN a.records :
                           a.records[i][2] \in cl[c].seen[a.records[i][1]]

(* A client gets the reply of its own request, whole and in order, across  *)
(* the worker's shared buffers, however its messages are cut and whichever *)
(* connections take turns: a get returns a value the key had while the     *)
(* client waited, a put is applied by then, a scan returns the first       *)
(* records of the contiguous local fragments in order, and a request with  *)
(* another configuration changes nothing and is answered with the server's.*)
(* No RDMA thread polls its queue pairs while they are reinitialised.      *)
RepliesAnswerRequests ==
    /\ \A c \in Clients : Len(cl[c].got) = 2 =>
         /\ cl[c].got[1].part = 1 /\ cl[c].got[2].part = 2
         /\ cl[c].got[1].reply = cl[c].got[2].reply
         /\ Answers(c, cl[c].got[1].reply)
    /\ (job.conn # "none" /\ job.pc = "quiet") => rdma.pc # "poll"
=============================================================================
