---------------------------- MODULE MCStructures ----------------------------
(***************************************************************************)
(* The data structures of an LTC in one model: subranges, iterators, the   *)
(* range index, caches, the skip list, table files, and the worker that    *)
(* serves the clients.  They share no state: a behaviour is a behaviour of *)
(* the one that `lane` names, the variables of the others keep their       *)
(* initial values.                                                         *)
(***************************************************************************)
EXTENDS Naturals, Sequences

VARIABLE lane

(* Subranges *)
VARIABLES srs, re, impacted, broken, reorgs
subVars == <<srs, re, impacted, broken, reorgs>>
Sub == INSTANCE Subranges WITH
    P <- 3, Alpha <- 2, LowerKey <- 0, UpperKey <- 7, NumThreads <- 3, NoFlushKeys <- 2,
    Load <- {0, 12, 60}, Rate <- {1, 6}, MaxReorgs <- 2, MaxOdd <- 1

(* Iterators *)
VARIABLES kind, place, it, valid, from, ref
itVars == <<kind, place, it, valid, from, ref>>
Iter == INSTANCE Iterators WITH
    NumKeys <- 3, NumRanges <- 1,
    Placements <- {{}, {1}, {4}, {4, 1}, {5, 4, 2}, {5}, {3, 2, 1}}

(* RangeIndex *)
VARIABLES mems, tables, vers, idx, compaction, install, merged, drop, scan, freedRead
riVars == <<mems, tables, vers, idx, compaction, install, merged, drop, scan, freedRead>>
Ri == INSTANCE RangeIndex WITH
    Rng <- {1, 2}, Span <- <<{1, 2}, {2}>>, Scans <- {"a"}, MaxMem <- 3, MaxFile <- 2,
    MaxIndex <- 3

(* TableCaches *)
VARIABLES slots, buckets, lru, in_use, usage, rd, locking
cacheVars == <<slots, buckets, lru, in_use, usage, rd, locking>>
Cache == INSTANCE TableCaches WITH
    Readers <- {1, 2}, Files <- {1}, Charges <- {1, 2}, Capacity <- 2, MinLength <- 1

(* SkipList *)
VARIABLES next, max_height, nputs, ins, seek
skipVars == <<next, max_height, nputs, ins, seek>>
Skip == INSTANCE SkipList WITH NumKeys <- 3, MaxHeight <- 2, Samples <- {0, 1}

(* TableFile *)
VARIABLES layout, input, b, frag, placed, meta, phase
tableVars == <<layout, input, b, frag, placed, meta, phase>>
Layout(s, d, m, p, pol, pr) ==
    [scatter |-> s, data |-> d, meta |-> m, parity |-> p, policy |-> pol, prune |-> pr]
mcLayouts ==
    {Layout(1, 1, 1, FALSE, "local", TRUE), Layout(3, 1, 2, FALSE, "random", FALSE),
     Layout(1, 2, 2, FALSE, "p2", FALSE), Layout(2, 1, 1, TRUE, "random", FALSE)}
Table == INSTANCE TableFile WITH
    UserKeys <- {0, 1, 2}, MaxEntries <- 4, BlockSize <- 5, Sizes <- {1, 3},
    RestartInterval <- 2, FilterBase <- 4, NumStoCs <- 4, Layouts <- mcLayouts

(* ClientRequests *)
VARIABLES mode, cfg_id, ready, complete, kv, cl, sock, conn_queue, conns, request_buf, job,
          cn, rdma, requests
clientVars == <<mode, cfg_id, ready, complete, kv, cl, sock, conn_queue, conns, request_buf,
                job, cn, rdma, requests>>
Frag(lo, hi, server) == [lo |-> lo, hi |-> hi, server |-> server]
Client == INSTANCE ClientRequests WITH
    Clients <- {"c1", "c2"},
    Fragments <- <<<<Frag(0, 1, 1), Frag(1, 2, 1), Frag(2, 4, 2)>>,
                   <<Frag(0, 1, 1), Frag(1, 2, 1), Frag(3, 4, 1)>>>>,
    Loaded <- {0, 1, 3}, Values <- {1}, OtherKeys <- {1}, MaxRequests <- 2, MaxScan <- 2

vars == <<lane, subVars, itVars, riVars, cacheVars, skipVars, tableVars, clientVars>>

-----------------------------------------------------------------------------
Init ==
    /\ lane \in {"subranges", "iterators", "index", "caches", "skiplist", "table", "clients"}
    /\ Iter!IterInit
    /\ lane # "iterators" => kind = "db" /\ place = [k \in 1 .. 3 |-> {}]
    /\ Cache!CacheInit
    /\ lane # "caches" => ~locking
    /\ Table!TableInit
    /\ lane # "table" => layout = Layout(1, 1, 1, FALSE, "local", TRUE)
    /\ Client!ClientInit
    /\ lane # "clients" => mode = "whole"
    /\ Sub!SubInit /\ Ri!RiInit /\ Skip!SkipInit

SubNext == lane = "subranges" /\ Sub!SubNext
    /\ UNCHANGED <<lane, itVars, riVars, cacheVars, skipVars, tableVars, clientVars>>
IterNext == lane = "iterators" /\ Iter!IterNext
    /\ UNCHANGED <<lane, subVars, riVars, cacheVars, skipVars, tableVars, clientVars>>
RiNext == lane = "index" /\ Ri!RiNext
    /\ UNCHANGED <<lane, subVars, itVars, cacheVars, skipVars, tableVars, clientVars>>
CacheNext == lane = "caches" /\ Cache!CacheNext
    /\ UNCHANGED <<lane, subVars, itVars, riVars, skipVars, tableVars, clientVars>>
SkipNext == lane = "skiplist" /\ Skip!SkipStep
    /\ UNCHANGED <<lane, subVars, itVars, riVars, cacheVars, tableVars, clientVars>>
TableNext == lane = "table" /\ Table!TableNext
    /\ UNCHANGED <<lane, subVars, itVars, riVars, cacheVars, skipVars, clientVars>>
ClientNext == lane = "clients" /\ Client!ClientNext
    /\ UNCHANGED <<lane, subVars, itVars, riVars, cacheVars, skipVars, tableVars>>

Next == SubNext \/ IterNext \/ RiNext \/ CacheNext \/ SkipNext \/ TableNext \/ ClientNext
Spec == Init /\ [][Next]_vars

-----------------------------------------------------------------------------
(* The properties of the modules, where they are explained.                *)

(* Reorganised subranges still route every key to one partition.           *)
SubrangesRoute == lane = "subranges" => Sub!SubrangesRoute
(* Merging and two-level iterators visit what one sorted list would.       *)
IteratorContract == lane = "iterators" => Iter!IteratorContract
(* A scan finds every write that its range index version had.              *)
ScanViewConsistent == lane = "index" => Ri!ScanViewConsistent
(* A handle of a cache is valid until it is released.                      *)
CacheKeepsHandles == lane = "caches" => Cache!CacheKeepsHandles
(* A reader without a lock sees a skip list in order.                      *)
LockFreeReads == lane = "skiplist" => Skip!LockFreeReads
(* Gets and scans of a table read what was written into it.                *)
TableReadsBack == lane = "table" => Table!TableReadsBack
(* A client gets the answer to its own request.                            *)
RepliesAnswerRequests == lane = "clients" => Client!RepliesAnswerRequests
=============================================================================
