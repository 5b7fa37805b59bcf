------------------------------ MODULE MCStorage ------------------------------
(***************************************************************************)
(* The modules of the storage side in one model.  The modules share no     *)
(* state: a behaviour is a behaviour of the one that `lane` names, the     *)
(* variables of the others keep their initial values.                      *)
(***************************************************************************)
EXTENDS Naturals, Sequences, TLC

CONSTANTS t1, t2, None, NoBlock, NoBuf, Junk

VARIABLE lane

(* StoCProtocol *)
VARIABLES h, file, fnmap, wk, sem, resp, thr, loc, doomed, got, script, failed
stocVars == <<h, file, fnmap, wk, sem, resp, thr, loc, doomed, got, script, failed>>
mcScripts ==
    {(t1 :> <<{"append"}, {"read", "replicate"}>>) @@ (t2 :> <<{"delete", "other"}>>),
     (t1 :> <<{"append"}>>) @@ (t2 :> <<{"manifest"}>>),
     (t1 :> <<{"manifest"}, {"manifest"}>>) @@ (t2 :> <<{"read"}>>),
     (t1 :> <<{"other"}>>) @@ (t2 :> <<{"other"}, {"other"}>>)}
StoC == INSTANCE StoCProtocol WITH
    Thread <- {t1, t2}, Server <- {0, 1}, Ltc <- 0, Table <- {"A"},
    MetaOf <- [n \in {"A"} |-> "A-meta"], Manifest <- {"M"}, MaxSends <- 1, MaxReqId <- 3,
    Scripts <- mcScripts, Queries <- {"stats", "rdmawrite"}

(* LogReplication *)
VARIABLES queue, closing, lbuf, state, sq, dq, cq, mem, local, remote, wr, recs, acked, closed
logVars == <<queue, closing, lbuf, state, sq, dq, cq, mem, local, remote, wr, recs, acked, closed>>
Logs == INSTANCE LogReplication WITH
    Writer <- {1, 2}, Replica <- {1, 2}, Log <- {1, 2}, Buf <- {1, 2}, MaxRec <- 2

(* Migration *)
VARIABLES policy, cfg, cl, src, dst, log, snap, mq, seqs, settled, early
migVars == <<policy, cfg, cl, src, dst, log, snap, mq, seqs, settled, early>>
Mig == INSTANCE Migration WITH Client <- {1, 2}, MaxSeq <- 2, Full <- 1

(* ManifestRecovery *)
VARIABLES mf, mfSize, manLock, version, disk, opened, nextId, fetched, content, ft, ct, rt,
          nextFile, lastSeq, obsolete, installed, moved, overflow, crashes, rec, unopened
manVars == <<mf, mfSize, manLock, version, disk, opened, nextId, fetched, content, ft, ct, rt,
             nextFile, lastSeq, obsolete, installed, moved, overflow, crashes, rec, unopened>>
Man == INSTANCE ManifestRecovery WITH
    Flusher <- {1, 2}, MaxFile <- 3, ManifestCap <- 4, MapBatch <- 1, MaxCrashes <- 1

(* SlabMemory *)
VARIABLES freeSlabs, classes, held, taking
slabVars == <<freeSlabs, classes, held, taking>>
Slab == INSTANCE SlabMemory WITH
    User <- {1, 2}, ClassSize <- <<1, 2, 5>>, SlabSize <- 5, NumSlabs <- 2, MaxHeld <- 2

(* MajorCompactions *)
VARIABLES plan, where, job, msg, compDone, outputs, coord, signal, numbers, metas, tree, unmet
mcVars == <<plan, where, job, msg, compDone, outputs, coord, signal, numbers, metas, tree, unmet>>
Tab(n, entries) ==
    [number |-> <<0, n>>, entries |-> entries, smallest |-> entries[1],
     largest |-> entries[Len(entries)], handles |-> <<<<<<0, n>>, 1>>>>]
Compact(first, second, guides) == [inputs |-> <<first, second>>, guides |-> guides]
mcPlans ==
    {<<Compact(<<Tab(1, <<<<1, 9>>, <<3, 8>>>>), Tab(2, <<<<1, 2>>, <<2, 3>>>>)>>,
               <<Tab(3, <<<<3, 1>>, <<4, 4>>>>)>>,
               <<Tab(4, <<<<1, 7>>>>), Tab(5, <<<<2, 1>>>>)>>),
       Compact(<<Tab(6, <<<<5, 5>>>>), Tab(7, <<<<5, 6>>, <<6, 7>>>>)>>, <<>>, <<>>)>>,
     <<Compact(<<Tab(1, <<<<1, 1>>>>)>>, <<>>, <<>>),
       Compact(<<Tab(2, <<<<2, 2>>>>)>>, <<Tab(3, <<<<3, 3>>>>)>>, <<Tab(4, <<<<2, 5>>>>)>>),
       Compact(<<Tab(5, <<<<4, 4>>>>)>>, <<>>, <<>>)>>}
Tiny(lo, hi) == [lo |-> lo, hi |-> hi]
mcSubs == <<<<Tiny(1, 1), Tiny(2, 2)>>, <<Tiny(3, 4)>>, <<Tiny(3, 4)>>, <<Tiny(5, 5), Tiny(6, 9)>>>>
Major == INSTANCE MajorCompactions WITH
    Ltc <- 0, Storages <- <<0, 1>>, Plans <- mcPlans, Subs <- mcSubs, LastSequence <- 9,
    MaxFileSize <- 2, NumReplicas <- 2, BatchSize <- 1

vars == <<lane, stocVars, logVars, migVars, manVars, slabVars, mcVars>>

Init ==
    /\ lane \in {"stoc", "logs", "migration", "manifest", "memory", "compactions"}
    /\ StoC!Init /\ Logs!Init /\ Mig!MigInit /\ Man!ManInit /\ Slab!SlabInit /\ Major!CompInit
    /\ lane # "compactions" => plan = CHOOSE p \in mcPlans : TRUE
    /\ lane # "compactions" => \A j \in DOMAIN where : where[j] = 0
    /\ lane # "stoc" => script = CHOOSE s \in mcScripts : TRUE
    /\ lane # "migration" => policy = "immediate"

StoCNext == lane = "stoc" /\ StoC!Next
            /\ UNCHANGED <<lane, logVars, migVars, manVars, slabVars, mcVars>>
LogsNext == lane = "logs" /\ Logs!Next
            /\ UNCHANGED <<lane, stocVars, migVars, manVars, slabVars, mcVars>>
MigNext == lane = "migration" /\ Mig!MigNext
           /\ UNCHANGED <<lane, stocVars, logVars, manVars, slabVars, mcVars>>
ManNext == lane = "manifest" /\ Man!ManNext
           /\ UNCHANGED <<lane, stocVars, logVars, migVars, slabVars, mcVars>>
SlabNext == lane = "memory" /\ Slab!SlabNext
            /\ UNCHANGED <<lane, stocVars, logVars, migVars, manVars, mcVars>>
CompNext == lane = "compactions" /\ Major!CompNext
            /\ UNCHANGED <<lane, stocVars, logVars, migVars, manVars, slabVars>>

Next == StoCNext \/ LogsNext \/ MigNext \/ ManNext \/ SlabNext \/ CompNext
Spec == Init /\ [][Next]_vars

-----------------------------------------------------------------------------
(* The properties of the modules, where they are explained.                *)

(* Requests to the StoCs implement the abstract block store.               *)
ImplementsBlockStore == StoC!Store!Init /\ [][lane = "stoc" => StoC!StoreStep]_stocVars
(* No NOVA_ASSERT of the StoC files, workers and handlers fails.           *)
StoCAssertions == lane = "stoc" => StoC!StoCAssertions
(* Send slots and read buffers are neither lost nor used twice.            *)
BuffersConserved == lane = "stoc" => StoC!BuffersConserved
(* No caller of a StoCBlockClient waits for a request that is gone.        *)
NoLostCall == lane = "stoc" => StoC!NoLostCall
(* Every replica of an open log holds the acknowledged records, in order.  *)
AckedRecordsRecoverable == lane = "logs" => Logs!AckedRecordsRecoverable
(* A completed migration kept the puts that were answered before it.       *)
MigratedWritesKept == lane = "migration" => Mig!MigratedWritesKept
(* A crash at any point leaves a manifest that recovers what was installed.*)
ManifestRecovers == lane = "manifest" => Man!ManifestRecovers
(* No two buffers of the registered memory overlap.                        *)
BuffersDisjoint == lane = "memory" => Slab!BuffersDisjoint
(* What a compaction installs is the newest version of each input key.     *)
CompactionOutputs == lane = "compactions" => Major!CompactionOutputs
(* The coordinator waits for exactly the compactions it started.           *)
CoordinatorRound == lane = "compactions" => Major!CoordinatorRound
=============================================================================
