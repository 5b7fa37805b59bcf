------------------------------ MODULE Migration ------------------------------
(***************************************************************************)
(* A range moves from one LTC to another at a configuration change:        *)
(* the request handler that compares configuration ids and the change      *)
(* itself (src/novalsm/client_req_worker.cpp), DBMigration                 *)
(* (src/ltc/db_migration.cpp), EncodeDBMetadata, RecoverDBMetadata and the *)
(* memtable partitions (src/db/db_impl.cc), the table id mapping           *)
(* (src/db/version_set.cc), LogRecovery and LSMTreeCleaner.  One range of  *)
(* one partition moves from LTC 0 to LTC 1, configuration 0 to 1; a write  *)
(* is its sequence number.  Buffers of a closed log are free for reuse.    *)
(***************************************************************************)
EXTENDS Naturals, Sequences, SequencesExt, FiniteSets

CONSTANTS
    Client,
    MaxSeq,     \* bound: puts
    Full        \* writes that fill a memtable

VARIABLES
    policy,     \* ltc_migration_policy
    cfg,        \* cfg[s]: current_cfg_id of server s
    cl,         \* clients and the worker threads that serve them
    src,        \* the database at LTC 0
    dst,        \* the database at LTC 1
    log,        \* log[m]: buffers of the log of memtable m
    snap,       \* what EncodeDBMetadata wrote
    mq,         \* mq[s]: db_metas of the migration thread of server s
    seqs,       \* last_sequence_ (of LTC 0; LTC 1 starts far above it)
    settled,    \* puts acknowledged before the snapshot
    early       \* memtables whose log was closed before LTC 1 read it

migVars == <<policy, cfg, cl, src, dst, log, snap, mq, seqs, settled, early>>

MidBound == MaxSeq + 1
Mid == 1..MidBound
BumpSeq == 100      \* stands for the 100000 that RecoverDBMeta adds
NewMid == MidBound + 1   \* a memtable id above memtable_id_seq + 10

MigInit ==
    /\ policy \in {"immediate", "process_until_migration_complete"}
    /\ cfg = [s \in {0, 1} |-> 0]
    /\ cl = [c \in Client |-> [pc |-> "idle", srv |-> 0, cfg |-> 0, mid |-> 0, seq |-> 0]]
    /\ src = [active |-> 1, imms |-> <<>>, queued |-> {}, tab |-> [m \in Mid |-> {}],
              pend |-> [m \in Mid |-> 0], flushed |-> {}, toClose |-> {}, next |-> 2, stopped |-> FALSE]
    /\ dst = [pc |-> "none", active |-> 0, tab |-> [m \in Mid \cup {NewMid} |-> {}], tables |-> {},
              ready |-> {}, map |-> <<>>, read |-> <<>>, l0 |-> {}, scheduled |-> {},
              isReady |-> FALSE, isComplete |-> FALSE]
    /\ log = [m \in Mid \cup {NewMid} |-> [known |-> FALSE, recs |-> {}, freed |-> FALSE]]
    /\ snap = <<>>
    /\ mq = [s \in {0, 1} |-> <<>>]
    /\ seqs = 0
    /\ settled = {}
    /\ early = {}

-----------------------------------------------------------------------------
(* Requests.                                                               *)

ClientSends(c) ==
    /\ cl[c].pc = "idle" /\ seqs < MaxSeq
    /\ cl' = [cl EXCEPT ![c].pc = "sent", ![c].srv = cl[c].cfg]
    /\ UNCHANGED <<policy, cfg, src, dst, log, snap, mq, seqs, settled, early>>

(* process_socket_request_handler: another configuration is answered with  *)
(* the id of the server's, otherwise the request goes on with the id read. *)
RequestHandler(c) ==
    /\ cl[c].pc = "sent"
    /\ cl' = IF cl[c].cfg # cfg[cl[c].srv]
             THEN [cl EXCEPT ![c].pc = "idle", ![c].cfg = cfg[cl[c].srv]]
             ELSE [cl EXCEPT ![c].pc = "put"]
    /\ UNCHANGED <<policy, cfg, src, dst, log, snap, mq, seqs, settled, early>>

Rotated ==
    IF Cardinality(src.tab[src.active]) < Full THEN src
    ELSE [src EXCEPT !.active = src.next, !.next = @ + 1, !.imms = Append(@, src.active),
                     !.queued = @ \cup {src.active}]

(* process_socket_put: wait until the range is ready, then Put, up to the  *)
(* release of the partition mutex.                                         *)
PutSource(c) ==
    /\ cl[c].pc = "put" /\ cl[c].srv = 0 /\ seqs < MaxSeq
    /\ src' = [Rotated EXCEPT !.pend[Rotated.active] = @ + 1]
    /\ cl' = [cl EXCEPT ![c].pc = "log", ![c].mid = Rotated.active, ![c].seq = seqs + 1]
    /\ seqs' = seqs + 1
    /\ UNCHANGED <<policy, cfg, dst, log, snap, mq, settled, early>>

PutDest(c) ==
    /\ cl[c].pc = "put" /\ cl[c].srv = 1 /\ dst.isReady /\ seqs < MaxSeq
    /\ cl' = [cl EXCEPT ![c].pc = "log", ![c].mid = dst.active, ![c].seq = BumpSeq + seqs + 1]
    /\ seqs' = seqs + 1
    /\ UNCHANGED <<policy, cfg, src, dst, log, snap, mq, settled, early>>

GenerateLogRecord(c) ==
    LET m == cl[c].mid
    IN /\ cl[c].pc = "log"
       /\ log' = [log EXCEPT ![m] = IF @.freed THEN [known |-> TRUE, recs |-> {cl[c].seq}, freed |-> FALSE]
                                    ELSE [known |-> TRUE, recs |-> @.recs \cup {cl[c].seq}, freed |-> FALSE]]
       /\ cl' = [cl EXCEPT ![c].pc = "add"]
       /\ UNCHANGED <<policy, cfg, src, dst, snap, mq, seqs, settled, early>>

(* Under the partition mutex again: Add, Insert; then the answer.          *)
AddAndReturn(c) ==
    LET m == cl[c].mid
    IN /\ cl[c].pc = "add"
       /\ cl' = [cl EXCEPT ![c].pc = "idle"]
       /\ IF cl[c].srv = 0
          THEN /\ src' = [src EXCEPT !.tab[m] = @ \cup {cl[c].seq}, !.pend[m] = @ - 1]
               /\ UNCHANGED dst
          ELSE /\ dst' = [dst EXCEPT !.tab[m] = @ \cup {cl[c].seq}]
               /\ UNCHANGED src
       /\ settled' = IF snap = <<>> THEN settled \cup {cl[c].seq} ELSE settled
       /\ UNCHANGED <<policy, cfg, log, snap, mq, seqs, early>>

-----------------------------------------------------------------------------
(* Background work of the source, which goes on during the migration.      *)

(* PerformCompaction of a flush: the new version is installed, then the    *)
(* partition gives up its immutable memtables, then their logs are closed. *)
FlushInstall(m) ==
    /\ m \in src.queued /\ src.pend[m] = 0 /\ ~src.stopped
    /\ src' = [src EXCEPT !.queued = @ \ {m}, !.flushed = @ \cup {m}]
    /\ UNCHANGED <<policy, cfg, cl, dst, log, snap, mq, seqs, settled, early>>

FlushRelease ==
    /\ src.imms # <<>> /\ ToSet(src.imms) \cap src.flushed # {}
    /\ src' = [src EXCEPT !.toClose = @ \cup ToSet(src.imms), !.imms = <<>>]
    /\ UNCHANGED <<policy, cfg, cl, dst, log, snap, mq, seqs, settled, early>>

Closed(ms) == [m \in DOMAIN log |->
                 IF m \in ms THEN [log[m] EXCEPT !.known = FALSE, !.freed = TRUE] ELSE log[m]]
HasRead == dst.pc \in {"replay", "done"}

CloseLogs ==
    /\ src.toClose # {}
    /\ log' = Closed(src.toClose)
    /\ early' = IF HasRead THEN early ELSE early \cup src.toClose
    /\ src' = [src EXCEPT !.toClose = {}]
    /\ UNCHANGED <<policy, cfg, cl, dst, snap, mq, seqs, settled>>

(* CleanLSMAfterCfgChange, 30 seconds after the change: no more flushes,   *)
(* and the logs that have buffers here are closed.                         *)
CleanLSMAfterCfgChange ==
    /\ cfg[0] = 1 /\ ~src.stopped
    /\ src' = [src EXCEPT !.queued = {}, !.stopped = TRUE]
    /\ log' = Closed({m \in DOMAIN log : log[m].known})
    /\ early' = IF HasRead THEN early ELSE early \cup {m \in Mid : log[m].known}
    /\ UNCHANGED <<policy, cfg, cl, dst, snap, mq, seqs, settled>>

-----------------------------------------------------------------------------
(* The configuration change.                                               *)

(* DBMigration: the tasks of a migration thread.                           *)
AddSourceMigrateDB == mq' = [mq EXCEPT ![0] = Append(@, "source")]
AddDestMigrateDB == mq' = [mq EXCEPT ![1] = Append(@, "dest")]
StartMigration(s, task) ==
    /\ mq[s] # <<>> /\ Head(mq[s]) = task
    /\ mq' = [mq EXCEPT ![s] = Tail(@)]

(* process_socket_change_config_request: the old LTC of the range starts   *)
(* its migration.                                                          *)
ChangeConfig(s) ==
    /\ cfg[s] = 0
    /\ cfg' = [cfg EXCEPT ![s] = 1]
    /\ IF s = 0 THEN AddSourceMigrateDB ELSE UNCHANGED mq
    /\ UNCHANGED <<policy, cl, src, dst, log, snap, seqs, settled, early>>

(* Also clears the source's own list of immutable memtables.               *)
EncodeMemTablePartitions == [active |-> src.active, imms |-> src.imms]

(* EncodeDBMetadata, with the database and all partitions locked: version, *)
(* memtable partitions (whose immutable ids it clears), log files, and the *)
(* table id mapping of every memtable that is live or flushed.             *)
EncodeDBMetadata ==
    /\ snap' = <<EncodeMemTablePartitions @@
                 [flushed |-> src.flushed, logs |-> {m \in Mid : log[m].known},
                  mapping |-> 1..(src.next - 1), sent |-> FALSE]>>
    /\ src' = [src EXCEPT !.imms = <<>>]

(* MigrateDB: the metadata goes to the new LTC by an RDMA WRITE, whose     *)
(* arrival makes a task of the migration thread there.                     *)
MigrateDB ==
    /\ StartMigration(0, "source")
    /\ EncodeDBMetadata
    /\ UNCHANGED <<policy, cfg, cl, dst, log, seqs, settled, early>>

HandleRDMAWrite ==
    /\ snap # <<>> /\ ~snap[1].sent
    /\ snap' = <<[snap[1] EXCEPT !.sent = TRUE]>>
    /\ AddDestMigrateDB
    /\ UNCHANGED <<policy, cfg, cl, src, dst, log, seqs, settled, early>>

NoPair == [mem |-> 0, imm |-> FALSE, slot |-> 0]

(* The pair of an immutable memtable is stored under the active one's id.  *)
DecodeMemTablePartitions(s) ==
    LET n == Len(s.imms)
        first == IF policy = "immediate" THEN [mem |-> s.active, imm |-> TRUE, slot |-> 1]
                 ELSE [mem |-> s.active, imm |-> FALSE, slot |-> 0]
        pair == IF n = 0 THEN first ELSE [mem |-> s.imms[n], imm |-> TRUE, slot |-> first.slot + n]
    IN [m \in {s.active} |-> pair]

DecodeLogFiles(map, s) ==
    [m \in DOMAIN map \cup s.logs |-> IF m \in DOMAIN map THEN map[m] ELSE NoPair]

(* Tables DecodeMemTablePartitions and AtomicMemTable::Decode create.      *)
DecodedTables(s) == {s.active} \cup ToSet(s.imms) \cup (s.mapping \ s.flushed)

(* The table id mapping is read without looking for its memtables.         *)
DecodeTableIdMappingOnly(map, s) ==
    [m \in DOMAIN map \cup (s.mapping \cap DecodedTables(s)) |->
       IF m \in DOMAIN map THEN map[m] ELSE NoPair]

DecodeTableIdMapping(map, s) ==
    [m \in DOMAIN map \cup (s.mapping \cap DecodedTables(s)) |->
       LET p == IF m \in DOMAIN map THEN map[m] ELSE NoPair
       IN IF m \in s.mapping \cap DecodedTables(s) THEN [p EXCEPT !.mem = m] ELSE p]

RecoverDBMetadata(s) ==
    DecodeTableIdMapping(DecodeLogFiles(DecodeMemTablePartitions(s), s), s)

(* RecoverDBMeta up to the replay of the logs: RecoverDBMetadata, then     *)
(* memtables without log or table have nothing to recover.                 *)
RecoverDBMeta ==
    /\ StartMigration(1, "dest")
    /\ LET s == snap[1]
           map == RecoverDBMetadata(s)
           actual == {m \in DOMAIN map : m \in s.logs /\ map[m].mem # 0}
           fresh == IF policy = "immediate" THEN {NewMid} ELSE {}
       IN dst' = [dst EXCEPT !.pc = "read",
                    !.active = IF policy = "immediate" THEN NewMid ELSE s.active,
                    !.tables = DecodedTables(s) \cup fresh,
                    !.ready = ({map[m].mem : m \in DOMAIN map \ actual} \ {0}) \cup fresh,
                    !.map = map,
                    !.l0 = UNION {src.tab[m] : m \in s.flushed},
                    !.isReady = policy = "immediate"]
    /\ UNCHANGED <<policy, cfg, cl, src, log, snap, seqs, settled, early>>

(* LogRecovery::Recover: RDMA READs of all log buffers (a freed one may    *)
(* have been written by somebody else), ...                                *)
ToReplay == {m \in DOMAIN dst.map : m \in snap[1].logs /\ dst.map[m].mem # 0}

InitiateReadInMemoryLogFile(m, reused) == IF m \in reused THEN {} ELSE log[m].recs

ReadLogs ==
    /\ dst.pc = "read"
    /\ \E reused \in SUBSET {m \in ToReplay : log[m].freed} :
         dst' = [dst EXCEPT !.pc = "replay",
                   !.read = [m \in ToReplay |-> InitiateReadInMemoryLogFile(m, reused)]]
    /\ UNCHANGED <<policy, cfg, cl, src, log, snap, mq, seqs, settled, early>>

(* ... then one memtable after the other gets its records and is ready.    *)
RecoverMemTable(m) ==
    LET p == dst.map[m]
    IN /\ dst.pc = "replay" /\ m \in DOMAIN dst.read
       /\ dst' = [dst EXCEPT !.tab[p.mem] = @ \cup dst.read[m],
                    !.ready = @ \cup {p.mem},
                    !.read = [x \in DOMAIN dst.read \ {m} |-> dst.read[x]],
                    !.scheduled = IF p.imm THEN @ \cup {<<p.mem, p.slot>>} ELSE @]
       /\ UNCHANGED <<policy, cfg, cl, src, log, snap, mq, seqs, settled, early>>

(* The end of RecoverDBMeta: ready, complete, and the old logs are closed. *)
CompleteMigration ==
    /\ dst.pc = "replay" /\ DOMAIN dst.read = {}
    /\ dst' = [dst EXCEPT !.pc = "done", !.isReady = TRUE, !.isComplete = TRUE]
    /\ log' = Closed(DOMAIN dst.map)
    /\ UNCHANGED <<policy, cfg, cl, src, snap, mq, seqs, settled, early>>

(* Clients are done, or cannot make a change any more.                     *)
MigEnds ==
    /\ seqs = MaxSeq /\ dst.pc = "done"
    /\ UNCHANGED migVars

MigNext ==
    \/ \E c \in Client : \/ ClientSends(c) \/ RequestHandler(c) \/ PutSource(c) \/ PutDest(c)
                         \/ GenerateLogRecord(c) \/ AddAndReturn(c)
    \/ \E m \in Mid : FlushInstall(m)
    \/ FlushRelease \/ CloseLogs \/ CleanLSMAfterCfgChange
    \/ \E s \in {0, 1} : ChangeConfig(s)
    \/ MigrateDB \/ HandleRDMAWrite \/ RecoverDBMeta \/ ReadLogs
    \/ \E m \in Mid : RecoverMemTable(m)
    \/ CompleteMigration \/ MigEnds

-----------------------------------------------------------------------------
(* When a migration is complete no request can be left waiting for a       *)
(* memtable, and every put that was answered before the snapshot is at the *)
(* new LTC, in a table of the snapshot's version or in a memtable replayed *)
(* from its log -- the one exception being a memtable whose log the old    *)
(* LTC, which goes on flushing, closed before the new one had read it.     *)
MigratedWritesKept ==
    dst.isComplete =>
      /\ dst.tables \subseteq dst.ready
      /\ \A q \in settled :
           \/ q \in dst.l0
           \/ \E m \in dst.tables : q \in dst.tab[m]
           \/ \E m \in early : q \in src.tab[m]
=============================================================================
