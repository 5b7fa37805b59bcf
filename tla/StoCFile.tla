------------------------------ MODULE StoCFile ------------------------------
(***************************************************************************)
(* A StoC file (src/stoc/persistent_stoc_file.cpp): a buffer in RDMA       *)
(* memory in which space is allocated, written by the remote LTC and       *)
(* flushed in allocation order to a file on disk.  Every operator is what  *)
(* one critical section of the file's mutex_ does to the file.  A block    *)
(* has size 1; `bad` names the NOVA_ASSERTs of the file that have failed.  *)
(* A StoC file holds the blocks of one name, so the three maps from names  *)
(* to disk handles are the one field `entry`.                              *)
(***************************************************************************)
EXTENDS Integers, Sequences, SequencesExt

CONSTANT NoBlock

NoEntry == [off |-> 0 - 1, persisted |-> FALSE]

NewFile(n, isTable) ==
    [name |-> n, table |-> isTable, alloc |-> <<>>, wmem |-> <<>>, mem |-> <<>>,
     disk |-> <<>>, diskOff |-> 0, persisting |-> 0, full |-> FALSE, sealed |-> FALSE,
     deleted |-> FALSE, waiting |-> FALSE, reading |-> 0, open |-> TRUE,
     linked |-> TRUE, entry |-> NoEntry, bad |-> {}]

Expect(f, ok, what) == IF ok THEN f ELSE [f EXCEPT !.bad = @ \cup {what}]

(* Frees backing_mem_ once nothing is allocated or being persisted.        *)
Seal(f) ==
    IF f.alloc = <<>> /\ f.full /\ f.persisting = 0 /\ ~f.sealed
    THEN Expect([f EXCEPT !.sealed = TRUE], f.diskOff = Len(f.mem), "sealed size")
    ELSE f

(* The offset AllocateBuf returns is Len(f.mem); a full file is refused,   *)
(* which the callers assert never happens.                                 *)
AllocateBuf(f) ==
    IF f.full THEN Expect(Seal(f), FALSE, "allocate")
    ELSE LET g == [f EXCEPT !.mem = Append(@, NoBlock),
                            !.alloc = Append(@, [off |-> Len(f.mem), written |-> FALSE])]
         IN Expect(g, ~f.sealed /\ (f.table => f.entry = NoEntry), "allocate")

WriteMem(f, off, b) == [f EXCEPT !.mem[off + 1] = b]

MarkOffsetAsWritten(f, off) ==
    LET hits == {i \in 1..Len(f.alloc) : f.alloc[i].off = off}
    IN IF hits = {} THEN Expect(f, FALSE, "mark")
       ELSE [f EXCEPT !.alloc[CHOOSE i \in hits : \A j \in hits : j <= i].written = TRUE]

(* The first critical section of Persist: written buffers get their place  *)
(* on disk and join written_mem_blocks_.                                   *)
PersistTake(f) ==
    LET written == SelectSeq(f.alloc, LAMBDA a : a.written)
        n == Len(written)
        g == [f EXCEPT !.alloc = SelectSeq(@, LAMBDA a : ~a.written),
                       !.wmem = @ \o [i \in 1..n |-> written[i].off],
                       !.diskOff = @ + n,
                       !.persisting = @ + n,
                       !.entry = IF n = 0 THEN @
                                 ELSE [off |-> f.diskOff + n - 1, persisted |-> FALSE]]
    IN IF f.alloc = <<>> THEN Seal(f)
       ELSE Expect(g, /\ f.table => n <= 1 /\ f.entry = NoEntry
                      /\ g.diskOff <= Len(f.mem), "persist")

(* The longest prefix of the writes that is contiguous in memory.          *)
FirstRun(writes) ==
    LET k == CHOOSE k \in 1..Len(writes) :
               /\ \A i \in 1..k-1 : writes[i+1] = writes[i] + 1
               /\ k < Len(writes) => writes[k+1] # writes[k] + 1
    IN SubSeq(writes, 1, k)

(* Append and Sync one run, outside mutex_ but under persist_mutex_.       *)
PersistRun(f, run) ==
    Expect([f EXCEPT !.disk = @ \o [i \in 1..Len(run) |-> f.mem[run[i] + 1]]],
           f.open /\ ~f.sealed, "append")

(* The same without counting the buffers down.                             *)
PersistDoneUncounted(f, run) ==
    Expect([f EXCEPT !.entry.persisted = TRUE], f.entry # NoEntry, "persisted entry")

(* The critical section after each run.                                    *)
PersistDone(f, run) ==
    Expect([f EXCEPT !.entry.persisted = TRUE, !.persisting = @ - Len(run)],
           f.entry # NoEntry, "persisted entry")

(* The last critical section of Persist.                                   *)
PersistEnd(f, writes) ==
    Seal([f EXCEPT !.wmem = SubSeq(@, Len(writes) + 1, Len(@))])

ForceSeal(f) ==
    Expect(Seal([f EXCEPT !.full = TRUE]), f.alloc = <<>> /\ f.persisting = 0, "force seal")

(* Every reference to the file's blocks gone: a deletion closes the file   *)
(* now (`deleted`), or leaves it to the last replication reader.           *)
DeleteSSTable(f) ==
    LET g == Expect([Seal(f) EXCEPT !.entry = NoEntry],
                    f.entry # NoEntry => f.entry.persisted, "delete")
    IN IF g.full /\ g.alloc = <<>> /\ g.persisting = 0 /\ g.sealed
       THEN Expect([g EXCEPT !.waiting = TRUE, !.deleted = @ \/ g.reading = 0],
                   g.diskOff = Len(g.mem), "deleted size")
       ELSE g

(* DeleteSSTable after the unlock: close the file and unlink it.           *)
CloseAndUnlink(f) ==
    Expect([f EXCEPT !.open = FALSE, !.linked = FALSE], f.open /\ f.linked, "close")

StartReplicationRead(f) == [f EXCEPT !.reading = @ + 1]

(* The end of ReadForReplication: the last reader of a file that waits to  *)
(* be deleted deletes it, inside the critical section.                     *)
EndReplicationRead(f) ==
    LET g == [f EXCEPT !.reading = @ - 1]
    IN IF g.reading = 0 /\ g.waiting /\ ~g.deleted
       THEN CloseAndUnlink([g EXCEPT !.waiting = FALSE, !.deleted = TRUE])
       ELSE g
=============================================================================
