------------------------------ MODULE WritePath ------------------------------
(***************************************************************************)
(* The write path of one range: memtable partitions with their slots for   *)
(* immutable memtables, writers that fill, rotate and wait, the background *)
(* threads that flush or merge the immutable memtables and hand the slots  *)
(* back, the loader, and the flush order with the reorganisation of        *)
(* subranges (dranges) it depends on.                                      *)
(*                                                                         *)
(* What a partition mutex protects from its acquisition to its release is  *)
(* one action, unless the holder does something in between that another    *)
(* thread can tell: waiting for the log, for L0 to shrink, or for another  *)
(* partition's mutex.                                                      *)
(***************************************************************************)
EXTENDS Integers, Sequences, Functions, FiniteSets

CONSTANTS
  Writer,       \* threads in DBImpl::Put
  Loader,       \* the writer that also loads the database
  FlushThread,  \* bg_flush_memtable_threads_
  NoOwner,      \* a free partition mutex
  NumPartitions, NumSlots,   \* memtable partitions, slots of each
  BufferSize,   \* write_buffer_size, counted in writes
  LogRecords,   \* log_record_mode = LOG_RDMA
  Modes,        \* memtable selection: "static" (any partition), "subrange"
  MergeParts,   \* subranges merged without flushing (subrange_no_flush_num_keys)
  OrderedFlush, \* NovaConfig::use_ordered_flush
  L0Stop,       \* l0bytes_stop_writes_trigger > 0
  MaxLoad, MaxPut, MaxReorg, \* bounds: writes of the loader, Puts, reorganisations
  MaxMid        \* bound of memtable_id_seq_

ASSUME WritePathConstants ==
  /\ Loader \in Writer /\ NoOwner \notin Writer
  /\ NumPartitions \in Nat \ {0} /\ NumSlots \in Nat \ {0}
  /\ IsFiniteSet(Writer) /\ IsFiniteSet(FlushThread)
  /\ Modes \subseteq {"static", "subrange"}
  /\ MergeParts \subseteq 1 .. NumPartitions
  /\ BufferSize \in Nat /\ LogRecords \in BOOLEAN /\ OrderedFlush \in BOOLEAN /\ L0Stop \in BOOLEAN
  /\ MaxLoad \in Nat /\ MaxPut \in Nat /\ MaxReorg \in Nat
  /\ MaxMid \in Nat /\ NumPartitions <= MaxMid

Partition == 1 .. NumPartitions
Slot      == 1 .. NumSlots
Mid       == 1 .. MaxMid

VARIABLES
  mode,      \* enable_subranges or not
  loading,   \* the database is being loaded
  part,      \* MemTablePartition and its share of partitioned_imms_
  pmutex,    \* the owner of a partition mutex between actions
  mt,        \* AtomicMemTable by memtable id
  nextMid,   \* memtable_id_seq_
  nimm,      \* number_of_immutable_memtables_
  wr,        \* the writers
  nput,      \* Puts begun
  queue, batch, fpc,  \* the flush threads: queued tasks, those in progress
  outp,      \* the partition and the output memtable of a merge in progress
  scan,      \* FlushMemTables in progress (the loader or the cleaner)
  closedLogs,\* memtables whose log files were deleted
  l0full,    \* l0_bytes_ of the current version >= l0bytes_stop_writes_trigger > 0
  signalDue, \* partitions the coordinator still has to signal after its installation
  latestGen, \* FlushOrder::latest_generation_id
  impacted,  \* FlushOrder::impacted_dranges_
  reorg,     \* ReorganizeSubranges in progress
  everImpacted, \* history: all dranges that reorganisations announced
  failed     \* NOVA_ASSERTs that failed

l0Vars    == <<l0full, signalDue>>
flushVars == <<queue, batch, fpc, outp>>
orderVars == <<latestGen, impacted, reorg, everImpacted>>
vars == <<mode, loading, part, pmutex, mt, nextMid, nimm, wr, nput, flushVars,
          scan, closedLogs, l0Vars, orderVars, failed>>

NoMemTable == [size |-> 0, pending |-> 0, nent |-> 0, gen |-> 0, part |-> 0,
               sched |-> FALSE, flushed |-> FALSE, built |-> -1]

Init ==
  /\ mode \in Modes
  /\ loading = (MaxLoad > 0)
  /\ part = [p \in Partition |->
       [active |-> p, avail |-> [s \in Slot |-> s], imms |-> [s \in Slot |-> 0],
        slotImm |-> [s \in Slot |-> 0], gens |-> {<<1, p>>}, immIds |-> {}]]
  /\ pmutex = [p \in Partition |-> NoOwner]
  /\ mt = [m \in Mid |-> IF m \in Partition
                         THEN [NoMemTable EXCEPT !.gen = 1, !.part = m] ELSE NoMemTable]
  /\ nextMid = NumPartitions + 1
  /\ nimm = 0
  /\ wr = [w \in Writer |-> [pc |-> "idle", p |-> 0, try |-> 0, mid |-> 0, slot |-> 0]]
  /\ nput = 0
  /\ queue = [t \in FlushThread |-> <<>>]
  /\ batch = [t \in FlushThread |-> <<>>]
  /\ fpc = [t \in FlushThread |-> "idle"]
  /\ outp = [t \in FlushThread |-> <<0, 0>>]
  /\ scan = [part |-> 0, todo |-> <<>>]
  /\ closedLogs = {}
  /\ l0full = FALSE /\ signalDue = {}
  /\ latestGen = 1 /\ impacted = <<>> /\ everImpacted = {}
  /\ reorg = [lo |-> 0, hi |-> 0, next |-> 0, gen |-> 0, done |-> 0]
  /\ failed = {}

-----------------------------------------------------------------------------
(* Partitions and memtables *)

\* the members of S in the sequence s, in their order
Filter(s, S) ==
  LET upto[i \in 0 .. Len(s)] ==
        IF i = 0 THEN <<>> ELSE IF s[i] \in S THEN Append(upto[i - 1], s[i]) ELSE upto[i - 1]
  IN upto[Len(s)]

\* the active memtable becomes immutable in the first free slot
Rotated(q) ==
  LET s == Head(q.avail) IN
  [q EXCEPT !.active = 0, !.avail = Tail(@), !.imms[s] = q.active,
            !.slotImm[s] = q.active, !.immIds = @ \cup {q.active}]

\* a memtable of generation g becomes the active one
Activated(q, m, g) == [q EXCEPT !.active = m, !.gens = @ \cup {<<g, m>>}]

NewMemTable(p, g) == [NoMemTable EXCEPT !.gen = g, !.part = p]

\* SignalAll on background_work_finished_signal_ of p
SignalAll(p, ws) ==
  [w \in Writer |-> IF ws[w].pc = "wait" /\ ws[w].p = p
                    THEN [ws[w] EXCEPT !.pc = "lock"] ELSE ws[w]]

-----------------------------------------------------------------------------
(* Flush order *)

Older(p, g) == \E e \in part[p].gens : e[1] < g

\* the dranges of the collection that concern a memtable of generation g of p
Concerned(p, g) == {d \in Range(impacted) : p \in d.lo .. d.hi /\ g >= d.gen}

IsSafeToFlush(p, g) ==
  ~OrderedFlush \/ \A d \in Concerned(p, g) : \A q \in d.lo .. d.hi : ~Older(q, d.gen)

\* the partition mutexes that IsSafeToFlush acquires, one after the other
SafetyLocks(p, g) ==
  IF OrderedFlush THEN UNION {d.lo .. d.hi : d \in Concerned(p, g)} ELSE {}

UpdatedDranges(d) ==
  Filter(impacted, {e \in Range(impacted) : \A q \in e.lo .. e.hi : ~Older(q, e.gen)}) \o <<d>>

-----------------------------------------------------------------------------
(* ScheduleFlushMemTableTask: memtable m in slot s of p goes to thread t.   *)
(* mts is the table of memtables, which the caller may have changed before. *)

Task(m, p, s, merge) == [mid |-> m, part |-> p, slot |-> s, merge |-> merge]

Merges(p) == mode = "subrange" /\ ~loading /\ p \in MergeParts

\* mutant: is_scheduled_for_flushing is not tested
ScheduleFlushAgain(m, p, s, merge, mts, t) ==
  /\ mt' = [mts EXCEPT ![m].sched = TRUE]
  /\ queue' = [queue EXCEPT ![t] = Append(@, Task(m, p, s, merge))]
  /\ UNCHANGED failed

ScheduleFlush(m, p, s, merge, mts, t) ==
  IF m = 0 THEN /\ failed' = failed \cup {"imm"}
                /\ mt' = mts
                /\ UNCHANGED queue
  ELSE LET go == IsSafeToFlush(p, mts[m].gen) /\ ~mts[m].sched IN
       /\ mt' = IF go THEN [mts EXCEPT ![m].sched = TRUE] ELSE mts
       /\ queue' = IF go THEN [queue EXCEPT ![t] = Append(@, Task(m, p, s, merge))] ELSE queue
       /\ UNCHANGED failed

-----------------------------------------------------------------------------
(* Writers *)

Successor(p) == (p % NumPartitions) + 1

\* DBImpl::Put down to the first call of WriteStaticPartition
StartPut(w) ==
  /\ wr[w].pc = "idle"
  /\ \/ loading /\ w = Loader /\ nput < MaxLoad
     \/ ~loading /\ nput < MaxLoad + MaxPut
  /\ nput' = nput + 1
  /\ \E p \in (IF loading THEN {1} ELSE Partition) :
       wr' = [wr EXCEPT ![w] =
         [pc |-> "lock", p |-> p, mid |-> 0, slot |-> 0,
          try |-> IF loading \/ mode = "subrange" \/ NumPartitions = 1 THEN 2 ELSE 0]]
  /\ UNCHANGED <<mode, loading, part, pmutex, mt, nextMid, nimm, flushVars, scan,
                 closedLogs, l0Vars, orderVars, failed>>

ShouldWait(w) == wr[w].try = 2

\* w has the mutex of its partition and, if there is an active memtable, room in L0
Locked(w) ==
  /\ wr[w].pc = "lock" /\ pmutex[wr[w].p] = NoOwner
  /\ l0full => part[wr[w].p].active = 0

Full(m) == mt[m].size > BufferSize

\* mutant: a full memtable is rotated in spite of pending writes
CanRotateAlways(m) == TRUE

CanRotate(m) == mt[m].pending = 0

\* no slot: give up at this partition, or wait for a flush
Blocked(w) ==
  IF ShouldWait(w) THEN [wr[w] EXCEPT !.pc = "wait"]
  ELSE [wr[w] EXCEPT !.try = @ + 1,
                     !.p = IF wr[w].try = 1 THEN Successor(Successor(@)) ELSE Successor(@)]

\* mutant: the slot that was filled on the way is forgotten
WriteForgetsSlot(w, m, s, mts) ==
  /\ mt' = [mts EXCEPT ![m].size = @ + 1, ![m].pending = @ + 1]
  /\ wr' = [wr EXCEPT ![w].pc = "log", ![w].mid = m, ![w].slot = 0]

\* The write itself, into memtable m, slot s having been filled on the way.  With
\* log records the mutex is released and the memtable holds a pending write.
Write(w, m, s, mts) ==
  IF LogRecords /\ ~loading
  THEN /\ mt' = [mts EXCEPT ![m].size = @ + 1, ![m].pending = @ + 1]
       /\ wr' = [wr EXCEPT ![w].pc = "log", ![w].mid = m, ![w].slot = s]
  ELSE /\ mt' = [mts EXCEPT ![m].size = @ + 1, ![m].nent = @ + 1]
       /\ wr' = [wr EXCEPT ![w].pc = IF s = 0 THEN "idle" ELSE "sched",
                           ![w].mid = m, ![w].slot = s]

UseActive(w) ==
  LET m == part[wr[w].p].active IN
  /\ Locked(w) /\ m # 0 /\ ~Full(m)
  /\ Write(w, m, 0, mt)
  /\ UNCHANGED <<mode, loading, part, pmutex, nextMid, nimm, nput, flushVars, scan,
                 closedLogs, l0Vars, orderVars, failed>>

WaitForPending(w) ==
  LET m == part[wr[w].p].active IN
  /\ Locked(w) /\ m # 0 /\ Full(m) /\ ~CanRotate(m)
  /\ wr' = [wr EXCEPT ![w].pc = "wait"]
  /\ UNCHANGED <<mode, loading, part, pmutex, mt, nextMid, nimm, nput, flushVars, scan,
                 closedLogs, l0Vars, orderVars, failed>>

\* the active memtable is full, or there is none, and a slot remains for the next one
CreateMemTable(w) ==
  LET p == wr[w].p
      q == part[p]
      full == q.active # 0
      s == IF full THEN Head(q.avail) ELSE 0
      r == IF full THEN Rotated(q) ELSE q
  IN
  /\ Locked(w) /\ q.avail # <<>> /\ nextMid <= MaxMid
  /\ full => Full(q.active) /\ CanRotate(q.active)
  /\ r.avail # <<>>
  /\ part' = [part EXCEPT ![p] = Activated(r, nextMid, latestGen)]
  /\ nextMid' = nextMid + 1
  /\ nimm' = IF full THEN nimm + 1 ELSE nimm
  /\ failed' = failed \cup (IF full /\ q.imms[s] # 0 THEN {"partitioned_imms"} ELSE {})
  /\ Write(w, nextMid, s, [mt EXCEPT ![nextMid] = NewMemTable(p, latestGen)])
  /\ UNCHANGED <<mode, loading, pmutex, nput, flushVars, scan, closedLogs, l0Vars, orderVars>>

\* The full memtable takes the last slot and is scheduled with the mutex held.  Under
\* ordered flushes IsSafeToFlush may lock the same mutex once more.
TakeLastSlot(w) ==
  LET p == wr[w].p
      q == part[p]
      m == q.active
  IN
  /\ Locked(w) /\ m # 0 /\ Full(m) /\ CanRotate(m) /\ Len(q.avail) <= 1
  /\ IF q.avail = <<>>
     THEN /\ failed' = failed \cup {"available_slots"}
          /\ wr' = [wr EXCEPT ![w].pc = "aborted"]
          /\ UNCHANGED <<part, nimm, pmutex, mt, queue>>
     ELSE /\ part' = [part EXCEPT ![p] = Rotated(q)]
          /\ nimm' = nimm + 1
          /\ IF p \in SafetyLocks(p, mt[m].gen)
             THEN /\ pmutex' = [pmutex EXCEPT ![p] = w]
                  /\ wr' = [wr EXCEPT ![w].pc = "stuck"]
                  /\ UNCHANGED <<mt, queue, failed>>
             ELSE /\ \E t \in FlushThread : ScheduleFlush(m, p, Head(q.avail), Merges(p), mt, t)
                  /\ wr' = [wr EXCEPT ![w] = Blocked(w)]
                  /\ UNCHANGED pmutex
  /\ UNCHANGED <<mode, loading, nextMid, nput, batch, fpc, outp, scan, closedLogs, l0Vars, orderVars>>

NoSlot(w) ==
  LET q == part[wr[w].p] IN
  /\ Locked(w) /\ q.active = 0 /\ q.avail = <<>>
  /\ wr' = [wr EXCEPT ![w] = Blocked(w)]
  /\ UNCHANGED <<mode, loading, part, pmutex, mt, nextMid, nimm, nput, flushVars, scan,
                 closedLogs, l0Vars, orderVars, failed>>

\* mutant: writers that wait for the pending writes are not woken
WakesNobody(m, mts) == FALSE

Wakes(m, mts) == mts[m].pending = 0 /\ mts[m].size > BufferSize

\* GenerateLogRecord returns, the mutex is taken again, the write is applied
AddAfterLog(w) ==
  LET p == wr[w].p
      m == wr[w].mid
      mts == [mt EXCEPT ![m].pending = @ - 1, ![m].nent = @ + 1]
      ws == [wr EXCEPT ![w].pc = IF wr[w].slot = 0 THEN "idle" ELSE "sched"]
  IN
  /\ wr[w].pc = "log" /\ pmutex[p] = NoOwner
  /\ mt' = mts
  /\ wr' = IF Wakes(m, mts) THEN SignalAll(p, ws) ELSE ws
  /\ UNCHANGED <<mode, loading, part, pmutex, nextMid, nimm, nput, flushVars, scan,
                 closedLogs, l0Vars, orderVars, failed>>

\* after the unlock: partitioned_imms_[imm_slot] is read once more, without the mutex
ScheduleImm(w) ==
  LET p == wr[w].p
      m == part[p].imms[wr[w].slot]
  IN
  /\ wr[w].pc = "sched"
  /\ m # 0 => \A q \in SafetyLocks(p, mt[m].gen) : pmutex[q] = NoOwner
  /\ \E t \in FlushThread : ScheduleFlush(m, p, wr[w].slot, Merges(p), mt, t)
  /\ wr' = [wr EXCEPT ![w].pc = "idle"]
  /\ UNCHANGED <<mode, loading, part, pmutex, nextMid, nimm, nput, batch, fpc, outp, scan,
                 closedLogs, l0Vars, orderVars>>

-----------------------------------------------------------------------------
(* Background flush threads: NovaLSMCompactionThread and PerformCompaction *)

MergeTasks(t) == Filter(batch[t], {k \in Range(batch[t]) : k.merge})
PartsOf(ks)   == {k.part : k \in Range(ks)}
Of(ks, p)     == Filter(ks, {k \in Range(ks) : k.part = p})

\* the queue is taken as a whole; its merges come first
TakeTasks(t) ==
  /\ fpc[t] = "idle" /\ queue[t] # <<>>
  /\ batch' = [batch EXCEPT ![t] = queue[t]]
  /\ queue' = [queue EXCEPT ![t] = <<>>]
  /\ fpc' = [fpc EXCEPT ![t] = IF \E k \in Range(queue[t]) : k.merge THEN "merge" ELSE "build"]
  /\ UNCHANGED <<mode, loading, part, pmutex, mt, nextMid, nimm, wr, nput, outp, scan,
                 closedLogs, l0Vars, orderVars, failed>>

\* mutant: partitioned_imms_ keeps the memtable
FreedNotCleared(q, ks) ==
  [q EXCEPT !.avail = @ \o [i \in DOMAIN ks |-> ks[i].slot], !.immIds = {}]

\* the sequence of tasks ks hands its slots back
Freed(q, ks) ==
  LET slots == {k.slot : k \in Range(ks)}
      mids  == {q.imms[s] : s \in slots}
  IN [q EXCEPT !.imms = [s \in Slot |-> IF s \in slots THEN 0 ELSE @[s]],
               !.avail = @ \o [i \in DOMAIN ks |-> ks[i].slot],
               !.gens = @ \ {<<mt[m].gen, m>> : m \in mids \ {0}},
               !.immIds = {}]

\* mutant: slot_imm_id keeps the slot
SlotNotErased(q, ks) == q

SlotErased(q, ks) ==
  [q EXCEPT !.slotImm = [s \in Slot |-> IF s \in {k.slot : k \in Range(ks)} THEN 0 ELSE @[s]]]

\* the NOVA_ASSERTs on the way of freeing the slots of ks
FreeFailures(q, ks) ==
  (IF \E k \in Range(ks) : q.imms[k.slot] = 0 THEN {"immid"} ELSE {})
  \cup (IF \E k \in Range(ks) : q.imms[k.slot] # 0
                /\ <<mt[q.imms[k.slot]].gen, q.imms[k.slot]>> \notin q.gens
        THEN {"generation"} ELSE {})
  \cup (IF Len(q.avail) + Len(ks) > NumSlots THEN {"imm_slots"} ELSE {})

EraseFailures(q, ks) ==
  IF \E k \in Range(ks) : q.slotImm[k.slot] = 0 THEN {"slot_imm_id"} ELSE {}

FlushFailures(ks) == IF \E k \in Range(ks) : mt[k.mid].flushed THEN {"is_flushed"} ELSE {}

SetFlushed(ks, mts) ==
  [m \in Mid |-> IF m \in {k.mid : k \in Range(ks)} THEN [mts[m] EXCEPT !.flushed = TRUE] ELSE mts[m]]

Built(ks, mts) ==
  [m \in Mid |-> IF m \in {k.mid : k \in Range(ks)} THEN [mts[m] EXCEPT !.built = mts[m].nent] ELSE mts[m]]

\* CompactMultipleMemTablesStaticPartitionToMemTable, up to the mutex: the merge
\* reads the memtables of partition p into a new one
MergeBuild(t, p) ==
  /\ fpc[t] = "merge" /\ p \in PartsOf(MergeTasks(t)) /\ nextMid <= MaxMid
  /\ nextMid' = nextMid + 1
  /\ mt' = [Built(Of(MergeTasks(t), p), mt) EXCEPT ![nextMid] = NewMemTable(p, latestGen)]
  /\ fpc' = [fpc EXCEPT ![t] = "merged"]
  /\ outp' = [outp EXCEPT ![t] = <<p, nextMid>>]
  /\ UNCHANGED <<mode, loading, part, pmutex, nimm, wr, nput, queue, batch, scan,
                 closedLogs, l0Vars, orderVars, failed>>

\* ... and under the mutex: the output is the active memtable if there is none, else
\* it stays immutable in the first slot.  slot_imm_id keeps the freed slots, and
\* number_of_immutable_memtables_ is left alone (-tasks.size() + start_id is 0).
MergeInstall(t) ==
  /\ fpc[t] = "merged"
  /\ LET p  == outp[t][1]
         o  == outp[t][2]
         ks == Of(MergeTasks(t), p)
         q  == part[p]
         keep == q.active # 0
         rest == IF keep THEN Tail(ks) ELSE ks
         s  == Head(ks).slot
         q1 == IF keep THEN [q EXCEPT !.imms[s] = o, !.slotImm[s] = o] ELSE [q EXCEPT !.active = o]
         q2 == [q1 EXCEPT !.gens = @ \cup {<<mt[o].gen, o>>}]
         left == Filter(batch[t], {k \in Range(batch[t]) : ~(k.merge /\ k.part = p)})
     IN
     /\ pmutex[p] = NoOwner
     /\ mt' = SetFlushed(ks, mt)
     /\ failed' = failed \cup FlushFailures(ks) \cup FreeFailures(q2, rest)
     /\ part' = [part EXCEPT ![p] = Freed(q2, rest)]
     /\ closedLogs' = closedLogs \cup q.immIds
     /\ wr' = IF q.avail = <<>> THEN SignalAll(p, wr) ELSE wr
     /\ batch' = [batch EXCEPT ![t] = left]
     /\ fpc' = [fpc EXCEPT ![t] = IF left = <<>> THEN "idle"
                                  ELSE IF \E k \in Range(left) : k.merge THEN "merge" ELSE "build"]
  /\ UNCHANGED <<mode, loading, pmutex, nextMid, nimm, nput, queue, outp, scan, l0Vars, orderVars>>

\* CompactMemTableStaticPartition writes the SSTables of all the memtables
FlushBuild(t) ==
  /\ fpc[t] = "build"
  /\ mt' = Built(batch[t], mt)
  /\ fpc' = [fpc EXCEPT ![t] = "install"]
  /\ UNCHANGED <<mode, loading, part, pmutex, nextMid, nimm, wr, nput, queue, batch, outp, scan,
                 closedLogs, l0Vars, orderVars, failed>>

\* the new version, under DBImpl::mutex_; it may bring L0 to the limit
FlushInstall(t) ==
  /\ fpc[t] = "install"
  /\ mt' = SetFlushed(batch[t], mt)
  /\ failed' = failed \cup FlushFailures(batch[t])
  /\ l0full' \in {l0full} \cup (IF L0Stop THEN {TRUE} ELSE {})
  /\ fpc' = [fpc EXCEPT ![t] = "cleanup"]
  /\ UNCHANGED <<mode, loading, part, pmutex, nextMid, nimm, wr, nput, queue, batch, outp, scan,
                 closedLogs, signalDue, orderVars>>

\* mutants: the count of immutable memtables is decremented twice, or not at all
CountTwice(ks) == nimm - 2 * Len(ks)
CountKept(ks) == nimm

CountAfterFlush(ks) == nimm - Len(ks)

\* one partition after the other gets its slots back
FlushCleanup(t, p) ==
  LET ks == Of(batch[t], p)
      q  == part[p]
      left == Filter(batch[t], {k \in Range(batch[t]) : k.part # p})
  IN
  /\ fpc[t] = "cleanup" /\ ks # <<>> /\ pmutex[p] = NoOwner
  /\ failed' = failed \cup FreeFailures(q, ks) \cup EraseFailures(q, ks)
  /\ part' = [part EXCEPT ![p] = SlotErased(Freed(q, ks), ks)]
  /\ nimm' = CountAfterFlush(ks)
  /\ closedLogs' = closedLogs \cup q.immIds
  /\ wr' = IF q.avail = <<>> THEN SignalAll(p, wr) ELSE wr
  /\ batch' = [batch EXCEPT ![t] = left]
  /\ fpc' = [fpc EXCEPT ![t] = IF left = <<>> THEN "idle" ELSE "cleanup"]
  /\ UNCHANGED <<mode, loading, pmutex, mt, nextMid, nput, queue, outp, scan, l0Vars, orderVars>>

-----------------------------------------------------------------------------
(* FlushMemTables(flush_active_memtable), partition by partition and then task by *)
(* task: TRUE in the loader, which repeats it until nothing is immutable, FALSE   *)
(* in the cleaner thread that ordered flushes come with.                          *)

FlushMemTables(flushActive) ==
  LET p == scan.part
      q == part[p]
      rotate == flushActive /\ q.active # 0 /\ mt[q.active].nent > 0 /\ q.avail # <<>>
      q1 == IF rotate THEN Activated(Rotated(q), nextMid, latestGen) ELSE q
      held == Filter([s \in Slot |-> s], {s \in Slot : q1.slotImm[s] # 0})
  IN
  /\ p \in Partition /\ pmutex[p] = NoOwner /\ (rotate => nextMid <= MaxMid)
  /\ part' = [part EXCEPT ![p] = q1]
  /\ mt' = IF rotate THEN [mt EXCEPT ![nextMid] = NewMemTable(p, latestGen)]
           ELSE IF flushActive /\ q.active # 0 THEN [mt EXCEPT ![q.active].gen = latestGen] ELSE mt
  /\ nextMid' = IF rotate THEN nextMid + 1 ELSE nextMid
  /\ nimm' = IF rotate THEN nimm + 1 ELSE nimm
  /\ failed' = failed
       \cup (IF rotate /\ q.imms[Head(q.avail)] # 0 THEN {"partitioned_imms"} ELSE {})
       \cup (IF \E s \in Slot : q1.slotImm[s] \notin {0, q1.imms[s]} THEN {"slot_imm"} ELSE {})
  /\ scan' = [part |-> p + 1,
              todo |-> scan.todo
                \o (IF rotate THEN <<Task(q.active, p, Head(q.avail), FALSE)>> ELSE <<>>)
                \o [i \in DOMAIN held |-> Task(q1.slotImm[held[i]], p, held[i], FALSE)]]
  /\ UNCHANGED <<mode, loading, pmutex, wr, nput, flushVars, closedLogs, l0Vars, orderVars>>

ScheduleScanned ==
  /\ scan.part > NumPartitions /\ scan.todo # <<>>
  /\ LET k == Head(scan.todo) IN
     /\ \A q \in SafetyLocks(k.part, mt[k.mid].gen) : pmutex[q] = NoOwner
     /\ \E t \in FlushThread : ScheduleFlush(k.mid, k.part, k.slot, FALSE, mt, t)
  /\ scan' = [scan EXCEPT !.todo = Tail(@)]
  /\ UNCHANGED <<mode, loading, part, pmutex, nextMid, nimm, wr, nput, batch, fpc, outp,
                 closedLogs, l0Vars, orderVars>>

\* LoadDataWithRangePartition: after its writes
LoaderFlushes ==
  /\ loading /\ nput = MaxLoad /\ wr[Loader].pc = "idle"
  /\ scan.part = 0 \/ (scan.part > NumPartitions /\ scan.todo = <<>> /\ nimm > 0)
  /\ scan' = [part |-> 1, todo |-> <<>>]
  /\ UNCHANGED <<mode, loading, part, pmutex, mt, nextMid, nimm, wr, nput, flushVars,
                 closedLogs, l0Vars, orderVars, failed>>

LoadComplete ==
  /\ loading /\ scan.part > NumPartitions /\ scan.todo = <<>> /\ nimm = 0
  /\ loading' = FALSE
  /\ scan' = [part |-> 0, todo |-> <<>>]
  /\ UNCHANGED <<mode, part, pmutex, mt, nextMid, nimm, wr, nput, flushVars,
                 closedLogs, l0Vars, orderVars, failed>>

WriterStep(w) ==
  \/ UseActive(w) \/ WaitForPending(w) \/ CreateMemTable(w) \/ TakeLastSlot(w)
  \/ NoSlot(w) \/ AddAfterLog(w) \/ ScheduleImm(w)

FlushStep(t) ==
  \/ TakeTasks(t) \/ MergeInstall(t) \/ FlushBuild(t) \/ FlushInstall(t)
  \/ \E p \in Partition : MergeBuild(t, p) \/ FlushCleanup(t, p)

LoadStep == LoaderFlushes \/ (loading /\ FlushMemTables(TRUE)) \/ ScheduleScanned \/ LoadComplete

\* every Put has returned and nothing is left to do
Done ==
  /\ nput = MaxLoad + MaxPut /\ \A w \in Writer : wr[w].pc = "idle"
  /\ \A t \in FlushThread : fpc[t] = "idle" /\ queue[t] = <<>>
  /\ UNCHANGED vars

Next ==
  \/ \E w \in Writer : StartPut(w) \/ WriterStep(w)
  \/ \E t \in FlushThread : FlushStep(t)
  \/ LoadStep
  \/ Done

Fairness ==
  /\ \A w \in Writer : WF_vars(WriterStep(w))
  /\ WF_vars(StartPut(Loader))
  /\ \A t \in FlushThread : WF_vars(FlushStep(t))
  /\ WF_vars(LoadStep)

Spec == Init /\ [][Next]_vars /\ Fairness

-----------------------------------------------------------------------------
(* With l0bytes_stop_writes_trigger writers wait for L0 to shrink.  They check under the *)
(* partition mutex; CleanupLSMCompaction installs the version and signals without it.    *)

L0Check(w) ==
  /\ wr[w].pc = "lock" /\ pmutex[wr[w].p] = NoOwner
  /\ l0full /\ part[wr[w].p].active # 0
  /\ pmutex' = [pmutex EXCEPT ![wr[w].p] = w]
  /\ wr' = [wr EXCEPT ![w].pc = "l0"]
  /\ UNCHANGED <<mode, loading, part, mt, nextMid, nimm, nput, flushVars, scan, closedLogs,
                 l0Vars, orderVars, failed>>

L0Wait(w) ==
  /\ wr[w].pc = "l0"
  /\ pmutex' = [pmutex EXCEPT ![wr[w].p] = NoOwner]
  /\ wr' = [wr EXCEPT ![w].pc = "wait"]
  /\ UNCHANGED <<mode, loading, part, mt, nextMid, nimm, nput, flushVars, scan, closedLogs,
                 l0Vars, orderVars, failed>>

L0Compacted ==
  /\ l0full /\ signalDue = {}
  /\ l0full' = FALSE /\ signalDue' = Partition
  /\ UNCHANGED <<mode, loading, part, pmutex, mt, nextMid, nimm, wr, nput, flushVars, scan,
                 closedLogs, orderVars, failed>>

SignalPartition(p) ==
  /\ p \in signalDue
  /\ signalDue' = signalDue \ {p}
  /\ wr' = SignalAll(p, wr)
  /\ UNCHANGED <<mode, loading, part, pmutex, mt, nextMid, nimm, nput, flushVars, scan,
                 closedLogs, l0full, orderVars, failed>>

CompactionStep == L0Compacted \/ \E p \in Partition : SignalPartition(p)

StallNext == Next \/ CompactionStep \/ \E w \in Writer : L0Check(w) \/ L0Wait(w)

StallSpec ==
  /\ Init /\ [][StallNext]_vars /\ Fairness
  /\ WF_vars(CompactionStep) /\ \A w \in Writer : WF_vars(L0Check(w) \/ L0Wait(w))

-----------------------------------------------------------------------------
(* Ordered flushes: reorganisations of the dranges, and the cleaner thread *)

StartReorg(lo, hi) ==
  /\ ~loading /\ reorg.next = 0 /\ reorg.done < MaxReorg /\ lo <= hi /\ hi > 1
  /\ reorg' = [reorg EXCEPT !.lo = lo, !.hi = hi, !.next = lo, !.gen = latestGen + 1]
  /\ UNCHANGED <<mode, loading, part, pmutex, mt, nextMid, nimm, wr, nput, flushVars, scan,
                 closedLogs, l0Vars, latestGen, impacted, everImpacted, failed>>

\* ReorganizeSubranges rotates the active memtables of the impacted dranges.  It counts
\* and schedules nothing, and it fills the slot even when it is the last.
ReorgRotate ==
  LET p == reorg.next
      q == part[p]
      m == q.active
      rotate == m # 0 /\ mt[m].nent > 0 /\ q.avail # <<>>
  IN
  /\ p \in Partition /\ p <= reorg.hi /\ pmutex[p] = NoOwner /\ (rotate => nextMid <= MaxMid)
  /\ part' = IF rotate THEN [part EXCEPT ![p] = Activated(Rotated(q), nextMid, reorg.gen)] ELSE part
  /\ mt' = IF rotate THEN [mt EXCEPT ![nextMid] = NewMemTable(p, reorg.gen)]
           ELSE IF m # 0 THEN [mt EXCEPT ![m].gen = reorg.gen] ELSE mt
  /\ nextMid' = IF rotate THEN nextMid + 1 ELSE nextMid
  /\ failed' = failed \cup (IF rotate /\ q.imms[Head(q.avail)] # 0 THEN {"partitioned_imms"} ELSE {})
  /\ reorg' = [reorg EXCEPT !.next = p + 1]
  /\ UNCHANGED <<mode, loading, pmutex, nimm, wr, nput, flushVars, scan, closedLogs, l0Vars,
                 latestGen, impacted, everImpacted>>

UpdateImpactedDranges ==
  LET d == [lo |-> reorg.lo, hi |-> reorg.hi, gen |-> reorg.gen] IN
  /\ reorg.next > reorg.hi
  /\ \A e \in Range(impacted) : \A q \in e.lo .. e.hi : pmutex[q] = NoOwner
  /\ impacted' = UpdatedDranges(d)
  /\ everImpacted' = everImpacted \cup {d}
  /\ latestGen' = latestGen + 1
  /\ reorg' = [reorg EXCEPT !.next = 0, !.hi = 0, !.done = @ + 1]
  /\ UNCHANGED <<mode, loading, part, pmutex, mt, nextMid, nimm, wr, nput, flushVars, scan,
                 closedLogs, l0Vars, failed>>

\* LSMTreeCleaner::FlushingMemTables calls FlushMemTables(false) every second
CleanerStarts ==
  /\ ~loading /\ scan.part = 0
  /\ scan' = [part |-> 1, todo |-> <<>>]
  /\ UNCHANGED <<mode, loading, part, pmutex, mt, nextMid, nimm, wr, nput, flushVars,
                 closedLogs, l0Vars, orderVars, failed>>

CleanerEnds ==
  /\ ~loading /\ scan.part > NumPartitions /\ scan.todo = <<>>
  /\ scan' = [part |-> 0, todo |-> <<>>]
  /\ UNCHANGED <<mode, loading, part, pmutex, mt, nextMid, nimm, wr, nput, flushVars,
                 closedLogs, l0Vars, orderVars, failed>>

ReorgStep == ReorgRotate \/ UpdateImpactedDranges \/ \E lo, hi \in Partition : StartReorg(lo, hi)
CleanerStep == CleanerStarts \/ (~loading /\ FlushMemTables(FALSE)) \/ CleanerEnds

OrderedNext == Next \/ ReorgStep \/ CleanerStep

OrderedSpec == Init /\ [][OrderedNext]_vars

-----------------------------------------------------------------------------
(* Properties *)

\* The values every variable of the write path ranges over.
WriteTypeOK ==
  /\ nextMid \in 1 .. MaxMid + 1 /\ nimm \in 0 .. MaxMid
  /\ \A p \in Partition :
       /\ part[p].active \in 0 .. MaxMid /\ part[p].avail \in Seq(Slot)
       /\ part[p].imms \in [Slot -> 0 .. MaxMid] /\ part[p].slotImm \in [Slot -> 0 .. MaxMid]
  /\ \A m \in Mid : mt[m].pending \in 0 .. Cardinality(Writer) /\ mt[m].built \in -1 .. mt[m].nent
  /\ \A w \in Writer : wr[w].pc \in {"idle", "lock", "wait", "log", "sched", "l0", "stuck", "aborted"}
  /\ \A t \in FlushThread : fpc[t] \in {"idle", "merge", "merged", "build", "install", "cleanup"}

Occupied(p) == {s \in Slot : part[p].imms[s] # 0}

\* A slot of a partition is either in available_slots, once, or holds one immutable
\* memtable of that partition, which is not the active one.  Slots are handed back by
\* other threads than the ones that take them.
SlotsConserved ==
  \A p \in Partition :
    LET q == part[p] IN
    /\ \A i, j \in DOMAIN q.avail : q.avail[i] = q.avail[j] => i = j
    /\ Range(q.avail) = Slot \ Occupied(p)
    /\ \A s \in Occupied(p) : q.imms[s] # q.active /\ mt[q.imms[s]].part = p
    /\ \A r, s \in Occupied(p) : q.imms[r] = q.imms[s] => r = s

Tasks == UNION {Range(queue[t]) \cup Range(batch[t]) : t \in FlushThread}

\* From the moment a memtable is rotated into a slot until its flush hands the slot
\* back, the slot holds that memtable: PerformCompaction and the writer that schedules
\* after its unlock read partitioned_imms_ again and find what they left there.
TaskOwnsSlot ==
  /\ \A k \in Tasks : \/ part[k.part].imms[k.slot] = k.mid
                      \/ k.merge /\ mt[k.mid].flushed
  /\ \A w \in Writer : wr[w].pc \in {"log", "sched"} /\ wr[w].slot # 0 =>
       LET m == part[wr[w].p].imms[wr[w].slot] IN m # 0 /\ ~mt[m].sched

\* A memtable takes no write once its SSTable is being built: every write counted in
\* it, those waiting for their log records included, is in the table.
BuiltComplete == \A m \in Mid : mt[m].built # -1 => mt[m].built = mt[m].nent /\ mt[m].pending = 0

\* An immutable memtable is never forgotten: it is scheduled and its task is queued or in
\* progress, or a thread that rotated or scanned it is about to schedule it.  (The output
\* of a merge that stays immutable is the exception: nothing schedules it.)
ImmutableHasOwner ==
  mode = "static" =>
    \A p \in Partition : \A s \in Occupied(p) :
      LET m == part[p].imms[s] IN
      \/ \E k \in Tasks : k.mid = m /\ mt[m].sched
      \/ \E w \in Writer : wr[w].p = p /\ wr[w].slot = s /\ wr[w].pc \in {"log", "sched"}
      \/ \E k \in Range(scan.todo) : k.mid = m

\* No NOVA_ASSERT of the write path, the flush, the merge or FlushMemTables fails.
WriteAssertions == failed = {}

\* Every Put returns: a writer that waits for a slot, or for the pending writes of a
\* full memtable, is signalled.
PutReturns == \A w \in Writer : wr[w].pc = "lock" ~> wr[w].pc = "idle"

\* Loading ends: the loop of FlushMemTables brings the count of immutable memtables to 0.
LoadEnds == <>~loading

\* "Wait if the L0 bytes exceed max": a writer does not go on waiting once L0 is below
\* the limit again.
StallEnds ==
  \A w \in Writer : wr[w].pc = "wait" /\ ~l0full ~> wr[w].pc # "wait" \/ l0full

\* "Safe only if older memtables of all overlapping dranges are flushed": when a flush is
\* scheduled for a memtable, every memtable of the dranges that some reorganisation
\* announced together with the memtable's own, and that is older than that
\* reorganisation, has been flushed.
FlushedInOrder ==
  [][\A t \in FlushThread : Len(queue'[t]) > Len(queue[t]) =>
       LET k == queue'[t][Len(queue'[t])] IN
       \A d \in everImpacted : k.part \in d.lo .. d.hi /\ mt[k.mid].gen >= d.gen =>
         \A n \in Mid : mt[n].part \in d.lo .. d.hi /\ mt[n].gen < d.gen /\ mt[n].nent > 0
                        => mt[n].flushed]_vars

=============================================================================
