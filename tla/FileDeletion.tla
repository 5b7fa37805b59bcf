---------------------------- MODULE FileDeletion ----------------------------
(***************************************************************************)
(* Who deletes the SSTables that compactions replaced, and when.           *)
(*                                                                         *)
(* LsmReadPath lets the delete_obsolete_files task run at any time.  In    *)
(* the code it runs once for every time it was scheduled: by the           *)
(* coordinator at the end of a batch that leaves tables behind; by the     *)
(* task itself, if no log records are written; by the cleaner thread every *)
(* few seconds, if the servers were started with several configurations.   *)
(* Every step of this module is a step of LsmReadPath or changes the queue *)
(* of the task alone, so what holds of LsmReadPath!Spec holds here.        *)
(***************************************************************************)
EXTENDS LsmReadPath

CONSTANT Modes  \* the settings the servers may be started with

ASSUME ModesOK == Modes \subseteq {"log_none", "rdma_log", "rdma_log_several_cfgs"}

VARIABLES
  mode,   \* log_record_mode and whether NovaConfig::cfgs has several configurations
  queued  \* a delete_obsolete_files task is queued (the thread takes all it finds at once)

deletionVars == <<vars, mode, queued>>

LogNone == mode = "log_none"
SeveralCfgs == mode = "rdma_log_several_cfgs"

DeletionInit == Init /\ mode \in Modes /\ queued = FALSE

Unscheduled(A) == A /\ UNCHANGED <<mode, queued>>

\* everything but the coordinator and the task
Others ==
  \/ \E w \in Writer : Write(w)
  \/ \E p \in Partition : Rotate(p) \/ NewMemTable(p)
  \/ \E f \in Flusher : Flush(f)
  \/ Install
  \/ \E f \in Fn : DeleteFile(f)
  \/ \E r \in Reader : Get(r)

\* the coordinator; at the end of a batch it schedules the task for the tables that are left
Coordinate ==
  /\ Compact
  /\ queued' = (queued \/ (cpc = "collect" /\ compacted' # {}))
  /\ UNCHANGED mode

\* mutant: a task that leaves tables behind does not try again
RescheduleNever == FALSE

\* "log_record_mode == LOG_NONE && !compacted_tables_.empty()"
Reschedule == LogNone /\ compacted' # {}

\* PerformCompaction on delete_obsolete_files
RunDeletionTask ==
  /\ queued /\ mutex = NoOwner
  /\ IF compacted # {} THEN DeleteObsoleteFiles ELSE UNCHANGED vars
  /\ queued' = Reschedule
  /\ UNCHANGED mode

\* one round of LSMTreeCleaner::CleanLSM: DBImpl::ScheduleFileDeletionTask
CleanLSM ==
  /\ SeveralCfgs /\ mutex = NoOwner /\ compacted # {}
  /\ queued' = TRUE
  /\ UNCHANGED <<vars, mode>>

DeletionNext == Unscheduled(Others) \/ Coordinate \/ RunDeletionTask \/ CleanLSM

\* Threads keep running once they have work; clients need not call Get or Put again.
Fairness ==
  /\ \A f \in Flusher : WF_deletionVars(Unscheduled(Flush(f)))
  /\ WF_deletionVars(Unscheduled(Install))
  /\ WF_deletionVars(Coordinate) /\ WF_deletionVars(RunDeletionTask) /\ WF_deletionVars(CleanLSM)
  /\ WF_deletionVars(Unscheduled(\E f \in Fn : DeleteFile(f)))
  /\ \A r \in Reader : WF_deletionVars(Unscheduled(rpc[r] # "idle" /\ Get(r)))

DeletionSpec == DeletionInit /\ [][DeletionNext]_deletionVars /\ Fairness

\* the coordinator waits for an id beyond the bounds
OutOfIds == cpc # "idle" /\ (nextVid > MaxVid \/ nextFile > MaxFile)

\* Tables that were replaced are handed to the StoCs and deleted by them, although a Get may
\* have held the last version with them when the coordinator and its task came to collect:
\* somebody comes again (unless the coordinator is stuck at a bound of the model).
ObsoleteFilesDeleted == compacted # {} ~> compacted \cup deleting = {} \/ OutOfIds

=============================================================================
