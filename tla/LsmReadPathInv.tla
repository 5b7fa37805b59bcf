--------------------------- MODULE LsmReadPathInv ---------------------------
(***************************************************************************)
(* The inductive invariant behind the safety properties of LsmReadPath, in *)
(* named parts.  LsmReadPath_theorems shows that every step preserves it.  *)
(***************************************************************************)
EXTENDS LsmReadPath

Appended == stage \in {"set", "store", "mark", "collect"}

\* Who holds mutex_, how far its installation is, and where the coordinator is.
Control ==
  /\ mutex = NoOwner <=> stage = "none"
  /\ stage \in {"none", "edit"} => current \in vset
  /\ Appended => current = newVid
  /\ stage = "set" => newVid \notin vset
  /\ stage \in {"store", "mark", "collect"} => newVid \in vset
  /\ stage = "none" => skip = 0
  /\ stage # "none" => newVid \in Vid /\ newVid < nextVid
  /\ stage = "edit" => (\A v \in vset \cup linked : v < newVid) /\ pend \subseteq Mid
  /\ stage = "mark" => mutex = Coordinator
  /\ \A f \in Flusher : fpc[f] = "install" <=> mutex = f
  /\ mutex \in Flusher => pend \subseteq fmem[mutex]
  /\ mutex = Coordinator => cpc \in {"move", "install"}
  /\ cpc = "install" => mutex = Coordinator /\ ccur \subseteq ctodo /\ \A c \in ccur : c.out # {}
  /\ cpc = "move" => \A c \in ctodo : c.out = {}
  /\ cpc = "move" => \A c \in ccur : c.out = c.in0 /\ c.out # {} /\ c.tgt = c.lev + 1
  /\ cpc \in {"idle", "pick", "run", "collect"} => ccur = {}
  /\ cpc \in {"idle", "pick", "collect"} => ctodo = {}
  /\ cpc # "idle" => cvid \in Vid
  /\ cpc = "idle" => cvid = 0

\* Versions: ids are fresh, counts are exact, a version is freed only without references.
Versions ==
  /\ \A v \in vset \cup linked : v < nextVid
  /\ current \in linked
  /\ vset \subseteq linked \cup vdeleted
  /\ vdeleted \subseteq vset
  /\ \A v \in vdeleted : vrefs[v] = 0
  /\ \A r \in Reader : HoldsVersion(r) => rvid[r] \in vset
  /\ cpc \notin {"idle", "collect"} => cvid \in vset
  /\ VersionRefsExact

\* the compactions whose inputs are still to be replaced
Uninstalled == IF mutex = Coordinator /\ stage # "edit" THEN ctodo \ ccur ELSE ctodo \cup ccur

\* What the coordinator picked stays in the current version until it replaces it.
InputsCurrent ==
  /\ cpc = "pick" => \A l \in Level : vfiles[cvid][l] \subseteq vfiles[current][l]
  /\ \A c \in Uninstalled :
       /\ c.lev + 1 \in Level /\ c.tgt \in {c.lev, c.lev + 1}
       /\ c.in0 \subseteq vfiles[current][c.lev] /\ c.in1 \subseteq vfiles[current][c.lev + 1]
  /\ \A c, d \in Uninstalled : c # d => Inputs(c) \cap Inputs(d) = {}
  /\ \A l, o \in Level : l # o => vfiles[current][l] \cap vfiles[current][o] = {}

\* the memtables flushed to a table that is in no version yet
Unborn == UNION {fmem[f] : f \in {g \in Flusher : mutex = g => stage = "edit"}}
\* the compactions whose outputs are in no version yet
Produced == IF mutex = Coordinator /\ stage # "edit" THEN ctodo \ ccur ELSE ctodo

\* Tables that were written and not yet installed are known to nobody else.
FreshFiles ==
  /\ disk \cup compacted \cup deleting \subseteq 1 .. nextFile - 1
  /\ \A v \in Vid : FilesOf(v) \subseteq 1 .. nextFile - 1
  /\ \A f \in Flusher : fmem[f] \subseteq scheduled
  /\ \A f, g \in Flusher : f # g => fmem[f] \cap fmem[g] = {}
  /\ \A m \in Unborn : flushFile[m] \in disk \ (compacted \cup deleting \cup FilesOf(current))
  /\ \A c \in Produced : c.out \subseteq disk \ (compacted \cup deleting \cup FilesOf(current))
  /\ \A m, n \in Unborn : m # n => flushFile[m] # flushFile[n]
  /\ \A c, d \in Produced : c # d => c.out \cap d.out = {}
  /\ \A m \in Unborn, c \in Produced : flushFile[m] \notin c.out

\* level 0 of the version under installation
NextL0 == (vfiles[current][0] \ Deleted(0)) \cup Added(0)

\* The L0 files of a memtable belong to every version from its last change on.
L0Files ==
  /\ \A m \in 0 .. MaxMid : l0[m] \subseteq IF stage = "edit" /\ m \notin pend
                                              THEN NextL0 ELSE vfiles[current][0]
  /\ \A m \in 0 .. MaxMid : \A f \in l0[m] : m \in fmids[f]
  /\ \A v \in vset \ vdeleted, m \in 0 .. MaxMid : lastVid[m] <= v => l0[m] \subseteq vfiles[v][0]
  /\ \A m \in 0 .. MaxMid : lastVid[m] <= IF stage = "edit" THEN newVid ELSE current
  /\ \A m \in Unborn : m \in fmids[flushFile[m]]
  /\ \A c \in Produced : c.tgt = 0 => \A f \in c.out, g \in c.in0 : fmids[g] \subseteq fmids[f]
  /\ \A r \in Reader : rpc[r] = "l0" => rl0[r] \subseteq FilesOf(rvid[r])
  /\ NoIOError

\* No table of a version that a Get holds or can still reference is given to the StoCs
\* for deletion.
FilesKept ==
  /\ FilesOf(current) \subseteq disk \ (compacted \cup deleting)
  /\ \A v \in vset \ vdeleted : v \notin vcompacting \/ Holders(v) # {} =>
       FilesOf(v) \subseteq disk \ deleting
  /\ skip # 0 => skip \in vcompacting /\ Holders(skip) = {}

\* The conjunction is inductive; its parts use each other.
IInv ==
  /\ TypeOK /\ Control /\ Versions /\ InputsCurrent /\ FreshFiles /\ L0Files /\ FilesKept

=============================================================================
