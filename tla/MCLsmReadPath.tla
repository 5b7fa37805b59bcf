---------------------------- MODULE MCLsmReadPath ----------------------------
(* Instances of LsmReadPath for TLC. *)
EXTENDS LsmReadPathInv, TLC

\* Gets, writers and partitions differ in nothing but their names
Symmetry == Permutations(Reader) \cup Permutations(Writer) \cup Permutations(Partition)

\* A range in use.  Keys 1 and 2 were written to memtables 1 and 2, which were flushed
\* together (version 2); their tables moved to level 1 (version 3), where they lie side by
\* side.  Both keys were then written to memtable 3 and key 1 to memtable 4, and these were
\* flushed together (version 4).  Memtable 5 has the last write of key 2 and is to be
\* flushed.  Init leads here.
Crowded ==
  /\ lastSeq = 7
  /\ wpc = [w \in Writer |-> "idle"]
  /\ wkey = [w \in Writer |-> 0] /\ wseq = [w \in Writer |-> 0] /\ wmid = [w \in Writer |-> 0]
  /\ nextMid = 6 /\ active = [p \in Partition |-> 0]
  /\ entries = [m \in Mid |-> IF m = 5 THEN {<<2, 6>>} ELSE {}]
  /\ mrefs = [m \in Mid |-> IF m = 5 THEN 1 ELSE 0]
  /\ inMem = {5} /\ flushed = 1 .. 4
  /\ lastVid = [m \in 0 .. MaxMid |-> IF m \in 1 .. 2 THEN 3 ELSE IF m \in 3 .. 4 THEN 4 ELSE 0]
  /\ l0 = [m \in 0 .. MaxMid |-> IF m \in 3 .. 4 THEN {m} ELSE {}]
  /\ lookup = [k \in Key |-> IF k = 1 THEN 4 ELSE 5]
  /\ committed = [k \in Key |-> IF k = 1 THEN 5 ELSE 6]
  /\ nextFile = 5
  /\ content = [f \in Fn |-> CASE f = 1 -> {<<1, 1>>} [] f = 2 -> {<<2, 2>>}
                               [] f = 3 -> {<<1, 3>>, <<2, 4>>} [] f = 4 -> {<<1, 5>>}
                               [] OTHER -> {}]
  /\ fmids = [f \in Fn |-> IF f \in 3 .. 4 THEN {f} ELSE {}]
  /\ disk = 1 .. 4 /\ compacted = {} /\ deleting = {}
  /\ nextVid = 5
  /\ vfiles = [v \in Vid |-> [l \in Level |-> CASE v = 3 /\ l = 1 -> {1, 2}
                                                [] v = 4 /\ l = 0 -> {3, 4}
                                                [] v = 4 /\ l = 1 -> {1, 2} [] OTHER -> {}]]
  /\ vrefs = [v \in Vid |-> IF v = 4 THEN 1 ELSE 0]
  /\ vset = 1 .. 4 /\ vdeleted = 1 .. 3 /\ vcompacting = {2} /\ linked = {3, 4}
  /\ current = 4 /\ currentId = 4
  /\ mutex = NoOwner /\ stage = "none" /\ newVid = 0 /\ pend = {} /\ skip = 0
  /\ fpc = [f \in Flusher |-> "idle"] /\ fmem = [f \in Flusher |-> {}]
  /\ flushFile = [m \in Mid |-> 0] /\ scheduled = 1 .. 4
  /\ cpc = "idle" /\ cvid = 0 /\ ctodo = {} /\ ccur = {}
  /\ rpc = [r \in Reader |-> "idle"] /\ rkey = [r \in Reader |-> 0]
  /\ rmid = [r \in Reader |-> 0] /\ rvid = [r \in Reader |-> 0]
  /\ rl0 = [r \in Reader |-> {}] /\ rres = [r \in Reader |-> 0] /\ rneed = [r \in Reader |-> 0]

\* LsmReadPath from there on
CrowdedSpec == Crowded /\ [][Next]_vars

=============================================================================
