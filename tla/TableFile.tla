----------------------------- MODULE TableFile -----------------------------
(***************************************************************************)
(* The life of an SSTable from the iterator it is built from to the reads  *)
(* it serves: BuildTable and CompactionJob feed a TableBuilder, which cuts *)
(* data blocks and a filter; StoCWritableFileClient cuts the data blocks   *)
(* into groups, scatters or replicates them over StoCs, and writes for     *)
(* each metadata replica a file whose index points at the StoCs; Table     *)
(* opens it and reads single blocks, or a whole table fetched at once.     *)
(*                                                                         *)
(* Bytes are counted in units (an entry has one of Sizes, a restart and a  *)
(* count 1 each, a trailer 1); contents are records.  A StoC gives the     *)
(* fragment of a name a file of its own, at offset 0 (BlockStore).         *)
(***************************************************************************)
EXTENDS Naturals, Sequences, FiniteSets, FiniteSetsExt, SequencesExt

CONSTANTS
    UserKeys,         \* 0 .. n
    MaxEntries,       \* entries in the table
    BlockSize,        \* options.block_size
    Sizes,            \* of an entry, in units
    RestartInterval,  \* options.block_restart_interval
    FilterBase,       \* kFilterBase
    NumStoCs,         \* servers 1 .. NumStoCs
    Layouts           \* the configurations: [scatter, data, meta, parity, policy, prune]

VARIABLES
    layout,           \* the configuration
    input,            \* internal keys the iterator has produced
    b,                \* the TableBuilder
    frag,             \* the fragments: [blocks, off, size]
    placed,           \* the StoCs selected for them
    meta,             \* metadata replicas: [server, file]
    phase

tableVars == <<layout, input, b, frag, placed, meta, phase>>

(***************************************************************************)
(* Internal keys.  2u is the newer version of user key u and 2u + 1 the    *)
(* older one; as a string a key is three digits, the last its version.     *)
(***************************************************************************)
IKeys == {2 * u + v : u \in UserKeys, v \in {0, 1}}
UserKey(k) == k \div 2
Str(k) == <<UserKey(k) \div 2, UserKey(k) % 2, k % 2>>
Val(s) == 4 * s[1] + 2 * s[2] + s[3]

Trailer == 1

(***************************************************************************)
(* Blocks: entries share a prefix with the one before, except at restarts. *)
(***************************************************************************)
EmptyBlock == [ents |-> <<>>, restarts |-> <<1>>, counter |-> 0, last |-> <<>>, size |-> 0]

SharedPrefix(s, t) ==
    Max({0} \cup {n \in 1 .. (IF Len(s) < Len(t) THEN Len(s) ELSE Len(t)) :
                    \A i \in 1 .. n : s[i] = t[i]})

BlockAdd(d, k, size) ==
    LET key == Str(k)
        restart == d.counter >= RestartInterval
        shared == IF restart THEN 0 ELSE SharedPrefix(d.last, key)
    IN [ents |-> Append(d.ents, [shared |-> shared,
                                 delta |-> SubSeq(key, shared + 1, Len(key))]),
        restarts |-> IF restart THEN Append(d.restarts, Len(d.ents) + 1) ELSE d.restarts,
        counter |-> IF restart THEN 1 ELSE d.counter + 1,
        last |-> key,
        size |-> d.size + size]

CurrentSizeEstimate(d) == d.size + Len(d.restarts) + 1

(* Block::Iter: cur is the current entry, past the last one if not valid.  *)
End(d) == Len(d.ents) + 1
Invalid(d) == [cur |-> End(d), ri |-> Len(d.restarts) + 1, key |-> <<>>]
IterValid(d, it) == it.cur < End(d)

SeekToRestartPoint(d, i) == [cur |-> d.restarts[i] - 1, ri |-> i, key |-> <<>>]

ParseNextKey(d, it) ==
    LET p == it.cur + 1
    IN IF p >= End(d) \/ Len(it.key) < d.ents[p].shared THEN Invalid(d)
       ELSE [cur |-> p,
             key |-> SubSeq(it.key, 1, d.ents[p].shared) \o d.ents[p].delta,
             ri |-> Max({it.ri} \cup {i \in it.ri + 1 .. Len(d.restarts) :
                                        d.restarts[i] < p})]

RECURSIVE LastRestartBefore(_, _, _, _), SkipTo(_, _, _), SkipUntil(_, _, _)

(* The binary search for the last restart point with a key below k.        *)
LastRestartBefore(d, k, left, right) ==
    LET mid == (left + right + 1) \div 2
    IN IF left >= right THEN left
       ELSE IF Val(d.ents[d.restarts[mid]].delta) < k
            THEN LastRestartBefore(d, k, mid, right)
       ELSE LastRestartBefore(d, k, left, mid - 1)

(* The linear search for the first key at or past k.                       *)
SkipTo(d, it, k) ==
    LET n == ParseNextKey(d, it)
    IN IF ~IterValid(d, n) \/ Val(n.key) >= k THEN n ELSE SkipTo(d, n, k)

BlockSeek(d, k) == SkipTo(d, SeekToRestartPoint(d, LastRestartBefore(d, k, 1, Len(d.restarts))), k)
BlockFirst(d) == ParseNextKey(d, SeekToRestartPoint(d, 1))

(* Parse until the entry before position p.                                *)
SkipUntil(d, it, p) ==
    LET n == ParseNextKey(d, it)
    IN IF ~IterValid(d, n) \/ n.cur + 1 >= p THEN n ELSE SkipUntil(d, n, p)

BlockLast(d) == SkipUntil(d, SeekToRestartPoint(d, Len(d.restarts)), End(d))

BlockPrev(d, it) ==
    LET before == {i \in 1 .. it.ri : d.restarts[i] < it.cur}
    IN IF before = {} THEN Invalid(d)
       ELSE SkipUntil(d, SeekToRestartPoint(d, Max(before)), it.cur)

(***************************************************************************)
(* FilterBlockBuilder: one filter for each FilterBase of data.             *)
(***************************************************************************)
GenerateFilter(f) == [filters |-> Append(f.filters, f.keys), keys |-> {}]

RECURSIVE StartBlock(_, _)
StartBlock(f, off) ==
    IF off \div FilterBase > Len(f.filters) THEN StartBlock(GenerateFilter(f), off)
    ELSE f

FilterFinish(f) == IF f.keys # {} THEN GenerateFilter(f) ELSE f

KeyMayMatch(filters, off, k) ==
    LET i == off \div FilterBase + 1
    IN i > Len(filters) \/ UserKey(k) \in filters[i]

(***************************************************************************)
(* TableBuilder.                                                           *)
(***************************************************************************)
NewBuilder ==
    [block |-> EmptyBlock, off |-> 0, index |-> <<>>, blocks |-> <<>>,
     pending |-> FALSE, last |-> 0, filter |-> [filters |-> <<>>, keys |-> {}]]

(* Flush: the block is written, and its index entry waits for the next key.*)
FlushBlock(t) ==
    LET size == CurrentSizeEstimate(t.block)
    IN IF t.block.ents = <<>> THEN t
       ELSE [t EXCEPT !.blocks = Append(@, [off |-> t.off, size |-> size,
                                             block |-> t.block]),
                      !.off = @ + size + Trailer,
                      !.block = EmptyBlock,
                      !.pending = TRUE,
                      !.filter = StartBlock(@, t.off + size + Trailer)]

(* The index entry of the last block has the last key added, which is what *)
(* the YCSB comparator leaves of a separator or a successor.               *)
IndexPending(t) ==
    LET last == t.blocks[Len(t.blocks)]
    IN IF ~t.pending THEN t
       ELSE [t EXCEPT !.index = Append(@, [key |-> t.last, off |-> last.off,
                                            size |-> last.size]),
                      !.pending = FALSE]

BuilderAdd(t, k, size) ==
    LET added == [IndexPending(t) EXCEPT !.filter.keys = @ \cup {UserKey(k)},
                                              !.last = k,
                                              !.block = BlockAdd(@, k, size)]
    IN IF CurrentSizeEstimate(added.block) >= BlockSize THEN FlushBlock(added) ELSE added

(* Finish, up to the footer: the filter, the metaindex and the index block *)
(* follow the data.                                                        *)
BuilderFinish(t) ==
    LET f == FlushBlock(t)
    IN [IndexPending(f) EXCEPT !.filter = FilterFinish(f.filter)]

(***************************************************************************)
(* StorageSelector.                                                        *)
(***************************************************************************)
Rotation(n, start) == [i \in 1 .. n |-> ((start + i - 2) % NumStoCs) + 1]

(* The servers SelectStorageServers may return: this server, all of them   *)
(* in order, n in turn from a random one, or the n least loaded of 2n in   *)
(* turn.                                                                   *)
SelectStorageServers(policy, n) ==
    IF policy = "local" THEN {[i \in 1 .. n |-> IF i = 1 THEN 1 ELSE 0]}
    ELSE IF n = NumStoCs THEN {Rotation(n, 1)}
    ELSE IF policy = "random" THEN {Rotation(n, s) : s \in 1 .. NumStoCs}
    ELSE LET candidates == IF 2 * n > NumStoCs THEN NumStoCs ELSE 2 * n
         IN UNION {{q \in [1 .. n -> ToSet(Rotation(candidates, s))] : IsInjective(q)} :
                     s \in 1 .. NumStoCs}

(***************************************************************************)
(* StoCWritableFileClient.                                                 *)
(***************************************************************************)
(* nblocks_in_group_: as even as it can be over the scatter width, or one  *)
(* group when there are too few blocks or several data replicas.           *)
GroupSizes(n) ==
    LET w == layout.scatter
    IN IF layout.data > 1 \/ n < w THEN <<n>>
       ELSE [i \in 1 .. w |-> n \div w + (IF i <= n % w THEN 1 ELSE 0)]

RECURSIVE Before(_, _)
Before(g, i) == IF i = 1 THEN 0 ELSE Before(g, i - 1) + g[i - 1]

Groups(t) ==
    LET g == GroupSizes(Len(t.index))
    IN [i \in DOMAIN g |->
          LET blocks == SubSeq(t.blocks, Before(g, i) + 1, Before(g, i) + g[i])
              last == blocks[Len(blocks)]
          IN [blocks |-> blocks, off |-> blocks[1].off,
              size |-> last.off + last.size + Trailer - blocks[1].off]]

NumToSelect ==
    LET d == Len(GroupSizes(Len(b.index))) + (IF layout.parity THEN 1 ELSE 0)
    IN IF layout.data > 1 THEN layout.data
       ELSE IF d < layout.meta THEN layout.meta ELSE d

(* The handle a StoC answers with for fragment i of data replica r.        *)
ServerOf(r, i) == IF layout.data > 1 THEN placed[r] ELSE placed[i]
Handle(r, i) == [server |-> ServerOf(r, i), file |-> <<"data", r>>, off |-> 0,
                 size |-> frag[i].size]

DataReplica(r) == IF layout.data = 1 THEN 1 ELSE r
Handles(r) == [i \in DOMAIN frag |-> Handle(DataReplica(r), i)]

(* WriteMetaDataBlock: the index of a replica, with the place of each      *)
(* block on its StoC, and the filter; their places in the new file follow  *)
(* from their sizes, counted from the filter at 0.                         *)
StoCIndex(r) ==
    FlattenSeq([i \in DOMAIN frag |->
      [j \in DOMAIN frag[i].blocks |->
         LET at == frag[i].blocks[j]
             entry == b.index[Before([n \in DOMAIN frag |-> Len(frag[n].blocks)], i) + j]
         IN [key |-> entry.key, server |-> Handles(r)[i].server,
             file |-> Handles(r)[i].file,
             off |-> (at.off - frag[i].off) + Handles(r)[i].off,
             size |-> entry.size]]])

FilterSize == 1 + Len(b.filter.filters)

(* The new file holds the filter block, the rewritten metaindex and index  *)
(* blocks and a footer; their handles are computed from the old file's.    *)
MetaFile(r) ==
    LET last == b.index[Len(b.index)]
        filter_start == last.off + last.size + Trailer
        old_metaindex == b.off + FilterSize + Trailer
        filter_size == old_metaindex - filter_start - Trailer
        index_off == filter_size + Trailer + 2 + Trailer
    IN [parts |-> <<[kind |-> "filter", size |-> FilterSize],
                    [kind |-> "metaindex", size |-> 2],
                    [kind |-> "index", size |-> Len(b.index) + 2]>>,
        filter |-> [off |-> 0, size |-> filter_size],
        metaindex |-> [off |-> filter_size + Trailer, size |-> 2],
        index |-> [off |-> index_off, size |-> Len(b.index) + 2],
        entries |-> StoCIndex(r),
        filters |-> b.filter.filters]

(***************************************************************************)
(* The steps.                                                              *)
(***************************************************************************)
TableInit ==
    /\ layout \in Layouts
    /\ input = <<>>
    /\ b = NewBuilder
    /\ frag = <<>> /\ placed = <<>> /\ meta = <<>>
    /\ phase = "build"

(* BuildTable: the next key of the iterator.  When it prunes, an older     *)
(* version of the user key just seen is left out.                          *)
AddEntry(k, size) ==
    /\ phase = "build" /\ Len(input) < MaxEntries
    /\ input # <<>> => k > Last(input)
    /\ input' = Append(input, k)
    /\ b' = IF layout.prune /\ input # <<>> /\ UserKey(Last(input)) = UserKey(k)
            THEN b ELSE BuilderAdd(b, k, size)
    /\ UNCHANGED <<layout, frag, placed, meta, phase>>

FinishTable ==
    /\ phase = "build" /\ input # <<>>
    /\ b' = BuilderFinish(b)
    /\ phase' = "format"
    /\ UNCHANGED <<layout, input, frag, placed, meta>>

(* Sync: Format cuts the table into groups and sends them to their StoCs.  *)
Format ==
    /\ phase = "format"
    /\ frag' = Groups(b)
    /\ placed' \in SelectStorageServers(layout.policy, NumToSelect)
    /\ phase' = "finalize"
    /\ UNCHANGED <<layout, input, b, meta>>

(* Finalize: all fragments are on their StoCs; the metadata replicas go to *)
(* the StoCs of the data replicas, or to random ones.                      *)
Finalize ==
    /\ phase = "finalize"
    /\ \E s \in SelectStorageServers(IF layout.policy = "local" THEN "local" ELSE "random",
                                     layout.meta) :
         meta' = [r \in 1 .. layout.meta |->
                    [server |-> IF layout.data = 1 THEN s[r] ELSE placed[r],
                     file |-> MetaFile(r)]]
    /\ phase' = "done"
    /\ UNCHANGED <<layout, input, b, frag, placed>>

TableStep ==
    \/ \E k \in IKeys, size \in Sizes : AddEntry(k, size)
    \/ FinishTable
    \/ Format
    \/ Finalize

TableNext == TableStep \/ (phase = "done" /\ UNCHANGED tableVars)

(***************************************************************************)
(* Reading the table through metadata replica r.                           *)
(***************************************************************************)
(* What a StoC holds at a place: a block, if one starts there.             *)
BlockAt(server, file, off, size) ==
    LET hits == {<<i, j>> \in UNION {{i} \X DOMAIN frag[i].blocks : i \in DOMAIN frag} :
                   LET at == frag[i].blocks[j]
                   IN /\ \E rep \in 1 .. layout.data :
                           /\ Handle(rep, i).server = server
                           /\ Handle(rep, i).file = file
                      /\ at.off - frag[i].off = off
                      /\ at.size = size}
    IN IF hits = {} THEN EmptyBlock
       ELSE LET h == CHOOSE h \in hits : TRUE IN frag[h[1]].blocks[h[2]].block

(* Table::Open reads the footer, the index, the metaindex and the filter   *)
(* at the offsets the footer and the metaindex give.                       *)
Opens(r) ==
    LET f == meta[r].file
        begin(i) == Before([n \in DOMAIN f.parts |-> f.parts[n].size + Trailer], i)
        reads(h, kind) == \E i \in DOMAIN f.parts :
                            f.parts[i] = [kind |-> kind, size |-> h.size] /\ begin(i) = h.off
    IN reads(f.index, "index") /\ reads(f.metaindex, "metaindex") /\ reads(f.filter, "filter")

(* stoc_file_data_relative_offset.                                         *)
RelativeOffset(r, e) ==
    LET i == CHOOSE i \in DOMAIN frag : /\ Handles(r)[i].server = e.server
                                        /\ Handles(r)[i].file = e.file
    IN Before([n \in DOMAIN frag |-> Handles(r)[n].size], i)

(* As TranslateToDataBlockOffset, without the offset of the fragment.      *)
TranslateWithinFragment(r, e) == e.off

TranslateToDataBlockOffset(r, e) ==
    IF Len(frag) = 1 THEN e.off ELSE RelativeOffset(r, e) + e.off

(* DataBlockReader: with one replica of one fragment the place comes from  *)
(* the version, which knows of a later move.                               *)
DataBlockReader(r, e) ==
    IF layout.meta = 1 /\ Len(frag) = 1
    THEN BlockAt(Handles(1)[1].server, Handles(1)[1].file, e.off, e.size)
    ELSE BlockAt(e.server, e.file, e.off, e.size)

NotFound == 2 * Cardinality(UserKeys)

(* InternalGet for the newest version of a user key: the key found.        *)
InternalGet(r, u) ==
    LET ents == meta[r].file.entries
        hits == {i \in DOMAIN ents : ents[i].key >= 2 * u}
        e == ents[Min(hits)]
        d == DataBlockReader(r, e)
        it == BlockSeek(d, 2 * u)
    IN IF hits = {} THEN NotFound
       ELSE IF ~KeyMayMatch(meta[r].file.filters, TranslateToDataBlockOffset(r, e), 2 * u)
            THEN NotFound
       ELSE IF IterValid(d, it) /\ UserKey(Val(it.key)) = u THEN Val(it.key)
       ELSE NotFound

(* ReadAll brings the fragments of replica 1 into memory one after the     *)
(* other; a block is read where its fragment begins there.  A StoC file    *)
(* that is not in the map counts as beginning at 0.                        *)
LocalOffset(e) ==
    LET is == {i \in DOMAIN frag : Handles(1)[i].server = e.server
                                   /\ Handles(1)[i].file = e.file}
    IN IF is = {} THEN e.off
       ELSE Before([n \in DOMAIN frag |-> frag[n].size], Min(is))
              + (e.off - Handles(1)[Min(is)].off)

PrefetchedBlock(e) ==
    LET hits == {i \in DOMAIN b.blocks : b.blocks[i].off = LocalOffset(e)}
    IN IF hits = {} THEN EmptyBlock ELSE b.blocks[Min(hits)].block

RECURSIVE Walk(_, _, _)
Walk(d, it, back) ==
    IF ~IterValid(d, it) THEN <<>>
    ELSE <<Val(it.key)>> \o
           Walk(d, IF back THEN BlockPrev(d, it) ELSE ParseNextKey(d, it), back)

(* A scan of the table by a compaction.                                    *)
ScanPrefetched(r) ==
    FlattenSeq([i \in DOMAIN meta[r].file.entries |->
                  LET d == PrefetchedBlock(meta[r].file.entries[i])
                  IN Walk(d, BlockFirst(d), FALSE)])

(* ValidateReplicas: metadata replicas on different StoCs, a data replica  *)
(* whole on the StoC of its metadata, the fragments of a single replica on *)
(* different StoCs and the parity on yet another.                          *)
ValidateReplicas ==
    /\ IsInjective([r \in DOMAIN meta |-> meta[r].server])
    /\ IF layout.data > 1
       THEN \A r \in DOMAIN meta, i \in DOMAIN frag :
              Handles(r)[i].server = meta[r].server
       ELSE /\ IsInjective([i \in DOMAIN frag |-> Handles(1)[i].server])
            /\ layout.parity =>
                 \A i \in DOMAIN frag : placed[Len(frag) + 1] # Handles(1)[i].server

Newest(u) ==
    LET vs == {k \in ToSet(input) : UserKey(k) = u}
    IN IF vs = {} THEN NotFound ELSE Min(vs)

Kept ==
    SelectSeq(input, LAMBDA k : ~layout.prune \/ k = Newest(UserKey(k)))

(* Whatever a table is built from, however its blocks fall, however many   *)
(* StoCs it is scattered over and however it is replicated, what is read   *)
(* back is what was put in: a get through any metadata replica finds the   *)
(* newest version of every user key and no other key, with filters cut by  *)
(* offset and block offsets translated from StoC files; a compaction's     *)
(* scan of the prefetched table sees every entry in order; every block     *)
(* walks forward and backward alike; and the placement satisfies what      *)
(* ValidateReplicas asserts.                                               *)
TableReadsBack ==
    phase = "done" =>
      /\ ValidateReplicas
      /\ \A r \in DOMAIN meta :
           /\ Opens(r)
           /\ \A u \in UserKeys : InternalGet(r, u) = Newest(u)
           /\ ScanPrefetched(r) = Kept
      /\ \A i \in DOMAIN b.blocks :
           LET d == b.blocks[i].block
           IN Walk(d, BlockLast(d), TRUE) = Reverse(Walk(d, BlockFirst(d), FALSE))
=============================================================================
