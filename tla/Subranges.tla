------------------------------ MODULE Subranges ------------------------------
(***************************************************************************)
(* Dynamic ranges: SubRanges (src/db/subrange.cpp) and SubRangeManager     *)
(* (src/db/subrange_manager.cpp).  A layout divides the keys of the range  *)
(* [LowerKey, UpperKey) into subranges, one per memtable partition; a      *)
(* subrange is divided into tiny ranges, and a hot key may be a subrange   *)
(* of its own that is duplicated.  Writers route their puts with the       *)
(* published layout and split subranges while there are fewer than         *)
(* partitions; one thread at a time reorganises a private copy of it and   *)
(* publishes the result.                                                   *)
(*                                                                         *)
(* Numbers of insertions are integers of a small scale, ratios are         *)
(* compared by multiplying out.  Between two reorganisations the puts may  *)
(* leave any load on the tiny ranges, so a reorganisation starts with an   *)
(* arbitrary one, and the intervals in sequence numbers between two        *)
(* reorganisations are left open.  An assertion that fails is recorded,    *)
(* and the process stops.                                                  *)
(***************************************************************************)
EXTENDS Naturals, Integers, Sequences, SequencesExt, FiniteSets, FiniteSetsExt

CONSTANTS
    P,             \* num_memtable_partitions
    Alpha,         \* num_tiny_ranges_per_subrange
    LowerKey, UpperKey,
    NumThreads,    \* num_compaction_threads
    NoFlushKeys,   \* subrange_no_flush_num_keys
    Load,          \* bound: insertions of one tiny range
    Rate,          \* bound: rates of a sampled key
    MaxReorgs,     \* bound: reorganisations
    MaxOdd         \* bound: tiny ranges or keys that differ from the common load

VARIABLES
    srs,       \* latest_subranges_
    re,        \* the reorganisation: pc, ref, work (latest_), total, pivot, dup
    impacted,  \* what the last publication said about changed partitions
    broken,    \* assertions that failed
    reorgs     \* reorganisations so far

subVars == <<srs, re, impacted, broken, reorgs>>

Keys == LowerKey..(UpperKey - 1)
Tiny(lo, hi, d, n) == [lo |-> lo, hi |-> hi, d |-> d, n |-> n]
NewSubRange(tiny, d) == [tiny |-> tiny, d |-> d, from |-> 0, to |-> 0, merge |-> FALSE]
Lower(s) == Head(s.tiny).lo
Upper(s) == Last(s.tiny).hi
NKeys(s) == Upper(s) - Lower(s)
RECURSIVE SumTiny(_), Total(_), NumTiny(_)
SumTiny(tiny) == IF tiny = <<>> THEN 0 ELSE Head(tiny).n + SumTiny(Tail(tiny))
Inserts(s) == SumTiny(s.tiny)
Total(L) == IF L = <<>> THEN 0 ELSE Inserts(Head(L)) + Total(Tail(L))
NumTiny(L) == IF L = <<>> THEN 0 ELSE Len(Head(L).tiny) + NumTiny(Tail(L))
IsAPoint(s) == Len(s.tiny) = 1 /\ NKeys(s) = 1
HasKey(s, k) == Lower(s) <= k /\ k < Upper(s)
Mostly(S, V) ==
    {f \in [S -> V] : \E v \in V : Cardinality({x \in S : f[x] # v}) <= MaxOdd}
Failing(ok, what) == IF ok THEN {} ELSE {what}

(* The copy of a layout keeps neither ratios nor the compaction threads.   *)
CopySubRanges(L) == [i \in DOMAIN L |-> NewSubRange(L[i].tiny, L[i].d)]
Unloaded(L) == [i \in DOMAIN L |-> [L[i] EXCEPT !.tiny = [j \in DOMAIN @ |-> [@[j] EXCEPT !.n = 0]]]]

RangeEquals(s, t) == Lower(s) = Lower(t) /\ Upper(s) = Upper(t)
Bounds(s) == <<s.d, [j \in DOMAIN s.tiny |-> <<s.tiny[j].lo, s.tiny[j].hi, s.tiny[j].d>>]>>
Equals(s, t) == Bounds(s) = Bounds(t)

-----------------------------------------------------------------------------
(* Searching.                                                              *)

RECURSIVE Bisect(_, _, _, _)
Bisect(L, k, l, r) ==
    LET m == l + (r - l) \div 2
    IN CASE l > r -> 0
         [] l <= r /\ k < Lower(L[m]) -> Bisect(L, k, l, m - 1)
         [] l <= r /\ k >= Upper(L[m]) -> Bisect(L, k, m + 1, r)
         [] OTHER -> m

BinarySearch(L, k) == Bisect(L, k, 1, Len(L))

(* The subranges a put of k may be sent to: 0 when none is found, and an   *)
(* arbitrary one of the duplicates of a subrange.                          *)
BinarySearchWithDuplicate(L, k) ==
    LET m == BinarySearch(L, k)
        first == CHOOSE i \in 1..m : /\ \A j \in i..m : Equals(L[j], L[m])
                                     /\ i > 1 => ~Equals(L[i - 1], L[m])
    IN IF m = 0 \/ L[m].d = 0 THEN {m} ELSE first..(first + L[m].d - 1)

RECURSIVE AllTiny(_)
AllTiny(L) == IF L = <<>> THEN <<>> ELSE Head(L).tiny \o AllTiny(Tail(L))

(* AssertSubrangeBoundary: groups of duplicates are complete, contiguous   *)
(* points; other tiny ranges follow each other without overlapping.        *)
AssertSubrangeBoundary(L) ==
    LET all == AllTiny(L)
        group(i) == {j \in 1..Len(L) : L[j].d > 0 /\ Lower(L[j]) = Lower(L[i])}
    IN /\ \A i \in 1..Len(L) :
            /\ L[i].tiny # <<>>
            /\ \A j \in 1..Len(L[i].tiny) : L[i].tiny[j].d = L[i].d
            /\ L[i].d > 0 => IsAPoint(L[i]) /\ Cardinality(group(i)) = L[i].d
       /\ \A i \in 1..Len(all) - 1 :
            IF all[i + 1].lo = all[i].lo
            THEN all[i + 1].hi = all[i].hi /\ all[i].d > 0 /\ all[i + 1].d > 0
            ELSE all[i + 1].lo >= all[i].hi /\ all[i + 1].hi > all[i + 1].lo

(* Subranges with few keys merge their memtables on a thread of their own. *)
ComputeCompactionThreadsAssignment(L) ==
    LET small(i) == NKeys(L[i]) <= NoFlushKeys
        before(i) == Cardinality({j \in 1..i - 1 : small(j)})
    IN IF NoFlushKeys = 0 THEN [i \in DOMAIN L |-> [L[i] EXCEPT !.to = NumThreads - 1]]
       ELSE [i \in DOMAIN L |-> IF small(i)
               THEN [L[i] EXCEPT !.merge = TRUE, !.from = before(i), !.to = before(i)]
               ELSE [L[i] EXCEPT !.merge = FALSE, !.from = before(Len(L) + 1), !.to = NumThreads - 1]]

(* GetCompactionThreadId: the threads a memtable of s may be given to.     *)
GetCompactionThreadId(s) == IF s.from = s.to THEN {s.from} ELSE s.from..s.to

(* Equal parts, or when there are too few keys every key duplicated.       *)
ConstructSubrangesWithUniform ==
    LET nkeys == UpperKey - LowerKey
        per == nkeys \div P
        dups == P \div nkeys
        d == IF dups = 1 THEN 0 ELSE dups
        point(i) == LowerKey + (i - 1) \div dups
    IN IF nkeys < P
       THEN [i \in 1..(nkeys * dups) |-> NewSubRange(<<Tiny(point(i), point(i) + 1, d, 0)>>, d)]
       ELSE [i \in 1..P |-> NewSubRange(<<Tiny(LowerKey + (i - 1) * per,
                                IF i = P THEN UpperKey ELSE LowerKey + i * per, 0, 0)>>, 0)]

-----------------------------------------------------------------------------
(* Building ranges from a sample: rate[k] for the keys k of its domain.    *)

(* cur + rate > share_per_range, where share_per_range was set to          *)
(* tot / (num - size); size_t wraps around, and x / 0.0 is no number.      *)
ExceedsShare(x, tot, size, num) ==
    CASE size < num -> x * (num - size) > tot
      [] size = num -> FALSE
      [] size > num -> x > 0

RECURSIVE SumRates(_, _)
SumRates(rate, S) == IF S = {} THEN 0 ELSE LET k == CHOOSE k \in S : TRUE IN rate[k] + SumRates(rate, S \ {k})

(* A range ends at next, where the following one starts with tot left.     *)
CloseRange(a, hi, next, tot) ==
    [a EXCEPT !.rs = Append(@, Tiny(a.lo, hi, 0, a.cur)), !.lo = next, !.tot = tot, !.cur = 0,
              !.sTot = tot, !.sSize = Len(a.rs) + 1]

(* The range below the hot key k, then the duplicates of k.                *)
HotKey(a, k, rate, dups) ==
    LET b == IF a.lo < k THEN Append(a.rs, Tiny(a.lo, k, 0, a.cur)) ELSE a.rs
        c == b \o [i \in 1..dups |-> Tiny(k, k + 1, dups, 0)]
    IN [a EXCEPT !.rs = c, !.lo = k + 1, !.tot = @ - rate, !.cur = 0,
                 !.sTot = a.tot - rate, !.sSize = Len(c)]

(* A key that would take the current range above its share closes it.      *)
FullRange(a, k, rate, num) ==
    LET alone == a.lo = k
        b == IF alone THEN CloseRange(a, k + 1, k + 1, a.tot - rate) ELSE CloseRange(a, k, k, a.tot)
    IN IF Len(b.rs) + 1 = num THEN [b EXCEPT !.stop = TRUE]
       ELSE IF alone THEN b ELSE [b EXCEPT !.cur = rate, !.tot = @ - rate]

RECURSIVE ScanKeys(_, _, _, _, _, _, _)
ScanKeys(a, k, upper, rate, total, num, isSub) ==
    IF k = upper \/ a.stop THEN a
    ELSE ScanKeys(
           CASE k \notin DOMAIN rate -> a
             [] k \in DOMAIN rate /\ isSub /\ rate[k] * num >= total ->
                  HotKey(a, k, rate[k], (rate[k] * num + total - 1) \div total)
             [] OTHER ->
                  IF ExceedsShare(a.cur + rate[k], a.sTot, a.sSize, num) THEN FullRange(a, k, rate[k], num)
                  ELSE [a EXCEPT !.cur = @ + rate[k], !.tot = @ - rate[k]],
           k + 1, upper, rate, total, num, isSub)

ConstructRanges(rate, lower, upper, num, isSub) ==
    LET total == SumRates(rate, DOMAIN rate)
        end == ScanKeys([rs |-> <<>>, lo |-> lower, cur |-> 0, tot |-> total, sTot |-> total,
                         sSize |-> 0, stop |-> FALSE], lower, upper, rate, total, num, isSub)
        rs == IF isSub \/ end.lo < upper THEN Append(end.rs, Tiny(end.lo, upper, 0, 0)) ELSE end.rs
    IN [ok |-> IF isSub THEN Len(rs) = num ELSE Len(rs) <= num,
        rs |-> [[rs EXCEPT ![1].lo = lower] EXCEPT ![Len(rs)].hi = upper]]

Part(rate, lo, hi) == [k \in {k \in DOMAIN rate : lo <= k /\ k < hi} |-> rate[k]]

(* MajorReorg, once the rates of the sampled keys are known: P ranges, and *)
(* every one with more than one key divided again.                         *)
MajorReorg(rate) ==
    LET c == ConstructRanges(rate, LowerKey, UpperKey, P, TRUE)
        parts == [i \in 1..Len(c.rs) |->
                    LET r == c.rs[i]
                    IN IF r.hi - r.lo > 1
                       THEN ConstructRanges(Part(rate, r.lo, r.hi), r.lo, r.hi, Alpha, FALSE)
                       ELSE [ok |-> TRUE, rs |-> <<r>>]]
    IN [ok |-> c.ok /\ \A i \in DOMAIN parts : parts[i].ok,
        L |-> [i \in DOMAIN parts |-> NewSubRange(parts[i].rs, Head(parts[i].rs).d)]]
MajorResults == {MajorReorg(rate) : rate \in UNION {Mostly(S, Rate) : S \in kSubset(2 * P + 1, Keys)}}

-----------------------------------------------------------------------------
(* Changing a layout L that carries loads; T is the total load.            *)

(* The same with the numbers of duplicates left alone.                     *)
MoveShareKeepsCount(L, i) ==
    LET group == {j \in 1..Len(L) : L[j].d > 0 /\ Lower(L[j]) = Lower(L[i])}
        share == Inserts(L[i]) \div (Max(group) - Min(group))
    IN [ok |-> L[i].d = Max(group) - Min(group) + 1,
        L |-> RemoveAt([j \in 1..Len(L) |->
                IF j \in Min(group)..Max(group)
                THEN [L[j] EXCEPT !.tiny[1].n = @ + share]
                ELSE L[j]], i)]

(* MoveShareForDuplicateSubRange and the erasure of subrange i.            *)
MoveShareForDuplicateSubRange(L, i) ==
    LET group == {j \in 1..Len(L) : L[j].d > 0 /\ Lower(L[j]) = Lower(L[i])}
        share == Inserts(L[i]) \div (Max(group) - Min(group))
        d == IF L[i].d = 2 THEN 0 ELSE L[i].d - 1
    IN [ok |-> L[i].d = Max(group) - Min(group) + 1,
        L |-> RemoveAt([j \in 1..Len(L) |->
                IF j \in Min(group)..Max(group)
                THEN [L[j] EXCEPT !.d = d, !.tiny[1].d = d, !.tiny[1].n = @ + share]
                ELSE L[j]], i)]

(* DestroyDuplicates(i, false): a duplicate with less than half its share. *)
DestroyDuplicates(L, T, i) == L[i].d > 0 /\ 2 * Inserts(L[i]) * P < T

(* PushTinyRanges: the tiny ranges of subrange i go to its neighbours, the *)
(* first one in direction dir and the others to the neighbour with less    *)
(* load, until it is empty or, if stop, about to fall below its share.     *)
RECURSIVE PushFrom(_, _, _, _, _, _)
PushFrom(L, T, i, dir, stop, moved) ==
    LET left == i > 1 /\ L[i - 1].d = 0
        right == i < Len(L) /\ L[i + 1].d = 0
        first == Head(L[i].tiny)
        last == Last(L[i].tiny)
        leftLoad == IF left THEN Inserts(L[i - 1]) ELSE T
        rightLoad == IF right THEN Inserts(L[i + 1]) ELSE T
        wish == CASE dir = "left" -> TRUE
                  [] dir = "right" -> FALSE
                  [] dir = "load" -> leftLoad + first.n < rightLoad + last.n
        goLeft == IF wish THEN left ELSE ~right
        piece == IF goLeft THEN first ELSE last
        enough == stop /\ moved > 0 /\ (Inserts(L[i]) - piece.n) * P < T
        next == IF goLeft
                THEN [L EXCEPT ![i - 1].tiny = Append(@, first), ![i].tiny = Tail(@)]
                ELSE [L EXCEPT ![i + 1].tiny = <<last>> \o @, ![i].tiny = Front(@)]
    IN IF L[i].tiny = <<>> THEN [L |-> RemoveAt(L, i), moved |-> moved]
       ELSE IF enough \/ (moved = 0 /\ leftLoad = T /\ rightLoad = T)
       THEN [L |-> L, moved |-> moved]
       ELSE PushFrom(next, T, i, "load", stop, moved + 1)

PushTinyRanges(L, T, i, dir, stop) == PushFrom(L, T, i, dir, stop, 0)

(* The end of CreateDuplicates: too many subranges, so those with the      *)
(* least load are dissolved, except the duplicates of key.                 *)
RECURSIVE Shrink(_, _, _, _)
Shrink(L, T, key, dirs) ==
    LET others == {i \in 1..Len(L) : ~(Len(L[i].tiny) = 1 /\ Lower(L[i]) = key) /\ Inserts(L[i]) < T}
        least == CHOOSE i \in others : \A j \in others :
                   Inserts(L[i]) < Inserts(L[j]) \/ (Inserts(L[i]) = Inserts(L[j]) /\ i <= j)
        left == least > 1
        right == least < Len(L)
        mergeLeft == left /\ (right => Inserts(L[least - 1]) < Inserts(L[least + 1]))
        near == IF mergeLeft THEN least - 1 ELSE least + 1
        victim == CASE L[least].d > 0 -> least
                    [] L[least].d = 0 /\ L[near].d > 0 -> near
                    [] OTHER -> 0
        m == MoveShareForDuplicateSubRange(L, victim)
    IN IF Len(L) <= P THEN [ok |-> TRUE, L |-> L]
       ELSE IF others = {} THEN [ok |-> FALSE, L |-> L]
       ELSE IF victim = 0 THEN Shrink(PushTinyRanges(L, T, least, dirs[Len(L)], FALSE).L, T, key, dirs)
       ELSE IF ~m.ok THEN [ok |-> FALSE, L |-> L]
       ELSE Shrink(m.L, T, key, dirs)

(* The number of duplicates CreateDuplicates adds to subrange i.           *)
NewDuplicates(L, T, i) ==
    IF IsAPoint(L[i]) /\ 2 * Inserts(L[i]) * P > 3 * T THEN (Inserts(L[i]) * P) \div T - 1 ELSE 0

CreateDuplicates(L, T, i, dirs) ==
    LET new == NewDuplicates(L, T, i)
        key == Lower(L[i])
        total == IF L[i].d = 0 THEN new + 1 ELSE L[i].d + new
        share == Inserts(L[i]) \div (new + 1)
        old == [j \in 1..Len(L) |->
                 IF j = i \/ (L[i].d > 0 /\ L[j].d > 0 /\ RangeEquals(L[i], L[j]))
                 THEN [L[j] EXCEPT !.d = total, !.tiny[1].d = total] ELSE L[j]]
        kept == [old EXCEPT ![i].tiny[1].n = @ - new * share]
        dup == NewSubRange(<<Tiny(key, key + 1, total, share)>>, total)
    IN Shrink(SubSeq(kept, 1, i) \o [j \in 1..new |-> dup] \o SubSeq(kept, i + 1, Len(kept)),
              T, key, dirs)

(* More than 20% above, or away from, a fair share of total among n.       *)
Above(x, T, n) == 5 * (x * n - T) > T
Unfair(x, T, n) == Above(x, T, n) \/ 5 * (T - x * n) > T
MoreThan30Percent(x, n) == 10 * x > 3 * n

(* MinorSampling: the tiny ranges of subrange i from a sample of its keys. *)
WantsSample(L, T, i) ==
    MoreThan30Percent(Cardinality({j \in DOMAIN L[i].tiny : Unfair(L[i].tiny[j].n, T, Len(L[i].tiny))}),
                      Len(L[i].tiny))
MinorSampling(L, i, rate) ==
    LET c == ConstructRanges(rate, Lower(L[i]), Upper(L[i]), Alpha, FALSE)
        total == SumRates(rate, DOMAIN rate)
    IN IF Cardinality(DOMAIN rate) <= 2 * Alpha THEN [ok |-> TRUE, L |-> L]
       ELSE [ok |-> c.ok,
             L |-> [L EXCEPT ![i].tiny = [j \in DOMAIN c.rs |->
                      [c.rs[j] EXCEPT !.n = (@ * Inserts(L[i])) \div total]]]]

-----------------------------------------------------------------------------
(* Writers.                                                                *)

(* The first tiny ranges of a subrange stay, the others go to a new one.   *)
SplitSubRange(L, i, k) ==
    LET s == L[i].tiny
        m == Len(s) \div 2
        halves == IF Len(s) = 1
                  THEN <<<<[s[1] EXCEPT !.hi = k]>>, <<[s[1] EXCEPT !.lo = k]>>>>
                  ELSE <<SubSeq(s, 1, m), SubSeq(s, m + 1, Len(s))>>
    IN [L |-> SubSeq(L, 1, i - 1) \o <<NewSubRange(halves[1], L[i].d), NewSubRange(halves[2], 0)>>
                \o SubSeq(L, i + 1, Len(L)),
        id |-> IF k >= Last(halves[1]).hi THEN i + 1 ELSE i]

(* SearchSubranges of a put of k, and the search of the tiny range that    *)
(* counts the put; with all subranges there it takes no lock.              *)
SearchSubranges(k) ==
    /\ broken = {}
    /\ \E i \in BinarySearchWithDuplicate(srs, k) :
         LET split == Len(srs) < P /\ i > 0 /\ k # Lower(srs[i])
             new == CASE split -> SplitSubRange(CopySubRanges(srs), i, k)
                      [] ~split /\ Len(srs) < P -> [L |-> CopySubRanges(srs), id |-> i]
                      [] OTHER -> [L |-> srs, id |-> i]
         IN /\ i > 0
            /\ srs' = new.L
            /\ broken' = Failing(AssertSubrangeBoundary(new.L), "search boundary")
                         \cup Failing(HasKey(new.L[new.id], k), "route")
    /\ UNCHANGED <<re, impacted, reorgs>>
-----------------------------------------------------------------------------
(* ReorganizeSubranges.                                                    *)

NoReorg == [pc |-> "idle", ref |-> <<>>, work |-> <<>>, total |-> 0, pivot |-> 0, changed |-> FALSE]

Loaded(L, load) ==
    [i \in DOMAIN L |-> [L[i] EXCEPT !.tiny =
       [j \in DOMAIN @ |-> [@[j] EXCEPT !.n = load[NumTiny(SubSeq(L, 1, i - 1)) + j]]]]]

SubInit ==
    /\ srs = ComputeCompactionThreadsAssignment(ConstructSubrangesWithUniform)
    /\ re = NoReorg
    /\ impacted = <<0, 0>>
    /\ broken = {}
    /\ reorgs = 0

(* The pointer to the layout is read before range_lock_ is taken for the   *)
(* copy.  A copy without load makes every comparison false.                *)
StartReorganize ==
    /\ broken = {} /\ re.pc = "idle" /\ reorgs < MaxReorgs
    /\ reorgs' = reorgs + 1
    /\ UpperKey - LowerKey > P
    /\ \E load \in Mostly(1..NumTiny(srs), Load) :
         LET L == Loaded(CopySubRanges(srs), load)
         IN /\ Total(L) > 0
            /\ re' = [pc |-> "duplicates", ref |-> srs, work |-> L, total |-> Total(L),
                      pivot |-> 1, changed |-> FALSE]
    /\ UNCHANGED <<srs, impacted, broken>>

(* One turn of the loop over the subranges.  After CreateDuplicates the    *)
(* reference sr of the loop may dangle: it then matches no subrange.       *)
ReorganizeDuplicates ==
    LET L == re.work
        i == re.pivot
        d == MoveShareForDuplicateSubRange(L, i)
    IN /\ broken = {} /\ re.pc = "duplicates" /\ i <= Len(L)
       /\ \/ /\ DestroyDuplicates(L, re.total, i)
             /\ re' = [re EXCEPT !.work = d.L, !.changed = TRUE]
             /\ broken' = Failing(d.ok /\ AssertSubrangeBoundary(d.L), "destroy duplicates")
          \/ /\ ~DestroyDuplicates(L, re.total, i) /\ NewDuplicates(L, re.total, i) > 0
             /\ \E dirs \in [P + 1..2 * P -> {"left", "right"}] :
                  LET c == CreateDuplicates(L, re.total, i, dirs)
                      same == {j \in 1..Len(c.L) : i <= Len(c.L) /\ Equals(c.L[j], c.L[i])}
                  IN /\ \E last \in {i} \cup (IF same = {} THEN {} ELSE {Max(same)}) :
                          re' = [re EXCEPT !.work = c.L, !.changed = TRUE, !.pivot = last + 1]
                     /\ broken' = Failing(c.ok /\ AssertSubrangeBoundary(c.L), "create duplicates")
          \/ /\ ~DestroyDuplicates(L, re.total, i) /\ NewDuplicates(L, re.total, i) = 0
             /\ re' = [re EXCEPT !.pivot = @ + 1]
             /\ UNCHANGED broken
       /\ UNCHANGED <<srs, impacted, reorgs>>

UnfairSubranges == {i \in DOMAIN re.work : Unfair(Inserts(re.work[i]), re.total, P) /\ ~IsAPoint(re.work[i])}
WantsMajor == MoreThan30Percent(Cardinality(UnfairSubranges), Len(re.work))
MostUnfair ==
    LET above == {i \in DOMAIN re.work : Above(Inserts(re.work[i]), re.total, P)}
    IN IF above = {} THEN 0
       ELSE CHOOSE i \in above : \A j \in above :
              Inserts(re.work[j]) < Inserts(re.work[i]) \/ (Inserts(re.work[j]) = Inserts(re.work[i]) /\ i <= j)

(* Where the duplicates are done, or the interval is too short for them.   *)
DuplicatesDone == re.pivot > Len(re.work)
AtDecision == /\ broken = {} /\ re.pc = "duplicates"
              /\ DuplicatesDone \/ (re.pivot = 1 /\ ~re.changed)

Result(pc, L) == [NoReorg EXCEPT !.pc = pc, !.ref = re.ref, !.work = Unloaded(L)]

(* MajorReorg with more than 2P sampled keys, else the copy is dropped.    *)
ReorganizeMajor ==
    /\ AtDecision /\ WantsMajor
    /\ \/ \E m \in MajorResults :
            re' = IF m.ok THEN Result("reorged", m.L)
                  ELSE [NoReorg EXCEPT !.pc = "stopped"]
       \/ re' = NoReorg
    /\ UNCHANGED <<srs, impacted, broken, reorgs>>

(* MinorRebalancePush: sample the subrange, push tiny ranges away; when    *)
(* nothing can be pushed only earlier changes count.                       *)
ReorganizeMinor ==
    /\ AtDecision /\ DuplicatesDone /\ MostUnfair > 0
    /\ LET i == MostUnfair
           keys == {k \in Keys : HasKey(re.work[i], k)}
           samples == IF Len(re.work[i].tiny) > 1 /\ WantsSample(re.work, re.total, i)
                      THEN {[k \in {} |-> 0]} \cup Mostly(keys, Rate) ELSE {[k \in {} |-> 0]}
       IN \E rate \in samples, dir \in {"left", "right"} :
            LET m == MinorSampling(re.work, i, rate)
                p == PushTinyRanges(m.L, re.total, i, dir, TRUE)
            IN re' = CASE Len(re.work[i].tiny) = 1 ->
                            IF re.changed THEN Result("kept", re.work) ELSE NoReorg
                       [] Len(re.work[i].tiny) > 1 /\ ~m.ok -> [NoReorg EXCEPT !.pc = "stopped"]
                       [] Len(re.work[i].tiny) > 1 /\ m.ok /\ p.moved > 0 -> Result("reorged", p.L)
                       [] OTHER -> IF re.changed THEN Result("kept", p.L) ELSE NoReorg
    /\ UNCHANGED <<srs, impacted, broken, reorgs>>

(* Neither is due.                                                         *)
ReorganizeNeither ==
    /\ AtDecision
    /\ re' = IF re.changed THEN Result("reorged", re.work) ELSE NoReorg
    /\ UNCHANGED <<srs, impacted, broken, reorgs>>

(* The partitions whose range differs between the layouts L and M.         *)
ImpactedDranges(L, M) ==
    LET differ == {i \in DOMAIN L : i \in DOMAIN M /\ ~RangeEquals(L[i], M[i])}
    IN IF Len(L) # Len(M) \/ Len(L) < P THEN <<1, P>>
       ELSE IF differ = {} THEN <<0, 0>> ELSE <<Min(differ), Max(differ)>>

(* Compaction threads (and the manifest) only after the last step changed  *)
(* the layout; then impacted partitions, and the new layout.               *)
Publish ==
    LET L == IF re.pc = "reorged" THEN ComputeCompactionThreadsAssignment(re.work) ELSE re.work
    IN /\ broken = {} /\ re.pc \in {"reorged", "kept"}
       /\ broken' = Failing(NoFlushKeys > 0 => NumThreads >= Len(L), "threads")
                    \cup Failing(AssertSubrangeBoundary(L), "publish boundary")
                    \cup Failing(\A i \in 1..Len(srs) : Len(L) = P /\ Len(srs) = P =>
                                   RangeEquals(L[i], srs[i]) \/ i \in ImpactedDranges(re.ref, L)[1]..ImpactedDranges(re.ref, L)[2],
                                 "impacted")
       /\ impacted' = ImpactedDranges(re.ref, L)
       /\ srs' = L
       /\ re' = NoReorg
       /\ UNCHANGED reorgs

(* Encode and Decode of a migration: what is not encoded starts over.      *)
MigrateSubranges ==
    /\ broken = {} /\ re.pc = "idle"
    /\ srs' = ComputeCompactionThreadsAssignment(CopySubRanges(srs))
    /\ UNCHANGED <<re, impacted, broken, reorgs>>

(* An assertion of ConstructRanges failed.                                 *)
Aborted == (re.pc = "stopped" \/ broken # {}) /\ UNCHANGED subVars

SubNext ==
    \/ \E k \in Keys : SearchSubranges(k)
    \/ StartReorganize \/ ReorganizeDuplicates
    \/ ReorganizeMajor \/ ReorganizeMinor \/ ReorganizeNeither
    \/ Publish \/ MigrateSubranges
    \/ Aborted
-----------------------------------------------------------------------------
(* Whatever the puts and reorganisations do to it, the published layout    *)
(* covers the keys of the range without a gap with at most P subranges;    *)
(* every put is found a subrange that has its key, whichever duplicate is  *)
(* drawn, and in it a tiny range; a thread that merges memtables of a      *)
(* small subrange serves no other subrange; and of the assertions of the   *)
(* code none but that of ConstructRanges on the number of ranges can fail. *)
SubrangesRoute ==
    /\ broken = {}
    /\ Len(srs) \in 1..P
    /\ Lower(srs[1]) = LowerKey /\ Upper(Last(srs)) = UpperKey
    /\ \A k \in Keys : \A i \in BinarySearchWithDuplicate(srs, k) :
         /\ i \in 1..Len(srs) /\ HasKey(srs[i], k)
         /\ \E j \in DOMAIN srs[i].tiny : srs[i].tiny[j].lo <= k /\ k < srs[i].tiny[j].hi
    /\ \A i, j \in 1..Len(srs) :
         /\ GetCompactionThreadId(srs[i]) # {}
         /\ GetCompactionThreadId(srs[i]) \subseteq 0..NumThreads - 1
         /\ i # j /\ srs[i].merge =>
              GetCompactionThreadId(srs[i]) \cap GetCompactionThreadId(srs[j]) = {}
=============================================================================
