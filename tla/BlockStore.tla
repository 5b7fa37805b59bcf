----------------------------- MODULE BlockStore -----------------------------
(***************************************************************************)
(* What the storage components promise to the LSM-tree components that     *)
(* call StoCBlockClient (src/include/leveldb/stoc_client.h): appended      *)
(* blocks are durable when the call returns, a read returns the block that *)
(* was appended, and only a deletion that was asked for removes a file.    *)
(***************************************************************************)
EXTENDS Naturals, Sequences

CONSTANTS Thread, Server, Name, Block, NoBlock

VARIABLES
    store,   \* store[s][n]: the blocks of file n that are on the disk of s
    call,    \* call[t]: what t has asked for and not been told about
    doomed,  \* the files <<n, s>> whose deletion was asked for
    got      \* got[t]: the block the last read of t returned

bsVars == <<store, call, doomed, got>>

Nothing == [op |-> "none"]

Init ==
    /\ store = [s \in Server |-> [n \in Name |-> <<>>]]
    /\ call = [t \in Thread |-> Nothing]
    /\ doomed = {}
    /\ got = [t \in Thread |-> NoBlock]

Holds(s, n, b) == \E i \in 1..Len(store[s][n]) : store[s][n][i] = b

(* InitiateAppendBlock, InitiateReadDataBlock, InitiateReplicateSSTables   *)
(* and every request without an effect on the blocks.                      *)
Ask(t) ==
    /\ call[t] = Nothing
    /\ \/ \E n \in Name, S \in (SUBSET Server) \ {{}}, b \in Block :
            call' = [call EXCEPT ![t] = [op |-> "append", n |-> n, to |-> S, b |-> b]]
       \/ \E n \in Name, s \in Server : \E i \in 1..Len(store[s][n]) :
            call' = [call EXCEPT ![t] = [op |-> "read", n |-> n, s |-> s, i |-> i]]
       \/ \E n \in Name, s, d \in Server :
            call' = [call EXCEPT ![t] = [op |-> "replicate", n |-> n, s |-> s, d |-> d]]
       \/ call' = [call EXCEPT ![t] = [op |-> "other"]]
    /\ UNCHANGED <<store, doomed, got>>

Durable(s, n) ==
    /\ \/ \E t \in Thread :
            /\ call[t].op = "append" /\ call[t].n = n /\ s \in call[t].to
            /\ ~Holds(s, n, call[t].b)
            /\ store' = [store EXCEPT ![s][n] = Append(@, call[t].b)]
       \/ \E t \in Thread :
            /\ call[t].op = "replicate" /\ call[t].n = n /\ call[t].d = s
            /\ store[s][n] = <<>>
            /\ \E b \in Block : store' = [store EXCEPT ![s][n] = <<b>>]
    /\ UNCHANGED <<call, doomed, got>>

Returns(t) ==
    /\ \/ /\ call[t].op = "append"
          /\ \A s \in call[t].to : Holds(s, call[t].n, call[t].b)
          /\ UNCHANGED got
       \/ /\ call[t].op = "read"
          /\ got' = [got EXCEPT ![t] = store[call[t].s][call[t].n][call[t].i]]
       \/ /\ call[t].op = "replicate"
          /\ LET s == call[t].s
                 d == call[t].d
                 n == call[t].n
             IN \/ /\ store[d][n] # <<>>
                   /\ store[s][n] # <<>> => store[d][n] = store[s][n]
                \/ <<n, s>> \in doomed
          /\ UNCHANGED got
       \/ call[t].op = "other" /\ UNCHANGED got
    /\ call' = [call EXCEPT ![t] = Nothing]
    /\ UNCHANGED <<store, doomed>>

AskDelete(N, s) ==
    /\ \A t \in Thread : call[t].op = "read" => call[t].s # s \/ call[t].n \notin N
    /\ doomed' = doomed \cup (N \X {s})
    /\ UNCHANGED <<store, call, got>>

Without(s, N) == [store EXCEPT ![s] = [n \in Name |-> IF n \in N THEN <<>> ELSE @[n]]]

(* A deletion on the caller's own server is carried out by the call.       *)
Deleted(N, s) ==
    /\ \A t \in Thread : call[t].op = "read" => call[t].s # s \/ call[t].n \notin N
    /\ doomed' = doomed \cup (N \X {s})
    /\ store' = Without(s, N)
    /\ UNCHANGED <<call, got>>

Removed(N, s) ==
    /\ N \X {s} \subseteq doomed
    /\ store' = Without(s, N)
    /\ UNCHANGED <<call, doomed, got>>

Next ==
    \/ \E t \in Thread : Ask(t) \/ Returns(t)
    \/ \E n \in Name, s \in Server : Durable(s, n)
    \/ \E N \in SUBSET Name, s \in Server : AskDelete(N, s) \/ Deleted(N, s) \/ Removed(N, s)

Spec == Init /\ [][Next]_bsVars
=============================================================================
