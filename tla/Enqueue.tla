------------------------------- MODULE Enqueue ------------------------------
(***************************************************************************)
(* What POST /jobs promises its caller, whatever it is built from: a job   *)
(* is acknowledged only once it is stored, nothing is handed to the worker *)
(* that was not stored, and a stored job is handed over at least once.     *)
(* Module Outbox implements it with a transactional outbox and a relay.    *)
(***************************************************************************)
EXTENDS Naturals

CONSTANT Jobs

VARIABLES
    stored,     \* the jobs that survive a crash
    acked,      \* the jobs whose client was answered 202 Accepted
    copies      \* how many times each job was handed to the worker's queue

vars == <<stored, acked, copies>>

Init == stored = {} /\ acked = {} /\ copies = [j \in Jobs |-> 0]

Store(j) == stored' = stored \cup {j} /\ UNCHANGED <<acked, copies>>

Ack(j) == j \in stored /\ acked' = acked \cup {j} /\ UNCHANGED <<stored, copies>>

HandOver(j) ==
    /\ j \in stored
    /\ copies' = [copies EXCEPT ![j] = @ + 1]
    /\ UNCHANGED <<stored, acked>>

Next == \E j \in Jobs : Store(j) \/ Ack(j) \/ HandOver(j)

Safety == Init /\ [][Next]_vars

AtLeastOnce == \A j \in Jobs : j \in stored ~> copies[j] > 0

Spec == Safety /\ AtLeastOnce
=============================================================================
