------------------------------ MODULE Ingestion -----------------------------
(***************************************************************************)
(* A job from POST /jobs to its end: the outbox and relays of the API      *)
(* (module Outbox) and the workers (module Worker) over the one queue they *)
(* share.  The relays' publishes are what the workers are delivered, so    *)
(* the duplicates of a job are those the relays really make.               *)
(***************************************************************************)
EXTENDS Domain, FiniteSets

CONSTANTS
    Relays, BatchSize, MaxFaults, MaxLosses,
    Workers, Slots, NoMsg, SourceRows, Faults,
    MaxChannelLosses    \* bound: worker channels lost in a behaviour

ASSUME IngestionAssumption ==
    /\ IsFiniteSet(Jobs) /\ IsFiniteSet(Workers) /\ IsFiniteSet(Slots)
    /\ BatchSize \in Nat \ {0}
    /\ MaxFaults \in Nat /\ MaxLosses \in Nat /\ MaxChannelLosses \in Nat
    /\ NoMsg \notin Message
    /\ SourceRows \in Nat
    /\ Faults \subseteq {"pg_error", "pg_reply_lost", "body_lost"}

VARIABLES
    row, born, reply, claimed, todo, stamped, link, faults, losses,
    queue,
    dlq, status, error, rowCount, attempts, dashboard, table,
    pc, msg, counted, up, channelLosses

Api == INSTANCE Outbox

Ingest == INSTANCE Worker WITH MaxCopies <- 1

apiVars == <<row, born, reply, claimed, todo, stamped, link, faults, losses>>

ingestVars == <<dlq, status, error, rowCount, attempts, dashboard, table,
                pc, msg, counted, up, channelLosses>>

vars == <<apiVars, queue, ingestVars>>

TypeOK == Api!TypeOK /\ Ingest!TypeOK

\* No job exists yet; a job row is born queued, so its columns start so.
Init ==
    /\ Api!Init
    /\ dlq = EmptyQueue
    /\ status = [j \in Jobs |-> "queued"]
    /\ error = [j \in Jobs |-> FALSE]
    /\ rowCount = [j \in Jobs |-> Ingest!Null]
    /\ attempts = [j \in Jobs |-> 0]
    /\ dashboard = [j \in Jobs |-> Ingest!Null]
    /\ table = [j \in Jobs |-> Ingest!Null]
    /\ pc = [t \in Ingest!Tasks |-> "idle"]
    /\ msg = [t \in Ingest!Tasks |-> NoMsg]
    /\ counted = [t \in Ingest!Tasks |-> 0]
    /\ up = [w \in Workers |-> TRUE]
    /\ channelLosses = 0

Next ==
    \/ Api!Next /\ UNCHANGED ingestVars
    \/ Ingest!Next /\ UNCHANGED apiVars

\* The relay's loop and its timeouts, the broker's delivery to a free slot, the
\* timeouts of a task's calls, and the orchestrator that restarts a worker.
Fairness ==
    /\ \A r \in Relays : /\ WF_vars(Api!Claim(r) /\ UNCHANGED ingestVars)
                         /\ WF_vars(Api!PublishNext(r) /\ UNCHANGED ingestVars)
                         /\ WF_vars(Api!Commit(r) /\ UNCHANGED ingestVars)
    /\ WF_vars(Ingest!Consume /\ UNCHANGED apiVars)
    /\ \A t \in Ingest!Tasks :
           WF_vars((Ingest!RunJob(t) \/ Ingest!Dispose(t)) /\ UNCHANGED apiVars)
    /\ \A w \in Workers : WF_vars(Ingest!Restart(w) /\ UNCHANGED apiVars)

Spec == Init /\ [][Next]_vars

FairSpec == Spec /\ Fairness

-----------------------------------------------------------------------------
(***************************************************************************)
(* Properties.                                                             *)
(***************************************************************************)

\* A job whose creation committed is never forgotten on its way: it is over,
\* or the relay still has to publish it, or somebody has a message for it.
\* It takes the row lock, the stamp in the claiming transaction, the broker's
\* redelivery and the republish-then-ack order together (relay.rs:1,
\* consumer.rs:85-88).  A lost relay connection is excluded: see Outbox.
NeverForgotten ==
    losses = 0 =>
        \A j \in Jobs : Api!Committed(j) =>
            \/ IsTerminal(status[j])
            \/ row[j] = "pending"
            \/ Ingest!InCustody(j)

\* A job without a committed row is never processed: the message cannot
\* overtake the transaction that stored its job (handlers.rs:41-65).
OnlyStoredJobsRun ==
    \A t \in Ingest!Tasks : pc[t] # "idle" => Api!Committed(Ingest!JobOf(t))

\* Two tasks work on one job at once only after a relay fault or a lost
\* channel: retries and several API instances alone never overlap, although
\* the retry is published before the failed delivery is acked.
OverlapNeedsFault ==
    faults = 0 /\ channelLosses = 0 =>
        \A t, u \in Ingest!Tasks :
            /\ t # u
            /\ pc[t] \in Ingest!Pipeline
            /\ pc[u] \in Ingest!Pipeline
            => Ingest!JobOf(t) # Ingest!JobOf(u)

\* What a client sees of a ready job agrees with its source (ingest.rs:67).
ReadyIsExact == Ingest!ReadyIsExact

\* consumer.rs:97: a dead-lettered job is failed, with its reason.
DeadLetterIsRecorded == Ingest!DeadLetterIsRecorded

\* lib.rs:27: the attempts recorded for a job stay below the limit.
AttemptsAreLimited == Ingest!AttemptsAreLimited

\* domain.rs:42: the lifecycle of a job, whichever relays and tasks handle it.
LifecycleOrRetry == Ingest!LifecycleOrRetry

\* ingest.rs:67: a redelivery causes no duplicate rows.
NoDuplicateRows == \A j \in Jobs : table[j] <= SourceRows

\* Every client answered 202 sees its job come to rest: ready, failed, or
\* dead-lettered, with nothing of it left to process.
AcceptedSettles == \A j \in Jobs : reply[j] = "accepted" ~> [](Ingest!Settled(j))
=============================================================================
