------------------------------- MODULE Outbox -------------------------------
(***************************************************************************)
(* POST /jobs and the transactional-outbox relay of the API               *)
(* (api/src/jobs/handlers.rs create_job, relay.rs, publisher.rs).          *)
(*                                                                         *)
(* create_job writes the job and its outbox row in one transaction.  Each  *)
(* API instance runs a relay that claims a batch of unpublished rows with  *)
(* FOR UPDATE SKIP LOCKED, publishes them one at a time over the one AMQP  *)
(* channel it opened at start-up, and stamps published_at in the claiming  *)
(* transaction.  The channel is not in confirm mode: a publish that        *)
(* returns Ok was written to the socket, no more.                          *)
(***************************************************************************)
EXTENDS Domain, FiniteSets

CONSTANTS
    Relays,         \* the API instances, each with its relay and its channel
    BatchSize,      \* BATCH_SIZE
    MaxFaults,      \* bound: timeouts, rollbacks and crashes in a behaviour
    MaxLosses       \* bound: broker connections lost in a behaviour

ASSUME OutboxAssumption ==
    /\ IsFiniteSet(Jobs)
    /\ BatchSize \in Nat \ {0}
    /\ MaxFaults \in Nat
    /\ MaxLosses \in Nat

VARIABLES
    row,        \* the outbox row (and the job row) of each job
    born,       \* created_at of each row
    reply,      \* what the client of POST /jobs was told
    claimed,    \* rows locked by each relay's open transaction
    todo,       \* claimed rows the relay has yet to publish
    stamped,    \* claimed rows published_at was set on, not yet committed
    link,       \* each instance's connection to the broker
    queue,      \* ingestion.jobs
    faults,     \* faults so far
    losses      \* connections lost so far

outboxVars == <<row, born, reply, claimed, todo, stamped, link, faults, losses>>

vars == <<outboxVars, queue>>

RowStates == {"none", "open", "pending", "published", "aborted"}

TypeOK ==
    /\ row \in [Jobs -> RowStates]
    /\ born \in [Jobs -> Nat]
    /\ reply \in [Jobs -> {"none", "accepted", "error"}]
    /\ claimed \in [Relays -> SUBSET Jobs]
    /\ todo \in [Relays -> SUBSET Jobs]
    /\ stamped \in [Relays -> SUBSET Jobs]
    /\ \A r \in Relays : todo[r] \cup stamped[r] \subseteq claimed[r]
    /\ link \in [Relays -> {"up", "half_open", "down"}]
    /\ queue \in Queues
    /\ faults \in 0 .. MaxFaults
    /\ losses \in 0 .. MaxLosses

Init ==
    /\ row = [j \in Jobs |-> "none"]
    /\ born = [j \in Jobs |-> 0]
    /\ reply = [j \in Jobs |-> "none"]
    /\ claimed = [r \in Relays |-> {}]
    /\ todo = [r \in Relays |-> {}]
    /\ stamped = [r \in Relays |-> {}]
    /\ link = [r \in Relays |-> "up"]
    /\ queue = EmptyQueue
    /\ faults = 0
    /\ losses = 0

Committed(j) == row[j] \in {"pending", "published"}

Fault == faults < MaxFaults /\ faults' = faults + 1

-----------------------------------------------------------------------------
(***************************************************************************)
(* POST /jobs.                                                             *)
(***************************************************************************)

\* The transaction begins (created_at is its start time) and inserts both rows.
BeginCreate(j) ==
    /\ row[j] = "none"
    /\ row' = [row EXCEPT ![j] = "open"]
    /\ born' = [born EXCEPT ![j] = Cardinality({i \in Jobs : row[i] # "none"})]
    /\ UNCHANGED <<reply, claimed, todo, stamped, link, queue, faults, losses>>

\* The commit.  The nudge that follows it only shortens the relay's sleep.
CommitCreate(j) ==
    /\ row[j] = "open"
    /\ row' = [row EXCEPT ![j] = "pending"]
    /\ UNCHANGED <<born, reply, claimed, todo, stamped, link, queue, faults, losses>>

\* A statement fails or the API dies before the commit: both rows are gone.
AbortCreate(j) ==
    /\ row[j] = "open"
    /\ row' = [row EXCEPT ![j] = "aborted"]
    /\ reply' = [reply EXCEPT ![j] = "error"]
    /\ UNCHANGED <<born, claimed, todo, stamped, link, queue, faults, losses>>

\* Mutant: the client is answered before the transaction commits.
AnswerBeforeCommit(j) ==
    /\ row[j] # "none"
    /\ reply[j] = "none"
    /\ \E answer \in {"accepted", "error"} : reply' = [reply EXCEPT ![j] = answer]
    /\ UNCHANGED <<row, born, claimed, todo, stamped, link, queue, faults, losses>>

\* 202 Accepted, or an error when the answer to the commit or to the client is lost.
Answer(j) ==
    /\ Committed(j)
    /\ reply[j] = "none"
    /\ \E answer \in {"accepted", "error"} : reply' = [reply EXCEPT ![j] = answer]
    /\ UNCHANGED <<row, born, claimed, todo, stamped, link, queue, faults, losses>>

-----------------------------------------------------------------------------
(***************************************************************************)
(* dispatch_batch: one transaction of relay r.                             *)
(***************************************************************************)
Locked(j) == \E r \in Relays : j \in claimed[r]

\* Mutants: no FOR UPDATE; no published_at IS NULL; READ UNCOMMITTED.
ClaimableUnlocked == {j \in Jobs : row[j] = "pending"}

ClaimableAgain == {j \in Jobs : Committed(j) /\ ~Locked(j)}

ClaimableEarly == {j \in Jobs : row[j] \in {"open", "pending"} /\ ~Locked(j)}

Claimable == {j \in Jobs : row[j] = "pending" /\ ~Locked(j)}

Oldest(S, n) == {j \in S : Cardinality({i \in S : born[i] < born[j]}) < n}

\* SELECT ... ORDER BY created_at LIMIT n FOR UPDATE SKIP LOCKED.
Claim(r) ==
    /\ claimed[r] = {}
    /\ Claimable # {}
    /\ claimed' = [claimed EXCEPT ![r] = Oldest(Claimable, BatchSize)]
    /\ todo' = [todo EXCEPT ![r] = Oldest(Claimable, BatchSize)]
    /\ UNCHANGED <<row, born, reply, stamped, link, queue, faults, losses>>

\* The publish of the next row of the batch returned.
Published(r, j) ==
    /\ j \in Oldest(todo[r], 1)
    /\ todo' = [todo EXCEPT ![r] = @ \ {j}]
    /\ UNCHANGED <<row, born, reply, claimed, link, losses>>

\* It returned Ok, so the row is stamped.  On a connection the broker has
\* dropped but the client still trusts, the frame goes nowhere.
PublishOk(r, j) ==
    /\ Published(r, j)
    /\ link[r] # "down"
    /\ queue' = IF link[r] = "up" THEN Put(queue, FirstMessage(j)) ELSE queue
    /\ stamped' = [stamped EXCEPT ![r] = @ \cup {j}]
    /\ UNCHANGED faults

\* It returned an error, which the channel does once it knows it is closed.
PublishError(r, j) ==
    /\ Published(r, j)
    /\ link[r] = "down"
    /\ UNCHANGED <<queue, stamped, faults>>

\* Mutant: a publish that timed out is stamped like one that succeeded.
StampOnTimeout(r, j) ==
    /\ Published(r, j)
    /\ link[r] # "down"
    /\ Fault
    /\ UNCHANGED queue
    /\ stamped' = [stamped EXCEPT ![r] = @ \cup {j}]

\* PUBLISH_TIMEOUT passed: the frame may still leave the client later.
PublishTimeout(r, j) ==
    /\ Published(r, j)
    /\ link[r] # "down"
    /\ Fault
    /\ \/ queue' = queue
       \/ link[r] = "up" /\ queue' = Put(queue, FirstMessage(j))
    /\ UNCHANGED stamped

\* Mutant: the stamps outlive the transaction that made them.
KeepStamps(r) ==
    /\ claimed' = [claimed EXCEPT ![r] = {}]
    /\ todo' = [todo EXCEPT ![r] = {}]
    /\ UNCHANGED stamped

EndTransaction(r) ==
    /\ claimed' = [claimed EXCEPT ![r] = {}]
    /\ todo' = [todo EXCEPT ![r] = {}]
    /\ stamped' = [stamped EXCEPT ![r] = {}]

Commit(r) ==
    /\ claimed[r] # {}
    /\ todo[r] = {}
    /\ row' = [j \in Jobs |-> IF j \in stamped[r] THEN "published" ELSE row[j]]
    /\ EndTransaction(r)
    /\ UNCHANGED <<born, reply, link, queue, faults, losses>>

\* A statement or the commit fails: what was published stays published, but
\* no row is stamped.
RollBack(r) ==
    /\ claimed[r] # {}
    /\ Fault
    /\ EndTransaction(r)
    /\ UNCHANGED <<row, born, reply, link, queue, losses>>

-----------------------------------------------------------------------------
(***************************************************************************)
(* The process and its connection.  AppState::connect opens the relay's    *)
(* channel once; nothing but a restart of the process opens another.       *)
(***************************************************************************)
Crash(r) ==
    /\ Fault
    /\ EndTransaction(r)
    /\ link' = [link EXCEPT ![r] = "up"]
    /\ UNCHANGED <<row, born, reply, queue, losses>>

LoseConnection(r) ==
    /\ link[r] = "up"
    /\ losses < MaxLosses
    /\ losses' = losses + 1
    /\ link' = [link EXCEPT ![r] = "half_open"]
    /\ UNCHANGED <<row, born, reply, claimed, todo, stamped, queue, faults>>

NoticeLoss(r) ==
    /\ link[r] = "half_open"
    /\ link' = [link EXCEPT ![r] = "down"]
    /\ UNCHANGED <<row, born, reply, claimed, todo, stamped, queue, faults, losses>>

-----------------------------------------------------------------------------
CreateJob(j) == BeginCreate(j) \/ CommitCreate(j) \/ AbortCreate(j) \/ Answer(j)

PublishNext(r) ==
    \E j \in Jobs : PublishOk(r, j) \/ PublishError(r, j) \/ PublishTimeout(r, j)

DispatchBatch(r) == Claim(r) \/ PublishNext(r) \/ Commit(r) \/ RollBack(r)

Environment(r) == Crash(r) \/ LoseConnection(r) \/ NoticeLoss(r)

Next ==
    \/ \E j \in Jobs : CreateJob(j)
    \/ \E r \in Relays : DispatchBatch(r) \/ Environment(r)

\* The relay is a loop that sleeps at most POLL_INTERVAL, every publish is
\* bounded by a timeout, and the handler runs to an answer.
Fairness ==
    /\ \A r \in Relays : /\ WF_vars(Claim(r))
                         /\ WF_vars(PublishNext(r))
                         /\ WF_vars(Commit(r))
    /\ \A j \in Jobs : WF_vars(CommitCreate(j) \/ AbortCreate(j)) /\ WF_vars(Answer(j))

Spec == Init /\ [][Next]_vars

FairSpec == Spec /\ Fairness

-----------------------------------------------------------------------------
(***************************************************************************)
(* Properties.                                                             *)
(***************************************************************************)

Stamping(j) == \E r \in Relays : j \in stamped[r]

\* While no broker connection was ever lost, a row is stamped only when its
\* message reached the queue: a crash or a rollback at any point between the
\* publish and the commit leaves the row to be published again (relay.rs:1).
StampedMeansDelivered ==
    losses = 0 =>
        \A j \in Jobs : row[j] = "published" \/ Stamping(j) => queue[FirstMessage(j)] > 0

\* What is left to publish for j once every open transaction commits.
Owed(j) == IF row[j] = "pending" /\ ~Stamping(j) THEN 1 ELSE 0

\* Every duplicate of a message is paid for by a timeout, a rollback or a
\* crash: however many instances relay the same rows, the row locks alone
\* never let two of them publish one row (relay.rs:4-5).
DuplicatesNeedFaults ==
    \A j \in Jobs : queue[FirstMessage(j)] + Owed(j) <= 1 + faults

\* The relay stamps each job at most once and never takes a stamp back:
\* a published row is never claimed again and never becomes pending again.
PublishedIsFinal ==
    [][\A j \in Jobs : row[j] = "published" => row'[j] = "published" /\ ~Locked(j)']_vars

\* relay.rs:1-2 without the proviso: a stamped row was delivered, whatever
\* happened to the connection.
AtLeastOnceDelivery ==
    \A j \in Jobs : row[j] = "published" => queue[FirstMessage(j)] > 0

\* relay.rs:89: a row whose publish failed is retried until it is published.
PendingIsPublished ==
    \A j \in Jobs : row[j] = "pending" ~> row[j] = "published"

\* The promise of POST /jobs, and where the outbox keeps it.
Promise == INSTANCE Enqueue WITH
    stored <- {j \in Jobs : Committed(j)},
    acked  <- {j \in Jobs : reply[j] = "accepted"},
    copies <- [j \in Jobs |-> queue[FirstMessage(j)]]

\* The part of that promise that needs no fairness.
ImplementsSafely == Promise!Safety

\* The whole of it: while no connection is lost a stored job is handed over at
\* least once (relay.rs:1).
ImplementsEnqueue == ImplementsSafely /\ ([](losses = 0) => Promise!AtLeastOnce)
=============================================================================
