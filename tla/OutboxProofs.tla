---------------------------- MODULE OutboxProofs ----------------------------
(***************************************************************************)
(* Proofs about module Outbox, for every number of jobs and API instances, *)
(* every batch size and every number of faults and lost connections.       *)
(***************************************************************************)
EXTENDS Outbox, FiniteSetTheorems, TLAPS

USE AttemptsAssumption, OutboxAssumption

-----------------------------------------------------------------------------
(***************************************************************************)
(* Types, and what the row locks guarantee: a claimed row is pending and   *)
(* belongs to one open transaction, which has it either still to publish   *)
(* or behind it.                                                           *)
(***************************************************************************)

LocksExclude == \A r, s \in Relays : r # s => claimed[r] \cap claimed[s] = {}

ClaimsAreOpen ==
    \A r \in Relays :
        /\ \A j \in claimed[r] : row[j] = "pending"
        /\ todo[r] \subseteq claimed[r]
        /\ stamped[r] \subseteq claimed[r]
        /\ todo[r] \cap stamped[r] = {}

LinksHold == losses = 0 => \A r \in Relays : link[r] = "up"

LockInv == TypeOK /\ LocksExclude /\ ClaimsAreOpen /\ LinksHold

\* The first message of a job is a message.
LEMMA FirstIsMessage == \A j \in Jobs : FirstMessage(j) \in Message
  BY DEF FirstMessage, Message

\* Distinct jobs have distinct first messages.
LEMMA FirstIsInjective == \A i, j \in Jobs : FirstMessage(i) = FirstMessage(j) => i = j
  BY DEF FirstMessage

\* Publishing the first message of j adds one copy of it and of nothing else.
LEMMA PutFirst ==
  ASSUME queue \in Queues, NEW j \in Jobs, queue' = Put(queue, FirstMessage(j))
  PROVE  /\ queue' \in Queues
         /\ queue'[FirstMessage(j)] = queue[FirstMessage(j)] + 1
         /\ \A i \in Jobs : i # j => queue'[FirstMessage(i)] = queue[FirstMessage(i)]
<1>1. queue' \in Queues /\ queue'[FirstMessage(j)] = queue[FirstMessage(j)] + 1
  BY FirstIsMessage DEF Queues, Put
<1>2. ASSUME NEW i \in Jobs, i # j PROVE queue'[FirstMessage(i)] = queue[FirstMessage(i)]
  BY <1>2, FirstIsMessage, FirstIsInjective DEF Queues, Put
<1>. QED BY <1>1, <1>2

LEMMA InitLocks == Init => LockInv
<1>1. EmptyQueue \in Queues
  BY DEF EmptyQueue, Queues
<1>. QED BY <1>1 DEF Init, LockInv, TypeOK, RowStates, LocksExclude, ClaimsAreOpen, LinksHold

LEMMA CreateLocks ==
  ASSUME LockInv, NEW j \in Jobs, CreateJob(j)
  PROVE  LockInv'
<1>. USE DEF LockInv, TypeOK, RowStates, LocksExclude, ClaimsAreOpen, LinksHold
<1>1. CASE BeginCreate(j)
  <2>1. Cardinality({i \in Jobs : row[i] # "none"}) \in Nat
    BY FS_Subset, FS_CardinalityType
  <2>. QED BY <1>1, <2>1 DEF BeginCreate
<1>2. CASE CommitCreate(j)
  BY <1>2 DEF CommitCreate
<1>3. CASE AbortCreate(j)
  BY <1>3 DEF AbortCreate
<1>4. CASE Answer(j)
  BY <1>4 DEF Answer
<1>. QED BY <1>1, <1>2, <1>3, <1>4 DEF CreateJob

LEMMA DispatchLocks ==
  ASSUME LockInv, NEW r \in Relays, DispatchBatch(r)
  PROVE  LockInv'
<1>. USE DEF LockInv, TypeOK, RowStates, LocksExclude, ClaimsAreOpen, LinksHold
<1>1. CASE Claim(r)
  <2>1. /\ Oldest(Claimable, BatchSize) \subseteq Jobs
        /\ \A j \in Oldest(Claimable, BatchSize) : row[j] = "pending" /\ ~Locked(j)
    BY DEF Oldest, Claimable
  <2>. QED BY <1>1, <2>1 DEF Claim, Locked
<1>2. CASE PublishNext(r)
  <2>1. PICK j \in Jobs : PublishOk(r, j) \/ PublishError(r, j) \/ PublishTimeout(r, j)
    BY <1>2 DEF PublishNext
  <2>2. j \in todo[r] /\ Published(r, j)
    BY <2>1 DEF PublishOk, PublishError, PublishTimeout, Published, Oldest
  <2>3. queue' \in Queues
    BY <2>1, PutFirst DEF PublishOk, PublishError, PublishTimeout
  <2>4. faults' \in 0 .. MaxFaults
    BY <2>1 DEF PublishOk, PublishError, PublishTimeout, Fault
  <2>5. stamped' = stamped \/ stamped' = [stamped EXCEPT ![r] = @ \cup {j}]
    BY <2>1 DEF PublishOk, PublishError, PublishTimeout
  <2>. QED BY <2>2, <2>3, <2>4, <2>5 DEF Published
<1>3. CASE Commit(r)
  BY <1>3 DEF Commit, EndTransaction
<1>4. CASE RollBack(r)
  BY <1>4 DEF RollBack, EndTransaction, Fault
<1>. QED BY <1>1, <1>2, <1>3, <1>4 DEF DispatchBatch

LEMMA EnvironmentLocks ==
  ASSUME LockInv, NEW r \in Relays, Environment(r)
  PROVE  LockInv'
<1>. USE DEF LockInv, TypeOK, RowStates, LocksExclude, ClaimsAreOpen, LinksHold
<1>1. CASE Crash(r)
  BY <1>1 DEF Crash, EndTransaction, Fault
<1>2. CASE LoseConnection(r)
  BY <1>2 DEF LoseConnection
<1>3. CASE NoticeLoss(r)
  BY <1>3 DEF NoticeLoss
<1>. QED BY <1>1, <1>2, <1>3 DEF Environment

LEMMA StepLocks == LockInv /\ [Next]_vars => LockInv'
<1>. SUFFICES ASSUME LockInv, [Next]_vars PROVE LockInv'
  OBVIOUS
<1>1. CASE UNCHANGED vars
  BY <1>1 DEF vars, outboxVars, LockInv, TypeOK, LocksExclude, ClaimsAreOpen, LinksHold
<1>. QED BY <1>1, CreateLocks, DispatchLocks, EnvironmentLocks DEF Next

\* Every reachable state is well typed.
THEOREM TypeCorrect == Spec => []TypeOK
<1>1. LockInv => TypeOK
  BY DEF LockInv
<1>. QED BY InitLocks, StepLocks, <1>1, PTL DEF Spec

\* A published row stays published and is locked by nobody: the claim passes it
\* by, and a commit stamps rows that were pending.
LEMMA StepIsFinal ==
  ASSUME LockInv, LockInv', [Next]_vars, NEW j \in Jobs, row[j] = "published"
  PROVE  row'[j] = "published" /\ ~Locked(j)'
<1>1. row'[j] = "published"
  <2>. USE DEF LockInv, TypeOK
  <2>1. CASE UNCHANGED vars
    BY <2>1 DEF vars, outboxVars
  <2>2. ASSUME NEW i \in Jobs, CreateJob(i) PROVE row'[j] = "published"
    BY <2>2 DEF CreateJob, BeginCreate, CommitCreate, AbortCreate, Answer
  <2>3. ASSUME NEW r \in Relays, DispatchBatch(r) PROVE row'[j] = "published"
    BY <2>3 DEF DispatchBatch, Claim, PublishNext, PublishOk, PublishError, PublishTimeout,
                Published, Commit, RollBack, EndTransaction
  <2>4. ASSUME NEW r \in Relays, Environment(r) PROVE row'[j] = "published"
    BY <2>4 DEF Environment, Crash, LoseConnection, NoticeLoss, EndTransaction
  <2>. QED BY <2>1, <2>2, <2>3, <2>4 DEF Next
<1>2. ~Locked(j)'
  BY <1>1 DEF LockInv, ClaimsAreOpen, Locked
<1>. QED BY <1>1, <1>2

\* relay.rs: a stamp is never taken back, and no relay claims a stamped row again.
THEOREM StampsAreFinal == Spec => PublishedIsFinal
<1>1. LockInv /\ LockInv' /\ [Next]_vars
      => [\A j \in Jobs : row[j] = "published" => row'[j] = "published" /\ ~Locked(j)']_vars
  BY StepIsFinal
<1>. QED BY InitLocks, StepLocks, <1>1, PTL DEF Spec, PublishedIsFinal

-----------------------------------------------------------------------------
(***************************************************************************)
(* Delivery.  A copy of a message exists only for a stored job, a stamp    *)
(* follows a copy, and a second copy follows a fault.                      *)
(***************************************************************************)

CopiesAreStored == \A j \in Jobs : ~Committed(j) => queue[FirstMessage(j)] = 0

DeliveryInv == CopiesAreStored /\ StampedMeansDelivered /\ DuplicatesNeedFaults

\* A row the relay is about to publish is pending and not stamped.
LEMMA TodoIsOwed ==
  ASSUME LockInv, NEW r \in Relays, NEW j \in todo[r]
  PROVE  j \in Jobs /\ row[j] = "pending" /\ ~Stamping(j) /\ Owed(j) = 1
  BY DEF LockInv, TypeOK, LocksExclude, ClaimsAreOpen, Stamping, Owed

LEMMA InitDelivery == Init => DeliveryInv
<1>. SUFFICES ASSUME Init PROVE DeliveryInv
  OBVIOUS
<1>1. \A j \in Jobs : queue[FirstMessage(j)] = 0
  BY FirstIsMessage DEF Init, EmptyQueue
<1>. QED BY <1>1 DEF Init, DeliveryInv, CopiesAreStored, StampedMeansDelivered,
                     DuplicatesNeedFaults, Owed, Stamping

\* What changes neither a message, a stamp nor whether a row is published
\* keeps the invariant, if it owes nothing that already has a copy.
LEMMA DeliveryFrame ==
  ASSUME LockInv, DeliveryInv, UNCHANGED <<queue, stamped>>,
         faults' \in Nat, faults' >= faults, losses' \in Nat, losses' >= losses,
         \A j \in Jobs : row'[j] = "published" <=> row[j] = "published",
         \A j \in Jobs : row[j] = "pending" => row'[j] = "pending",
         \A j \in Jobs : row'[j] = "pending" => row[j] \in {"open", "pending"}
  PROVE  DeliveryInv'
<1>. USE DEF LockInv, TypeOK, RowStates, DeliveryInv
<1>1. \A j \in Jobs : queue[FirstMessage(j)] \in Nat
  BY FirstIsMessage DEF Queues
<1>2. CopiesAreStored'
  BY DEF CopiesAreStored, Committed
<1>3. StampedMeansDelivered'
  BY DEF StampedMeansDelivered, Stamping
<1>4. ASSUME NEW j \in Jobs
      PROVE  queue'[FirstMessage(j)] + Owed(j)' <= 1 + faults'
  <2>1. CASE row[j] = "pending"
    <3>1. queue[FirstMessage(j)] + Owed(j) <= 1 + faults /\ Owed(j)' = Owed(j)
      BY <2>1 DEF DuplicatesNeedFaults, Owed, Stamping
    <3>. QED BY <1>1, <3>1 DEF Owed
  <2>2. CASE row[j] # "pending"
    <3>1. CASE row'[j] = "pending"
      BY <2>2, <3>1 DEF CopiesAreStored, Committed, Owed
    <3>2. CASE row'[j] # "pending"
      BY <1>1, <2>2, <3>2 DEF DuplicatesNeedFaults, Owed
    <3>. QED BY <3>1, <3>2
  <2>. QED BY <2>1, <2>2
<1>. QED BY <1>2, <1>3, <1>4 DEF DuplicatesNeedFaults

LEMMA PublishDelivery ==
  ASSUME LockInv, DeliveryInv, NEW r \in Relays, NEW j \in Jobs,
         PublishOk(r, j) \/ PublishError(r, j) \/ PublishTimeout(r, j)
  PROVE  DeliveryInv'
<1>. USE DEF LockInv, TypeOK, DeliveryInv
<1>0. /\ j \in todo[r] /\ UNCHANGED <<row, losses>>
      /\ \A i \in Jobs : queue[FirstMessage(i)] \in Nat
  BY FirstIsMessage DEF PublishOk, PublishError, PublishTimeout, Published, Oldest, Queues
<1>1. CASE PublishOk(r, j)
  <2>1. /\ faults' = faults
        /\ stamped' = [stamped EXCEPT ![r] = @ \cup {j}]
        /\ IF link[r] = "up" THEN queue' = Put(queue, FirstMessage(j)) ELSE queue' = queue
    BY <1>1 DEF PublishOk
  <2>2. /\ queue'[FirstMessage(j)] \in {queue[FirstMessage(j)], queue[FirstMessage(j)] + 1}
        /\ link[r] = "up" => queue'[FirstMessage(j)] > 0
        /\ \A i \in Jobs : i # j => queue'[FirstMessage(i)] = queue[FirstMessage(i)]
    BY <1>0, <2>1, PutFirst
  <2>3. /\ Stamping(j)'
        /\ \A i \in Jobs : i # j => (Stamping(i)' <=> Stamping(i))
    BY <2>1 DEF Stamping
  <2>4. CopiesAreStored'
    BY <1>0, <2>2, TodoIsOwed DEF CopiesAreStored, Committed
  <2>5. StampedMeansDelivered'
    BY <1>0, <2>2, <2>3 DEF StampedMeansDelivered, LinksHold
  <2>6. DuplicatesNeedFaults'
    <3>1. Owed(j) = 1 /\ Owed(j)' = 0 /\ \A i \in Jobs : i # j => Owed(i)' = Owed(i)
      BY <1>0, <2>3, TodoIsOwed DEF Owed
    <3>. QED BY <1>0, <2>1, <2>2, <3>1 DEF DuplicatesNeedFaults
  <2>. QED BY <2>4, <2>5, <2>6
<1>2. CASE PublishError(r, j)
  BY <1>0, <1>2, DeliveryFrame DEF PublishError
<1>3. CASE PublishTimeout(r, j)
  <2>1. CASE queue' = queue
    <3>1. UNCHANGED <<queue, stamped, row, losses>> /\ faults' = faults + 1
      BY <1>0, <1>3, <2>1 DEF PublishTimeout, Fault
    <3>2. faults \in Nat /\ losses \in Nat
      OBVIOUS
    <3>. QED BY <3>1, <3>2, DeliveryFrame
  <2>2. CASE queue' = Put(queue, FirstMessage(j))
    <3>1. stamped' = stamped /\ faults' = faults + 1 /\ faults \in Nat
      BY <1>3 DEF PublishTimeout, Fault
    <3>2. \A i \in Jobs : Owed(i)' = Owed(i) /\ (Stamping(i)' <=> Stamping(i)) /\ Owed(i) \in {0, 1}
      BY <1>0, <3>1 DEF Owed, Stamping
    <3>3. /\ queue'[FirstMessage(j)] = queue[FirstMessage(j)] + 1
          /\ \A i \in Jobs : i # j => queue'[FirstMessage(i)] = queue[FirstMessage(i)]
      BY <2>2, PutFirst
    <3>4. CopiesAreStored'
      BY <1>0, <3>3, TodoIsOwed DEF CopiesAreStored, Committed
    <3>5. StampedMeansDelivered'
      BY <1>0, <3>2, <3>3 DEF StampedMeansDelivered
    <3>6. DuplicatesNeedFaults'
      BY <1>0, <3>1, <3>2, <3>3 DEF DuplicatesNeedFaults
    <3>. QED BY <3>4, <3>5, <3>6
  <2>. QED BY <1>3, <2>1, <2>2 DEF PublishTimeout
<1>. QED BY <1>1, <1>2, <1>3

\* The end of a transaction: rows it stamped are published when it commits,
\* and owed again, for one more fault, when it does not.
LEMMA EndDelivery ==
  ASSUME LockInv, DeliveryInv, NEW r \in Relays, EndTransaction(r), UNCHANGED <<queue, losses>>,
         \/ faults' = faults + 1 /\ row' = row
         \/ /\ faults' = faults
            /\ row' = [j \in Jobs |-> IF j \in stamped[r] THEN "published" ELSE row[j]]
  PROVE  DeliveryInv'
<1>. USE DEF LockInv, TypeOK, DeliveryInv
<1>0. /\ \A i \in Jobs : queue[FirstMessage(i)] \in Nat
      /\ faults \in Nat
      /\ stamped' = [stamped EXCEPT ![r] = {}]
      /\ \A j \in stamped[r] : row[j] = "pending" /\ Stamping(j)
  BY FirstIsMessage DEF Queues, EndTransaction, ClaimsAreOpen, Stamping
<1>1. \A j \in Jobs : Stamping(j)' => Stamping(j)
  BY <1>0 DEF Stamping
<1>2. CASE faults' = faults + 1 /\ row' = row
  <2>1. \A j \in Jobs : Owed(j)' <= Owed(j) + 1 /\ Owed(j) \in {0, 1} /\ Owed(j)' \in {0, 1}
    BY <1>2 DEF Owed
  <2>2. DuplicatesNeedFaults'
    BY <1>0, <1>2, <2>1 DEF DuplicatesNeedFaults
  <2>3. CopiesAreStored' /\ StampedMeansDelivered'
    BY <1>1, <1>2 DEF CopiesAreStored, Committed, StampedMeansDelivered
  <2>. QED BY <2>2, <2>3
<1>3. CASE /\ faults' = faults
           /\ row' = [j \in Jobs |-> IF j \in stamped[r] THEN "published" ELSE row[j]]
  <2>1. \A j \in Jobs : j \notin stamped[r] => (Stamping(j)' <=> Stamping(j)) /\ row'[j] = row[j]
    BY <1>0, <1>3 DEF Stamping
  <2>2. \A j \in Jobs : Owed(j)' <= Owed(j) /\ Owed(j) \in {0, 1} /\ Owed(j)' \in {0, 1}
    BY <1>3, <2>1 DEF Owed
  <2>3. DuplicatesNeedFaults'
    BY <1>0, <1>3, <2>2 DEF DuplicatesNeedFaults
  <2>4. CopiesAreStored' /\ StampedMeansDelivered'
    BY <1>0, <1>1, <1>3 DEF CopiesAreStored, Committed, StampedMeansDelivered
  <2>. QED BY <2>3, <2>4
<1>. QED BY <1>2, <1>3

LEMMA StepDelivery == LockInv /\ DeliveryInv /\ [Next]_vars => DeliveryInv'
<1>. SUFFICES ASSUME LockInv, DeliveryInv, [Next]_vars PROVE DeliveryInv'
  OBVIOUS
<1>0. faults \in Nat /\ losses \in Nat /\ row \in [Jobs -> RowStates]
  BY DEF LockInv, TypeOK
<1>1. CASE UNCHANGED vars
  BY <1>0, <1>1, DeliveryFrame DEF vars, outboxVars
<1>2. ASSUME NEW j \in Jobs, CreateJob(j) PROVE DeliveryInv'
  <2>1. CASE BeginCreate(j)
    BY <1>0, <2>1, DeliveryFrame DEF BeginCreate, RowStates
  <2>2. CASE CommitCreate(j)
    BY <1>0, <2>2, DeliveryFrame DEF CommitCreate, RowStates
  <2>3. CASE AbortCreate(j)
    BY <1>0, <2>3, DeliveryFrame DEF AbortCreate, RowStates
  <2>4. CASE Answer(j)
    BY <1>0, <2>4, DeliveryFrame DEF Answer
  <2>. QED BY <1>2, <2>1, <2>2, <2>3, <2>4 DEF CreateJob
<1>3. ASSUME NEW r \in Relays, DispatchBatch(r) PROVE DeliveryInv'
  <2>1. CASE Claim(r)
    BY <1>0, <2>1, DeliveryFrame DEF Claim
  <2>2. CASE PublishNext(r)
    BY <2>2, PublishDelivery DEF PublishNext
  <2>3. CASE Commit(r)
    BY <2>3, EndDelivery DEF Commit
  <2>4. CASE RollBack(r)
    BY <2>4, EndDelivery DEF RollBack, Fault
  <2>. QED BY <1>3, <2>1, <2>2, <2>3, <2>4 DEF DispatchBatch
<1>4. ASSUME NEW r \in Relays, Environment(r) PROVE DeliveryInv'
  <2>1. CASE Crash(r)
    BY <2>1, EndDelivery DEF Crash, Fault
  <2>2. CASE LoseConnection(r)
    BY <1>0, <2>2, DeliveryFrame DEF LoseConnection
  <2>3. CASE NoticeLoss(r)
    BY <1>0, <2>3, DeliveryFrame DEF NoticeLoss
  <2>. QED BY <1>4, <2>1, <2>2, <2>3 DEF Environment
<1>. QED BY <1>1, <1>2, <1>3, <1>4 DEF Next

\* relay.rs:1: whenever and however often an API instance dies, a stamped row
\* was delivered, as long as no connection to the broker was lost.
THEOREM StampsFollowDelivery == Spec => []StampedMeansDelivered
<1>1. DeliveryInv => StampedMeansDelivered
  BY DEF DeliveryInv
<1>. QED BY InitLocks, StepLocks, InitDelivery, StepDelivery, <1>1, PTL DEF Spec

\* relay.rs:4: any number of instances relay without publishing a row twice;
\* k timeouts, rollbacks and crashes make at most k duplicates of a message.
THEOREM DuplicatesAreFaults == Spec => []DuplicatesNeedFaults
<1>1. DeliveryInv => DuplicatesNeedFaults
  BY DEF DeliveryInv
<1>. QED BY InitLocks, StepLocks, InitDelivery, StepDelivery, <1>1, PTL DEF Spec

-----------------------------------------------------------------------------
(***************************************************************************)
(* What the API does to the queue, for whoever consumes from it.           *)
(***************************************************************************)

\* It only adds messages, and only those of stored jobs; a stored job stays so.
LEMMA StepPublishes ==
  ASSUME LockInv, LockInv', [Next]_vars
  PROVE  /\ \A j \in Jobs : Committed(j) => Committed(j)'
         /\ \A m \in Message : queue'[m] >= queue[m]
         /\ \A m \in Message : queue'[m] > queue[m] => Committed(m.job)
<1>. USE DEF LockInv, TypeOK, Queues
<1>0. \A m \in Message : queue[m] \in Nat
  OBVIOUS
<1>1. CASE UNCHANGED vars
  BY <1>0, <1>1 DEF vars, outboxVars, Committed
<1>2. ASSUME NEW j \in Jobs, CreateJob(j)
      PROVE  queue' = queue /\ \A i \in Jobs : Committed(i) => Committed(i)'
  BY <1>2 DEF CreateJob, BeginCreate, CommitCreate, AbortCreate, Answer, Committed
<1>3. ASSUME NEW r \in Relays, Claim(r) \/ Commit(r) \/ RollBack(r) \/ Environment(r)
      PROVE  queue' = queue /\ \A i \in Jobs : Committed(i) => Committed(i)'
  BY <1>3 DEF Claim, Commit, RollBack, Environment, Crash, LoseConnection, NoticeLoss,
              EndTransaction, Committed
<1>4. ASSUME NEW r \in Relays, PublishNext(r)
      PROVE  /\ row' = row
             /\ \E j \in todo[r] : queue' \in {queue, Put(queue, FirstMessage(j))}
  BY <1>4 DEF PublishNext, PublishOk, PublishError, PublishTimeout, Published, Oldest
<1>5. ASSUME NEW r \in Relays, NEW j \in todo[r], queue' = Put(queue, FirstMessage(j))
      PROVE  /\ \A m \in Message : queue'[m] >= queue[m]
             /\ \A m \in Message : queue'[m] > queue[m] => Committed(m.job)
  <2>1. j \in Jobs /\ row[j] = "pending"
    BY TodoIsOwed
  <2>2. \A m \in Message : /\ m # FirstMessage(j) => queue'[m] = queue[m]
                           /\ m = FirstMessage(j) => queue'[m] = queue[m] + 1
    BY <1>5 DEF Put
  <2>3. FirstMessage(j).job = j
    BY DEF FirstMessage
  <2>4. \A m \in Message : queue'[m] >= queue[m] /\ (queue'[m] > queue[m] => m = FirstMessage(j))
    BY <1>0, <2>2
  <2>. QED BY <2>1, <2>3, <2>4 DEF Committed
<1>6. ASSUME NEW r \in Relays, PublishNext(r)
      PROVE  /\ \A j \in Jobs : Committed(j) => Committed(j)'
             /\ \A m \in Message : queue'[m] >= queue[m]
             /\ \A m \in Message : queue'[m] > queue[m] => Committed(m.job)
  BY <1>0, <1>4, <1>5, <1>6 DEF Committed
<1>. QED BY <1>0, <1>1, <1>2, <1>3, <1>6 DEF Next, DispatchBatch

\* While no connection was lost, a stamp follows its message into the queue.
LEMMA StampsDeliver ==
  ASSUME LockInv, LockInv', [Next]_vars, losses' = 0,
         NEW j \in Jobs, row'[j] = "published" \/ Stamping(j)'
  PROVE  \/ losses = 0 /\ (row[j] = "published" \/ Stamping(j))
         \/ queue'[FirstMessage(j)] > 0
<1>. USE DEF LockInv, TypeOK, Stamping
<1>1. CASE UNCHANGED vars
  BY <1>1 DEF vars, outboxVars
<1>2. ASSUME NEW i \in Jobs, CreateJob(i)
      PROVE  losses = 0 /\ (row[j] = "published" \/ Stamping(j))
  BY <1>2 DEF CreateJob, BeginCreate, CommitCreate, AbortCreate, Answer
<1>3. ASSUME NEW r \in Relays, Claim(r) \/ Commit(r) \/ RollBack(r) \/ Environment(r)
      PROVE  losses = 0 /\ (row[j] = "published" \/ Stamping(j))
  BY <1>3 DEF Claim, Commit, RollBack, Environment, Crash, LoseConnection, NoticeLoss,
              EndTransaction, Fault
<1>4. ASSUME NEW r \in Relays, PublishNext(r)
      PROVE  \/ losses = 0 /\ (row[j] = "published" \/ Stamping(j))
             \/ queue'[FirstMessage(j)] > 0
  <2>1. PICK i \in Jobs : PublishOk(r, i) \/ PublishError(r, i) \/ PublishTimeout(r, i)
    BY <1>4 DEF PublishNext
  <2>2. losses = 0 /\ row' = row /\ link[r] = "up"
    BY <2>1 DEF PublishOk, PublishError, PublishTimeout, Published, LinksHold
  <2>3. CASE PublishOk(r, i)
    <3>1. queue' = Put(queue, FirstMessage(i)) /\ stamped' = [stamped EXCEPT ![r] = @ \cup {i}]
      BY <2>2, <2>3 DEF PublishOk
    <3>2. queue'[FirstMessage(i)] > 0
      BY <3>1, FirstIsMessage, PutFirst DEF Queues
    <3>3. i = j \/ row[j] = "published" \/ Stamping(j)
      BY <2>2, <3>1
    <3>. QED BY <2>2, <3>2, <3>3
  <2>4. CASE PublishError(r, i) \/ PublishTimeout(r, i)
    BY <2>2, <2>4 DEF PublishError, PublishTimeout
  <2>. QED BY <2>1, <2>3, <2>4
<1>. QED BY <1>1, <1>2, <1>3, <1>4 DEF Next, DispatchBatch

\* A job is handed over once its row is stamped, committed or not.
HandedOver(j) == row[j] = "published" \/ Stamping(j)

\* Without a fault, a message is published for a job that was not handed over
\* yet, and hands it over: the stamp is in the same step.
LEMMA StepHandsOver ==
  ASSUME LockInv, [Next]_vars, faults' = faults
  PROVE  /\ \A j \in Jobs : HandedOver(j) => HandedOver(j)'
         /\ \/ queue' = queue
            \/ \E j \in Jobs : ~HandedOver(j) /\ HandedOver(j)' /\ queue' = Put(queue, FirstMessage(j))
<1>. USE DEF LockInv, TypeOK, HandedOver, Stamping
<1>0. ~(\E r \in Relays : RollBack(r) \/ Crash(r)) /\ ~Fault
  BY DEF RollBack, Crash, Fault
<1>1. CASE UNCHANGED vars
  BY <1>1 DEF vars, outboxVars
<1>2. ASSUME NEW j \in Jobs, CreateJob(j)
      PROVE  queue' = queue /\ \A i \in Jobs : HandedOver(i) => HandedOver(i)'
  BY <1>2 DEF CreateJob, BeginCreate, CommitCreate, AbortCreate, Answer
<1>3. ASSUME NEW r \in Relays, Claim(r) \/ LoseConnection(r) \/ NoticeLoss(r)
      PROVE  queue' = queue /\ \A i \in Jobs : HandedOver(i) => HandedOver(i)'
  BY <1>3 DEF Claim, LoseConnection, NoticeLoss
<1>4. ASSUME NEW r \in Relays, Commit(r)
      PROVE  queue' = queue /\ \A i \in Jobs : HandedOver(i) => HandedOver(i)'
  BY <1>4 DEF Commit, EndTransaction
<1>5. ASSUME NEW r \in Relays, PublishNext(r)
      PROVE  /\ \A j \in Jobs : HandedOver(j) => HandedOver(j)'
             /\ \/ queue' = queue
                \/ \E j \in Jobs : ~HandedOver(j) /\ HandedOver(j)' /\ queue' = Put(queue, FirstMessage(j))
  <2>1. PICK j \in Jobs : PublishOk(r, j) \/ PublishError(r, j)
    BY <1>0, <1>5 DEF PublishNext, PublishTimeout
  <2>2. row' = row /\ j \in todo[r] /\ stamped' \in {stamped, [stamped EXCEPT ![r] = @ \cup {j}]}
    BY <2>1 DEF PublishOk, PublishError, Published, Oldest
  <2>3. \A i \in Jobs : HandedOver(i) => HandedOver(i)'
    BY <2>2
  <2>4. CASE queue' # queue
    <3>1. queue' = Put(queue, FirstMessage(j)) /\ stamped' = [stamped EXCEPT ![r] = @ \cup {j}]
      BY <2>1, <2>4 DEF PublishOk, PublishError
    <3>2. ~HandedOver(j)
      BY <2>2, TodoIsOwed
    <3>3. HandedOver(j)'
      BY <3>1
    <3>. QED BY <2>3, <3>1, <3>2, <3>3
  <2>. QED BY <2>3, <2>4
<1>. QED BY <1>0, <1>1, <1>2, <1>3, <1>4, <1>5 DEF Next, DispatchBatch, Environment

\* Faults are counted, never forgotten.
LEMMA FaultsGrow == [Next]_vars => faults' \in {faults, faults + 1}
  BY DEF Next, CreateJob, BeginCreate, CommitCreate, AbortCreate, Answer, DispatchBatch, Claim,
         PublishNext, PublishOk, PublishError, PublishTimeout, Commit, RollBack, Environment,
         Crash, LoseConnection, NoticeLoss, Fault, vars, outboxVars

-----------------------------------------------------------------------------
(***************************************************************************)
(* The outbox implements the safety part of Enqueue, lost connections or   *)
(* not: every step stores a job, acknowledges a stored one, hands a stored *)
(* one over, or is invisible to the promise.                               *)
(***************************************************************************)

Stored == {j \in Jobs : Committed(j)}

Acked == {j \in Jobs : reply[j] = "accepted"}

Copies == [j \in Jobs |-> queue[FirstMessage(j)]]

\* Nobody is told 202 for a job that is not stored (handlers.rs:65).
AckedIsStored == \A j \in Jobs : reply[j] = "accepted" => Committed(j)

LEMMA StepAcked == LockInv /\ AckedIsStored /\ [Next]_vars => AckedIsStored'
<1>. SUFFICES ASSUME LockInv, AckedIsStored, [Next]_vars PROVE AckedIsStored'
  OBVIOUS
<1>. USE DEF LockInv, TypeOK, AckedIsStored, Committed
<1>1. CASE UNCHANGED vars
  BY <1>1 DEF vars, outboxVars
<1>2. ASSUME NEW j \in Jobs, CreateJob(j) PROVE AckedIsStored'
  BY <1>2 DEF CreateJob, BeginCreate, CommitCreate, AbortCreate, Answer
<1>3. ASSUME NEW r \in Relays, DispatchBatch(r) PROVE AckedIsStored'
  <2>1. reply' = reply /\ (row' = row \/ Commit(r))
    BY <1>3 DEF DispatchBatch, Claim, RollBack, PublishNext, PublishOk, PublishError,
                PublishTimeout, Published, Commit
  <2>. QED BY <2>1 DEF Commit
<1>4. ASSUME NEW r \in Relays, Environment(r) PROVE AckedIsStored'
  BY <1>4 DEF Environment, Crash, LoseConnection, NoticeLoss
<1>. QED BY <1>1, <1>2, <1>3, <1>4 DEF Next

\* A step that stores nothing, answers nobody and puts nothing in the queue is
\* invisible to the promise.
LEMMA Invisible ==
  ASSUME UNCHANGED <<reply, queue>>, \A j \in Jobs : Committed(j)' <=> Committed(j)
  PROVE  UNCHANGED <<Stored, Acked, Copies>>
  BY DEF Stored, Acked, Copies

LEMMA CreateRefines ==
  ASSUME LockInv, AckedIsStored, NEW j \in Jobs, CreateJob(j)
  PROVE  [Promise!Next]_<<Stored, Acked, Copies>>
<1>. USE DEF LockInv, TypeOK
<1>1. CASE BeginCreate(j)
  BY <1>1, Invisible DEF BeginCreate, Committed
<1>2. CASE CommitCreate(j)
  <2>1. Stored' = Stored \cup {j} /\ UNCHANGED <<Acked, Copies>>
    BY <1>2 DEF CommitCreate, Stored, Acked, Copies, Committed
  <2>. QED BY <2>1 DEF Promise!Next, Promise!Store, Stored, Acked, Copies
<1>3. CASE AbortCreate(j)
  <2>1. UNCHANGED <<Stored, Copies>>
    BY <1>3 DEF AbortCreate, Stored, Copies, Committed
  <2>2. reply[j] # "accepted"
    BY <1>3 DEF AbortCreate, AckedIsStored, Committed
  <2>3. Acked' = Acked
    BY <1>3, <2>2 DEF AbortCreate, Acked
  <2>. QED BY <2>1, <2>3
<1>4. CASE Answer(j)
  <2>1. UNCHANGED <<Stored, Copies>> /\ j \in Stored
    BY <1>4 DEF Answer, Stored, Copies, Committed
  <2>2. Acked' = Acked \cup {j} \/ Acked' = Acked
    BY <1>4 DEF Answer, Acked
  <2>. QED BY <2>1, <2>2 DEF Promise!Next, Promise!Ack, Stored, Acked, Copies
<1>. QED BY <1>1, <1>2, <1>3, <1>4 DEF CreateJob

\* A publish hands a stored job over, or is lost on the way to the broker.
LEMMA PublishRefines ==
  ASSUME LockInv, NEW r \in Relays, NEW j \in Jobs,
         PublishOk(r, j) \/ PublishError(r, j) \/ PublishTimeout(r, j)
  PROVE  [Promise!Next]_<<Stored, Acked, Copies>>
<1>1. j \in todo[r] /\ UNCHANGED <<row, reply>>
  BY DEF PublishOk, PublishError, PublishTimeout, Published, Oldest
<1>2. UNCHANGED <<Stored, Acked>>
  BY <1>1 DEF Stored, Acked, Committed
<1>3. CASE queue' = queue
  BY <1>2, <1>3 DEF Copies
<1>4. CASE queue' = Put(queue, FirstMessage(j))
  <2>1. j \in Stored
    BY <1>1, TodoIsOwed DEF Stored, Committed
  <2>2. Copies' = [Copies EXCEPT ![j] = @ + 1]
    BY <1>4, PutFirst DEF Copies, LockInv, TypeOK
  <2>3. Promise!HandOver(j)
    BY <1>2, <2>1, <2>2 DEF Promise!HandOver, Stored, Acked, Copies
  <2>. QED BY <2>3 DEF Promise!Next
<1>. QED BY <1>3, <1>4 DEF PublishOk, PublishError, PublishTimeout

LEMMA StepRefines ==
  LockInv /\ AckedIsStored /\ [Next]_vars => [Promise!Next]_<<Stored, Acked, Copies>>
<1>. SUFFICES ASSUME LockInv, AckedIsStored, [Next]_vars
              PROVE  [Promise!Next]_<<Stored, Acked, Copies>>
  OBVIOUS
<1>1. CASE UNCHANGED vars
  BY <1>1, Invisible DEF vars, outboxVars, Committed
<1>2. ASSUME NEW r \in Relays, DispatchBatch(r)
      PROVE  [Promise!Next]_<<Stored, Acked, Copies>>
  <2>1. CASE PublishNext(r)
    BY <2>1, PublishRefines DEF PublishNext
  <2>2. CASE Claim(r) \/ RollBack(r)
    BY <2>2, Invisible DEF Claim, RollBack, Committed
  <2>3. CASE Commit(r)
    <3>1. \A j \in Jobs : Committed(j)' <=> Committed(j)
      BY <2>3 DEF Commit, Committed, LockInv, TypeOK, ClaimsAreOpen
    <3>. QED BY <2>3, <3>1, Invisible DEF Commit
  <2>. QED BY <1>2, <2>1, <2>2, <2>3 DEF DispatchBatch
<1>3. ASSUME NEW r \in Relays, Environment(r) PROVE UNCHANGED <<Stored, Acked, Copies>>
  BY <1>3, Invisible DEF Environment, Crash, LoseConnection, NoticeLoss, Committed
<1>. QED BY <1>1, <1>2, <1>3, CreateRefines DEF Next

LEMMA InitRefines == Init => Promise!Init /\ AckedIsStored
<1>. SUFFICES ASSUME Init PROVE Promise!Init /\ AckedIsStored
  OBVIOUS
<1>1. \A j \in Jobs : queue[FirstMessage(j)] = 0
  BY FirstIsMessage DEF Init, EmptyQueue
<1>. QED BY <1>1 DEF Init, Promise!Init, AckedIsStored, Committed

\* handlers.rs:41: whatever crashes, times out or is lost, a job is
\* acknowledged only once it is stored and handed over only if it was stored.
THEOREM ImplementsEnqueueSafely == Spec => ImplementsSafely
<1>1. LockInv /\ AckedIsStored /\ [Next]_vars => [Promise!Next]_(Promise!vars)
  BY StepRefines DEF Promise!vars, Stored, Acked, Copies
<1>. QED BY InitLocks, StepLocks, InitRefines, StepAcked, <1>1, PTL
         DEF Spec, ImplementsSafely, Promise!Safety
=============================================================================
