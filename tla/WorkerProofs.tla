---------------------------- MODULE WorkerProofs ----------------------------
(***************************************************************************)
(* Proofs about module Worker, for every number of jobs, workers, slots,   *)
(* attempts, copies and lost channels.                                     *)
(***************************************************************************)
EXTENDS Worker, FiniteSetTheorems, TLAPS

USE AttemptsAssumption, WorkerAssumption

-----------------------------------------------------------------------------
(***************************************************************************)
(* Types.  A retry is only begun when an attempt is left, so the attempt   *)
(* of a republished message stays below MaxAttempts.                       *)
(***************************************************************************)

RetryHasAttempt ==
    \A t \in Tasks : pc[t] \in {"bump", "republish"} => msg[t].attempt + 1 < MaxAttempts

TypeInv == TypeOK /\ RetryHasAttempt

\* Every task belongs to a worker process.
LEMMA TaskWorker == \A t \in Tasks : t[1] \in Workers
  BY DEF Tasks

\* The tasks are finitely many, so counting some of them gives a number.
LEMMA TasksFinite ==
  IsFiniteSet(Tasks) /\ \A w, m : IsFiniteSet(Unacked(w, m)) /\ Cardinality(Unacked(w, m)) \in Nat
<1>1. IsFiniteSet(Tasks)
  BY FS_Product DEF Tasks
<1>2. ASSUME NEW w, NEW m PROVE IsFiniteSet(Unacked(w, m)) /\ Cardinality(Unacked(w, m)) \in Nat
  <2>1. Unacked(w, m) \subseteq Tasks
    BY DEF Unacked, TasksOf
  <2>. QED BY <1>1, <2>1, FS_Subset, FS_CardinalityType
<1>. QED BY <1>1, <1>2

\* The messages of a job are messages, and a queue stays a queue.
LEMMA QueueTypes ==
  /\ EmptyQueue \in Queues
  /\ \A q \in Queues, m \in Message : Put(q, m) \in Queues
  /\ \A q \in Queues, m \in Message : q[m] > 0 => Take(q, m) \in Queues
  BY DEF EmptyQueue, Queues, Put, Take

\* The error path leads to a retry only while attempts remain.
LEMMA AfterErrorType ==
  \A t \in Tasks, retryable \in BOOLEAN :
      /\ AfterError(t, retryable) \in {"bump", "fail"}
      /\ AfterError(t, retryable) = "bump" => msg[t].attempt + 1 < MaxAttempts
  BY DEF AfterError

\* What a step of one task does to pc when its message stays the same.
LEMMA GotoType ==
  ASSUME TypeInv, NEW t \in Tasks, NEW label \in Labels, Goto(t, label), msg' = msg,
         pc[t] # "idle",
         label \in {"bump", "republish"} => msg[t].attempt + 1 < MaxAttempts
  PROVE  /\ pc' \in [Tasks -> Labels]
         /\ \A u \in Tasks : pc'[u] # "idle" => msg'[u] \in Message
         /\ RetryHasAttempt'
<1>1. pc \in [Tasks -> Labels]
  BY DEF TypeInv, TypeOK
<1>2. pc' = [pc EXCEPT ![t] = label]
  BY DEF Goto
<1>. QED BY <1>1, <1>2 DEF TypeInv, TypeOK, RetryHasAttempt

\* The same for the error path of a call.
LEMMA ErrorType ==
  ASSUME TypeInv, NEW t \in Tasks, NEW retryable \in BOOLEAN, msg' = msg,
         pc[t] # "idle", Goto(t, AfterError(t, retryable))
  PROVE  /\ pc' \in [Tasks -> Labels]
         /\ \A u \in Tasks : pc'[u] # "idle" => msg'[u] \in Message
         /\ RetryHasAttempt'
<1>1. AfterError(t, retryable) \in Labels
  BY AfterErrorType DEF Labels, Disposal
<1>. QED BY <1>1, AfterErrorType, GotoType

LEMMA InitType == Init => TypeInv
<1>. SUFFICES ASSUME Init PROVE TypeInv
  OBVIOUS
<1>1. queue \in Queues
  BY DEF Init, Queues, Message
<1>2. TypeOK
  BY <1>1, QueueTypes DEF Init, TypeOK, Statuses, Labels
<1>3. RetryHasAttempt
  BY DEF Init, RetryHasAttempt
<1>. QED BY <1>2, <1>3 DEF TypeInv

\* What a database call of run_job does to the task that makes it.
LEMMA ContinueType ==
  ASSUME TypeInv, NEW t \in Tasks, NEW o \in PgOutcomes, NEW next \in Labels,
         next \notin {"bump", "republish"},
         msg' = msg, pc[t] # "idle", Continue(t, o, next)
  PROVE  /\ pc' \in [Tasks -> Labels]
         /\ \A u \in Tasks : pc'[u] # "idle" => msg'[u] \in Message
         /\ RetryHasAttempt'
<1>1. CASE o.ok
  BY <1>1, GotoType DEF Continue
<1>2. CASE ~o.ok
  BY <1>2, ErrorType DEF Continue
<1>. QED BY <1>1, <1>2

\* And what a failing or missing-table statement of ClickHouse does to it.
LEMMA ChErrorType ==
  ASSUME TypeInv, NEW t \in Tasks, msg' = msg, pc[t] # "idle",
         ChError(t) \/ MissingTable(t)
  PROVE  /\ pc' \in [Tasks -> Labels]
         /\ \A u \in Tasks : pc'[u] # "idle" => msg'[u] \in Message
         /\ RetryHasAttempt'
  BY ErrorType DEF ChError, MissingTable

LEMMA RunJobType ==
  ASSUME TypeInv, NEW t \in Tasks, RunJob(t)
  PROVE  TypeInv'
<1>. USE DEF TypeInv, TypeOK, jobVars, taskVars
<1>0. pc[t] # "idle" => JobOf(t) \in Jobs
  BY DEF JobOf, Message
<1>1. CASE CheckReady(t)
  BY <1>1, ContinueType DEF CheckReady, Labels, Pipeline, Disposal
<1>2. ASSUME NEW s \in {"downloading", "inferring", "ingesting"},
             NEW next \in {"inferring", "describe", "drop"}, SetStatus(t, s, next)
      PROVE  TypeInv'
  <2>1. PICK o \in PgOutcomes : Continue(t, o, next)
    BY <1>2 DEF SetStatus
  <2>2. next \in Labels
    BY DEF Labels, Pipeline
  <2>3. status' \in [Jobs -> Statuses]
    BY <1>2 DEF SetStatus, Statuses
  <2>. QED BY <1>2, <2>1, <2>2, <2>3, ContinueType DEF SetStatus
<1>3. CASE Describe(t)
  BY <1>3, GotoType, ChErrorType DEF Describe, Labels, Pipeline
<1>4. CASE DropTable(t)
  BY <1>4, GotoType, ChErrorType DEF DropTable, Labels, Pipeline
<1>5. CASE CreateTable(t)
  BY <1>5, GotoType, ChErrorType DEF CreateTable, Labels, Pipeline
<1>6. CASE Insert(t)
  <2>1. /\ pc' \in [Tasks -> Labels]
        /\ \A u \in Tasks : pc'[u] # "idle" => msg'[u] \in Message
        /\ RetryHasAttempt'
    BY <1>6, GotoType, ChErrorType DEF Insert, Labels, Pipeline
  <2>2. table' \in [Jobs -> Nat \cup {Null}]
    <3>1. CASE table' = table
      BY <3>1
    <3>2. CASE \E n \in 0 .. SourceRows :
                  table[JobOf(t)] # Null /\ table' = [table EXCEPT ![JobOf(t)] = @ + n]
      BY <1>0, <1>6, <3>2 DEF Insert
    <3>. QED BY <1>6, <3>1, <3>2 DEF Insert, MissingTable
  <2>. QED BY <1>6, <2>1, <2>2 DEF Insert
<1>7. CASE CountRows(t)
  <2>1. /\ pc' \in [Tasks -> Labels]
        /\ \A u \in Tasks : pc'[u] # "idle" => msg'[u] \in Message
        /\ RetryHasAttempt'
    BY <1>7, GotoType, ChErrorType DEF CountRows, Labels, Pipeline
  <2>2. table' = table /\ counted' \in [Tasks -> Nat]
    <3>1. table[JobOf(t)] # Null => table[JobOf(t)] \in Nat
      BY <1>0, <1>7 DEF CountRows
    <3>2. table' = table
      BY <1>7 DEF CountRows, MissingTable
    <3>3. \/ counted' = counted
          \/ table[JobOf(t)] # Null /\ counted' = [counted EXCEPT ![t] = table[JobOf(t)]]
          \/ counted' = [counted EXCEPT ![t] = 0]
      BY <1>7 DEF CountRows
    <3>. QED BY <3>1, <3>2, <3>3
  <2>. QED BY <1>7, <2>1, <2>2 DEF CountRows
<1>8. CASE Generate(t)
  BY <1>8, GotoType, ChErrorType DEF Generate, MissingTable, Labels, Pipeline
<1>9. CASE StoreDashboard(t)
  <2>1. PICK o \in PgOutcomes : Continue(t, o, "ready")
    BY <1>9 DEF StoreDashboard
  <2>2. dashboard' \in [Jobs -> Nat \cup {Null}]
    BY <1>0, <1>9 DEF StoreDashboard
  <2>. QED BY <1>9, <2>1, <2>2, ContinueType DEF StoreDashboard, Labels, Pipeline
<1>10. CASE MarkReady(t)
  <2>1. PICK o \in PgOutcomes : Continue(t, o, "ack")
    BY <1>10 DEF MarkReady
  <2>2. /\ status' \in [Jobs -> Statuses]
        /\ error' \in [Jobs -> BOOLEAN]
        /\ rowCount' \in [Jobs -> Nat \cup {Null}]
    <3>1. \/ UNCHANGED <<status, rowCount, error>>
          \/ /\ status' = [status EXCEPT ![JobOf(t)] = "ready"]
             /\ rowCount' = [rowCount EXCEPT ![JobOf(t)] = counted[t]]
             /\ error' = [error EXCEPT ![JobOf(t)] = FALSE]
      BY <1>10 DEF MarkReady
    <3>2. JobOf(t) \in Jobs /\ counted[t] \in Nat /\ "ready" \in Statuses
      BY <1>0, <1>10 DEF MarkReady, Statuses
    <3>3. status' \in [Jobs -> Statuses] /\ rowCount' \in [Jobs -> Nat \cup {Null}]
      BY <3>1, <3>2
    <3>4. error' \in [Jobs -> BOOLEAN]
      BY <3>1, <3>2, Zenon
    <3>. QED BY <3>3, <3>4
  <2>. QED BY <1>10, <2>1, <2>2, ContinueType DEF MarkReady, Labels, Disposal
<1>. QED BY <1>1, <1>2, <1>3, <1>4, <1>5, <1>6, <1>7, <1>8, <1>9, <1>10 DEF RunJob

LEMMA DisposeType ==
  ASSUME TypeInv, NEW t \in Tasks, Dispose(t)
  PROVE  TypeInv'
<1>. USE DEF TypeInv, TypeOK, jobVars, taskVars
<1>1. CASE Ack(t)
  BY <1>1 DEF Ack, Finished, Goto, Labels, RetryHasAttempt
<1>2. CASE Bump(t)
  <2>1. msg[t].attempt + 1 < MaxAttempts
    BY <1>2 DEF Bump, RetryHasAttempt
  <2>2. attempts' \in [Jobs -> Nat]
    BY <1>2 DEF Bump, JobOf, Message
  <2>. QED BY <1>2, <2>1, <2>2, GotoType DEF Bump, Labels, Disposal
<1>3. CASE Republish(t)
  <2>1. [msg[t] EXCEPT !.attempt = @ + 1] \in Message
    BY <1>3 DEF Republish, RetryHasAttempt, Message
  <2>2. queue' \in Queues
    BY <1>3, <2>1, QueueTypes DEF Republish
  <2>. QED BY <1>3, <2>2, GotoType DEF Republish, Labels, Disposal
<1>4. CASE MarkFailed(t)
  BY <1>4, GotoType DEF MarkFailed, Labels, Disposal, Statuses
<1>5. CASE DeadLetter(t)
  <2>1. dlq' \in Queues
    BY <1>5, QueueTypes DEF DeadLetter
  <2>. QED BY <1>5, <2>1 DEF DeadLetter, Finished, Goto, Labels, RetryHasAttempt
<1>. QED BY <1>1, <1>2, <1>3, <1>4, <1>5 DEF Dispose

LEMMA DeliverType ==
  ASSUME TypeInv, NEW t \in Tasks, NEW m \in Message, Deliver(t, m)
  PROVE  TypeInv'
<1>. USE DEF TypeInv, TypeOK, jobVars
<1>1. queue' \in Queues
  BY QueueTypes DEF Deliver
<1>. QED BY <1>1 DEF Deliver, Goto, Labels, RetryHasAttempt

LEMMA ChannelType ==
  ASSUME TypeInv, NEW w \in Workers, LoseChannel(w) \/ Restart(w)
  PROVE  TypeInv'
<1>. USE DEF TypeInv, TypeOK, jobVars
<1>1. CASE LoseChannel(w)
  <2>1. queue' \in Queues
    BY <1>1, TasksFinite DEF LoseChannel, Queues
  <2>. QED BY <1>1, <2>1 DEF LoseChannel, RetryHasAttempt
<1>2. CASE Restart(w)
  BY <1>2 DEF Restart, Labels, RetryHasAttempt
<1>. QED BY <1>1, <1>2

LEMMA StepType == TypeInv /\ [Next]_vars => TypeInv'
<1>. SUFFICES ASSUME TypeInv, [Next]_vars PROVE TypeInv'
  OBVIOUS
<1>1. CASE UNCHANGED vars
  BY <1>1 DEF TypeInv, TypeOK, RetryHasAttempt, vars, workerVars, jobVars, taskVars
<1>2. CASE Next
  BY <1>2, RunJobType, DisposeType, DeliverType, ChannelType DEF Next, Consume
<1>. QED BY <1>1, <1>2

\* Every reachable state is well typed: in particular no message is ever
\* republished with an attempt at or above MAX_ATTEMPTS (consumer.rs:69).
THEOREM TypeCorrect == Spec => []TypeOK
<1>1. TypeInv => TypeOK
  BY DEF TypeInv
<1>. QED BY InitType, StepType, <1>1, PTL DEF Spec

-----------------------------------------------------------------------------
(***************************************************************************)
(* A job shown ready has its dashboard.  The task that is about to mark it *)
(* ready has stored the dashboard itself, and nothing removes one.         *)
(***************************************************************************)

DashboardInv ==
    /\ ReadyHasDashboard
    /\ \A t \in Tasks : pc[t] = "ready" => dashboard[JobOf(t)] # Null

\* A step that sets no status to ready, brings no task to mark_ready and
\* leaves the dashboards alone preserves the invariant.
LEMMA DashboardFrame ==
  ASSUME DashboardInv, dashboard' = dashboard,
         \A j \in Jobs : status'[j] = "ready" => status[j] = "ready",
         \A u \in Tasks : pc'[u] = "ready" => pc[u] = "ready" /\ msg'[u] = msg[u]
  PROVE  DashboardInv'
  BY DEF DashboardInv, ReadyHasDashboard, JobOf

LEMMA RunJobDashboard ==
  ASSUME TypeInv, DashboardInv, NEW t \in Tasks, RunJob(t)
  PROVE  DashboardInv'
<1>. USE DEF TypeInv, TypeOK, jobVars, taskVars
<1>0. /\ pc[t] # "idle" => JobOf(t) \in Jobs
      /\ \A retryable \in BOOLEAN : AfterError(t, retryable) # "ready"
  BY AfterErrorType DEF JobOf, Message
<1>1. CASE CheckReady(t)
  BY <1>0, <1>1, DashboardFrame DEF CheckReady, Continue, Goto
<1>2. ASSUME NEW s \in {"downloading", "inferring", "ingesting"},
             NEW next \in {"inferring", "describe", "drop"}, SetStatus(t, s, next)
      PROVE  DashboardInv'
  <2>1. /\ dashboard' = dashboard /\ msg' = msg
        /\ status' \in {status, [status EXCEPT ![JobOf(t)] = s]}
    BY <1>2 DEF SetStatus
  <2>2. PICK label : label # "ready" /\ pc' = [pc EXCEPT ![t] = label]
    BY <1>0, <1>2 DEF SetStatus, Continue, Goto
  <2>. QED BY <2>1, <2>2, DashboardFrame
<1>3. CASE Describe(t)
  BY <1>0, <1>3, DashboardFrame DEF Describe, ChError, Goto
<1>4. CASE DropTable(t)
  BY <1>0, <1>4, DashboardFrame DEF DropTable, ChError, Goto
<1>5. CASE CreateTable(t)
  BY <1>0, <1>5, DashboardFrame DEF CreateTable, ChError, Goto
<1>6. CASE Insert(t)
  BY <1>0, <1>6, DashboardFrame DEF Insert, MissingTable, ChError, Goto
<1>7. CASE CountRows(t)
  BY <1>0, <1>7, DashboardFrame DEF CountRows, MissingTable, ChError, Goto
<1>8. CASE Generate(t)
  BY <1>0, <1>8, DashboardFrame DEF Generate, MissingTable, ChError, Goto
<1>9. CASE StoreDashboard(t)
  <2>1. JobOf(t) \in Jobs /\ counted[t] # Null
    BY <1>0, <1>9 DEF StoreDashboard, Null
  <2>2. /\ status' = status /\ msg' = msg
        /\ dashboard' \in {dashboard, [dashboard EXCEPT ![JobOf(t)] = counted[t]]}
        /\ \A u \in Tasks : u # t => pc'[u] = pc[u]
        /\ pc'[t] = "ready" => dashboard' = [dashboard EXCEPT ![JobOf(t)] = counted[t]]
    BY <1>0, <1>9 DEF StoreDashboard, Continue, Goto, PgOutcomes
  <2>3. \A j \in Jobs : dashboard[j] # Null => dashboard'[j] # Null
    BY <2>1, <2>2
  <2>4. \A u \in Tasks : pc'[u] = "ready" => dashboard'[JobOf(u)'] # Null
    BY <2>1, <2>2, <2>3 DEF DashboardInv, JobOf, Message
  <2>. QED BY <2>2, <2>3, <2>4 DEF DashboardInv, ReadyHasDashboard
<1>10. CASE MarkReady(t)
  <2>1. /\ \A j \in Jobs : status'[j] = "ready" => status[j] = "ready" \/ j = JobOf(t)
        /\ pc[t] = "ready" /\ dashboard' = dashboard /\ msg' = msg
        /\ \A u \in Tasks : pc'[u] = "ready" => pc[u] = "ready"
    <3>1. PICK label : label # "ready" /\ pc' = [pc EXCEPT ![t] = label]
      BY <1>0, <1>10 DEF MarkReady, Continue, Goto
    <3>2. /\ pc[t] = "ready" /\ dashboard' = dashboard /\ msg' = msg
          /\ status' \in {status, [status EXCEPT ![JobOf(t)] = "ready"]}
      BY <1>10 DEF MarkReady
    <3>. QED BY <3>1, <3>2
  <2>. QED BY <2>1 DEF DashboardInv, ReadyHasDashboard, JobOf
<1>. QED BY <1>1, <1>2, <1>3, <1>4, <1>5, <1>6, <1>7, <1>8, <1>9, <1>10 DEF RunJob

LEMMA StepDashboard == TypeInv /\ DashboardInv /\ [Next]_vars => DashboardInv'
<1>. SUFFICES ASSUME TypeInv, DashboardInv, [Next]_vars PROVE DashboardInv'
  OBVIOUS
<1>. USE DEF TypeInv, TypeOK, jobVars, taskVars
<1>1. CASE UNCHANGED vars
  BY <1>1, DashboardFrame DEF vars, workerVars
<1>2. ASSUME NEW t \in Tasks, NEW m \in Message, Deliver(t, m)
      PROVE  DashboardInv'
  BY <1>2, DashboardFrame DEF Deliver, Goto
<1>3. ASSUME NEW t \in Tasks, Dispose(t)
      PROVE  DashboardInv'
  <2>1. CASE Ack(t)
    BY <2>1, DashboardFrame DEF Ack, Finished, Goto
  <2>2. CASE Bump(t)
    BY <2>2, DashboardFrame DEF Bump, Goto
  <2>3. CASE Republish(t)
    BY <2>3, DashboardFrame DEF Republish, Goto
  <2>4. CASE MarkFailed(t)
    BY <2>4, DashboardFrame DEF MarkFailed, Goto
  <2>5. CASE DeadLetter(t)
    BY <2>5, DashboardFrame DEF DeadLetter, Finished, Goto
  <2>. QED BY <1>3, <2>1, <2>2, <2>3, <2>4, <2>5 DEF Dispose
<1>4. ASSUME NEW w \in Workers, LoseChannel(w) \/ Restart(w)
      PROVE  DashboardInv'
  BY <1>4, DashboardFrame DEF LoseChannel, Restart
<1>. QED BY <1>1, <1>2, <1>3, <1>4, RunJobDashboard DEF Next, Consume

\* ingest.rs:84: ready implies a dashboard, for any number of overlapping
\* tasks, whatever fails.
THEOREM ReadyDashboard == Spec => []ReadyHasDashboard
<1>1. Init => DashboardInv
  BY DEF Init, DashboardInv, ReadyHasDashboard
<1>2. DashboardInv => ReadyHasDashboard
  BY DEF DashboardInv
<1>. QED BY InitType, StepType, <1>1, StepDashboard, <1>2, PTL DEF Spec

-----------------------------------------------------------------------------
(***************************************************************************)
(* With one worker process no job is forgotten.  What makes it inductive:  *)
(* once the broker closed the channel, the message of every task that      *)
(* still runs is back in the queue, and stays there until the process has  *)
(* exited, because no other process consumes it.                           *)
(***************************************************************************)

SingleWorker == \A v, w \in Workers : v = w

HeldInv == \A t \in Tasks : ~up[t[1]] /\ pc[t] # "idle" => queue[msg[t]] > 0

\* A job is safe when it is over or somebody has a message for it.
Safe(j) == IsTerminal(status[j]) \/ InCustody(j)

\* What a step must do: no job that was safe is any longer at risk.
KeepsSafe == HeldInv' /\ \A j \in Jobs : Safe(j) => Safe(j)'

\* A step of task t concerns no job but its own: it is enough that its own job
\* is over or in custody afterwards.
LEMMA CustodyFrame ==
  ASSUME TypeInv, HeldInv, NEW t \in Tasks, up' = up,
         \A m \in Message : queue'[m] >= queue[m] /\ dlq'[m] >= dlq[m],
         \A u \in Tasks : u # t => pc'[u] = pc[u] /\ msg'[u] = msg[u],
         \A j \in Jobs : j # JobOf(t) => status'[j] = status[j],
         pc'[t] # "idle" => pc[t] # "idle" /\ msg'[t] = msg[t],
         \A j \in Jobs : j = JobOf(t) /\ Safe(j) => Safe(j)',
         queue' \in Queues, dlq' \in Queues
  PROVE  KeepsSafe
<1>. USE DEF TypeInv, TypeOK
<1>1. \A u \in Tasks : ~up'[u[1]] /\ pc'[u] # "idle" => queue'[msg'[u]] > 0
  BY DEF HeldInv, Queues
<1>2. ASSUME NEW j \in Jobs, j # JobOf(t), Safe(j)
      PROVE  Safe(j)'
  <2>1. CASE IsTerminal(status[j])
    BY <1>2, <2>1 DEF Safe
  <2>2. CASE \E m \in Message : m.job = j /\ queue[m] + dlq[m] > 0
    <3>1. PICK m \in Message : m.job = j /\ queue[m] + dlq[m] > 0
      BY <2>2
    <3>2. queue'[m] + dlq'[m] > 0
      BY <3>1 DEF Queues
    <3>. QED BY <3>1, <3>2 DEF InCustody, Safe
  <2>3. CASE \E u \in Tasks : up[u[1]] /\ pc[u] \notin {"idle", "ack"} /\ JobOf(u) = j
    BY <1>2, <2>3 DEF InCustody, JobOf, Safe
  <2>. QED BY <1>2, <2>1, <2>2, <2>3 DEF Safe, InCustody
<1>. QED BY <1>1, <1>2 DEF KeepsSafe, HeldInv

\* The own job of a task that goes on is in custody: the task holds it, or the
\* broker took the message back.
LEMMA TaskHolds ==
  ASSUME TypeInv, HeldInv, NEW t \in Tasks, up' = up, msg' = msg, pc[t] # "idle",
         \A m \in Message : queue'[m] >= queue[m],
         queue' \in Queues, dlq' \in Queues,
         pc'[t] \notin {"idle", "ack"} \/ ~up[t[1]]
  PROVE  \A j \in Jobs : j = JobOf(t) => InCustody(j)'
<1>. USE DEF TypeInv, TypeOK
<1>1. CASE up[t[1]]
  BY <1>1 DEF InCustody, JobOf
<1>2. CASE ~up[t[1]]
  <2>1. msg[t] \in Message /\ queue[msg[t]] > 0
    BY <1>2 DEF HeldInv
  <2>2. queue'[msg[t]] + dlq'[msg[t]] > 0
    BY <2>1 DEF Queues
  <2>. QED BY <2>1, <2>2 DEF InCustody, JobOf
<1>. QED BY <1>1, <1>2

\* A step of run_job moves the task on, or ends it with a job that is ready.
LEMMA RunJobMoves ==
  ASSUME TypeInv, NEW t \in Tasks, RunJob(t)
  PROVE  /\ pc[t] # "idle" /\ UNCHANGED <<queue, dlq, msg, up>>
         /\ \A u \in Tasks : u # t => pc'[u] = pc[u]
         /\ \A j \in Jobs : j # JobOf(t) => status'[j] = status[j]
         /\ pc'[t] # "idle"
         /\ pc'[t] = "ack" => status'[JobOf(t)] = "ready"
<1>. USE DEF TypeInv, TypeOK, jobVars, taskVars
<1>0. /\ pc[t] # "idle" => JobOf(t) \in Jobs
      /\ \A retryable \in BOOLEAN : AfterError(t, retryable) \notin {"ack", "idle"}
  BY AfterErrorType DEF JobOf, Message
<1>1. CASE CheckReady(t)
  BY <1>0, <1>1 DEF CheckReady, Continue, Goto
<1>2. ASSUME NEW s \in {"downloading", "inferring", "ingesting"},
             NEW next \in {"inferring", "describe", "drop"}, SetStatus(t, s, next)
      PROVE  /\ pc[t] # "idle" /\ UNCHANGED <<queue, dlq, msg, up>>
             /\ \A u \in Tasks : u # t => pc'[u] = pc[u]
             /\ \A j \in Jobs : j # JobOf(t) => status'[j] = status[j]
             /\ pc'[t] \notin {"idle", "ack"}
  <2>1. /\ pc[t] # "idle" /\ UNCHANGED <<queue, dlq, msg, up>>
        /\ status' \in {status, [status EXCEPT ![JobOf(t)] = s]}
    BY <1>2 DEF SetStatus
  <2>2. PICK label : label \notin {"ack", "idle"} /\ pc' = [pc EXCEPT ![t] = label]
    BY <1>0, <1>2 DEF SetStatus, Continue, Goto
  <2>. QED BY <2>1, <2>2
<1>3. CASE Describe(t)
  BY <1>0, <1>3 DEF Describe, ChError, Goto
<1>4. CASE DropTable(t)
  BY <1>0, <1>4 DEF DropTable, ChError, Goto
<1>5. CASE CreateTable(t)
  BY <1>0, <1>5 DEF CreateTable, ChError, Goto
<1>6. CASE Insert(t)
  BY <1>0, <1>6 DEF Insert, MissingTable, ChError, Goto
<1>7. CASE CountRows(t)
  BY <1>0, <1>7 DEF CountRows, MissingTable, ChError, Goto
<1>8. CASE Generate(t)
  BY <1>0, <1>8 DEF Generate, MissingTable, ChError, Goto
<1>9. CASE StoreDashboard(t)
  BY <1>0, <1>9 DEF StoreDashboard, Continue, Goto
<1>10. CASE MarkReady(t)
  <2>1. PICK o \in PgOutcomes :
            /\ o.applied => status' = [status EXCEPT ![JobOf(t)] = "ready"]
            /\ ~o.applied => status' = status
            /\ Continue(t, o, "ack")
    BY <1>10 DEF MarkReady
  <2>2. PICK label : /\ pc' = [pc EXCEPT ![t] = label] /\ label # "idle"
                     /\ label = "ack" => o.ok
    BY <1>0, <2>1 DEF Continue, Goto
  <2>3. o.ok => o.applied
    BY DEF PgOutcomes
  <2>4. pc[t] = "ready" /\ UNCHANGED <<queue, dlq, msg, up>>
    BY <1>10 DEF MarkReady
  <2>. QED BY <1>0, <2>1, <2>2, <2>3, <2>4
<1>. QED BY <1>1, <1>2, <1>3, <1>4, <1>5, <1>6, <1>7, <1>8, <1>9, <1>10 DEF RunJob

LEMMA RunJobCustody ==
  ASSUME TypeInv, HeldInv, NEW t \in Tasks, RunJob(t)
  PROVE  KeepsSafe
<1>1. /\ queue \in Queues /\ dlq \in Queues
      /\ \A m \in Message : queue[m] >= queue[m] /\ dlq[m] >= dlq[m]
  BY DEF TypeInv, TypeOK, Queues
<1>2. \A j \in Jobs : j = JobOf(t) => Safe(j)'
  <2>1. CASE pc'[t] = "ack"
    BY <2>1, RunJobMoves DEF Safe, IsTerminal
  <2>2. CASE pc'[t] # "ack"
    BY <1>1, <2>2, RunJobMoves, TaskHolds DEF Safe
  <2>. QED BY <2>1, <2>2
<1>. QED BY <1>1, <1>2, RunJobMoves, CustodyFrame

LEMMA DisposeCustody ==
  ASSUME TypeInv, HeldInv, NEW t \in Tasks, Dispose(t)
  PROVE  KeepsSafe
<1>. USE DEF TypeInv, TypeOK, jobVars, taskVars
<1>0. /\ queue' \in Queues /\ dlq' \in Queues
      /\ \A m \in Message : queue[m] >= queue[m] /\ dlq[m] >= dlq[m]
  BY DisposeType DEF Queues
<1>1. CASE Ack(t)
  <2>1. /\ pc[t] = "ack" /\ pc'[t] = "idle"
        /\ UNCHANGED <<queue, dlq, status, up>>
        /\ \A u \in Tasks : u # t => pc'[u] = pc[u] /\ msg'[u] = msg[u]
    BY <1>1 DEF Ack, Finished, Goto
  <2>2. \A j \in Jobs : j = JobOf(t) /\ Safe(j) => Safe(j)'
    <3>1. SUFFICES ASSUME NEW j \in Jobs, InCustody(j) PROVE InCustody(j)'
      BY <2>1 DEF Safe
    <3>2. CASE \E m \in Message : m.job = j /\ queue[m] + dlq[m] > 0
      BY <2>1, <3>2 DEF InCustody
    <3>3. CASE \E u \in Tasks : up[u[1]] /\ pc[u] \notin {"idle", "ack"} /\ JobOf(u) = j
      BY <2>1, <3>3 DEF InCustody, JobOf
    <3>. QED BY <3>1, <3>2, <3>3 DEF InCustody
  <2>. QED BY <1>0, <2>1, <2>2, CustodyFrame
<1>2. CASE Bump(t)
  <2>1. /\ pc[t] # "idle" /\ pc'[t] \notin {"idle", "ack"}
        /\ UNCHANGED <<queue, dlq, status, up, msg>>
        /\ \A u \in Tasks : u # t => pc'[u] = pc[u]
    BY <1>2 DEF Bump, Goto
  <2>. QED BY <1>0, <2>1, TaskHolds, CustodyFrame DEF Safe
<1>3. CASE Republish(t)
  <2>1. /\ pc[t] = "republish" /\ pc'[t] \in {"ack", "fail"}
        /\ UNCHANGED <<dlq, status, up, msg>>
        /\ \A u \in Tasks : u # t => pc'[u] = pc[u]
    BY <1>3 DEF Republish, Goto
  <2>2. CASE ~up[t[1]]
    <3>1. queue' = queue
      BY <1>3, <2>2 DEF Republish
    <3>. QED BY <1>0, <2>1, <2>2, <3>1, TaskHolds, CustodyFrame DEF Safe
  <2>3. CASE up[t[1]]
    <3>. DEFINE retry == [msg[t] EXCEPT !.attempt = @ + 1]
    <3>1. retry \in Message /\ retry.job = JobOf(t)
      BY <2>1 DEF RetryHasAttempt, Message, JobOf
    <3>2. queue' = Put(queue, retry)
      BY <1>3, <2>3 DEF Republish
    <3>3. /\ \A m \in Message : queue'[m] >= queue[m]
          /\ queue'[retry] + dlq'[retry] > 0
      BY <1>0, <2>1, <3>1, <3>2 DEF Put, Queues
    <3>4. \A j \in Jobs : j = JobOf(t) => InCustody(j)'
      BY <2>1, <3>1, <3>3 DEF InCustody, JobOf
    <3>. QED BY <1>0, <2>1, <3>3, <3>4, CustodyFrame DEF Safe
  <2>. QED BY <2>2, <2>3
<1>4. CASE MarkFailed(t)
  <2>1. /\ pc[t] # "idle" /\ pc'[t] \notin {"idle", "ack"}
        /\ UNCHANGED <<queue, dlq, up, msg>>
        /\ status' \in {status, [status EXCEPT ![JobOf(t)] = "failed"]}
        /\ \A u \in Tasks : u # t => pc'[u] = pc[u]
    BY <1>4 DEF MarkFailed, Goto
  <2>. QED BY <1>0, <2>1, TaskHolds, CustodyFrame DEF Safe
<1>5. CASE DeadLetter(t)
  <2>1. /\ pc[t] = "nack" /\ pc'[t] = "idle"
        /\ UNCHANGED <<queue, status, up>>
        /\ \A u \in Tasks : u # t => pc'[u] = pc[u] /\ msg'[u] = msg[u]
    BY <1>5 DEF DeadLetter, Finished, Goto
  <2>2. msg[t] \in Message
    BY <2>1
  <2>3. /\ \A m \in Message : dlq'[m] >= dlq[m]
        /\ queue'[msg[t]] + dlq'[msg[t]] > 0
    <3>1. CASE up[t[1]]
      BY <1>0, <1>5, <2>1, <2>2, <3>1 DEF DeadLetter, Put, Queues
    <3>2. CASE ~up[t[1]]
      BY <1>0, <1>5, <2>1, <2>2, <3>2 DEF DeadLetter, HeldInv, Queues
    <3>. QED BY <3>1, <3>2
  <2>4. \A j \in Jobs : j = JobOf(t) => InCustody(j)'
    BY <2>2, <2>3 DEF InCustody, JobOf
  <2>. QED BY <1>0, <2>1, <2>3, <2>4, CustodyFrame DEF Safe
<1>. QED BY <1>1, <1>2, <1>3, <1>4, <1>5 DEF Dispose

LEMMA DeliverCustody ==
  ASSUME SingleWorker, TypeInv, HeldInv, NEW t \in Tasks, NEW m \in Message, Deliver(t, m)
  PROVE  KeepsSafe
<1>. USE DEF TypeInv, TypeOK, jobVars
<1>1. /\ up[t[1]] /\ pc[t] = "idle" /\ pc'[t] = "check" /\ msg'[t] = m
      /\ UNCHANGED <<dlq, status, up>>
      /\ \A u \in Tasks : u # t => pc'[u] = pc[u] /\ msg'[u] = msg[u]
      /\ \A n \in Message : n # m => queue'[n] = queue[n]
  BY DEF Deliver, Goto, Take, Queues
<1>2. \A u \in Tasks : up'[u[1]]
  BY <1>1, TaskWorker DEF SingleWorker
<1>3. ASSUME NEW j \in Jobs, InCustody(j)
      PROVE  InCustody(j)'
  <2>1. CASE \E n \in Message : n # m /\ n.job = j /\ queue[n] + dlq[n] > 0
    BY <1>1, <2>1 DEF InCustody
  <2>2. CASE m.job = j
    BY <1>1, <2>2 DEF InCustody, JobOf
  <2>3. CASE \E u \in Tasks : up[u[1]] /\ pc[u] \notin {"idle", "ack"} /\ JobOf(u) = j
    BY <1>1, <2>3 DEF InCustody, JobOf
  <2>. QED BY <1>3, <2>1, <2>2, <2>3 DEF InCustody
<1>. QED BY <1>1, <1>2, <1>3 DEF KeepsSafe, HeldInv, Safe

LEMMA ChannelCustody ==
  ASSUME SingleWorker, TypeInv, HeldInv, NEW w \in Workers, LoseChannel(w) \/ Restart(w)
  PROVE  KeepsSafe
<1>. USE DEF TypeInv, TypeOK, jobVars
<1>1. CASE LoseChannel(w)
  <2>1. UNCHANGED <<dlq, status, pc, msg>>
    BY <1>1 DEF LoseChannel
  <2>2. \A m \in Message : queue'[m] = queue[m] + Cardinality(Unacked(w, m))
    BY <1>1 DEF LoseChannel
  <2>3. \A m \in Message : queue[m] \in Nat /\ dlq[m] \in Nat /\ queue'[m] >= queue[m]
    BY <2>2, TasksFinite DEF Queues
  <2>4. ASSUME NEW t \in Tasks, pc[t] # "idle"
        PROVE  msg[t] \in Message /\ queue'[msg[t]] > 0
    <3>1. t \in Unacked(w, msg[t]) /\ msg[t] \in Message
      BY <2>4, TaskWorker DEF Unacked, TasksOf, SingleWorker
    <3>2. Cardinality(Unacked(w, msg[t])) # 0
      BY <3>1, TasksFinite, FS_EmptySet
    <3>. QED BY <2>2, <2>3, <3>1, <3>2, TasksFinite
  <2>5. ASSUME NEW j \in Jobs, InCustody(j)
        PROVE  InCustody(j)'
    <3>1. CASE \E m \in Message : m.job = j /\ queue[m] + dlq[m] > 0
      <4>1. PICK m \in Message : m.job = j /\ queue[m] + dlq[m] > 0
        BY <3>1
      <4>2. queue'[m] + dlq'[m] > 0
        BY <2>1, <2>2, <2>3, <4>1, TasksFinite
      <4>. QED BY <4>1, <4>2 DEF InCustody
    <3>2. CASE \E t \in Tasks : up[t[1]] /\ pc[t] \notin {"idle", "ack"} /\ JobOf(t) = j
      <4>1. PICK t \in Tasks : pc[t] # "idle" /\ JobOf(t) = j
        BY <3>2
      <4>2. queue'[msg[t]] + dlq'[msg[t]] > 0
        BY <2>1, <2>2, <2>3, <2>4, <4>1, TasksFinite
      <4>. QED BY <2>4, <4>1, <4>2 DEF InCustody, JobOf
    <3>. QED BY <2>5, <3>1, <3>2 DEF InCustody
  <2>. QED BY <2>1, <2>4, <2>5 DEF KeepsSafe, HeldInv, Safe
<1>2. CASE Restart(w)
  <2>1. /\ UNCHANGED <<queue, dlq, status>>
        /\ \A t \in Tasks : pc'[t] = "idle" /\ ~up[t[1]]
    BY <1>2, TaskWorker DEF Restart, SingleWorker
  <2>. QED BY <2>1 DEF KeepsSafe, HeldInv, Safe, InCustody
<1>. QED BY <1>1, <1>2

LEMMA StepCustody ==
  ASSUME SingleWorker, TypeInv, HeldInv, [Next]_vars
  PROVE  KeepsSafe
<1>1. CASE UNCHANGED vars
  BY <1>1 DEF vars, workerVars, jobVars, taskVars, KeepsSafe, HeldInv, Safe, InCustody, JobOf
<1>2. CASE Next
  BY <1>2, RunJobCustody, DisposeCustody, DeliverCustody, ChannelCustody DEF Next, Consume
<1>. QED BY <1>1, <1>2

LEMMA InitCustody == Init => NeverForgotten /\ HeldInv
<1>. SUFFICES ASSUME Init PROVE NeverForgotten /\ HeldInv
  OBVIOUS
<1>1. PICK copies \in [Jobs -> 1 .. MaxCopies] :
          queue = [m \in Message |-> IF m.attempt = 0 THEN copies[m.job] ELSE 0]
  BY DEF Init
<1>2. ASSUME NEW j \in Jobs PROVE InCustody(j)
  <2>1. FirstMessage(j) \in Message
    BY DEF FirstMessage, Message
  <2>2. queue[FirstMessage(j)] = copies[j] /\ dlq[FirstMessage(j)] = 0
    BY <1>1, <2>1 DEF FirstMessage, Init, EmptyQueue
  <2>. QED BY <2>1, <2>2 DEF InCustody, FirstMessage
<1>. QED BY <1>2 DEF Init, HeldInv, NeverForgotten

\* No job is forgotten by a single worker process, however many slots it has,
\* however often it restarts and whichever database calls fail.
THEOREM Custody == ASSUME SingleWorker PROVE Spec => []NeverForgotten
<1>1. TypeInv /\ NeverForgotten /\ HeldInv /\ [Next]_vars => (NeverForgotten /\ HeldInv)'
  BY StepCustody DEF KeepsSafe, Safe, NeverForgotten
<1>. QED BY InitType, StepType, InitCustody, <1>1, PTL DEF Spec

-----------------------------------------------------------------------------
(***************************************************************************)
(* The worker brings no job into the system: whatever it works on came to  *)
(* it as a message.                                                        *)
(***************************************************************************)

Present(j) ==
    \/ \E m \in Message : m.job = j /\ queue[m] > 0
    \/ \E t \in Tasks : pc[t] # "idle" /\ JobOf(t) = j

LEMMA StepBringsNone ==
  ASSUME TypeInv, [Next]_vars, NEW j \in Jobs, Present(j)'
  PROVE  Present(j)
<1>. USE DEF TypeInv, TypeOK
<1>0. \A m \in Message : queue[m] \in Nat
  BY DEF Queues
<1>1. CASE UNCHANGED vars
  BY <1>1 DEF vars, workerVars, taskVars, Present, JobOf
<1>2. ASSUME NEW t \in Tasks, RunJob(t) PROVE Present(j)
  BY <1>2, RunJobMoves DEF Present, JobOf
<1>3. ASSUME NEW t \in Tasks, Dispose(t) PROVE Present(j)
  <2>1. /\ pc[t] # "idle"
        /\ \A u \in Tasks : pc'[u] # "idle" => pc[u] # "idle" /\ msg'[u] = msg[u]
    BY <1>3 DEF Dispose, Ack, Bump, Republish, MarkFailed, DeadLetter, Finished, Goto, taskVars
  <2>2. CASE Republish(t)
    <3>1. PICK retry : retry.job = JobOf(t) /\ queue' \in {queue, Put(queue, retry)}
      BY <1>3, <2>2 DEF Republish, JobOf, Message
    <3>2. \A m \in Message : queue'[m] > 0 => queue[m] > 0 \/ m = retry
      BY <1>0, <3>1 DEF Put, Queues
    <3>. QED BY <2>1, <3>1, <3>2 DEF Present, JobOf
  <2>3. CASE ~Republish(t)
    <3>1. queue' = queue
      BY <1>3, <2>3 DEF Dispose, Ack, Bump, MarkFailed, DeadLetter
    <3>. QED BY <2>1, <3>1 DEF Present, JobOf
  <2>. QED BY <2>2, <2>3
<1>4. ASSUME NEW t \in Tasks, NEW m \in Message, Deliver(t, m) PROVE Present(j)
  <2>1. /\ queue[m] > 0 /\ msg'[t] = m
        /\ \A u \in Tasks : u # t => pc'[u] = pc[u] /\ msg'[u] = msg[u]
        /\ \A n \in Message : queue'[n] > 0 => queue[n] > 0
    BY <1>0, <1>4 DEF Deliver, Goto, Take, Queues
  <2>. QED BY <2>1 DEF Present, JobOf
<1>5. ASSUME NEW w \in Workers, LoseChannel(w) PROVE Present(j)
  <2>1. UNCHANGED <<pc, msg>>
    BY <1>5 DEF LoseChannel
  <2>2. ASSUME NEW m \in Message, queue'[m] > 0, m.job = j PROVE Present(j)
    <3>1. CASE Unacked(w, m) = {}
      <4>1. queue'[m] = queue[m] + 0
        BY <1>5, <3>1, FS_EmptySet DEF LoseChannel
      <4>. QED BY <1>0, <2>2, <4>1 DEF Present
    <3>2. CASE Unacked(w, m) # {}
      BY <2>2, <3>2 DEF Unacked, TasksOf, Present, JobOf
    <3>. QED BY <3>1, <3>2
  <2>. QED BY <2>1, <2>2 DEF Present, JobOf
<1>6. ASSUME NEW w \in Workers, Restart(w) PROVE Present(j)
  BY <1>6 DEF Restart, Present, JobOf
<1>. QED BY <1>1, <1>2, <1>3, <1>4, <1>5, <1>6 DEF Next, Consume

-----------------------------------------------------------------------------
(***************************************************************************)
(* A task concerns itself and its own job only.                            *)
(***************************************************************************)
LEMMA TaskFrame ==
  ASSUME TypeInv, NEW t \in Tasks, RunJob(t) \/ Dispose(t)
  PROVE  /\ UNCHANGED <<up, channelLosses>>
         /\ pc[t] # "idle" /\ JobOf(t) \in Jobs
         /\ \A u \in Tasks : u # t => pc'[u] = pc[u] /\ msg'[u] = msg[u] /\ counted'[u] = counted[u]
         /\ \A j \in Jobs : j # JobOf(t) =>
                /\ status'[j] = status[j] /\ error'[j] = error[j]
                /\ rowCount'[j] = rowCount[j] /\ attempts'[j] = attempts[j]
                /\ dashboard'[j] = dashboard[j] /\ table'[j] = table[j]
<1>. USE DEF TypeInv, TypeOK, jobVars, taskVars
<1>0. pc[t] # "idle" => JobOf(t) \in Jobs
  BY DEF JobOf, Message
<1>1. CASE CheckReady(t)
  BY <1>0, <1>1 DEF CheckReady, Continue, Goto
<1>2. ASSUME NEW s \in {"downloading", "inferring", "ingesting"},
             NEW next \in {"inferring", "describe", "drop"}, SetStatus(t, s, next)
      PROVE  /\ UNCHANGED <<up, channelLosses, error, rowCount, attempts, dashboard, table>>
             /\ pc[t] # "idle" /\ msg' = msg /\ counted' = counted
             /\ \A u \in Tasks : u # t => pc'[u] = pc[u]
             /\ \A j \in Jobs : j # JobOf(t) => status'[j] = status[j]
  <2>1. /\ UNCHANGED <<up, channelLosses, msg, counted, error, rowCount, attempts, dashboard, table>>
        /\ pc[t] # "idle" /\ status' \in {status, [status EXCEPT ![JobOf(t)] = s]}
        /\ \E label : pc' = [pc EXCEPT ![t] = label]
    BY <1>2 DEF SetStatus, Continue, Goto
  <2>. QED BY <2>1
<1>3. CASE Describe(t)
  BY <1>0, <1>3 DEF Describe, ChError, Goto
<1>4. CASE DropTable(t)
  BY <1>0, <1>4 DEF DropTable, ChError, Goto
<1>5. CASE CreateTable(t)
  BY <1>0, <1>5 DEF CreateTable, ChError, Goto
<1>6. CASE Insert(t)
  BY <1>0, <1>6 DEF Insert, MissingTable, ChError, Goto
<1>7. CASE CountRows(t)
  BY <1>0, <1>7 DEF CountRows, MissingTable, ChError, Goto
<1>8. CASE Generate(t)
  BY <1>0, <1>8 DEF Generate, MissingTable, ChError, Goto
<1>9. CASE StoreDashboard(t)
  BY <1>0, <1>9 DEF StoreDashboard, Continue, Goto
<1>10. CASE MarkReady(t)
  <2>1. /\ UNCHANGED <<up, channelLosses, msg, counted, attempts, dashboard, table>>
        /\ pc[t] # "idle" /\ \E label : pc' = [pc EXCEPT ![t] = label]
        /\ \/ UNCHANGED <<status, rowCount, error>>
           \/ /\ status' = [status EXCEPT ![JobOf(t)] = "ready"]
              /\ rowCount' = [rowCount EXCEPT ![JobOf(t)] = counted[t]]
              /\ error' = [error EXCEPT ![JobOf(t)] = FALSE]
    BY <1>10 DEF MarkReady, Continue, Goto
  <2>. QED BY <1>0, <2>1
<1>11. CASE Ack(t) \/ DeadLetter(t)
  BY <1>0, <1>11 DEF Ack, DeadLetter, Finished, Goto
<1>12. CASE Bump(t) \/ Republish(t)
  BY <1>0, <1>12 DEF Bump, Republish, Goto
<1>13. CASE MarkFailed(t)
  <2>1. /\ UNCHANGED <<up, channelLosses, msg, counted, rowCount, attempts, dashboard, table>>
        /\ pc[t] # "idle" /\ \E label : pc' = [pc EXCEPT ![t] = label]
        /\ \/ UNCHANGED <<status, error>>
           \/ /\ status' = [status EXCEPT ![JobOf(t)] = "failed"]
              /\ error' = [error EXCEPT ![JobOf(t)] = TRUE]
    BY <1>13 DEF MarkFailed, Goto
  <2>. QED BY <1>0, <2>1
<1>. QED BY <1>0, <1>1, <1>2, <1>3, <1>4, <1>5, <1>6, <1>7, <1>8, <1>9, <1>10, <1>11, <1>12, <1>13
         DEF RunJob, Dispose

-----------------------------------------------------------------------------
(***************************************************************************)
(* Redelivery of a job is idempotent as long as its deliveries do not      *)
(* overlap and the count comes back: the one task that works on the job    *)
(* knows what it did to the table, and it never touches a job that is      *)
(* ready.  Tasks of other jobs may overlap as they like.                   *)
(***************************************************************************)

NoOverlapOf(job) ==
    \A t, u \in Tasks :
        /\ pc[t] \in Pipeline /\ JobOf(t) = job
        /\ pc[u] \in Pipeline /\ JobOf(u) = job
        => t = u

NoOverlap ==
    \A t, u \in Tasks :
        pc[t] \in Pipeline /\ pc[u] \in Pipeline /\ JobOf(t) = JobOf(u) => t = u

ExactJob(j) ==
    status[j] = "ready" =>
        table[j] = SourceRows /\ rowCount[j] = SourceRows /\ dashboard[j] = SourceRows

ExactTask(t) ==
    /\ pc[t] \in Pipeline => status[JobOf(t)] # "ready"
    /\ pc[t] = "create" => table[JobOf(t)] = Null
    /\ pc[t] = "insert" => table[JobOf(t)] = 0
    /\ pc[t] \in {"count", "generate", "store", "ready"} => table[JobOf(t)] = SourceRows
    /\ pc[t] \in {"generate", "store", "ready"} => counted[t] = SourceRows
    /\ pc[t] = "ready" => dashboard[JobOf(t)] = SourceRows

\* What is true of one job, and of all of them.
ExactOf(job) ==
    /\ ExactJob(job)
    /\ \A t \in Tasks : pc[t] \in Pipeline /\ JobOf(t) = job => ExactTask(t)

ExactInv ==
    /\ \A j \in Jobs : ExactJob(j)
    /\ \A t \in Tasks : ExactTask(t)

\* A step that leaves what is stored of a job alone and takes no task on for it.
LEMMA ExactFrame ==
  ASSUME NEW job \in Jobs, ExactOf(job),
         table'[job] = table[job], dashboard'[job] = dashboard[job],
         rowCount'[job] = rowCount[job], status'[job] = "ready" => status[job] = "ready",
         \A t \in Tasks : pc'[t] \in Pipeline /\ JobOf(t)' = job =>
             pc'[t] = pc[t] /\ msg'[t] = msg[t] /\ counted'[t] = counted[t]
  PROVE  ExactOf(job)'
<1>1. ExactJob(job)'
  BY DEF ExactOf, ExactJob
<1>2. ASSUME NEW t \in Tasks, pc'[t] \in Pipeline, JobOf(t)' = job PROVE ExactTask(t)'
  <2>1. pc'[t] = pc[t] /\ counted'[t] = counted[t] /\ JobOf(t) = job
    BY <1>2 DEF JobOf
  <2>2. ExactTask(t)
    BY <1>2, <2>1 DEF ExactOf
  <2>. QED BY <1>2, <2>1, <2>2 DEF ExactTask
<1>. QED BY <1>1, <1>2 DEF ExactOf

\* A step of the one task that works on a job disturbs no other task of it.
LEMMA ExactOwnJob ==
  ASSUME NEW t \in Tasks, NEW job \in Jobs, job = JobOf(t),
         NoOverlapOf(job), TypeInv, ExactOf(job), RunJob(t),
         pc[t] \in Pipeline \/ UNCHANGED <<status, table, dashboard>>,
         ExactJob(job)', ExactTask(t)'
  PROVE  ExactOf(job)'
<1>1. ASSUME NEW u \in Tasks, pc'[u] \in Pipeline, JobOf(u)' = job PROVE ExactTask(u)'
  <2>1. CASE u = t
    BY <2>1
  <2>2. CASE u # t
    <3>1. /\ pc'[u] = pc[u] /\ JobOf(u) = job /\ counted'[u] = counted[u]
      BY <1>1, <2>2, TaskFrame DEF JobOf
    <3>2. UNCHANGED <<status, table, dashboard>> /\ ExactTask(u)
      BY <1>1, <2>2, <3>1 DEF NoOverlapOf, ExactOf
    <3>. QED BY <1>1, <3>1, <3>2 DEF ExactTask
  <2>. QED BY <2>1, <2>2
<1>. QED BY <1>1 DEF ExactOf

LEMMA RunJobExact ==
  ASSUME NEW t \in Tasks, NEW job \in Jobs, job = JobOf(t), "body_lost" \notin Faults,
         NoOverlapOf(job), TypeInv, ExactOf(job), RunJob(t)
  PROVE  ExactOf(job)'
<1>. USE DEF TypeInv, TypeOK, jobVars, taskVars
<1>0. /\ pc[t] # "idle" => JobOf(t) \in Jobs
      /\ \A retryable \in BOOLEAN : AfterError(t, retryable) \notin Pipeline
      /\ ExactTask(t) /\ ExactJob(job)
  <2>1. pc[t] \notin Pipeline => ExactTask(t)
    BY DEF ExactTask, Pipeline
  <2>. QED BY <2>1, AfterErrorType DEF JobOf, Message, ExactOf, Pipeline
<1>1. CASE CheckReady(t)
  <2>1. /\ UNCHANGED <<status, table, dashboard, rowCount, msg>> /\ JobOf(t) \in Jobs
    BY <1>0, <1>1 DEF CheckReady
  <2>2. PICK label : /\ pc' = [pc EXCEPT ![t] = label]
                     /\ \/ label \notin Pipeline
                        \/ label = "downloading" /\ status[JobOf(t)] # "ready"
    <3>1. PICK o \in PgOutcomes :
              Continue(t, o, IF status[JobOf(t)] = "ready" THEN "ack" ELSE "downloading")
      BY <1>1 DEF CheckReady
    <3>2. CASE ~o.ok
      BY <1>0, <3>1, <3>2 DEF Continue, Goto
    <3>3. CASE o.ok
      <4>1. pc' = [pc EXCEPT ![t] = IF status[JobOf(t)] = "ready" THEN "ack" ELSE "downloading"]
        BY <3>1, <3>3 DEF Continue, Goto
      <4>2. CASE status[JobOf(t)] = "ready"
        <5>1. pc' = [pc EXCEPT ![t] = "ack"]
          BY <4>1, <4>2
        <5>2. "ack" \notin Pipeline
          BY DEF Pipeline
        <5>. QED BY <5>1, <5>2
      <4>3. CASE status[JobOf(t)] # "ready"
        BY <4>1, <4>3
      <4>. QED BY <4>2, <4>3
    <3>. QED BY <3>2, <3>3
  <2>3. ExactTask(t)'
    BY <2>1, <2>2 DEF ExactTask, JobOf, Pipeline
  <2>4. ExactJob(job)'
    BY <1>0, <2>1 DEF ExactJob
  <2>. QED BY <2>1, <2>3, <2>4, ExactOwnJob
<1>2. ASSUME NEW s \in {"downloading", "inferring", "ingesting"},
             NEW next \in {"inferring", "describe", "drop"}, SetStatus(t, s, next)
      PROVE  ExactOf(job)'
  <2>1. /\ UNCHANGED <<table, dashboard, rowCount, msg>>
        /\ status' \in {status, [status EXCEPT ![JobOf(t)] = s]}
        /\ pc[t] \in Pipeline /\ JobOf(t) \in Jobs
    BY <1>0, <1>2 DEF SetStatus, Pipeline
  <2>2. PICK label : /\ pc' = [pc EXCEPT ![t] = label]
                     /\ label \notin Pipeline \/ label = next
    BY <1>0, <1>2 DEF SetStatus, Continue, Goto
  <2>3. status'[JobOf(t)] # "ready"
    BY <1>0, <2>1 DEF ExactTask
  <2>4. ExactTask(t)'
    BY <2>1, <2>2, <2>3 DEF ExactTask, JobOf, Pipeline
  <2>. QED BY <2>1, <2>3, <2>4, ExactOwnJob DEF ExactJob
\* The calls of ClickHouse change nothing but the table and the count.
<1>3. ASSUME UNCHANGED <<status, dashboard, rowCount, msg>>, pc[t] \in Pipeline,
             \A j \in Jobs : j # JobOf(t) => table'[j] = table[j],
             ExactTask(t)'
      PROVE  ExactOf(job)'
  <2>1. JobOf(t) \in Jobs /\ status'[JobOf(t)] # "ready"
    BY <1>0, <1>3 DEF ExactTask, Pipeline
  <2>. QED BY <1>3, <2>1, ExactOwnJob DEF ExactJob
\* One that fails leaves the pipeline, whatever it did to the table.
<1>4. ASSUME UNCHANGED <<status, dashboard, rowCount, msg>>, pc[t] \in Pipeline,
             \A j \in Jobs : j # JobOf(t) => table'[j] = table[j],
             ChError(t) \/ Goto(t, AfterError(t, FALSE))
      PROVE  ExactOf(job)'
  <2>1. pc'[t] \notin Pipeline
    BY <1>0, <1>4 DEF ChError, Goto
  <2>2. ExactTask(t)'
    BY <2>1 DEF ExactTask, Pipeline
  <2>. QED BY <1>3, <1>4, <2>2
<1>5. CASE Describe(t)
  <2>1. UNCHANGED <<status, dashboard, rowCount, msg, table>> /\ pc[t] = "describe"
    BY <1>5 DEF Describe
  <2>2. CASE Goto(t, "ingesting")
    <3>1. ExactTask(t)'
      BY <1>0, <2>1, <2>2 DEF Goto, ExactTask, JobOf, Pipeline
    <3>. QED BY <1>3, <2>1, <3>1 DEF Pipeline
  <2>. QED BY <1>4, <1>5, <2>1, <2>2 DEF Describe, Pipeline
<1>6. CASE DropTable(t)
  <2>1. /\ UNCHANGED <<status, dashboard, rowCount, msg>> /\ pc[t] = "drop"
        /\ \A j \in Jobs : j # JobOf(t) => table'[j] = table[j]
    BY <1>6 DEF DropTable
  <2>2. CASE Goto(t, "create") /\ table' = [table EXCEPT ![JobOf(t)] = Null]
    <3>1. ExactTask(t)'
      BY <1>0, <2>1, <2>2 DEF Goto, ExactTask, JobOf, Pipeline
    <3>. QED BY <1>3, <2>1, <3>1 DEF Pipeline
  <2>. QED BY <1>4, <1>6, <2>1, <2>2 DEF DropTable, Pipeline
<1>7. CASE CreateTable(t)
  <2>1. /\ UNCHANGED <<status, dashboard, rowCount, msg>> /\ pc[t] = "create"
        /\ \A j \in Jobs : j # JobOf(t) => table'[j] = table[j]
    BY <1>7 DEF CreateTable
  <2>2. CASE Goto(t, "insert") /\ table' = [table EXCEPT ![JobOf(t)] = IF @ = Null THEN 0 ELSE @]
    <3>1. ExactTask(t)'
      BY <1>0, <2>1, <2>2 DEF Goto, ExactTask, JobOf, Pipeline
    <3>. QED BY <1>3, <2>1, <3>1 DEF Pipeline
  <2>. QED BY <1>4, <1>7, <2>1, <2>2 DEF CreateTable, Pipeline
<1>8. CASE Insert(t)
  <2>1. /\ UNCHANGED <<status, dashboard, rowCount, msg>> /\ pc[t] = "insert"
        /\ \A j \in Jobs : j # JobOf(t) => table'[j] = table[j]
    BY <1>8 DEF Insert, MissingTable
  <2>2. CASE Goto(t, "count") /\ table' = [table EXCEPT ![JobOf(t)] = @ + SourceRows]
    <3>1. table'[JobOf(t)] = SourceRows
      BY <1>0, <2>1, <2>2 DEF ExactTask
    <3>2. ExactTask(t)'
      BY <1>0, <2>1, <2>2, <3>1 DEF Goto, ExactTask, JobOf, Pipeline
    <3>. QED BY <1>3, <2>1, <3>2 DEF Pipeline
  <2>3. \/ Goto(t, "count") /\ table' = [table EXCEPT ![JobOf(t)] = @ + SourceRows]
        \/ ChError(t) \/ Goto(t, AfterError(t, FALSE))
    BY <1>8 DEF Insert, MissingTable
  <2>. QED BY <1>4, <2>1, <2>2, <2>3 DEF Pipeline
<1>9. CASE CountRows(t)
  <2>1. UNCHANGED <<status, dashboard, rowCount, msg, table>> /\ pc[t] = "count"
    BY <1>9 DEF CountRows, MissingTable
  <2>2. CASE Goto(t, "generate") /\ counted' = [counted EXCEPT ![t] = table[JobOf(t)]]
    <3>1. ExactTask(t)'
      BY <1>0, <2>1, <2>2 DEF Goto, ExactTask, JobOf, Pipeline
    <3>. QED BY <1>3, <2>1, <3>1 DEF Pipeline
  <2>3. \/ Goto(t, "generate") /\ counted' = [counted EXCEPT ![t] = table[JobOf(t)]]
        \/ ChError(t) \/ Goto(t, AfterError(t, FALSE))
    BY <1>9 DEF CountRows, MissingTable
  <2>. QED BY <1>4, <2>1, <2>2, <2>3 DEF Pipeline
<1>10. CASE Generate(t)
  <2>1. UNCHANGED <<status, dashboard, rowCount, msg, table, counted>> /\ pc[t] = "generate"
    BY <1>10 DEF Generate, MissingTable
  <2>2. CASE Goto(t, "store")
    <3>1. ExactTask(t)'
      BY <1>0, <2>1, <2>2 DEF Goto, ExactTask, JobOf, Pipeline
    <3>. QED BY <1>3, <2>1, <3>1 DEF Pipeline
  <2>. QED BY <1>4, <1>10, <2>1, <2>2 DEF Generate, MissingTable, Pipeline
<1>11. CASE StoreDashboard(t)
  <2>1. /\ UNCHANGED <<status, table, rowCount, counted, msg>> /\ pc[t] = "store"
        /\ JobOf(t) \in Jobs /\ counted[t] = SourceRows
        /\ dashboard' \in {dashboard, [dashboard EXCEPT ![JobOf(t)] = counted[t]]}
    BY <1>0, <1>11 DEF StoreDashboard, ExactTask
  <2>2. PICK label : /\ pc' = [pc EXCEPT ![t] = label]
                     /\ \/ label \notin Pipeline
                        \/ label = "ready" /\ dashboard' = [dashboard EXCEPT ![JobOf(t)] = counted[t]]
    BY <1>0, <1>11 DEF StoreDashboard, Continue, Goto, PgOutcomes
  <2>3. status'[JobOf(t)] # "ready"
    BY <1>0, <2>1 DEF ExactTask, Pipeline
  <2>4. ExactTask(t)'
    BY <1>0, <2>1, <2>2, <2>3 DEF ExactTask, JobOf, Pipeline
  <2>. QED BY <2>1, <2>3, <2>4, ExactOwnJob DEF ExactJob, Pipeline
<1>12. CASE MarkReady(t)
  <2>1. /\ UNCHANGED <<table, dashboard, counted, msg>> /\ pc[t] = "ready"
        /\ JobOf(t) \in Jobs /\ counted[t] = SourceRows
        /\ table[JobOf(t)] = SourceRows /\ dashboard[JobOf(t)] = SourceRows
        /\ \/ UNCHANGED <<status, rowCount>>
           \/ /\ status' = [status EXCEPT ![JobOf(t)] = "ready"]
              /\ rowCount' = [rowCount EXCEPT ![JobOf(t)] = counted[t]]
    BY <1>0, <1>12 DEF MarkReady, ExactTask
  <2>2. PICK label : label \notin Pipeline /\ pc' = [pc EXCEPT ![t] = label]
    BY <1>0, <1>12 DEF MarkReady, Continue, Goto, Pipeline
  <2>3. ExactTask(t)'
    BY <2>2 DEF ExactTask, Pipeline
  <2>4. ExactJob(job)'
    BY <1>0, <2>1 DEF ExactJob
  <2>. QED BY <2>1, <2>3, <2>4, ExactOwnJob DEF Pipeline
<1>. QED BY <1>1, <1>2, <1>5, <1>6, <1>7, <1>8, <1>9, <1>10, <1>11, <1>12 DEF RunJob

LEMMA StepExactOf ==
  ASSUME NEW job \in Jobs, "body_lost" \notin Faults
  PROVE  TypeInv /\ NoOverlapOf(job) /\ ExactOf(job) /\ [Next]_vars => ExactOf(job)'
<1>. SUFFICES ASSUME TypeInv, NoOverlapOf(job), ExactOf(job), [Next]_vars PROVE ExactOf(job)'
  OBVIOUS
<1>. USE DEF TypeInv, TypeOK, jobVars, taskVars
<1>1. CASE UNCHANGED vars
  BY <1>1, ExactFrame DEF vars, workerVars
<1>2. ASSUME NEW t \in Tasks, NEW m \in Message, Deliver(t, m)
      PROVE  ExactOf(job)'
  BY <1>2, ExactFrame DEF Deliver, Goto, Pipeline
<1>3. ASSUME NEW t \in Tasks, RunJob(t)
      PROVE  ExactOf(job)'
  <2>1. CASE job = JobOf(t)
    BY <1>3, <2>1, RunJobExact
  <2>2. CASE job # JobOf(t)
    <3>1. JobOf(t)' = JobOf(t)
      BY <1>3, RunJobMoves DEF JobOf
    <3>. QED BY <1>3, <2>2, <3>1, TaskFrame, ExactFrame
  <2>. QED BY <2>1, <2>2
<1>4. ASSUME NEW t \in Tasks, Dispose(t)
      PROVE  ExactOf(job)'
  <2>1. CASE Ack(t)
    BY <2>1, ExactFrame DEF Ack, Finished, Goto, Pipeline
  <2>2. CASE Bump(t)
    BY <2>2, ExactFrame DEF Bump, Goto, Pipeline
  <2>3. CASE Republish(t)
    BY <2>3, ExactFrame DEF Republish, Goto, Pipeline
  <2>4. CASE MarkFailed(t)
    BY <2>4, ExactFrame DEF MarkFailed, Goto, Pipeline
  <2>5. CASE DeadLetter(t)
    BY <2>5, ExactFrame DEF DeadLetter, Finished, Goto, Pipeline
  <2>. QED BY <1>4, <2>1, <2>2, <2>3, <2>4, <2>5 DEF Dispose
<1>5. ASSUME NEW w \in Workers, LoseChannel(w)
      PROVE  ExactOf(job)'
  BY <1>5, ExactFrame DEF LoseChannel
<1>6. ASSUME NEW w \in Workers, Restart(w)
      PROVE  ExactOf(job)'
  BY <1>6, ExactFrame DEF Restart, Pipeline
<1>. QED BY <1>1, <1>2, <1>3, <1>4, <1>5, <1>6 DEF Next, Consume

LEMMA StepExact ==
  ASSUME "body_lost" \notin Faults
  PROVE  TypeInv /\ NoOverlap /\ ExactInv /\ [Next]_vars => ExactInv'
<1>. SUFFICES ASSUME TypeInv, NoOverlap, ExactInv, [Next]_vars PROVE ExactInv'
  OBVIOUS
<1>1. \A job \in Jobs : NoOverlapOf(job) /\ ExactOf(job)
  BY DEF NoOverlap, NoOverlapOf, ExactInv, ExactOf
<1>2. \A job \in Jobs : ExactOf(job)'
  BY <1>1, StepExactOf
<1>3. ASSUME NEW t \in Tasks PROVE ExactTask(t)'
  <2>1. CASE pc'[t] \in Pipeline
    <3>1. JobOf(t)' \in Jobs
      BY <2>1, StepType DEF TypeInv, TypeOK, JobOf, Message, Pipeline
    <3>. QED BY <1>2, <2>1, <3>1 DEF ExactOf
  <2>2. CASE pc'[t] \notin Pipeline
    BY <2>2 DEF ExactTask, Pipeline
  <2>. QED BY <2>1, <2>2
<1>. QED BY <1>2, <1>3 DEF ExactInv, ExactOf

\* ingest.rs:67, for one job: whatever was redelivered, retried or lost on the
\* way, and whatever the tasks of other jobs do, its table, row count and
\* dashboard are those of its source once it is ready, as long as no two of its
\* own tasks were ever in the pipeline at once.
THEOREM JobStaysExact ==
  ASSUME NEW job \in Jobs, "body_lost" \notin Faults
  PROVE  Spec /\ []NoOverlapOf(job) => []ExactJob(job)
<1>1. Init => ExactOf(job)
  BY DEF Init, ExactOf, ExactJob, Pipeline
<1>2. ExactOf(job) => ExactJob(job)
  BY DEF ExactOf
<1>3. TypeInv /\ NoOverlapOf(job) /\ ExactOf(job) /\ [Next]_vars => ExactOf(job)'
  BY StepExactOf
<1>. QED BY InitType, StepType, <1>1, <1>2, <1>3, PTL DEF Spec

\* The same of all jobs: with any number of workers, and of tasks that run at
\* once, only two tasks of one job that overlap can leave a ready job wrong.
THEOREM RedeliveryIsExact ==
  ASSUME "body_lost" \notin Faults
  PROVE  Spec /\ []NoOverlap => []ReadyIsExact
<1>1. Init => ExactInv
  BY DEF Init, ExactInv, ExactJob, ExactTask, Pipeline
<1>2. ExactInv => ReadyIsExact
  BY DEF ExactInv, ExactJob, ReadyIsExact
<1>3. TypeInv /\ NoOverlap /\ ExactInv /\ [Next]_vars => ExactInv'
  BY StepExact
<1>. QED BY InitType, StepType, <1>1, <1>2, <1>3, PTL DEF Spec
=============================================================================
