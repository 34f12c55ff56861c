-------------------------- MODULE LifecycleProofs ---------------------------
(***************************************************************************)
(* Proofs about module Worker while no channel is lost: every job has one  *)
(* message, or one task that works on it, and whoever has it knows what    *)
(* the job's row says.  For every number of jobs, workers, slots, attempts *)
(* and calls that fail.                                                    *)
(***************************************************************************)
EXTENDS WorkerProofs

USE AttemptsAssumption, WorkerAssumption

-----------------------------------------------------------------------------
(***************************************************************************)
(* One holder.  A task that only has to ack is done with its job: it may   *)
(* still be there when the retry it published is delivered.                *)
(***************************************************************************)
Active(t) == pc[t] \notin {"idle", "ack"}

Copies(m) == queue[m] + dlq[m]

AllUp == \A w \in Workers : up[w]

OneMessage ==
    /\ \A m \in Message : Copies(m) <= 1
    /\ \A m, n \in Message : m.job = n.job /\ Copies(m) > 0 /\ Copies(n) > 0 => m = n

OneTask == \A t, u \in Tasks : Active(t) /\ Active(u) /\ JobOf(t) = JobOf(u) => t = u

TaskOrMessage ==
    \A t \in Tasks, m \in Message : Active(t) /\ JobOf(t) = m.job => Copies(m) = 0

OneHolder == AllUp /\ OneMessage /\ OneTask /\ TaskOrMessage

\* Somebody has job j.
HasHolder(j) ==
    \/ \E m \in Message : m.job = j /\ Copies(m) > 0
    \/ \E t \in Tasks : Active(t) /\ JobOf(t) = j

-----------------------------------------------------------------------------
\* The attempts recorded for a job are those of the message of its holder.
AttemptsInv ==
    /\ AttemptsAreLimited
    /\ \A m \in Message : queue[m] > 0 => attempts[m.job] <= m.attempt
    /\ \A t \in Tasks : Active(t) =>
           attempts[JobOf(t)] <= IF pc[t] = "republish" THEN msg[t].attempt + 1 ELSE msg[t].attempt

\* A message is dead-lettered after its job was marked failed.
FailedInv ==
    /\ DeadLetterIsRecorded
    /\ \A t \in Tasks : pc[t] = "nack" => status[JobOf(t)] = "failed" /\ error[JobOf(t)]

\* A job is new, or the retry that starts it over is recorded.
MayStart(j) == ~IsTerminal(status[j]) /\ (status[j] = "queued" \/ attempts[j] > 0)

\* The status of a job is that of the step its task has reached.
Stage(t) ==
    LET s == status[JobOf(t)]
    IN  /\ pc[t] \in {"check", "downloading"} => MayStart(JobOf(t))
        /\ pc[t] = "inferring" => s = "downloading"
        /\ pc[t] \in {"describe", "ingesting"} => s = "inferring"
        /\ pc[t] \in {"drop", "create", "insert", "count", "generate", "store", "ready"} => s = "ingesting"
        /\ pc[t] \in {"bump", "republish", "fail"} => ~IsTerminal(s)
        /\ pc[t] = "republish" => attempts[JobOf(t)] > 0

StageInv ==
    /\ \A m \in Message : queue[m] > 0 => MayStart(m.job)
    /\ \A t \in Tasks : Stage(t)
-----------------------------------------------------------------------------
(***************************************************************************)
(* What a task does with its message.                                      *)
(***************************************************************************)

\* The message of a retry is one of the same job.
LEMMA RetryIsMessage ==
  ASSUME TypeInv, NEW t \in Tasks, pc[t] = "republish"
  PROVE  /\ [msg[t] EXCEPT !.attempt = @ + 1] \in Message
         /\ [msg[t] EXCEPT !.attempt = @ + 1].job = JobOf(t)
         /\ [msg[t] EXCEPT !.attempt = @ + 1].attempt = msg[t].attempt + 1
  BY DEF TypeInv, TypeOK, RetryHasAttempt, Message, JobOf

\* While it runs the job it keeps the message, and records no attempt.
LEMMA RunJobKeeps ==
  ASSUME TypeInv, NEW t \in Tasks, RunJob(t)
  PROVE  /\ UNCHANGED <<queue, dlq, attempts, msg>>
         /\ Active(t) /\ pc[t] \in {"check"} \cup Pipeline
         /\ pc'[t] \notin {"idle", "check", "republish", "nack"}
<1>. USE DEF jobVars, taskVars, Pipeline
<1>0. pc \in [Tasks -> Labels] /\ \A retryable \in BOOLEAN : AfterError(t, retryable) \in {"bump", "fail"}
  BY AfterErrorType DEF TypeInv, TypeOK
<1>1. /\ UNCHANGED <<queue, dlq, attempts, msg>>
      /\ pc[t] \in {"check"} \cup Pipeline
  BY DEF RunJob, CheckReady, SetStatus, Describe, DropTable, CreateTable, Insert, CountRows,
         Generate, StoreDashboard, MarkReady
<1>2. ASSUME NEW o \in PgOutcomes, NEW next \in {"ack"} \cup Pipeline, Continue(t, o, next)
      PROVE  pc'[t] \notin {"idle", "check", "republish", "nack"}
  BY <1>0, <1>2 DEF Continue, Goto
<1>3. ASSUME ChError(t) \/ Goto(t, AfterError(t, FALSE))
      PROVE  pc'[t] \notin {"idle", "check", "republish", "nack"}
  BY <1>0, <1>3 DEF ChError, Goto
<1>4. ASSUME NEW next \in Pipeline, Goto(t, next)
      PROVE  pc'[t] \notin {"idle", "check", "republish", "nack"}
  BY <1>0, <1>4 DEF Goto
<1>5. pc'[t] \notin {"idle", "check", "republish", "nack"}
  <2>1. CASE CheckReady(t)
    <3>1. PICK o \in PgOutcomes :
              Continue(t, o, IF status[JobOf(t)] = "ready" THEN "ack" ELSE "downloading")
      BY <2>1 DEF CheckReady
    <3>2. (IF status[JobOf(t)] = "ready" THEN "ack" ELSE "downloading") \in {"ack"} \cup Pipeline
      OBVIOUS
    <3>. QED BY <1>2, <3>1, <3>2
  <2>2. ASSUME NEW s, NEW next \in {"inferring", "describe", "drop"}, SetStatus(t, s, next)
        PROVE  pc'[t] \notin {"idle", "check", "republish", "nack"}
    BY <1>2, <2>2 DEF SetStatus
  <2>3. CASE StoreDashboard(t) \/ MarkReady(t)
    BY <1>2, <2>3 DEF StoreDashboard, MarkReady
  <2>4. CASE Describe(t) \/ DropTable(t) \/ CreateTable(t)
    BY <1>3, <1>4, <2>4 DEF Describe, DropTable, CreateTable
  <2>5. CASE Insert(t) \/ CountRows(t) \/ Generate(t)
    BY <1>3, <1>4, <2>5 DEF Insert, CountRows, Generate, MissingTable
  <2>. QED BY <2>1, <2>2, <2>3, <2>4, <2>5 DEF RunJob
<1>. QED BY <1>1, <1>5 DEF Active

\* It keeps the message, or hands it on as a retry or to the dead letters.
LEMMA TaskMoves ==
  ASSUME TypeInv, NEW t \in Tasks, RunJob(t) \/ Dispose(t), AllUp
  PROVE  \/ /\ UNCHANGED <<queue, dlq>>
            /\ Active(t)' => Active(t) /\ msg'[t] = msg[t]
         \/ /\ pc[t] = "republish" /\ pc'[t] = "ack"
            /\ queue' = Put(queue, [msg[t] EXCEPT !.attempt = @ + 1])
            /\ dlq' = dlq
         \/ /\ pc[t] = "nack" /\ pc'[t] = "idle"
            /\ dlq' = Put(dlq, msg[t])
            /\ queue' = queue
<1>. USE DEF jobVars, taskVars
<1>0. up[t[1]] /\ pc \in [Tasks -> Labels]
  BY TaskWorker DEF AllUp, TypeInv, TypeOK
<1>1. CASE RunJob(t)
  BY <1>1, RunJobKeeps
<1>2. CASE Ack(t)
  BY <1>0, <1>2 DEF Ack, Finished, Goto, Active
<1>3. CASE Bump(t) \/ MarkFailed(t)
  BY <1>3 DEF Bump, MarkFailed, Active
<1>4. CASE Republish(t)
  BY <1>0, <1>4 DEF Republish, Goto
<1>5. CASE DeadLetter(t)
  BY <1>0, <1>5 DEF DeadLetter, Finished, Goto
<1>. QED BY <1>1, <1>2, <1>3, <1>4, <1>5 DEF Dispose

-----------------------------------------------------------------------------
(***************************************************************************)
(* A job never comes to have two holders by what the worker does.          *)
(***************************************************************************)

\* Counting in queues.
LEMMA CopiesType ==
  ASSUME TypeInv
  PROVE  /\ \A m \in Message : queue[m] \in Nat /\ dlq[m] \in Nat /\ Copies(m) \in Nat
         /\ \A m, n \in Message : /\ Put(queue, m)[n] = IF n = m THEN queue[n] + 1 ELSE queue[n]
                                  /\ Put(dlq, m)[n] = IF n = m THEN dlq[n] + 1 ELSE dlq[n]
                                  /\ Take(queue, m)[n] = IF n = m THEN queue[n] - 1 ELSE queue[n]
  BY DEF TypeInv, TypeOK, Queues, Copies, Put, Take

LEMMA TaskHolder ==
  ASSUME TypeInv, OneHolder, NEW t \in Tasks, RunJob(t) \/ Dispose(t)
  PROVE  OneHolder' /\ \A j \in Jobs : HasHolder(j)' => HasHolder(j)
<1>. USE DEF OneHolder
<1>0. /\ AllUp' /\ \A u \in Tasks : u # t => pc'[u] = pc[u] /\ msg'[u] = msg[u]
  BY TaskFrame DEF AllUp
<1>1. CASE UNCHANGED <<queue, dlq>> /\ (Active(t)' => Active(t) /\ msg'[t] = msg[t])
  <2>1. \A u \in Tasks : Active(u)' => Active(u) /\ JobOf(u)' = JobOf(u)
    BY <1>0, <1>1 DEF Active, JobOf
  <2>. QED BY <1>0, <1>1, <2>1 DEF OneMessage, OneTask, TaskOrMessage, HasHolder, Copies
\* The message leaves the task: it was the only holder, and now holds no more.
<1>2. ASSUME NEW n \in Message, n.job = JobOf(t), Active(t), ~Active(t)',
             \A m \in Message : Copies(m)' = IF m = n THEN Copies(m) + 1 ELSE Copies(m)
      PROVE  OneHolder' /\ \A j \in Jobs : HasHolder(j)' => HasHolder(j)
  <2>1. \A u \in Tasks : Active(u)' => u # t /\ Active(u) /\ JobOf(u)' = JobOf(u)
    BY <1>0, <1>2 DEF Active, JobOf
  <2>2. \A m \in Message : m.job = JobOf(t) => Copies(m) = 0
    BY <1>2 DEF TaskOrMessage
  <2>3. OneMessage' /\ OneTask'
    BY <1>2, <2>1, <2>2, CopiesType DEF OneMessage, OneTask
  <2>4. TaskOrMessage'
    BY <1>2, <2>1 DEF OneTask, TaskOrMessage
  <2>5. \A j \in Jobs : HasHolder(j)' => HasHolder(j)
    BY <1>2, <2>1 DEF HasHolder
  <2>. QED BY <1>0, <2>3, <2>4, <2>5
<1>3. CASE /\ pc[t] = "republish" /\ pc'[t] = "ack"
           /\ queue' = Put(queue, [msg[t] EXCEPT !.attempt = @ + 1])
           /\ dlq' = dlq
  <2>1. PICK n \in Message : n.job = JobOf(t) /\ queue' = Put(queue, n)
    BY <1>3, RetryIsMessage
  <2>2. \A m \in Message : Copies(m)' = IF m = n THEN Copies(m) + 1 ELSE Copies(m)
    BY <1>3, <2>1, CopiesType DEF Copies
  <2>. QED BY <1>2, <1>3, <2>1, <2>2 DEF Active
<1>4. CASE /\ pc[t] = "nack" /\ pc'[t] = "idle"
           /\ dlq' = Put(dlq, msg[t])
           /\ queue' = queue
  <2>1. msg[t] \in Message /\ msg[t].job = JobOf(t)
    BY <1>4 DEF TypeInv, TypeOK, JobOf
  <2>2. \A m \in Message : Copies(m)' = IF m = msg[t] THEN Copies(m) + 1 ELSE Copies(m)
    BY <1>4, <2>1, CopiesType DEF Copies
  <2>. QED BY <1>2, <1>4, <2>1, <2>2 DEF Active
<1>. QED BY <1>1, <1>3, <1>4, TaskMoves

LEMMA DeliverHolder ==
  ASSUME TypeInv, OneHolder, NEW t \in Tasks, NEW n \in Message, Deliver(t, n)
  PROVE  OneHolder' /\ \A j \in Jobs : HasHolder(j)' => HasHolder(j)
<1>. USE DEF OneHolder
<1>1. /\ AllUp' /\ pc[t] = "idle" /\ pc'[t] = "check" /\ msg'[t] = n /\ queue[n] > 0
      /\ \A u \in Tasks : u # t => pc'[u] = pc[u] /\ msg'[u] = msg[u]
      /\ queue' = Take(queue, n) /\ dlq' = dlq
  BY DEF Deliver, Goto, AllUp, TypeInv, TypeOK
<1>2. \A m \in Message : Copies(m)' = IF m = n THEN Copies(m) - 1 ELSE Copies(m)
  BY <1>1, CopiesType DEF Copies
<1>3. Copies(n) = 1 /\ \A m \in Message : m.job = n.job => Copies(m)' = 0
  BY <1>1, <1>2, CopiesType DEF OneMessage, Copies
<1>4. \A u \in Tasks : u # t /\ Active(u)' => Active(u) /\ JobOf(u)' = JobOf(u) /\ JobOf(u) # n.job
  BY <1>1, <1>3 DEF Active, JobOf, TaskOrMessage
<1>5. JobOf(t)' = n.job
  BY <1>1 DEF JobOf
<1>6. OneMessage' /\ OneTask' /\ TaskOrMessage'
  BY <1>2, <1>3, <1>4, <1>5, CopiesType DEF OneMessage, OneTask, TaskOrMessage
<1>7. \A j \in Jobs : HasHolder(j)' => HasHolder(j)
  BY <1>2, <1>3, <1>4, <1>5, CopiesType DEF HasHolder
<1>. QED BY <1>1, <1>6, <1>7

\* consumer.rs:85-108: while no channel is lost, no step of the worker makes
\* two holders of one, nor one of none.
LEMMA StepHolder ==
  ASSUME TypeInv, OneHolder, [Next]_vars, channelLosses' = channelLosses
  PROVE  OneHolder' /\ \A j \in Jobs : HasHolder(j)' => HasHolder(j)
<1>1. CASE UNCHANGED vars
  BY <1>1 DEF vars, workerVars, taskVars, OneHolder, AllUp, OneMessage, OneTask, TaskOrMessage,
              HasHolder, Copies, Active, JobOf
<1>2. \A w \in Workers : ~LoseChannel(w) /\ ~Restart(w)
  BY DEF LoseChannel, Restart, OneHolder, AllUp, TypeInv, TypeOK
<1>. QED BY <1>1, <1>2, TaskHolder, DeliverHolder DEF Next, Consume

\* One holder is more than deliveries of a job that do not overlap.
LEMMA HolderExcludes == TypeInv /\ OneHolder => NoOverlap
  BY DEF OneHolder, OneTask, NoOverlap, Active, Pipeline

-----------------------------------------------------------------------------
(***************************************************************************)
(* The attempts recorded for a job.  They are at most those its message    *)
(* has behind it, and a retry is only begun below the limit.               *)
(***************************************************************************)

\* The task that has a job is the only one the job's columns matter to.
LEMMA HolderAlone ==
  ASSUME TypeInv, OneHolder, NEW t \in Tasks, Active(t)
  PROVE  /\ \A u \in Tasks : Active(u) /\ u # t => JobOf(u) # JobOf(t)
         /\ \A m \in Message : m.job = JobOf(t) => queue[m] = 0 /\ dlq[m] = 0
<1>1. \A m \in Message : m.job = JobOf(t) => Copies(m) = 0
  BY DEF OneHolder, TaskOrMessage
<1>. QED BY <1>1, CopiesType DEF OneHolder, OneTask, Copies

\* What is recorded for a job stays as low as its holder allows.
AttemptsFit(t) ==
    Active(t) =>
        attempts[JobOf(t)] <= IF pc[t] = "republish" THEN msg[t].attempt + 1 ELSE msg[t].attempt

LEMMA TaskAttempts ==
  ASSUME TypeInv, OneHolder, AttemptsInv, NEW t \in Tasks, RunJob(t) \/ Dispose(t)
  PROVE  AttemptsInv'
<1>. USE DEF AttemptsInv, AttemptsAreLimited
<1>0. /\ pc \in [Tasks -> Labels] /\ attempts \in [Jobs -> Nat] /\ up[t[1]]
      /\ AttemptsFit(t) /\ JobOf(t) \in Jobs /\ msg[t] \in Message
  BY TaskFrame, TaskWorker DEF TypeInv, TypeOK, AttemptsFit, OneHolder, AllUp
<1>1. \A u \in Tasks : u # t => pc'[u] = pc[u] /\ msg'[u] = msg[u]
  BY TaskFrame
\* No step but the increment records anything.
<1>2. ASSUME attempts' = attempts, AttemptsFit(t)',
             \A m \in Message : queue'[m] > 0 => queue[m] > 0 \/ attempts[m.job] <= m.attempt
      PROVE  AttemptsInv'
  <2>1. \A u \in Tasks : AttemptsFit(u)'
    BY <1>1, <1>2 DEF AttemptsFit, Active, JobOf
  <2>. QED BY <1>2, <2>1 DEF AttemptsFit
<1>3. CASE RunJob(t)
  <2>1. AttemptsFit(t)'
    BY <1>0, <1>3, RunJobKeeps DEF AttemptsFit, JobOf, Pipeline
  <2>. QED BY <1>2, <1>3, <2>1, RunJobKeeps
<1>4. CASE Ack(t)
  BY <1>0, <1>2, <1>4 DEF Ack, Finished, Goto, jobVars, AttemptsFit, Active
<1>5. CASE Bump(t)
  <2>1. /\ attempts' \in {attempts, [attempts EXCEPT ![JobOf(t)] = @ + 1]}
        /\ pc' = [pc EXCEPT ![t] = "republish"] /\ msg' = msg /\ queue' = queue /\ Active(t)
        /\ pc[t] = "bump"
    BY <1>5 DEF Bump, Goto, taskVars, Active
  <2>2. attempts[JobOf(t)] <= msg[t].attempt /\ msg[t].attempt + 1 < MaxAttempts
    BY <1>0, <2>1 DEF AttemptsFit, TypeInv, RetryHasAttempt
  <2>3. msg[t].attempt \in Nat
    BY <1>0 DEF Message
  <2>4. /\ attempts'[JobOf(t)] <= msg[t].attempt + 1
        /\ attempts'[JobOf(t)] < MaxAttempts
        /\ \A j \in Jobs : j # JobOf(t) => attempts'[j] = attempts[j]
    BY <1>0, <2>1, <2>2, <2>3
  <2>5. \A m \in Message : queue'[m] > 0 => attempts'[m.job] <= m.attempt
    BY <2>1, <2>4, HolderAlone DEF Message
  <2>6. AttemptsFit(t)'
    BY <1>0, <2>1, <2>4 DEF AttemptsFit, JobOf
  <2>7. ASSUME NEW u \in Tasks, u # t, Active(u)' PROVE AttemptsFit(u)'
    <3>1. JobOf(u) # JobOf(t) /\ JobOf(u) \in Jobs
      BY <1>1, <2>1, <2>7, HolderAlone DEF Active, JobOf, TypeInv, TypeOK, Message
    <3>2. attempts'[JobOf(u)] = attempts[JobOf(u)]
      BY <2>4, <3>1
    <3>. QED BY <1>1, <2>7, <3>2 DEF AttemptsFit, Active, JobOf
  <2>. QED BY <2>4, <2>5, <2>6, <2>7 DEF AttemptsFit
<1>6. CASE Republish(t)
  <2>1. PICK n \in Message : /\ n.job = JobOf(t) /\ n.attempt = msg[t].attempt + 1
                             /\ queue' = Put(queue, n)
    BY <1>0, <1>6, RetryIsMessage DEF Republish
  <2>2. attempts' = attempts /\ AttemptsFit(t)'
    BY <1>0, <1>6 DEF Republish, Goto, jobVars, AttemptsFit, Active
  <2>3. attempts[JobOf(t)] <= n.attempt
    BY <1>0, <1>6, <2>1 DEF Republish, AttemptsFit, Active
  <2>4. \A m \in Message : queue'[m] > 0 => queue[m] > 0 \/ attempts[m.job] <= m.attempt
    BY <2>1, <2>3, CopiesType
  <2>. QED BY <1>2, <2>2, <2>4
<1>7. CASE MarkFailed(t)
  BY <1>0, <1>2, <1>7 DEF MarkFailed, Goto, taskVars, AttemptsFit, Active, JobOf
<1>8. CASE DeadLetter(t)
  BY <1>0, <1>2, <1>8 DEF DeadLetter, Finished, Goto, jobVars, AttemptsFit, Active
<1>. QED BY <1>3, <1>4, <1>5, <1>6, <1>7, <1>8 DEF Dispose

\* A delivery starts with the attempt that is recorded, or a later one.
LEMMA DeliverAttempts ==
  ASSUME TypeInv, AttemptsInv, NEW t \in Tasks, NEW n \in Message, Deliver(t, n)
  PROVE  AttemptsInv'
<1>1. /\ attempts' = attempts /\ queue[n] > 0
      /\ pc' = [pc EXCEPT ![t] = "check"] /\ msg' = [msg EXCEPT ![t] = n]
      /\ queue' = Take(queue, n)
      /\ pc \in [Tasks -> Labels] /\ DOMAIN msg = Tasks
  BY DEF Deliver, Goto, jobVars, TypeInv, TypeOK
<1>2. \A m \in Message : queue'[m] > 0 => queue[m] > 0
  BY <1>1, CopiesType
<1>3. \A u \in Tasks : AttemptsFit(u)'
  BY <1>1 DEF AttemptsInv, AttemptsFit, Active, JobOf
<1>. QED BY <1>1, <1>2, <1>3 DEF AttemptsInv, AttemptsAreLimited, AttemptsFit

LEMMA StepAttempts ==
  ASSUME TypeInv, OneHolder, AttemptsInv, [Next]_vars, channelLosses' = channelLosses
  PROVE  AttemptsInv'
<1>1. CASE UNCHANGED vars
  BY <1>1 DEF vars, workerVars, taskVars, jobVars, AttemptsInv, AttemptsAreLimited, Active, JobOf
<1>2. \A w \in Workers : ~LoseChannel(w) /\ ~Restart(w)
  BY DEF LoseChannel, Restart, OneHolder, AllUp, TypeInv, TypeOK
<1>. QED BY <1>1, <1>2, TaskAttempts, DeliverAttempts DEF Next, Consume

-----------------------------------------------------------------------------
(***************************************************************************)
(* Failure.  Only the task that dead-letters a job marks it failed first,  *)
(* and no other touches the job's row; a database that fails a statement   *)
(* leaves the row as it was, which is why that one must not.               *)
(***************************************************************************)

\* A statement the worker is told of as failed or not was applied.
LEMMA AlwaysApplied == "pg_error" \notin Faults => \A o \in PgOutcomes : o.applied
  BY DEF PgOutcomes

FailedTask(t) == pc[t] = "nack" => status[JobOf(t)] = "failed" /\ error[JobOf(t)]

LEMMA TaskFailed ==
  ASSUME "pg_error" \notin Faults,
         TypeInv, OneHolder, FailedInv, NEW t \in Tasks, RunJob(t) \/ Dispose(t)
  PROVE  FailedInv'
<1>. USE DEF FailedInv, DeadLetterIsRecorded
<1>0. /\ pc \in [Tasks -> Labels] /\ up[t[1]] /\ FailedTask(t)
      /\ \A u \in Tasks : u # t => pc'[u] = pc[u] /\ msg'[u] = msg[u]
  BY TaskFrame, TaskWorker DEF TypeInv, TypeOK, OneHolder, AllUp, FailedTask
\* A step of the task that has a job concerns neither messages nor other tasks.
<1>1. ASSUME Active(t), dlq' = dlq, FailedTask(t)' PROVE FailedInv'
  <2>1. \A m \in Message : dlq[m] > 0 => m.job # JobOf(t) /\ m.job \in Jobs
    BY <1>1, HolderAlone DEF Message
  <2>2. \A u \in Tasks : u # t /\ Active(u) => JobOf(u) # JobOf(t) /\ JobOf(u) \in Jobs
    BY <1>1, HolderAlone DEF Active, TypeInv, TypeOK, JobOf, Message
  <2>3. \A j \in Jobs : j # JobOf(t) => status'[j] = status[j] /\ error'[j] = error[j]
    BY TaskFrame
  <2>4. ASSUME NEW u \in Tasks PROVE FailedTask(u)'
    <3>1. CASE u = t
      BY <1>1, <3>1
    <3>2. CASE u # t
      BY <1>0, <2>2, <2>3, <3>2 DEF FailedTask, Active, JobOf
    <3>. QED BY <3>1, <3>2
  <2>. QED BY <1>1, <2>1, <2>3, <2>4 DEF FailedTask
<1>2. CASE RunJob(t)
  <2>1. FailedTask(t)'
    BY <1>2, RunJobKeeps DEF FailedTask
  <2>. QED BY <1>1, <1>2, <2>1, RunJobKeeps
<1>3. CASE Ack(t)
  BY <1>0, <1>3 DEF Ack, Finished, Goto, jobVars, JobOf
<1>4. CASE Bump(t) \/ Republish(t)
  BY <1>0, <1>1, <1>4 DEF Bump, Republish, Goto, FailedTask, Active
<1>5. CASE MarkFailed(t)
  <2>1. /\ status' = [status EXCEPT ![JobOf(t)] = "failed"]
        /\ error' = [error EXCEPT ![JobOf(t)] = TRUE]
        /\ dlq' = dlq /\ msg' = msg /\ Active(t)
    BY <1>5, AlwaysApplied DEF MarkFailed, taskVars, Active
  <2>2. JobOf(t) \in Jobs /\ status \in [Jobs -> Statuses] /\ error \in [Jobs -> BOOLEAN]
    BY TaskFrame DEF TypeInv, TypeOK
  <2>3. status'[JobOf(t)] = "failed"
    BY <2>1, <2>2
  <2>4. error'[JobOf(t)]
    BY <2>1, <2>2, Zenon
  <2>. QED BY <1>1, <2>1, <2>3, <2>4 DEF FailedTask, JobOf
<1>6. CASE DeadLetter(t)
  <2>1. /\ dlq' = Put(dlq, msg[t]) /\ UNCHANGED <<status, error>>
        /\ status[JobOf(t)] = "failed" /\ error[JobOf(t)] /\ msg[t] \in Message
        /\ pc'[t] = "idle"
    BY <1>0, <1>6 DEF DeadLetter, Finished, Goto, jobVars, FailedTask, TypeInv, TypeOK
  <2>2. \A m \in Message : dlq'[m] > 0 => dlq[m] > 0 \/ m.job = JobOf(t)
    BY <2>1, CopiesType DEF JobOf
  <2>3. \A u \in Tasks : pc'[u] = "nack" => pc[u] = "nack" /\ msg'[u] = msg[u]
    BY <1>0, <2>1
  <2>. QED BY <2>1, <2>2, <2>3 DEF JobOf
<1>. QED BY <1>2, <1>3, <1>4, <1>5, <1>6 DEF Dispose

LEMMA StepFailed ==
  ASSUME "pg_error" \notin Faults,
         TypeInv, OneHolder, FailedInv, [Next]_vars, channelLosses' = channelLosses
  PROVE  FailedInv'
<1>. USE DEF FailedInv, DeadLetterIsRecorded
<1>1. CASE UNCHANGED vars
  BY <1>1 DEF vars, workerVars, taskVars, jobVars, JobOf
<1>2. \A w \in Workers : ~LoseChannel(w) /\ ~Restart(w)
  BY DEF LoseChannel, Restart, OneHolder, AllUp, TypeInv, TypeOK
<1>3. ASSUME NEW t \in Tasks, NEW m \in Message, Deliver(t, m) PROVE FailedInv'
  BY <1>3 DEF Deliver, Goto, jobVars, TypeInv, TypeOK, JobOf
<1>. QED BY <1>1, <1>2, <1>3, TaskFailed DEF Next, Consume

-----------------------------------------------------------------------------
(***************************************************************************)
(* The lifecycle.  With a database that answers, the status of a job is    *)
(* that of the call its task has reached; a retry starts over, and its     *)
(* attempt is recorded by then.                                            *)
(***************************************************************************)

\* The transitions of a job that LifecycleOrRetry allows a step to make.
LegalStep(j) ==
    \/ status'[j] = status[j]
    \/ CanTransitionTo(status[j], status'[j])
    \/ ~IsTerminal(status[j]) /\ status'[j] = "downloading" /\ attempts[j] > 0

\* Every statement succeeds, and what it was asked for is done.
LEMMA AlwaysOk == Faults \subseteq {"body_lost"} => \A o \in PgOutcomes : o.ok /\ o.applied
  BY DEF PgOutcomes

\* The four changes of status that a task with this job makes are legal.
LEMMA StagesAreLegal ==
  ASSUME NEW j \in Jobs,
         \/ status'[j] = status[j]
         \/ MayStart(j) /\ status'[j] = "downloading"
         \/ status[j] = "downloading" /\ status'[j] = "inferring"
         \/ status[j] = "inferring" /\ status'[j] = "ingesting"
         \/ status[j] = "ingesting" /\ status'[j] = "ready"
         \/ status[j] \in Statuses /\ ~IsTerminal(status[j]) /\ status'[j] = "failed"
  PROVE  LegalStep(j)
<1>1. CASE MayStart(j) /\ status'[j] = "downloading"
  BY <1>1 DEF LegalStep, MayStart, CanTransitionTo, IsTerminal, HappyPath
<1>2. CASE status[j] = "downloading" /\ status'[j] = "inferring"
  BY <1>2 DEF LegalStep, CanTransitionTo, IsTerminal, HappyPath
<1>3. CASE status[j] = "inferring" /\ status'[j] = "ingesting"
  BY <1>3 DEF LegalStep, CanTransitionTo, IsTerminal, HappyPath
<1>4. CASE status[j] = "ingesting" /\ status'[j] = "ready"
  BY <1>4 DEF LegalStep, CanTransitionTo, IsTerminal, HappyPath
<1>5. CASE status[j] \in Statuses /\ ~IsTerminal(status[j]) /\ status'[j] = "failed"
  BY <1>5 DEF LegalStep, CanTransitionTo
<1>. QED BY <1>1, <1>2, <1>3, <1>4, <1>5 DEF LegalStep

\* A call of run_job that fails leads to disposal, with a job that is not over.
LEMMA ErrorStage ==
  ASSUME TypeInv, NEW t \in Tasks, msg' = msg, UNCHANGED jobVars,
         ~IsTerminal(status[JobOf(t)]),
         ChError(t) \/ Goto(t, AfterError(t, FALSE))
  PROVE  Stage(t)' /\ status' = status
<1>1. pc'[t] \in {"bump", "fail"}
  BY AfterErrorType DEF ChError, Goto, TypeInv, TypeOK
<1>. QED BY <1>1 DEF Stage, jobVars, JobOf, IsTerminal

\* The status that follows a step of run_job is again that of the next call.
LEMMA RunJobStage ==
  ASSUME Faults \subseteq {"body_lost"}, TypeInv, NEW t \in Tasks, Stage(t), RunJob(t)
  PROVE  Stage(t)' /\ LegalStep(JobOf(t))
<1>0. /\ pc \in [Tasks -> Labels] /\ status \in [Jobs -> Statuses]
      /\ JobOf(t) \in Jobs /\ msg' = msg /\ attempts' = attempts
  BY TaskFrame, RunJobKeeps DEF TypeInv, TypeOK
\* Most calls leave the row as it is.
<1>1. ASSUME status' = status, Stage(t)' PROVE Stage(t)' /\ LegalStep(JobOf(t))
  BY <1>1 DEF LegalStep
<1>2. CASE CheckReady(t)
  <2>1. status' = status /\ status[JobOf(t)] # "ready" /\ MayStart(JobOf(t))
    BY <1>2 DEF CheckReady, jobVars, Stage, MayStart, IsTerminal
  <2>2. pc'[t] = "downloading"
    BY <1>0, <1>2, <2>1, AlwaysOk DEF CheckReady, Continue, Goto
  <2>3. Stage(t)'
    BY <1>0, <2>1, <2>2 DEF Stage, MayStart, JobOf
  <2>. QED BY <1>1, <2>1, <2>3
<1>3. ASSUME NEW s, NEW next, SetStatus(t, s, next)
      PROVE  status'[JobOf(t)] = s /\ pc'[t] = next /\ pc[t] = s
  BY <1>0, <1>3, AlwaysOk DEF SetStatus, Continue, Goto
<1>4. CASE SetStatus(t, "downloading", "inferring")
  <2>1. MayStart(JobOf(t)) /\ status'[JobOf(t)] = "downloading" /\ pc'[t] = "inferring"
    BY <1>3, <1>4 DEF Stage
  <2>. QED BY <1>0, <2>1, StagesAreLegal DEF Stage, JobOf
<1>5. CASE SetStatus(t, "inferring", "describe")
  <2>1. /\ status[JobOf(t)] = "downloading" /\ status'[JobOf(t)] = "inferring"
        /\ pc'[t] = "describe"
    BY <1>3, <1>5 DEF Stage
  <2>. QED BY <1>0, <2>1, StagesAreLegal DEF Stage, JobOf
<1>6. CASE SetStatus(t, "ingesting", "drop")
  <2>1. /\ status[JobOf(t)] = "inferring" /\ status'[JobOf(t)] = "ingesting"
        /\ pc'[t] = "drop"
    BY <1>3, <1>6 DEF Stage
  <2>. QED BY <1>0, <2>1, StagesAreLegal DEF Stage, JobOf
<1>7. CASE Describe(t)
  <2>1. UNCHANGED <<msg, jobVars>> /\ pc[t] = "describe"
    BY <1>7 DEF Describe, taskVars
  <2>2. status' = status /\ status[JobOf(t)] = "inferring"
    BY <2>1 DEF Stage, jobVars
  <2>3. CASE Goto(t, "ingesting")
    BY <1>0, <1>1, <2>2, <2>3 DEF Goto, Stage, JobOf
  <2>4. CASE ChError(t)
    BY <1>1, <2>1, <2>2, <2>4, ErrorStage DEF IsTerminal
  <2>. QED BY <1>7, <2>3, <2>4 DEF Describe
<1>8. ASSUME UNCHANGED <<msg, jobVars>>,
             pc[t] \in {"drop", "create", "insert", "count", "generate", "store"},
             \/ \E next \in {"create", "insert", "count", "generate", "store", "ready"} : Goto(t, next)
             \/ ChError(t) \/ Goto(t, AfterError(t, FALSE))
      PROVE  Stage(t)' /\ LegalStep(JobOf(t))
  <2>1. status' = status /\ status[JobOf(t)] = "ingesting"
    BY <1>8 DEF Stage, jobVars
  <2>2. CASE \E next \in {"create", "insert", "count", "generate", "store", "ready"} : Goto(t, next)
    BY <1>0, <1>1, <2>1, <2>2 DEF Goto, Stage, JobOf
  <2>3. CASE ChError(t) \/ Goto(t, AfterError(t, FALSE))
    BY <1>1, <1>8, <2>1, <2>3, ErrorStage DEF IsTerminal
  <2>. QED BY <1>8, <2>2, <2>3
<1>9. CASE DropTable(t) \/ CreateTable(t)
  BY <1>8, <1>9 DEF DropTable, CreateTable, taskVars
<1>10. CASE Insert(t) \/ CountRows(t) \/ Generate(t)
  BY <1>8, <1>10 DEF Insert, CountRows, Generate, MissingTable, taskVars
<1>11. CASE StoreDashboard(t)
  BY <1>8, <1>11, AlwaysOk DEF StoreDashboard, Continue, taskVars
<1>12. CASE MarkReady(t)
  <2>1. status[JobOf(t)] = "ingesting"
    BY <1>12 DEF MarkReady, Stage
  <2>2. status'[JobOf(t)] = "ready" /\ pc'[t] = "ack"
    BY <1>0, <1>12, AlwaysOk DEF MarkReady, Continue, Goto
  <2>. QED BY <1>0, <2>1, <2>2, StagesAreLegal DEF Stage, JobOf
<1>. QED BY <1>2, <1>4, <1>5, <1>6, <1>7, <1>9, <1>10, <1>11, <1>12 DEF RunJob

\* And so is the one that follows a step of handle.
LEMMA DisposeStage ==
  ASSUME Faults \subseteq {"body_lost"}, TypeInv, AllUp, NEW t \in Tasks, Stage(t), Dispose(t)
  PROVE  /\ Stage(t)' /\ LegalStep(JobOf(t))
         /\ \A m \in Message : queue'[m] > queue[m] => m.job = JobOf(t) /\ MayStart(m.job)'
         /\ pc[t] = "ack" => UNCHANGED <<status, attempts>>
<1>. USE DEF jobVars, taskVars
<1>0. /\ pc \in [Tasks -> Labels] /\ status \in [Jobs -> Statuses] /\ attempts \in [Jobs -> Nat]
      /\ JobOf(t) \in Jobs /\ up[t[1]]
      /\ \A m \in Message : queue[m] \in Nat
  BY TaskFrame, TaskWorker, CopiesType DEF TypeInv, TypeOK, AllUp
<1>1. CASE Ack(t) \/ DeadLetter(t)
  BY <1>0, <1>1 DEF Ack, DeadLetter, Finished, Goto, Stage, LegalStep
<1>2. CASE Bump(t)
  <2>1. /\ attempts' = [attempts EXCEPT ![JobOf(t)] = @ + 1] /\ pc'[t] = "republish"
        /\ UNCHANGED <<queue, status, msg>> /\ ~IsTerminal(status[JobOf(t)]) /\ pc[t] = "bump"
    BY <1>0, <1>2, AlwaysOk DEF Bump, Goto, Stage
  <2>2. attempts'[JobOf(t)] > 0
    BY <1>0, <2>1
  <2>. QED BY <1>0, <2>1, <2>2 DEF Stage, LegalStep, JobOf, IsTerminal
<1>3. CASE Republish(t)
  <2>1. /\ UNCHANGED <<status, attempts, msg>> /\ pc[t] = "republish" /\ pc'[t] = "ack"
        /\ ~IsTerminal(status[JobOf(t)]) /\ attempts[JobOf(t)] > 0
    BY <1>0, <1>3 DEF Republish, Goto, Stage
  <2>2. MayStart(JobOf(t))'
    BY <2>1 DEF MayStart, JobOf, IsTerminal
  <2>3. PICK n \in Message : n.job = JobOf(t) /\ queue' = Put(queue, n)
    BY <1>0, <1>3, RetryIsMessage DEF Republish
  <2>4. \A m \in Message : queue'[m] > queue[m] => m.job = JobOf(t)
    BY <1>0, <2>3, CopiesType
  <2>5. \A m \in Message : queue'[m] > queue[m] => MayStart(m.job)'
    BY <2>1, <2>2, <2>4 DEF JobOf, MayStart
  <2>. QED BY <2>1, <2>4, <2>5 DEF Stage, LegalStep
<1>4. CASE MarkFailed(t)
  <2>1. /\ status'[JobOf(t)] = "failed" /\ pc'[t] = "nack" /\ queue' = queue
        /\ pc[t] = "fail" /\ ~IsTerminal(status[JobOf(t)])
    BY <1>0, <1>4, AlwaysOk DEF MarkFailed, Goto, Stage
  <2>2. LegalStep(JobOf(t))
    BY <1>0, <2>1, StagesAreLegal
  <2>. QED BY <1>0, <2>1, <2>2 DEF Stage
<1>. QED BY <1>1, <1>2, <1>3, <1>4 DEF Dispose

LEMMA TaskStage ==
  ASSUME Faults \subseteq {"body_lost"},
         TypeInv, OneHolder, StageInv, NEW t \in Tasks, RunJob(t) \/ Dispose(t)
  PROVE  StageInv' /\ \A j \in Jobs : LegalStep(j)
<1>0. Stage(t) /\ AllUp /\ JobOf(t) \in Jobs /\ (Active(t) \/ pc[t] = "ack")
  BY TaskFrame DEF StageInv, OneHolder, Active
<1>1. /\ \A u \in Tasks : u # t => pc'[u] = pc[u] /\ msg'[u] = msg[u]
      /\ \A j \in Jobs : j # JobOf(t) => status'[j] = status[j] /\ attempts'[j] = attempts[j]
  BY TaskFrame
<1>2. /\ Stage(t)' /\ LegalStep(JobOf(t))
      /\ \A m \in Message : queue'[m] > queue[m] => m.job = JobOf(t) /\ MayStart(m.job)'
      /\ pc[t] = "ack" => UNCHANGED <<status, attempts>>
  <2>1. CASE RunJob(t)
    BY <1>0, <2>1, RunJobStage, RunJobKeeps, CopiesType DEF Active
  <2>2. CASE Dispose(t)
    BY <1>0, <2>2, DisposeStage
  <2>. QED BY <2>1, <2>2
<1>3. \A j \in Jobs : LegalStep(j)
  BY <1>1, <1>2 DEF LegalStep
<1>4. ASSUME NEW m \in Message, queue'[m] > 0 PROVE MayStart(m.job)'
  <2>1. CASE queue'[m] > queue[m]
    BY <1>2, <2>1
  <2>2. CASE ~(queue'[m] > queue[m])
    <3>1. queue[m] > 0 /\ MayStart(m.job) /\ m.job \in Jobs
      <4>1. queue[m] > 0
        <5>1. queue[m] \in Nat /\ queue'[m] \in Nat
          BY StepType, CopiesType DEF Next, TypeInv, TypeOK, Queues
        <5>. QED BY <1>4, <2>2, <5>1
      <4>. QED BY <4>1 DEF StageInv, Message
    <3>2. m.job # JobOf(t) \/ UNCHANGED <<status, attempts>>
      BY <1>0, <1>2, <3>1, HolderAlone
    <3>. QED BY <1>1, <3>1, <3>2 DEF MayStart
  <2>. QED BY <2>1, <2>2
<1>5. ASSUME NEW u \in Tasks, u # t PROVE Stage(u)'
  <2>1. CASE Active(u)
    <3>1. JobOf(u) \in Jobs /\ (JobOf(u) # JobOf(t) \/ UNCHANGED <<status, attempts>>)
      BY <1>0, <1>2, <1>5, <2>1, HolderAlone DEF Active, TypeInv, TypeOK, JobOf, Message
    <3>2. /\ status'[JobOf(u)] = status[JobOf(u)] /\ attempts'[JobOf(u)] = attempts[JobOf(u)]
          /\ pc'[u] = pc[u] /\ JobOf(u)' = JobOf(u) /\ Stage(u)
      BY <1>1, <1>5, <3>1 DEF JobOf, StageInv
    <3>. QED BY <3>2 DEF Stage, MayStart
  <2>2. CASE ~Active(u)
    BY <1>1, <1>5, <2>2 DEF Stage, Active
  <2>. QED BY <2>1, <2>2
<1>. QED BY <1>2, <1>3, <1>4, <1>5 DEF StageInv

LEMMA StepStage ==
  ASSUME Faults \subseteq {"body_lost"},
         TypeInv, OneHolder, StageInv, [Next]_vars, channelLosses' = channelLosses
  PROVE  StageInv' /\ \A j \in Jobs : LegalStep(j)
<1>1. CASE UNCHANGED vars
  BY <1>1 DEF vars, workerVars, taskVars, jobVars, StageInv, Stage, MayStart, JobOf, LegalStep
<1>2. \A w \in Workers : ~LoseChannel(w) /\ ~Restart(w)
  BY DEF LoseChannel, Restart, OneHolder, AllUp, TypeInv, TypeOK
<1>3. ASSUME NEW t \in Tasks, NEW n \in Message, Deliver(t, n)
      PROVE  StageInv' /\ \A j \in Jobs : LegalStep(j)
  <2>1. /\ UNCHANGED <<status, attempts>> /\ queue[n] > 0 /\ queue' = Take(queue, n)
        /\ pc'[t] = "check" /\ JobOf(t)' = n.job
        /\ \A u \in Tasks : u # t => pc'[u] = pc[u] /\ msg'[u] = msg[u]
    BY <1>3 DEF Deliver, Goto, jobVars, TypeInv, TypeOK, JobOf
  <2>2. \A m \in Message : queue'[m] > 0 => queue[m] > 0
    BY <2>1, CopiesType
  <2>3. ASSUME NEW u \in Tasks PROVE Stage(u)'
    <3>1. CASE u = t
      BY <2>1, <3>1 DEF StageInv, Stage, MayStart
    <3>2. CASE u # t
      BY <2>1, <3>2 DEF StageInv, Stage, MayStart, JobOf
    <3>. QED BY <3>1, <3>2
  <2>. QED BY <2>1, <2>2, <2>3 DEF StageInv, MayStart, LegalStep
<1>. QED BY <1>1, <1>2, <1>3, TaskStage DEF Next, Consume

-----------------------------------------------------------------------------
(***************************************************************************)
(* New jobs, for whoever publishes their messages.                         *)
(***************************************************************************)

\* Nobody has j, and nothing happened to it since its row was inserted.
New(j) == ~HasHolder(j) /\ status[j] = "queued" /\ attempts[j] = 0

\* Channels are lost, never found again.
LEMMA LossesGrow == [Next]_vars => channelLosses' \in {channelLosses, channelLosses + 1}
  BY DEF Next, Consume, Deliver, LoseChannel, Restart, RunJob, CheckReady, SetStatus, Describe,
         DropTable, CreateTable, Insert, CountRows, Generate, StoreDashboard, MarkReady, Dispose,
         Ack, Bump, Republish, MarkFailed, DeadLetter, vars, workerVars, taskVars

\* The worker starts on no job it was sent no message of.
LEMMA StepLeavesNew ==
  ASSUME TypeInv, OneHolder, [Next]_vars, channelLosses' = channelLosses, NEW j \in Jobs, New(j)
  PROVE  New(j)'
<1>1. ~HasHolder(j)'
  BY StepHolder DEF New
<1>2. CASE UNCHANGED vars
  BY <1>1, <1>2 DEF vars, workerVars, jobVars, New
<1>3. ASSUME NEW t \in Tasks, RunJob(t) \/ Dispose(t)
      PROVE  status'[j] = status[j] /\ attempts'[j] = attempts[j]
  <2>1. CASE j # JobOf(t)
    BY <1>3, <2>1, TaskFrame
  <2>2. CASE j = JobOf(t)
    <3>1. pc[t] = "ack"
      BY <1>3, <2>2, TaskFrame DEF New, HasHolder, Active
    <3>2. Ack(t)
      BY <1>3, <3>1, RunJobKeeps DEF Active, Dispose, Bump, Republish, MarkFailed, DeadLetter
    <3>. QED BY <3>2 DEF Ack, jobVars
  <2>. QED BY <2>1, <2>2
<1>4. ASSUME NEW t \in Tasks, NEW m \in Message, Deliver(t, m)
      PROVE  UNCHANGED <<status, attempts>>
  BY <1>4 DEF Deliver, jobVars
<1>5. ASSUME NEW w \in Workers, LoseChannel(w) \/ Restart(w)
      PROVE  UNCHANGED <<status, attempts>>
  BY <1>5 DEF LoseChannel, Restart, jobVars
<1>. QED BY <1>1, <1>2, <1>3, <1>4, <1>5 DEF Next, Consume, New

\* The first message of a new job finds no other holder of it.
LEMMA PublishNew ==
  ASSUME TypeInv, OneHolder, NEW j \in Jobs, New(j),
         queue' = Put(queue, FirstMessage(j)), UNCHANGED workerVars
  PROVE  /\ OneHolder'
         /\ \A i \in Jobs : i # j /\ New(i) => New(i)'
         /\ AttemptsInv => AttemptsInv'
         /\ FailedInv => FailedInv'
         /\ StageInv => StageInv'
<1>. USE DEF workerVars, jobVars, taskVars
<1>1. FirstMessage(j) \in Message /\ FirstMessage(j).job = j /\ FirstMessage(j).attempt = 0
  BY DEF FirstMessage, Message
<1>2. \A m \in Message : /\ queue'[m] = IF m = FirstMessage(j) THEN queue[m] + 1 ELSE queue[m]
                         /\ Copies(m)' = IF m = FirstMessage(j) THEN Copies(m) + 1 ELSE Copies(m)
  BY <1>1, CopiesType DEF Copies
<1>3. /\ \A m \in Message : m.job = j => Copies(m) = 0
      /\ \A t \in Tasks : Active(t) => JobOf(t) # j
  BY CopiesType DEF New, HasHolder
<1>4. \A t \in Tasks : (Active(t)' <=> Active(t)) /\ JobOf(t)' = JobOf(t)
  BY DEF Active, JobOf
<1>5. OneMessage'
  BY <1>1, <1>2, <1>3, CopiesType DEF OneHolder, OneMessage
<1>6. OneTask' /\ AllUp'
  BY <1>4 DEF OneHolder, OneTask, AllUp
<1>7. TaskOrMessage'
  BY <1>1, <1>2, <1>3, <1>4 DEF OneHolder, TaskOrMessage
<1>8. ASSUME NEW i \in Jobs, i # j, New(i) PROVE New(i)'
  <2>1. ~HasHolder(i)'
    BY <1>1, <1>2, <1>4, <1>8 DEF New, HasHolder
  <2>. QED BY <1>8, <2>1 DEF New
<1>9. \A m \in Message : queue'[m] > 0 => queue[m] > 0 \/ m = FirstMessage(j)
  BY <1>2
<1>10. AttemptsInv => AttemptsInv'
  BY <1>1, <1>4, <1>9 DEF AttemptsInv, AttemptsAreLimited, New
<1>11. FailedInv => FailedInv'
  BY <1>4 DEF FailedInv, DeadLetterIsRecorded
<1>12. StageInv => StageInv'
  BY <1>1, <1>4, <1>9 DEF StageInv, Stage, MayStart, New, IsTerminal, JobOf
<1>. QED BY <1>5, <1>6, <1>7, <1>8, <1>10, <1>11, <1>12 DEF OneHolder
=============================================================================
