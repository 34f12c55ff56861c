------------------------------- MODULE Worker -------------------------------
(***************************************************************************)
(* The worker service (crates/worker): it consumes ingestion.jobs, drives  *)
(* each job through ClickHouse with one statement after the other          *)
(* (ingest.rs run_job), and then acks, retries or dead-letters the message *)
(* (consumer.rs handle).                                                   *)
(*                                                                         *)
(* Every delivery is a task of its own; a worker holds at most as many     *)
(* unacknowledged deliveries as its prefetch, so the tasks of a worker are *)
(* its prefetch slots.  A step of a task is one call to PostgreSQL,        *)
(* ClickHouse or RabbitMQ: between two of them every other task may act.   *)
(***************************************************************************)
EXTENDS Domain, Integers, FiniteSets

CONSTANTS
    Workers,        \* the worker processes
    Slots,          \* the prefetch of one of them (basic_qos)
    NoMsg,          \* what an idle slot holds
    SourceRows,     \* rows in the file behind a job's URL
    MaxCopies,      \* bound: copies of its first message a job starts with
    MaxChannelLosses,      \* bound: worker channels lost in a behaviour
    Faults          \* how the stores may misbehave

\* "pg_error": a PostgreSQL statement fails.  "pg_reply_lost": it is applied
\* but the worker sees an error.  "body_lost": ClickHouse answers 200 and the
\* body cannot be read, which ChHttp::run turns into an empty string.
ASSUME WorkerAssumption ==
    /\ IsFiniteSet(Jobs) /\ IsFiniteSet(Workers) /\ IsFiniteSet(Slots)
    /\ NoMsg \notin Message
    /\ SourceRows \in Nat
    /\ MaxCopies \in Nat \ {0}
    /\ MaxChannelLosses \in Nat
    /\ Faults \subseteq {"pg_error", "pg_reply_lost", "body_lost"}

VARIABLES
    queue,      \* ingestion.jobs: the messages ready for delivery
    dlq,        \* ingestion.jobs.dead
    status,     \* ingestion_jobs.status
    error,      \* ingestion_jobs.error is not NULL
    rowCount,   \* ingestion_jobs.row_count
    attempts,   \* ingestion_jobs.attempts
    dashboard,  \* summary.row_count of the dashboards row
    table,      \* rows in the job's ClickHouse table
    pc,         \* the next call of each task
    msg,        \* the message of each task
    counted,    \* row_count as the task read it
    up,         \* whether the worker's channel is open at the broker
    channelLosses      \* channels lost so far

jobVars  == <<status, error, rowCount, attempts>>
taskVars == <<msg, counted, up, channelLosses>>

workerVars == <<dlq, jobVars, dashboard, table, pc, taskVars>>

vars == <<queue, workerVars>>

Null == -1

Tasks == Workers \X Slots

\* The calls of run_job from the first status update to mark_ready.
Pipeline == {"downloading", "inferring", "describe", "ingesting", "drop", "create",
             "insert", "count", "generate", "store", "ready"}

\* The calls of handle once run_job returned.
Disposal == {"ack", "bump", "republish", "fail", "nack"}

Labels == {"idle", "check"} \cup Pipeline \cup Disposal

TypeOK ==
    /\ queue \in Queues
    /\ dlq \in Queues
    /\ status \in [Jobs -> Statuses]
    /\ error \in [Jobs -> BOOLEAN]
    /\ rowCount \in [Jobs -> Nat \cup {Null}]
    /\ attempts \in [Jobs -> Nat]
    /\ dashboard \in [Jobs -> Nat \cup {Null}]
    /\ table \in [Jobs -> Nat \cup {Null}]
    /\ pc \in [Tasks -> Labels]
    /\ msg \in [Tasks -> Message \cup {NoMsg}]
    /\ \A t \in Tasks : pc[t] # "idle" => msg[t] \in Message
    /\ counted \in [Tasks -> Nat]
    /\ up \in [Workers -> BOOLEAN]
    /\ channelLosses \in 0 .. MaxChannelLosses

\* Each job was created and its message published, perhaps more than once.
Init ==
    /\ \E copies \in [Jobs -> 1 .. MaxCopies] :
           queue = [m \in Message |-> IF m.attempt = 0 THEN copies[m.job] ELSE 0]
    /\ dlq = EmptyQueue
    /\ status = [j \in Jobs |-> "queued"]
    /\ error = [j \in Jobs |-> FALSE]
    /\ rowCount = [j \in Jobs |-> Null]
    /\ attempts = [j \in Jobs |-> 0]
    /\ dashboard = [j \in Jobs |-> Null]
    /\ table = [j \in Jobs |-> Null]
    /\ pc = [t \in Tasks |-> "idle"]
    /\ msg = [t \in Tasks |-> NoMsg]
    /\ counted = [t \in Tasks |-> 0]
    /\ up = [w \in Workers |-> TRUE]
    /\ channelLosses = 0

-----------------------------------------------------------------------------
JobOf(t) == msg[t].job

Goto(t, label) == pc' = [pc EXCEPT ![t] = label]

\* Mutants: one attempt too many; the reason of a failure is not recorded.
RetryOnceMore(t, retryable) ==
    IF retryable /\ msg[t].attempt + 1 <= MaxAttempts THEN "bump" ELSE "fail"

NackUnrecorded(t, retryable) ==
    IF retryable /\ msg[t].attempt + 1 < MaxAttempts THEN "bump" ELSE "nack"

\* handle: a retryable error backs off and republishes while attempts remain,
\* any other records the failure and dead-letters.
AfterError(t, retryable) ==
    IF retryable /\ msg[t].attempt + 1 < MaxAttempts THEN "bump" ELSE "fail"

\* An sqlx call: what the task sees, and whether the statement was applied.
PgOutcomes ==
    {o \in [ok : BOOLEAN, applied : BOOLEAN] :
        \/ o.ok /\ o.applied
        \/ ~o.ok /\ ~o.applied /\ "pg_error" \in Faults
        \/ ~o.ok /\ o.applied /\ "pg_reply_lost" \in Faults}

\* db_retryable: every database error of run_job is worth a retry.
Continue(t, o, next) == Goto(t, IF o.ok THEN next ELSE AfterError(t, TRUE))

\* ChClient::run failed: retryable or permanent by what ClickHouse answered.
ChError(t) == \E retryable \in BOOLEAN : Goto(t, AfterError(t, retryable))

Deliver(t, m) ==
    /\ up[t[1]]
    /\ pc[t] = "idle"
    /\ queue[m] > 0
    /\ queue' = Take(queue, m)
    /\ Goto(t, "check")
    /\ msg' = [msg EXCEPT ![t] = m]
    /\ UNCHANGED <<dlq, jobVars, dashboard, table, counted, up, channelLosses>>

-----------------------------------------------------------------------------
(***************************************************************************)
(* run_job, one action per call.                                           *)
(***************************************************************************)

\* Mutant: a duplicate of a finished job is run again.
RunAgain(t) ==
    /\ pc[t] = "check"
    /\ Goto(t, "downloading")
    /\ UNCHANGED <<queue, dlq, jobVars, dashboard, table, taskVars>>

\* repo::is_ready: a duplicate for a finished job is a no-op.
CheckReady(t) ==
    /\ pc[t] = "check"
    /\ \E o \in PgOutcomes :
           Continue(t, o, IF status[JobOf(t)] = "ready" THEN "ack" ELSE "downloading")
    /\ UNCHANGED <<queue, dlq, jobVars, dashboard, table, taskVars>>

\* repo::set_status, at the label that is the status it sets.
SetStatus(t, s, next) ==
    /\ pc[t] = s
    /\ \E o \in PgOutcomes :
           /\ status' = IF o.applied THEN [status EXCEPT ![JobOf(t)] = s] ELSE status
           /\ Continue(t, o, next)
    /\ UNCHANGED <<queue, dlq, error, rowCount, attempts, dashboard, table, taskVars>>

\* describe_schema; a schema with no column is a permanent error.
Describe(t) ==
    /\ pc[t] = "describe"
    /\ Goto(t, "ingesting") \/ ChError(t)
    /\ UNCHANGED <<queue, dlq, jobVars, dashboard, table, taskVars>>

\* Mutant: a retry loads into the table the last attempt left.
KeepTable(t) ==
    /\ pc[t] = "drop"
    /\ Goto(t, "create")
    /\ UNCHANGED <<queue, dlq, jobVars, dashboard, table, taskVars>>

DropTable(t) ==
    /\ pc[t] = "drop"
    /\ LET dropped == [table EXCEPT ![JobOf(t)] = Null]
       IN  \/ Goto(t, "create") /\ table' = dropped
           \/ ChError(t) /\ table' \in {table, dropped}
    /\ UNCHANGED <<queue, dlq, jobVars, dashboard, taskVars>>

\* CREATE TABLE IF NOT EXISTS.
CreateTable(t) ==
    /\ pc[t] = "create"
    /\ LET created == [table EXCEPT ![JobOf(t)] = IF @ = Null THEN 0 ELSE @]
       IN  \/ Goto(t, "insert") /\ table' = created
           \/ ChError(t) /\ table' \in {table, created}
    /\ UNCHANGED <<queue, dlq, jobVars, dashboard, taskVars>>

\* A statement on a table another task dropped is answered by a query error that
\* holds no transient signature.
MissingTable(t) ==
    /\ table[JobOf(t)] = Null
    /\ Goto(t, AfterError(t, FALSE))
    /\ UNCHANGED table

\* INSERT ... SELECT FROM url(): when it fails, some of its blocks may be in.
Insert(t) ==
    /\ pc[t] = "insert"
    /\ \/ MissingTable(t)
       \/ ChError(t) /\ UNCHANGED table
       \/ /\ table[JobOf(t)] # Null
          /\ \E n \in 0 .. SourceRows :
                 /\ table' = [table EXCEPT ![JobOf(t)] = @ + n]
                 /\ (n = SourceRows /\ Goto(t, "count")) \/ ChError(t)
    /\ UNCHANGED <<queue, dlq, jobVars, dashboard, taskVars>>

\* count_rows; a body that is not a number counts as zero rows.
CountRows(t) ==
    /\ pc[t] = "count"
    /\ \/ MissingTable(t) /\ UNCHANGED counted
       \/ ChError(t) /\ UNCHANGED <<table, counted>>
       \/ /\ table[JobOf(t)] # Null
          /\ \/ counted' = [counted EXCEPT ![t] = table[JobOf(t)]]
             \/ "body_lost" \in Faults /\ counted' = [counted EXCEPT ![t] = 0]
          /\ Goto(t, "generate")
          /\ UNCHANGED table
    /\ UNCHANGED <<queue, dlq, jobVars, dashboard, msg, up, channelLosses>>

\* Mutant: the job is marked ready without its dashboard.
GenerateUnstored(t) ==
    /\ pc[t] = "generate"
    /\ Goto(t, "ready")
    /\ UNCHANGED <<queue, dlq, jobVars, dashboard, table, taskVars>>

\* dashboard::generate only reads the table.
Generate(t) ==
    /\ pc[t] = "generate"
    /\ \/ MissingTable(t)
       \/ ChError(t) /\ UNCHANGED table
       \/ table[JobOf(t)] # Null /\ Goto(t, "store") /\ UNCHANGED table
    /\ UNCHANGED <<queue, dlq, jobVars, dashboard, taskVars>>

\* Mutant: the error of the insert is ignored.
StoreIgnoringErrors(t) ==
    /\ pc[t] = "store"
    /\ \E o \in PgOutcomes :
           dashboard' = IF o.applied THEN [dashboard EXCEPT ![JobOf(t)] = counted[t]]
                                     ELSE dashboard
    /\ Goto(t, "ready")
    /\ UNCHANGED <<queue, dlq, jobVars, table, taskVars>>

\* dashboard::store inserts the row or replaces its config.
StoreDashboard(t) ==
    /\ pc[t] = "store"
    /\ \E o \in PgOutcomes :
           /\ dashboard' = IF o.applied THEN [dashboard EXCEPT ![JobOf(t)] = counted[t]]
                                        ELSE dashboard
           /\ Continue(t, o, "ready")
    /\ UNCHANGED <<queue, dlq, jobVars, table, taskVars>>

MarkReady(t) ==
    /\ pc[t] = "ready"
    /\ \E o \in PgOutcomes :
           /\ IF o.applied
              THEN /\ status' = [status EXCEPT ![JobOf(t)] = "ready"]
                   /\ rowCount' = [rowCount EXCEPT ![JobOf(t)] = counted[t]]
                   /\ error' = [error EXCEPT ![JobOf(t)] = FALSE]
              ELSE UNCHANGED <<status, rowCount, error>>
           /\ Continue(t, o, "ack")
    /\ UNCHANGED <<queue, dlq, attempts, dashboard, table, taskVars>>

-----------------------------------------------------------------------------
(***************************************************************************)
(* handle, after run_job.  Its own database calls ignore their errors.     *)
(***************************************************************************)
\* handle returns, and with it the task that was spawned for the delivery.
Finished(t) ==
    /\ Goto(t, "idle")
    /\ msg' = [msg EXCEPT ![t] = NoMsg]
    /\ counted' = [counted EXCEPT ![t] = 0]

Ack(t) ==
    /\ pc[t] = "ack"
    /\ Finished(t)
    /\ UNCHANGED <<queue, dlq, jobVars, dashboard, table, up, channelLosses>>

\* increment_attempts, then the backoff begins.
Bump(t) ==
    /\ pc[t] = "bump"
    /\ \E o \in PgOutcomes :
           attempts' = IF o.applied THEN [attempts EXCEPT ![JobOf(t)] = @ + 1] ELSE attempts
    /\ Goto(t, "republish")
    /\ UNCHANGED <<queue, dlq, status, error, rowCount, dashboard, table, taskVars>>

\* The backoff is over.  On a channel the broker closed the publish fails, or
\* returns Ok and is lost.
Republish(t) ==
    /\ pc[t] = "republish"
    /\ IF up[t[1]]
       THEN /\ queue' = Put(queue, [msg[t] EXCEPT !.attempt = @ + 1])
            /\ Goto(t, "ack")
       ELSE /\ UNCHANGED queue
            /\ Goto(t, "ack") \/ Goto(t, "fail")
    /\ UNCHANGED <<dlq, jobVars, dashboard, table, taskVars>>

MarkFailed(t) ==
    /\ pc[t] = "fail"
    /\ \E o \in PgOutcomes :
           IF o.applied
           THEN /\ status' = [status EXCEPT ![JobOf(t)] = "failed"]
                /\ error' = [error EXCEPT ![JobOf(t)] = TRUE]
           ELSE UNCHANGED <<status, error>>
    /\ Goto(t, "nack")
    /\ UNCHANGED <<queue, dlq, rowCount, attempts, dashboard, table, taskVars>>

\* Mutant: nack with requeue.
NackAndRequeue(t) ==
    /\ pc[t] = "nack"
    /\ queue' = IF up[t[1]] THEN Put(queue, msg[t]) ELSE queue
    /\ Finished(t)
    /\ UNCHANGED <<dlq, jobVars, dashboard, table, up, channelLosses>>

\* nack without requeue: the dead-letter exchange takes the message.
DeadLetter(t) ==
    /\ pc[t] = "nack"
    /\ dlq' = IF up[t[1]] THEN Put(dlq, msg[t]) ELSE dlq
    /\ Finished(t)
    /\ UNCHANGED <<queue, jobVars, dashboard, table, up, channelLosses>>

-----------------------------------------------------------------------------
(***************************************************************************)
(* The channel and the process.                                            *)
(***************************************************************************)
TasksOf(w) == {t \in Tasks : t[1] = w}

Unacked(w, m) == {t \in TasksOf(w) : pc[t] # "idle" /\ msg[t] = m}

\* Mutant: the consumer asks for automatic acknowledgement.
LoseUnacked(w) ==
    /\ up[w]
    /\ channelLosses < MaxChannelLosses
    /\ channelLosses' = channelLosses + 1
    /\ up' = [up EXCEPT ![w] = FALSE]
    /\ UNCHANGED <<queue, dlq, jobVars, dashboard, table, pc, msg, counted>>

\* The broker closes the channel or the process dies: what was not acked is
\* requeued as it was.  The tasks run on until the process exits.
LoseChannel(w) ==
    /\ up[w]
    /\ channelLosses < MaxChannelLosses
    /\ channelLosses' = channelLosses + 1
    /\ up' = [up EXCEPT ![w] = FALSE]
    /\ queue' = [m \in Message |-> queue[m] + Cardinality(Unacked(w, m))]
    /\ UNCHANGED <<dlq, jobVars, dashboard, table, pc, msg, counted>>

\* Mutant: the consumer is started again beside the tasks of the lost channel.
ReopenChannel(w) ==
    /\ ~up[w]
    /\ up' = [up EXCEPT ![w] = TRUE]
    /\ msg' = [t \in Tasks |-> IF t[1] = w THEN NoMsg ELSE msg[t]]
    /\ UNCHANGED <<queue, dlq, jobVars, dashboard, table, pc, counted, channelLosses>>

\* The consumer loop ended, so the process exits and is started again.
Restart(w) ==
    /\ ~up[w]
    /\ up' = [up EXCEPT ![w] = TRUE]
    /\ pc' = [t \in Tasks |-> IF t[1] = w THEN "idle" ELSE pc[t]]
    /\ msg' = [t \in Tasks |-> IF t[1] = w THEN NoMsg ELSE msg[t]]
    /\ counted' = [t \in Tasks |-> IF t[1] = w THEN 0 ELSE counted[t]]
    /\ UNCHANGED <<queue, dlq, jobVars, dashboard, table, channelLosses>>

-----------------------------------------------------------------------------
RunJob(t) ==
    \/ CheckReady(t)
    \/ SetStatus(t, "downloading", "inferring")
    \/ SetStatus(t, "inferring", "describe")
    \/ Describe(t)
    \/ SetStatus(t, "ingesting", "drop")
    \/ DropTable(t) \/ CreateTable(t) \/ Insert(t) \/ CountRows(t)
    \/ Generate(t) \/ StoreDashboard(t) \/ MarkReady(t)

Dispose(t) == Ack(t) \/ Bump(t) \/ Republish(t) \/ MarkFailed(t) \/ DeadLetter(t)

Consume == \E t \in Tasks, m \in Message : Deliver(t, m)

Next ==
    \/ Consume
    \/ \E t \in Tasks : RunJob(t) \/ Dispose(t)
    \/ \E w \in Workers : LoseChannel(w) \/ Restart(w)

Spec == Init /\ [][Next]_vars

-----------------------------------------------------------------------------
(***************************************************************************)
(* Properties.                                                             *)
(***************************************************************************)

\* ingest.rs:84: whatever fails and whoever runs beside it, a job is shown
\* ready only when its dashboard is stored.
ReadyHasDashboard == \A j \in Jobs : status[j] = "ready" => dashboard[j] # Null

\* A message for j waits in a queue, or a task the broker still counts on has it.
InCustody(j) ==
    \/ \E m \in Message : m.job = j /\ queue[m] + dlq[m] > 0
    \/ \E t \in Tasks : up[t[1]] /\ pc[t] \notin {"idle", "ack"} /\ JobOf(t) = j

\* With one worker process no job is forgotten: until it is ready or failed
\* somebody still has a message for it, however often the process dies and
\* however many database calls fail (consumer.rs:85-108).
NeverForgotten == \A j \in Jobs : IsTerminal(status[j]) \/ InCustody(j)

\* ingest.rs:67: redelivery does not duplicate rows, and what the job row, the
\* dashboard and the table say of a ready job agrees with its source.
ReadyIsExact ==
    \A j \in Jobs : status[j] = "ready" =>
        /\ table[j] = SourceRows
        /\ rowCount[j] = SourceRows
        /\ dashboard[j] = SourceRows

\* consumer.rs:97: the reason is recorded and the message dead-lettered.
DeadLetterIsRecorded ==
    \A m \in Message : dlq[m] > 0 => status[m.job] = "failed" /\ error[m.job]

\* lib.rs:27: the processing attempts recorded for a job stay below the limit.
AttemptsAreLimited == \A j \in Jobs : attempts[j] < MaxAttempts

\* domain.rs:42: a status moves along the documented transitions, or starts
\* over at downloading because a retry was recorded; it never leaves ready or
\* failed.
LifecycleOrRetry ==
    [][\A j \in Jobs :
        \/ status'[j] = status[j]
        \/ CanTransitionTo(status[j], status'[j])
        \/ /\ ~IsTerminal(status[j])
           /\ status'[j] = "downloading"
           /\ attempts[j] > 0]_vars

\* ingest.rs:36: a duplicate for an already finished job is a no-op.
FinishedStaysFinished ==
    [][\A j \in Jobs : IsTerminal(status[j]) => status'[j] = status[j]]_vars

\* Every job comes to rest: ready, failed, or parked in the dead-letter queue
\* with no message of it left to process.
Settled(j) ==
    /\ IsTerminal(status[j]) \/ \E m \in Message : m.job = j /\ dlq[m] > 0
    /\ \A m \in Message : m.job = j => queue[m] = 0
    /\ \A t \in Tasks : pc[t] # "idle" => JobOf(t) # j
=============================================================================
