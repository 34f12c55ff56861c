----------------------------- MODULE ReadsProofs -----------------------------
(***************************************************************************)
(* Proofs about module Reads, for every number of jobs, workers, slots,    *)
(* attempts and rows, every sample and every set of viewers.               *)
(***************************************************************************)
EXTENDS Reads, LifecycleProofs

USE AttemptsAssumption, WorkerAssumption, ReadsAssumption

-----------------------------------------------------------------------------
(***************************************************************************)
(* Ready is final, as long as the deliveries of a job do not overlap and   *)
(* PostgreSQL answers: nobody who still has the job finds it ready, so     *)
(* nobody changes what is stored of it.                                    *)
(***************************************************************************)

\* One task at a time, as one worker with a prefetch of one has.
OneAtATime == \A t, u \in Tasks : t = u

\* One slot of one worker, or no message twice.
Serial == OneAtATime \/ (MaxCopies = 1 /\ MaxChannelLosses = 0)

SerialInv == OneTask /\ (OneAtATime \/ (MaxChannelLosses = 0 /\ OneHolder))

FinalTask(t) ==
    /\ pc[t] \in Pipeline \cup {"bump", "republish", "fail"} => status[JobOf(t)] # "ready"
    /\ pc[t] \in {"insert", "count", "generate", "store", "ready"} => table[JobOf(t)] # Null

FinalInv ==
    /\ \A j \in Jobs : status[j] = "ready" => table[j] # Null
    /\ \A t \in Tasks : FinalTask(t)

LEMMA StepSerial == TypeInv /\ SerialInv /\ [Next]_vars => SerialInv'
<1>. SUFFICES ASSUME TypeInv, SerialInv, [Next]_vars PROVE SerialInv'
  OBVIOUS
<1>1. CASE OneAtATime
  BY <1>1 DEF SerialInv, OneTask, OneAtATime
<1>2. CASE MaxChannelLosses = 0 /\ OneHolder
  <2>1. channelLosses = 0 /\ channelLosses' = 0
    BY <1>2, StepType DEF TypeInv, TypeOK
  <2>2. OneHolder'
    BY <1>2, <2>1, StepHolder
  <2>. QED BY <1>2, <2>2 DEF SerialInv, OneHolder
<1>. QED BY <1>1, <1>2 DEF SerialInv

LEMMA InitSerial ==
  ASSUME Serial
  PROVE  Init => SerialInv
<1>. SUFFICES ASSUME Init PROVE SerialInv
  OBVIOUS
<1>1. \A t \in Tasks : ~Active(t)
  BY DEF Init, Active
<1>2. CASE MaxCopies = 1 /\ MaxChannelLosses = 0
  <2>1. \A m \in Message : Copies(m) = IF m.attempt = 0 THEN 1 ELSE 0
    BY <1>2 DEF Init, EmptyQueue, Copies, Message
  <2>2. OneMessage
    BY <2>1 DEF OneMessage, Message
  <2>3. AllUp
    BY DEF Init, AllUp
  <2>. QED BY <1>1, <1>2, <2>2, <2>3 DEF SerialInv, OneHolder, OneTask, TaskOrMessage
<1>. QED BY <1>1, <1>2 DEF Serial, SerialInv, OneTask

\* A ready job stays ready, and nothing that is stored of it changes.
Kept(j) ==
    status[j] = "ready" =>
        /\ status'[j] = "ready"
        /\ table'[j] = table[j]
        /\ rowCount'[j] = rowCount[j]
        /\ dashboard'[j] = dashboard[j]

\* A call that fails leaves the pipeline, and the row as it is.
LEMMA ErrorFinal ==
  ASSUME TypeInv, NEW t \in Tasks, UNCHANGED <<msg, status>>, status[JobOf(t)] # "ready",
         ChError(t) \/ Goto(t, AfterError(t, FALSE))
  PROVE  FinalTask(t)'
<1>1. pc'[t] \in {"bump", "fail"}
  BY AfterErrorType DEF ChError, Goto, TypeInv, TypeOK
<1>. QED BY <1>1 DEF FinalTask, JobOf

LEMMA RunJobFinal ==
  ASSUME Faults \subseteq {"body_lost"}, TypeInv, NEW t \in Tasks, FinalTask(t), RunJob(t)
  PROVE  /\ FinalTask(t)'
         /\ status'[JobOf(t)] = "ready" /\ status[JobOf(t)] # "ready" => table'[JobOf(t)] # Null
         /\ pc[t] = "check" => UNCHANGED <<status, table, rowCount, dashboard>>
<1>. USE DEF jobVars, taskVars
<1>0. /\ pc \in [Tasks -> Labels] /\ status \in [Jobs -> Statuses]
      /\ table \in [Jobs -> Nat \cup {Null}] /\ JobOf(t) \in Jobs /\ msg' = msg
      /\ pc[t] \in Pipeline => status[JobOf(t)] # "ready"
  BY TaskFrame, RunJobKeeps DEF TypeInv, TypeOK, FinalTask
<1>1. CASE CheckReady(t)
  <2>1. pc'[t] = IF status[JobOf(t)] = "ready" THEN "ack" ELSE "downloading"
    BY <1>0, <1>1, AlwaysOk DEF CheckReady, Continue, Goto
  <2>. QED BY <1>0, <1>1, <2>1 DEF CheckReady, FinalTask, JobOf, Pipeline
<1>2. ASSUME NEW s \in {"downloading", "inferring", "ingesting"},
             NEW next \in {"inferring", "describe", "drop"}, SetStatus(t, s, next)
      PROVE  FinalTask(t)' /\ status'[JobOf(t)] # "ready" /\ pc[t] # "check"
  <2>1. status'[JobOf(t)] = s /\ pc'[t] = next /\ pc[t] = s
    BY <1>0, <1>2, AlwaysOk DEF SetStatus, Continue, Goto
  <2>. QED BY <1>0, <2>1 DEF FinalTask, JobOf
\* The calls of ClickHouse leave the row alone.
<1>3. ASSUME UNCHANGED <<status, msg>>, pc[t] \in Pipeline,
             \/ ChError(t) \/ Goto(t, AfterError(t, FALSE))
             \/ Goto(t, "ingesting") \/ Goto(t, "create")
             \/ /\ \E label \in {"insert", "count", "generate", "store", "ready"} : Goto(t, label)
                /\ table'[JobOf(t)] # Null
      PROVE  FinalTask(t)'
  <2>1. CASE ChError(t) \/ Goto(t, AfterError(t, FALSE))
    BY <1>0, <1>3, <2>1, ErrorFinal
  <2>2. CASE Goto(t, "ingesting") \/ Goto(t, "create")
    BY <1>0, <1>3, <2>2 DEF Goto, FinalTask, JobOf, Pipeline
  <2>3. CASE /\ \E label \in {"insert", "count", "generate", "store", "ready"} : Goto(t, label)
             /\ table'[JobOf(t)] # Null
    BY <1>0, <1>3, <2>3 DEF Goto, FinalTask, JobOf, Pipeline
  <2>. QED BY <1>3, <2>1, <2>2, <2>3
<1>4. CASE Describe(t)
  BY <1>0, <1>3, <1>4 DEF Describe, Pipeline
<1>5. CASE DropTable(t)
  BY <1>0, <1>3, <1>5 DEF DropTable, Pipeline
<1>6. CASE CreateTable(t)
  <2>1. CASE Goto(t, "insert") /\ table' = [table EXCEPT ![JobOf(t)] = IF @ = Null THEN 0 ELSE @]
    <3>1. table'[JobOf(t)] # Null
      BY <1>0, <2>1 DEF Null
    <3>. QED BY <1>0, <1>3, <1>6, <2>1, <3>1 DEF CreateTable, Pipeline
  <2>. QED BY <1>0, <1>3, <1>6, <2>1 DEF CreateTable, Pipeline
<1>7. CASE Insert(t)
  <2>1. CASE Goto(t, "count") /\ table[JobOf(t)] # Null /\ table' = [table EXCEPT ![JobOf(t)] = @ + SourceRows]
    <3>1. table'[JobOf(t)] # Null
      BY <1>0, <2>1 DEF Null
    <3>. QED BY <1>0, <1>3, <1>7, <2>1, <3>1 DEF Insert, Pipeline
  <2>. QED BY <1>0, <1>3, <1>7, <2>1 DEF Insert, MissingTable, Pipeline
<1>8. CASE CountRows(t)
  BY <1>0, <1>3, <1>8 DEF CountRows, MissingTable, Pipeline
<1>9. CASE Generate(t)
  BY <1>0, <1>3, <1>9 DEF Generate, MissingTable, Pipeline
<1>10. CASE StoreDashboard(t)
  <2>1. Goto(t, "ready") /\ table'[JobOf(t)] # Null
    BY <1>10, AlwaysOk DEF StoreDashboard, Continue, FinalTask
  <2>. QED BY <1>0, <1>3, <1>10, <2>1 DEF StoreDashboard, Pipeline
<1>11. CASE MarkReady(t)
  <2>1. pc'[t] = "ack" /\ pc[t] = "ready" /\ table' = table /\ table[JobOf(t)] # Null
    BY <1>0, <1>11, AlwaysOk DEF MarkReady, Continue, Goto, FinalTask
  <2>. QED BY <2>1 DEF FinalTask, Pipeline
<1>12. CASE \/ SetStatus(t, "downloading", "inferring") \/ SetStatus(t, "inferring", "describe")
            \/ SetStatus(t, "ingesting", "drop")
  BY <1>2, <1>12
<1>13. CASE Describe(t) \/ DropTable(t) \/ CreateTable(t) \/ Insert(t) \/ CountRows(t)
            \/ Generate(t) \/ StoreDashboard(t)
  <2>1. status' = status /\ pc[t] # "check"
    BY <1>13 DEF Describe, DropTable, CreateTable, Insert, CountRows, Generate, StoreDashboard
  <2>. QED BY <1>4, <1>5, <1>6, <1>7, <1>8, <1>9, <1>10, <1>13, <2>1
<1>. QED BY <1>1, <1>11, <1>12, <1>13 DEF RunJob

\* One step of a task that has the job changes the row of no ready job, and
\* nobody else has the job.
LEMMA TaskFinal ==
  ASSUME Faults \subseteq {"body_lost"}, TypeInv, SerialInv, FinalInv,
         NEW t \in Tasks, RunJob(t) \/ Dispose(t)
  PROVE  FinalInv' /\ \A j \in Jobs : Kept(j)
<1>. USE DEF jobVars, taskVars
<1>0. /\ pc \in [Tasks -> Labels] /\ status \in [Jobs -> Statuses] /\ FinalTask(t)
      /\ \A u \in Tasks : u # t => pc'[u] = pc[u] /\ msg'[u] = msg[u]
      /\ \A u \in Tasks : Active(u) => JobOf(u) \in Jobs
      /\ JobOf(t) \in Jobs
  BY TaskFrame DEF TypeInv, TypeOK, FinalInv, Active, JobOf, Message
\* Either it leaves the row and the table alone, or its job is not ready.
<1>1. /\ FinalTask(t)'
      /\ status'[JobOf(t)] = "ready" /\ status[JobOf(t)] # "ready" => table'[JobOf(t)] # Null
      /\ \/ UNCHANGED <<status, table, rowCount, dashboard>>
         \/ Active(t) /\ status[JobOf(t)] # "ready"
  <2>1. CASE RunJob(t)
    <3>1. pc[t] = "check" \/ (pc[t] \in Pipeline /\ status[JobOf(t)] # "ready" /\ Active(t))
      BY <1>0, <2>1, RunJobKeeps DEF FinalTask
    <3>. QED BY <1>0, <2>1, <3>1, RunJobFinal
  <2>2. CASE Ack(t) \/ DeadLetter(t)
    BY <1>0, <2>2 DEF Ack, DeadLetter, Finished, Goto, FinalTask, Pipeline
  <2>3. CASE Bump(t)
    BY <1>0, <2>3 DEF Bump, Goto, FinalTask, JobOf, Pipeline
  <2>4. CASE Republish(t)
    BY <1>0, <2>4 DEF Republish, Goto, FinalTask, JobOf, Pipeline
  <2>5. CASE MarkFailed(t)
    BY <1>0, <2>5, AlwaysOk DEF MarkFailed, Goto, FinalTask, Active, Pipeline
  <2>. QED BY <2>1, <2>2, <2>3, <2>4, <2>5 DEF Dispose
<1>2. ASSUME NEW j \in Jobs PROVE Kept(j)
  BY <1>1, TaskFrame DEF Kept
<1>3. ASSUME NEW j \in Jobs, status'[j] = "ready" PROVE table'[j] # Null
  <2>1. CASE status[j] = "ready"
    BY <1>2, <2>1 DEF FinalInv, Kept
  <2>2. CASE status[j] # "ready"
    BY <1>1, <1>3, <2>2, TaskFrame
  <2>. QED BY <2>1, <2>2
<1>4. ASSUME NEW u \in Tasks, u # t PROVE FinalTask(u)'
  <2>1. CASE Active(u)
    <3>1. \/ UNCHANGED <<status, table>>
          \/ JobOf(u) # JobOf(t)
      BY <1>1, <1>4, <2>1 DEF SerialInv, OneTask
    <3>2. status'[JobOf(u)] = status[JobOf(u)] /\ table'[JobOf(u)] = table[JobOf(u)]
      BY <1>0, <2>1, <3>1, TaskFrame
    <3>. QED BY <1>0, <1>4, <3>2 DEF FinalInv, FinalTask, JobOf
  <2>2. CASE ~Active(u)
    BY <1>0, <1>4, <2>2 DEF FinalTask, Active, Pipeline
  <2>. QED BY <2>1, <2>2
<1>. QED BY <1>1, <1>2, <1>3, <1>4 DEF FinalInv

LEMMA StepFinal ==
  ASSUME Faults \subseteq {"body_lost"}, TypeInv, SerialInv, FinalInv, [Next]_vars
  PROVE  FinalInv' /\ \A j \in Jobs : Kept(j)
<1>. USE DEF jobVars, taskVars
<1>1. CASE UNCHANGED vars
  BY <1>1 DEF vars, workerVars, FinalInv, FinalTask, JobOf, Kept
<1>2. ASSUME NEW t \in Tasks, NEW m \in Message, Deliver(t, m)
      PROVE  FinalInv' /\ \A j \in Jobs : Kept(j)
  <2>1. \A u \in Tasks : u # t => pc'[u] = pc[u] /\ msg'[u] = msg[u]
    BY <1>2 DEF Deliver, Goto, TypeInv, TypeOK
  <2>2. pc'[t] = "check" /\ UNCHANGED <<status, table, rowCount, dashboard>>
    BY <1>2 DEF Deliver, Goto, TypeInv, TypeOK
  <2>3. \A u \in Tasks : FinalTask(u)'
    BY <2>1, <2>2 DEF FinalInv, FinalTask, JobOf, Pipeline
  <2>. QED BY <2>2, <2>3 DEF FinalInv, Kept
<1>3. ASSUME NEW w \in Workers, LoseChannel(w)
      PROVE  FinalInv' /\ \A j \in Jobs : Kept(j)
  BY <1>3 DEF LoseChannel, FinalInv, FinalTask, JobOf, Kept
<1>4. ASSUME NEW w \in Workers, Restart(w)
      PROVE  FinalInv' /\ \A j \in Jobs : Kept(j)
  <2>1. \A t \in Tasks : pc'[t] = "idle" \/ (pc'[t] = pc[t] /\ msg'[t] = msg[t])
    BY <1>4 DEF Restart
  <2>. QED BY <1>4, <2>1 DEF Restart, FinalInv, FinalTask, JobOf, Kept, Pipeline
<1>. QED BY <1>1, <1>2, <1>3, <1>4, TaskFinal DEF Next, Consume
-----------------------------------------------------------------------------
(***************************************************************************)
(* What a page holds of a job.                                             *)
(***************************************************************************)
Begun(p) == \E e \in Parts : part[p][e].at # "sent"

\* The page that saw the job ready, or was served of it, finds it so still.
PageReady(p) ==
    /\ phase[p] \in {"polling", "waiting"} => part[p] = Opened /\ shown[p] # "ready"
    /\ phase[p] \in {"loading", "rest"} /\ (Begun(p) \/ shown[p] = "ready")
           => (MayLoad(p) /\ status[p[2]] = "ready")
    /\ phase[p] = "rest" =>
           \/ shown[p] = "failed"
           \/ /\ shown[p] \in {"ready", "unasked"}
              /\ \A e \in Parts : part[p][e].at = "ok"
    /\ phase[p] = "refused" => shown[p] # "ready"

\* What it was served is what is stored.
PageServed(p) ==
    phase[p] \in {"loading", "rest"} =>
        LET d == part[p]["dashboard"]
            r == part[p]["data"]
        IN  /\ d.at = "ok" => d.count = dashboard[p[2]]
            /\ r.at # "sent" => r.total = rowCount[p[2]]
            /\ r.at = "ok" => \/ r.count = IF table[p[2]] < Sample THEN table[p[2]] ELSE Sample
                              \/ expired[p[2]]
                              \/ "body_lost" \in Faults

PagesInv == \A p \in Pages : PageReady(p) /\ PageServed(p)

-----------------------------------------------------------------------------
(***************************************************************************)
(* Types of the pages.                                                     *)
(***************************************************************************)

\* A page that stops holds nothing; the others do not notice.
LEMMA StopMeans ==
  ASSUME ReadsTypeOK, NEW p \in Pages, NEW how \in Stopped, Stop(p, how)
  PROVE  /\ phase'[p] = how /\ part'[p] = Opened /\ shown' = shown
         /\ \A q \in Pages : q # p => phase'[q] = phase[q] /\ part'[q] = part[q]
         /\ phase' \in [Pages -> Phases] /\ part' \in [Pages -> [Parts -> Request]]
<1>1. Opened \in [Parts -> Request]
  BY DEF Opened, Sent, Request
<1>. QED BY <1>1 DEF Stop, ReadsTypeOK, Phases

\* An answer is one of two; with the second the page is done.
LEMMA AnsweredMeans ==
  ASSUME ReadsTypeOK, NEW p \in Pages, NEW e \in Parts, NEW r \in Request, Answered(p, e, r),
         phase[p] = "loading"
  PROVE  /\ part'[p][e] = r /\ shown' = shown
         /\ \A f \in Parts : f # e => part'[p][f] = part[p][f]
         /\ phase'[p] \in {"loading", "rest"}
         /\ phase'[p] = "rest" => \A f \in Parts : part'[p][f].at = "ok"
         /\ \A q \in Pages : q # p => phase'[q] = phase[q] /\ part'[q] = part[q]
         /\ phase' \in [Pages -> Phases] /\ part' \in [Pages -> [Parts -> Request]]
<1>. USE DEF ReadsTypeOK
<1>1. part'[p] = [part[p] EXCEPT ![e] = r] /\ \A q \in Pages : q # p => part'[q] = part[q]
  BY DEF Answered
<1>2. part' \in [Pages -> [Parts -> Request]]
  BY DEF Answered
<1>3. part'[p][e] = r /\ \A f \in Parts : f # e => part'[p][f] = part[p][f]
  BY <1>1
<1>4. phase' = [phase EXCEPT ![p] =
                   IF r.at = "ok" /\ \A f \in Parts \ {e} : part[p][f].at = "ok"
                   THEN "rest" ELSE @]
  BY DEF Answered
<1>5. \/ /\ phase'[p] = "rest" /\ r.at = "ok"
         /\ \A f \in Parts \ {e} : part[p][f].at = "ok"
      \/ phase'[p] = "loading"
  BY <1>4
<1>. QED BY <1>2, <1>3, <1>1, <1>4, <1>5 DEF Answered, Phases, Stopped

\* What get_dashboard and get_data read is of the type the page expects.
LEMMA RowsType ==
  ASSUME TypeOK, ReadsTypeOK, NEW j \in Jobs, table[j] # Null
  PROVE  RowsOf(j) \in Nat /\ Page1(j) \in Nat
  BY DEF TypeOK, RowsOf, Page1

LEMMA PageTypes ==
  ASSUME TypeInv, ReadsTypeOK, NEW p \in Pages, PageStep(p) \/ Visit(p) \/ Ask(p)
  PROVE  ReadsTypeOK'
<1>0. p[2] \in Jobs
  BY DEF Pages
<1>. USE DEF ReadsTypeOK, Phases, Stopped
\* A page that stops, or has another answer, shows what it showed.
<1>1. ASSUME NEW how \in Stopped, Stop(p, how), expired' = expired PROVE ReadsTypeOK'
  BY <1>1, StopMeans
<1>2. ASSUME NEW e \in Parts, NEW r \in Request, Answered(p, e, r), phase[p] = "loading",
             expired' = expired
      PROVE  ReadsTypeOK'
  <2>1. \A q \in Pages : phase'[q] = "loading" => phase[q] = "loading"
    BY <1>2, AnsweredMeans
  <2>. QED BY <1>2, <2>1, AnsweredMeans
<1>3. CASE GetJob(p)
  <2>1. ASSUME shown' = [shown EXCEPT ![p] = status[p[2]]],
               phase' = [phase EXCEPT ![p] = CASE status[p[2]] = "ready"  -> "loading"
                                               [] status[p[2]] = "failed" -> "rest"
                                               [] OTHER                   -> "waiting"],
               part' = [part EXCEPT ![p] = Opened], expired' = expired
        PROVE  ReadsTypeOK'
    <3>1. /\ status[p[2]] \in Statuses
          /\ \/ status[p[2]] = "ready" /\ phase' = [phase EXCEPT ![p] = "loading"]
             \/ phase' \in {[phase EXCEPT ![p] = "rest"], [phase EXCEPT ![p] = "waiting"]}
      BY <1>0, <2>1 DEF TypeInv, TypeOK
    <3>2. Opened \in [Parts -> Request]
      BY DEF Opened, Sent, Request
    <3>. QED BY <2>1, <3>1, <3>2
  <2>. QED BY <1>1, <1>3, <2>1 DEF GetJob
<1>4. CASE Poll(p)
  BY <1>4 DEF Poll
<1>5. ASSUME NEW e \in Parts, LoadJob(p, e) PROVE ReadsTypeOK'
  <2>1. [at |-> "loaded", count |-> Null,
         total |-> IF e = "data" THEN rowCount[p[2]] ELSE Null] \in Request
    BY <1>0 DEF Request, TypeInv, TypeOK
  <2>. QED BY <1>1, <1>2, <1>5, <2>1 DEF LoadJob
<1>6. CASE ReadDashboard(p)
  <2>1. /\ "dashboard" \in Parts
        /\ [part[p]["dashboard"] EXCEPT !.at = "ok", !.count = dashboard[p[2]]] \in Request
    <3>1. /\ dashboard[p[2]] \in Nat \cup {Null} /\ "dashboard" \in Parts
          /\ part[p]["dashboard"] \in Request
      BY <1>0 DEF Parts, TypeInv, TypeOK
    <3>. QED BY <3>1 DEF Request
  <2>. QED BY <1>1, <1>2, <1>6, <2>1 DEF ReadDashboard
<1>7. CASE ReadRows(p)
  <2>1. ASSUME NEW n \in Nat, Answered(p, "data", [part[p]["data"] EXCEPT !.at = "ok", !.count = n]),
               phase[p] = "loading", expired' = expired
        PROVE  ReadsTypeOK'
    <3>1. "data" \in Parts /\ part[p]["data"] \in Request
      BY DEF Parts
    <3>2. [part[p]["data"] EXCEPT !.at = "ok", !.count = n] \in Request
      BY <3>1 DEF Request
    <3>. QED BY <1>2, <2>1, <3>1, <3>2
  <2>2. table[p[2]] # Null => Page1(p[2]) \in Nat
    BY <1>0, RowsType DEF TypeInv
  <2>. QED BY <1>1, <1>7, <2>1, <2>2 DEF ReadRows
<1>8. CASE Visit(p)
  <2>1. Opened \in [Parts -> Request]
    BY DEF Opened, Sent, Request
  <2>. QED BY <1>8, <2>1 DEF Visit
<1>9. CASE Ask(p)
  BY <1>9 DEF Ask
<1>. QED BY <1>3, <1>4, <1>5, <1>6, <1>7, <1>8, <1>9 DEF PageStep

LEMMA StepPageTypes == TypeInv /\ ReadsTypeOK /\ [ReadsNext]_readVars => ReadsTypeOK'
<1>. SUFFICES ASSUME TypeInv, ReadsTypeOK, [ReadsNext]_readVars PROVE ReadsTypeOK'
  OBVIOUS
<1>1. CASE UNCHANGED readVars
  BY <1>1 DEF readVars, pageVars, ReadsTypeOK
<1>2. CASE WorkerStep \/ \E j \in Jobs : Expire(j)
  BY <1>2 DEF WorkerStep, Expire, pageVars, ReadsTypeOK
<1>. QED BY <1>1, <1>2, PageTypes DEF ReadsNext

\* A step of the whole is one of the worker, or leaves its variables alone.
LEMMA StepsBeside == [ReadsNext]_readVars => [Next]_vars
  BY DEF ReadsNext, WorkerStep, Expire, PageStep, GetJob, Poll, LoadJob, ReadDashboard, ReadRows,
         Visit, Ask, readVars

LEMMA InitReads == ReadsInit => TypeInv /\ ReadsTypeOK
<1>1. Opened \in [Parts -> Request]
  BY DEF Opened, Sent, Request
<1>. QED BY <1>1, InitType DEF ReadsInit, ReadsTypeOK, Phases

\* Every page of every reachable state is well typed: it never loads a job it
\* did not see ready, unless it did not ask.
THEOREM PagesTypeCorrect == ReadsSpec => []ReadsTypeOK
BY InitReads, StepType, StepPageTypes, StepsBeside, PTL DEF ReadsSpec

-----------------------------------------------------------------------------
(***************************************************************************)
(* What the pages hold.                                                    *)
(***************************************************************************)

\* A page that does not move keeps what it has while what it read is kept.
LEMMA PageFrame ==
  ASSUME NEW p \in Pages, PageReady(p), PageServed(p),
         phase'[p] = phase[p], part'[p] = part[p], shown'[p] = shown[p],
         Kept(p[2]), status[p[2]] = "ready" /\ expired[p[2]] => expired'[p[2]]
  PROVE  PageReady(p)' /\ PageServed(p)'
<1>1. PageReady(p)'
  BY DEF PageReady, Begun, MayLoad, Kept
<1>2. PageServed(p)'
  <2>1. CASE phase[p] \in {"loading", "rest"} /\ Begun(p)
    <3>1. status[p[2]] = "ready"
      BY <2>1 DEF PageReady
    <3>. QED BY <3>1 DEF PageServed, Kept
  <2>2. CASE ~(phase[p] \in {"loading", "rest"} /\ Begun(p))
    BY <2>2 DEF PageServed, Begun, Parts
  <2>. QED BY <2>1, <2>2
<1>. QED BY <1>1, <1>2

LEMMA WorkerPages ==
  ASSUME TypeInv, SerialInv, FinalInv, ReadsTypeOK, PagesInv, Faults \subseteq {"body_lost"},
         WorkerStep \/ \E j \in Jobs : Expire(j)
  PROVE  PagesInv'
<1>1. [Next]_vars
  BY DEF WorkerStep, Expire
<1>2. ASSUME NEW p \in Pages PROVE PageReady(p)' /\ PageServed(p)'
  <2>1. p[2] \in Jobs
    BY DEF Pages
  <2>2. Kept(p[2])
    BY <1>1, <2>1, StepFinal
  <2>3. status[p[2]] = "ready" /\ expired[p[2]] => expired'[p[2]]
    <3>1. CASE WorkerStep
      BY <2>1, <2>2, <3>1 DEF WorkerStep, Kept
    <3>2. ASSUME NEW j \in Jobs, Expire(j), expired[p[2]] PROVE expired'[p[2]]
      BY <2>1, <3>2, Zenon DEF Expire, ReadsTypeOK
    <3>. QED BY <3>1, <3>2
  <2>4. phase'[p] = phase[p] /\ part'[p] = part[p] /\ shown'[p] = shown[p]
    BY DEF WorkerStep, Expire, pageVars
  <2>. QED BY <2>2, <2>3, <2>4, PageFrame DEF PagesInv
<1>. QED BY <1>2 DEF PagesInv

\* The page that moves is the only one to look at.
LEMMA OnePage ==
  ASSUME PagesInv, NEW p \in Pages, UNCHANGED <<vars, expired>>,
         \A q \in Pages : q # p => phase'[q] = phase[q] /\ part'[q] = part[q] /\ shown'[q] = shown[q],
         PageReady(p)', PageServed(p)'
  PROVE  PagesInv'
<1>1. ASSUME NEW q \in Pages, q # p PROVE PageReady(q)' /\ PageServed(q)'
  <2>1. Kept(q[2]) /\ expired'[q[2]] = expired[q[2]]
    BY DEF vars, workerVars, jobVars, Kept
  <2>. QED BY <1>1, <2>1, PageFrame DEF PagesInv
<1>. QED BY <1>1 DEF PagesInv

\* A page that stops shows nothing; refused it is only of a job it did not see ready.
LEMMA StopPages ==
  ASSUME ReadsTypeOK, PagesInv, NEW p \in Pages, UNCHANGED <<vars, expired>>,
         NEW how \in {"refused", "failed"}, Stop(p, how),
         how = "refused" => shown[p] # "ready"
  PROVE  PagesInv'
<1>1. /\ phase'[p] = how /\ part'[p] = Opened /\ shown' = shown
      /\ \A q \in Pages : q # p => phase'[q] = phase[q] /\ part'[q] = part[q]
  BY StopMeans DEF Stopped
<1>2. PageReady(p)' /\ PageServed(p)'
  BY <1>1 DEF PageReady, PageServed
<1>. QED BY <1>1, <1>2, OnePage

\* An answer the page gets is about a ready job, and says what is stored of it.
LEMMA AnswerPages ==
  ASSUME ReadsTypeOK, PagesInv, NEW p \in Pages, UNCHANGED <<vars, expired>>,
         NEW e \in Parts, NEW r \in Request, Answered(p, e, r),
         phase[p] = "loading", MayLoad(p), status[p[2]] = "ready",
         e = "dashboard" /\ r.at = "ok" => r.count = dashboard[p[2]],
         e = "data" /\ r.at # "sent" => r.total = rowCount[p[2]],
         e = "data" /\ r.at = "ok" =>
             \/ r.count = IF table[p[2]] < Sample THEN table[p[2]] ELSE Sample
             \/ expired[p[2]]
             \/ "body_lost" \in Faults
  PROVE  PagesInv'
<1>1. /\ part'[p][e] = r /\ shown' = shown
      /\ \A f \in Parts : f # e => part'[p][f] = part[p][f]
      /\ phase'[p] \in {"loading", "rest"}
      /\ phase'[p] = "rest" => \A f \in Parts : part'[p][f].at = "ok"
      /\ \A q \in Pages : q # p => phase'[q] = phase[q] /\ part'[q] = part[q]
  BY AnsweredMeans
<1>2. shown[p] \in {"ready", "unasked"}
  BY DEF ReadsTypeOK
<1>3. UNCHANGED <<status, table, rowCount, dashboard>>
  BY DEF vars, workerVars, jobVars
<1>4. PageReady(p)'
  BY <1>1, <1>2, <1>3 DEF PageReady, MayLoad
<1>5. PageServed(p)'
  <2>1. PageServed(p)
    BY DEF PagesInv
  <2>2. CASE e = "dashboard"
    <3>1. part'[p]["dashboard"] = r /\ part'[p]["data"] = part[p]["data"]
      BY <1>1, <2>2 DEF Parts
    <3>. QED BY <1>3, <2>1, <2>2, <3>1 DEF PageServed
  <2>3. CASE e = "data"
    <3>1. part'[p]["data"] = r /\ part'[p]["dashboard"] = part[p]["dashboard"]
      BY <1>1, <2>3 DEF Parts
    <3>. QED BY <1>3, <2>1, <2>3, <3>1 DEF PageServed
  <2>. QED BY <2>2, <2>3 DEF Parts
<1>. QED BY <1>1, <1>4, <1>5, OnePage

LEMMA PagePages ==
  ASSUME TypeInv, DashboardInv, FinalInv, ReadsTypeOK, PagesInv,
         NEW p \in Pages, PageStep(p) \/ Visit(p) \/ Ask(p)
  PROVE  PagesInv'
<1>0. p[2] \in Jobs /\ PageReady(p) /\ PageServed(p)
  BY DEF Pages, PagesInv
<1>1. CASE GetJob(p)
  <2>1. UNCHANGED <<vars, expired>> /\ shown[p] # "ready"
    BY <1>0, <1>1 DEF GetJob, PageReady
  <2>2. CASE /\ MayLoad(p)
             /\ shown' = [shown EXCEPT ![p] = status[p[2]]]
             /\ phase' = [phase EXCEPT ![p] = CASE status[p[2]] = "ready"  -> "loading"
                                                [] status[p[2]] = "failed" -> "rest"
                                                [] OTHER                   -> "waiting"]
             /\ part' = [part EXCEPT ![p] = Opened]
    <3>1. /\ shown'[p] = status[p[2]] /\ part'[p] = Opened
          /\ \/ status[p[2]] = "ready" /\ phase'[p] = "loading"
             \/ status[p[2]] = "failed" /\ phase'[p] = "rest"
             \/ status[p[2]] \notin {"ready", "failed"} /\ phase'[p] = "waiting"
          /\ \A q \in Pages : q # p => phase'[q] = phase[q] /\ part'[q] = part[q] /\ shown'[q] = shown[q]
      BY <2>2 DEF ReadsTypeOK
    <3>2. UNCHANGED <<status, table, rowCount, dashboard>>
      BY <2>1 DEF vars, workerVars, jobVars
    <3>3. \A e \in Parts : Opened[e].at = "sent"
      BY DEF Opened, Sent
    <3>4. ~Begun(p)'
      BY <3>1, <3>3 DEF Begun
    <3>5. PageReady(p)'
      BY <2>2, <3>1, <3>2, <3>4 DEF PageReady, MayLoad
    <3>6. PageServed(p)'
      BY <3>1, <3>3 DEF PageServed, Parts
    <3>. QED BY <2>1, <3>1, <3>5, <3>6, OnePage
  <2>. QED BY <1>1, <2>1, <2>2, StopPages DEF GetJob
<1>2. CASE Poll(p) \/ Visit(p)
  <2>1. /\ UNCHANGED <<vars, expired>>
        /\ \A q \in Pages : q # p => phase'[q] = phase[q] /\ part'[q] = part[q] /\ shown'[q] = shown[q]
        /\ phase'[p] = "polling" /\ part'[p] = Opened /\ shown'[p] # "ready"
    BY <1>0, <1>2 DEF Poll, Visit, ReadsTypeOK, PageReady
  <2>2. PageReady(p)' /\ PageServed(p)'
    BY <2>1 DEF PageReady, PageServed
  <2>. QED BY <2>1, <2>2, OnePage
<1>3. CASE Ask(p)
  <2>1. /\ UNCHANGED <<vars, expired>>
        /\ \A q \in Pages : q # p => phase'[q] = phase[q] /\ part'[q] = part[q] /\ shown'[q] = shown[q]
        /\ phase'[p] = "loading" /\ part'[p] = Opened /\ shown'[p] = "unasked"
    BY <1>0, <1>3 DEF Ask, ReadsTypeOK, PageReady
  <2>2. \A e \in Parts : Opened[e].at = "sent"
    BY DEF Opened, Sent
  <2>3. PageReady(p)' /\ PageServed(p)'
    BY <2>1, <2>2 DEF PageReady, PageServed, Begun, Parts
  <2>. QED BY <2>1, <2>3, OnePage
<1>4. ASSUME NEW e \in Parts, LoadJob(p, e) PROVE PagesInv'
  <2>1. CASE ~LoadedReady(p) /\ Stop(p, "refused")
    <3>1. shown[p] # "ready"
      BY <1>0, <1>4, <2>1 DEF LoadJob, LoadedReady, PageReady
    <3>. QED BY <1>4, <2>1, <3>1, StopPages DEF LoadJob
  <2>2. CASE /\ LoadedReady(p)
             /\ Answered(p, e, [at |-> "loaded", count |-> Null,
                                total |-> IF e = "data" THEN rowCount[p[2]] ELSE Null])
    <3>1. [at |-> "loaded", count |-> Null,
           total |-> IF e = "data" THEN rowCount[p[2]] ELSE Null] \in Request
      BY <1>0 DEF Request, TypeInv, TypeOK
    <3>. QED BY <1>4, <2>2, <3>1, AnswerPages DEF LoadJob, LoadedReady
  <2>. QED BY <1>4, <2>1, <2>2, StopPages DEF LoadJob
\* What was begun is of a ready job, which has its dashboard and its table.
<1>5. ASSUME NEW e \in Parts, phase[p] = "loading", part[p][e].at = "loaded"
      PROVE  MayLoad(p) /\ status[p[2]] = "ready" /\ dashboard[p[2]] # Null /\ table[p[2]] # Null
  <2>1. MayLoad(p) /\ status[p[2]] = "ready"
    BY <1>0, <1>5 DEF PageReady, Begun
  <2>. QED BY <1>0, <2>1 DEF DashboardInv, ReadyHasDashboard, FinalInv
<1>6. CASE ReadDashboard(p)
  <2>1. "dashboard" \in Parts /\ dashboard[p[2]] \in Nat \cup {Null}
    BY <1>0 DEF Parts, TypeInv, TypeOK
  <2>2. /\ UNCHANGED <<vars, expired>> /\ phase[p] = "loading"
        /\ MayLoad(p) /\ status[p[2]] = "ready" /\ dashboard[p[2]] # Null
    BY <1>5, <1>6, <2>1 DEF ReadDashboard
  <2>3. CASE Stop(p, "failed")
    BY <2>2, <2>3, StopPages
  <2>4. CASE Answered(p, "dashboard",
                 [part[p]["dashboard"] EXCEPT !.at = "ok", !.count = dashboard[p[2]]])
    <3>1. PICK r : r = [part[p]["dashboard"] EXCEPT !.at = "ok", !.count = dashboard[p[2]]]
      OBVIOUS
    <3>2. part[p]["dashboard"] \in Request
      BY <2>1 DEF ReadsTypeOK
    <3>3. r \in Request /\ r.count = dashboard[p[2]]
      BY <2>1, <3>1, <3>2 DEF Request
    <3>. QED BY <2>1, <2>2, <2>4, <3>1, <3>3, AnswerPages
  <2>. QED BY <1>6, <2>2, <2>3, <2>4 DEF ReadDashboard
<1>7. CASE ReadRows(p)
  <2>1. "data" \in Parts /\ part[p]["data"].at = "loaded"
    BY <1>7 DEF Parts, ReadRows
  <2>2. /\ UNCHANGED <<vars, expired>> /\ phase[p] = "loading"
        /\ MayLoad(p) /\ status[p[2]] = "ready" /\ table[p[2]] # Null
    BY <1>5, <1>7, <2>1 DEF ReadRows
  <2>3. CASE Stop(p, "failed")
    BY <2>2, <2>3, StopPages
  <2>4. ASSUME NEW n \in {Page1(p[2])} \cup {x \in {0} : "body_lost" \in Faults},
               Answered(p, "data", [part[p]["data"] EXCEPT !.at = "ok", !.count = n])
        PROVE  PagesInv'
    <3>1. n \in Nat
      BY <1>0, <2>2, RowsType DEF TypeInv
    <3>2. n \in Nat \cup {Null} /\ part[p]["data"] \in Request
      BY <2>1, <3>1 DEF ReadsTypeOK
    <3>3. PICK r : r = [part[p]["data"] EXCEPT !.at = "ok", !.count = n]
      OBVIOUS
    <3>4. r \in Request /\ r.count = n /\ r.total = part[p]["data"].total
      BY <3>2, <3>3 DEF Request
    <3>5. r.total = rowCount[p[2]]
      BY <1>0, <2>1, <2>2, <3>4 DEF PageServed
    <3>6. \/ n = IF table[p[2]] < Sample THEN table[p[2]] ELSE Sample
          \/ expired[p[2]]
          \/ "body_lost" \in Faults
      BY DEF Page1, RowsOf
    <3>. QED BY <2>1, <2>2, <2>4, <3>3, <3>4, <3>5, <3>6, AnswerPages
  <2>. QED BY <1>7, <2>2, <2>3, <2>4 DEF ReadRows
<1>. QED BY <1>1, <1>2, <1>3, <1>4, <1>6, <1>7 DEF PageStep

-----------------------------------------------------------------------------
(***************************************************************************)
(* What a page shows.                                                      *)
(***************************************************************************)
ReadsInv ==
    /\ TypeInv /\ DashboardInv /\ SerialInv /\ FinalInv
    /\ ReadsTypeOK /\ PagesInv

LEMMA InitReadsInv ==
  ASSUME Serial
  PROVE  ReadsInit => ReadsInv
<1>. SUFFICES ASSUME ReadsInit PROVE ReadsInv
  OBVIOUS
<1>1. Init
  BY DEF ReadsInit
<1>2. DashboardInv /\ FinalInv
  BY <1>1 DEF Init, DashboardInv, ReadyHasDashboard, FinalInv, FinalTask, Pipeline
<1>3. PagesInv
  BY DEF ReadsInit, PagesInv, PageReady, PageServed
<1>. QED BY <1>1, <1>2, <1>3, InitReads, InitSerial DEF ReadsInv

LEMMA StepReads ==
  ASSUME Faults \subseteq {"body_lost"}
  PROVE  ReadsInv /\ [ReadsNext]_readVars => ReadsInv'
<1>. SUFFICES ASSUME ReadsInv, [ReadsNext]_readVars PROVE ReadsInv'
  OBVIOUS
<1>. USE DEF ReadsInv
<1>1. [Next]_vars
  BY StepsBeside
<1>2. TypeInv' /\ DashboardInv' /\ SerialInv' /\ FinalInv' /\ ReadsTypeOK'
  BY <1>1, StepType, StepDashboard, StepSerial, StepFinal, StepPageTypes
<1>3. PagesInv'
  <2>1. CASE UNCHANGED readVars
    <3>1. \A p \in Pages : PageReady(p)' /\ PageServed(p)'
      BY <2>1, PageFrame DEF readVars, vars, workerVars, jobVars, pageVars, PagesInv, Kept
    <3>. QED BY <3>1 DEF PagesInv
  <2>2. CASE WorkerStep \/ \E j \in Jobs : Expire(j)
    BY <2>2, WorkerPages
  <2>3. CASE \E p \in Pages : PageStep(p) \/ Visit(p) \/ Ask(p)
    BY <2>3, PagePages
  <2>. QED BY <2>1, <2>2, <2>3 DEF ReadsNext
<1>. QED BY <1>2, <1>3

\* ingest.rs:84: a page that saw its job ready is never told that it is not, nor
\* that it has no dashboard or no table.
THEOREM ReadyPagesRender ==
  ASSUME Serial, Faults \subseteq {"body_lost"}
  PROVE  ReadsSpec => []ReadyCanRender
<1>1. ReadsInv => ReadyCanRender
  BY DEF ReadsInv, PagesInv, PageReady, ReadyCanRender
<1>. QED BY InitReadsInv, StepReads, <1>1, PTL DEF ReadsSpec

\* page.tsx:66: a page that stopped polling has seen the job over: what it saw
\* failed, or it is ready for good and everything of it is on the page.
THEOREM PagesStopForGood ==
  ASSUME Serial, Faults \subseteq {"body_lost"}
  PROVE  ReadsSpec => []NothingMoreChanges
<1>1. ReadsInv => NothingMoreChanges
  <2>. SUFFICES ASSUME ReadsInv, NEW p \in Pages, phase[p] = "rest", shown[p] # "failed"
                PROVE  /\ shown[p] \in {"ready", "unasked"}
                       /\ status[p[2]] = "ready"
                       /\ \A e \in Parts : part[p][e].at = "ok"
    BY DEF NothingMoreChanges
  <2>1. PageReady(p)
    BY DEF ReadsInv, PagesInv
  <2>2. shown[p] \in {"ready", "unasked"} /\ \A e \in Parts : part[p][e].at = "ok"
    BY <2>1 DEF PageReady
  <2>3. Begun(p)
    BY <2>2 DEF Begun, Parts
  <2>. QED BY <2>1, <2>2, <2>3 DEF PageReady
<1>. QED BY InitReadsInv, StepReads, <1>1, PTL DEF ReadsSpec

\* handlers.rs:115-124, 141-146: the status is read before an await and the data
\* after it, and what is served agrees with the file all the same.
THEOREM ServedPagesAreExact ==
  ASSUME Serial, Faults = {}
  PROVE  ReadsSpec => []ServedIsExact
<1>0. Faults \subseteq {"body_lost"} /\ "body_lost" \notin Faults
  OBVIOUS
<1>1. ReadsInit => ExactInv
  BY DEF ReadsInit, Init, ExactInv, ExactJob, ExactTask, Pipeline
<1>2. ReadsInv /\ ExactInv /\ [ReadsNext]_readVars => ExactInv'
  <2>1. SerialInv => NoOverlap
    BY DEF SerialInv, OneTask, NoOverlap, Active, Pipeline
  <2>. QED BY <1>0, <2>1, StepExact, StepsBeside DEF ReadsInv
<1>3. ReadsInv /\ ExactInv => ServedIsExact
  <2>. SUFFICES ASSUME ReadsInv, ExactInv, NEW p \in Pages, phase[p] \in {"loading", "rest"}
                PROVE  LET d == part[p]["dashboard"]
                           r == part[p]["data"]
                       IN  /\ d.at = "ok" => d.count = SourceRows
                           /\ r.at # "sent" => r.total = SourceRows
                           /\ r.at = "ok" => \/ r.count = SourceRows
                                             \/ r.count = Sample /\ r.total > Sample
                                             \/ expired[p[2]]
    BY DEF ServedIsExact
  <2>1. PageReady(p) /\ PageServed(p) /\ ExactJob(p[2])
    BY DEF ReadsInv, PagesInv, ExactInv, Pages
  <2>2. part[p]["dashboard"].at # "sent" \/ part[p]["data"].at # "sent" => status[p[2]] = "ready"
    BY <2>1 DEF PageReady, Begun, Parts
  <2>. QED BY <1>0, <2>1, <2>2 DEF PageServed, ExactJob
<1>4. ReadsInv /\ [ReadsNext]_readVars => ReadsInv'
  BY <1>0, StepReads
<1>. QED BY InitReadsInv, <1>1, <1>2, <1>3, <1>4, PTL DEF ReadsSpec
=============================================================================
