------------------------------- MODULE Reads --------------------------------
(***************************************************************************)
(* Reading a job while the worker works on it: GET /jobs/{id},             *)
(* /jobs/{id}/dashboard and /jobs/{id}/data of the API, as the job page of *)
(* the browser calls them (app/jobs/[id]/page.tsx).                        *)
(*                                                                         *)
(* A handler reads the job's row, awaits, and reads a second store; the    *)
(* page asks for the status, and once that is ready for the two others at  *)
(* the same time; another client of the API asks for them unasked.  The    *)
(* steps of Worker may fall between any two of these reads.                *)
(***************************************************************************)
EXTENDS Worker

CONSTANTS
    Viewers,    \* who has a page open on each job
    Sample      \* CHART_SAMPLE: the rows the page asks for

ASSUME ReadsAssumption ==
    /\ Viewers \subseteq {"owner", "admin", "stranger"}
    /\ Sample \in Nat \ {0}

VARIABLES
    expired,    \* whether the table's TTL has removed its rows
    phase,      \* what each page is doing
    shown,      \* the status each page shows
    part        \* the two requests of each page for a ready job

pageVars == <<phase, shown, part>>

readVars == <<vars, expired, pageVars>>

Pages == Viewers \X Jobs

\* A page stops in one of three ways: with what it came for, with an error the
\* API gave it for this job, or because a call failed on its way.
Stopped == {"rest", "refused", "failed"}

Phases == {"polling", "waiting", "loading"} \cup Stopped

Request == [at : {"sent", "loaded", "ok"}, count : Nat \cup {Null}, total : Nat \cup {Null}]

Parts == {"dashboard", "data"}

Sent == [at |-> "sent", count |-> Null, total |-> Null]

Opened == [e \in Parts |-> Sent]

ReadsTypeOK ==
    /\ expired \in [Jobs -> BOOLEAN]
    /\ phase \in [Pages -> Phases]
    /\ shown \in [Pages -> Statuses \cup {"none", "unasked"}]
    /\ part \in [Pages -> [Parts -> Request]]
    /\ \A p \in Pages : phase[p] = "loading" => shown[p] \in {"ready", "unasked"}

ReadsInit ==
    /\ Init
    /\ expired = [j \in Jobs |-> FALSE]
    /\ phase = [p \in Pages |-> "polling"]
    /\ shown = [p \in Pages |-> "none"]
    /\ part = [p \in Pages |-> Opened]

-----------------------------------------------------------------------------
(***************************************************************************)
(* The handlers.                                                           *)
(***************************************************************************)

\* Role::satisfies: every capability of a user is one of an admin.
Satisfies(v, required) == required = "user" \/ v = "admin"

\* load_job_for_user: a job of somebody else is answered 404.
MayLoad(p) == p[1] = "owner" \/ Satisfies(p[1], "admin")

\* Mutant: the data of a job is looked up whatever its status is.
LoadedAnyway(p) == MayLoad(p)

\* The guard of get_dashboard and get_data.
LoadedReady(p) == MayLoad(p) /\ status[p[2]] = "ready"

\* Rows a SELECT finds in the job's table.
RowsOf(j) == IF expired[j] THEN 0 ELSE table[j]

Page1(j) == IF RowsOf(j) < Sample THEN RowsOf(j) ELSE Sample

Stop(p, how) ==
    /\ phase' = [phase EXCEPT ![p] = how]
    /\ part' = [part EXCEPT ![p] = Opened]
    /\ UNCHANGED shown

\* Promise.all: the page is done when the last of its two answers is in.
Answered(p, e, r) ==
    /\ part' = [part EXCEPT ![p][e] = r]
    /\ phase' = [phase EXCEPT ![p] =
                    IF r.at = "ok" /\ \A f \in Parts \ {e} : part[p][f].at = "ok"
                    THEN "rest" ELSE @]
    /\ UNCHANGED shown

\* Mutant: the status of the answer is not shown.
GetJobUnshown(p) ==
    /\ phase[p] = "polling"
    /\ \/ Stop(p, "failed")
       \/ ~MayLoad(p) /\ Stop(p, "refused")
       \/ /\ MayLoad(p)
          /\ phase' = [phase EXCEPT ![p] = CASE status[p[2]] = "ready"  -> "loading"
                                             [] status[p[2]] = "failed" -> "rest"
                                             [] OTHER                   -> "waiting"]
          /\ UNCHANGED <<shown, part>>
    /\ UNCHANGED <<vars, expired>>

\* get_job, and what tick does with its answer.
GetJob(p) ==
    /\ phase[p] = "polling"
    /\ \/ Stop(p, "failed")
       \/ ~MayLoad(p) /\ Stop(p, "refused")
       \/ /\ MayLoad(p)
          /\ shown' = [shown EXCEPT ![p] = status[p[2]]]
          /\ phase' = [phase EXCEPT ![p] = CASE status[p[2]] = "ready"  -> "loading"
                                             [] status[p[2]] = "failed" -> "rest"
                                             [] OTHER                   -> "waiting"]
          /\ part' = [part EXCEPT ![p] = Opened]
    /\ UNCHANGED <<vars, expired>>

\* A client that asks for dashboard and data and not for the status.
Ask(p) ==
    /\ phase[p] = "polling"
    /\ phase' = [phase EXCEPT ![p] = "loading"]
    /\ shown' = [shown EXCEPT ![p] = "unasked"]
    /\ UNCHANGED <<vars, expired, part>>

\* The first read of get_dashboard and get_data, which keeps the row count.
LoadJob(p, e) ==
    /\ phase[p] = "loading"
    /\ part[p][e].at = "sent"
    /\ \/ Stop(p, "failed")
       \/ ~LoadedReady(p) /\ Stop(p, "refused")
       \/ /\ LoadedReady(p)
          /\ Answered(p, e, [at |-> "loaded", count |-> Null,
                             total |-> IF e = "data" THEN rowCount[p[2]] ELSE Null])
    /\ UNCHANGED <<vars, expired>>

\* get_dashboard: SELECT config.
ReadDashboard(p) ==
    /\ phase[p] = "loading"
    /\ part[p]["dashboard"].at = "loaded"
    /\ \/ Stop(p, "failed")
       \/ dashboard[p[2]] = Null /\ Stop(p, "refused")
       \/ /\ dashboard[p[2]] # Null
          /\ Answered(p, "dashboard",
                 [part[p]["dashboard"] EXCEPT !.at = "ok", !.count = dashboard[p[2]]])
    /\ UNCHANGED <<vars, expired>>

\* get_data: the page of rows.  A body that cannot be read has no row in it.
ReadRows(p) ==
    /\ phase[p] = "loading"
    /\ part[p]["data"].at = "loaded"
    /\ \/ Stop(p, "failed")
       \/ table[p[2]] = Null /\ Stop(p, "refused")
       \/ /\ table[p[2]] # Null
          /\ \E n \in {Page1(p[2])} \cup {x \in {0} : "body_lost" \in Faults} :
                 Answered(p, "data", [part[p]["data"] EXCEPT !.at = "ok", !.count = n])
    /\ UNCHANGED <<vars, expired>>

\* Mutant: the page polls again only while the job is queued.
PollQueued(p) ==
    /\ phase[p] = "waiting"
    /\ shown[p] = "queued"
    /\ phase' = [phase EXCEPT ![p] = "polling"]
    /\ UNCHANGED <<vars, expired, shown, part>>

\* The timer of the next poll.
Poll(p) ==
    /\ phase[p] = "waiting"
    /\ phase' = [phase EXCEPT ![p] = "polling"]
    /\ UNCHANGED <<vars, expired, shown, part>>

\* A new visit of a page that had stopped.
Visit(p) ==
    /\ phase[p] \in Stopped
    /\ phase' = [phase EXCEPT ![p] = "polling"]
    /\ shown' = [shown EXCEPT ![p] = "none"]
    /\ part' = [part EXCEPT ![p] = Opened]
    /\ UNCHANGED <<vars, expired>>

-----------------------------------------------------------------------------
\* The TTL of a table outlasts the job's processing by days.
Expire(j) ==
    /\ status[j] = "ready"
    /\ ~expired[j]
    /\ expired' = [expired EXCEPT ![j] = TRUE]
    /\ UNCHANGED <<vars, pageVars>>

\* A step of the worker; a table made anew holds no expired row.
WorkerStep ==
    /\ Next
    /\ expired' = [j \in Jobs |-> expired[j] /\ table'[j] = table[j]]
    /\ UNCHANGED pageVars

PageStep(p) ==
    \/ GetJob(p) \/ Poll(p)
    \/ \E e \in Parts : LoadJob(p, e)
    \/ ReadDashboard(p) \/ ReadRows(p)

ReadsNext ==
    \/ WorkerStep
    \/ \E j \in Jobs : Expire(j)
    \/ \E p \in Pages : PageStep(p) \/ Visit(p) \/ Ask(p)

\* A poll is answered, fails or times out, and its timer fires.
ReadsFairness == \A p \in Pages : WF_readVars(PageStep(p))

ReadsSpec == ReadsInit /\ [][ReadsNext]_readVars

FairReadsSpec == ReadsSpec /\ ReadsFairness

-----------------------------------------------------------------------------
(***************************************************************************)
(* Properties.                                                             *)
(***************************************************************************)

\* What a page shows of a ready job is what the file held, although the status
\* was read before an await and the data after it (handlers.rs:115-124,
\* 141-146): the dashboard's count, the total, and the rows while they last.
ServedIsExact ==
    \A p \in Pages : phase[p] \in {"loading", "rest"} =>
        LET d == part[p]["dashboard"]
            r == part[p]["data"]
        IN  /\ d.at = "ok" => d.count = SourceRows
            /\ r.at # "sent" => r.total = SourceRows
            /\ r.at = "ok" => \/ r.count = SourceRows
                              \/ r.count = Sample /\ r.total > Sample
                              \/ expired[p[2]]

\* ingest.rs:84: a page that saw the job ready finds it ready again, with its
\* dashboard and its table: no window with nothing to render.
ReadyCanRender ==
    \A p \in Pages : phase[p] = "refused" => shown[p] # "ready"

\* page.tsx:66: a page that stopped has seen the job over; if it saw it ready
\* the job still is, and everything of it is on the page.
NothingMoreChanges ==
    \A p \in Pages : phase[p] = "rest" =>
        \/ shown[p] = "failed"
        \/ /\ shown[p] \in {"ready", "unasked"}
           /\ status[p[2]] = "ready"
           /\ \A e \in Parts : part[p][e].at = "ok"

\* page.tsx:42: a page follows its job until it settles, then stops.
FollowsUntilSettled ==
    \A p \in Pages : <>[]IsTerminal(status[p[2]]) => []<>(phase[p] \in Stopped)
=============================================================================
