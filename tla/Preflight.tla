----------------------------- MODULE Preflight ------------------------------
(***************************************************************************)
(* validate_source_url of crates/api/src/jobs/handlers.rs: what POST /jobs *)
(* asks the server of a URL before it stores the job.                      *)
(***************************************************************************)
EXTENDS Naturals

VARIABLES
    url,        \* what the URL names and how its server behaves
    step,       \* the next step of the check
    response,   \* the answer the check goes by
    verdict     \* "accepted", or why the URL was refused

preflightVars == <<url, step, response, verdict>>

Steps == {"parse", "resolve", "head", "get", "judge", "end"}

\* The reasons of a refusal.
Refusals == {"scheme", "unresolved", "address", "unreachable", "status", "large", "page"}

\* The status of a request that got no answer.
Dropped == 0

\* The addresses of the host, the answers to HEAD and GET, and the file.  A
\* server may reject HEAD, drop the connection, ignore a range or not tell a length.
Urls == [http   : BOOLEAN,
         addrs  : SUBSET {"public", "private"},
         head   : {200, 405, Dropped},
         get    : {200, 206, 404, Dropped},
         large  : BOOLEAN,
         tells  : BOOLEAN,
         type   : {"data", "page", "none"}]

NoResponse == [status |-> 0, large |-> FALSE, type |-> "none"]

\* What an answer says of the file: a range of one byte has the length 1.
Reply(status) ==
    [status |-> status,
     large  |-> url.large /\ url.tells /\ status # 206,
     type   |-> url.type]

PreflightTypeOK ==
    /\ url \in Urls
    /\ step \in Steps
    /\ response.status \in {0, 200, 206, 404, 405}
    /\ verdict \in {"none", "accepted"} \cup Refusals
    /\ step = "end" <=> verdict # "none"
    /\ step = "judge" => response # NoResponse

PreflightInit ==
    /\ url \in Urls
    /\ step = "parse"
    /\ response = NoResponse
    /\ verdict = "none"

-----------------------------------------------------------------------------
Decide(v) == step' = "end" /\ verdict' = v

Proceed(next) == step' = next /\ UNCHANGED verdict

Parse ==
    /\ step = "parse"
    /\ IF url.http THEN Proceed("resolve") ELSE Decide("scheme")
    /\ UNCHANGED <<url, response>>

\* lookup_host: every address must be one is_blocked_ip lets pass.
Resolve ==
    /\ step = "resolve"
    /\ CASE "private" \in url.addrs -> Decide("address")
         [] url.addrs = {}          -> Decide("unresolved")
         [] OTHER                   -> Proceed("head")
    /\ UNCHANGED <<url, response>>

Got(status) ==
    /\ response' = Reply(status)
    /\ Proceed("judge")

\* Mutant: the server is always asked for one byte.
HeadSkipped ==
    /\ step = "head"
    /\ Proceed("get")
    /\ UNCHANGED <<url, response>>

\* HEAD; only a request that got no answer at all is tried as a GET.
TryHead ==
    /\ step = "head"
    /\ IF url.head = Dropped THEN Proceed("get") /\ UNCHANGED response
                               ELSE Got(url.head)
    /\ UNCHANGED url

\* A GET for one byte.
TryGet ==
    /\ step = "get"
    /\ IF url.get = Dropped THEN Decide("unreachable") /\ UNCHANGED response
                              ELSE Got(url.get)
    /\ UNCHANGED url

\* Mutant: only the status 200 is a success.
JudgeStrictly ==
    /\ step = "judge"
    /\ Decide(CASE response.status # 200     -> "status"
                [] response.large            -> "large"
                [] response.type = "page"    -> "page"
                [] OTHER                     -> "accepted")
    /\ UNCHANGED <<url, response>>

Judge ==
    /\ step = "judge"
    /\ Decide(IF response.status \notin {200, 206} THEN "status"
              ELSE IF response.large THEN "large"
              ELSE IF response.type = "page" THEN "page" ELSE "accepted")
    /\ UNCHANGED <<url, response>>

PreflightNext == Parse \/ Resolve \/ TryHead \/ TryGet \/ Judge

-----------------------------------------------------------------------------
\* handlers.rs:285, 326: a data file of a public server that answers a GET is
\* refused only for its size or its type, or because its server answers HEAD
\* with an error, which the check takes for the file's.
RefusedForCause ==
    verdict \in Refusals =>
        \/ ~url.http \/ url.addrs # {"public"}
        \/ url.large /\ url.tells
        \/ url.type = "page"
        \/ url.get \in {404, Dropped}
        \/ url.head = 405

\* handlers.rs:345: an accepted file whose server tells its length keeps the
\* limit, unless HEAD was dropped and the length told is that of one byte.
AcceptedFits ==
    verdict = "accepted" =>
        \/ ~url.large \/ ~url.tells
        \/ url.head = Dropped /\ url.get = 206
=============================================================================
