------------------------------- MODULE Domain -------------------------------
(***************************************************************************)
(* The vocabulary every service shares (crates/shared): the status of an   *)
(* ingestion job with its legal transitions, and the message that carries  *)
(* a job from the API to the worker.                                       *)
(***************************************************************************)
EXTENDS Naturals

CONSTANTS
    Jobs,           \* the job ids clients may create
    MaxAttempts     \* MAX_ATTEMPTS

ASSUME AttemptsAssumption == MaxAttempts \in Nat \ {0}

-----------------------------------------------------------------------------
Statuses == {"queued", "downloading", "inferring", "ingesting", "ready", "failed"}

IsTerminal(s) == s \in {"ready", "failed"}

\* The status that follows s when nothing goes wrong.
HappyPath == [queued      |-> "downloading",
              downloading |-> "inferring",
              inferring   |-> "ingesting",
              ingesting   |-> "ready"]

CanTransitionTo(s, to) ==
    /\ ~IsTerminal(s)
    /\ to = "failed" \/ HappyPath[s] = to

-----------------------------------------------------------------------------
(***************************************************************************)
(* A message names its job and the attempt it asks for.  The user id and   *)
(* the URL it also carries never change from one attempt to the next.      *)
(* A queue is the number of copies of each message it holds: its consumers *)
(* run concurrently, so the order in it is not observable.                 *)
(***************************************************************************)
Message == [job : Jobs, attempt : 0 .. MaxAttempts - 1]

Queues == [Message -> Nat]

EmptyQueue == [m \in Message |-> 0]

FirstMessage(j) == [job |-> j, attempt |-> 0]

Put(q, m) == [q EXCEPT ![m] = @ + 1]

Take(q, m) == [q EXCEPT ![m] = @ - 1]
=============================================================================
