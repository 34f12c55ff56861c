----------------------------- MODULE Transport ------------------------------
(***************************************************************************)
(* One statement sent to ClickHouse over HTTP, and what the worker makes   *)
(* of the answer: crates/shared/src/clickhouse.rs and                      *)
(* crates/worker/src/clickhouse.rs.  The text of an error is the set of    *)
(* phrases the worker looks for in it.                                     *)
(***************************************************************************)
EXTENDS Naturals, FiniteSets

\* What went wrong in ClickHouse, and the phrase its text says so with.  The
\* signatures of is_transient are one phrase: nothing tells them apart.
Says == [overload |-> "transient",
         slow     |-> "timeout",
         format   |-> "undetected",
         content  |-> "unparsable",
         missing  |-> "404",
         internal |-> "other"]

Causes == DOMAIN Says
Phrases == {Says[c] : c \in Causes}

\* An exchange that failed: whether ClickHouse was reached, whether the text of
\* its error arrived, the cause, and what else the text holds.  A text quotes
\* the URL and the data it is about, so it may hold a phrase of another cause.
Exchanges == [reached : BOOLEAN, readable : BOOLEAN, cause : Causes,
              quoted : {q \in SUBSET Phrases : Cardinality(q) <= 1}]

\* ChHttp::run: a text that cannot be read is empty.
TextOf(x) == IF x.readable THEN {Says[x.cause]} \cup x.quoted ELSE {}

\* Mutant: an overload is looked for last, in a text that says nothing else.
TransientAlone(text) == text = {"transient"}

IsTransient(text) == "transient" \in text

\* clean_error looks for these phrases one after the other and reports the first.
CleanError(text) ==
    CASE "timeout" \in text                             -> "timed out"
      [] "undetected" \in text /\ "timeout" \notin text -> "unknown format"
      [] "unparsable" \in text /\ text \cap {"timeout", "undetected"} = {} -> "not parsed"
      [] "404" \in text /\ text \cap {"timeout", "undetected", "unparsable"} = {}
                                                        -> "not fetched"
      [] text = {}                                      -> "ingestion failed"
      [] OTHER                                          -> "first line"

\* ChClient::run of an exchange that failed.
ErrorOf(x) ==
    IF ~x.reached THEN [class |-> "retryable", reason |-> "unreachable"]
    ELSE [class  |-> IF IsTransient(TextOf(x)) THEN "retryable" ELSE "permanent",
          reason |-> CleanError(TextOf(x))]
=============================================================================
