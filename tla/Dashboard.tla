----------------------------- MODULE Dashboard ------------------------------
(***************************************************************************)
(* What the worker reads of a file to describe it: the schema DESCRIBE     *)
(* infers (crates/worker/src/ingest.rs), the statistics of its columns and *)
(* the charts suggested for them (crates/worker/src/dashboard.rs).  Each   *)
(* is a statement whose failure Transport classifies.                      *)
(***************************************************************************)
EXTENDS Sequences, SequencesExt, Transport

CONSTANTS
    ColumnTypes,    \* the types a column may have, outermost wrapper first
    MaxColumns      \* bound: columns of the file

ASSUME DashboardAssumption ==
    /\ \A t \in ColumnTypes : t \in Seq(STRING) /\ t # <<>>
    /\ MaxColumns \in Nat \ {0}

VARIABLES
    call,       \* the statement to send next
    described,  \* the types of the columns, as DESCRIBE answered
    stats,      \* the row of statistics: what each of its keys holds
    charts,     \* the charts of the configuration
    exchange,   \* the exchange that failed
    error,      \* what the worker made of it
    gaps        \* history: the statements whose answer was not whole

dashboardVars == <<call, described, stats, charts, exchange, error, gaps>>

NoExchange == [reached |-> FALSE, readable |-> FALSE, cause |-> "internal", quoted |-> {}]
NoError == [class |-> "none", reason |-> "none"]
Permanent(reason) == [class |-> "permanent", reason |-> reason]

-----------------------------------------------------------------------------
(***************************************************************************)
(* Kinds of columns.                                                       *)
(***************************************************************************)
\* unwrap_type: peel wrappers as long as one is outermost.
Unwrapped(t) ==
    LET wrapped(i) == t[i] \in {"Nullable", "LowCardinality"}
    IN  t[CHOOSE i \in DOMAIN t : ~wrapped(i) /\ \A k \in 1 .. i - 1 : wrapped(k)]

\* By how the name of the type begins.
Classify(t) ==
    CASE Unwrapped(t) \in {"Int", "UInt", "Float", "Decimal"} -> "numeric"
      [] Unwrapped(t) \in {"Date", "DateTime"}                -> "temporal"
      [] Unwrapped(t) = "Bool"                                -> "boolean"
      [] OTHER                                                -> "categorical"

\* ColumnKind::chart.
ChartOf(kind) ==
    CASE kind = "numeric" -> "histogram" [] kind = "temporal" -> "time_series" [] OTHER -> "bar"

-----------------------------------------------------------------------------
(***************************************************************************)
(* The statistics of the columns and the charts.                           *)
(***************************************************************************)
Aggregates(kind) ==
    {"nulls", "distinct"} \cup (IF kind \in {"numeric", "temporal"} THEN {"min", "max"} ELSE {})
                         \cup (IF kind = "numeric" THEN {"avg"} ELSE {})

Keys == {"nulls", "distinct", "min", "max", "avg"}
Null == <<0, "null">>

\* The aggregates asked for: one of a column is <<its position, its name>>.
Asked(cols) == {a \in (DOMAIN cols) \X Keys : a[2] \in Aggregates(Classify(cols[a[1]]))}

\* Mutant: the alias counts the columns of the same kind only.
StatsQueryByKind(cols) ==
    LET alias(a) == <<Cardinality({k \in 1 .. a[1] : Classify(cols[k]) = Classify(cols[a[1]])}), a[2]>>
    IN  [key \in {alias(a) : a \in Asked(cols)} |-> CHOOSE a \in Asked(cols) : alias(a) = key]

\* build_stats_query: the alias of an aggregate is its column's position and its name.
StatsQuery(cols) == [key \in Asked(cols) |-> key]

\* generate: the entry of column i in the configuration.
Meta(i) ==
    LET held(s) == IF <<i, s>> \in DOMAIN stats THEN stats[<<i, s>>] ELSE Null
    IN  [kind  |-> Classify(described[i]),
         stats |-> [s \in {"nulls", "distinct"} \cup {k \in Keys : <<i, k>> \in DOMAIN stats} |-> held(s)]]

\* The chart of the first of the columns found, if there is one.
Pick(found, want) ==
    IF found = {} THEN <<>>
    ELSE <<[kind |-> ChartOf(want), values |-> "none",
            column |-> CHOOSE i \in found : \A k \in found : i <= k]>>

\* Mutant: columns are picked by the chart that fits them.
SuggestByChart(cols) ==
    LET found(want) == {i \in DOMAIN cols : ChartOf(Classify(cols[i])) = ChartOf(want)}
        pick(want)  == Pick(found(want), want)
    IN  pick("temporal") \o pick("numeric") \o pick("categorical")

\* suggest_charts: the first column of each kind it looks for.
SuggestCharts(cols) ==
    LET found(want) == {i \in DOMAIN cols : Classify(cols[i]) = want}
        pick(want)  == Pick(found(want), want)
    IN  pick("temporal") \o pick("numeric") \o pick("categorical")

\* A configuration with the answer of top_values in its bar charts.
Drawn(suggested, answer) ==
    [n \in DOMAIN suggested |->
        IF suggested[n].kind = "bar" THEN [suggested[n] EXCEPT !.values = answer] ELSE suggested[n]]

-----------------------------------------------------------------------------
DashboardTypeOK ==
    /\ call \in {"describe", "stats", "charts", "done", "failed"}
    /\ described \in BoundedSeq(ColumnTypes, MaxColumns)
    /\ DOMAIN stats \subseteq (1 .. MaxColumns) \X Keys
    /\ Len(charts) <= 3
    /\ exchange \in Exchanges
    /\ error.class \in {"none", "retryable", "permanent"}
    /\ gaps \subseteq {"describe", "stats", "charts"}
    /\ call = "failed" <=> error # NoError
    /\ call \in {"stats", "charts", "done"} => described # <<>>

DashboardInit ==
    /\ call = "describe"
    /\ described = <<>>
    /\ stats = <<>>
    /\ charts = <<>>
    /\ exchange = NoExchange
    /\ error = NoError
    /\ gaps = {}

\* The causes a statement on a table may fail of, and those of one on a source.
TableCauses == {"overload", "internal"}

\* The statement fails, and with it the attempt.
Fails(causes) ==
    /\ \E x \in Exchanges :
        /\ x.cause \in causes
        /\ x.reached \/ x.readable
        /\ (x.reached /\ x.readable) \/ x.quoted = {}
        /\ exchange' = x
        /\ error' = ErrorOf(x)
    /\ call' = "failed"
    /\ UNCHANGED <<described, stats, charts, gaps>>

\* The answer is read, but it is empty or is not what was asked for.
Refuses(reason) ==
    /\ call' = "failed"
    /\ error' = Permanent(reason)
    /\ gaps' = gaps \cup {call}
    /\ UNCHANGED <<described, stats, charts, exchange>>

\* Mutant: that no column was described is not checked.
DescribeUnchecked ==
    /\ call = "describe"
    /\ described' \in BoundedSeq(ColumnTypes, MaxColumns)
    /\ call' = "stats"
    /\ UNCHANGED <<stats, charts, exchange, error, gaps>>

\* describe_schema, parse_describe: an empty answer describes no columns.
Describe ==
    /\ call = "describe"
    /\ \/ /\ described' \in BoundedSeq(ColumnTypes, MaxColumns) \ {<<>>}
          /\ call' = "stats"
          /\ UNCHANGED <<stats, charts, exchange, error, gaps>>
       \/ \E reason \in {"no columns", "unread schema"} : Refuses(reason)
       \/ Fails(Causes)

\* generate: the first line must parse, but an empty answer is an empty row.
ReadStats ==
    /\ call = "stats"
    /\ \/ /\ \/ stats' = StatsQuery(described) /\ UNCHANGED gaps
             \/ stats' = <<>> /\ gaps' = gaps \cup {call}
          /\ call' = "charts"
          /\ UNCHANGED <<described, charts, exchange, error>>
       \/ Refuses("unread statistics")
       \/ Fails(TableCauses)

\* top_values, for a bar chart only: lines that do not parse are left out.
Draw ==
    /\ call = "charts"
    /\ LET suggested == SuggestCharts(described)
           bar == \E n \in DOMAIN suggested : suggested[n].kind = "bar"
       IN  \/ /\ charts' = IF bar THEN Drawn(suggested, "all") ELSE suggested
              /\ call' = "done"
              /\ UNCHANGED <<described, stats, exchange, error, gaps>>
           \/ /\ bar
              /\ \E answer \in {"some", "none"} : charts' = Drawn(suggested, answer)
              /\ gaps' = gaps \cup {call}
              /\ call' = "done"
              /\ UNCHANGED <<described, stats, exchange, error>>
           \/ bar /\ Fails(TableCauses)

DashboardNext == Describe \/ ReadStats \/ Draw

-----------------------------------------------------------------------------
\* dashboard.rs:69, 134-153: whatever the columns and their order, the
\* configuration describes each by aggregates of that very column, all those
\* that fit its kind; it lacks them only when the answer's body got lost, which
\* no error tells.
ConfigDescribesTable ==
    call = "done" =>
        \A i \in DOMAIN described :
            LET kind == Meta(i).kind
                held == Meta(i).stats
            IN  \/ "stats" \in gaps /\ \A s \in DOMAIN held : held[s] = Null
                \/ /\ \A s \in DOMAIN held : held[s] = <<i, s>>
                   /\ ({"min", "max"} \subseteq DOMAIN held) <=> (kind \in {"numeric", "temporal"})
                   /\ "avg" \in DOMAIN held <=> kind = "numeric"

\* dashboard.rs:97-111, 163: at most one chart of a kind, of the first column
\* that it fits; every column that is not a Boolean has one of its kind; and a
\* bar chart has its values unless the answer was not whole.
ChartsFollowKinds ==
    call = "done" =>
        /\ \A n, k \in DOMAIN charts : charts[n].kind = charts[k].kind => n = k
        /\ \A i \in DOMAIN described : Classify(described[i]) # "boolean" =>
            \E n \in DOMAIN charts : /\ charts[n].column <= i
                                     /\ Classify(described[charts[n].column]) = Classify(described[i])
                                     /\ charts[n].kind = ChartOf(Classify(described[i]))
        /\ \A n \in DOMAIN charts : /\ Classify(described[charts[n].column]) # "boolean"
                                    /\ \/ charts[n].values = (IF charts[n].kind = "bar" THEN "all" ELSE "none")
                                       \/ "charts" \in gaps

\* What a reader of the job page is right to be told.
ReasonOf == [overload |-> "first line",
             slow     |-> "timed out",
             format   |-> "unknown format",
             content  |-> "not parsed",
             missing  |-> "not fetched",
             internal |-> "first line"]

\* worker/clickhouse.rs:17-33, 44-83: an overload is retried whatever else its
\* text says; nothing is retried without a sign of an overload or of a timeout in
\* what arrived of the text; and the reason given is always that of a cause the
\* text mentions, the true one when it mentions no other.  A timeout may be
\* retried or not: error.rs:8 counts it as retryable, is_transient does not.
FailureIsUnderstood ==
    exchange # NoExchange =>
        LET mentioned == {c \in Causes : Says[c] \in TextOf(exchange)}
        IN  \/ /\ ~exchange.reached
               /\ error = [class |-> "retryable", reason |-> "unreachable"]
            \/ /\ exchange.reached
               /\ exchange.cause = "overload" /\ exchange.readable => error.class = "retryable"
               /\ error.class = "retryable" => mentioned \cap {"overload", "slow"} # {}
               /\ error.reason \in IF mentioned = {} THEN {"ingestion failed"}
                                  ELSE {ReasonOf[c] : c \in mentioned}
=============================================================================
