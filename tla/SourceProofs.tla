----------------------------- MODULE SourceProofs ----------------------------
(***************************************************************************)
(* Proofs about module Source, for every set of column types and every     *)
(* number of columns.                                                      *)
(***************************************************************************)
EXTENDS Source, FiniteSetTheorems, SequenceTheorems, WellFoundedInduction, TLAPS

USE DashboardAssumption

-----------------------------------------------------------------------------
(***************************************************************************)
(* The check of the URL.  The answer it judges is that of the request      *)
(* whose turn it was.                                                      *)
(***************************************************************************)
AnswerIsOfUrl ==
    /\ step = "resolve" => url.http
    /\ step \in {"head", "get", "judge"} => url.http /\ url.addrs = {"public"}
    /\ step = "get" => url.head = Dropped
    /\ step = "judge" => \/ url.head # Dropped /\ response = Reply(url.head)
                         \/ /\ url.head = Dropped /\ url.get # Dropped
                            /\ response = Reply(url.get)

PreflightInv ==
    /\ PreflightTypeOK
    /\ AnswerIsOfUrl
    /\ RefusedForCause
    /\ AcceptedFits

LEMMA InitPreflight == PreflightInit => PreflightInv
  BY DEF PreflightInit, PreflightInv, PreflightTypeOK, AnswerIsOfUrl, RefusedForCause, AcceptedFits,
         Steps, Refusals, NoResponse

\* An answer is none only if there was none.
LEMMA ReplyIsAnswer ==
  ASSUME NEW status \in {200, 206, 404, 405}
  PROVE  Reply(status) # NoResponse /\ Reply(status).status = status
  BY DEF Reply, NoResponse

LEMMA StepPreflight == PreflightInv /\ [PreflightNext]_preflightVars => PreflightInv'
<1>. SUFFICES ASSUME PreflightInv, [PreflightNext]_preflightVars PROVE PreflightInv'
  OBVIOUS
<1>. USE DEF PreflightInv
<1>1. CASE UNCHANGED preflightVars
  BY <1>1 DEF preflightVars, PreflightTypeOK, AnswerIsOfUrl, RefusedForCause, AcceptedFits, Reply
<1>2. CASE Parse
  BY <1>2 DEF Parse, Decide, Proceed, PreflightTypeOK, AnswerIsOfUrl, RefusedForCause,
              AcceptedFits, Reply, Steps, Refusals
<1>3. CASE Resolve
  <2>1. url.addrs \in SUBSET {"public", "private"} /\ url' = url /\ response' = response
    BY <1>3 DEF Resolve, PreflightTypeOK, Urls
  <2>2. url.addrs # {} /\ "private" \notin url.addrs => url.addrs = {"public"}
    BY <2>1
  <2>3. \/ step' = "end" /\ verdict' \in {"address", "unresolved"} /\ url.addrs # {"public"}
        \/ step' = "head" /\ verdict' = verdict /\ url.addrs = {"public"}
    BY <1>3, <2>2 DEF Resolve, Decide, Proceed
  <2>4. url.http /\ verdict = "none"
    BY <1>3 DEF Resolve, AnswerIsOfUrl, PreflightTypeOK
  <2>. QED BY <2>1, <2>3, <2>4 DEF PreflightTypeOK, AnswerIsOfUrl, RefusedForCause, AcceptedFits,
                                   Steps, Refusals
<1>4. CASE TryHead
  <2>1. url.head \in {200, 405, Dropped} /\ url' = url
    BY <1>4 DEF TryHead, PreflightTypeOK, Urls
  <2>2. CASE url.head = Dropped
    BY <1>4, <2>1, <2>2 DEF TryHead, Proceed, PreflightTypeOK, AnswerIsOfUrl,
                            RefusedForCause, AcceptedFits, Steps, Refusals
  <2>3. CASE url.head # Dropped
    <3>1. response' = Reply(url.head) /\ step' = "judge" /\ verdict' = verdict
      BY <1>4, <2>3 DEF TryHead, Got, Proceed
    <3>2. Reply(url.head)' = Reply(url.head)
      BY <2>1 DEF Reply
    <3>3. Reply(url.head) # NoResponse /\ Reply(url.head).status = url.head
      BY <2>1, <2>3, ReplyIsAnswer
    <3>. QED BY <1>4, <2>1, <2>3, <3>1, <3>2, <3>3 DEF TryHead, PreflightTypeOK, AnswerIsOfUrl,
                            RefusedForCause, AcceptedFits, Steps, Refusals
  <2>. QED BY <2>2, <2>3
<1>5. CASE TryGet
  <2>1. url.get \in {200, 206, 404, Dropped} /\ url' = url
    BY <1>5 DEF TryGet, PreflightTypeOK, Urls
  <2>2. CASE url.get = Dropped
    BY <1>5, <2>1, <2>2 DEF TryGet, Decide, PreflightTypeOK, AnswerIsOfUrl,
                            RefusedForCause, AcceptedFits, Steps, Refusals
  <2>3. CASE url.get # Dropped
    <3>1. response' = Reply(url.get) /\ step' = "judge" /\ verdict' = verdict
      BY <1>5, <2>3 DEF TryGet, Got, Proceed
    <3>2. Reply(url.get)' = Reply(url.get)
      BY <2>1 DEF Reply
    <3>3. Reply(url.get) # NoResponse /\ Reply(url.get).status = url.get
      BY <2>1, <2>3, ReplyIsAnswer
    <3>. QED BY <1>5, <2>1, <2>3, <3>1, <3>2, <3>3 DEF TryGet, PreflightTypeOK, AnswerIsOfUrl,
                            RefusedForCause, AcceptedFits, Steps, Refusals
  <2>. QED BY <2>2, <2>3
<1>6. CASE Judge
  <2>1. /\ url' = url /\ response' = response /\ step = "judge" /\ step' = "end"
        /\ verdict' = IF response.status \notin {200, 206} THEN "status"
                      ELSE IF response.large THEN "large"
                      ELSE IF response.type = "page" THEN "page" ELSE "accepted"
    BY <1>6 DEF Judge, Decide
  <2>2. PICK status \in {url.head, url.get} :
             /\ response = Reply(status)
             /\ status # Dropped
             /\ status = url.head \/ (status = url.get /\ url.head = Dropped)
    BY <2>1 DEF AnswerIsOfUrl
  <2>3. /\ response.status = status /\ response.type = url.type
        /\ response.large <=> url.large /\ url.tells /\ status # 206
    BY <2>2 DEF Reply
  <2>4. url \in Urls /\ url.head \in {200, 405, Dropped} /\ url.get \in {200, 206, 404, Dropped}
    BY DEF PreflightTypeOK, Urls
  <2>5. RefusedForCause'
    BY <2>1, <2>2, <2>3, <2>4 DEF RefusedForCause, Refusals, Dropped
  <2>6. AcceptedFits'
    BY <2>1, <2>2, <2>3, <2>4 DEF AcceptedFits, Dropped
  <2>7. PreflightTypeOK' /\ AnswerIsOfUrl'
    BY <2>1 DEF PreflightTypeOK, AnswerIsOfUrl, Steps, Refusals
  <2>. QED BY <2>5, <2>6, <2>7
<1>. QED BY <1>1, <1>2, <1>3, <1>4, <1>5, <1>6 DEF PreflightNext

-----------------------------------------------------------------------------
(***************************************************************************)
(* The least element of a set of numbers.                                  *)
(***************************************************************************)
LEMMA LessIsWellFounded ==
  \E R : IsWellFoundedOn(R, Nat) /\ \A j, k \in Nat : j < k => <<j, k>> \in R
<1>1. IsWellFoundedOn(OpToRel(<, Nat), Nat)
  BY NatLessThanWellFounded
<1>2. \A j, k \in Nat : j < k => <<j, k>> \in OpToRel(<, Nat)
  BY DEF OpToRel
<1>. QED BY ONLY <1>1, <1>2, Zenon

LEMMA MinimalElement ==
  ASSUME NEW S, S \subseteq Nat, S # {}, NEW R, IsWellFoundedOn(R, Nat)
  PROVE  \E i \in S : \A k \in S : ~(<<k, i>> \in R)
  BY WFMin, Zenon

LEMMA LeastElement ==
  ASSUME NEW S, S \subseteq Nat, S # {}
  PROVE  \E i \in S : \A k \in S : i <= k
<1>1. PICK R : IsWellFoundedOn(R, Nat) /\ \A j, k \in Nat : j < k => <<j, k>> \in R
  BY LessIsWellFounded
<1>2. PICK i \in S : \A k \in S : ~(<<k, i>> \in R)
  <2>1. IsWellFoundedOn(R, Nat)
    BY <1>1
  <2>. QED BY <2>1, MinimalElement
<1>3. ASSUME NEW k \in S PROVE i <= k
  <2>. SUFFICES ASSUME k < i PROVE FALSE
    OBVIOUS
  <2>1. i \in Nat /\ k \in Nat
    OBVIOUS
  <2>2. <<k, i>> \in R
    BY <1>1, <2>1
  <2>. QED BY <1>2, <2>2
<1>. QED BY <1>3

-----------------------------------------------------------------------------
(***************************************************************************)
(* The charts.                                                             *)
(***************************************************************************)
Wanted == {"temporal", "numeric", "categorical"}

Found(cols, want) == {i \in DOMAIN cols : Classify(cols[i]) = want}

LEMMA KindsOfColumns ==
  /\ \A t : Classify(t) \in Wanted \cup {"boolean"}
  /\ \A v, w \in Wanted : ChartOf(v) = ChartOf(w) => v = w
  BY DEF Classify, ChartOf, Wanted

\* The sequence s has each of x, y and z that a, b and c hold once, and no other.
HasEachOf(s, x, y, z, a, b, c) ==
    /\ Len(s) <= 3 /\ DOMAIN s = 1 .. Len(s) /\ Len(s) \in Nat
    /\ \A n, k \in DOMAIN s : s[n] = s[k] => n = k
    /\ \A n \in DOMAIN s : \/ s[n] = x /\ a = <<x>>
                           \/ s[n] = y /\ b = <<y>>
                           \/ s[n] = z /\ c = <<z>>
    /\ a = <<x>> => \E n \in DOMAIN s : s[n] = x
    /\ b = <<y>> => \E n \in DOMAIN s : s[n] = y
    /\ c = <<z>> => \E n \in DOMAIN s : s[n] = z

\* Three sequences of at most one element, one after the other.
LEMMA Joined ==
  ASSUME NEW x, NEW y, NEW z, x # y, x # z, y # z,
         NEW a, NEW b, NEW c, a \in {<<>>, <<x>>}, b \in {<<>>, <<y>>}, c \in {<<>>, <<z>>}
  PROVE  HasEachOf(a \o b \o c, x, y, z, a, b, c)
<1>. DEFINE s == a \o b \o c
<1>. USE DEF HasEachOf
<1>1. CASE a = <<>> /\ b = <<>> /\ c = <<>>
  <2>. s = <<>>
    BY <1>1
  <2>. QED BY <1>1
<1>2. CASE a = <<x>> /\ b = <<>> /\ c = <<>>
  <2>. s = <<x>>
    BY <1>2
  <2>. QED BY <1>2
<1>3. CASE a = <<>> /\ b = <<y>> /\ c = <<>>
  <2>. s = <<y>>
    BY <1>3
  <2>. QED BY <1>3
<1>4. CASE a = <<>> /\ b = <<>> /\ c = <<z>>
  <2>. s = <<z>>
    BY <1>4
  <2>. QED BY <1>4
<1>5. CASE a = <<x>> /\ b = <<y>> /\ c = <<>>
  <2>. Len(s) = 2 /\ DOMAIN s = 1 .. 2 /\ s[1] = x /\ s[2] = y
    BY <1>5
  <2>. QED BY <1>5
<1>6. CASE a = <<x>> /\ b = <<>> /\ c = <<z>>
  <2>. Len(s) = 2 /\ DOMAIN s = 1 .. 2 /\ s[1] = x /\ s[2] = z
    BY <1>6
  <2>. QED BY <1>6
<1>7. CASE a = <<>> /\ b = <<y>> /\ c = <<z>>
  <2>. Len(s) = 2 /\ DOMAIN s = 1 .. 2 /\ s[1] = y /\ s[2] = z
    BY <1>7
  <2>. QED BY <1>7
<1>8. CASE a = <<x>> /\ b = <<y>> /\ c = <<z>>
  <2>1. a \o b \in Seq({x, y, z}) /\ c \in Seq({x, y, z})
    BY <1>8
  <2>2. Len(a \o b) = 2 /\ (a \o b)[1] = x /\ (a \o b)[2] = y /\ Len(c) = 1 /\ c[1] = z
    BY <1>8
  <2>3. PICK ab : ab = a \o b
    OBVIOUS
  <2>4. ab \in Seq({x, y, z}) /\ Len(ab) = 2 /\ ab[1] = x /\ ab[2] = y
    BY ONLY <2>1, <2>2, <2>3
  <2>. Len(s) = 3 /\ DOMAIN s = 1 .. 3 /\ s[1] = x /\ s[2] = y /\ s[3] = z
    <3>1. /\ Len(ab \o c) = 3 /\ DOMAIN (ab \o c) = 1 .. 3
          /\ (ab \o c)[1] = x /\ (ab \o c)[2] = y /\ (ab \o c)[3] = z
      <4>1. PICK T : T = {x, y, z}
        OBVIOUS
      <4>2. ab \in Seq(T) /\ c \in Seq(T)
        BY ONLY <2>1, <2>4, <4>1
      <4>3. /\ ab \o c \in Seq(T)
            /\ Len(ab \o c) = Len(ab) + Len(c)
            /\ \A i \in 1 .. Len(ab) + Len(c) :
                   (ab \o c)[i] = IF i <= Len(ab) THEN ab[i] ELSE c[i - Len(ab)]
        BY ONLY <4>2, ConcatProperties, Zenon
      <4>. QED BY ONLY <2>2, <2>4, <4>3
    <3>2. s = ab \o c
      BY <2>3
    <3>. HIDE DEF s
    <3>. QED BY ONLY <3>1, <3>2
  <2>. QED BY <1>8
<1>. QED BY <1>1, <1>2, <1>3, <1>4, <1>5, <1>6, <1>7, <1>8

ChartFor(cols, want) ==
    [kind |-> ChartOf(want), values |-> "none",
     column |-> CHOOSE i \in Found(cols, want) : \A k \in Found(cols, want) : i <= k]

LEMMA ChartIsFirst ==
  ASSUME NEW cols, NEW m \in Nat, DOMAIN cols = 1 .. m, NEW want, Found(cols, want) # {}
  PROVE  /\ ChartFor(cols, want).column \in Found(cols, want)
         /\ \A i \in Found(cols, want) : ChartFor(cols, want).column <= i
<1>1. Found(cols, want) \subseteq Nat
  BY DEF Found
<1>2. \E i \in Found(cols, want) : \A k \in Found(cols, want) : i <= k
  BY <1>1, LeastElement
<1>. QED BY <1>2 DEF ChartFor

\* One chart for each kind wanted that the file has, of its first column.
LEMMA SuggestedCharts ==
  ASSUME NEW cols
  PROVE  LET s == SuggestCharts(cols)
         IN  /\ Len(s) <= 3 /\ DOMAIN s = 1 .. Len(s) /\ Len(s) \in Nat
             /\ \A n, k \in DOMAIN s : s[n] = s[k] => n = k
             /\ \A n \in DOMAIN s :
                    \E want \in Wanted : Found(cols, want) # {} /\ s[n] = ChartFor(cols, want)
             /\ \A want \in Wanted : Found(cols, want) # {} =>
                    \E n \in DOMAIN s : s[n] = ChartFor(cols, want)
<1>. DEFINE C(want) == ChartFor(cols, want)
            P(want) == Pick(Found(cols, want), want)
<1>1. /\ C("temporal") # C("numeric") /\ C("temporal") # C("categorical")
      /\ C("numeric") # C("categorical")
  BY DEF ChartFor, ChartOf
<1>2. \A want : P(want) = IF Found(cols, want) = {} THEN <<>> ELSE <<C(want)>>
  BY DEF Pick, ChartFor
<1>3. \A want : P(want) \in {<<>>, <<C(want)>>} /\ (P(want) = <<C(want)>> <=> Found(cols, want) # {})
  <2>1. \A want : <<C(want)>> # <<>>
    OBVIOUS
  <2>. QED BY <1>2, <2>1
<1>4. SuggestCharts(cols) = P("temporal") \o P("numeric") \o P("categorical")
  BY DEF SuggestCharts, Found
<1>. HIDE DEF C, P
<1>5. PICK s : s = SuggestCharts(cols)
  OBVIOUS
<1>6. HasEachOf(s, C("temporal"), C("numeric"), C("categorical"),
                   P("temporal"), P("numeric"), P("categorical"))
  <2>1. s = P("temporal") \o P("numeric") \o P("categorical")
    BY <1>4, <1>5
  <2>2. /\ P("temporal") \in {<<>>, <<C("temporal")>>}
        /\ P("numeric") \in {<<>>, <<C("numeric")>>}
        /\ P("categorical") \in {<<>>, <<C("categorical")>>}
    BY <1>3
  <2>. QED BY ONLY <1>1, <2>1, <2>2, Joined
<1>7. \A n \in DOMAIN s : \E want \in Wanted : Found(cols, want) # {} /\ s[n] = C(want)
  BY <1>3, <1>6 DEF Wanted, HasEachOf
<1>8. \A want \in Wanted : Found(cols, want) # {} => \E n \in DOMAIN s : s[n] = C(want)
  BY <1>3, <1>6 DEF Wanted, HasEachOf
<1>. QED BY <1>5, <1>6, <1>7, <1>8 DEF C, HasEachOf

\* A chart keeps its kind and its column when its values are drawn.
LEMMA DrawnCharts ==
  ASSUME NEW cols, NEW answer
  PROVE  LET s == SuggestCharts(cols)
             d == Drawn(s, answer)
         IN  /\ DOMAIN d = DOMAIN s /\ Len(d) = Len(s)
             /\ \A n \in DOMAIN s :
                    /\ d[n].kind = s[n].kind /\ d[n].column = s[n].column
                    /\ d[n].values = IF s[n].kind = "bar" THEN answer ELSE "none"
<1>1. PICK s : s = SuggestCharts(cols)
  OBVIOUS
<1>2. PICK d : d = Drawn(s, answer)
  OBVIOUS
<1>3. /\ Len(s) \in Nat /\ DOMAIN s = 1 .. Len(s)
      /\ \A n \in DOMAIN s : \E want : s[n] = ChartFor(cols, want)
  BY <1>1, SuggestedCharts
<1>4. d = [n \in DOMAIN s |->
              IF s[n].kind = "bar" THEN [s[n] EXCEPT !.values = answer] ELSE s[n]]
  BY <1>2 DEF Drawn
<1>5. ASSUME NEW n \in DOMAIN s
      PROVE  /\ d[n].kind = s[n].kind /\ d[n].column = s[n].column
             /\ d[n].values = IF s[n].kind = "bar" THEN answer ELSE "none"
  BY <1>3, <1>4 DEF ChartFor
<1>6. Len(d) = Len(s) /\ DOMAIN d = DOMAIN s
  <2>1. PICK T : T = {d[n] : n \in DOMAIN s}
    OBVIOUS
  <2>2. d \in [1 .. Len(s) -> T]
    BY <1>3, <1>4, <2>1
  <2>3. d \in Seq(T)
    BY <1>3, <2>2
  <2>4. DOMAIN d = 1 .. Len(d) /\ Len(d) \in Nat
    BY <2>3
  <2>. QED BY <1>3, <2>2, <2>4
<1>. QED BY <1>1, <1>2, <1>5, <1>6

-----------------------------------------------------------------------------
(***************************************************************************)
(* Errors.                                                                 *)
(***************************************************************************)

LEMMA ErrorType ==
  ASSUME NEW x
  PROVE  ErrorOf(x).class \in {"retryable", "permanent"} /\ ErrorOf(x) # NoError
  BY DEF ErrorOf, NoError

\* The first phrase that is looked for and found decides.
LEMMA CleanErrors ==
  ASSUME NEW text
  PROVE  LET has(p) == p \in text
         IN  /\ has("timeout") => CleanError(text) = "timed out"
             /\ has("undetected") /\ ~has("timeout") => CleanError(text) = "unknown format"
             /\ has("unparsable") /\ ~has("timeout") /\ ~has("undetected")
                    => CleanError(text) = "not parsed"
             /\ has("404") /\ ~has("timeout") /\ ~has("undetected") /\ ~has("unparsable")
                    => CleanError(text) = "not fetched"
             /\ text # {} /\ ~has("timeout") /\ ~has("undetected") /\ ~has("unparsable")
                /\ ~has("404") => CleanError(text) = "first line"
<1>1. text \cap {"timeout", "undetected"} = {} <=> "timeout" \notin text /\ "undetected" \notin text
  OBVIOUS
<1>2. text \cap {"timeout", "undetected", "unparsable"} = {}
        <=> "timeout" \notin text /\ "undetected" \notin text /\ "unparsable" \notin text
  OBVIOUS
<1>3. CleanError(text) =
        CASE "timeout" \in text                             -> "timed out"
          [] "undetected" \in text /\ "timeout" \notin text -> "unknown format"
          [] /\ "unparsable" \in text
             /\ "timeout" \notin text /\ "undetected" \notin text -> "not parsed"
          [] /\ "404" \in text /\ "timeout" \notin text /\ "undetected" \notin text
             /\ "unparsable" \notin text                    -> "not fetched"
          [] text = {}                                      -> "ingestion failed"
          [] OTHER                                          -> "first line"
  BY <1>1, <1>2, Zenon DEF CleanError
<1>. QED BY <1>3

\* The reason is that of a phrase in the text.
LEMMA ReasonsAreMentioned ==
  ASSUME NEW text \in SUBSET Phrases
  PROVE  CleanError(text) \in IF text = {} THEN {"ingestion failed"}
                              ELSE {ReasonOf[c] : c \in {d \in Causes : Says[d] \in text}}
<1>. DEFINE mentioned == {d \in Causes : Says[d] \in text}
<1>1. Causes = {"overload", "slow", "format", "content", "missing", "internal"}
  BY DEF Causes, Says
<1>2. /\ "transient" \in text => "overload" \in mentioned
      /\ "timeout" \in text => "slow" \in mentioned
      /\ "undetected" \in text => "format" \in mentioned
      /\ "unparsable" \in text => "content" \in mentioned
      /\ "404" \in text => "missing" \in mentioned
      /\ "other" \in text => "internal" \in mentioned
  BY <1>1 DEF Says
<1>3. /\ ReasonOf["overload"] = "first line" /\ ReasonOf["internal"] = "first line"
      /\ ReasonOf["slow"] = "timed out" /\ ReasonOf["format"] = "unknown format"
      /\ ReasonOf["content"] = "not parsed" /\ ReasonOf["missing"] = "not fetched"
  BY DEF ReasonOf
<1>4. \A p \in text : p \in {"transient", "timeout", "undetected", "unparsable", "404", "other"}
  BY DEF Phrases, Causes, Says
<1>5. CASE text = {}
  BY <1>5 DEF CleanError
<1>6. CASE text # {}
  <2>1. \E c \in mentioned : CleanError(text) = ReasonOf[c]
    <3>. HIDE DEF mentioned
    <3>. DEFINE names == {"timeout", "undetected", "unparsable", "404"}
    <3>1. CASE text \cap names = {}
      <4>1. CleanError(text) = "first line"
        BY <1>6, <3>1, CleanErrors
      <4>2. "transient" \in text \/ "other" \in text
        BY <1>4, <1>6, <3>1
      <4>. QED BY <1>2, <1>3, <4>1, <4>2
    <3>2. CASE text \cap names # {}
      <4>1. CASE "timeout" \in text
        <5>1. "slow" \in mentioned /\ ReasonOf["slow"] = "timed out"
          BY <1>2, <1>3, <4>1
        <5>2. CleanError(text) = "timed out"
          BY <4>1, CleanErrors
        <5>. QED BY <5>1, <5>2
      <4>2. CASE "timeout" \notin text /\ "undetected" \in text
        <5>1. "format" \in mentioned /\ ReasonOf["format"] = "unknown format"
          BY <1>2, <1>3, <4>2
        <5>2. CleanError(text) = "unknown format"
          BY <4>2, CleanErrors
        <5>. QED BY <5>1, <5>2
      <4>3. CASE "timeout" \notin text /\ "undetected" \notin text /\ "unparsable" \in text
        <5>1. "content" \in mentioned /\ ReasonOf["content"] = "not parsed"
          BY <1>2, <1>3, <4>3
        <5>2. CleanError(text) = "not parsed"
          BY <4>3, CleanErrors
        <5>. QED BY <5>1, <5>2
      <4>4. CASE /\ "timeout" \notin text /\ "undetected" \notin text
                 /\ "unparsable" \notin text /\ "404" \in text
        <5>1. "missing" \in mentioned /\ ReasonOf["missing"] = "not fetched"
          BY <1>2, <1>3, <4>4
        <5>2. CleanError(text) = "not fetched"
          BY <4>4, CleanErrors
        <5>. QED BY <5>1, <5>2
      <4>. QED BY <3>2, <4>1, <4>2, <4>3, <4>4
    <3>. QED BY <3>1, <3>2
  <2>. QED BY <1>6, <2>1
<1>. QED BY <1>5, <1>6

\* What an error says of the exchange that failed.
LEMMA ErrorsAreUnderstood ==
  ASSUME NEW x \in Exchanges
  PROVE  LET e == ErrorOf(x)
             mentioned == {c \in Causes : Says[c] \in TextOf(x)}
         IN  \/ /\ ~x.reached
                /\ e = [class |-> "retryable", reason |-> "unreachable"]
             \/ /\ x.reached
                /\ x.cause = "overload" /\ x.readable => e.class = "retryable"
                /\ e.class = "retryable" => mentioned \cap {"overload", "slow"} # {}
                /\ e.reason \in IF mentioned = {} THEN {"ingestion failed"}
                                ELSE {ReasonOf[c] : c \in mentioned}
<1>. DEFINE mentioned == {c \in Causes : Says[c] \in TextOf(x)}
<1>1. CASE ~x.reached
  BY <1>1 DEF ErrorOf
<1>2. CASE x.reached
  <2>1. x.cause \in Causes /\ x.quoted \subseteq Phrases /\ x.reached \in BOOLEAN
    BY DEF Exchanges
  <2>2. TextOf(x) \in SUBSET Phrases
    BY <2>1 DEF TextOf, Phrases
  <2>3. mentioned = {} <=> TextOf(x) = {}
    BY <2>2 DEF Phrases
  <2>4. /\ ErrorOf(x).class = IF "transient" \in TextOf(x) THEN "retryable" ELSE "permanent"
        /\ ErrorOf(x).reason = CleanError(TextOf(x))
    BY <1>2 DEF ErrorOf, IsTransient
  <2>5. "overload" \in Causes /\ Says["overload"] = "transient"
    BY DEF Causes, Says
  <2>6. x.cause = "overload" /\ x.readable => ErrorOf(x).class = "retryable"
    BY <2>4, <2>5 DEF TextOf
  <2>7. ErrorOf(x).class = "retryable" => "overload" \in mentioned
    BY <2>4, <2>5
  <2>8. ErrorOf(x).reason \in IF mentioned = {} THEN {"ingestion failed"}
                              ELSE {ReasonOf[c] : c \in mentioned}
    BY <2>2, <2>3, <2>4, ReasonsAreMentioned
  <2>. QED BY <1>2, <2>6, <2>7, <2>8
<1>. QED BY <1>1, <1>2

-----------------------------------------------------------------------------
(***************************************************************************)
(* The attempt that describes the file.  Its statistics are those of the   *)
(* columns described, its charts those suggested for them, and the error   *)
(* it failed with that of the exchange that failed.                        *)
(***************************************************************************)
StatsOfTable ==
    call \in {"charts", "done"} =>
        stats = StatsQuery(described) \/ (stats = <<>> /\ "stats" \in gaps)

ChartsOfTable ==
    call = "done" =>
        LET s == SuggestCharts(described)
        IN  /\ DOMAIN charts = DOMAIN s
            /\ \A n \in DOMAIN s :
                  /\ charts[n].kind = s[n].kind /\ charts[n].column = s[n].column
                  /\ \/ charts[n].values = IF s[n].kind = "bar" THEN "all" ELSE "none"
                     \/ "charts" \in gaps

ErrorOfExchange ==
    /\ call # "failed" => exchange = NoExchange
    /\ exchange # NoExchange => error = ErrorOf(exchange)

DashboardInv ==
    /\ DashboardTypeOK
    /\ StatsOfTable
    /\ ChartsOfTable
    /\ ErrorOfExchange

LEMMA InitDashboard == DashboardInit => DashboardInv
<1>. SUFFICES ASSUME DashboardInit PROVE DashboardInv
  OBVIOUS
<1>1. described \in BoundedSeq(ColumnTypes, MaxColumns)
  BY DEF DashboardInit, BoundedSeq, SeqOf
<1>2. DOMAIN stats \subseteq (1 .. MaxColumns) \X Keys /\ Len(charts) <= 3
  BY DEF DashboardInit
<1>3. exchange \in Exchanges
  <2>1. Cardinality({}) = 0
    BY FS_EmptySet
  <2>. QED BY <2>1 DEF DashboardInit, NoExchange, Exchanges, Causes, Says
<1>4. error = NoError /\ call = "describe" /\ gaps = {}
  BY DEF DashboardInit
<1>5. DashboardTypeOK
  BY <1>1, <1>2, <1>3, <1>4 DEF DashboardTypeOK, NoError
<1>. QED BY <1>4, <1>5 DEF DashboardInit, DashboardInv, StatsOfTable, ChartsOfTable, ErrorOfExchange

\* A statement that fails leaves its exchange and the error made of it.
LEMMA FailsLeavesError ==
  ASSUME DashboardInv, NEW causes, Fails(causes), call # "failed"
  PROVE  DashboardInv'
<1>1. /\ exchange' \in Exchanges /\ error' = ErrorOf(exchange') /\ call' = "failed"
      /\ UNCHANGED <<described, stats, charts, gaps>>
  BY DEF Fails
<1>2. error'.class \in {"retryable", "permanent"} /\ error' # NoError
  BY <1>1, ErrorType
<1>3. DashboardTypeOK'
  BY <1>1, <1>2 DEF DashboardInv, DashboardTypeOK
<1>. QED BY <1>1, <1>3 DEF DashboardInv, StatsOfTable, ChartsOfTable, ErrorOfExchange

LEMMA RefusesLeavesGap ==
  ASSUME DashboardInv, NEW reason, Refuses(reason), call \in {"describe", "stats"}
  PROVE  DashboardInv'
<1>1. /\ error' = Permanent(reason) /\ call' = "failed" /\ gaps' = gaps \cup {call}
      /\ UNCHANGED <<described, stats, charts, exchange>>
  BY DEF Refuses
<1>2. error'.class = "permanent" /\ error' # NoError
  BY <1>1 DEF Permanent, NoError
<1>3. DashboardTypeOK'
  BY <1>1, <1>2 DEF DashboardInv, DashboardTypeOK
<1>. QED BY <1>1, <1>3 DEF DashboardInv, StatsOfTable, ChartsOfTable, ErrorOfExchange

LEMMA ColumnsDescribed ==
  ASSUME DashboardTypeOK
  PROVE  \E m \in 0 .. MaxColumns : described \in [1 .. m -> ColumnTypes]
  BY DEF DashboardTypeOK, BoundedSeq, SeqOf

LEMMA StepDashboard == DashboardInv /\ [DashboardNext]_dashboardVars => DashboardInv'
<1>. SUFFICES ASSUME DashboardInv, [DashboardNext]_dashboardVars PROVE DashboardInv'
  OBVIOUS
<1>1. CASE UNCHANGED dashboardVars
  BY <1>1 DEF dashboardVars, DashboardInv, DashboardTypeOK, StatsOfTable, ChartsOfTable,
              ErrorOfExchange
<1>2. CASE Describe
  <2>1. call = "describe"
    BY <1>2 DEF Describe
  <2>2. CASE /\ described' \in BoundedSeq(ColumnTypes, MaxColumns) \ {<<>>}
             /\ call' = "stats"
             /\ UNCHANGED <<stats, charts, exchange, error, gaps>>
    <3>1. DashboardTypeOK'
      BY <2>1, <2>2 DEF DashboardInv, DashboardTypeOK
    <3>. QED BY <2>1, <2>2, <3>1 DEF DashboardInv, StatsOfTable, ChartsOfTable, ErrorOfExchange
  <2>. QED BY <1>2, <2>1, <2>2, FailsLeavesError, RefusesLeavesGap DEF Describe
<1>3. CASE ReadStats
  <2>1. call = "stats"
    BY <1>3 DEF ReadStats
  <2>2. CASE /\ \/ stats' = StatsQuery(described) /\ UNCHANGED gaps
                \/ stats' = <<>> /\ gaps' = gaps \cup {call}
             /\ call' = "charts"
             /\ UNCHANGED <<described, charts, exchange, error>>
    <3>1. PICK m \in 0 .. MaxColumns : described \in [1 .. m -> ColumnTypes]
      BY ColumnsDescribed DEF DashboardInv
    <3>2. DOMAIN StatsQuery(described) \subseteq (1 .. MaxColumns) \X Keys
      BY <3>1 DEF StatsQuery, Asked
    <3>3. DOMAIN stats' \subseteq (1 .. MaxColumns) \X Keys
      BY <2>2, <3>2
    <3>4. DashboardTypeOK'
      BY <2>1, <2>2, <3>3 DEF DashboardInv, DashboardTypeOK
    <3>. QED BY <2>1, <2>2, <3>4 DEF DashboardInv, StatsOfTable, ChartsOfTable, ErrorOfExchange
  <2>. QED BY <1>3, <2>1, <2>2, FailsLeavesError, RefusesLeavesGap DEF ReadStats
<1>4. CASE Draw
  <2>. DEFINE s == SuggestCharts(described)
              bar == \E n \in DOMAIN s : s[n].kind = "bar"
  <2>1. call = "charts"
    BY <1>4 DEF Draw
  <2>2. \/ /\ call' = "done" /\ UNCHANGED <<described, stats, exchange, error>>
           /\ \/ ~bar /\ charts' = s /\ gaps' = gaps
              \/ bar /\ charts' = Drawn(s, "all") /\ gaps' = gaps
              \/ \E answer : charts' = Drawn(s, answer) /\ gaps' = gaps \cup {call}
        \/ Fails(TableCauses)
    BY <1>4 DEF Draw
  <2>3. CASE Fails(TableCauses)
    BY <2>1, <2>3, FailsLeavesError
  <2>4. CASE /\ call' = "done" /\ UNCHANGED <<described, stats, exchange, error>>
             /\ \/ ~bar /\ charts' = s /\ gaps' = gaps
                \/ bar /\ charts' = Drawn(s, "all") /\ gaps' = gaps
                \/ \E answer : charts' = Drawn(s, answer) /\ gaps' = gaps \cup {call}
    <3>1. /\ Len(s) <= 3
          /\ \A n \in DOMAIN s : \E want : s[n] = ChartFor(described, want)
      BY SuggestedCharts
    <3>2. \A n \in DOMAIN s : s[n].values = "none"
      BY <3>1 DEF ChartFor
    <3>3. \A answer :
              /\ DOMAIN Drawn(s, answer) = DOMAIN s /\ Len(Drawn(s, answer)) = Len(s)
              /\ \A n \in DOMAIN s :
                    /\ Drawn(s, answer)[n].kind = s[n].kind
                    /\ Drawn(s, answer)[n].column = s[n].column
                    /\ Drawn(s, answer)[n].values = IF s[n].kind = "bar" THEN answer ELSE "none"
      BY DrawnCharts
    <3>. HIDE DEF s
    <3>4. /\ Len(charts') <= 3 /\ DOMAIN charts' = DOMAIN s
          /\ \A n \in DOMAIN s :
                /\ charts'[n].kind = s[n].kind /\ charts'[n].column = s[n].column
                /\ \/ charts'[n].values = IF s[n].kind = "bar" THEN "all" ELSE "none"
                   \/ "charts" \in gaps'
      <4>1. CASE ~bar /\ charts' = s /\ gaps' = gaps
        BY <3>1, <3>2, <4>1
      <4>2. CASE bar /\ charts' = Drawn(s, "all") /\ gaps' = gaps
        BY <3>1, <3>3, <4>2
      <4>3. CASE \E answer : charts' = Drawn(s, answer) /\ gaps' = gaps \cup {call}
        BY <2>1, <3>1, <3>3, <4>3
      <4>. QED BY <2>4, <4>1, <4>2, <4>3
    <3>5. DashboardTypeOK'
      BY <2>1, <2>4, <3>4 DEF DashboardInv, DashboardTypeOK
    <3>6. ChartsOfTable'
      <4>1. s' = s
        BY <2>4 DEF s
      <4>. QED BY <3>4, <4>1 DEF ChartsOfTable, s
    <3>7. StatsOfTable'
      BY <2>1, <2>4 DEF DashboardInv, StatsOfTable
    <3>. QED BY <2>1, <2>4, <3>5, <3>6, <3>7 DEF DashboardInv, ErrorOfExchange
  <2>. QED BY <2>2, <2>3, <2>4
<1>. QED BY <1>1, <1>2, <1>3, <1>4 DEF DashboardNext

-----------------------------------------------------------------------------
(***************************************************************************)
(* Theorems.                                                               *)
(***************************************************************************)
LEMMA SourceAlways == Spec => [](PreflightInv /\ DashboardInv)
<1>1. Init => PreflightInv /\ DashboardInv
  BY InitPreflight, InitDashboard DEF Init
<1>2. PreflightInv /\ DashboardInv /\ [Next]_vars => (PreflightInv /\ DashboardInv)'
  <2>1. [Next]_vars => [PreflightNext]_preflightVars /\ [DashboardNext]_dashboardVars
    BY DEF Next, Attempt, vars
  <2>. QED BY <2>1, StepPreflight, StepDashboard
<1>. QED BY <1>1, <1>2, PTL DEF Spec

\* handlers.rs:285-375, dashboard.rs: every reachable state is well typed.
THEOREM SourceTypeCorrect == Spec => []SourceTypeOK
<1>1. PreflightInv /\ DashboardInv => SourceTypeOK
  BY DEF PreflightInv, DashboardInv, SourceTypeOK
<1>. QED BY <1>1, SourceAlways, PTL

\* handlers.rs:285, 326: a URL is refused only for a cause it has, or because
\* its server answers HEAD with an error.
THEOREM RefusalsHaveCause == Spec => []RefusedForCause
<1>1. PreflightInv => RefusedForCause
  BY DEF PreflightInv
<1>. QED BY <1>1, SourceAlways, PTL

\* handlers.rs:345: an accepted file whose server tells its length is not too
\* large, unless HEAD was dropped and the server answers with a range.
THEOREM AcceptedKeepsLimit == Spec => []AcceptedFits
<1>1. PreflightInv => AcceptedFits
  BY DEF PreflightInv
<1>. QED BY <1>1, SourceAlways, PTL

\* dashboard.rs:69, 134-153: the configuration describes every column by the
\* aggregates of that column that fit its kind.
THEOREM EveryColumnIsDescribed == Spec => []ConfigDescribesTable
<1>1. DashboardInv => ConfigDescribesTable
  <2>. SUFFICES ASSUME DashboardInv, call = "done", NEW i \in DOMAIN described
                PROVE  LET kind == Meta(i).kind
                           held == Meta(i).stats
                       IN  \/ "stats" \in gaps /\ \A s \in DOMAIN held : held[s] = Null
                           \/ /\ \A s \in DOMAIN held : held[s] = <<i, s>>
                              /\ ({"min", "max"} \subseteq DOMAIN held)
                                     <=> (kind \in {"numeric", "temporal"})
                              /\ "avg" \in DOMAIN held <=> kind = "numeric"
    BY DEF ConfigDescribesTable
  <2>. DEFINE kind == Meta(i).kind
              held == Meta(i).stats
  <2>1. kind = Classify(described[i])
    BY DEF Meta
  <2>2. held = [s \in {"nulls", "distinct"} \cup {k \in Keys : <<i, k>> \in DOMAIN stats} |->
                  IF <<i, s>> \in DOMAIN stats THEN stats[<<i, s>>] ELSE Null]
    BY DEF Meta
  <2>. HIDE DEF kind, held
  <2>3. CASE stats = <<>> /\ "stats" \in gaps
    <3>1. DOMAIN stats = {}
      BY <2>3
    <3>. QED BY <2>2, <2>3, <3>1 DEF kind, held
  <2>4. CASE stats = StatsQuery(described)
    <3>1. /\ DOMAIN stats = Asked(described)
          /\ \A a \in Asked(described) : stats[a] = a
      BY <2>4 DEF StatsQuery
    <3>2. \A k \in Keys : <<i, k>> \in Asked(described) <=> k \in Aggregates(kind)
      BY <2>1 DEF Asked
    <3>3. Aggregates(kind) \subseteq Keys /\ {"nulls", "distinct"} \subseteq Aggregates(kind)
      BY DEF Aggregates, Keys
    <3>4. DOMAIN held = Aggregates(kind) /\ \A s \in Aggregates(kind) : held[s] = <<i, s>>
      BY <2>2, <3>1, <3>2, <3>3
    <3>5. /\ {"min", "max"} \subseteq Aggregates(kind) <=> kind \in {"numeric", "temporal"}
          /\ "avg" \in Aggregates(kind) <=> kind = "numeric"
      BY DEF Aggregates
    <3>. QED BY <3>4, <3>5 DEF kind, held
  <2>. QED BY <2>3, <2>4 DEF DashboardInv, StatsOfTable
<1>. QED BY <1>1, SourceAlways, PTL

\* dashboard.rs:97-111, 163: one chart for each kind, of the first column that
\* has it, and with the values it was drawn from.
THEOREM EveryKindIsDrawn == Spec => []ChartsFollowKinds
<1>1. DashboardInv => ChartsFollowKinds
  <2>. SUFFICES ASSUME DashboardInv, call = "done" PROVE ChartsFollowKinds
    BY DEF ChartsFollowKinds
  <2>1. PICK m \in 0 .. MaxColumns : described \in [1 .. m -> ColumnTypes]
    BY ColumnsDescribed DEF DashboardInv
  <2>2. PICK s : s = SuggestCharts(described)
    OBVIOUS
  <2>3. /\ \A n, k \in DOMAIN s : s[n] = s[k] => n = k
        /\ \A n \in DOMAIN s :
               \E want \in Wanted : Found(described, want) # {} /\ s[n] = ChartFor(described, want)
        /\ \A want \in Wanted : Found(described, want) # {} =>
               \E n \in DOMAIN s : s[n] = ChartFor(described, want)
    BY <2>2, SuggestedCharts
  <2>4. /\ DOMAIN charts = DOMAIN s
        /\ \A n \in DOMAIN s :
              /\ charts[n].kind = s[n].kind /\ charts[n].column = s[n].column
              /\ \/ charts[n].values = IF s[n].kind = "bar" THEN "all" ELSE "none"
                 \/ "charts" \in gaps
    BY <2>2 DEF DashboardInv, ChartsOfTable
  <2>5. ASSUME NEW want, Found(described, want) # {}
        PROVE  /\ ChartFor(described, want).kind = ChartOf(want)
               /\ Classify(described[ChartFor(described, want).column]) = want
               /\ \A i \in DOMAIN described : Classify(described[i]) = want
                      => ChartFor(described, want).column <= i
    <3>1. m \in Nat /\ DOMAIN described = 1 .. m
      BY <2>1
    <3>2. /\ ChartFor(described, want).column \in Found(described, want)
          /\ \A i \in Found(described, want) : ChartFor(described, want).column <= i
      BY <2>5, <3>1, ChartIsFirst
    <3>3. ChartFor(described, want).kind = ChartOf(want)
      BY DEF ChartFor
    <3>. QED BY <3>2, <3>3 DEF Found
  <2>6. ASSUME NEW n \in DOMAIN charts
        PROVE  \E want \in Wanted : /\ s[n] = ChartFor(described, want)
                                    /\ charts[n].kind = ChartOf(want)
                                    /\ Classify(described[charts[n].column]) = want
    BY <2>3, <2>4, <2>5
  <2>7. ASSUME NEW n \in DOMAIN charts, NEW k \in DOMAIN charts, charts[n].kind = charts[k].kind
        PROVE  n = k
    <3>1. s[n] = s[k]
      BY <2>6, <2>7, KindsOfColumns
    <3>. QED BY <2>3, <2>4, <3>1
  <2>8. ASSUME NEW i \in DOMAIN described, Classify(described[i]) # "boolean"
        PROVE  \E n \in DOMAIN charts :
                   /\ charts[n].column <= i
                   /\ Classify(described[charts[n].column]) = Classify(described[i])
                   /\ charts[n].kind = ChartOf(Classify(described[i]))
    <3>1. PICK want \in Wanted : want = Classify(described[i])
      BY <2>8, KindsOfColumns
    <3>2. Found(described, want) # {}
      BY <3>1 DEF Found
    <3>3. PICK n \in DOMAIN s : s[n] = ChartFor(described, want)
      BY <2>3, <3>2
    <3>. QED BY <2>4, <2>5, <3>1, <3>2, <3>3
  <2>9. ASSUME NEW n \in DOMAIN charts
        PROVE  /\ Classify(described[charts[n].column]) # "boolean"
               /\ \/ charts[n].values = (IF charts[n].kind = "bar" THEN "all" ELSE "none")
                  \/ "charts" \in gaps
    BY <2>4, <2>6 DEF Wanted
  <2>. QED BY <2>7, <2>8, <2>9 DEF ChartsFollowKinds
<1>. QED BY <1>1, SourceAlways, PTL

\* worker/clickhouse.rs:17-33, 44-83: an overload whose text arrives is retried,
\* nothing else is without a sign of one, and the reason is always that of a
\* cause the text mentions.
THEOREM FailuresAreUnderstood == Spec => []FailureIsUnderstood
<1>1. DashboardInv => FailureIsUnderstood
  <2>. SUFFICES ASSUME DashboardInv, exchange # NoExchange
                PROVE  FailureIsUnderstood
    BY DEF FailureIsUnderstood
  <2>1. exchange \in Exchanges /\ error = ErrorOf(exchange)
    BY DEF DashboardInv, DashboardTypeOK, ErrorOfExchange
  <2>. QED BY <2>1, ErrorsAreUnderstood DEF FailureIsUnderstood
<1>. QED BY <1>1, SourceAlways, PTL
=============================================================================
