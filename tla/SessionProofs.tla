--------------------------- MODULE SessionProofs ----------------------------
(***************************************************************************)
(* Proofs about module Session, for every number of pages, calls, sign-ins,*)
(* rotations and faults.                                                   *)
(***************************************************************************)
EXTENDS Session, TLAPS

USE SessionAssumption

-----------------------------------------------------------------------------
(***************************************************************************)
(* Types.                                                                  *)
(***************************************************************************)

\* The first call of a page is one of its calls.
LEMMA FirstIsCall == \A p \in Pages : First(p) \in Calls /\ <<p, First(p)>> \in Flights
<1>. SUFFICES ASSUME NEW p \in Pages PROVE First(p) \in Calls /\ <<p, First(p)>> \in Flights
  OBVIOUS
<1>. DEFINE f == CHOOSE g \in Flights : g[1] = p
<1>1. f \in Flights /\ f[1] = p
  OBVIOUS
<1>2. f = <<p, f[2]>> /\ f[2] \in Calls
  BY <1>1
<1>. QED BY <1>1, <1>2 DEF First

\* A call that restores its page is the one named First.
LEMMA RestoreIsFirst == \A f \in Flights : Restores(f) => f[2] = First(f[1])
  BY DEF Restores

CallSet == [at : {"idle", "sent", "waiting"},
            kind : {"api", "me", "login", "wrong", "restore"},
            valid : BOOLEAN, replay : BOOLEAN]

RefreshSet == [at : {"none", "sent", "redeemed", "answered", "rejected"},
               token : Tokens \cup {NoToken}]

\* What a call may become is a call.
LEMMA CallsAreCalls ==
  /\ Idle \in CallSet /\ Restore \in CallSet
  /\ \A c \in CallSet : Waiting(c) \in CallSet /\ [c EXCEPT !.valid = FALSE] \in CallSet
  /\ \A c \in CallSet, ok \in BOOLEAN : Resumed(c, ok) \in CallSet
<1>1. \A c \in CallSet : Waiting(c) \in CallSet
  BY DEF CallSet, Waiting
<1>2. \A c \in CallSet, ok \in BOOLEAN : Resumed(c, ok) \in CallSet
  BY DEF CallSet, Resumed, Idle
<1>. QED BY <1>1, <1>2 DEF CallSet, Idle, Restore

LEMMA InitType == Init => TypeOK
<1>. SUFFICES ASSUME Init PROVE TypeOK
  OBVIOUS
<1>1. <<0, 0>> \in Tokens
  BY DEF Tokens, Sessions
<1>2. \A f \in Flights : f[1] \in Pages
  OBVIOUS
<1>3. inFlight \in [Pages -> Calls \cup {NoCall}]
  BY FirstIsCall DEF Init
<1>4. \A f \in Flights : refresh[f].at # "none" => inFlight[f[1]] = f[2]
  BY <1>2, RestoreIsFirst DEF Init, Silent
<1>5. call \in [Flights -> CallSet]
  BY CallsAreCalls DEF Init
<1>6. refresh \in [Flights -> RefreshSet] /\ cookie \in Tokens \cup {NoToken}
  BY <1>1 DEF Init, RefreshSet, Silent
<1>7. live \subseteq Tokens
  BY <1>1 DEF Init
<1>11. issued \in [Sessions -> 0 .. MaxRotations + 1] /\ signIns \in Sessions
  BY DEF Init, Sessions
<1>8. spentBy \in [Tokens -> SUBSET Pages] /\ ended \in [Sessions -> {"open", "over", "raced"}]
  BY DEF Init
<1>9. signOut \in [Pages -> [at : {"none", "sent", "done", "lost"}, token : Tokens \cup {NoToken}]]
  BY DEF Init, Silent
<1>10. access \in [Pages -> BOOLEAN] /\ user \in [Pages -> BOOLEAN] /\ faults \in 0 .. MaxFaults
  BY DEF Init
<1>. QED BY <1>3, <1>4, <1>5, <1>6, <1>7, <1>8, <1>9, <1>10, <1>11 DEF TypeOK, CallSet, RefreshSet

\* Issuing adds a token of the session.
LEMMA IssueType ==
  ASSUME TypeOK, NEW s \in Sessions, Issue(s)
  PROVE  /\ Fresh(s) \in Tokens
         /\ live' \subseteq Tokens
         /\ issued' \in [Sessions -> 0 .. MaxRotations + 1]
  BY DEF TypeOK, Issue, Fresh, Tokens, Sessions

\* A refresh that redeemed a token knows which.
RedeemedHasToken == \A f \in Flights : refresh[f].at = "redeemed" => refresh[f].token \in Tokens

LEMMA CallType ==
  ASSUME TypeOK, NEW f \in Flights, StartCall(f) \/ StartLogin(f) \/ Answer(f)
  PROVE  TypeOK'
<1>. USE DEF TypeOK, Sessions
<1>0. f[1] \in Pages /\ f[2] \in Calls
  OBVIOUS
<1>1. CASE StartCall(f)
  BY <1>0, <1>1 DEF StartCall, Sent, server, page
<1>2. CASE StartLogin(f)
  BY <1>0, <1>2 DEF StartLogin, Sent, page
<1>3. CASE Succeed(f)
  BY <1>0, <1>3 DEF Succeed, Idle, server
<1>4. CASE SignIn(f)
  <2>1. signIns \in Sessions
    OBVIOUS
  <2>2. /\ Fresh(signIns) \in Tokens
        /\ live' \subseteq Tokens
        /\ issued' \in [Sessions -> 0 .. MaxRotations + 1]
    BY <1>4, <2>1, IssueType DEF SignIn
  <2>. QED BY <1>0, <1>4, <2>2 DEF SignIn, Sent
<1>5. CASE RejectSignUp(f)
  BY <1>5 DEF RejectSignUp, Idle, server, page
<1>6. CASE Unauthorized(f)
  <2>1. call' \in [Flights -> CallSet]
    <3>1. call \in [Flights -> CallSet]
      BY DEF CallSet
    <3>2. call' = [call EXCEPT ![f] = Idle] \/ call' = [call EXCEPT ![f] = Waiting(call[f])]
      BY <1>6 DEF Unauthorized
    <3>3. call[f] \in CallSet
      BY <3>1
    <3>4. Idle \in CallSet /\ Waiting(call[f]) \in CallSet
      BY <3>3, CallsAreCalls
    <3>. QED BY ONLY <3>1, <3>2, <3>4
  <2>2. refresh' \in [Flights -> RefreshSet]
    <3>1. refresh \in [Flights -> RefreshSet] /\ cookie \in Tokens \cup {NoToken}
      BY DEF RefreshSet
    <3>2. \/ refresh' = refresh
          \/ refresh' = [refresh EXCEPT ![f] = [at |-> "sent", token |-> cookie]]
      BY <1>6 DEF Unauthorized
    <3>. HIDE DEF TypeOK
    <3>. QED BY <3>1, <3>2 DEF RefreshSet
  <2>3. inFlight' \in [Pages -> Calls \cup {NoCall}]
    BY <1>0, <1>6 DEF Unauthorized
  <2>4. ASSUME NEW g \in Flights, refresh'[g].at # "none" PROVE inFlight'[g[1]] = g[2]
    <3>1. g[1] \in Pages /\ g[2] \in Calls /\ g = <<g[1], g[2]>> /\ f = <<f[1], f[2]>> /\ NoCall \notin Calls
      OBVIOUS
    <3>2. CASE inFlight[f[1]] = NoCall /\ ~call[f].replay
      <4>1. g[1] # f[1] \/ g = f
        BY <1>6, <2>4, <3>1, <3>2 DEF Unauthorized
      <4>. QED BY <1>0, <1>6, <2>4, <3>1, <3>2, <4>1 DEF Unauthorized
    <3>3. CASE ~(inFlight[f[1]] = NoCall /\ ~call[f].replay)
      BY <1>6, <2>4, <3>3 DEF Unauthorized
    <3>. QED BY <3>2, <3>3
  <2>. QED BY <1>6, <2>1, <2>2, <2>3, <2>4 DEF Unauthorized, server, CallSet, RefreshSet
<1>7. CASE FailCall(f)
  <2>1. /\ live' \subseteq Tokens /\ cookie' \in Tokens \cup {NoToken}
        /\ issued' \in [Sessions -> 0 .. MaxRotations + 1]
    <3>1. CASE UNCHANGED <<live, issued, cookie>>
      BY <3>1
    <3>2. CASE Issue(signIns) /\ cookie' \in {cookie, Fresh(signIns)}
      <4>1. signIns \in Sessions
        OBVIOUS
      <4>. QED BY <3>2, <4>1, IssueType
    <3>. QED BY <1>7, <3>1, <3>2 DEF FailCall
  <2>. QED BY <1>7, <2>1 DEF FailCall, Fault, Idle, page
<1>. QED BY <1>1, <1>2, <1>3, <1>4, <1>5, <1>6, <1>7 DEF Answer

LEMMA RefreshType ==
  ASSUME TypeOK, RedeemedHasToken, NEW f \in Flights, RefreshStep(f) \/ Settle(f)
  PROVE  TypeOK'
<1>. USE DEF TypeOK, Sessions
<1>0. f[1] \in Pages /\ f[2] \in Calls /\ f = <<f[1], f[2]>>
  OBVIOUS
<1>1. CASE Redeem(f)
  <2>1. live' \subseteq Tokens /\ spentBy' \in [Tokens -> SUBSET Pages]
    <3>1. live \subseteq Tokens /\ spentBy \in [Tokens -> SUBSET Pages]
      OBVIOUS
    <3>2. CASE refresh[f].token \in live
      BY ONLY <1>0, <1>1, <3>1, <3>2 DEF Redeem
    <3>3. CASE refresh[f].token \notin live
      BY ONLY <1>1, <3>1, <3>3 DEF Redeem
    <3>. QED BY <3>2, <3>3
  <2>2. PICK at \in {"redeemed", "rejected"} :
            refresh' = [refresh EXCEPT ![f] = [at |-> at, token |-> refresh[f].token]]
    BY <1>1 DEF Redeem, Advance
  <2>3. refresh \in [Flights -> RefreshSet] /\ refresh[f].at = "sent"
    BY <1>1 DEF Redeem, RefreshSet
  <2>4. /\ refresh' \in [Flights -> RefreshSet]
        /\ \A g \in Flights : refresh'[g].at # "none" => refresh[g].at # "none"
    BY ONLY <2>2, <2>3 DEF RefreshSet
  <2>. QED BY <1>1, <2>1, <2>4 DEF Redeem, page, RefreshSet
<1>2. CASE Rotate(f)
  <2>1. /\ refresh[f].at = "redeemed"
        /\ refresh[f].token[1] \in Sessions
        /\ Issue(refresh[f].token[1])
        /\ refresh' = [refresh EXCEPT ![f] = [at |-> "answered", token |-> Fresh(refresh[f].token[1])]]
    BY <1>2 DEF Rotate, Advance, RedeemedHasToken, Tokens
  <2>2. /\ Fresh(refresh[f].token[1]) \in Tokens
        /\ live' \subseteq Tokens
        /\ issued' \in [Sessions -> 0 .. MaxRotations + 1]
    BY <2>1, IssueType
  <2>3. refresh \in [Flights -> RefreshSet]
    BY DEF RefreshSet
  <2>4. /\ refresh' \in [Flights -> RefreshSet]
        /\ \A g \in Flights : refresh'[g].at # "none" => refresh[g].at # "none"
    BY ONLY <2>1, <2>2, <2>3 DEF RefreshSet
  <2>. QED BY <1>2, <2>2, <2>4 DEF Rotate, page, RefreshSet
<1>3. CASE FailRefresh(f)
  BY <1>0, <1>3 DEF FailRefresh, Advance, Fault, server, page
<1>4. CASE Settle(f)
  <2>2. call' \in [Flights -> CallSet]
    <3>1. (refresh[f].at = "answered") \in BOOLEAN
      OBVIOUS
    <3>2. \A g \in Flights : call[g] \in CallSet
      BY DEF CallSet
    <3>. QED BY <1>4, <3>1, <3>2, CallsAreCalls DEF Settle
  <2>3. /\ refresh' \in [Flights -> RefreshSet]
        /\ cookie' \in Tokens \cup {NoToken}
        /\ access' \in [Pages -> BOOLEAN]
        /\ inFlight' \in [Pages -> Calls \cup {NoCall}]
    BY <1>0, <1>4 DEF Settle, Silent, RefreshSet
  <2>4. ASSUME NEW g \in Flights, refresh'[g].at # "none" PROVE inFlight'[g[1]] = g[2]
    <3>1. g = <<g[1], g[2]>> /\ g[1] \in Pages
      OBVIOUS
    <3>2. g # f /\ refresh[g].at # "none" /\ refresh[f].at # "none"
      BY <1>4, <2>4 DEF Settle, Silent
    <3>3. inFlight[g[1]] = g[2] /\ inFlight[f[1]] = f[2]
      BY <3>2
    <3>4. g[1] # f[1]
      BY ONLY <1>0, <3>1, <3>2, <3>3
    <3>. QED BY <1>4, <3>1, <3>3, <3>4 DEF Settle
  <2>. QED BY <1>4, <2>2, <2>3, <2>4 DEF Settle, server, CallSet, RefreshSet
<1>. QED BY <1>1, <1>2, <1>3, <1>4 DEF RefreshStep

LEMMA PageType ==
  ASSUME TypeOK, NEW p \in Pages, StartSignOut(p) \/ SignOutStep(p) \/ Expire(p) \/ Reload(p)
  PROVE  TypeOK'
<1>. USE DEF TypeOK, Sessions
<1>1. CASE StartSignOut(p)
  BY <1>1 DEF StartSignOut, Leave, server, page
<1>2. CASE Revoke(p)
  BY <1>2 DEF Revoke, EndSession, Leave, page, Tokens
<1>3. CASE FailSignOut(p)
  BY <1>3 DEF FailSignOut, Leave, Fault, server, page
<1>4. CASE SignedOut(p)
  BY <1>4 DEF SignedOut, Leave, server
<1>5. CASE Expire(p)
  <2>1. call' \in [Flights -> CallSet]
    <3>1. \A g \in Flights : call[g] \in CallSet
      BY DEF CallSet
    <3>. QED BY <1>5, <3>1, CallsAreCalls DEF Expire
  <2>. QED BY <1>5, <2>1 DEF Expire, server, CallSet
<1>6. CASE Reload(p)
  <2>1. inFlight' \in [Pages -> Calls \cup {NoCall}]
    BY <1>6, FirstIsCall DEF Reload
  <2>2. ASSUME NEW g \in Flights, refresh'[g].at # "none" PROVE inFlight'[g[1]] = g[2]
    BY <1>6, <2>2, RestoreIsFirst DEF Reload, Silent
  <2>. QED BY <1>6, <2>1, <2>2 DEF Reload, Leave, Fault, Idle, Restore, Silent, server
<1>. QED BY <1>1, <1>2, <1>3, <1>4, <1>5, <1>6 DEF SignOutStep

-----------------------------------------------------------------------------
(***************************************************************************)
(* Tokens.  A session has one right to go on: its live token, or the       *)
(* refresh that has redeemed it and not yet issued the next.               *)
(***************************************************************************)

\* A token somebody holds has been issued.
Known(t) == t \in Tokens => t[2] < issued[t[1]]

TokensKnown ==
    /\ \A t \in live : Known(t)
    /\ Known(cookie)
    /\ \A f \in Flights : Known(refresh[f].token)
    /\ \A p \in Pages : Known(signOut[p].token)

\* Of the refreshes of a session one at most has redeemed, and then no token is live.
OneRight ==
    \A f \in Flights : refresh[f].at = "redeemed" =>
        /\ \A g \in Flights : /\ refresh[g].at = "redeemed"
                              /\ refresh[g].token[1] = refresh[f].token[1]
                              => f = g
        /\ \A t \in live : t[1] # refresh[f].token[1]

\* The session of a sign-in that is not answered, and those after it, are unused.
LoginsAreFresh ==
    /\ \A s \in Sessions : s > signIns => issued[s] = 0
    /\ \A f \in Flights : call[f].kind = "login" =>
        /\ issued[signIns] = 0
        /\ \A g \in Flights : call[g].kind = "login" => f = g

\* A session that is over has no right left, nor can it be given one.
OverIsOver ==
    \A s \in Sessions : ended[s] = "over" =>
        /\ issued[s] > 0
        /\ \A t \in live : t[1] # s
        /\ \A f \in Flights : refresh[f].at = "redeemed" => refresh[f].token[1] # s

TokenInv ==
    /\ TypeOK
    /\ RedeemedHasToken
    /\ TokensKnown
    /\ OneLiveToken
    /\ OneRight
    /\ LoginsAreFresh
    /\ OverIsOver

LEMMA NoTokenIsNone == NoToken \notin Tokens
  BY DEF NoToken, Tokens

LEMMA InitTokens == Init => TokenInv
<1>. SUFFICES ASSUME Init PROVE TokenInv
  OBVIOUS
<1>1. TypeOK
  BY InitType
<1>2. \A f \in Flights : refresh[f].at # "redeemed" /\ refresh[f].token \in {cookie, NoToken}
  BY DEF Init, Silent
<1>3. \A t \in Tokens : t = <<0, 0>> => Known(t)
  BY DEF Known, Init, Tokens, Sessions
<1>4. TokensKnown
  BY <1>2, <1>3, NoTokenIsNone DEF TokensKnown, Known, Init, Silent
<1>5. OneLiveToken
  BY DEF Init, OneLiveToken
<1>6. LoginsAreFresh
  BY DEF Init, LoginsAreFresh, Idle, Restore, Sessions
<1>7. OverIsOver
  BY DEF Init, OverIsOver
<1>. QED BY <1>1, <1>2, <1>4, <1>5, <1>6, <1>7 DEF TokenInv, RedeemedHasToken, OneRight

\* A step that issues and redeems nothing.
LEMMA TokenFrame ==
  ASSUME TokenInv, TypeOK',
         live' \subseteq live, issued' = issued, ended' = ended, signIns' = signIns,
         \A f \in Flights : refresh'[f].at = "redeemed" =>
             refresh[f].at = "redeemed" /\ refresh'[f].token = refresh[f].token,
         \A f \in Flights : refresh'[f].token \in {refresh[f].token, cookie, NoToken},
         cookie' \in {cookie, NoToken} \cup {refresh[f].token : f \in Flights},
         \A p \in Pages : signOut'[p].token \in {signOut[p].token, cookie, NoToken},
         \A f \in Flights : call'[f].kind = "login" => call[f].kind = "login"
  PROVE  TokenInv'
<1>. USE DEF TokenInv
<1>1. RedeemedHasToken'
  BY DEF RedeemedHasToken
<1>2. \A t : Known(t)' <=> Known(t)
  BY DEF Known
<1>3. TokensKnown'
  BY <1>2, NoTokenIsNone DEF TokensKnown, Known
<1>4. OneLiveToken'
  BY DEF OneLiveToken
<1>5. OneRight'
  BY DEF OneRight
<1>6. LoginsAreFresh'
  BY DEF LoginsAreFresh
<1>7. OverIsOver'
  BY DEF OverIsOver
<1>. QED BY <1>1, <1>3, <1>4, <1>5, <1>6, <1>7

\* Issuing a token of a session that has no other right.
LEMMA IssueTokens ==
  ASSUME TokenInv, NEW s \in Sessions, Issue(s), ended' = ended, signIns' = signIns,
         ended[s] # "over",
         \A t \in live : t[1] # s,
         \A f \in Flights : /\ refresh'[f].at = "redeemed"
                            => /\ refresh[f].at = "redeemed"
                               /\ refresh'[f].token = refresh[f].token
                               /\ refresh[f].token[1] # s,
         \A f \in Flights : refresh'[f].token \in {refresh[f].token, Fresh(s)},
         cookie' \in {cookie, Fresh(s)},
         signOut' = signOut,
         \A f \in Flights : call'[f].kind = "login" => call[f].kind = "login" /\ s # signIns,
         s <= signIns
  PROVE  TokensKnown' /\ OneLiveToken' /\ OneRight' /\ LoginsAreFresh' /\ OverIsOver' /\ RedeemedHasToken'
<1>. USE DEF TokenInv
<1>0. PICK new : new = <<s, issued[s]>>
  OBVIOUS
<1>1. /\ issued \in [Sessions -> Nat] /\ s \in Nat /\ signIns \in Nat
      /\ issued' = [issued EXCEPT ![s] = @ + 1]
      /\ live' = live \cup {new}
      /\ Fresh(s) = new /\ new[1] = s /\ new[2] = issued[s]
  BY <1>0 DEF TypeOK, Issue, Fresh, Sessions
<1>2. ASSUME NEW t, Known(t) \/ t = new PROVE Known(t)'
  <2>1. CASE t = new
    BY ONLY <1>1, <2>1 DEF Known
  <2>2. ASSUME Known(t), t \in Tokens PROVE t[2] < issued'[t[1]]
    <3>1. t[2] \in Nat /\ t[1] \in Sessions /\ t[2] < issued[t[1]]
      BY <2>2 DEF Known, Tokens
    <3>. QED BY ONLY <1>1, <3>1
  <2>. QED BY <1>2, <2>1, <2>2 DEF Known
<1>3. TokensKnown'
  <2>1. \A t \in live' : Known(t)'
    BY <1>1, <1>2 DEF TokensKnown
  <2>2. Known(cookie)'
    <3>1. PICK c : c = cookie'
      OBVIOUS
    <3>2. Known(c)'
      BY <1>1, <1>2, <3>1 DEF TokensKnown
    <3>. QED BY <3>1, <3>2 DEF Known
  <2>3. ASSUME NEW f \in Flights PROVE Known(refresh[f].token)'
    <3>1. PICK c : c = refresh'[f].token
      OBVIOUS
    <3>2. Known(c)'
      BY <1>1, <1>2, <3>1 DEF TokensKnown
    <3>. QED BY <3>1, <3>2 DEF Known
  <2>4. ASSUME NEW p \in Pages PROVE Known(signOut[p].token)'
    <3>1. PICK c : c = signOut'[p].token
      OBVIOUS
    <3>2. Known(c)'
      BY <1>1, <1>2, <3>1 DEF TokensKnown
    <3>. QED BY <3>1, <3>2 DEF Known
  <2>. QED BY <2>1, <2>2, <2>3, <2>4 DEF TokensKnown
<1>4. OneLiveToken'
  BY <1>1 DEF OneLiveToken
<1>5. OneRight'
  BY <1>1 DEF OneRight
<1>6. LoginsAreFresh'
  BY <1>1 DEF LoginsAreFresh
<1>7. OverIsOver'
  <2>. SUFFICES ASSUME NEW x \in Sessions, ended[x] = "over"
                PROVE  /\ issued'[x] > 0
                       /\ \A t \in live' : t[1] # x
                       /\ \A f \in Flights : refresh'[f].at = "redeemed" => refresh'[f].token[1] # x
    BY DEF OverIsOver
  <2>1. x # s /\ issued[x] > 0 /\ \A t \in live : t[1] # x
    BY DEF OverIsOver
  <2>2. \A f \in Flights : refresh'[f].at = "redeemed" => refresh'[f].token[1] # x
    BY DEF OverIsOver
  <2>. QED BY <1>1, <2>1, <2>2
<1>8. RedeemedHasToken'
  BY DEF RedeemedHasToken
<1>. QED BY <1>3, <1>4, <1>5, <1>6, <1>7, <1>8

-----------------------------------------------------------------------------
\* A sign-in that is over has given its session the first of its tokens,
\* whatever the page learns of it.
LEMMA SignInTokens ==
  ASSUME TokenInv, TypeOK', NEW f \in Flights, call[f].kind = "login",
         Issue(signIns), cookie' \in {cookie, Fresh(signIns)},
         NEW c, c.kind # "login", call' = [call EXCEPT ![f] = c],
         UNCHANGED <<ended, signIns, refresh, signOut>>
  PROVE  TokenInv'
<1>. USE DEF TokenInv
<1>1. signIns \in Sessions /\ signIns \in Nat /\ issued[signIns] = 0
  BY DEF TypeOK, Sessions, LoginsAreFresh
<1>2. \A t \in Tokens : Known(t) => t[1] # signIns
  <2>. SUFFICES ASSUME NEW t \in Tokens, Known(t), t[1] = signIns PROVE FALSE
    OBVIOUS
  <2>1. t[2] \in Nat /\ t[2] < issued[signIns]
    BY DEF Known, Tokens
  <2>. QED BY <1>1, <2>1
<1>3. \A t \in live : t[1] # signIns
  BY <1>2 DEF TokensKnown, TypeOK
<1>4. \A g \in Flights : refresh[g].at = "redeemed" => refresh[g].token[1] # signIns
  BY <1>2 DEF TokensKnown, RedeemedHasToken
<1>5. ended[signIns] # "over"
  BY <1>1 DEF OverIsOver
<1>6. \A g \in Flights : call'[g].kind # "login"
  BY DEF LoginsAreFresh, TypeOK
<1>7. refresh' = refresh /\ ended' = ended /\ signIns' = signIns /\ signOut' = signOut
  OBVIOUS
<1>. HIDE DEF TokenInv
<1>8. /\ TokensKnown' /\ OneLiveToken' /\ OneRight'
      /\ LoginsAreFresh' /\ OverIsOver' /\ RedeemedHasToken'
  <2>1. \A g \in Flights : /\ refresh'[g].at = "redeemed"
                           => /\ refresh[g].at = "redeemed"
                              /\ refresh'[g].token = refresh[g].token
                              /\ refresh[g].token[1] # signIns
    BY <1>4, <1>7
  <2>2. \A g \in Flights : refresh'[g].token \in {refresh[g].token, Fresh(signIns)}
    BY <1>7
  <2>3. cookie' \in {cookie, Fresh(signIns)} /\ Issue(signIns) /\ signIns <= signIns
    BY <1>1
  <2>4. \A g \in Flights : call'[g].kind = "login" => call[g].kind = "login" /\ signIns # signIns
    BY <1>6
  <2>5. TokenInv /\ signIns \in Sessions
    BY <1>1
  <2>. QED BY ONLY <1>3, <1>5, <1>7, <2>1, <2>2, <2>3, <2>4, <2>5, IssueTokens
<1>. QED BY <1>8 DEF TokenInv

LEMMA CallTokens ==
  ASSUME TokenInv, NEW f \in Flights, StartCall(f) \/ StartLogin(f) \/ Answer(f)
  PROVE  TokenInv'
<1>. TypeOK /\ TypeOK'
  BY CallType DEF TokenInv
<1>1. CASE StartCall(f)
  BY <1>1, TokenFrame DEF StartCall, Sent, server, TypeOK
<1>2. CASE StartLogin(f)
  <2>. USE DEF TokenInv
  <2>1. /\ UNCHANGED <<live, issued, ended, cookie, refresh, signOut>>
        /\ signIns < MaxSignIns /\ signIns' = signIns + 1
        /\ \A g \in Flights : call[g].kind # "login"
    BY <1>2 DEF StartLogin
  <2>2. call' = [call EXCEPT ![f] = Sent(f, "login", TRUE, FALSE)]
    BY <1>2 DEF StartLogin
  <2>3. RedeemedHasToken' /\ OneLiveToken' /\ OneRight' /\ OverIsOver' /\ TokensKnown'
    BY <2>1 DEF RedeemedHasToken, OneLiveToken, OneRight, OverIsOver, TokensKnown, Known
  <2>4. signIns \in Nat /\ signIns + 1 \in Sessions /\ issued[signIns + 1] = 0
    BY <2>1 DEF TypeOK, Sessions, LoginsAreFresh
  <2>5. \A g \in Flights : call'[g].kind = "login" => g = f
    <3>1. DOMAIN call = Flights
      BY DEF TypeOK
    <3>. QED BY ONLY <2>1, <2>2, <3>1
  <2>6. LoginsAreFresh'
    BY <2>1, <2>4, <2>5 DEF LoginsAreFresh, Sessions
  <2>. QED BY <2>3, <2>6
<1>3. CASE Succeed(f)
  BY <1>3, TokenFrame DEF Succeed, Idle, server, TypeOK
<1>4. CASE SignIn(f)
  <2>1. /\ Issue(signIns) /\ cookie' = Fresh(signIns)
        /\ UNCHANGED <<ended, signIns, refresh, signOut>>
        /\ call[f].kind = "login"
        /\ call' = [call EXCEPT ![f] = Sent(f, "me", TRUE, FALSE)]
    BY <1>4 DEF SignIn
  <2>2. Sent(f, "me", TRUE, FALSE).kind # "login"
    BY DEF Sent
  <2>. QED BY <2>1, <2>2, SignInTokens
<1>5. CASE RejectSignUp(f)
  BY <1>5, TokenFrame DEF RejectSignUp, Idle, server, TypeOK
<1>6. CASE Unauthorized(f)
  <2>1. \A g \in Flights : refresh'[g] \in {refresh[g], [at |-> "sent", token |-> cookie]}
    BY <1>6 DEF Unauthorized, TypeOK
  <2>2. PICK c \in {Idle, Waiting(call[f])} : call' = [call EXCEPT ![f] = c]
    BY <1>6 DEF Unauthorized
  <2>3. c.kind # "login"
    <3>1. call[f] \in CallSet
      BY DEF TypeOK, CallSet
    <3>2. Waiting(call[f]).kind # "login"
      BY ONLY <3>1 DEF CallSet, Waiting
    <3>. QED BY <2>2, <3>2 DEF Idle
  <2>4. \A g \in Flights : call'[g].kind = "login" => call[g].kind = "login"
    BY <2>2, <2>3 DEF TypeOK
  <2>. QED BY <1>6, <2>1, <2>4, TokenFrame DEF Unauthorized, server
<1>7. CASE FailCall(f)
  <2>1. CASE UNCHANGED <<live, issued, cookie>>
    BY <1>7, <2>1, TokenFrame DEF FailCall, Idle, server, TypeOK
  <2>2. CASE call[f].kind = "login" /\ Issue(signIns) /\ cookie' \in {cookie, Fresh(signIns)}
    <3>1. Idle.kind # "login" /\ call' = [call EXCEPT ![f] = Idle]
          /\ UNCHANGED <<ended, signIns, refresh, signOut>>
      BY <1>7 DEF FailCall, Idle
    <3>. QED BY <2>2, <3>1, SignInTokens
  <2>. QED BY <1>7, <2>1, <2>2 DEF FailCall
<1>. QED BY <1>1, <1>2, <1>3, <1>4, <1>5, <1>6, <1>7 DEF Answer

LEMMA RefreshTokens ==
  ASSUME TokenInv, NEW f \in Flights, RefreshStep(f) \/ Settle(f)
  PROVE  TokenInv'
<1>. TypeOK /\ TypeOK' /\ RedeemedHasToken
  BY RefreshType DEF TokenInv
<1>1. CASE Redeem(f)
  <2>1. UNCHANGED <<issued, ended, signIns, cookie, call, signOut>> /\ refresh[f].at = "sent"
    BY <1>1 DEF Redeem, page
  <2>2. CASE refresh[f].token \notin live
    <3>1. live' = live /\ refresh' = [refresh EXCEPT ![f] = [at |-> "rejected", token |-> refresh[f].token]]
      BY <1>1, <2>2 DEF Redeem, Advance
    <3>2. /\ \A g \in Flights : refresh'[g].token = refresh[g].token
          /\ \A g \in Flights : refresh'[g].at = "redeemed" => refresh[g].at = "redeemed"
      BY <3>1 DEF TypeOK
    <3>. QED BY <2>1, <3>1, <3>2, TokenFrame
  <2>3. CASE refresh[f].token \in live
    <3>. DEFINE t == refresh[f].token
    <3>. USE DEF TokenInv
    <3>1. /\ live' = live \ {t}
          /\ refresh' = [refresh EXCEPT ![f] = [at |-> "redeemed", token |-> t]]
      BY <1>1, <2>3 DEF Redeem, Advance
    <3>2. /\ \A g \in Flights : refresh'[g].token = refresh[g].token
          /\ \A g \in Flights \ {f} : refresh'[g].at = refresh[g].at
          /\ refresh'[f].at = "redeemed"
      BY <3>1 DEF TypeOK
    <3>3. t \in Tokens
      BY <2>3 DEF TypeOK
    <3>4. \A u \in live : u # t => u[1] # t[1]
      BY <2>3 DEF OneLiveToken
    <3>5. \A g \in Flights : refresh[g].at = "redeemed" => refresh[g].token[1] # t[1]
      BY <2>3 DEF OneRight
    <3>6. RedeemedHasToken'
      BY <3>2, <3>3 DEF RedeemedHasToken
    <3>7. TokensKnown'
      <4>1. \A u : Known(u)' <=> Known(u)
        BY <2>1 DEF Known
      <4>. QED BY <2>1, <3>1, <3>2, <4>1 DEF TokensKnown, Known
    <3>8. OneLiveToken'
      BY <3>1 DEF OneLiveToken
    <3>9. OneRight'
      BY <3>1, <3>2, <3>4, <3>5 DEF OneRight
    <3>10. LoginsAreFresh'
      BY <2>1 DEF LoginsAreFresh
    <3>11. OverIsOver'
      BY <2>1, <2>3, <3>1, <3>2 DEF OverIsOver
    <3>. QED BY <3>6, <3>7, <3>8, <3>9, <3>10, <3>11
  <2>. QED BY <2>2, <2>3
<1>2. CASE Rotate(f)
  <2>. DEFINE s == refresh[f].token[1]
  <2>1. /\ refresh[f].at = "redeemed" /\ Issue(s)
        /\ refresh' = [refresh EXCEPT ![f] = [at |-> "answered", token |-> Fresh(s)]]
        /\ UNCHANGED <<ended, signIns, cookie, call, signOut>>
    BY <1>2 DEF Rotate, Advance, page
  <2>2. refresh[f].token \in Tokens /\ Known(refresh[f].token)
    BY <2>1 DEF TokenInv, TokensKnown, RedeemedHasToken
  <2>3. s \in Sessions /\ s \in Nat /\ issued[s] > 0
    <3>1. /\ s \in Sessions /\ s \in Nat /\ refresh[f].token[2] \in Nat
          /\ refresh[f].token[2] < issued[s]
      BY <2>2 DEF Known, Tokens, Sessions
    <3>2. issued[s] \in Nat
      BY <3>1 DEF TypeOK
    <3>. QED BY ONLY <3>1, <3>2
  <2>4. \A t \in live : t[1] # s
    BY <2>1 DEF TokenInv, OneRight
  <2>5. \A g \in Flights : refresh[g].at = "redeemed" /\ g # f => refresh[g].token[1] # s
    BY <2>1 DEF TokenInv, OneRight
  <2>6. \A g \in Flights : /\ refresh'[g].at = "redeemed"
                           => /\ refresh[g].at = "redeemed"
                              /\ refresh'[g].token = refresh[g].token
                              /\ refresh[g].token[1] # s
    BY <2>1, <2>5 DEF TypeOK
  <2>7. \A g \in Flights : refresh'[g].token \in {refresh[g].token, Fresh(s)}
    BY <2>1 DEF TypeOK
  <2>8. ended[s] # "over"
    BY <2>1, <2>3 DEF TokenInv, OverIsOver
  <2>9. s <= signIns
    BY <2>3 DEF TokenInv, LoginsAreFresh, TypeOK, Sessions
  <2>10. \A g \in Flights : call'[g].kind = "login" => call[g].kind = "login" /\ s # signIns
    BY <2>1, <2>3 DEF TokenInv, LoginsAreFresh
  <2>11. ended' = ended /\ signIns' = signIns /\ cookie' = cookie /\ signOut' = signOut
    BY <2>1
  <2>. HIDE DEF s
  <2>12. /\ TokensKnown' /\ OneLiveToken' /\ OneRight'
         /\ LoginsAreFresh' /\ OverIsOver' /\ RedeemedHasToken'
    BY <2>1, <2>3, <2>4, <2>6, <2>7, <2>8, <2>9, <2>10, <2>11, IssueTokens
  <2>. QED BY <2>12 DEF TokenInv
<1>3. CASE FailRefresh(f)
  BY <1>3, TokenFrame DEF FailRefresh, Advance, server, TypeOK
<1>4. CASE Settle(f)
  <2>1. /\ \A g \in Flights : refresh'[g] \in {refresh[g], Silent}
        /\ cookie' \in {cookie, refresh[f].token}
    BY <1>4 DEF Settle, TypeOK
  <2>2. ASSUME NEW c \in CallSet, NEW ok \in BOOLEAN, Resumed(c, ok).kind = "login"
        PROVE  c.kind = "login"
    BY <2>2 DEF Resumed, Idle, CallSet
  <2>3. \A g \in Flights : call[g] \in CallSet
    BY DEF TypeOK, CallSet
  <2>4. \A g \in Flights : call'[g].kind = "login" => call[g].kind = "login"
    <3>1. (refresh[f].at = "answered") \in BOOLEAN
      OBVIOUS
    <3>. QED BY <1>4, <2>2, <2>3, <3>1 DEF Settle
  <2>. QED BY <1>4, <2>1, <2>4, TokenFrame DEF Settle, Silent, server
<1>. QED BY <1>1, <1>2, <1>3, <1>4 DEF RefreshStep

LEMMA PageTokens ==
  ASSUME TokenInv, NEW p \in Pages, StartSignOut(p) \/ SignOutStep(p) \/ Expire(p) \/ Reload(p)
  PROVE  TokenInv'
<1>. TypeOK /\ TypeOK'
  BY PageType DEF TokenInv
<1>1. CASE StartSignOut(p)
  BY <1>1, TokenFrame DEF StartSignOut, Leave, server, TypeOK
<1>2. CASE Revoke(p)
  <2>. USE DEF TokenInv
  <2>. DEFINE t == signOut[p].token
  <2>1. /\ UNCHANGED <<issued, signIns, cookie, call, refresh>>
        /\ live' = live \ {t}
        /\ signOut' = [signOut EXCEPT ![p] = [at |-> "done", token |-> NoToken]]
    BY <1>2 DEF Revoke, Leave
  <2>2. RedeemedHasToken' /\ OneLiveToken' /\ OneRight' /\ LoginsAreFresh'
    BY <2>1 DEF RedeemedHasToken, OneLiveToken, OneRight, LoginsAreFresh
  <2>3. TokensKnown'
    <3>1. \A u : Known(u)' <=> Known(u)
      BY <2>1 DEF Known
    <3>2. \A q \in Pages : signOut'[q].token \in {signOut[q].token, NoToken}
      BY <2>1 DEF TypeOK
    <3>. QED BY <2>1, <3>1, <3>2, NoTokenIsNone DEF TokensKnown, Known
  <2>4. ASSUME NEW s \in Sessions, ended'[s] = "over", ended[s] # "over"
        PROVE  t \in live /\ t[1] = s
    BY <1>2, <2>4 DEF Revoke, EndSession, TypeOK
  <2>5. OverIsOver'
    <3>. SUFFICES ASSUME NEW s \in Sessions, ended'[s] = "over"
                  PROVE  /\ issued[s] > 0
                         /\ \A u \in live' : u[1] # s
                         /\ \A f \in Flights : refresh[f].at = "redeemed" => refresh[f].token[1] # s
      BY <2>1 DEF OverIsOver
    <3>1. CASE ended[s] = "over"
      BY <2>1, <3>1 DEF OverIsOver
    <3>2. CASE ended[s] # "over"
      <4>1. t \in live /\ t[1] = s
        BY <2>4, <3>2
      <4>2. t[2] \in Nat /\ t[2] < issued[s] /\ issued[s] \in Nat
        BY <4>1 DEF TokensKnown, Known, TypeOK, Tokens
      <4>3. \A u \in live' : u[1] # s
        BY <2>1, <4>1 DEF OneLiveToken
      <4>4. \A f \in Flights : refresh[f].at = "redeemed" => refresh[f].token[1] # s
        BY <4>1 DEF OneRight
      <4>5. issued[s] > 0
        BY ONLY <4>2
      <4>. QED BY <4>3, <4>4, <4>5
    <3>. QED BY <3>1, <3>2
  <2>. QED BY <2>2, <2>3, <2>5
<1>3. CASE FailSignOut(p)
  <2>1. PICK at \in {"lost", "done"} : signOut' = [signOut EXCEPT ![p] = [at |-> at, token |-> NoToken]]
    BY <1>3 DEF FailSignOut, Leave
  <2>2. \A q \in Pages : signOut'[q].token \in {signOut[q].token, NoToken}
    BY <2>1 DEF TypeOK
  <2>. QED BY <1>3, <2>2, TokenFrame DEF FailSignOut, server
<1>4. CASE SignedOut(p)
  BY <1>4, TokenFrame DEF SignedOut, Leave, server, TypeOK
<1>5. CASE Expire(p)
  BY <1>5, TokenFrame DEF Expire, server, TypeOK
<1>6. CASE Reload(p)
  BY <1>6, TokenFrame DEF Reload, Leave, Restore, Idle, Silent, server, TypeOK
<1>. QED BY <1>1, <1>2, <1>3, <1>4, <1>5, <1>6 DEF SignOutStep

-----------------------------------------------------------------------------
(***************************************************************************)
(* Waiting calls.  A page that waits has a refresh running, and a call     *)
(* waits only in such a page.                                              *)
(***************************************************************************)

RefreshRuns ==
    \A p \in Pages : inFlight[p] # NoCall =>
        /\ <<p, inFlight[p]>> \in Flights
        /\ refresh[<<p, inFlight[p]>>].at # "none"

PageWaits == \A f \in Flights : call[f].at = "waiting" => inFlight[f[1]] # NoCall

WaitInv == RefreshRuns /\ PageWaits

LEMMA InitWaiters == Init => WaitInv
<1>. SUFFICES ASSUME Init PROVE WaitInv
  OBVIOUS
<1>1. ASSUME NEW p \in Pages
      PROVE  /\ inFlight[p] # NoCall
             /\ <<p, inFlight[p]>> \in Flights
             /\ refresh[<<p, inFlight[p]>>].at # "none"
  <2>1. inFlight[p] = First(p) /\ <<p, First(p)>> \in Flights /\ First(p) # NoCall
    BY FirstIsCall DEF Init
  <2>2. Restores(<<p, First(p)>>)
    BY DEF Restores
  <2>. QED BY <2>1, <2>2 DEF Init
<1>2. \A f \in Flights : f[1] \in Pages
  OBVIOUS
<1>. QED BY <1>1, <1>2 DEF WaitInv, RefreshRuns, PageWaits

\* A step after which every page waits as before, and no other call does.
LEMMA WaitFrame ==
  ASSUME WaitInv, inFlight' = inFlight,
         \A f \in Flights : call'[f].at = "waiting" => call[f].at = "waiting",
         \A f \in Flights : refresh[f].at # "none" => refresh'[f].at # "none"
  PROVE  WaitInv'
  BY DEF WaitInv, RefreshRuns, PageWaits

LEMMA CallWaiters ==
  ASSUME WaitInv, TypeOK, NEW f \in Flights, StartCall(f) \/ StartLogin(f) \/ Answer(f)
  PROVE  WaitInv'
<1>1. CASE StartCall(f)
  BY <1>1, WaitFrame DEF StartCall, Sent, page, TypeOK
<1>2. CASE StartLogin(f)
  BY <1>2, WaitFrame DEF StartLogin, Sent, page, TypeOK
<1>3. CASE Succeed(f)
  BY <1>3, WaitFrame DEF Succeed, Idle, TypeOK
<1>4. CASE SignIn(f)
  BY <1>4, WaitFrame DEF SignIn, Sent, TypeOK
<1>5. CASE RejectSignUp(f)
  BY <1>5, WaitFrame DEF RejectSignUp, Idle, page, TypeOK
<1>6. CASE FailCall(f)
  BY <1>6, WaitFrame DEF FailCall, Idle, page, TypeOK
<1>7. CASE Unauthorized(f)
  <2>1. CASE call[f].replay
    <3>1. call' = [call EXCEPT ![f] = Idle] /\ UNCHANGED <<refresh, inFlight>>
      BY <1>7, <2>1 DEF Unauthorized
    <3>. QED BY <3>1, WaitFrame DEF Idle, TypeOK
  <2>2. CASE ~call[f].replay
    <3>1. \A g \in Flights \ {f} : call'[g] = call[g]
      BY <1>7, <2>2 DEF Unauthorized, TypeOK
    <3>2. f[1] \in Pages /\ f[2] \in Calls /\ f = <<f[1], f[2]>> /\ f[2] # NoCall
      OBVIOUS
    <3>3. CASE inFlight[f[1]] = NoCall
      <4>1. /\ refresh' = [refresh EXCEPT ![f] = [at |-> "sent", token |-> cookie]]
            /\ inFlight' = [inFlight EXCEPT ![f[1]] = f[2]]
        BY <1>7, <2>2, <3>3 DEF Unauthorized
      <4>2. inFlight'[f[1]] = f[2] /\ \A p \in Pages \ {f[1]} : inFlight'[p] = inFlight[p]
        BY <3>2, <4>1 DEF TypeOK
      <4>3. refresh'[f].at = "sent" /\ \A g \in Flights \ {f} : refresh'[g] = refresh[g]
        BY <4>1 DEF TypeOK
      <4>4. RefreshRuns'
        BY <3>2, <4>2, <4>3 DEF WaitInv, RefreshRuns
      <4>5. PageWaits'
        BY <3>1, <3>2, <4>2 DEF WaitInv, PageWaits
      <4>. QED BY <4>4, <4>5 DEF WaitInv
    <3>4. CASE inFlight[f[1]] # NoCall
      <4>1. UNCHANGED <<refresh, inFlight>>
        BY <1>7, <2>2, <3>4 DEF Unauthorized
      <4>. QED BY <3>1, <3>4, <4>1 DEF WaitInv, RefreshRuns, PageWaits
    <3>. QED BY <3>3, <3>4
  <2>. QED BY <2>1, <2>2
<1>. QED BY <1>1, <1>2, <1>3, <1>4, <1>5, <1>6, <1>7 DEF Answer

LEMMA RefreshWaiters ==
  ASSUME WaitInv, TypeOK, NEW f \in Flights, RefreshStep(f) \/ Settle(f)
  PROVE  WaitInv'
<1>0. f[1] \in Pages /\ f = <<f[1], f[2]>>
  OBVIOUS
<1>1. CASE RefreshStep(f)
  <2>1. UNCHANGED <<call, inFlight>>
    BY <1>1 DEF RefreshStep, Redeem, Rotate, FailRefresh, page
  <2>2. PICK r : refresh' = [refresh EXCEPT ![f] = r] /\ r.at # "none"
    <3>1. CASE Redeem(f)
      BY <3>1 DEF Redeem, Advance
    <3>2. CASE Rotate(f)
      BY <3>2 DEF Rotate, Advance
    <3>3. CASE FailRefresh(f)
      BY <3>3 DEF FailRefresh, Advance
    <3>. QED BY <1>1, <3>1, <3>2, <3>3 DEF RefreshStep
  <2>. QED BY <2>1, <2>2, WaitFrame DEF TypeOK
<1>2. CASE Settle(f)
  <2>1. /\ inFlight' = [inFlight EXCEPT ![f[1]] = NoCall]
        /\ refresh' = [refresh EXCEPT ![f] = Silent]
        /\ call' = [g \in Flights |-> IF g[1] = f[1] /\ call[g].at = "waiting"
                        THEN Resumed(call[g], refresh[f].at = "answered") ELSE call[g]]
    BY <1>2 DEF Settle
  <2>2. inFlight'[f[1]] = NoCall /\ \A p \in Pages \ {f[1]} : inFlight'[p] = inFlight[p]
    BY <1>0, <2>1 DEF TypeOK
  <2>3. \A g \in Flights \ {f} : refresh'[g] = refresh[g]
    BY <2>1 DEF TypeOK
  <2>4. ASSUME NEW p \in Pages, p # f[1], <<p, inFlight[p]>> \in Flights
        PROVE  <<p, inFlight[p]>> # f
    BY <1>0, <2>4
  <2>5. RefreshRuns'
    BY <2>2, <2>3, <2>4 DEF WaitInv, RefreshRuns
  <2>6. ASSUME NEW g \in Flights, call'[g].at = "waiting" PROVE inFlight'[g[1]] # NoCall
    <3>1. g[1] \in Pages
      OBVIOUS
    <3>2. \A c \in CallSet, ok \in BOOLEAN : Resumed(c, ok).at # "waiting"
      BY DEF Resumed, Idle, CallSet
    <3>3. call[g] \in CallSet /\ (refresh[f].at = "answered") \in BOOLEAN
      BY DEF TypeOK, CallSet
    <3>4. g[1] # f[1] /\ call'[g] = call[g]
      BY <2>1, <2>6, <3>2, <3>3
    <3>. QED BY <2>2, <2>6, <3>1, <3>4 DEF WaitInv, PageWaits
  <2>. QED BY <2>5, <2>6 DEF WaitInv, PageWaits
<1>. QED BY <1>1, <1>2

LEMMA PageWaiters ==
  ASSUME WaitInv, TypeOK, NEW p \in Pages,
         StartSignOut(p) \/ SignOutStep(p) \/ Expire(p) \/ Reload(p)
  PROVE  WaitInv'
<1>1. CASE StartSignOut(p) \/ SignOutStep(p)
  BY <1>1, WaitFrame DEF StartSignOut, SignOutStep, Revoke, FailSignOut, SignedOut, page
<1>2. CASE Expire(p)
  BY <1>2, WaitFrame DEF Expire, TypeOK
<1>3. CASE Reload(p)
  <2>1. /\ inFlight' = [inFlight EXCEPT ![p] = First(p)]
        /\ \A g \in Flights : g[1] # p => call'[g] = call[g] /\ refresh'[g] = refresh[g]
        /\ \A g \in Flights : g[1] = p /\ Restores(g) => refresh'[g].at = "sent"
    BY <1>3 DEF Reload
  <2>2. /\ inFlight'[p] = First(p) /\ First(p) # NoCall /\ <<p, First(p)>> \in Flights
        /\ \A q \in Pages \ {p} : inFlight'[q] = inFlight[q]
    BY <2>1, FirstIsCall DEF TypeOK
  <2>3. Restores(<<p, First(p)>>)
    BY DEF Restores
  <2>4. RefreshRuns'
    <3>1. refresh'[<<p, First(p)>>].at = "sent"
      BY <2>1, <2>2, <2>3
    <3>. QED BY <2>1, <2>2, <3>1 DEF WaitInv, RefreshRuns
  <2>5. \A g \in Flights : g[1] \in Pages
    OBVIOUS
  <2>6. PageWaits'
    BY <2>1, <2>2, <2>5 DEF WaitInv, PageWaits
  <2>. QED BY <2>4, <2>6 DEF WaitInv
<1>. QED BY <1>1, <1>2, <1>3

LEMMA StepWaiters == WaitInv /\ TypeOK /\ [Next]_vars => WaitInv'
<1>. SUFFICES ASSUME WaitInv, TypeOK, [Next]_vars PROVE WaitInv'
  OBVIOUS
<1>1. CASE UNCHANGED vars
  BY <1>1, WaitFrame DEF vars, page
<1>2. ASSUME NEW f \in Flights,
             StartCall(f) \/ StartLogin(f) \/ Answer(f) \/ RefreshStep(f) \/ Settle(f)
      PROVE  WaitInv'
  BY <1>2, CallWaiters, RefreshWaiters
<1>3. ASSUME NEW p \in Pages, StartSignOut(p) \/ SignOutStep(p) \/ Expire(p) \/ Reload(p)
      PROVE  WaitInv'
  BY <1>3, PageWaiters
<1>. QED BY <1>1, <1>2, <1>3 DEF Next

LEMMA StepTokens == TokenInv /\ [Next]_vars => TokenInv'
<1>. SUFFICES ASSUME TokenInv, [Next]_vars PROVE TokenInv'
  OBVIOUS
<1>1. CASE UNCHANGED vars
  BY <1>1 DEF vars, server, page, TokenInv, TypeOK, RedeemedHasToken, TokensKnown, Known,
              OneLiveToken, OneRight, LoginsAreFresh, OverIsOver
<1>2. ASSUME NEW f \in Flights,
             StartCall(f) \/ StartLogin(f) \/ Answer(f) \/ RefreshStep(f) \/ Settle(f)
      PROVE  TokenInv'
  BY <1>2, CallTokens, RefreshTokens
<1>3. ASSUME NEW p \in Pages, StartSignOut(p) \/ SignOutStep(p) \/ Expire(p) \/ Reload(p)
      PROVE  TokenInv'
  BY <1>3, PageTokens
<1>. QED BY <1>1, <1>2, <1>3 DEF Next

LEMMA TokensAlways == Spec => []TokenInv
<1>. QED BY InitTokens, StepTokens, PTL DEF Spec

-----------------------------------------------------------------------------
(***************************************************************************)
(* Races.  A token that a page has spent stays in the cookie only until    *)
(* the page's refresh delivers the next, and the page starts no refresh    *)
(* before that.                                                            *)
(***************************************************************************)

\* A refresh of the page has redeemed its token and has not delivered the next.
Spending(p) == \E f \in Flights : f[1] = p /\ refresh[f].at \in {"redeemed", "answered"}

SpentAreKnown == \A t \in Tokens : spentBy[t] # {} => Known(t)

CookieIsRight == cookie \in Tokens => \A p \in spentBy[cookie] : Spending(p)

\* Nobody else has the token an answer carries before the answer arrives.
AnswersAreNew ==
    \A f \in Flights : refresh[f].at = "answered" =>
        /\ refresh[f].token \in Tokens \ {cookie}
        /\ spentBy[refresh[f].token] = {}
        /\ \A g \in Flights : refresh[g].token = refresh[f].token => g = f

SpentByOthers ==
    \A f \in Flights : /\ refresh[f].at \in {"sent", "rejected"}
                       /\ refresh[f].token \in Tokens
                       => f[1] \notin spentBy[refresh[f].token]

NoRace == SpentAreKnown /\ CookieIsRight /\ AnswersAreNew /\ SpentByOthers

LEMMA InitRaces == Init => NoRace
<1>. SUFFICES ASSUME Init PROVE NoRace
  OBVIOUS
<1>1. \A t \in Tokens : spentBy[t] = {}
  BY DEF Init
<1>2. \A f \in Flights : refresh[f].at # "answered"
  BY DEF Init, Silent
<1>. QED BY <1>1, <1>2 DEF NoRace, SpentAreKnown, CookieIsRight, AnswersAreNew, SpentByOthers

\* A step that changes no refresh and delivers no token.
LEMMA RaceFrame ==
  ASSUME NoRace, refresh' = refresh, spentBy' = spentBy, issued' = issued,
         cookie' \in {cookie, NoToken}
  PROVE  NoRace'
<1>. USE NoTokenIsNone DEF NoRace
<1>1. SpentAreKnown'
  BY DEF SpentAreKnown, Known
<1>2. CookieIsRight'
  BY DEF CookieIsRight, Spending
<1>3. AnswersAreNew'
  BY DEF AnswersAreNew
<1>4. SpentByOthers'
  BY DEF SpentByOthers
<1>. QED BY <1>1, <1>2, <1>3, <1>4

\* The token of a new row is nobody's.
LEMMA IssuedIsNew ==
  ASSUME TokenInv, NoRace, NEW s \in Sessions, Issue(s)
  PROVE  /\ Fresh(s) \in Tokens /\ spentBy[Fresh(s)] = {} /\ cookie # Fresh(s)
         /\ \A f \in Flights : refresh[f].token # Fresh(s)
         /\ \A t \in Tokens : Known(t) => Known(t)'
<1>1. Fresh(s) \in Tokens
  BY IssueType DEF TokenInv
<1>2. issued[s] \in Nat /\ Fresh(s)[1] = s /\ Fresh(s)[2] = issued[s]
  BY DEF TokenInv, TypeOK, Fresh
<1>3. ~Known(Fresh(s))
  BY <1>1, <1>2 DEF Known
<1>4. spentBy[Fresh(s)] = {}
  BY <1>1, <1>3 DEF NoRace, SpentAreKnown
<1>5. cookie # Fresh(s) /\ \A f \in Flights : refresh[f].token # Fresh(s)
  BY <1>3 DEF TokenInv, TokensKnown
<1>6. ASSUME NEW t \in Tokens, Known(t) PROVE Known(t)'
  <2>1. t[1] \in Sessions /\ t[2] \in Nat /\ t[2] < issued[t[1]]
    BY <1>6 DEF Known, Tokens
  <2>2. issued \in [Sessions -> Nat] /\ issued' = [issued EXCEPT ![s] = @ + 1]
    BY DEF TokenInv, TypeOK, Issue
  <2>3. t[2] < issued'[t[1]]
    BY ONLY <2>1, <2>2
  <2>. QED BY <2>3 DEF Known
<1>. QED BY <1>1, <1>4, <1>5, <1>6

LEMMA SignInRaces ==
  ASSUME TokenInv, NoRace, NEW f \in Flights, SignIn(f)
  PROVE  NoRace'
<1>1. signIns \in Sessions /\ Issue(signIns)
  BY DEF SignIn, TokenInv, TypeOK
<1>. DEFINE new == Fresh(signIns)
<1>2. /\ new \in Tokens /\ spentBy[new] = {}
      /\ \A g \in Flights : refresh[g].token # new
      /\ \A t \in Tokens : Known(t) => Known(t)'
  BY <1>1, IssuedIsNew
<1>3. cookie' = new /\ spentBy' = spentBy /\ refresh' = refresh
  BY DEF SignIn
<1>. USE DEF NoRace
<1>. HIDE DEF new
<1>4. SpentAreKnown'
  BY <1>2, <1>3 DEF SpentAreKnown
<1>5. CookieIsRight'
  BY <1>2, <1>3 DEF CookieIsRight
<1>6. AnswersAreNew'
  BY <1>2, <1>3 DEF AnswersAreNew
<1>7. SpentByOthers'
  BY <1>3 DEF SpentByOthers
<1>. QED BY <1>4, <1>5, <1>6, <1>7

\* The page has no refresh in flight when it starts one.
LEMMA UnauthorizedRaces ==
  ASSUME TokenInv, NoRace, NEW f \in Flights, Unauthorized(f)
  PROVE  NoRace'
<1>1. CASE refresh' = refresh
  BY <1>1, RaceFrame DEF Unauthorized, server
<1>2. CASE refresh' # refresh
  <2>1. /\ inFlight[f[1]] = NoCall
        /\ refresh' = [refresh EXCEPT ![f] = [at |-> "sent", token |-> cookie]]
        /\ UNCHANGED <<spentBy, issued, cookie>>
    BY <1>2 DEF Unauthorized, server
  <2>2. \A g \in Flights : g[1] = f[1] => refresh[g].at = "none"
    <3>1. \A g \in Flights : g[2] # NoCall
      OBVIOUS
    <3>. QED BY <2>1, <3>1 DEF TokenInv, TypeOK
  <2>3. /\ refresh'[f].at = "sent" /\ refresh'[f].token = cookie
        /\ \A g \in Flights \ {f} : refresh'[g] = refresh[g]
    BY <2>1 DEF TokenInv, TypeOK
  <2>. USE DEF NoRace
  <2>4. SpentAreKnown'
    BY <2>1 DEF SpentAreKnown, Known
  <2>5. CookieIsRight'
    <3>1. ASSUME NEW p, Spending(p) PROVE Spending(p)'
      BY <2>2, <2>3, <3>1 DEF Spending
    <3>. QED BY <2>1, <3>1 DEF CookieIsRight
  <2>6. AnswersAreNew'
    <3>. SUFFICES ASSUME NEW g \in Flights, refresh'[g].at = "answered"
                  PROVE  /\ refresh'[g].token \in Tokens \ {cookie}
                         /\ spentBy[refresh'[g].token] = {}
                         /\ \A h \in Flights : refresh'[h].token = refresh'[g].token => h = g
      BY <2>1 DEF AnswersAreNew
    <3>1. g # f /\ refresh'[g] = refresh[g]
      BY <2>3
    <3>2. /\ refresh[g].token \in Tokens \ {cookie} /\ spentBy[refresh[g].token] = {}
          /\ \A h \in Flights : refresh[h].token = refresh[g].token => h = g
      BY <3>1 DEF AnswersAreNew
    <3>. QED BY <2>3, <3>1, <3>2
  <2>7. SpentByOthers'
    <3>1. ~Spending(f[1])
      BY <2>2 DEF Spending
    <3>2. cookie \in Tokens => f[1] \notin spentBy[cookie]
      BY <3>1 DEF CookieIsRight
    <3>. QED BY <2>1, <2>3, <3>2 DEF SpentByOthers
  <2>. QED BY <2>4, <2>5, <2>6, <2>7
<1>. QED BY <1>1, <1>2

\* The only page that has spent the token now is one that waits for the next.
LEMMA RedeemRaces ==
  ASSUME TokenInv, NoRace, NEW f \in Flights, Redeem(f)
  PROVE  NoRace'
<1>. DEFINE t == refresh[f].token
<1>0. refresh[f].at = "sent" /\ issued' = issued /\ cookie' = cookie
  BY DEF Redeem
<1>1. PICK at \in {"redeemed", "rejected"} :
          /\ refresh' = [refresh EXCEPT ![f] = [at |-> at, token |-> t]]
          /\ IF t \in live THEN at = "redeemed" /\ spentBy' = [spentBy EXCEPT ![t] = {f[1]}]
                           ELSE at = "rejected" /\ spentBy' = spentBy
  BY DEF Redeem, Advance
<1>2. /\ refresh'[f].at = at /\ refresh'[f].token = t
      /\ \A g \in Flights \ {f} : refresh'[g] = refresh[g]
  BY <1>1 DEF TokenInv, TypeOK
<1>3. t \in live => t \in Tokens /\ Known(t)
  BY DEF TokenInv, TypeOK, TokensKnown
<1>4. \A u \in Tokens : \/ u = t /\ t \in live /\ spentBy'[u] = {f[1]}
                        \/ (u # t \/ t \notin live) /\ spentBy'[u] = spentBy[u]
  BY <1>1, <1>3 DEF TokenInv, TypeOK
<1>. USE DEF NoRace
<1>5. SpentAreKnown'
  BY <1>0, <1>3, <1>4 DEF SpentAreKnown, Known
<1>6. CookieIsRight'
  <2>1. ASSUME NEW p, Spending(p) PROVE Spending(p)'
    BY <1>0, <1>2, <2>1 DEF Spending
  <2>2. t \in live => Spending(f[1])'
    BY <1>1, <1>2 DEF Spending
  <2>. QED BY <1>0, <1>4, <2>1, <2>2 DEF CookieIsRight
<1>7. AnswersAreNew'
  <2>. SUFFICES ASSUME NEW g \in Flights, refresh'[g].at = "answered"
                PROVE  /\ refresh'[g].token \in Tokens \ {cookie}
                       /\ spentBy'[refresh'[g].token] = {}
                       /\ \A h \in Flights : refresh'[h].token = refresh'[g].token => h = g
    BY <1>0 DEF AnswersAreNew
  <2>1. g # f /\ refresh'[g] = refresh[g]
    BY <1>2
  <2>2. /\ refresh[g].token \in Tokens \ {cookie} /\ spentBy[refresh[g].token] = {}
        /\ \A h \in Flights : refresh[h].token = refresh[g].token => h = g
    BY <2>1 DEF AnswersAreNew
  <2>. QED BY <1>2, <1>4, <2>1, <2>2
<1>8. SpentByOthers'
  <2>1. ASSUME NEW g \in Flights, g # f, refresh[g].at # "none" PROVE g[1] # f[1]
    <3>1. g = <<g[1], g[2]>> /\ f = <<f[1], f[2]>>
      OBVIOUS
    <3>2. inFlight[g[1]] = g[2] /\ inFlight[f[1]] = f[2]
      BY <1>0, <2>1 DEF TokenInv, TypeOK
    <3>. QED BY ONLY <2>1, <3>1, <3>2
  <2>. SUFFICES ASSUME NEW g \in Flights, refresh'[g].at \in {"sent", "rejected"},
                       refresh'[g].token \in Tokens
                PROVE  g[1] \notin spentBy'[refresh'[g].token]
    BY DEF SpentByOthers
  <2>2. CASE g = f
    <3>1. t \notin live
      BY <1>1, <1>2, <2>2
    <3>. QED BY <1>0, <1>2, <1>4, <2>2, <3>1 DEF SpentByOthers
  <2>3. CASE g # f
    <3>1. g[1] # f[1] /\ g[1] \notin spentBy[refresh[g].token] /\ refresh'[g] = refresh[g]
      BY <1>2, <2>1, <2>3 DEF SpentByOthers
    <3>. QED BY <1>4, <3>1
  <2>. QED BY <2>2, <2>3
<1>. QED BY <1>5, <1>6, <1>7, <1>8

LEMMA RotateRaces ==
  ASSUME TokenInv, NoRace, NEW f \in Flights, Rotate(f)
  PROVE  NoRace'
<1>. DEFINE s == refresh[f].token[1]
<1>1. /\ refresh[f].at = "redeemed" /\ Issue(s) /\ s \in Sessions
      /\ refresh' = [refresh EXCEPT ![f] = [at |-> "answered", token |-> Fresh(s)]]
      /\ UNCHANGED <<spentBy, cookie>>
  BY DEF Rotate, Advance, TokenInv, RedeemedHasToken, Tokens
<1>2. PICK new : new = Fresh(s)
  OBVIOUS
<1>3. /\ new \in Tokens /\ spentBy[new] = {} /\ cookie # new
      /\ \A g \in Flights : refresh[g].token # new
      /\ \A t \in Tokens : Known(t) => Known(t)'
  <2>. HIDE DEF s
  <2>. QED BY <1>1, <1>2, IssuedIsNew
<1>4. /\ refresh'[f].at = "answered" /\ refresh'[f].token = new
      /\ \A g \in Flights \ {f} : refresh'[g] = refresh[g]
  BY <1>1, <1>2 DEF TokenInv, TypeOK
<1>. HIDE DEF s
<1>. USE DEF NoRace
<1>5. SpentAreKnown'
  BY <1>1, <1>3 DEF SpentAreKnown
<1>6. CookieIsRight'
  <2>1. ASSUME NEW p, Spending(p) PROVE Spending(p)'
    BY <1>4, <2>1 DEF Spending
  <2>. QED BY <1>1, <2>1 DEF CookieIsRight
<1>7. AnswersAreNew'
  BY <1>1, <1>3, <1>4 DEF AnswersAreNew
<1>8. SpentByOthers'
  BY <1>1, <1>4 DEF SpentByOthers
<1>. QED BY <1>5, <1>6, <1>7, <1>8

\* An answer replaces the token the page has spent.
LEMMA SettleRaces ==
  ASSUME TokenInv, NoRace, NEW f \in Flights, Settle(f)
  PROVE  NoRace'
<1>1. /\ refresh[f].at \in {"answered", "rejected"}
      /\ cookie' = IF refresh[f].at = "answered" THEN refresh[f].token ELSE cookie
      /\ refresh' = [refresh EXCEPT ![f] = Silent]
      /\ UNCHANGED <<spentBy, issued>>
  BY DEF Settle, server
<1>2. /\ refresh'[f].at = "none" /\ refresh'[f].token = NoToken
      /\ \A g \in Flights \ {f} : refresh'[g] = refresh[g]
  BY <1>1 DEF TokenInv, TypeOK, Silent
<1>. USE DEF NoRace
<1>3. SpentAreKnown'
  BY <1>1 DEF SpentAreKnown, Known
<1>4. CookieIsRight'
  <2>1. CASE refresh[f].at = "answered"
    BY <1>1, <2>1 DEF CookieIsRight, AnswersAreNew
  <2>2. CASE refresh[f].at = "rejected"
    <3>1. ASSUME NEW p, Spending(p) PROVE Spending(p)'
      BY <1>2, <2>2, <3>1 DEF Spending
    <3>. QED BY <1>1, <2>2, <3>1 DEF CookieIsRight
  <2>. QED BY <1>1, <2>1, <2>2
<1>5. AnswersAreNew'
  BY <1>1, <1>2, NoTokenIsNone DEF AnswersAreNew
<1>6. SpentByOthers'
  BY <1>1, <1>2 DEF SpentByOthers
<1>. QED BY <1>3, <1>4, <1>5, <1>6

CalmNoRace == faults = 0 => NoRace

LEMMA StepRaces == TokenInv /\ CalmNoRace /\ [Next]_vars => CalmNoRace'
<1>. SUFFICES ASSUME TokenInv, CalmNoRace, [Next]_vars, faults' = 0 PROVE NoRace'
  BY DEF CalmNoRace
<1>0. ~Fault
  BY DEF Fault, TokenInv, TypeOK
<1>1. CASE UNCHANGED vars
  BY <1>1, RaceFrame DEF vars, server, CalmNoRace
<1>2. ASSUME NEW f \in Flights,
             StartCall(f) \/ StartLogin(f) \/ Answer(f) \/ RefreshStep(f) \/ Settle(f)
      PROVE  NoRace'
  <2>0. faults = 0 /\ NoRace
    BY <1>0, <1>2 DEF StartCall, StartLogin, Answer, Succeed, SignIn, RejectSignUp, Unauthorized,
                      FailCall, RefreshStep, Redeem, Rotate, FailRefresh, Settle, CalmNoRace
  <2>1. CASE StartCall(f) \/ StartLogin(f) \/ Succeed(f) \/ RejectSignUp(f)
    BY <2>0, <2>1, RaceFrame DEF StartCall, StartLogin, Succeed, RejectSignUp, server
  <2>2. CASE Answer(f) /\ ~(Succeed(f) \/ RejectSignUp(f))
    BY <1>0, <2>0, <2>2, SignInRaces, UnauthorizedRaces DEF Answer, FailCall
  <2>3. CASE RefreshStep(f)
    BY <1>0, <2>0, <2>3, RedeemRaces, RotateRaces DEF RefreshStep, FailRefresh
  <2>4. CASE Settle(f)
    BY <2>0, <2>4, SettleRaces
  <2>. QED BY <1>2, <2>1, <2>2, <2>3, <2>4
<1>3. ASSUME NEW p \in Pages, StartSignOut(p) \/ SignOutStep(p) \/ Expire(p) \/ Reload(p)
      PROVE  NoRace'
  <2>1. StartSignOut(p) \/ Revoke(p) \/ SignedOut(p) \/ Expire(p)
    BY <1>0, <1>3 DEF SignOutStep, FailSignOut, Reload
  <2>2. /\ faults' = faults /\ refresh' = refresh
        /\ spentBy' = spentBy /\ issued' = issued /\ cookie' \in {cookie, NoToken}
    BY <2>1 DEF StartSignOut, Revoke, SignedOut, Expire, server
  <2>. QED BY <2>2, RaceFrame DEF CalmNoRace
<1>. QED BY <1>1, <1>2, <1>3 DEF Next

-----------------------------------------------------------------------------
\* Every reachable state is well typed, and a refresh in flight is the one its
\* page waits for.
THEOREM TypeCorrect == Spec => []TypeOK
<1>1. TokenInv => TypeOK
  BY DEF TokenInv
<1>. QED BY <1>1, TokensAlways, PTL

\* handlers.rs:99: rotation never forks a session.
THEOREM NeverForked == Spec => []OneLiveToken
<1>1. TokenInv => OneLiveToken
  BY DEF TokenInv
<1>. QED BY <1>1, TokensAlways, PTL

\* auth.tsx:70: a sign-out that revoked the live token ends the session for good.
THEOREM SignOutIsFinal == Spec => []SignOutEnds
<1>1. TokenInv => SignOutEnds
  BY DEF TokenInv, TypeOK, OverIsOver, SignOutEnds, Tokens
<1>. QED BY <1>1, TokensAlways, PTL

\* api.ts:143: a call that waits shares a refresh of its page which is running.
THEOREM NoneWaitsForever == Spec => []WaitersAreServed
<1>1. TokenInv => TypeOK
  BY DEF TokenInv
<1>2. WaitInv => WaitersAreServed
  BY DEF WaitInv, RefreshRuns, PageWaits, WaitersAreServed
<1>. QED BY InitWaiters, StepWaiters, TokensAlways, <1>1, <1>2, PTL DEF Spec

\* api.ts:139: while nothing fails, a page never presents a token that one of
\* its own refreshes has spent.
THEOREM RacesOnlyOthers == Spec => []NeverRacesItself
<1>1. Init => CalmNoRace
  BY InitRaces DEF CalmNoRace
<1>2. TokenInv /\ CalmNoRace => NeverRacesItself
  <2>. SUFFICES ASSUME TokenInv, CalmNoRace, faults = 0, NEW f \in Flights,
                       refresh[f].at = "rejected", refresh[f].token # NoToken
                PROVE  f[1] \notin spentBy[refresh[f].token]
    BY DEF NeverRacesItself
  <2>1. refresh[f].token \in Tokens
    BY DEF TokenInv, TypeOK
  <2>. QED BY <2>1 DEF CalmNoRace, NoRace, SpentByOthers
<1>. QED BY <1>1, <1>2, StepRaces, TokensAlways, PTL DEF Spec
=============================================================================
