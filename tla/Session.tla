------------------------------- MODULE Session ------------------------------
(***************************************************************************)
(* A signed-in browser and the refresh tokens behind it                    *)
(* (api/src/auth/handlers.rs; frontend/lib/api.ts, auth.tsx).              *)
(*                                                                         *)
(* Each page keeps its access token in memory; all pages share the cookie  *)
(* with the refresh token, which the server revokes when it is redeemed    *)
(* and replaces by a new one.  A call answered 401 waits for the page's    *)
(* one refresh in flight, starting it if there is none, and is replayed    *)
(* once.  A request carries the cookie of the moment it is sent, and its   *)
(* reply sets the cookie of the moment it arrives.                         *)
(*                                                                         *)
(* Left out: tokens of other browsers and users, which share no row with   *)
(* these; the expiry of a refresh token by age; and a request whose page   *)
(* is gone before the server handles it, which is taken as lost.           *)
(***************************************************************************)
EXTENDS Naturals

CONSTANTS
    Pages,          \* the pages open in the browser
    Calls,          \* names for the calls of a page
    Flights,        \* bound: the calls each page may have in flight
    MaxSignIns,     \* bound: sign-ins tried in a behaviour
    MaxRotations,   \* bound: rotations of one session
    MaxFaults       \* bound: lost requests or replies, server errors, reloads

NoCall == "none"

ASSUME SessionAssumption ==
    /\ NoCall \notin Calls
    /\ Flights \subseteq Pages \X Calls
    /\ \A p \in Pages : \E f \in Flights : f[1] = p
    /\ MaxSignIns \in Nat
    /\ MaxRotations \in Nat
    /\ MaxFaults \in Nat

\* A session begins at a sign-in, or, session 0, before the pages were opened.
Sessions == 0 .. MaxSignIns

\* The tokens of a session: the one of its sign-in and those of its rotations.
Tokens == Sessions \X (0 .. MaxRotations)

NoToken == <<>>

VARIABLES
    live,       \* rows of refresh_tokens with revoked = false
    issued,     \* how many tokens each session has been issued
    spentBy,    \* the page whose refresh redeemed a token, if any
    ended,      \* how each session stands: "open", "over", or "raced" by a refresh
    signIns,    \* sign-ins tried
    cookie,     \* the refresh cookie of the browser
    access,     \* whether a page's access token is still accepted
    user,       \* whether a page shows a signed-in user
    call,       \* the calls of each page
    refresh,    \* the refresh each call started
    inFlight,   \* inFlightRefresh: the call whose refresh the page waits for
    signOut,    \* the sign-out of each page
    faults      \* faults so far

server == <<live, issued, spentBy, ended, signIns>>

page == <<access, user, inFlight>>

vars == <<server, cookie, page, call, refresh, signOut, faults>>

Idle == [at |-> "idle", kind |-> "api", valid |-> FALSE, replay |-> FALSE]

Silent == [at |-> "none", token |-> NoToken]

TypeOK ==
    /\ live \subseteq Tokens
    /\ issued \in [Sessions -> 0 .. MaxRotations + 1]
    /\ spentBy \in [Tokens -> SUBSET Pages]
    /\ ended \in [Sessions -> {"open", "over", "raced"}]
    /\ signIns \in Sessions
    /\ cookie \in Tokens \cup {NoToken}
    /\ access \in [Pages -> BOOLEAN]
    /\ user \in [Pages -> BOOLEAN]
    /\ call \in [Flights -> [at : {"idle", "sent", "waiting"},
                             kind : {"api", "me", "login", "wrong", "restore"},
                             valid : BOOLEAN, replay : BOOLEAN]]
    /\ refresh \in [Flights -> [at : {"none", "sent", "redeemed", "answered", "rejected"},
                                token : Tokens \cup {NoToken}]]
    /\ inFlight \in [Pages -> Calls \cup {NoCall}]
    /\ signOut \in [Pages -> [at : {"none", "sent", "done", "lost"},
                              token : Tokens \cup {NoToken}]]
    /\ faults \in 0 .. MaxFaults
    /\ \A f \in Flights : refresh[f].at # "none" => inFlight[f[1]] = f[2]

-----------------------------------------------------------------------------
Fault == faults < MaxFaults /\ faults' = faults + 1

\* The call that restores the session of a page that was just loaded.
First(p) == (CHOOSE f \in Flights : f[1] = p)[2]

Restores(f) == f[2] = First(f[1])

Restore == [at |-> "waiting", kind |-> "restore", valid |-> FALSE, replay |-> FALSE]

\* Every page was just opened, and a returning browser may hold a cookie.
Init ==
    /\ cookie \in {NoToken, <<0, 0>>}
    /\ live = {cookie} \ {NoToken}
    /\ issued = [s \in Sessions |-> IF s = 0 THEN 1 ELSE 0]
    /\ spentBy = [t \in Tokens |-> {}]
    /\ ended = [s \in Sessions |-> "open"]
    /\ signIns = 0
    /\ access = [p \in Pages |-> FALSE]
    /\ user = [p \in Pages |-> FALSE]
    /\ call = [f \in Flights |-> IF Restores(f) THEN Restore ELSE Idle]
    /\ refresh = [f \in Flights |-> IF Restores(f) THEN [at |-> "sent", token |-> cookie]
                                                      ELSE Silent]
    /\ inFlight = [p \in Pages |-> First(p)]
    /\ signOut = [p \in Pages |-> Silent]
    /\ faults = 0

\* issue_tokens: a new row.
Fresh(s) == <<s, issued[s]>>

Issue(s) ==
    /\ issued[s] <= MaxRotations
    /\ issued' = [issued EXCEPT ![s] = @ + 1]
    /\ live' = live \cup {Fresh(s)}

-----------------------------------------------------------------------------
(***************************************************************************)
(* api(): a request, and its replay after a refresh.                       *)
(***************************************************************************)
Sent(f, kind, valid, replay) == [at |-> "sent", kind |-> kind, valid |-> valid, replay |-> replay]

StartCall(f) ==
    /\ user[f[1]]
    /\ call[f] = Idle
    /\ call' = [call EXCEPT ![f] = Sent(f, "api", access[f[1]], FALSE)]
    /\ UNCHANGED <<server, cookie, page, refresh, signOut, faults>>

\* The sign-in form is there before the restore of the page finished.  One
\* sign-in at a time: it begins session signIns if it succeeds.
StartLogin(f) ==
    /\ ~user[f[1]]
    /\ call[f] = Idle
    /\ \A g \in Flights : call[g].kind \notin {"login", "wrong"}
    /\ signIns < MaxSignIns
    /\ signIns' = signIns + 1
    /\ call' = [call EXCEPT ![f] = Sent(f, "login", TRUE, FALSE)]
    /\ UNCHANGED <<live, issued, spentBy, ended, cookie, page, refresh, signOut, faults>>

\* The access token is accepted; the profile signs the page in.
Succeed(f) ==
    /\ call[f].at = "sent"
    /\ call[f].kind \in {"api", "me"} /\ call[f].valid
    /\ user' = IF call[f].kind = "me" THEN [user EXCEPT ![f[1]] = TRUE] ELSE user
    /\ call' = [call EXCEPT ![f] = Idle]
    /\ UNCHANGED <<server, cookie, access, inFlight, refresh, signOut, faults>>

\* login or register answered with a token pair, which me() then uses.
SignIn(f) ==
    /\ call[f].at = "sent" /\ call[f].kind = "login"
    /\ Issue(signIns)
    /\ cookie' = Fresh(signIns)
    /\ access' = [access EXCEPT ![f[1]] = TRUE]
    /\ call' = [call EXCEPT ![f] = Sent(f, "me", TRUE, FALSE)]
    /\ UNCHANGED <<spentBy, ended, signIns, user, inFlight, refresh, signOut, faults>>

\* register: the email is taken, or the form is not valid.
RejectSignUp(f) ==
    /\ call[f].at = "sent" /\ call[f].kind = "login"
    /\ call' = [call EXCEPT ![f] = Idle]
    /\ UNCHANGED <<server, cookie, page, refresh, signOut, faults>>

\* An access token that is missing or expired, or wrong credentials, which are
\* as wrong in the replay.
Refused(c) == c.at = "sent" /\ (~c.valid \/ c.kind = "login")

Waiting(c) == [c EXCEPT !.at = "waiting", !.valid = FALSE,
                        !.kind = IF @ = "login" THEN "wrong" ELSE @]

\* Mutant: a call answered 401 always starts a refresh of its own.
OwnRefresh(f) ==
    /\ Refused(call[f])
    /\ IF call[f].replay
       THEN call' = [call EXCEPT ![f] = Idle] /\ UNCHANGED <<refresh, inFlight>>
       ELSE /\ call' = [call EXCEPT ![f] = Waiting(@)]
            /\ refresh' = [refresh EXCEPT ![f] = [at |-> "sent", token |-> cookie]]
            /\ inFlight' = [inFlight EXCEPT ![f[1]] = f[2]]
    /\ UNCHANGED <<server, cookie, access, user, signOut, faults>>

\* 401: the call waits for a refresh, or, if it was a replay, gives up.
Unauthorized(f) ==
    /\ Refused(call[f])
    /\ IF call[f].replay
       THEN call' = [call EXCEPT ![f] = Idle] /\ UNCHANGED <<refresh, inFlight>>
       ELSE /\ call' = [call EXCEPT ![f] = Waiting(@)]
            /\ IF inFlight[f[1]] = NoCall
               THEN /\ refresh' = [refresh EXCEPT ![f] = [at |-> "sent", token |-> cookie]]
                    /\ inFlight' = [inFlight EXCEPT ![f[1]] = f[2]]
               ELSE UNCHANGED <<refresh, inFlight>>
    /\ UNCHANGED <<server, cookie, access, user, signOut, faults>>

\* The request or its reply is lost, or the server fails.  A sign-in whose reply
\* is lost has its token issued, and the cookie may have come before the body.
FailCall(f) ==
    /\ call[f].at = "sent"
    /\ Fault
    /\ call' = [call EXCEPT ![f] = Idle]
    /\ \/ UNCHANGED <<live, issued, cookie>>
       \/ /\ call[f].kind = "login"
          /\ Issue(signIns)
          /\ cookie' \in {cookie, Fresh(signIns)}
    /\ UNCHANGED <<spentBy, ended, signIns, page, refresh, signOut>>

-----------------------------------------------------------------------------
(***************************************************************************)
(* POST /auth/refresh and doRefresh().                                     *)
(***************************************************************************)
Advance(f, at, t) == refresh' = [refresh EXCEPT ![f] = [at |-> at, token |-> t]]

\* Mutant: the token is looked up, and revoked only once the new one is issued.
LookUp(f) ==
    /\ refresh[f].at = "sent"
    /\ Advance(f, IF refresh[f].token \in live THEN "redeemed" ELSE "rejected", refresh[f].token)
    /\ UNCHANGED <<server, cookie, page, call, signOut, faults>>

\* The conditional UPDATE: only one of several requests finds the token live.
Redeem(f) ==
    /\ refresh[f].at = "sent"
    /\ IF refresh[f].token \in live
       THEN /\ live' = live \ {refresh[f].token}
            /\ spentBy' = [spentBy EXCEPT ![refresh[f].token] = {f[1]}]
            /\ Advance(f, "redeemed", refresh[f].token)
       ELSE /\ Advance(f, "rejected", refresh[f].token)
            /\ UNCHANGED <<live, spentBy>>
    /\ UNCHANGED <<issued, ended, signIns, cookie, page, call, signOut, faults>>

Rotate(f) ==
    /\ refresh[f].at = "redeemed"
    /\ LET s == refresh[f].token[1]
       IN  Issue(s) /\ Advance(f, "answered", Fresh(s))
    /\ UNCHANGED <<spentBy, ended, signIns, cookie, page, call, signOut, faults>>

\* A statement fails between the two, or the request or the reply is lost; the
\* cookie may have come before the body that is lost.
FailRefresh(f) ==
    /\ refresh[f].at \in {"sent", "redeemed", "answered"}
    /\ Fault
    /\ Advance(f, "rejected", NoToken)
    /\ \/ UNCHANGED cookie
       \/ refresh[f].at = "answered" /\ cookie' = refresh[f].token
    /\ UNCHANGED <<server, page, call, signOut>>

\* What a call that waited does when the refresh it shares is over.
Resumed(c, ok) ==
    IF ~ok THEN Idle
    ELSE IF c.kind = "restore" THEN [c EXCEPT !.at = "sent", !.kind = "me", !.valid = TRUE]
    ELSE [c EXCEPT !.at = "sent", !.valid = (c.kind # "wrong"), !.replay = TRUE]

\* Mutant: only the call that started the refresh is resumed.
ResumeLeader(f) ==
    LET ok == refresh[f].at = "answered"
    IN  /\ refresh[f].at \in {"answered", "rejected"}
        /\ cookie' = IF ok THEN refresh[f].token ELSE cookie
        /\ access' = [access EXCEPT ![f[1]] = @ \/ ok]
        /\ refresh' = [refresh EXCEPT ![f] = Silent]
        /\ inFlight' = [inFlight EXCEPT ![f[1]] = NoCall]
        /\ call' = [call EXCEPT ![f] = Resumed(@, ok)]
        /\ UNCHANGED <<server, user, signOut, faults>>

\* The reply sets the cookie and the access token, and resumes every call of
\* the page that waited.
Settle(f) ==
    LET ok == refresh[f].at = "answered"
    IN  /\ refresh[f].at \in {"answered", "rejected"}
        /\ cookie' = IF ok THEN refresh[f].token ELSE cookie
        /\ access' = [access EXCEPT ![f[1]] = @ \/ ok]
        /\ refresh' = [refresh EXCEPT ![f] = Silent]
        /\ inFlight' = [inFlight EXCEPT ![f[1]] = NoCall]
        /\ call' = [g \in Flights |-> IF g[1] = f[1] /\ call[g].at = "waiting"
                                      THEN Resumed(call[g], ok) ELSE call[g]]
        /\ UNCHANGED <<server, user, signOut, faults>>

-----------------------------------------------------------------------------
(***************************************************************************)
(* signOut(): POST /auth/logout, then the page forgets its user.           *)
(***************************************************************************)
Leave(p, at, t) == signOut' = [signOut EXCEPT ![p] = [at |-> at, token |-> t]]

StartSignOut(p) ==
    /\ user[p]
    /\ signOut[p].at = "none"
    /\ Leave(p, "sent", cookie)
    /\ UNCHANGED <<server, cookie, page, call, refresh, faults>>

\* Whether the token of the sign-out was still the live one: a refresh that
\* overtook it has spent it, and delivers another.
EndSession(t) ==
    ended' = IF t = NoToken THEN ended
             ELSE [ended EXCEPT ![t[1]] = IF t \in live \/ @ = "over" THEN "over" ELSE "raced"]

\* Mutant: the cookie is cleared but its token is left alone.
LeaveTokenLive(p) ==
    /\ signOut[p].at = "sent"
    /\ EndSession(signOut[p].token)
    /\ Leave(p, "done", NoToken)
    /\ UNCHANGED <<live, issued, spentBy, signIns, cookie, page, call, refresh, faults>>

Revoke(p) ==
    /\ signOut[p].at = "sent"
    /\ live' = live \ {signOut[p].token}
    /\ EndSession(signOut[p].token)
    /\ Leave(p, "done", NoToken)
    /\ UNCHANGED <<issued, spentBy, signIns, cookie, page, call, refresh, faults>>

\* The request or the reply is lost, or the UPDATE fails, which is ignored.
FailSignOut(p) ==
    /\ signOut[p].at \in {"sent", "done"}
    /\ Fault
    /\ Leave(p, "lost", NoToken) \/ (signOut[p].at = "sent" /\ Leave(p, "done", NoToken))
    /\ UNCHANGED <<server, cookie, page, call, refresh>>

SignedOut(p) ==
    /\ signOut[p].at \in {"done", "lost"}
    /\ cookie' = IF signOut[p].at = "done" THEN NoToken ELSE cookie
    /\ access' = [access EXCEPT ![p] = FALSE]
    /\ user' = [user EXCEPT ![p] = FALSE]
    /\ Leave(p, "none", NoToken)
    /\ UNCHANGED <<server, inFlight, call, refresh, faults>>

-----------------------------------------------------------------------------
\* ACCESS_TTL_MINUTES passed.
Expire(p) ==
    /\ access[p]
    /\ access' = [access EXCEPT ![p] = FALSE]
    /\ call' = [f \in Flights |->
                  IF f[1] = p /\ call[f].kind \in {"api", "me"}
                  THEN [call[f] EXCEPT !.valid = FALSE] ELSE call[f]]
    /\ UNCHANGED <<server, cookie, user, inFlight, refresh, signOut, faults>>

\* The page is loaded again: what it held in memory is gone.
Reload(p) ==
    /\ Fault
    /\ access' = [access EXCEPT ![p] = FALSE]
    /\ user' = [user EXCEPT ![p] = FALSE]
    /\ call' = [f \in Flights |->
                  IF f[1] # p THEN call[f] ELSE IF Restores(f) THEN Restore ELSE Idle]
    /\ refresh' = [f \in Flights |->
                     IF f[1] # p THEN refresh[f]
                     ELSE IF Restores(f) THEN [at |-> "sent", token |-> cookie] ELSE Silent]
    /\ inFlight' = [inFlight EXCEPT ![p] = First(p)]
    /\ Leave(p, "none", NoToken)
    /\ UNCHANGED <<server, cookie>>

Answer(f) == Succeed(f) \/ SignIn(f) \/ RejectSignUp(f) \/ Unauthorized(f) \/ FailCall(f)

RefreshStep(f) == Redeem(f) \/ Rotate(f) \/ FailRefresh(f)

SignOutStep(p) == Revoke(p) \/ FailSignOut(p) \/ SignedOut(p)

Next ==
    \/ \E f \in Flights : StartCall(f) \/ StartLogin(f) \/ Answer(f) \/ RefreshStep(f) \/ Settle(f)
    \/ \E p \in Pages : StartSignOut(p) \/ SignOutStep(p) \/ Expire(p) \/ Reload(p)

Spec == Init /\ [][Next]_vars

-----------------------------------------------------------------------------
(***************************************************************************)
(* Properties.                                                             *)
(***************************************************************************)

\* handlers.rs:99: rotation never forks a session: however many pages refresh
\* at once and whatever fails on the way, at most one token of it is live.
OneLiveToken == \A t, u \in live : t[1] = u[1] => t = u

\* api.ts:139: a page never loses a refresh against itself: while nothing
\* fails, a token of an open session is refused only if another page spent it.
NeverRacesItself ==
    faults = 0 =>
        \A f \in Flights :
            /\ refresh[f].at = "rejected"
            /\ refresh[f].token # NoToken
            /\ ended[refresh[f].token[1]] = "open"
            => f[1] \notin spentBy[refresh[f].token]

\* auth.tsx:70: once a sign-out has revoked the live token of a session, no
\* page load, late refresh or lost reply brings a token of it back.
SignOutEnds == \A t \in live : ended[t[1]] # "over"

\* api.ts:143: every call that waits shares a refresh of its page that is still
\* running, so none waits for ever, whether that refresh succeeds or fails.
WaitersAreServed ==
    \A f \in Flights : call[f].at = "waiting" =>
        /\ inFlight[f[1]] # NoCall
        /\ refresh[<<f[1], inFlight[f[1]]>>].at # "none"
=============================================================================
