----------------------------- MODULE WebSession -----------------------------
(***************************************************************************)
(* The web client's half of a session: web/src/lib/sessionClient.ts and    *)
(* hooks/useSession.ts in each tab of one browser, which share the cookie  *)
(* that carries the refresh token.  The browser attaches the cookie when a *)
(* call leaves and stores the one the answer carries when it comes back;   *)
(* between the two, other calls of the same tab and of other tabs leave,   *)
(* are answered in any order and come back in any order, or are lost.      *)
(*                                                                         *)
(* The server is the one of Sessions, a call at a time: a refresh token    *)
(* can be used once, and a refresh that fails clears the cookie.           *)
(***************************************************************************)
EXTENDS Naturals

CONSTANTS Tabs,
          Requests,     \* calls of the application a tab can have in flight (a bound)
          Switch,       \* the one of them that changes the view, and brings a token
          MaxTokens     \* refresh tokens handed out (a bound)

WebAssumption ==
    /\ MaxTokens \in Nat \ {0} /\ Switch \in Requests
    /\ Requests \cap {"refresh", "session"} = {}

Serials == 1..MaxTokens
NoCookie == 0

VARIABLES
    live, issued,      \* server: the refresh tokens that are good, and how many there have been
    cookie,            \* browser: the refresh token, or none
    token,             \* per tab: the access token
    status, reported,  \* per tab: what useSession shows, and expiredReported
    calls,             \* per tab: the calls in flight
    waiting,           \* per tab: requests that wait for the refresh
    ended, signedOut   \* history: whether the session may be over; per tab, the server has answered the logout

vars == <<live, issued, cookie, token, status, reported, calls, waiting, ended, signedOut>>

Slots == Requests \cup {"refresh", "session"}

NoCall == [stage |-> "none"]
Call == [stage : {"sent"}, kind : {"refresh", "login", "logout", "request"},
         cookie : Serials \cup {NoCookie}, token : {"none", "good", "old"}, again : BOOLEAN]
        \cup [stage : {"answered"}, kind : {"refresh", "login", "logout", "request"},
              ok : BOOLEAN, cookie : Serials \cup {NoCookie}, again : BOOLEAN]

\* The types; and whoever waits for a refresh, there is one in flight.
TypeOK ==
    /\ live \subseteq Serials /\ issued \in 0..MaxTokens
    /\ cookie \in Serials \cup {NoCookie}
    /\ token \in [Tabs -> {"none", "good", "old"}]
    /\ status \in [Tabs -> {"loading", "anonymous", "authenticated"}]
    /\ reported \in [Tabs -> BOOLEAN]
    /\ calls \in [Tabs -> [Slots -> Call \cup {NoCall}]]
    /\ waiting \in [Tabs -> SUBSET Requests]
    /\ \A t \in Tabs : waiting[t] # {} \/ status[t] = "loading" => calls[t]["refresh"] # NoCall
    /\ ended \in BOOLEAN /\ signedOut \in [Tabs -> BOOLEAN]

Sent(t, kind, again) ==
    [stage |-> "sent", kind |-> kind, cookie |-> cookie, token |-> token[t], again |-> again]

\* Every tab has just been loaded, and asks for a session with the cookie there is.
Init ==
    /\ issued = 1 /\ live = {1} /\ cookie \in {NoCookie, 1}
    /\ token = [t \in Tabs |-> "none"]
    /\ status = [t \in Tabs |-> "loading"]
    /\ reported = [t \in Tabs |-> FALSE]
    /\ calls = [t \in Tabs |-> [s \in Slots |->
                  IF s = "refresh" THEN Sent(t, "refresh", FALSE) ELSE NoCall]]
    /\ waiting = [t \in Tabs |-> {}]
    /\ ended = (cookie = NoCookie)
    /\ signedOut = [t \in Tabs |-> FALSE]

-----------------------------------------------------------------------------
(* The server *)

Answered(call, ok, newCookie) ==
    [stage |-> "answered", kind |-> call.kind, ok |-> ok, cookie |-> newCookie,
     again |-> call.again]

AnswerWith(t, s, ok, newCookie) ==
    calls' = [calls EXCEPT ![t][s] = Answered(calls[t][s], ok, newCookie)]

GiveToken(old) ==
    /\ issued < MaxTokens
    /\ issued' = issued + 1
    /\ live' = (live \ {old}) \cup {issued'}

Answer(t, s) ==
    /\ calls[t][s].stage = "sent"
    /\ LET call == calls[t][s]
       IN \/ /\ call.kind = "refresh" /\ call.cookie \in live
             /\ GiveToken(call.cookie)
             /\ AnswerWith(t, s, TRUE, issued')
          \/ /\ call.kind = "refresh" /\ call.cookie \notin live
             /\ AnswerWith(t, s, FALSE, NoCookie)
             /\ UNCHANGED <<live, issued>>
          \/ /\ call.kind = "login"
             /\ GiveToken(NoCookie)
             /\ AnswerWith(t, s, TRUE, issued')
          \/ /\ call.kind = "logout"
             /\ live' = live \ {call.cookie}
             /\ AnswerWith(t, s, TRUE, NoCookie)
             /\ UNCHANGED issued
          \/ /\ call.kind = "request"
             /\ AnswerWith(t, s, call.token = "good", call.cookie)
             /\ UNCHANGED <<live, issued>>
    /\ UNCHANGED <<cookie, token, status, reported, waiting, ended, signedOut>>

\* The thirty days are over, or the operator ends the session.
EndSession ==
    /\ live # {}
    /\ live' = {} /\ ended' = TRUE
    /\ UNCHANGED <<issued, cookie, token, status, reported, calls, waiting, signedOut>>

AccessExpires(t) ==
    /\ token[t] = "good"
    /\ token' = [token EXCEPT ![t] = "old"]
    /\ UNCHANGED <<live, issued, cookie, status, reported, calls, waiting, ended, signedOut>>

-----------------------------------------------------------------------------
(* The application *)

Request(t, r) ==
    /\ status[t] = "authenticated"
    /\ calls[t][r] = NoCall /\ r \notin waiting[t]
    /\ calls' = [calls EXCEPT ![t][r] = Sent(t, "request", FALSE)]
    /\ UNCHANGED <<live, issued, cookie, token, status, reported, waiting, ended, signedOut>>

LogIn(t) ==
    /\ status[t] = "anonymous" /\ calls[t]["session"] = NoCall
    /\ calls' = [calls EXCEPT ![t]["session"] = Sent(t, "login", FALSE)]
    /\ signedOut' = [u \in Tabs |-> FALSE]
    /\ UNCHANGED <<live, issued, cookie, token, status, reported, waiting, ended>>

LogOut(t) ==
    /\ status[t] = "authenticated" /\ calls[t]["session"] = NoCall
    /\ calls' = [calls EXCEPT ![t]["session"] = Sent(t, "logout", FALSE)]
    /\ ended' = TRUE
    /\ UNCHANGED <<live, issued, cookie, token, status, reported, waiting, signedOut>>

\* The page is loaded again: what was in flight, answered or not, never comes back to
\* it, nor reaches the server later.
Reload(t) ==
    /\ status[t] # "loading"
    /\ ended' = (ended \/ \E s \in Slots : calls[t][s] # NoCall)
    /\ token' = [token EXCEPT ![t] = "none"]
    /\ status' = [status EXCEPT ![t] = "loading"]
    /\ reported' = [reported EXCEPT ![t] = FALSE]
    /\ calls' = [calls EXCEPT ![t] = [s \in Slots |->
                   IF s = "refresh" THEN Sent(t, "refresh", FALSE) ELSE NoCall]]
    /\ waiting' = [waiting EXCEPT ![t] = {}]
    /\ UNCHANGED <<live, issued, cookie, signedOut>>

-----------------------------------------------------------------------------
(* The session client *)

Arrived(t, s, kind) == calls[t][s].stage = "answered" /\ calls[t][s].kind = kind
Cleared(t, s) == calls' = [calls EXCEPT ![t][s] = NoCall]

BeginSession(t) ==
    /\ token' = [token EXCEPT ![t] = "good"]
    /\ reported' = [reported EXCEPT ![t] = FALSE]

\* expire, for the requests that wait: useSession is told, once.
Expire(t) ==
    LET expired == waiting[t] # {}
    IN /\ reported' = [reported EXCEPT ![t] = @ \/ expired]
       /\ status' = [status EXCEPT ![t] =
                       IF @ = "loading" \/ (expired /\ ~reported[t]) THEN "anonymous" ELSE @]

\* The requests that waited are repeated, with the token there is now.
Repeated(t) ==
    [s \in Slots |-> CASE s = "refresh" -> NoCall
                       [] s \in waiting[t] -> [Sent(t, "request", TRUE) EXCEPT !.token = "good"]
                       [] OTHER -> calls[t][s]]

Refreshed(t) ==
    /\ Arrived(t, "refresh", "refresh") /\ calls[t]["refresh"].ok
    /\ cookie' = calls[t]["refresh"].cookie
    /\ BeginSession(t)
    /\ status' = [status EXCEPT ![t] = IF @ = "loading" THEN "authenticated" ELSE @]
    /\ calls' = [calls EXCEPT ![t] = Repeated(t)]
    /\ waiting' = [waiting EXCEPT ![t] = {}]
    /\ UNCHANGED <<live, issued, ended, signedOut>>

NotRefreshed(t) ==
    /\ token' = [token EXCEPT ![t] = "none"]
    /\ Expire(t)
    /\ waiting' = [waiting EXCEPT ![t] = {}]
    /\ Cleared(t, "refresh")

RefreshRefused(t) ==
    /\ Arrived(t, "refresh", "refresh") /\ ~calls[t]["refresh"].ok
    /\ cookie' = NoCookie
    /\ NotRefreshed(t)
    /\ UNCHANGED <<live, issued, ended, signedOut>>

\* A view that is changed begins a session, whatever the tab shows by then.
Settled(t, r) ==
    /\ Arrived(t, r, "request")
    /\ calls[t][r].ok \/ calls[t][r].again
    /\ Cleared(t, r)
    /\ IF r = Switch /\ calls[t][r].ok
       THEN BeginSession(t) /\ status' = [status EXCEPT ![t] = "authenticated"]
       ELSE UNCHANGED <<token, reported, status>>
    /\ UNCHANGED <<live, issued, cookie, waiting, ended, signedOut>>

\* A fault: each request that is refused starts a refresh of its own.
JoinAlone(t, r) ==
    [calls[t] EXCEPT ![r] = NoCall, !["refresh"] = Sent(t, "refresh", FALSE)]

\* One refresh at a time: the request joins the one in flight, if there is one.
JoinRefresh(t, r) ==
    [calls[t] EXCEPT ![r] = NoCall,
                     !["refresh"] = IF @ = NoCall THEN Sent(t, "refresh", FALSE) ELSE @]

Refused(t, r) ==
    /\ Arrived(t, r, "request")
    /\ ~calls[t][r].ok /\ ~calls[t][r].again
    /\ calls' = [calls EXCEPT ![t] = JoinRefresh(t, r)]
    /\ waiting' = [waiting EXCEPT ![t] = @ \cup {r}]
    /\ UNCHANGED <<live, issued, cookie, token, status, reported, ended, signedOut>>

\* Some tab is still renewing or leaving the session there was.
Unfinished ==
    \E t \in Tabs, s \in {"refresh", "session"} :
        calls[t][s] # NoCall /\ calls[t][s].kind \in {"refresh", "logout"}

LoggedIn(t) ==
    /\ Arrived(t, "session", "login")
    /\ cookie' = calls[t]["session"].cookie
    /\ BeginSession(t)
    /\ status' = [status EXCEPT ![t] = "authenticated"]
    /\ Cleared(t, "session")
    /\ ended' = (cookie' \notin live \/ Unfinished)
    /\ UNCHANGED <<live, issued, waiting, signedOut>>

Left(t) ==
    /\ token' = [token EXCEPT ![t] = "none"]
    /\ status' = [status EXCEPT ![t] = "anonymous"]
    /\ Cleared(t, "session")
    /\ UNCHANGED <<live, issued, reported, waiting, ended>>

LoggedOut(t) ==
    /\ Arrived(t, "session", "logout")
    /\ cookie' = NoCookie
    /\ signedOut' = [signedOut EXCEPT ![t] = TRUE]
    /\ Left(t)

Back(t, s) ==
    \/ s = "refresh" /\ (Refreshed(t) \/ RefreshRefused(t))
    \/ s = "session" /\ (LoggedIn(t) \/ LoggedOut(t))
    \/ s \in Requests /\ (Settled(t, s) \/ Refused(t, s))

\* A call is lost, before or after the server has seen it: fetch fails.
Lose(t, s) ==
    /\ calls[t][s] # NoCall
    /\ \/ /\ s = "refresh" /\ NotRefreshed(t)
          /\ ended' = TRUE
          /\ UNCHANGED <<live, issued, cookie, signedOut>>
       \/ /\ calls[t][s].kind = "logout"
          /\ Left(t)
          /\ UNCHANGED <<cookie, signedOut>>
       \/ /\ calls[t][s].kind \in {"login", "request"}
          /\ Cleared(t, s)
          /\ UNCHANGED <<live, issued, cookie, token, status, reported, waiting, ended, signedOut>>

-----------------------------------------------------------------------------
Next ==
    \/ EndSession
    \/ \E t \in Tabs :
        \/ AccessExpires(t) \/ LogIn(t) \/ LogOut(t) \/ Reload(t)
        \/ \E r \in Requests : Request(t, r)
        \/ \E s \in Slots : Answer(t, s) \/ Back(t, s) \/ Lose(t, s)

\* What becomes of a call.
Goes(t, s) == Answer(t, s) \/ Back(t, s) \/ Lose(t, s)

Spec == Init /\ [][Next]_vars

-----------------------------------------------------------------------------
(* Properties *)

SentBack(t) == ~reported[t] /\ reported'[t]

\* The application renews the access token by itself while the cookie is valid: nobody
\* is sent back to the login screen unless they left, the session ended at the server,
\* or a refresh got lost.
KeptWhileValid == \A t \in Tabs : SentBack(t) => ended'

\* A request has not ended: been answered, repeated once and answered, or failed.
Unanswered(t, r) == calls[t][r] # NoCall \/ r \in waiting[t]

\* Logging out ends the session in this browser.
LoggedOutHasNoSession ==
    \A t \in Tabs : signedOut[t] => token[t] = "none" /\ cookie \notin live
=============================================================================
