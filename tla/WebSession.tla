---------------------------- MODULE WebSession ----------------------------
(***************************************************************************)
(* Signing in, staying signed in and signing out from the web application: *)
(* apps/web (hooks/use-auth.tsx, lib/api) with the refresh-token rotation  *)
(* of services/auth.  The tabs of a browser share its cookies and nothing  *)
(* else: each has a user of its own, and every call that is answered 401   *)
(* refreshes the session by itself.  A refresh ends the session it is made *)
(* with and opens another one.                                             *)
(*                                                                         *)
(* Sessions are numbers in the order of their opening; a token is the      *)
(* number of its session, 0 when there is none.  The access token is a     *)
(* JWT, accepted until it lapses, whatever became of its session.          *)
(***************************************************************************)
EXTENDS Naturals

CONSTANTS
  Tabs,         \* the tabs of the browser
  Calls,        \* the calls of pages to the gateway, in whatever tab
  MaxSessions   \* bound: sessions the server opens

ASSUME ClientsAssumption == Tabs \cap Calls = {}
ASSUME MaxSessionsAssumption == MaxSessions \in Nat

Clients  == Tabs \cup Calls
Sessions == 1..MaxSessions
Tokens   == 0..MaxSessions

VARIABLES
  live,     \* the sessions with is_active
  opened,   \* how many sessions there have been
  login,    \* history: session -> the session of the login it goes back to
  jar,      \* the cookies: cv_access, if it has not lapsed, cv_refresh, cv_session
  user,     \* tab -> its AuthProvider has a user
  at,       \* client -> where it is
  tok,      \* client -> the session of the refresh or login it is in
  signed,   \* history: a login was answered, and no logout was begun since
  began,    \* history: tab -> its page was loaded while signed, with cv_session
  blame     \* history: what has gone wrong

server == <<live, opened, login>>
hist   == <<signed, began>>
vars   == <<server, jar, user, at, tok, hist, blame>>

NoCookies == [access |-> 0, fresh |-> FALSE, refresh |-> 0, flag |-> FALSE]

\* Where a client is.  A load: refused, checked, ended, rotated, denied, again as
\* any call, me and meAgain while /auth/me answers, first and after a refresh.
Places == {"idle", "refused", "checked", "ended", "rotated", "denied", "again", "me",
           "meAgain", "login", "out", "outFailed"}

\* An overlap is two refreshes at a time, or a login or logout with something
\* under way.  A failure is a request without an answer, a service that fails, a
\* session ended from elsewhere, a login while a session is active, a logout that
\* ended nothing.  A token that lapses is none, nor an idle hour.
Blames == {"overlap", "failure"}

\* Sessions and tokens are those there have been, and only an answer that is on
\* its way carries one.
TypeOK ==
  /\ opened \in Tokens
  /\ live \in SUBSET (1..opened)
  /\ login \in [Sessions -> 0..opened]
  /\ jar \in [access : 0..opened, fresh : BOOLEAN, refresh : 0..opened, flag : BOOLEAN]
  /\ user \in [Tabs -> BOOLEAN]
  /\ at \in [Clients -> Places]
  /\ tok \in [Clients -> 0..opened]
  /\ \A p \in Clients : tok[p] # 0 <=> at[p] \in {"checked", "ended", "rotated", "login"}
  /\ signed \in BOOLEAN
  /\ began \in [Tabs -> BOOLEAN]
  /\ blame \in SUBSET Blames

Init ==
  /\ live = {} /\ opened = 0
  /\ login = [s \in Sessions |-> 0]
  /\ jar = NoCookies
  /\ user = [t \in Tabs |-> FALSE]
  /\ at = [p \in Clients |-> "idle"]
  /\ tok = [p \in Clients |-> 0]
  /\ signed = FALSE
  /\ began = [t \in Tabs |-> FALSE]
  /\ blame = {}

moves(p, place) == at' = [at EXCEPT ![p] = place]

\* The gateway and /auth/me ask no more of a call than an access token.
accepted == jar.access # 0 /\ jar.fresh

\* A slip for TypeOK: the session gets the number of the next one too.
opensSame(s, from) ==
  /\ s = opened + 1 /\ s \in Sessions
  /\ opened' = opened
  /\ login' = [login EXCEPT ![s] = from]

\* A new session, the next in number, that goes back to a login.
opens(s, from) ==
  /\ s = opened + 1 /\ s \in Sessions
  /\ opened' = s
  /\ login' = [login EXCEPT ![s] = from]

Issued(s) == [access |-> s, fresh |-> TRUE, refresh |-> s, flag |-> TRUE]

Exchanging == {p \in Clients : at[p] \in {"checked", "ended", "rotated", "login", "out"}}
Busy == {p \in Clients : at[p] # "idle"}

----------------------------------------------------------------------------
(* Calls and page loads.                                                   *)

\* A call of a page (apiFetch, authFetch, copilotFetch).  One that is accepted
\* changes nothing here; one that is not refreshes the session, and is made
\* once more.
apiFetch(c) ==
  /\ at[c] = "idle" /\ ~accepted
  /\ moves(c, "refused")
  /\ UNCHANGED <<server, jar, user, tok, hist, blame>>

retry(c) ==
  /\ at[c] = "again"
  /\ moves(c, "idle")
  /\ UNCHANGED <<server, jar, user, tok, hist, blame>>

\* What getCurrentUser is answered with the cookies k.
getCurrentUser(k) ==
  IF ~k.flag THEN "idle" ELSE IF k.access # 0 /\ k.fresh THEN "me" ELSE "refused"

\* A page is loaded: the tab has no user, and asks for one if cv_session is there.
refreshUser(t) ==
  /\ at[t] = "idle"
  /\ user' = [user EXCEPT ![t] = FALSE]
  /\ began' = [began EXCEPT ![t] = signed /\ jar.flag]
  /\ moves(t, getCurrentUser(jar))
  /\ UNCHANGED <<server, jar, tok, signed, blame>>

setUser(t) ==
  /\ at[t] \in {"me", "meAgain"}
  /\ user' = [user EXCEPT ![t] = TRUE]
  /\ moves(t, "idle")
  /\ UNCHANGED <<server, jar, tok, hist, blame>>

\* clearLocalUserData and setUser(null): the load gives up.
givesUp(t) ==
  /\ jar' = [jar EXCEPT !.flag = FALSE]
  /\ user' = [user EXCEPT ![t] = FALSE]
  /\ moves(t, "idle")

\* Any error of /auth/me is taken for an expired token, once.
noAnswer(t) ==
  /\ \/ at[t] = "me" /\ moves(t, "refused") /\ UNCHANGED <<jar, user>>
     \/ at[t] = "meAgain" /\ givesUp(t)
  /\ blame' = blame \cup {"failure"}
  /\ UNCHANGED <<server, tok, hist>>

getAgain(t) ==
  /\ at[t] = "again"
  /\ IF accepted
     THEN moves(t, "meAgain") /\ UNCHANGED <<jar, user>>
     ELSE givesUp(t)
  /\ UNCHANGED <<server, tok, hist, blame>>

----------------------------------------------------------------------------
(* The refresh: AuthService.refresh_tokens commits twice, and checks first. *)

\* A slip for SessionsChain: a session that ended is taken for an active one.
refresh_tokensOfAny(p) ==
  /\ at[p] = "refused"
  /\ IF jar.refresh # 0
     THEN moves(p, "checked") /\ tok' = [tok EXCEPT ![p] = jar.refresh]
     ELSE moves(p, "denied") /\ UNCHANGED tok
  /\ blame' = IF Exchanging = {} THEN blame ELSE blame \cup {"overlap"}
  /\ UNCHANGED <<server, jar, user, hist>>

refresh_tokens(p) ==
  /\ at[p] = "refused"
  /\ IF jar.refresh \in live
     THEN moves(p, "checked") /\ tok' = [tok EXCEPT ![p] = jar.refresh]
     ELSE moves(p, "denied") /\ UNCHANGED tok
  /\ blame' = IF Exchanging = {} THEN blame ELSE blame \cup {"overlap"}
  /\ UNCHANGED <<server, jar, user, hist>>

\* A slip for OnePerLogin: the old session is left as it is.
invalidatesNothing(p) ==
  /\ at[p] = "checked"
  /\ live' = live
  /\ moves(p, "ended")
  /\ UNCHANGED <<opened, login, jar, user, tok, hist, blame>>

\* The first commit: the session of the token ends, and the browser has nothing
\* to renew with until the second one.
invalidates(p) ==
  /\ at[p] = "checked"
  /\ live' = live \ {tok[p]}
  /\ moves(p, "ended")
  /\ UNCHANGED <<opened, login, jar, user, tok, hist, blame>>

\* The second commit: another session opens for the same user.
_create_session(p) ==
  /\ at[p] = "ended"
  /\ \E s \in Sessions : /\ opens(s, login[tok[p]])
                         /\ live' = live \cup {s}
                         /\ tok' = [tok EXCEPT ![p] = s]
  /\ moves(p, "rotated")
  /\ UNCHANGED <<jar, user, hist, blame>>

\* The service fails, before the first commit or between the two.
crash(p) ==
  /\ at[p] \in {"checked", "ended"}
  /\ moves(p, "denied")
  /\ blame' = blame \cup {"failure"}
  /\ tok' = [tok EXCEPT ![p] = 0]
  /\ UNCHANGED <<server, jar, user, hist>>

\* A slip for StaysSignedIn: the answer renews the access token only.
set_auth_cookiesButRefresh(p) ==
  /\ at[p] = "rotated"
  /\ jar' = [Issued(tok[p]) EXCEPT !.refresh = jar.refresh]
  /\ moves(p, "again")
  /\ tok' = [tok EXCEPT ![p] = 0]
  /\ UNCHANGED <<server, user, hist, blame>>

set_auth_cookies(p) ==
  /\ at[p] = "rotated"
  /\ jar' = Issued(tok[p])
  /\ moves(p, "again")
  /\ tok' = [tok EXCEPT ![p] = 0]
  /\ UNCHANGED <<server, user, hist, blame>>

\* The request does not reach the service, or the answer the browser.
lose(p) ==
  /\ at[p] \in {"refused", "rotated"}
  /\ moves(p, "denied")
  /\ blame' = blame \cup {"failure"}
  /\ tok' = [tok EXCEPT ![p] = 0]
  /\ UNCHANGED <<server, jar, user, hist>>

\* A slip for LoadEnds: a load whose refresh failed refreshes again.
expiredAgain(p) ==
  /\ at[p] = "denied"
  /\ moves(p, IF p \in Tabs THEN "refused" ELSE "idle")
  /\ UNCHANGED <<server, jar, user, tok, hist, blame>>

\* A refresh that failed: a call fails, a load drops the user.
expired(p) ==
  /\ at[p] = "denied"
  /\ IF p \in Tabs THEN givesUp(p) ELSE moves(p, "idle") /\ UNCHANGED <<jar, user>>
  /\ UNCHANGED <<server, tok, hist, blame>>

----------------------------------------------------------------------------
(* Signing in and out.                                                     *)

\* The login page is for a tab without a user.
login_(t) ==
  /\ at[t] = "idle" /\ ~user[t]
  /\ \E s \in Sessions : /\ opens(s, s) /\ live' = live \cup {s}
                         /\ tok' = [tok EXCEPT ![t] = s]
  /\ moves(t, "login")
  /\ blame' = blame \cup (IF Busy = {} THEN {} ELSE {"overlap"})
                    \cup (IF live = {} THEN {} ELSE {"failure"})
  /\ UNCHANGED <<jar, user, hist>>

\* It is answered, and the tab asks who the user is.
loggedIn(t) ==
  /\ at[t] = "login"
  /\ jar' = Issued(tok[t])
  /\ signed' = TRUE
  /\ began' = [began EXCEPT ![t] = TRUE]
  /\ moves(t, getCurrentUser(jar'))
  /\ tok' = [tok EXCEPT ![t] = 0]
  /\ UNCHANGED <<server, user, blame>>

\* The answer of a login does not reach the browser, nor that of a logout.
lostReply(t) ==
  /\ \/ at[t] = "login" /\ moves(t, "idle")
     \/ at[t] = "out" /\ moves(t, "outFailed")
  /\ tok' = [tok EXCEPT ![t] = 0]
  /\ blame' = blame \cup {"failure"}
  /\ UNCHANGED <<server, jar, user, hist>>

\* The logout of a session needs its access token.  Without one nothing is
\* ended; with one that lapsed neither, and the cookies the route cleared are
\* not in the answer that its exception makes.  Nor does a logout end anything
\* that does not reach the server.
logout(t) ==
  /\ at[t] = "idle" /\ user[t]
  /\ signed' = FALSE
  /\ began' = [began EXCEPT ![t] = FALSE]
  /\ \/ /\ accepted
        /\ live' = live \ {jar.access}
        /\ moves(t, "out")
        /\ blame' = IF Busy = {} THEN blame ELSE blame \cup {"overlap"}
     \/ /\ moves(t, "outFailed")
        /\ blame' = blame \cup {"failure"}
        /\ UNCHANGED live
  /\ UNCHANGED <<opened, login, jar, user, tok>>

\* A slip for SignedOut: the answer leaves the cookies.
loggedOutOnly(t) ==
  /\ at[t] \in {"out", "outFailed"}
  /\ jar' = [jar EXCEPT !.flag = FALSE]
  /\ user' = [user EXCEPT ![t] = FALSE]
  /\ moves(t, "idle")
  /\ UNCHANGED <<server, tok, hist, blame>>

\* Whatever the answer is, the tab drops cv_session and the user.
loggedOut(t) ==
  /\ at[t] \in {"out", "outFailed"}
  /\ jar' = IF at[t] = "out" THEN NoCookies ELSE [jar EXCEPT !.flag = FALSE]
  /\ user' = [user EXCEPT ![t] = FALSE]
  /\ moves(t, "idle")
  /\ UNCHANGED <<server, tok, hist, blame>>

----------------------------------------------------------------------------
(* Time, and other browsers.                                               *)

\* The JWT lapses (access_token_expire_minutes, if shorter than the cookies'
\* hour); it outlives the retry of the call that renewed it.
lapses ==
  /\ jar.fresh /\ \A p \in Clients : at[p] # "again"
  /\ jar' = [jar EXCEPT !.fresh = FALSE]
  /\ UNCHANGED <<server, user, at, tok, hist, blame>>

\* An hour after they were set, cv_access and cv_session are gone; cv_refresh has
\* thirty days.  They too outlive the retry of the call that renewed them.  With
\* the default settings the JWT has the same hour, and this is its lapse.
hourPasses ==
  /\ jar.access # 0 /\ \A p \in Clients : at[p] # "again"
  /\ jar' = [jar EXCEPT !.access = 0, !.fresh = FALSE, !.flag = FALSE]
  /\ UNCHANGED <<server, user, at, tok, hist, blame>>

\* The user ends a session from the sessions page, here or elsewhere.
revoke_session(s) ==
  /\ s \in live
  /\ live' = live \ {s}
  /\ blame' = blame \cup {"failure"}
  /\ UNCHANGED <<opened, login, jar, user, at, tok, hist>>

Refresh(p) ==
  \/ refresh_tokens(p) \/ invalidates(p) \/ _create_session(p) \/ crash(p)
  \/ set_auth_cookies(p) \/ lose(p) \/ expired(p)

\* A page load of a tab.
Load(t) == refreshUser(t) \/ setUser(t) \/ noAnswer(t) \/ getAgain(t)

Next ==
  \/ \E p \in Clients : Refresh(p)
  \/ \E c \in Calls : apiFetch(c) \/ retry(c)
  \/ \E t \in Tabs : \/ Load(t) \/ login_(t) \/ loggedIn(t) \/ lostReply(t)
                     \/ logout(t) \/ loggedOut(t)
  \/ lapses \/ hourPasses
  \/ \E s \in Sessions : revoke_session(s)

\* Requests are answered or fail, and the page takes the answer.
RefreshIsFair(p) == WF_vars(Refresh(p))
RetryIsFair(c) == WF_vars(retry(c))
AnswersAreFair(t) == /\ WF_vars(setUser(t)) /\ WF_vars(getAgain(t))
                     /\ WF_vars(loggedIn(t)) /\ WF_vars(loggedOut(t))

Fairness ==
  /\ \A p \in Clients : RefreshIsFair(p)
  /\ \A c \in Calls : RetryIsFair(c)
  /\ \A t \in Tabs : AnswersAreFair(t)

Spec == Init /\ [][Next]_vars /\ Fairness

----------------------------------------------------------------------------
(* Properties.                                                             *)

\* Rotation leaves one session per login: two sessions that go back to the same
\* login are never both active, unless two refreshes overlapped.
OnePerLogin ==
  "overlap" \notin blame => \A r, s \in live : login[r] = login[s] => r = s

\* What a client is exchanging: its token was found good, the new session is not
\* open yet.
Claims == [p \in Clients |-> IF at[p] \in {"checked", "ended"} THEN tok[p] ELSE 0]

Chain == INSTANCE TokenChain WITH claim <- Claims

\* Whatever tabs, crashes, lost answers and revocations do, a session comes from a
\* login or takes the place of one that was active when its token was shown, and
\* one that ended stays ended.
SessionsChain == Chain!Spec

\* While nothing has gone wrong, the browser can renew, an idle hour or not: its
\* refresh token is of an active session, or is being exchanged and the answer
\* with the next one is still to come.  In between no session of it is active.
SessionKept ==
  signed /\ blame = {} =>
    \/ jar.refresh \in live
    \/ \E p \in Clients : at[p] = "ended" /\ tok[p] = jar.refresh
    \/ \E p \in Clients : at[p] = "rotated" /\ tok[p] \in live

\* A page that was loaded while the browser was signed in, cv_session included, has
\* its user once the load ends, and keeps it until the tab signs out, unless
\* something went wrong: a token that lapses, or an hour that takes the cookies
\* during the load or after it, is not one of these things.
KeepsTheUser ==
  signed /\ blame = {} => \A t \in Tabs : began[t] /\ at[t] = "idle" => user[t]

\* A user who signed in stays so, as long as nothing goes wrong.
StaysSignedIn == SessionKept /\ KeepsTheUser

\* Signed out, the browser has no cookie left and the server no session of it,
\* unless something went wrong, a lapsed token at the logout included.
SignedOut ==
  ~signed /\ blame = {} /\ (\A t \in Tabs : at[t] \notin {"login", "out"}) =>
    live = {} /\ jar = NoCookies

\* Wherever a tab is, the step that Fairness owes it can be taken.
LoadGoesOn ==
  \A t \in Tabs :
    /\ at[t] \in {"refused", "checked", "ended", "rotated", "denied"} =>
         ENABLED <<Refresh(t)>>_vars
    /\ at[t] \in {"me", "meAgain"} => ENABLED <<setUser(t)>>_vars
    /\ at[t] = "again" => ENABLED <<getAgain(t)>>_vars
    /\ at[t] = "login" => ENABLED <<loggedIn(t)>>_vars
    /\ at[t] \in {"out", "outFailed"} => ENABLED <<loggedOut(t)>>_vars

LoadIsOver == \A t \in Tabs : at[t] # "idle" ~> at[t] = "idle"

\* A page load always ends, and so do logins and logouts: the page never stays on
\* its spinner.
LoadEnds == []LoadGoesOn /\ LoadIsOver
============================================================================
