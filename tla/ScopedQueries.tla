--------------------------- MODULE ScopedQueries ---------------------------
(***************************************************************************)
(* What a page of the web application shows, and for which accounts:       *)
(* apps/web, stores/scope.ts (the scope), components/layout/header.tsx     *)
(* (the account loader and the live events), hooks/use-connector.ts (the   *)
(* accounts), hooks/use-cspm.ts and hooks/use-dashboard.ts (the queries),  *)
(* hooks/use-websocket.tsx.                                                *)
(*                                                                         *)
(* The scope is a provider, or one of its accounts, with the accounts this *)
(* stands for.  Queries are cached under keys made of the scope.  Answers  *)
(* of the server carry the accounts they are about and a version, which    *)
(* every change of a finding makes greater.                                *)
(***************************************************************************)
EXTENDS Naturals

CONSTANTS
  Aws, Azure,   \* the accounts there can be; two providers stand for the four
  Connected,    \* those connected at first
  Scanned,      \* those the CSPM service has scanned, and has a posture of
  NoAccount,    \* what accountId is when the scope is a provider
  Requests,     \* the connections and deletions of accounts from this page
  MaxInputs     \* bound: changes, faults and acts of the user

ASSUME AccountsAssumption ==
  /\ Aws \cap Azure = {}
  /\ Connected \cup Scanned \subseteq Aws \cup Azure
  /\ NoAccount \notin Aws \cup Azure
ASSUME RequestsAssumption == "loader" \notin Requests
ASSUME MaxInputsAssumption == MaxInputs \in Nat

Accounts  == Aws \cup Azure
Providers == {"aws", "azure"}
Fetchers  == Requests \cup {"loader"}
Versions  == 0..(MaxInputs + 1)

\* The findings of the CSPM page and those of the console: one query for each
\* way of keying, refreshing and invalidating there is.
Families == {"findings", "recent"}

VARIABLES
  server,   \* the connected accounts
  known,    \* the accounts there have been: their findings stay
  version,  \* of the findings
  scope,    \* the scope store: its accounts, provider, accountId, accountIds
  loaded,   \* _accountsLoaded
  lists,    \* loader or request -> the list of accounts it asked for
  page,     \* the family on screen
  cache,    \* family -> key -> what is cached there and the fetch under way
  update,   \* an update of a finding whose answer is awaited
  socket,   \* the connection for live events
  news,     \* events on their way
  inputs,   \* of the bound
  due,      \* history: family -> the version its last invalidation was for
  blame     \* history: what has gone wrong

backend == <<server, known, version>>
live    == <<update, socket, news>>
vars    == <<backend, scope, loaded, lists, page, cache, live, inputs, due, blame>>

membersOf(p) == IF p = "aws" THEN Aws ELSE Azure

\* The accounts a selection can stand for.
reach(p, a) == IF a # NoAccount THEN {a} ELSE IF p = "any" THEN Accounts ELSE membersOf(p)

\* The CSPM findings have the whole scope in their key, the console accountIds
\* only, which are of one provider.
KeyRecord == [provider : Providers \cup {"any"}, account : Accounts \cup {NoAccount},
              ids : ((SUBSET Aws) \cup (SUBSET Azure)) \ {{}}]
Keys(f) == IF f = "findings"
           THEN {k \in KeyRecord : /\ k.provider # "any"
                                   /\ k.account \in membersOf(k.provider) \cup {NoAccount}
                                   /\ k.ids \subseteq reach(k.provider, k.account)}
           ELSE {k \in KeyRecord : k.provider = "any" /\ k.account = NoAccount}

Data    == [ver : Versions, of : SUBSET Accounts]
NoData  == [ver |-> 0, of |-> {}]
Flights == [state : {"no", "asked", "answered"},
            provider : Providers, account : Accounts \cup {NoAccount}, data : Data]
NoFlight == [state |-> "no", provider |-> "aws", account |-> NoAccount, data |-> NoData]
Entries == [data : Data, age : {"fresh", "stale"}, flight : Flights]
NoEntry == [data |-> NoData, age |-> "fresh", flight |-> NoFlight]
Lists   == [state : {"idle", "asked", "answered"}, by : {"load", "connect", "delete"},
            body : SUBSET Accounts]
NoList  == [state |-> "idle", by |-> "load", body |-> {}]
Scopes  == [accounts : SUBSET Accounts, provider : Providers,
            account : Accounts \cup {NoAccount}, ids : SUBSET Accounts]

\* "accounts": the list of accounts is fetched twice at a time, changed
\* elsewhere, or had from another service or not at all.  "data": a query is
\* not answered, or an invalidation finds an answer under way and no way to
\* call it back.
Blames == {"accounts", "data"}

TypeOK ==
  /\ server \in SUBSET known /\ known \in SUBSET Accounts
  /\ version \in Versions \ {0} /\ version <= inputs + 1
  /\ scope \in Scopes /\ scope.account \in membersOf(scope.provider) \cup {NoAccount}
  /\ loaded \in BOOLEAN
  /\ lists \in [Fetchers -> Lists]
  /\ page \in Families
  /\ DOMAIN cache = Families /\ \A f \in Families : cache[f] \in [Keys(f) -> Entries]
  /\ update \in BOOLEAN
  /\ socket \in {"open", "closed", "stopped"}
  /\ news \in Versions /\ news <= inputs
  /\ inputs \in 0..MaxInputs
  /\ due \in [Families -> Versions]
  /\ blame \in SUBSET Blames

resolveAccountIds(p, a, accs) == IF a # NoAccount THEN {a} ELSE accs \cap membersOf(p)

select(accs, p, a) ==
  [accounts |-> accs, provider |-> p, account |-> a, ids |-> resolveAccountIds(p, a, accs)]

firstOf(accs) == IF accs \cap Aws # {} THEN "aws" ELSE "azure"

\* The key of a query for a scope.
key(f, s) ==
  IF f = "findings" THEN [provider |-> s.provider, account |-> s.account, ids |-> s.ids]
                    ELSE [provider |-> "any", account |-> NoAccount, ids |-> s.ids]

enabled(s) == s.ids # {}

Asked(s) == [state |-> "asked", provider |-> s.provider, account |-> s.account, data |-> NoData]

\* The query of family f is asked for scope s.
asking(c, f, s) == [c EXCEPT ![f][key(f, s)].flight = Asked(s)]

Init ==
  /\ server = Connected /\ known = Connected
  /\ version = 1
  /\ scope = [accounts |-> {}, provider |-> "aws", account |-> NoAccount, ids |-> {}]
  /\ loaded = FALSE
  /\ lists = [r \in Fetchers |-> NoList]
  /\ page = "recent"
  /\ cache = [f \in Families |-> [k \in Keys(f) |-> NoEntry]]
  /\ update = FALSE /\ socket = "open" /\ news = 0
  /\ inputs = 0
  /\ due = [f \in Families |-> 0]
  /\ blame = {}

input == inputs < MaxInputs /\ inputs' = inputs + 1
----------------------------------------------------------------------------
(* The query cache (an external library, as the hooks use it).             *)

\* Family f is on screen with scope s: it is fetched when nothing is cached,
\* or what is cached was invalidated or is old.
mounted(c, f, s, old) ==
  LET e == c[f][key(f, s)] IN
  IF enabled(s) /\ e.flight.state = "no" /\ (e.data.ver = 0 \/ e.age = "stale" \/ old)
  THEN asking(c, f, s)
  ELSE c

\* The scope becomes s.
rescoped(s, old) ==
  /\ scope' = s
  /\ cache' = IF key(page, s) = key(page, scope) THEN cache ELSE mounted(cache, page, s, old)

\* The query on screen is asked again: an answer it waits for is called back,
\* unless it is the first.
refetched(c, f, s) ==
  LET e == c[f][key(f, s)] IN
  IF f = page /\ enabled(s) /\ (e.flight.state = "no" \/ e.data.ver # 0)
  THEN asking(c, f, s)
  ELSE c

\* Answers that an invalidation does not call back.
Uncallable(f, s) ==
  {k \in Keys(f) : /\ cache[f][k].flight.state # "no"
                /\ ~(f = page /\ enabled(s) /\ k = key(f, s) /\ cache[f][k].data.ver # 0)}

\* A slip for ShowsWhatIsDue: only what is cached for the scope is marked old.
invalidateShown(f) ==
  /\ cache' = IF enabled(scope)
              THEN refetched([cache EXCEPT ![f][key(f, scope)].age = "stale"], f, scope)
              ELSE cache
  /\ due' = [due EXCEPT ![f] = version]
  /\ blame' = IF Uncallable(f, scope) = {} THEN blame ELSE blame \cup {"data"}

\* invalidateQueries: whatever is cached of the family, for any scope.
invalidateQueries(f) ==
  /\ cache' = refetched([cache EXCEPT ![f] =
                           [k \in Keys(f) |-> [cache[f][k] EXCEPT !.age = "stale"]]], f, scope)
  /\ due' = [due EXCEPT ![f] = version]
  /\ blame' = IF Uncallable(f, scope) = {} THEN blame ELSE blame \cup {"data"}

\* A page is opened, or the one on screen mounts a component of its own.
opens(f) ==
  /\ input
  /\ page' = f
  /\ \E old \in BOOLEAN : cache' = mounted(cache, f, scope, old)
  /\ UNCHANGED <<backend, scope, loaded, lists, live, due, blame>>

\* A slip for FindingsAreScoped: the answer is not filtered by the scope.
queryFnUnfiltered(f, k) ==
  /\ cache[f][k].flight.state = "asked"
  /\ cache' = [cache EXCEPT ![f][k].flight =
                 [@ EXCEPT !.state = "answered", !.data = [ver |-> version, of |-> known]]]
  /\ UNCHANGED <<backend, scope, loaded, lists, page, live, inputs, due, blame>>

\* The server answers, for the selection the query was asked with.
queryFn(f, k) ==
  LET q == cache[f][k].flight IN
  /\ q.state = "asked"
  /\ cache' = [cache EXCEPT ![f][k].flight =
                 [q EXCEPT !.state = "answered",
                           !.data = [ver |-> version,
                                     of |-> known \cap reach(q.provider, q.account)]]]
  /\ UNCHANGED <<backend, scope, loaded, lists, page, live, inputs, due, blame>>

\* A slip for ConsoleCatchesUp: an answer to what is cached already is dropped.
settlesOnce(f, k) ==
  /\ cache[f][k].flight.state = "answered"
  /\ cache' = [cache EXCEPT ![f][k] =
                 [data |-> IF @.data.ver = 0 THEN @.flight.data ELSE @.data,
                  age |-> "fresh", flight |-> NoFlight]]
  /\ UNCHANGED <<backend, scope, loaded, lists, page, live, inputs, due, blame>>

\* The answer is cached.
settles(f, k) ==
  /\ cache[f][k].flight.state = "answered"
  /\ cache' = [cache EXCEPT ![f][k] =
                 [data |-> @.flight.data, age |-> "fresh", flight |-> NoFlight]]
  /\ UNCHANGED <<backend, scope, loaded, lists, page, live, inputs, due, blame>>

\* It does not come, and neither does that of the one retry.
fails(f, k) ==
  /\ input
  /\ cache[f][k].flight.state = "asked"
  /\ cache' = [cache EXCEPT ![f][k].flight = NoFlight]
  /\ blame' = blame \cup {"data"}
  /\ UNCHANGED <<backend, scope, loaded, lists, page, live, due>>

\* The console asks again every minute.
refetchInterval ==
  /\ page = "recent" /\ enabled(scope)
  /\ cache["recent"][key("recent", scope)].flight.state = "no"
  /\ cache' = asking(cache, "recent", scope)
  /\ UNCHANGED <<backend, scope, loaded, lists, page, live, inputs, due, blame>>

----------------------------------------------------------------------------
(* The scope store.                                                        *)

\* A slip for ScopeIsKnown: an account that is gone stays selected.
setAccountsKeeping(accs) ==
  IF accs = scope.accounts \/ accs \cap membersOf(scope.provider) # {} \/ accs = {}
  THEN [scope EXCEPT !.accounts = accs,
                     !.ids = resolveAccountIds(scope.provider, scope.account, accs)]
  ELSE select(accs, firstOf(accs), NoAccount)

\* The scope after setAccounts.  The same list changes nothing but an empty
\* accountIds; an empty list leaves the selection.
setAccounts(accs) ==
  IF accs = scope.accounts
  THEN IF scope.ids = {} /\ accs # {} THEN select(accs, scope.provider, scope.account) ELSE scope
  ELSE IF accs = {} THEN select({}, scope.provider, scope.account)
  ELSE IF accs \cap membersOf(scope.provider) = {} THEN select(accs, firstOf(accs), NoAccount)
  ELSE select(accs, scope.provider, IF scope.account \in accs THEN scope.account ELSE NoAccount)

\* The selector offers the providers and the accounts of the list.
selectProvider(p) ==
  /\ input
  /\ scope.accounts \cap membersOf(p) # {}
  /\ \E old \in BOOLEAN : rescoped(select(scope.accounts, p, NoAccount), old)
  /\ UNCHANGED <<backend, loaded, lists, page, live, due, blame>>

selectAccount(a) ==
  /\ input
  /\ a \in scope.accounts
  /\ \E old \in BOOLEAN :
       rescoped(select(scope.accounts, IF a \in Aws THEN "aws" ELSE "azure", a), old)
  /\ UNCHANGED <<backend, loaded, lists, page, live, due, blame>>

\* The application is loaded anew: what is persisted is the selection and
\* accountIds; the list of accounts and the cache are not.
reload ==
  /\ input
  /\ scope' = [scope EXCEPT !.accounts = {}]
  /\ cache' = mounted([f \in Families |-> [k \in Keys(f) |-> NoEntry]], page, scope', FALSE)
  /\ loaded' = FALSE
  /\ lists' = [r \in Fetchers |-> NoList]
  /\ update' = FALSE /\ socket' = "open" /\ news' = 0
  /\ due' = [f \in Families |-> 0]
  /\ blame' = {}
  /\ UNCHANGED <<backend, page>>

----------------------------------------------------------------------------
(* The list of accounts: the loader, connections and deletions.            *)

Busy == {r \in Fetchers : lists[r].state # "idle"}

asks(r, by) ==
  /\ lists[r].state = "idle"
  /\ lists' = [lists EXCEPT ![r] = [state |-> "asked", by |-> by, body |-> {}]]
  /\ blame' = IF Busy = {} THEN blame ELSE blame \cup {"accounts"}

\* The header mounts.
useAccountLoader ==
  /\ ~loaded /\ loaded' = TRUE
  /\ asks("loader", "load")
  /\ UNCHANGED <<backend, scope, page, cache, live, inputs, due>>

useConnectAccount(r, a) ==
  /\ input
  /\ a \notin server
  /\ server' = server \cup {a} /\ known' = known \cup {a}
  /\ asks(r, "connect")
  /\ UNCHANGED <<version, scope, loaded, page, cache, live, due>>

useDeleteAccount(r, a) ==
  /\ input
  /\ a \in server
  /\ server' = server \ {a}
  /\ asks(r, "delete")
  /\ UNCHANGED <<known, version, scope, loaded, page, cache, live, due>>

\* Someone else connects or deletes an account.
elsewhere(a) ==
  /\ input
  /\ server' = IF a \in server THEN server \ {a} ELSE server \cup {a}
  /\ known' = known \cup {a}
  /\ blame' = blame \cup {"accounts"}
  /\ UNCHANGED <<version, scope, loaded, lists, page, cache, live, due>>

listAccounts(r) ==
  /\ lists[r].state = "asked"
  /\ lists' = [lists EXCEPT ![r].state = "answered", ![r].body = server]
  /\ UNCHANGED <<backend, scope, loaded, page, cache, live, inputs, due, blame>>

\* Told that there are none, the loader takes the accounts whose posture is
\* still known, which no deletion removes.
fallback ==
  /\ lists["loader"].state = "asked" /\ server = {}
  /\ lists' = [lists EXCEPT !["loader"].state = "answered", !["loader"].body = known \cap Scanned]
  /\ blame' = blame \cup {"accounts"}
  /\ UNCHANGED <<backend, scope, loaded, page, cache, live, inputs, due>>

\* The list does not come.  The loader then has the accounts that were scanned.
listFails(r) ==
  /\ input
  /\ lists[r].state = "asked"
  /\ \/ /\ lists' = [lists EXCEPT ![r] = NoList]
        /\ loaded' = IF r = "loader" THEN FALSE ELSE loaded
     \/ /\ r = "loader" /\ UNCHANGED loaded
        /\ lists' = [lists EXCEPT ![r].state = "answered", ![r].body = known \cap Scanned]
  /\ blame' = blame \cup {"accounts"}
  /\ UNCHANGED <<backend, scope, page, cache, live, due>>

\* The loader looks for accountIds at the top of what is persisted, where it
\* never is, and selects the first provider whatever was selected.
hasSavedValidScope == FALSE

loads ==
  LET l == lists["loader"] IN
  /\ l.state = "answered"
  /\ lists' = [lists EXCEPT !["loader"] = NoList]
  /\ IF l.body = {}
     THEN loaded' = FALSE /\ UNCHANGED <<scope, cache>>
     ELSE /\ \E old \in BOOLEAN :
               rescoped(IF hasSavedValidScope THEN setAccounts(l.body)
                        ELSE select(setAccounts(l.body).accounts, firstOf(l.body), NoAccount), old)
          /\ UNCHANGED loaded
  /\ UNCHANGED <<backend, page, live, inputs, due, blame>>

\* A slip for SettledIsServer: a deletion ignores an empty list too.
onSuccessIgnoring(r) ==
  LET l == lists[r] IN
  /\ l.state = "answered" /\ l.by # "load"
  /\ lists' = [lists EXCEPT ![r] = NoList]
  /\ IF l.body = {} THEN UNCHANGED <<scope, cache>>
     ELSE \E old \in BOOLEAN : rescoped(setAccounts(l.body), old)
  /\ UNCHANGED <<backend, loaded, page, live, inputs, due, blame>>

onSuccess(r) ==
  LET l == lists[r] IN
  /\ l.state = "answered" /\ l.by # "load"
  /\ lists' = [lists EXCEPT ![r] = NoList]
  /\ IF l.by = "connect" /\ l.body = {} THEN UNCHANGED <<scope, cache>>
     ELSE \E old \in BOOLEAN : rescoped(setAccounts(l.body), old)
  /\ UNCHANGED <<backend, loaded, page, live, inputs, due, blame>>

----------------------------------------------------------------------------
(* Changes of findings, and the events about them.                         *)

changes ==
  /\ version' = version + 1
  /\ news' = IF socket = "open" THEN news + 1 ELSE news
  /\ UNCHANGED <<server, known>>

Change ==
  /\ input /\ changes
  /\ UNCHANGED <<scope, loaded, lists, page, cache, update, socket, due, blame>>

\* The user changes the status of a finding.
useUpdateFindingStatus ==
  /\ input /\ changes
  /\ page = "findings" /\ ~update
  /\ update' = TRUE
  /\ UNCHANGED <<scope, loaded, lists, page, cache, socket, due, blame>>

updated ==
  /\ update /\ update' = FALSE
  /\ invalidateQueries("findings")
  /\ UNCHANGED <<backend, scope, loaded, lists, page, socket, news, inputs>>

\* A slip for TypeOK: an event is handled that was lost when the socket closed.
onmessageAnyway ==
  /\ news' = news - 1
  /\ invalidateQueries("recent")
  /\ UNCHANGED <<backend, scope, loaded, lists, page, update, socket, inputs>>

onmessage ==
  /\ socket = "open" /\ news > 0
  /\ news' = news - 1
  /\ invalidateQueries("recent")
  /\ UNCHANGED <<backend, scope, loaded, lists, page, update, socket, inputs>>

\* What was on its way is not sent again.
onclose ==
  /\ input
  /\ socket = "open" /\ socket' = "closed"
  /\ news' = 0
  /\ UNCHANGED <<backend, scope, loaded, lists, page, cache, update, due, blame>>

\* After a while it connects again, and reads nothing anew; or it finds no
\* cv_session and never tries again.
connect ==
  /\ socket = "closed"
  /\ socket' \in {"open", "stopped"}
  /\ UNCHANGED <<backend, scope, loaded, lists, page, cache, update, news, inputs, due, blame>>

Query(f, k) == queryFn(f, k) \/ settles(f, k) \/ fails(f, k)

Next ==
  \/ \E f \in Families : opens(f) \/ \E k \in Keys(f) : Query(f, k)
  \/ \E p \in Providers : selectProvider(p)
  \/ \E a \in Accounts : selectAccount(a) \/ elsewhere(a)
  \/ \E r \in Requests :
       onSuccess(r) \/ \E a \in Accounts : useConnectAccount(r, a) \/ useDeleteAccount(r, a)
  \/ \E r \in Fetchers : listAccounts(r) \/ listFails(r)
  \/ fallback \/ refetchInterval \/ reload \/ useAccountLoader \/ loads
  \/ Change \/ useUpdateFindingStatus \/ updated \/ onmessage \/ onclose \/ connect

\* Queries are answered or fail and are asked again by the interval; the user,
\* the server's lists and the socket owe nothing.
QueryIsFair(k) == WF_vars(Query("recent", k))

Fairness ==
  /\ \A k \in Keys("recent") : QueryIsFair(k)
  /\ WF_vars(refetchInterval)

Spec == Init /\ [][Next]_vars /\ Fairness

----------------------------------------------------------------------------
(* Properties.                                                             *)

\* With a list of accounts, the scope is of it: accountIds is never empty nor
\* names an account that is not on the list, and a selected account is there.
ScopeIsKnown ==
  scope.accounts # {} => scope.ids # {} /\ scope.ids \subseteq scope.accounts

\* When no list is awaited, the accounts to select from are those connected,
\* unless a list failed, came late, or somebody else changed it.
SettledIsServer ==
  loaded /\ Busy = {} /\ "accounts" \notin blame => scope.accounts = server

\* The findings on screen are of the accounts selected, whatever answers come
\* after the scope was changed.
FindingsAreScoped ==
  page = "findings" /\ enabled(scope) =>
    cache["findings"][key("findings", scope)].data.of \subseteq reach(scope.provider, scope.account)

\* When no answer is awaited, the screen shows no less than what the last
\* invalidation was for: the user's own updates, the events that arrived.
ShowsWhatIsDue ==
  enabled(scope) /\ "data" \notin blame =>
    LET e == cache[page][key(page, scope)] IN
    e.flight.state = "no" /\ e.data.ver # 0 => e.data.ver >= due[page]

\* What is asked can be answered, and what is on screen can be asked again.
CanQuery(k) == ENABLED <<Query("recent", k)>>_vars

ConsoleGoesOn ==
  /\ \A k \in Keys("recent") : cache["recent"][k].flight.state # "no" => CanQuery(k)
  /\ page = "recent" /\ enabled(scope) /\ cache["recent"][key("recent", scope)].flight.state = "no"
       => ENABLED <<refetchInterval>>_vars

\* The console ends up with the findings as they are, events lost or not; its
\* queries and its interval are never stuck.
ConsoleCatchesUp ==
  /\ []ConsoleGoesOn
  /\ <>[](page = "recent" /\ enabled(scope) =>
            cache["recent"][key("recent", scope)].data.ver = version)
============================================================================
