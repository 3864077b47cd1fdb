------------------------ MODULE ScopedQueriesProofs ------------------------
(***************************************************************************)
(* Proofs about ScopedQueries, for any accounts, requests and number of    *)
(* inputs: the type invariant and the four safety properties.  That what   *)
(* is shown is of the scope and no older than its last invalidation is a   *)
(* statement about every entry of the cache, shown or not: what it holds,  *)
(* and what it waits for, is of its key; and it is fresh, or marked old    *)
(* and asked for again when it comes on screen.                            *)
(*                                                                         *)
(* The last part is liveness: once inputs have ceased, the interval asks   *)
(* for what is on screen again and the answer is of the current version.   *)
(***************************************************************************)
EXTENDS ScopedQueries, TLAPS

Cached(c) == DOMAIN c = Families /\ \A f \in Families : c[f] \in [Keys(f) -> Entries]

Fits(s) == /\ s \in Scopes /\ s.account \in membersOf(s.provider) \cup {NoAccount}
           /\ s.ids \subseteq reach(s.provider, s.account)

\* A scope is of one provider, as its key will be.
ScopeFits == Fits(scope)

\* What an entry under a key of family f holds, and waits for, is of its key.
Good(f, k, e) ==
  f = "findings" =>
    /\ e.data.of \subseteq reach(k.provider, k.account)
    /\ e.flight.state # "no" => e.flight.provider = k.provider /\ e.flight.account = k.account
    /\ e.flight.state = "answered" => e.flight.data.of \subseteq reach(k.provider, k.account)

AllGood == \A f \in Families : \A k \in Keys(f) : Good(f, k, cache[f][k])

\* What an entry holds and is not marked old, or is about to hold, is no older
\* than d.
Fresh(e, d) ==
  /\ e.data.ver # 0 /\ e.age = "fresh" => e.data.ver >= d
  /\ e.flight.state = "answered" => e.flight.data.ver >= d

AllFresh ==
  "data" \notin blame =>
    \A f \in Families : \A k \in Keys(f) : Fresh(cache[f][k], due[f])

\* An old entry on screen is asked for again.
Waits(e) == e.flight.state # "no" \/ e.data.ver = 0 \/ e.age = "fresh"

\* Entry e waiting for v.
With(e, v) == [e EXCEPT !.flight = v]

ShownWaits == "data" \notin blame /\ enabled(scope) => Waits(cache[page][key(page, scope)])

USE AccountsAssumption, MaxInputsAssumption

LEMMA KeyIsThere ==
    ASSUME NEW s, Fits(s), enabled(s), NEW f \in Families
    PROVE  key(f, s) \in Keys(f)
<1>1. /\ s.provider \in Providers /\ s.ids \in SUBSET Accounts /\ s.ids # {}
      /\ s.account \in membersOf(s.provider) \cup {NoAccount}
      /\ s.ids \subseteq reach(s.provider, s.account)
  BY DEF Fits, Scopes, enabled
<1>2. s.provider # "any" /\ s.account \in Accounts \cup {NoAccount}
  BY <1>1 DEF Providers, membersOf, Accounts
<1>3. s.ids \subseteq membersOf(s.provider)
  BY <1>1, <1>2 DEF reach
<1>4. s.ids \in ((SUBSET Aws) \cup (SUBSET Azure)) \ {{}}
  <2>1. s.ids \in SUBSET Aws \/ s.ids \in SUBSET Azure
    BY <1>3 DEF membersOf
  <2>2. QED
    BY <1>1, <2>1, Zenon
<1>5. CASE f = "findings"
  <2>1. key(f, s) = [provider |-> s.provider, account |-> s.account, ids |-> s.ids]
    BY <1>5 DEF key
  <2>2. key(f, s) \in KeyRecord
    BY <1>1, <1>2, <1>4, <2>1 DEF KeyRecord
  <2>3. QED
    BY <1>1, <1>2, <1>5, <2>1, <2>2 DEF Keys
<1>6. CASE f = "recent"
  <2>1. key(f, s) = [provider |-> "any", account |-> NoAccount, ids |-> s.ids]
    BY <1>6 DEF key
  <2>2. key(f, s) \in KeyRecord
    BY <1>4, <2>1 DEF KeyRecord
  <2>3. QED
    BY <1>6, <2>1, <2>2 DEF Keys
<1>7. QED
  BY <1>5, <1>6 DEF Families

\* A query asked for a scope is good for its key, and keeps what there was.
LEMMA AskedEntry ==
    ASSUME NEW s, Fits(s), NEW f \in Families, NEW e \in Entries, NEW d
    PROVE  LET x == With(e, Asked(s)) IN
           /\ x \in Entries /\ Waits(x)
           /\ Good(f, key(f, s), e) => Good(f, key(f, s), x)
           /\ Fresh(e, d) => Fresh(x, d)
<1> DEFINE x == With(e, Asked(s))
<1>1. /\ Asked(s) \in Flights /\ Asked(s).state = "asked"
      /\ Asked(s).provider = s.provider /\ Asked(s).account = s.account
  <2>1. s.provider \in Providers /\ s.account \in Accounts \cup {NoAccount}
    BY DEF Fits, Scopes
  <2>2. NoData \in Data
    BY DEF NoData, Data, Versions
  <2>3. QED
    BY <2>1, <2>2 DEF Asked, Flights
<1>2. /\ x \in Entries /\ x.flight = Asked(s) /\ x.data = e.data /\ x.age = e.age
  BY <1>1 DEF Entries, With
<1> HIDE DEF x
<1>3. Waits(x)
  BY <1>1, <1>2 DEF Waits
<1>4. Good(f, key(f, s), e) => Good(f, key(f, s), x)
  BY <1>1, <1>2 DEF Good, key
<1>5. Fresh(e, d) => Fresh(x, d)
  BY <1>1, <1>2 DEF Fresh
<1>6. QED
  BY <1>2, <1>3, <1>4, <1>5 DEF x

\* Asking changes one entry of a cache.
LEMMA AskingOK ==
    ASSUME NEW c, Cached(c), NEW f \in Families, NEW s, Fits(s), enabled(s)
    PROVE  /\ Cached(asking(c, f, s))
           /\ asking(c, f, s)[f][key(f, s)] = With(c[f][key(f, s)], Asked(s))
           /\ Waits(asking(c, f, s)[f][key(f, s)])
           /\ \A g \in Families : \A h \in Keys(g) :
                \/ asking(c, f, s)[g][h] = c[g][h]
                \/ g = f /\ h = key(f, s) /\ asking(c, f, s)[g][h] = With(c[g][h], Asked(s))
<1> DEFINE d == asking(c, f, s)
           k == key(f, s)
<1>1. DOMAIN c = Families /\ \A g \in Families : c[g] \in [Keys(g) -> Entries]
  BY DEF Cached
<1>2. k \in Keys(f) /\ c[f][k] \in Entries
  BY <1>1, KeyIsThere
<1>3. With(c[f][k], Asked(s)) \in Entries /\ Waits(With(c[f][k], Asked(s)))
  BY <1>2, AskedEntry DEF With
<1>4. DOMAIN d = Families /\ d[f] = [c[f] EXCEPT ![k] = With(c[f][k], Asked(s))]
  BY <1>1 DEF With, asking
<1>5. \A g \in Families : g # f => d[g] = c[g]
  BY <1>1 DEF asking
<1> HIDE DEF d, k
<1>6. d[f] \in [Keys(f) -> Entries] /\ d[f][k] = With(c[f][k], Asked(s))
  BY <1>1, <1>2, <1>3, <1>4
<1>7. \A h \in Keys(f) : h # k => d[f][h] = c[f][h]
  BY <1>1, <1>4
<1>8. Cached(d)
  BY <1>1, <1>4, <1>5, <1>6 DEF Cached
<1>9. \A g \in Families : \A h \in Keys(g) :
        d[g][h] = c[g][h] \/ (g = f /\ h = k /\ d[g][h] = With(c[g][h], Asked(s)))
  BY <1>5, <1>6, <1>7
<1>10. Waits(d[f][k])
  BY <1>3, <1>6
<1>11. QED
  BY <1>6, <1>8, <1>9, <1>10 DEF d, k

\* Mounting a query changes no entry but the one of the scope, which waits.
LEMMA MountedOK ==
    ASSUME NEW c, Cached(c), NEW f \in Families, NEW s, Fits(s), NEW old \in BOOLEAN
    PROVE  LET d == mounted(c, f, s, old) IN
           /\ Cached(d)
           /\ \A g \in Families : \A h \in Keys(g) :
                \/ d[g][h] = c[g][h]
                \/ g = f /\ h = key(f, s) /\ d[g][h] = With(c[g][h], Asked(s))
           /\ enabled(s) => Waits(d[f][key(f, s)])
<1> DEFINE d == mounted(c, f, s, old)
<1>1. CASE ~enabled(s)
  <2>1. d = c
    BY <1>1 DEF mounted
  <2>2. QED
    BY <1>1, <2>1
<1>2. CASE enabled(s)
  <2>1. key(f, s) \in Keys(f) /\ c[f][key(f, s)] \in Entries
    BY <1>2, KeyIsThere DEF Cached
  <2> DEFINE e == c[f][key(f, s)]
  <2>2. e.age \in {"fresh", "stale"}
    BY <2>1 DEF Entries
  <2>3. CASE e.flight.state = "no" /\ (e.data.ver = 0 \/ e.age = "stale" \/ old)
    <3>1. d = asking(c, f, s)
      BY <1>2, <2>3 DEF mounted
    <3> HIDE DEF d
    <3>2. QED
      BY <1>2, <3>1, AskingOK DEF d
  <2>4. CASE ~(e.flight.state = "no" /\ (e.data.ver = 0 \/ e.age = "stale" \/ old))
    <3>1. d = c
      BY <2>4 DEF mounted
    <3>2. Waits(c[f][key(f, s)])
      BY <2>2, <2>4 DEF Waits
    <3> HIDE DEF d
    <3>3. Cached(d) /\ Waits(d[f][key(f, s)])
      BY <3>1, <3>2
    <3>4. QED
      BY <3>1, <3>3 DEF d
  <2>5. QED
    BY <2>3, <2>4
<1>3. QED
  BY <1>1, <1>2

DueIsPast == \A f \in Families : due[f] <= version

CacheOK == Cached(cache) /\ AllGood /\ AllFresh /\ ShownWaits

\* While the list of accounts has one reader and one writer.
OneList ==
  "accounts" \notin blame =>
    /\ \A q, r \in Busy : q = r
    /\ \A r \in Busy : /\ lists[r].state = "answered" => lists[r].body = server
                       /\ lists[r].by = "connect" => server # {}

Inv ==
  /\ TypeOK /\ ScopeFits /\ ScopeIsKnown /\ DueIsPast
  /\ AllGood /\ AllFresh /\ ShownWaits /\ OneList /\ SettledIsServer

\* Provider p has an account on the list.
Has(accs, p) == accs \cap membersOf(p) # {}

\* What a selection makes of a list fits, and is of the list.
LEMMA SelectFits ==
    ASSUME NEW accs \in SUBSET Accounts, NEW p \in Providers, NEW a,
           a = NoAccount \/ (a \in accs /\ a \in membersOf(p))
    PROVE  /\ Fits(select(accs, p, a))
           /\ select(accs, p, a).accounts = accs
           /\ Has(accs, p) => /\ select(accs, p, a).ids # {}
                                           /\ select(accs, p, a).ids \subseteq accs
<1> DEFINE s == select(accs, p, a)
           i == resolveAccountIds(p, a, accs)
<1>1. a \in Accounts \cup {NoAccount} /\ a \in membersOf(p) \cup {NoAccount}
  BY DEF membersOf
<1>2. i \in SUBSET Accounts /\ i \subseteq reach(p, a)
  BY DEF resolveAccountIds, reach, Providers
<1>3. /\ s \in Scopes /\ s.accounts = accs /\ s.provider = p /\ s.account = a /\ s.ids = i
  BY <1>1, <1>2 DEF select, Scopes
<1> HIDE DEF s
<1>4. Fits(s)
  BY <1>1, <1>2, <1>3 DEF Fits
<1>5. Has(accs, p) => i # {} /\ i \subseteq accs
  BY DEF resolveAccountIds, Has
<1>6. QED
  BY <1>3, <1>4, <1>5 DEF s

LEMMA FirstOf ==
    ASSUME NEW accs \in SUBSET Accounts, accs # {}
    PROVE  firstOf(accs) \in Providers /\ Has(accs, firstOf(accs))
BY DEF Has, firstOf, Providers, membersOf, Accounts

\* What setAccounts leaves fits the list it is given.
LEMMA SetAccountsFits ==
    ASSUME NEW accs \in SUBSET Accounts, ScopeFits, ScopeIsKnown
    PROVE  /\ Fits(setAccounts(accs))
           /\ setAccounts(accs).accounts = accs
           /\ accs # {} => /\ setAccounts(accs).ids # {}
                           /\ setAccounts(accs).ids \subseteq accs
<1>1. /\ scope.provider \in Providers /\ scope.account \in membersOf(scope.provider) \cup {NoAccount}
      /\ scope.accounts \in SUBSET Accounts
  BY DEF ScopeFits, Fits, Scopes
<1>2. CASE accs = scope.accounts
  <2>1. setAccounts(accs) = scope
    BY <1>2 DEF setAccounts, ScopeIsKnown
  <2>2. QED
    BY <1>2, <2>1 DEF ScopeFits, ScopeIsKnown
<1>3. CASE accs # scope.accounts /\ accs = {}
  <2>1. setAccounts(accs) = [accounts |-> {}, provider |-> scope.provider,
                             account |-> scope.account,
                             ids |-> resolveAccountIds(scope.provider, scope.account, {})]
    BY <1>3 DEF setAccounts, select
  <2>2. /\ resolveAccountIds(scope.provider, scope.account, {}) \in SUBSET Accounts
        /\ resolveAccountIds(scope.provider, scope.account, {})
             \subseteq reach(scope.provider, scope.account)
    BY <1>1 DEF resolveAccountIds, reach, membersOf, Accounts
  <2>3. scope.account \in Accounts \cup {NoAccount}
    BY <1>1 DEF membersOf, Accounts
  <2>4. setAccounts(accs) \in Scopes
    BY <1>1, <2>1, <2>2, <2>3 DEF Scopes
  <2>5. QED
    BY <1>1, <1>3, <2>1, <2>2, <2>4 DEF Fits
<1>4. CASE accs # scope.accounts /\ accs # {} /\ accs \cap membersOf(scope.provider) = {}
  <2>1. setAccounts(accs) = select(accs, firstOf(accs), NoAccount)
    BY <1>4 DEF setAccounts
  <2>2. firstOf(accs) \in Providers /\ Has(accs, firstOf(accs))
    BY <1>4, FirstOf
  <2> DEFINE q == firstOf(accs)
  <2> HIDE DEF q
  <2>3. /\ Fits(select(accs, q, NoAccount)) /\ select(accs, q, NoAccount).accounts = accs
        /\ select(accs, q, NoAccount).ids # {} /\ select(accs, q, NoAccount).ids \subseteq accs
    <3>1. q \in Providers /\ Has(accs, q)
      BY <2>2 DEF q
    <3>2. QED
      BY <3>1, SelectFits
  <2>4. QED
    BY <2>1, <2>3 DEF q
<1>5. CASE accs # scope.accounts /\ accs # {} /\ accs \cap membersOf(scope.provider) # {}
  <2> DEFINE a == IF scope.account \in accs THEN scope.account ELSE NoAccount
  <2>1. setAccounts(accs) = select(accs, scope.provider, a)
    BY <1>5 DEF setAccounts
  <2>2. a = NoAccount \/ (a \in accs /\ a \in membersOf(scope.provider))
    BY <1>1
  <2> HIDE DEF a
  <2> DEFINE q == scope.provider
  <2>3. /\ q \in Providers /\ Has(accs, q)
        /\ a = NoAccount \/ (a \in accs /\ a \in membersOf(q))
    BY <1>1, <1>5, <2>2 DEF Has
  <2>4. setAccounts(accs) = select(accs, q, a)
    BY <2>1
  <2> HIDE DEF q
  <2>5. /\ Fits(select(accs, q, a)) /\ select(accs, q, a).accounts = accs
        /\ select(accs, q, a).ids # {} /\ select(accs, q, a).ids \subseteq accs
    BY <2>3, SelectFits
  <2>6. QED
    BY <2>4, <2>5
<1>6. QED
  BY <1>2, <1>3, <1>4, <1>5

\* The scope a step leaves fits and is known.

LEMMA ScopeStep ==
    ASSUME Inv, [Next]_vars
    PROVE  ScopeFits' /\ ScopeIsKnown'
<1>1. ASSUME NEW f \in Families, opens(f) PROVE ScopeFits' /\ ScopeIsKnown'
  BY <1>1 DEF opens, Inv, ScopeFits, ScopeIsKnown
<1>2. ASSUME NEW f \in Families, NEW k \in Keys(f), queryFn(f, k) PROVE ScopeFits' /\ ScopeIsKnown'
  BY <1>2 DEF queryFn, Inv, ScopeFits, ScopeIsKnown
<1>3. ASSUME NEW f \in Families, NEW k \in Keys(f), settles(f, k) PROVE ScopeFits' /\ ScopeIsKnown'
  BY <1>3 DEF settles, Inv, ScopeFits, ScopeIsKnown
<1>4. ASSUME NEW f \in Families, NEW k \in Keys(f), fails(f, k) PROVE ScopeFits' /\ ScopeIsKnown'
  BY <1>4 DEF fails, Inv, ScopeFits, ScopeIsKnown
<1>5. ASSUME NEW p \in Providers, selectProvider(p) PROVE ScopeFits' /\ ScopeIsKnown'
  <2>1. /\ scope' = select(scope.accounts, p, NoAccount) /\ Has(scope.accounts, p)
        /\ scope.accounts \in SUBSET Accounts
    BY <1>5 DEF selectProvider, rescoped, Has, Inv, ScopeFits, Fits, Scopes
  <2>2. /\ Fits(scope') /\ scope'.accounts = scope.accounts /\ scope'.ids # {}
        /\ scope'.ids \subseteq scope.accounts
    BY <2>1, SelectFits
  <2>3. QED
    BY <2>2 DEF ScopeFits, ScopeIsKnown
<1>6. ASSUME NEW a \in Accounts, selectAccount(a) PROVE ScopeFits' /\ ScopeIsKnown'
  <2> DEFINE q == IF a \in Aws THEN "aws" ELSE "azure"
  <2>1. /\ scope' = select(scope.accounts, q, a) /\ a \in scope.accounts
        /\ scope.accounts \in SUBSET Accounts
    BY <1>6 DEF selectAccount, rescoped, Inv, ScopeFits, Fits, Scopes
  <2>2. q \in Providers /\ a \in membersOf(q) /\ Has(scope.accounts, q)
    BY <2>1 DEF Providers, membersOf, Accounts, Has
  <2> HIDE DEF q
  <2>3. /\ Fits(scope') /\ scope'.accounts = scope.accounts /\ scope'.ids # {}
        /\ scope'.ids \subseteq scope.accounts
    BY <2>1, <2>2, SelectFits
  <2>4. QED
    BY <2>3 DEF ScopeFits, ScopeIsKnown
<1>7. ASSUME NEW a \in Accounts, elsewhere(a) PROVE ScopeFits' /\ ScopeIsKnown'
  BY <1>7 DEF elsewhere, Inv, ScopeFits, ScopeIsKnown
<1>8. ASSUME NEW r \in Requests, onSuccess(r) PROVE ScopeFits' /\ ScopeIsKnown'
  <2>1. lists[r].body \in SUBSET Accounts
    BY DEF Inv, TypeOK, Lists, Fetchers
  <2> DEFINE l == lists[r].body
  <2>2. UNCHANGED scope \/ scope' = setAccounts(l)
    BY <1>8 DEF onSuccess, rescoped
  <2>3. UNCHANGED scope => ScopeFits' /\ ScopeIsKnown'
    BY DEF Inv, ScopeFits, ScopeIsKnown
  <2> HIDE DEF l
  <2>4. l \in SUBSET Accounts
    BY <2>1 DEF l
  <2>5. /\ Fits(setAccounts(l)) /\ setAccounts(l).accounts = l
        /\ l # {} => setAccounts(l).ids # {} /\ setAccounts(l).ids \subseteq l
    BY <2>4, SetAccountsFits DEF Inv
  <2>6. QED
    BY <2>2, <2>3, <2>5 DEF ScopeFits, ScopeIsKnown
<1>9. ASSUME NEW r \in Requests, NEW a \in Accounts, useConnectAccount(r, a) PROVE ScopeFits' /\ ScopeIsKnown'
  BY <1>9 DEF useConnectAccount, Inv, ScopeFits, ScopeIsKnown
<1>10. ASSUME NEW r \in Requests, NEW a \in Accounts, useDeleteAccount(r, a) PROVE ScopeFits' /\ ScopeIsKnown'
  BY <1>10 DEF useDeleteAccount, Inv, ScopeFits, ScopeIsKnown
<1>11. ASSUME NEW r \in Fetchers, listAccounts(r) PROVE ScopeFits' /\ ScopeIsKnown'
  BY <1>11 DEF listAccounts, Inv, ScopeFits, ScopeIsKnown
<1>12. ASSUME NEW r \in Fetchers, listFails(r) PROVE ScopeFits' /\ ScopeIsKnown'
  BY <1>12 DEF listFails, Inv, ScopeFits, ScopeIsKnown
<1>13. CASE fallback
  BY <1>13 DEF fallback, Inv, ScopeFits, ScopeIsKnown
<1>14. CASE refetchInterval
  BY <1>14 DEF refetchInterval, Inv, ScopeFits, ScopeIsKnown
<1>15. CASE reload
  <2>1. scope' = [scope EXCEPT !.accounts = {}] /\ scope \in Scopes
    BY <1>15 DEF reload, Inv, ScopeFits, Fits
  <2>2. /\ scope' \in Scopes /\ scope'.accounts = {} /\ scope'.provider = scope.provider
        /\ scope'.account = scope.account /\ scope'.ids = scope.ids
    BY <2>1 DEF Scopes
  <2>3. QED
    BY <2>2 DEF ScopeFits, ScopeIsKnown, Fits, Inv
<1>16. CASE useAccountLoader
  BY <1>16 DEF useAccountLoader, Inv, ScopeFits, ScopeIsKnown
<1>17. CASE loads
  <2>1. lists["loader"].body \in SUBSET Accounts
    BY DEF Inv, TypeOK, Lists, Fetchers
  <2> DEFINE l == lists["loader"].body
  <2>2. UNCHANGED scope \/ (l # {} /\ scope' = select(setAccounts(l).accounts, firstOf(l), NoAccount))
    BY <1>17 DEF loads, rescoped, hasSavedValidScope
  <2>3. UNCHANGED scope => ScopeFits' /\ ScopeIsKnown'
    BY DEF Inv, ScopeFits, ScopeIsKnown
  <2> HIDE DEF l
  <2>4. l \in SUBSET Accounts
    BY <2>1 DEF l
  <2>5. setAccounts(l).accounts = l
    BY <2>4, SetAccountsFits DEF Inv
  <2> DEFINE q == firstOf(l)
  <2>6. l # {} => q \in Providers /\ Has(l, q)
    BY <2>4, FirstOf
  <2>7. l # {} => scope' = scope \/ scope' = select(l, q, NoAccount)
    BY <2>2, <2>5
  <2> HIDE DEF q
  <2>8. l # {} => /\ Fits(select(l, q, NoAccount)) /\ select(l, q, NoAccount).accounts = l
                  /\ select(l, q, NoAccount).ids # {} /\ select(l, q, NoAccount).ids \subseteq l
    BY <2>4, <2>6, SelectFits
  <2>9. QED
    BY <2>2, <2>3, <2>7, <2>8 DEF ScopeFits, ScopeIsKnown
<1>18. CASE Change
  BY <1>18 DEF Change, Inv, ScopeFits, ScopeIsKnown
<1>19. CASE useUpdateFindingStatus
  BY <1>19 DEF useUpdateFindingStatus, Inv, ScopeFits, ScopeIsKnown
<1>20. CASE updated
  BY <1>20 DEF updated, Inv, ScopeFits, ScopeIsKnown
<1>21. CASE onmessage
  BY <1>21 DEF onmessage, Inv, ScopeFits, ScopeIsKnown
<1>22. CASE onclose
  BY <1>22 DEF onclose, Inv, ScopeFits, ScopeIsKnown
<1>23. CASE connect
  BY <1>23 DEF connect, Inv, ScopeFits, ScopeIsKnown
<1>24. CASE UNCHANGED vars
  BY <1>24 DEF vars, backend, live, Inv, ScopeFits, ScopeIsKnown
<1>25. QED
  BY <1>1, <1>2, <1>3, <1>4, <1>5, <1>6, <1>7, <1>8, <1>9, <1>10, <1>11, <1>12,
     <1>13, <1>14, <1>15, <1>16, <1>17, <1>18, <1>19, <1>20, <1>21, <1>22, <1>23,
     <1>24 DEF Next, Query

\* Mounting a query on what is cached is no harm.
LEMMA MountKeeps ==
    ASSUME NEW c, Cached(c), NEW f \in Families, NEW s, Fits(s), NEW old \in BOOLEAN,
           \A g \in Families : \A h \in Keys(g) : Good(g, h, c[g][h]),
           "data" \notin blame' => \A g \in Families : \A h \in Keys(g) : Fresh(c[g][h], due'[g]),
           cache' = mounted(c, f, s, old), page' = f, scope' = s
    PROVE  CacheOK'
<1> DEFINE d == mounted(c, f, s, old)
<1>1. /\ Cached(d)
      /\ \A g \in Families : \A h \in Keys(g) :
           \/ d[g][h] = c[g][h]
           \/ g = f /\ h = key(f, s) /\ d[g][h] = With(c[g][h], Asked(s))
      /\ enabled(s) => Waits(d[f][key(f, s)])
  BY MountedOK
<1> HIDE DEF d
<1>2. \A g \in Families : \A h \in Keys(g) : Good(g, h, d[g][h])
  <2>1. SUFFICES ASSUME NEW g \in Families, NEW h \in Keys(g) PROVE Good(g, h, d[g][h])
    OBVIOUS
  <2>2. c[g][h] \in Entries /\ Good(g, h, c[g][h])
    BY DEF Cached
  <2>3. CASE d[g][h] = c[g][h]
    BY <2>2, <2>3
  <2>4. CASE g = f /\ h = key(f, s) /\ d[g][h] = With(c[g][h], Asked(s))
    BY <2>2, <2>4, AskedEntry
  <2>5. QED
    BY <1>1, <2>3, <2>4
<1>3. ASSUME "data" \notin blame', NEW g \in Families, NEW h \in Keys(g)
      PROVE  Fresh(d[g][h], due'[g])
  <2>1. c[g][h] \in Entries /\ Fresh(c[g][h], due'[g])
    BY <1>3 DEF Cached
  <2>2. CASE d[g][h] = c[g][h]
    BY <2>1, <2>2
  <2>3. CASE g = f /\ h = key(f, s) /\ d[g][h] = With(c[g][h], Asked(s))
    BY <2>1, <2>3, AskedEntry
  <2>4. QED
    BY <1>1, <2>2, <2>3
<1>4. cache' = d
  BY DEF d
<1>5. Cached(cache') /\ AllGood'
  BY <1>1, <1>2, <1>4 DEF AllGood
<1>6. AllFresh'
  BY <1>3, <1>4 DEF AllFresh
<1>7. ShownWaits'
  BY <1>1, <1>4 DEF ShownWaits
<1>8. QED
  BY <1>5, <1>6, <1>7 DEF CacheOK

LEMMA NothingHappens ==
    ASSUME Inv, UNCHANGED <<cache, page, scope, due>>, blame \subseteq blame'
    PROVE  CacheOK'
BY DEF Inv, TypeOK, CacheOK, Cached, AllGood, AllFresh, ShownWaits

\* The scope becoming s leaves the cache as it should be.
LEMMA RescopedOK ==
    ASSUME Inv, NEW s, Fits(s), NEW old \in BOOLEAN, rescoped(s, old), UNCHANGED <<page, due, blame>>
    PROVE  CacheOK'
<1>1. Cached(cache) /\ AllGood /\ AllFresh /\ page \in Families
  BY DEF Inv, TypeOK, Cached
<1>2. CASE key(page, s) = key(page, scope)
  <2>1. s.ids = scope.ids
    BY <1>2 DEF key
  <2>2. cache' = cache /\ scope' = s /\ UNCHANGED <<page, due, blame>>
    BY <1>2 DEF rescoped
  <2>3. ShownWaits'
    BY <1>2, <2>1, <2>2 DEF Inv, ShownWaits, enabled
  <2>4. QED
    BY <1>1, <2>2, <2>3 DEF CacheOK, AllGood, AllFresh
<1>3. CASE key(page, s) # key(page, scope)
  <2>1. cache' = mounted(cache, page, s, old) /\ scope' = s /\ UNCHANGED <<page, due, blame>>
    BY <1>3 DEF rescoped
  <2>2. \A g \in Families : \A h \in Keys(g) : Good(g, h, cache[g][h])
    BY <1>1 DEF AllGood
  <2>3. "data" \notin blame' => \A g \in Families : \A h \in Keys(g) : Fresh(cache[g][h], due'[g])
    BY <1>1, <2>1 DEF AllFresh
  <2>4. QED
    BY <1>1, <2>1, <2>2, <2>3, MountKeeps
<1>4. QED
  BY <1>2, <1>3

\* One entry becoming x, good and fresh.
LEMMA PutKeeps ==
    ASSUME Inv, NEW f \in Families, NEW k \in Keys(f), NEW x \in Entries,
           cache' = [cache EXCEPT ![f][k] = x], UNCHANGED <<page, scope, due>>,
           blame \subseteq blame', Good(f, k, x),
           "data" \notin blame' => Fresh(x, due[f]) /\ Waits(x)
    PROVE  CacheOK'
<1>1. /\ DOMAIN cache = Families /\ \A g \in Families : cache[g] \in [Keys(g) -> Entries]
      /\ AllGood /\ AllFresh /\ ShownWaits
  BY DEF Inv, TypeOK
<1>2. DOMAIN cache' = Families /\ cache'[f] = [cache[f] EXCEPT ![k] = x]
  BY <1>1
<1>3. \A g \in Families : g # f => cache'[g] = cache[g]
  BY <1>1
<1>4. cache'[f] \in [Keys(f) -> Entries] /\ cache'[f][k] = x
  BY <1>1, <1>2
<1>5. \A h \in Keys(f) : h # k => cache'[f][h] = cache[f][h]
  BY <1>1, <1>2
<1>6. \A g \in Families : cache'[g] \in [Keys(g) -> Entries]
  BY <1>1, <1>3, <1>4
<1>7. Cached(cache')
  BY <1>2, <1>6 DEF Cached
<1>8. \A g \in Families : \A h \in Keys(g) :
        cache'[g][h] = cache[g][h] \/ (g = f /\ h = k /\ cache'[g][h] = x)
  BY <1>3, <1>4, <1>5
<1>9. AllGood'
  BY <1>1, <1>8 DEF AllGood
<1>10. AllFresh'
  BY <1>1, <1>8 DEF AllFresh
<1>11. ShownWaits'
  <2>1. SUFFICES ASSUME "data" \notin blame', enabled(scope) PROVE Waits(cache'[page][key(page, scope)])
    BY DEF ShownWaits
  <2>2. page \in Families /\ key(page, scope) \in Keys(page)
    BY <2>1, KeyIsThere DEF Inv, TypeOK, ScopeFits
  <2>3. Waits(cache[page][key(page, scope)]) /\ Waits(x)
    BY <1>1, <2>1 DEF ShownWaits
  <2>4. QED
    BY <1>8, <2>2, <2>3
<1>12. QED
  BY <1>7, <1>9, <1>10, <1>11 DEF CacheOK

\* Entry e after an invalidation.
Old(e) == [e EXCEPT !.age = "stale"]

\* An entry marked old is as good, and fresh unless an answer to it is had.
LEMMA OldEntry ==
    ASSUME NEW e \in Entries
    PROVE  /\ Old(e) \in Entries /\ Old(e).data = e.data /\ Old(e).flight = e.flight
           /\ \A f, k : Good(f, k, e) => Good(f, k, Old(e))
           /\ \A d : e.flight.state # "answered" => Fresh(Old(e), d)
<1>1. Old(e) \in Entries /\ Old(e).data = e.data /\ Old(e).flight = e.flight /\ Old(e).age = "stale"
  BY DEF Old, Entries
<1>2. \A f, k : Good(f, k, e) => Good(f, k, Old(e))
  BY <1>1 DEF Good
<1>3. \A d : e.flight.state # "answered" => Fresh(Old(e), d)
  BY <1>1 DEF Fresh
<1>4. QED
  BY <1>1, <1>2, <1>3

\* An invalidation leaves the cache as it should be.
LEMMA InvalidateKeeps ==
    ASSUME Inv, NEW f \in Families, invalidateQueries(f), UNCHANGED <<page, scope, version>>
    PROVE  CacheOK'
<1> DEFINE c == [cache EXCEPT ![f] = [k \in Keys(f) |-> Old(cache[f][k])]]
           q == key(f, scope)
           again == /\ f = page /\ enabled(scope)
                    /\ cache[f][q].flight.state = "no" \/ cache[f][q].data.ver # 0
<1>1. /\ DOMAIN cache = Families /\ \A g \in Families : cache[g] \in [Keys(g) -> Entries]
      /\ AllGood /\ AllFresh /\ ShownWaits /\ Fits(scope) /\ page \in Families
  BY DEF Inv, TypeOK, ScopeFits
<1>2. /\ cache' = refetched(c, f, scope)
      /\ due' = [due EXCEPT ![f] = version] /\ due \in [Families -> Versions]
      /\ blame' = IF Uncallable(f, scope) = {} THEN blame ELSE blame \cup {"data"}
  BY DEF invalidateQueries, Old, Inv, TypeOK
<1>3. DOMAIN c = Families /\ c[f] = [k \in Keys(f) |-> Old(cache[f][k])]
  BY <1>1
<1>4. \A g \in Families : g # f => c[g] = cache[g]
  BY <1>1
<1> HIDE DEF c
<1>5. \A h \in Keys(f) : c[f][h] = Old(cache[f][h]) /\ cache[f][h] \in Entries
  BY <1>1, <1>3
<1>6. c[f] \in [Keys(f) -> Entries]
  BY <1>3, <1>5, OldEntry
<1>7. Cached(c)
  BY <1>1, <1>3, <1>4, <1>6 DEF Cached
<1>8. enabled(scope) => q \in Keys(f)
  BY <1>1, KeyIsThere
<1> HIDE DEF q
<1>9. enabled(scope) => c[f][q].flight = cache[f][q].flight /\ c[f][q].data = cache[f][q].data
  BY <1>5, <1>8, OldEntry
<1>10. again => cache' = asking(c, f, scope)
  BY <1>2, <1>9 DEF refetched, q
<1>11. ~again => cache' = c
  BY <1>2, <1>9 DEF refetched, q
<1>12. again => /\ Cached(cache')
                /\ cache'[f][q] = With(c[f][q], Asked(scope)) /\ Waits(cache'[f][q])
                /\ \A g \in Families : \A h \in Keys(g) :
                     \/ cache'[g][h] = c[g][h]
                     \/ g = f /\ h = q /\ cache'[g][h] = With(c[g][h], Asked(scope))
  BY <1>1, <1>7, <1>10, AskingOK DEF q
<1> HIDE DEF again
<1>13. Cached(cache')
  BY <1>7, <1>11, <1>12
<1>14. \A g \in Families : \A h \in Keys(g) :
         \/ cache'[g][h] = c[g][h]
         \/ g = f /\ h = q /\ cache'[g][h] = With(c[g][h], Asked(scope))
  BY <1>11, <1>12
<1>15. AllGood'
  <2>1. SUFFICES ASSUME NEW g \in Families, NEW h \in Keys(g) PROVE Good(g, h, cache'[g][h])
    BY DEF AllGood
  <2>2. cache[g][h] \in Entries /\ Good(g, h, cache[g][h])
    BY <1>1 DEF AllGood
  <2>3. c[g][h] \in Entries /\ Good(g, h, c[g][h])
    BY <1>4, <1>5, <2>2, OldEntry
  <2>4. g = f /\ h = q => Good(g, h, With(c[g][h], Asked(scope)))
    BY <1>1, <2>3, AskedEntry DEF q
  <2>5. QED
    BY <1>14, <2>3, <2>4
<1>16. AllFresh'
  <2>1. SUFFICES ASSUME "data" \notin blame', NEW g \in Families, NEW h \in Keys(g)
                 PROVE  Fresh(cache'[g][h], due'[g])
    BY DEF AllFresh
  <2>2. "data" \notin blame /\ Uncallable(f, scope) = {}
    BY <1>2, <2>1
  <2>3. CASE g # f
    <3>1. Fresh(cache[g][h], due[g]) /\ c[g][h] = cache[g][h] /\ due'[g] = due[g]
      BY <1>1, <1>2, <1>4, <2>2, <2>3 DEF AllFresh
    <3>2. QED
      BY <1>14, <2>3, <3>1
  <2>4. CASE g = f /\ again /\ h = q
    <3>1. /\ cache'[g][h] = With(Old(cache[g][h]), Asked(scope)) /\ cache[g][h] \in Entries
          /\ Asked(scope).state = "asked"
      BY <1>5, <1>12, <2>4 DEF Asked
    <3> DEFINE e == cache[g][h]
               v == Asked(scope)
    <3>2. With(Old(e), v).flight = v /\ With(Old(e), v).age = "stale"
      BY <3>1 DEF With, Old, Entries
    <3> HIDE DEF e, v
    <3>3. v.state = "asked" /\ cache'[g][h] = With(Old(e), v)
      BY <3>1 DEF e, v
    <3>4. QED
      BY <3>2, <3>3 DEF Fresh
  <2>5. CASE g = f /\ ~(again /\ h = q)
    <3>1. cache'[g][h] = c[g][h]
      BY <1>11, <1>12, <2>5
    <3>2. c[g][h] = Old(cache[g][h]) /\ cache[g][h] \in Entries /\ h \in Keys(f)
      BY <1>5, <2>5
    <3>3. cache[g][h].flight.state = "no"
      BY <2>2, <2>5, <3>2 DEF Uncallable, again, q
    <3>4. QED
      BY <3>1, <3>2, <3>3, OldEntry
  <2>6. QED
    BY <2>3, <2>4, <2>5
<1>17. ShownWaits'
  <2>1. SUFFICES ASSUME "data" \notin blame', enabled(scope) PROVE Waits(cache'[page][key(page, scope)])
    BY DEF ShownWaits
  <2>2. CASE page = f /\ again
    BY <1>12, <2>2 DEF q
  <2>3. CASE page = f /\ ~again
    <3>1. cache[f][q].flight.state # "no" /\ cache'[f][q] = c[f][q]
      BY <1>11, <2>1, <2>3 DEF again
    <3>2. QED
      BY <1>9, <2>1, <2>3, <3>1 DEF Waits, q
  <2>4. CASE page # f
    <3>1. "data" \notin blame /\ key(page, scope) \in Keys(page)
      BY <1>1, <1>2, <2>1, KeyIsThere
    <3>2. Waits(cache[page][key(page, scope)]) /\ c[page] = cache[page]
      BY <1>1, <1>4, <2>1, <2>4, <3>1 DEF ShownWaits
    <3>3. QED
      BY <1>1, <1>14, <2>4, <3>1, <3>2
  <2>5. QED
    BY <2>2, <2>3, <2>4
<1>18. QED
  BY <1>13, <1>15, <1>16, <1>17 DEF CacheOK

\* Asking again is no harm.
LEMMA AskKeeps ==
    ASSUME Inv, page = "recent", enabled(scope), cache' = asking(cache, "recent", scope),
           UNCHANGED <<page, scope, due, blame>>
    PROVE  CacheOK'
<1> DEFINE f == "recent"
           k == key(f, scope)
           x == With(cache[f][k], Asked(scope))
<1>1. f \in Families /\ Fits(scope) /\ k \in Keys(f)
  BY KeyIsThere DEF Families, Inv, ScopeFits
<1>2. cache[f] \in [Keys(f) -> Entries] /\ Good(f, k, cache[f][k])
  BY <1>1 DEF Inv, TypeOK, AllGood
<1>3. cache[f][k] \in Entries
  BY <1>1, <1>2
<1>4. x \in Entries /\ Waits(x) /\ Good(f, k, x)
  BY <1>1, <1>2, <1>3, AskedEntry
<1>5. "data" \notin blame' => Fresh(x, due[f])
  <2>1. "data" \notin blame' => Fresh(cache[f][k], due[f])
    BY <1>1 DEF Inv, AllFresh
  <2>2. QED
    BY <1>1, <1>3, <2>1, AskedEntry
<1>6. cache' = [cache EXCEPT ![f][k] = x]
  BY DEF asking, With
<1> HIDE DEF f, k, x
<1>7. QED
  BY <1>1, <1>4, <1>5, <1>6, PutKeeps

\* The cache stays as it should be.
LEMMA CacheStep ==
    ASSUME Inv, [Next]_vars
    PROVE  CacheOK'
<1>1. ASSUME NEW f \in Families, opens(f) PROVE CacheOK'
  <2>1. PICK old \in BOOLEAN : cache' = mounted(cache, f, scope, old)
    BY <1>1 DEF opens
  <2>2. page' = f /\ UNCHANGED <<scope, due, blame>> /\ Cached(cache) /\ Fits(scope)
    BY <1>1 DEF opens, Inv, TypeOK, Cached, ScopeFits
  <2>3. \A g \in Families : \A h \in Keys(g) : Good(g, h, cache[g][h])
    BY DEF Inv, AllGood
  <2>4. "data" \notin blame' => \A g \in Families : \A h \in Keys(g) : Fresh(cache[g][h], due'[g])
    BY <2>2 DEF Inv, AllFresh
  <2>5. QED
    BY <1>1, <2>1, <2>2, <2>3, <2>4, MountKeeps
<1>2. ASSUME NEW f \in Families, NEW k \in Keys(f), queryFn(f, k) PROVE CacheOK'
  <2> DEFINE e == cache[f][k]
             d == [ver |-> version, of |-> known \cap reach(e.flight.provider, e.flight.account)]
             x == With(e, [e.flight EXCEPT !.state = "answered", !.data = d])
  <2>1. e \in Entries /\ e.flight \in Flights /\ Good(f, k, e) /\ e.flight.state = "asked"
    BY <1>2 DEF Inv, TypeOK, AllGood, Entries, queryFn
  <2>2. d \in Data /\ d.ver = version /\ d.of \subseteq reach(e.flight.provider, e.flight.account)
    BY DEF Inv, TypeOK, Data
  <2>3. cache' = [cache EXCEPT ![f][k] = x] /\ UNCHANGED <<page, scope, due, blame>>
    BY <1>2 DEF queryFn, With
  <2> HIDE DEF d
  <2>4. /\ x \in Entries /\ x.data = e.data /\ x.age = e.age
        /\ x.flight.state = "answered" /\ x.flight.data = d
        /\ x.flight.provider = e.flight.provider /\ x.flight.account = e.flight.account
    BY <2>1, <2>2 DEF Entries, Flights, With
  <2> HIDE DEF x
  <2>5. Good(f, k, x)
    BY <2>1, <2>2, <2>4 DEF Good
  <2>6. "data" \notin blame' => Fresh(e, due[f]) /\ version >= due[f]
    BY <2>3 DEF Inv, AllFresh, DueIsPast, TypeOK, Versions
  <2>7. "data" \notin blame' => Fresh(x, due[f]) /\ Waits(x)
    BY <2>2, <2>4, <2>6 DEF Fresh, Waits
  <2>8. QED
    BY <1>2, <2>3, <2>4, <2>5, <2>7, PutKeeps
<1>3. ASSUME NEW f \in Families, NEW k \in Keys(f), settles(f, k) PROVE CacheOK'
  <2> DEFINE e == cache[f][k]
             x == [data |-> e.flight.data, age |-> "fresh", flight |-> NoFlight]
  <2>1. e \in Entries /\ e.flight \in Flights /\ Good(f, k, e) /\ e.flight.state = "answered"
    BY <1>3 DEF Inv, TypeOK, AllGood, Entries, settles
  <2>2. cache' = [cache EXCEPT ![f][k] = x] /\ UNCHANGED <<page, scope, due, blame>>
    BY <1>3 DEF settles
  <2>3. e.flight.data \in Data /\ NoFlight \in Flights /\ NoFlight.state = "no"
    BY <2>1 DEF Flights, NoFlight, NoData, Data, Versions, Providers
  <2>4. /\ x \in Entries /\ x.data = e.flight.data /\ x.age = "fresh" /\ x.flight.state = "no"
    BY <2>3 DEF Entries
  <2> HIDE DEF x
  <2>5. Good(f, k, x)
    BY <2>1, <2>4 DEF Good
  <2>6. "data" \notin blame' => Fresh(e, due[f])
    BY <2>2 DEF Inv, AllFresh
  <2>7. "data" \notin blame' => Fresh(x, due[f]) /\ Waits(x)
    BY <2>1, <2>4, <2>6 DEF Fresh, Waits
  <2>8. QED
    BY <1>3, <2>2, <2>4, <2>5, <2>7, PutKeeps
<1>4. ASSUME NEW f \in Families, NEW k \in Keys(f), fails(f, k) PROVE CacheOK'
  <2> DEFINE e == cache[f][k]
             x == With(e, NoFlight)
  <2>1. e \in Entries /\ Good(f, k, e)
    BY <1>4 DEF Inv, TypeOK, AllGood
  <2>2. /\ cache' = [cache EXCEPT ![f][k] = x] /\ UNCHANGED <<page, scope, due>>
        /\ blame' = blame \cup {"data"}
    BY <1>4 DEF fails, With
  <2>3. NoFlight \in Flights /\ NoFlight.state = "no"
    BY DEF Flights, NoFlight, NoData, Data, Versions, Providers
  <2>4. /\ x \in Entries /\ x.data = e.data /\ x.flight.state = "no"
    BY <2>1, <2>3 DEF Entries, With
  <2> HIDE DEF x
  <2>5. Good(f, k, x)
    BY <2>1, <2>4 DEF Good
  <2>6. QED
    BY <1>4, <2>2, <2>4, <2>5, PutKeeps
<1>5. ASSUME NEW p \in Providers, selectProvider(p) PROVE CacheOK'
  <2>1. PICK old \in BOOLEAN : rescoped(scope', old)
    BY <1>5 DEF selectProvider, rescoped
  <2>2. UNCHANGED <<page, due, blame>> /\ Fits(scope')
    BY <1>5, ScopeStep DEF selectProvider, ScopeFits
  <2>3. QED
    BY <2>1, <2>2, RescopedOK
<1>6. ASSUME NEW a \in Accounts, selectAccount(a) PROVE CacheOK'
  <2>1. PICK old \in BOOLEAN : rescoped(scope', old)
    BY <1>6 DEF selectAccount, rescoped
  <2>2. UNCHANGED <<page, due, blame>> /\ Fits(scope')
    BY <1>6, ScopeStep DEF selectAccount, ScopeFits
  <2>3. QED
    BY <2>1, <2>2, RescopedOK
<1>7. ASSUME NEW a \in Accounts, elsewhere(a) PROVE CacheOK'
  <2>1. UNCHANGED <<cache, page, scope, due>> /\ blame \subseteq blame'
    BY <1>7 DEF elsewhere
  <2>2. QED
    BY <2>1, NothingHappens
<1>8. ASSUME NEW r \in Requests, onSuccess(r) PROVE CacheOK'
  <2>1. UNCHANGED <<scope, cache>> \/ \E old \in BOOLEAN : rescoped(scope', old)
    BY <1>8 DEF onSuccess, rescoped
  <2>2. UNCHANGED <<page, due, blame>> /\ Fits(scope')
    BY <1>8, ScopeStep DEF onSuccess, ScopeFits
  <2>3. CASE UNCHANGED <<scope, cache>>
    BY <2>2, <2>3, NothingHappens
  <2>4. CASE \E old \in BOOLEAN : rescoped(scope', old)
    BY <2>2, <2>4, RescopedOK
  <2>5. QED
    BY <2>1, <2>3, <2>4
<1>9. ASSUME NEW r \in Requests, NEW a \in Accounts, useConnectAccount(r, a) PROVE CacheOK'
  <2>1. UNCHANGED <<cache, page, scope, due>> /\ blame \subseteq blame'
    BY <1>9 DEF useConnectAccount, asks
  <2>2. QED
    BY <2>1, NothingHappens
<1>10. ASSUME NEW r \in Requests, NEW a \in Accounts, useDeleteAccount(r, a) PROVE CacheOK'
  <2>1. UNCHANGED <<cache, page, scope, due>> /\ blame \subseteq blame'
    BY <1>10 DEF useDeleteAccount, asks
  <2>2. QED
    BY <2>1, NothingHappens
<1>11. ASSUME NEW r \in Fetchers, listAccounts(r) PROVE CacheOK'
  <2>1. UNCHANGED <<cache, page, scope, due>> /\ blame \subseteq blame'
    BY <1>11 DEF listAccounts
  <2>2. QED
    BY <2>1, NothingHappens
<1>12. ASSUME NEW r \in Fetchers, listFails(r) PROVE CacheOK'
  <2>1. UNCHANGED <<cache, page, scope, due>> /\ blame \subseteq blame'
    BY <1>12 DEF listFails
  <2>2. QED
    BY <2>1, NothingHappens
<1>13. CASE fallback
  <2>1. UNCHANGED <<cache, page, scope, due>> /\ blame \subseteq blame'
    BY <1>13 DEF fallback
  <2>2. QED
    BY <2>1, NothingHappens
<1>14. CASE refetchInterval
  <2>1. /\ page = "recent" /\ enabled(scope) /\ cache' = asking(cache, "recent", scope)
        /\ UNCHANGED <<page, scope, due, blame>>
    BY <1>14 DEF refetchInterval
  <2>2. QED
    BY <2>1, AskKeeps
<1>15. CASE reload
  <2> DEFINE c == [f \in Families |-> [k \in Keys(f) |-> NoEntry]]
  <2>1. /\ cache' = mounted(c, page, scope', FALSE) /\ UNCHANGED page
        /\ due' = [f \in Families |-> 0] /\ page \in Families
    BY <1>15 DEF reload, Inv, TypeOK
  <2>2. NoEntry \in Entries
    BY DEF NoEntry, Entries, NoFlight, Flights, NoData, Data, Versions, Providers
  <2>3. Cached(c)
    BY <2>2 DEF Cached
  <2>4. \A g \in Families : \A h \in Keys(g) : c[g][h] = NoEntry
    OBVIOUS
  <2> HIDE DEF c
  <2>5. \A g \in Families : \A h \in Keys(g) : Good(g, h, c[g][h])
    BY <2>4 DEF Good, NoEntry, NoFlight, NoData
  <2>6. "data" \notin blame' => \A g \in Families : \A h \in Keys(g) : Fresh(c[g][h], due'[g])
    BY <2>1, <2>4 DEF Fresh, NoEntry, NoFlight, NoData
  <2>7. Fits(scope')
    BY <1>15, ScopeStep DEF ScopeFits
  <2>8. QED
    BY <2>1, <2>3, <2>5, <2>6, <2>7, MountKeeps DEF c
<1>16. CASE useAccountLoader
  <2>1. UNCHANGED <<cache, page, scope, due>> /\ blame \subseteq blame'
    BY <1>16 DEF useAccountLoader, asks
  <2>2. QED
    BY <2>1, NothingHappens
<1>17. CASE loads
  <2>1. UNCHANGED <<scope, cache>> \/ \E old \in BOOLEAN : rescoped(scope', old)
    BY <1>17 DEF loads, rescoped
  <2>2. UNCHANGED <<page, due, blame>> /\ Fits(scope')
    BY <1>17, ScopeStep DEF loads, ScopeFits
  <2>3. CASE UNCHANGED <<scope, cache>>
    BY <2>2, <2>3, NothingHappens
  <2>4. CASE \E old \in BOOLEAN : rescoped(scope', old)
    BY <2>2, <2>4, RescopedOK
  <2>5. QED
    BY <2>1, <2>3, <2>4
<1>18. CASE Change
  <2>1. UNCHANGED <<cache, page, scope, due>> /\ blame \subseteq blame'
    BY <1>18 DEF Change
  <2>2. QED
    BY <2>1, NothingHappens
<1>19. CASE useUpdateFindingStatus
  <2>1. UNCHANGED <<cache, page, scope, due>> /\ blame \subseteq blame'
    BY <1>19 DEF useUpdateFindingStatus
  <2>2. QED
    BY <2>1, NothingHappens
<1>20. CASE updated
  <2>1. invalidateQueries("findings") /\ UNCHANGED <<page, scope, version>> /\ "findings" \in Families
    BY <1>20 DEF updated, backend, Families
  <2>2. QED
    BY <2>1, InvalidateKeeps
<1>21. CASE onmessage
  <2>1. invalidateQueries("recent") /\ UNCHANGED <<page, scope, version>> /\ "recent" \in Families
    BY <1>21 DEF onmessage, backend, Families
  <2>2. QED
    BY <2>1, InvalidateKeeps
<1>22. CASE onclose
  <2>1. UNCHANGED <<cache, page, scope, due>> /\ blame \subseteq blame'
    BY <1>22 DEF onclose
  <2>2. QED
    BY <2>1, NothingHappens
<1>23. CASE connect
  <2>1. UNCHANGED <<cache, page, scope, due>> /\ blame \subseteq blame'
    BY <1>23 DEF connect
  <2>2. QED
    BY <2>1, NothingHappens
<1>24. CASE UNCHANGED vars
  BY <1>24, NothingHappens DEF vars, backend, live
<1>25. QED
  BY <1>1, <1>2, <1>3, <1>4, <1>5, <1>6, <1>7, <1>8, <1>9, <1>10, <1>11, <1>12,
     <1>13, <1>14, <1>15, <1>16, <1>17, <1>18, <1>19, <1>20, <1>21, <1>22, <1>23,
     <1>24 DEF Next, Query

Counts ==
  /\ server \in SUBSET known /\ known \in SUBSET Accounts
  /\ version \in Versions \ {0} /\ version <= inputs + 1
  /\ page \in Families
  /\ news \in Versions /\ news <= inputs
  /\ inputs \in 0..MaxInputs
  /\ due \in [Families -> Versions]

Flags ==
  /\ loaded \in BOOLEAN /\ update \in BOOLEAN
  /\ socket \in {"open", "closed", "stopped"}
  /\ blame \in SUBSET Blames

ListsAreLists == lists \in [Fetchers -> Lists]

LEMMA InvTypes == Inv => Counts /\ Flags /\ ListsAreLists
BY DEF Inv, TypeOK, Counts, Flags, ListsAreLists

\* The numbers and sets keep their types.
LEMMA CountsStep ==
    ASSUME Inv, [Next]_vars
    PROVE  Counts'
<1>1. ASSUME NEW f \in Families, opens(f) PROVE Counts'
  BY InvTypes, <1>1 DEF opens, Counts, backend, live, input, Versions
<1>2. ASSUME NEW f \in Families, NEW k \in Keys(f), queryFn(f, k) PROVE Counts'
  BY InvTypes, <1>2 DEF queryFn, Counts, backend, live, Versions
<1>3. ASSUME NEW f \in Families, NEW k \in Keys(f), settles(f, k) PROVE Counts'
  BY InvTypes, <1>3 DEF settles, Counts, backend, live, Versions
<1>4. ASSUME NEW f \in Families, NEW k \in Keys(f), fails(f, k) PROVE Counts'
  BY InvTypes, <1>4 DEF fails, Counts, backend, live, input, Versions
<1>5. ASSUME NEW p \in Providers, selectProvider(p) PROVE Counts'
  BY InvTypes, <1>5 DEF selectProvider, Counts, backend, live, input, Versions
<1>6. ASSUME NEW a \in Accounts, selectAccount(a) PROVE Counts'
  BY InvTypes, <1>6 DEF selectAccount, Counts, backend, live, input, Versions
<1>7. ASSUME NEW a \in Accounts, elsewhere(a) PROVE Counts'
  BY InvTypes, <1>7 DEF elsewhere, Counts, live, input, Versions
<1>8. ASSUME NEW r \in Requests, onSuccess(r) PROVE Counts'
  BY InvTypes, <1>8 DEF onSuccess, Counts, backend, live, Versions
<1>9. ASSUME NEW r \in Requests, NEW a \in Accounts, useConnectAccount(r, a) PROVE Counts'
  BY InvTypes, <1>9 DEF useConnectAccount, Counts, live, input, Versions
<1>10. ASSUME NEW r \in Requests, NEW a \in Accounts, useDeleteAccount(r, a) PROVE Counts'
  BY InvTypes, <1>10 DEF useDeleteAccount, Counts, live, input, Versions
<1>11. ASSUME NEW r \in Fetchers, listAccounts(r) PROVE Counts'
  BY InvTypes, <1>11 DEF listAccounts, Counts, backend, live, Versions
<1>12. ASSUME NEW r \in Fetchers, listFails(r) PROVE Counts'
  BY InvTypes, <1>12 DEF listFails, Counts, backend, live, input, Versions
<1>13. CASE fallback
  BY InvTypes, <1>13 DEF fallback, Counts, backend, live, Versions
<1>14. CASE refetchInterval
  BY InvTypes, <1>14 DEF refetchInterval, Counts, backend, live, Versions
<1>15. CASE reload
  BY InvTypes, <1>15 DEF reload, Counts, backend, input, Versions
<1>16. CASE useAccountLoader
  BY InvTypes, <1>16 DEF useAccountLoader, Counts, backend, live, Versions
<1>17. CASE loads
  BY InvTypes, <1>17 DEF loads, Counts, backend, live, Versions
<1>18. CASE Change
  BY InvTypes, <1>18 DEF Change, Counts, input, changes, Versions
<1>19. CASE useUpdateFindingStatus
  BY InvTypes, <1>19 DEF useUpdateFindingStatus, Counts, input, changes, Versions
<1>20. CASE updated
  BY InvTypes, <1>20 DEF updated, Counts, backend, Versions, invalidateQueries
<1>21. CASE onmessage
  <2>1. /\ news > 0 /\ news' = news - 1 /\ due' = [due EXCEPT !["recent"] = version]
        /\ UNCHANGED <<server, known, version, page, inputs>>
    BY <1>21 DEF onmessage, backend, invalidateQueries
  <2>2. news' \in Versions /\ news' <= inputs'
    BY <2>1, InvTypes DEF Counts, Versions
  <2>3. due' \in [Families -> Versions]
    BY <2>1, InvTypes DEF Counts
  <2>4. QED
    BY <2>1, <2>2, <2>3, InvTypes DEF Counts
<1>22. CASE onclose
  BY InvTypes, <1>22 DEF onclose, Counts, backend, input, Versions
<1>23. CASE connect
  BY InvTypes, <1>23 DEF connect, Counts, backend, Versions
<1>24. CASE UNCHANGED vars
  BY <1>24, InvTypes DEF vars, backend, live, Counts, input, changes, Versions,
     invalidateQueries
<1>25. QED
  BY <1>1, <1>2, <1>3, <1>4, <1>5, <1>6, <1>7, <1>8, <1>9, <1>10, <1>11, <1>12,
     <1>13, <1>14, <1>15, <1>16, <1>17, <1>18, <1>19, <1>20, <1>21, <1>22, <1>23,
     <1>24 DEF Next, Query

\* The flags keep their values.
LEMMA FlagsStep ==
    ASSUME Inv, [Next]_vars
    PROVE  Flags'
<1>1. ASSUME NEW f \in Families, opens(f) PROVE Flags'
  BY InvTypes, <1>1 DEF opens, Flags, backend, live, Blames
<1>2. ASSUME NEW f \in Families, NEW k \in Keys(f), queryFn(f, k) PROVE Flags'
  BY InvTypes, <1>2 DEF queryFn, Flags, backend, live, Blames
<1>3. ASSUME NEW f \in Families, NEW k \in Keys(f), settles(f, k) PROVE Flags'
  BY InvTypes, <1>3 DEF settles, Flags, backend, live, Blames
<1>4. ASSUME NEW f \in Families, NEW k \in Keys(f), fails(f, k) PROVE Flags'
  BY InvTypes, <1>4 DEF fails, Flags, backend, live, Blames
<1>5. ASSUME NEW p \in Providers, selectProvider(p) PROVE Flags'
  BY InvTypes, <1>5 DEF selectProvider, Flags, backend, live, Blames
<1>6. ASSUME NEW a \in Accounts, selectAccount(a) PROVE Flags'
  BY InvTypes, <1>6 DEF selectAccount, Flags, backend, live, Blames
<1>7. ASSUME NEW a \in Accounts, elsewhere(a) PROVE Flags'
  BY InvTypes, <1>7 DEF elsewhere, Flags, live, Blames
<1>8. ASSUME NEW r \in Requests, onSuccess(r) PROVE Flags'
  BY InvTypes, <1>8 DEF onSuccess, Flags, backend, live, Blames
<1>9. ASSUME NEW r \in Requests, NEW a \in Accounts, useConnectAccount(r, a) PROVE Flags'
  BY InvTypes, <1>9 DEF useConnectAccount, Flags, live, Blames, asks
<1>10. ASSUME NEW r \in Requests, NEW a \in Accounts, useDeleteAccount(r, a) PROVE Flags'
  BY InvTypes, <1>10 DEF useDeleteAccount, Flags, live, Blames, asks
<1>11. ASSUME NEW r \in Fetchers, listAccounts(r) PROVE Flags'
  BY InvTypes, <1>11 DEF listAccounts, Flags, backend, live, Blames
<1>12. ASSUME NEW r \in Fetchers, listFails(r) PROVE Flags'
  BY InvTypes, <1>12 DEF listFails, Flags, backend, live, Blames
<1>13. CASE fallback
  BY InvTypes, <1>13 DEF fallback, Flags, backend, live, Blames
<1>14. CASE refetchInterval
  BY InvTypes, <1>14 DEF refetchInterval, Flags, backend, live, Blames
<1>15. CASE reload
  BY InvTypes, <1>15 DEF reload, Flags, backend, Blames
<1>16. CASE useAccountLoader
  BY InvTypes, <1>16 DEF useAccountLoader, Flags, backend, live, Blames, asks
<1>17. CASE loads
  BY InvTypes, <1>17 DEF loads, Flags, backend, live, Blames
<1>18. CASE Change
  BY InvTypes, <1>18 DEF Change, Flags, changes, Blames
<1>19. CASE useUpdateFindingStatus
  BY InvTypes, <1>19 DEF useUpdateFindingStatus, Flags, changes, Blames
<1>20. CASE updated
  BY InvTypes, <1>20 DEF updated, Flags, backend, Blames, invalidateQueries
<1>21. CASE onmessage
  BY InvTypes, <1>21 DEF onmessage, Flags, backend, Blames, invalidateQueries
<1>22. CASE onclose
  BY InvTypes, <1>22 DEF onclose, Flags, backend, Blames
<1>23. CASE connect
  BY InvTypes, <1>23 DEF connect, Flags, backend, Blames
<1>24. CASE UNCHANGED vars
  BY <1>24, InvTypes DEF vars, backend, live, Flags, changes, Blames,
     invalidateQueries, asks
<1>25. QED
  BY <1>1, <1>2, <1>3, <1>4, <1>5, <1>6, <1>7, <1>8, <1>9, <1>10, <1>11, <1>12,
     <1>13, <1>14, <1>15, <1>16, <1>17, <1>18, <1>19, <1>20, <1>21, <1>22, <1>23,
     <1>24 DEF Next, Query

\* The lists keep their type.
LEMMA ListsTypeStep ==
    ASSUME Inv, [Next]_vars
    PROVE  ListsAreLists'
<1>1. ASSUME NEW f \in Families, opens(f) PROVE ListsAreLists'
  BY InvTypes, <1>1 DEF opens, ListsAreLists, backend, live, Lists
<1>2. ASSUME NEW f \in Families, NEW k \in Keys(f), queryFn(f, k) PROVE ListsAreLists'
  BY InvTypes, <1>2 DEF queryFn, ListsAreLists, backend, live, Lists
<1>3. ASSUME NEW f \in Families, NEW k \in Keys(f), settles(f, k) PROVE ListsAreLists'
  BY InvTypes, <1>3 DEF settles, ListsAreLists, backend, live, Lists
<1>4. ASSUME NEW f \in Families, NEW k \in Keys(f), fails(f, k) PROVE ListsAreLists'
  BY InvTypes, <1>4 DEF fails, ListsAreLists, backend, live, Lists
<1>5. ASSUME NEW p \in Providers, selectProvider(p) PROVE ListsAreLists'
  BY InvTypes, <1>5 DEF selectProvider, ListsAreLists, backend, live, Lists
<1>6. ASSUME NEW a \in Accounts, selectAccount(a) PROVE ListsAreLists'
  BY InvTypes, <1>6 DEF selectAccount, ListsAreLists, backend, live, Lists
<1>7. ASSUME NEW a \in Accounts, elsewhere(a) PROVE ListsAreLists'
  BY InvTypes, <1>7 DEF elsewhere, ListsAreLists, live, Lists
<1>8. ASSUME NEW r \in Requests, onSuccess(r) PROVE ListsAreLists'
  BY InvTypes, <1>8 DEF onSuccess, ListsAreLists, backend, live, Lists, NoList
<1>9. ASSUME NEW r \in Requests, NEW a \in Accounts, useConnectAccount(r, a) PROVE ListsAreLists'
  BY InvTypes, <1>9 DEF useConnectAccount, ListsAreLists, live, Lists, asks
<1>10. ASSUME NEW r \in Requests, NEW a \in Accounts, useDeleteAccount(r, a) PROVE ListsAreLists'
  BY InvTypes, <1>10 DEF useDeleteAccount, ListsAreLists, live, Lists, asks
<1>11. ASSUME NEW r \in Fetchers, listAccounts(r) PROVE ListsAreLists'
  <2> DEFINE l == lists[r]
             x == [l EXCEPT !.state = "answered", !.body = server]
  <2>1. /\ l \in Lists /\ server \in SUBSET Accounts /\ lists \in [Fetchers -> Lists]
        /\ r \in Fetchers
    BY InvTypes DEF ListsAreLists, Counts, Fetchers
  <2>2. x \in Lists
    BY <2>1 DEF Lists
  <2>3. lists' = [lists EXCEPT ![r] = x]
    BY <1>11 DEF listAccounts
  <2> HIDE DEF x
  <2>4. QED
    BY <2>1, <2>2, <2>3 DEF ListsAreLists, Lists, NoList
<1>12. ASSUME NEW r \in Fetchers, listFails(r) PROVE ListsAreLists'
  <2> DEFINE l == lists[r]
             x == [l EXCEPT !.state = "answered", !.body = (known \cap Scanned)]
  <2>1. /\ l \in Lists /\ (known \cap Scanned) \in SUBSET Accounts /\ lists \in [Fetchers -> Lists]
        /\ r \in Fetchers
    BY InvTypes DEF ListsAreLists, Counts, Fetchers
  <2>2. x \in Lists
    BY <2>1 DEF Lists
  <2>3. lists' = [lists EXCEPT ![r] = x] \/ lists' = [lists EXCEPT ![r] = NoList]
    BY <1>12 DEF listFails
  <2> HIDE DEF x
  <2>4. QED
    BY <2>1, <2>2, <2>3 DEF ListsAreLists, Lists, NoList
<1>13. CASE fallback
  <2> DEFINE l == lists["loader"]
             x == [l EXCEPT !.state = "answered", !.body = (known \cap Scanned)]
  <2>1. /\ l \in Lists /\ (known \cap Scanned) \in SUBSET Accounts /\ lists \in [Fetchers -> Lists]
        /\ "loader" \in Fetchers
    BY InvTypes DEF ListsAreLists, Counts, Fetchers
  <2>2. x \in Lists
    BY <2>1 DEF Lists
  <2>3. lists' = [lists EXCEPT !["loader"] = x]
    BY <1>13 DEF fallback
  <2> HIDE DEF x
  <2>4. QED
    BY <2>1, <2>2, <2>3 DEF ListsAreLists, Lists, NoList
<1>14. CASE refetchInterval
  BY InvTypes, <1>14 DEF refetchInterval, ListsAreLists, backend, live, Lists
<1>15. CASE reload
  BY InvTypes, <1>15 DEF reload, ListsAreLists, backend, Lists, NoList
<1>16. CASE useAccountLoader
  BY InvTypes, <1>16 DEF useAccountLoader, ListsAreLists, backend, live, Lists, asks
<1>17. CASE loads
  BY InvTypes, <1>17 DEF loads, ListsAreLists, backend, live, Lists, NoList
<1>18. CASE Change
  BY InvTypes, <1>18 DEF Change, ListsAreLists, Lists, changes
<1>19. CASE useUpdateFindingStatus
  BY InvTypes, <1>19 DEF useUpdateFindingStatus, ListsAreLists, Lists, changes
<1>20. CASE updated
  BY InvTypes, <1>20 DEF updated, ListsAreLists, backend, Lists
<1>21. CASE onmessage
  BY InvTypes, <1>21 DEF onmessage, ListsAreLists, backend, Lists
<1>22. CASE onclose
  BY InvTypes, <1>22 DEF onclose, ListsAreLists, backend, Lists
<1>23. CASE connect
  BY InvTypes, <1>23 DEF connect, ListsAreLists, backend, Lists
<1>24. CASE UNCHANGED vars
  BY <1>24, InvTypes DEF vars, backend, live, ListsAreLists, Lists, NoList, asks,
     changes
<1>25. QED
  BY <1>1, <1>2, <1>3, <1>4, <1>5, <1>6, <1>7, <1>8, <1>9, <1>10, <1>11, <1>12,
     <1>13, <1>14, <1>15, <1>16, <1>17, <1>18, <1>19, <1>20, <1>21, <1>22, <1>23,
     <1>24 DEF Next, Query

\* No invalidation is for a version to come.
LEMMA DueStep ==
    ASSUME Inv, [Next]_vars
    PROVE  DueIsPast'
<1>1. ASSUME NEW f \in Families, opens(f) PROVE DueIsPast'
  BY InvTypes, <1>1 DEF opens, backend, DueIsPast, Counts, Inv, Versions
<1>2. ASSUME NEW f \in Families, NEW k \in Keys(f), queryFn(f, k) PROVE DueIsPast'
  BY InvTypes, <1>2 DEF queryFn, backend, DueIsPast, Counts, Inv, Versions
<1>3. ASSUME NEW f \in Families, NEW k \in Keys(f), settles(f, k) PROVE DueIsPast'
  BY InvTypes, <1>3 DEF settles, backend, DueIsPast, Counts, Inv, Versions
<1>4. ASSUME NEW f \in Families, NEW k \in Keys(f), fails(f, k) PROVE DueIsPast'
  BY InvTypes, <1>4 DEF fails, backend, DueIsPast, Counts, Inv, Versions
<1>5. ASSUME NEW p \in Providers, selectProvider(p) PROVE DueIsPast'
  BY InvTypes, <1>5 DEF selectProvider, backend, DueIsPast, Counts, Inv, Versions
<1>6. ASSUME NEW a \in Accounts, selectAccount(a) PROVE DueIsPast'
  BY InvTypes, <1>6 DEF selectAccount, backend, DueIsPast, Counts, Inv, Versions
<1>7. ASSUME NEW a \in Accounts, elsewhere(a) PROVE DueIsPast'
  BY InvTypes, <1>7 DEF elsewhere, DueIsPast, Counts, Inv, Versions
<1>8. ASSUME NEW r \in Requests, onSuccess(r) PROVE DueIsPast'
  BY InvTypes, <1>8 DEF onSuccess, backend, DueIsPast, Counts, Inv, Versions
<1>9. ASSUME NEW r \in Requests, NEW a \in Accounts, useConnectAccount(r, a) PROVE DueIsPast'
  BY InvTypes, <1>9 DEF useConnectAccount, DueIsPast, Counts, Inv, Versions
<1>10. ASSUME NEW r \in Requests, NEW a \in Accounts, useDeleteAccount(r, a) PROVE DueIsPast'
  BY InvTypes, <1>10 DEF useDeleteAccount, DueIsPast, Counts, Inv, Versions
<1>11. ASSUME NEW r \in Fetchers, listAccounts(r) PROVE DueIsPast'
  BY InvTypes, <1>11 DEF listAccounts, backend, DueIsPast, Counts, Inv, Versions
<1>12. ASSUME NEW r \in Fetchers, listFails(r) PROVE DueIsPast'
  BY InvTypes, <1>12 DEF listFails, backend, DueIsPast, Counts, Inv, Versions
<1>13. CASE fallback
  BY InvTypes, <1>13 DEF fallback, backend, DueIsPast, Counts, Inv, Versions
<1>14. CASE refetchInterval
  BY InvTypes, <1>14 DEF refetchInterval, backend, DueIsPast, Counts, Inv, Versions
<1>15. CASE reload
  BY InvTypes, <1>15 DEF reload, backend, DueIsPast, Counts, Inv, Versions
<1>16. CASE useAccountLoader
  BY InvTypes, <1>16 DEF useAccountLoader, backend, DueIsPast, Counts, Inv, Versions
<1>17. CASE loads
  BY InvTypes, <1>17 DEF loads, backend, DueIsPast, Counts, Inv, Versions
<1>18. CASE Change
  BY InvTypes, <1>18 DEF Change, changes, DueIsPast, Counts, Inv, Versions
<1>19. CASE useUpdateFindingStatus
  BY InvTypes, <1>19 DEF useUpdateFindingStatus, changes, DueIsPast, Counts, Inv,
     Versions
<1>20. CASE updated
  BY InvTypes, <1>20 DEF updated, backend, DueIsPast, Counts, Inv, Versions,
     invalidateQueries
<1>21. CASE onmessage
  BY InvTypes, <1>21 DEF onmessage, backend, DueIsPast, Counts, Inv, Versions,
     invalidateQueries
<1>22. CASE onclose
  BY InvTypes, <1>22 DEF onclose, backend, DueIsPast, Counts, Inv, Versions
<1>23. CASE connect
  BY InvTypes, <1>23 DEF connect, backend, DueIsPast, Counts, Inv, Versions
<1>24. CASE UNCHANGED vars
  BY <1>24, InvTypes DEF vars, backend, live, DueIsPast, Counts, Inv, Versions
<1>25. QED
  BY <1>1, <1>2, <1>3, <1>4, <1>5, <1>6, <1>7, <1>8, <1>9, <1>10, <1>11, <1>12,
     <1>13, <1>14, <1>15, <1>16, <1>17, <1>18, <1>19, <1>20, <1>21, <1>22, <1>23,
     <1>24 DEF Next, Query

\* What onSuccess does to the list of accounts to select from.
LEMMA OnSuccessAccounts ==
    ASSUME Inv, NEW r \in Requests, onSuccess(r)
    PROVE  \/ UNCHANGED scope /\ lists[r].by = "connect" /\ lists[r].body = {}
           \/ scope'.accounts = lists[r].body
<1>1. lists[r].body \in SUBSET Accounts
  BY DEF Inv, TypeOK, Lists, Fetchers
<1> DEFINE l == lists[r].body
<1>2. \/ UNCHANGED scope /\ lists[r].by = "connect" /\ l = {}
      \/ scope' = setAccounts(l)
  BY DEF onSuccess, rescoped
<1> HIDE DEF l
<1>3. l \in SUBSET Accounts
  BY <1>1 DEF l
<1>4. setAccounts(l).accounts = l
  BY <1>3, SetAccountsFits DEF Inv
<1>5. QED
  BY <1>2, <1>4 DEF l

\* And what the loader does.
LEMMA LoadsAccounts ==
    ASSUME Inv, loads
    PROVE  \/ UNCHANGED scope /\ lists["loader"].body = {} /\ ~loaded'
           \/ scope'.accounts = lists["loader"].body
<1>1. lists["loader"].body \in SUBSET Accounts
  BY DEF Inv, TypeOK, Lists, Fetchers
<1> DEFINE l == lists["loader"].body
<1>2. \/ UNCHANGED scope /\ l = {} /\ ~loaded'
      \/ scope' = select(setAccounts(l).accounts, firstOf(l), NoAccount)
  BY DEF loads, rescoped, hasSavedValidScope
<1> HIDE DEF l
<1>3. l \in SUBSET Accounts
  BY <1>1 DEF l
<1>4. setAccounts(l).accounts = l
  BY <1>3, SetAccountsFits DEF Inv
<1>5. QED
  BY <1>2, <1>4 DEF l, select

\* While nothing is wrong with the lists, the last one had is what is connected.
LEMMA ListsStep ==
    ASSUME Inv, [Next]_vars
    PROVE  OneList' /\ SettledIsServer'
<1>1. ASSUME NEW f \in Families, opens(f) PROVE OneList' /\ SettledIsServer'
  BY InvTypes, <1>1 DEF opens, backend, live, OneList, SettledIsServer, Busy, Inv,
     ListsAreLists, Fetchers
<1>2. ASSUME NEW f \in Families, NEW k \in Keys(f), queryFn(f, k) PROVE OneList' /\ SettledIsServer'
  BY InvTypes, <1>2 DEF queryFn, backend, live, OneList, SettledIsServer, Busy, Inv,
     ListsAreLists, Fetchers
<1>3. ASSUME NEW f \in Families, NEW k \in Keys(f), settles(f, k) PROVE OneList' /\ SettledIsServer'
  BY InvTypes, <1>3 DEF settles, backend, live, OneList, SettledIsServer, Busy, Inv,
     ListsAreLists, Fetchers
<1>4. ASSUME NEW f \in Families, NEW k \in Keys(f), fails(f, k) PROVE OneList' /\ SettledIsServer'
  BY InvTypes, <1>4 DEF fails, backend, live, OneList, SettledIsServer, Busy, Inv,
     ListsAreLists, Fetchers
<1>5. ASSUME NEW p \in Providers, selectProvider(p) PROVE OneList' /\ SettledIsServer'
  <2>1. UNCHANGED <<server, lists, loaded, blame>> /\ scope'.accounts = scope.accounts
    BY <1>5 DEF selectProvider, backend, rescoped, select
  <2>2. QED
    BY <2>1 DEF OneList, SettledIsServer, Busy, Inv
<1>6. ASSUME NEW a \in Accounts, selectAccount(a) PROVE OneList' /\ SettledIsServer'
  <2>1. UNCHANGED <<server, lists, loaded, blame>> /\ scope'.accounts = scope.accounts
    BY <1>6 DEF selectAccount, backend, rescoped, select
  <2>2. QED
    BY <2>1 DEF OneList, SettledIsServer, Busy, Inv
<1>7. ASSUME NEW a \in Accounts, elsewhere(a) PROVE OneList' /\ SettledIsServer'
  BY InvTypes, <1>7 DEF elsewhere, live, OneList, SettledIsServer, Busy, Inv,
     ListsAreLists, Fetchers
<1>8. ASSUME NEW r \in Requests, onSuccess(r) PROVE OneList' /\ SettledIsServer'
  <2>1. /\ lists[r].state = "answered" /\ lists' = [lists EXCEPT ![r] = NoList]
        /\ UNCHANGED <<server, loaded, blame>> /\ r \in Fetchers /\ lists \in [Fetchers -> Lists]
    BY <1>8, InvTypes DEF onSuccess, backend, Fetchers, ListsAreLists
  <2>2. Busy' = Busy \ {r} /\ r \in Busy
    BY <2>1 DEF Busy, NoList
  <2>3. \A q \in Fetchers : q # r => lists'[q] = lists[q]
    BY <2>1
  <2>4. OneList'
    BY <2>1, <2>2, <2>3 DEF OneList, Busy, Inv
  <2>5. ASSUME "accounts" \notin blame PROVE scope'.accounts = server
    <3>1. lists[r].body = server /\ (lists[r].by = "connect" => server # {})
      BY <2>1, <2>2, <2>5 DEF Inv, OneList
    <3>2. QED
      BY <1>8, <3>1, OnSuccessAccounts
  <2>6. SettledIsServer'
    BY <2>1, <2>5 DEF SettledIsServer
  <2>7. QED
    BY <2>4, <2>6
<1>9. ASSUME NEW r \in Requests, NEW a \in Accounts, useConnectAccount(r, a) PROVE OneList' /\ SettledIsServer'
  BY InvTypes, <1>9 DEF useConnectAccount, live, OneList, SettledIsServer, Busy,
     Inv, asks, ListsAreLists, Fetchers
<1>10. ASSUME NEW r \in Requests, NEW a \in Accounts, useDeleteAccount(r, a) PROVE OneList' /\ SettledIsServer'
  BY InvTypes, <1>10 DEF useDeleteAccount, live, OneList, SettledIsServer, Busy,
     Inv, asks, ListsAreLists, Fetchers
<1>11. ASSUME NEW r \in Fetchers, listAccounts(r) PROVE OneList' /\ SettledIsServer'
  BY InvTypes, <1>11 DEF listAccounts, backend, live, OneList, SettledIsServer,
     Busy, Inv, ListsAreLists, Fetchers
<1>12. ASSUME NEW r \in Fetchers, listFails(r) PROVE OneList' /\ SettledIsServer'
  BY InvTypes, <1>12 DEF listFails, backend, live, OneList, SettledIsServer, Busy,
     Inv, NoList, ListsAreLists, Fetchers
<1>13. CASE fallback
  BY InvTypes, <1>13 DEF fallback, backend, live, OneList, SettledIsServer, Busy,
     Inv, ListsAreLists, Fetchers
<1>14. CASE refetchInterval
  BY InvTypes, <1>14 DEF refetchInterval, backend, live, OneList, SettledIsServer,
     Busy, Inv, ListsAreLists, Fetchers
<1>15. CASE reload
  BY InvTypes, <1>15 DEF reload, backend, OneList, SettledIsServer, Busy, Inv,
     NoList, ListsAreLists, Fetchers
<1>16. CASE useAccountLoader
  BY InvTypes, <1>16 DEF useAccountLoader, backend, live, OneList, SettledIsServer,
     Busy, Inv, asks, ListsAreLists, Fetchers
<1>17. CASE loads
  BY InvTypes, <1>17, LoadsAccounts DEF loads, backend, live, OneList,
     SettledIsServer, Busy, Inv, NoList, ListsAreLists, Fetchers
<1>18. CASE Change
  BY <1>18 DEF Change, changes, OneList, SettledIsServer, Busy, Inv
<1>19. CASE useUpdateFindingStatus
  BY <1>19 DEF useUpdateFindingStatus, changes, OneList, SettledIsServer, Busy, Inv
<1>20. CASE updated
  <2>1. UNCHANGED <<server, lists, scope, loaded>> /\ blame \subseteq blame'
    BY <1>20 DEF updated, backend, invalidateQueries
  <2>2. QED
    BY <2>1 DEF OneList, SettledIsServer, Busy, Inv
<1>21. CASE onmessage
  <2>1. UNCHANGED <<server, lists, scope, loaded>> /\ blame \subseteq blame'
    BY <1>21 DEF onmessage, backend, invalidateQueries
  <2>2. QED
    BY <2>1 DEF OneList, SettledIsServer, Busy, Inv
<1>22. CASE onclose
  BY InvTypes, <1>22 DEF onclose, backend, OneList, SettledIsServer, Busy, Inv,
     ListsAreLists, Fetchers
<1>23. CASE connect
  BY InvTypes, <1>23 DEF connect, backend, OneList, SettledIsServer, Busy, Inv,
     ListsAreLists, Fetchers
<1>24. CASE UNCHANGED vars
  BY <1>24, InvTypes DEF vars, backend, live, OneList, SettledIsServer, Busy, Inv
<1>25. QED
  BY <1>1, <1>2, <1>3, <1>4, <1>5, <1>6, <1>7, <1>8, <1>9, <1>10, <1>11, <1>12,
     <1>13, <1>14, <1>15, <1>16, <1>17, <1>18, <1>19, <1>20, <1>21, <1>22, <1>23,
     <1>24 DEF Next, Query

LEMMA InitInv == Init => Inv
<1>1. SUFFICES ASSUME Init PROVE Inv
  OBVIOUS
<1>2. Counts /\ Flags /\ ListsAreLists
  <2>1. Counts
    BY <1>1 DEF Init, Counts, Accounts, Versions, Families
  <2>2. Flags
    BY <1>1 DEF Init, Flags
  <2>3. ListsAreLists
    BY <1>1 DEF Init, ListsAreLists, Lists, NoList
  <2>4. QED
    BY <2>1, <2>2, <2>3
<1>3. Fits(scope) /\ scope.accounts = {} /\ scope.ids = {}
  BY <1>1 DEF Init, Fits, Scopes, Providers
<1>4. NoEntry \in Entries
  BY DEF NoEntry, Entries, NoFlight, Flights, NoData, Data, Versions, Providers
<1>5. Cached(cache) /\ \A f \in Families : \A k \in Keys(f) : cache[f][k] = NoEntry
  BY <1>1, <1>4 DEF Init, Cached
<1>6. AllGood /\ AllFresh
  BY <1>5 DEF AllGood, AllFresh, Good, Fresh, NoEntry, NoFlight, NoData
<1>7. ShownWaits /\ ScopeIsKnown /\ ScopeFits
  BY <1>3 DEF ShownWaits, enabled, ScopeIsKnown, ScopeFits
<1>8. DueIsPast
  BY <1>1 DEF Init, DueIsPast
<1>9. OneList /\ SettledIsServer
  BY <1>1 DEF Init, OneList, SettledIsServer, Busy, NoList
<1>10. TypeOK
  BY <1>2, <1>3, <1>5 DEF TypeOK, Counts, Flags, ListsAreLists, Cached, Fits
<1>11. QED
  BY <1>6, <1>7, <1>8, <1>9, <1>10 DEF Inv

LEMMA NextInv == Inv /\ [Next]_vars => Inv'
<1>1. SUFFICES ASSUME Inv, [Next]_vars PROVE Inv'
  OBVIOUS
<1>2. CacheOK' /\ ScopeFits' /\ ScopeIsKnown'
  BY <1>1, CacheStep, ScopeStep
<1>3. Counts' /\ Flags' /\ ListsAreLists'
  BY <1>1, CountsStep, FlagsStep, ListsTypeStep
<1>4. DueIsPast' /\ OneList' /\ SettledIsServer'
  BY <1>1, DueStep, ListsStep
<1>5. TypeOK'
  BY <1>2, <1>3 DEF TypeOK, Counts, Flags, ListsAreLists, CacheOK, Cached,
     ScopeFits, Fits
<1>6. QED
  BY <1>2, <1>4, <1>5 DEF Inv, CacheOK

\* The inductive invariant holds of every execution.
THEOREM AlwaysInv == Spec => []Inv
<1>1. Init => Inv
  BY InitInv
<1>2. Inv /\ [Next]_vars => Inv'
  BY NextInv
<1>3. QED
  BY <1>1, <1>2, PTL DEF Spec

\* The types: whatever the order of answers, events and selections, no version
\* is ahead of the server's, and every query is kept under a key of its family.
THEOREM TypeCorrect == Spec => []TypeOK
<1>1. Inv => TypeOK
  BY DEF Inv
<1>2. QED
  BY <1>1, AlwaysInv, PTL

\* setAccounts, the loader and the selectors never leave a list of accounts
\* with nothing of it selected, or something else.
THEOREM ScopeOfTheList == Spec => []ScopeIsKnown
<1>1. Inv => ScopeIsKnown
  BY DEF Inv
<1>2. QED
  BY <1>1, AlwaysInv, PTL

\* The accounts to select from are those connected, once the loader and the
\* mutations have had their lists one at a time.
THEOREM ListSettles == Spec => []SettledIsServer
<1>1. Inv => SettledIsServer
  BY DEF Inv
<1>2. QED
  BY <1>1, AlwaysInv, PTL

\* cspmKeys keeps answers of different scopes apart, late ones too.
THEOREM ScopesKeptApart == Spec => []FindingsAreScoped
<1>1. ASSUME Inv PROVE FindingsAreScoped
  <2>1. SUFFICES ASSUME enabled(scope)
                 PROVE  cache["findings"][key("findings", scope)].data.of
                          \subseteq reach(scope.provider, scope.account)
    BY DEF FindingsAreScoped
  <2> DEFINE f == "findings"
             k == key(f, scope)
  <2>2. f \in Families /\ k \in Keys(f)
    BY <1>1, <2>1, KeyIsThere DEF Families, Inv, ScopeFits
  <2>3. k.provider = scope.provider /\ k.account = scope.account
    BY DEF key
  <2>4. Good(f, k, cache[f][k])
    BY <1>1, <2>2 DEF Inv, AllGood
  <2> HIDE DEF k
  <2>5. cache[f][k].data.of \subseteq reach(k.provider, k.account)
    BY <2>4 DEF Good
  <2>6. QED
    BY <2>3, <2>5 DEF k
<1>2. QED
  BY <1>1, AlwaysInv, PTL

\* An invalidation marks whatever is cached of its family, so that no later
\* selection brings an older answer to the screen for good.
THEOREM NothingOldIsShown == Spec => []ShowsWhatIsDue
<1>1. ASSUME Inv PROVE ShowsWhatIsDue
  <2> DEFINE k == key(page, scope)
             e == cache[page][k]
  <2>1. SUFFICES ASSUME enabled(scope), "data" \notin blame, e.flight.state = "no", e.data.ver # 0
                 PROVE  e.data.ver >= due[page]
    BY DEF ShowsWhatIsDue
  <2>2. page \in Families /\ k \in Keys(page)
    BY <1>1, <2>1, KeyIsThere DEF Inv, TypeOK, ScopeFits
  <2>3. Waits(e) /\ Fresh(e, due[page])
    BY <1>1, <2>1, <2>2 DEF Inv, ShownWaits, AllFresh
  <2> HIDE DEF e
  <2>4. QED
    BY <2>1, <2>3 DEF Waits, Fresh
<1>2. QED
  BY <1>1, AlwaysInv, PTL

-----------------------------------------------------------------------------
(***************************************************************************)
(* The console catches up.  Changes, faults and acts of the user are       *)
(* counted and bounded, so that they cease; then the lists that are        *)
(* awaited come or not, each once, and the events on their way are had:    *)
(* what is on screen stays, and the interval brings it up to date.  The    *)
(* three premises are instances of the law that what is true of each of    *)
(* finitely many things from some time on is true of all of them from some *)
(* time on.                                                                *)
(***************************************************************************)
InputsPassTogether ==
  (\A n \in 0..MaxInputs : <>[](inputs # n)) => <>[](\A n \in 0..MaxInputs : inputs # n)

NewsPassTogether ==
  (\A n \in 0..MaxInputs : <>[](news # n)) => <>[](\A n \in 0..MaxInputs : news # n)

RequestsEndTogether ==
  (\A r \in Requests : <>[][~onSuccess(r)]_vars) => <>[][\A r \in Requests : ~onSuccess(r)]_vars

WhatIsFinite == InputsPassTogether /\ NewsPassTogether /\ RequestsEndTogether

\* The steps that take no input.
QuietNext ==
  \/ \E f \in Families : \E k \in Keys(f) : queryFn(f, k) \/ settles(f, k)
  \/ \E r \in Requests : onSuccess(r)
  \/ \E r \in Fetchers : listAccounts(r)
  \/ fallback \/ refetchInterval \/ useAccountLoader \/ loads
  \/ updated \/ onmessage \/ connect

LEMMA InputsCount ==
  ASSUME [Next]_vars
  PROVE  \/ inputs < MaxInputs /\ inputs' = inputs + 1
         \/ inputs' = inputs /\ [QuietNext]_vars
<1>1. ASSUME NEW f \in Families, opens(f) \/ \E k \in Keys(f) : Query(f, k)
      PROVE  input \/ (inputs' = inputs /\ QuietNext)
  BY <1>1 DEF opens, Query, queryFn, settles, fails, QuietNext
<1>2. ASSUME NEW p \in Providers, selectProvider(p) PROVE input
  BY <1>2 DEF selectProvider
<1>3. ASSUME NEW a \in Accounts, selectAccount(a) \/ elsewhere(a) PROVE input
  BY <1>3 DEF selectAccount, elsewhere
<1>4. ASSUME NEW r \in Requests,
             onSuccess(r) \/ \E a \in Accounts : useConnectAccount(r, a) \/ useDeleteAccount(r, a)
      PROVE  input \/ (inputs' = inputs /\ QuietNext)
  BY <1>4 DEF onSuccess, useConnectAccount, useDeleteAccount, QuietNext
<1>5. ASSUME NEW r \in Fetchers, listAccounts(r) \/ listFails(r)
      PROVE  input \/ (inputs' = inputs /\ QuietNext)
  BY <1>5 DEF listAccounts, listFails, QuietNext
<1>6. fallback \/ refetchInterval \/ useAccountLoader \/ loads \/ updated \/ onmessage \/ connect
        => inputs' = inputs /\ QuietNext
  BY DEF fallback, refetchInterval, useAccountLoader, loads, updated, onmessage, connect, QuietNext
<1>7. /\ reload => input
      /\ Change \/ useUpdateFindingStatus \/ onclose => input
  BY DEF reload, Change, useUpdateFindingStatus, onclose
<1>8. UNCHANGED vars => inputs' = inputs
  BY DEF vars
<1>9. input => inputs < MaxInputs /\ inputs' = inputs + 1
  BY DEF input
<1>10. QED
  BY <1>1, <1>2, <1>3, <1>4, <1>5, <1>6, <1>7, <1>8, <1>9 DEF Next

InputsCease == <>[][inputs' = inputs]_vars
InputsPass(n) == <>[](inputs # n)
NoInputs == \A n \in 0..MaxInputs : inputs # n

LEMMA InputsDoCease == Spec /\ InputsPassTogether => InputsCease
<1> DEFINE Past(n) == inputs > n
<1>1. Spec => []TypeOK /\ [][Next]_vars
  BY TypeCorrect, PTL DEF Spec
<1>2. TypeOK => inputs \in 0..MaxInputs
  BY DEF TypeOK
<1>3. ASSUME NEW n \in 0..MaxInputs PROVE Spec /\ ~InputsCease => InputsPass(n)
  <2>1. TypeOK /\ ~(inputs # n) /\ [Next]_vars /\ ~[inputs' = inputs]_vars => Past(n)'
    BY <1>2, InputsCount
  <2>2. TypeOK /\ ~(inputs # n) /\ [Next]_vars => Past(n)' \/ ~(inputs # n)'
    BY <1>2, InputsCount
  <2>3. TypeOK /\ Past(n) /\ [Next]_vars => Past(n)'
    BY <1>2, InputsCount
  <2>4. TypeOK /\ Past(n) => inputs # n
    BY <1>2
  <2>5. QED
    BY <1>1, <2>1, <2>2, <2>3, <2>4, PTL DEF InputsCease, InputsPass
<1>4. Spec /\ InputsPassTogether /\ ~InputsCease => <>[]NoInputs
  <2>1. InputsPassTogether /\ (\A n \in 0..MaxInputs : InputsPass(n)) => <>[]NoInputs
    BY DEF InputsPassTogether, InputsPass, NoInputs
  <2>2. QED
    BY <1>3, <2>1
<1>5. TypeOK => ~NoInputs
  BY <1>2 DEF NoInputs
<1>6. QED
  BY <1>1, <1>4, <1>5, PTL

\* What no input moves: the page and the versions stay, events are only had, and
\* the scope is moved by the lists alone.
LEMMA QuietSteps ==
  ASSUME [Next]_vars, inputs' = inputs, inputs \in Nat
  PROVE  /\ page' = page /\ version' = version
         /\ news' = news \/ (onmessage /\ news' = news - 1)
         /\ \/ scope' = scope \/ loads
            \/ \E r \in Requests : onSuccess(r)
<1>1. [QuietNext]_vars
  BY InputsCount
<1>2. ASSUME NEW f \in Families, NEW k \in Keys(f), queryFn(f, k) \/ settles(f, k)
      PROVE  UNCHANGED <<page, version, news, scope>>
  BY <1>2 DEF queryFn, settles, live, backend
<1>3. ASSUME NEW r \in Requests, onSuccess(r) PROVE UNCHANGED <<page, version, news>>
  BY <1>3 DEF onSuccess, live, backend
<1>4. ASSUME NEW r \in Fetchers, listAccounts(r) PROVE UNCHANGED <<page, version, news, scope>>
  BY <1>4 DEF listAccounts, live, backend
<1>5. fallback \/ refetchInterval \/ useAccountLoader \/ updated \/ connect
        => UNCHANGED <<page, version, news, scope>>
  BY DEF fallback, refetchInterval, useAccountLoader, updated, connect, live, backend
<1>6. loads => UNCHANGED <<page, version, news>>
  BY DEF loads, live, backend
<1>7. onmessage => UNCHANGED <<page, version, scope>> /\ news' = news - 1
  BY DEF onmessage, live, backend
<1>8. UNCHANGED vars => UNCHANGED <<page, version, news, scope>>
  BY DEF vars, live, backend
<1>9. QED
  BY <1>1, <1>2, <1>3, <1>4, <1>5, <1>6, <1>7, <1>8 DEF QuietNext

\* ~~~ The events are had ~~~
NewsCease == <>[][news' = news]_vars
NewsPass(n) == <>[](news # n)
NoNews == \A n \in 0..MaxInputs : news # n

LEMMA NewsDoCease == Spec /\ InputsCease /\ NewsPassTogether => NewsCease
<1> DEFINE Past(n) == news < n
<1>1. Spec => []TypeOK /\ [][Next]_vars
  BY TypeCorrect, PTL DEF Spec
<1>2. TypeOK => inputs \in 0..MaxInputs /\ inputs \in Nat /\ news \in 0..MaxInputs
  BY DEF TypeOK, Versions
<1>3. TypeOK /\ [Next]_vars /\ [inputs' = inputs]_vars => news' = news \/ news' = news - 1
  BY <1>2, QuietSteps DEF vars
<1>4. ASSUME NEW n \in 0..MaxInputs PROVE Spec /\ InputsCease /\ ~NewsCease => NewsPass(n)
  <2>1. TypeOK /\ ~(news # n) /\ [Next]_vars /\ [inputs' = inputs]_vars /\ ~[news' = news]_vars
          => Past(n)'
    BY <1>2, <1>3
  <2>2. TypeOK /\ ~(news # n) /\ [Next]_vars /\ [inputs' = inputs]_vars => Past(n)' \/ ~(news # n)'
    BY <1>2, <1>3
  <2>3. TypeOK /\ Past(n) /\ [Next]_vars /\ [inputs' = inputs]_vars => Past(n)'
    BY <1>2, <1>3
  <2>4. TypeOK /\ Past(n) => news # n
    BY <1>2
  <2>5. QED
    BY <1>1, <2>1, <2>2, <2>3, <2>4, PTL DEF NewsCease, NewsPass, InputsCease
<1>5. Spec /\ InputsCease /\ NewsPassTogether /\ ~NewsCease => <>[]NoNews
  <2>1. NewsPassTogether /\ (\A n \in 0..MaxInputs : NewsPass(n)) => <>[]NoNews
    BY DEF NewsPassTogether, NewsPass, NoNews
  <2>2. QED
    BY <1>4, <2>1
<1>6. TypeOK => ~NoNews
  BY <1>2 DEF NoNews
<1>7. QED
  BY <1>1, <1>5, <1>6, PTL

\* ~~~ The scope stays ~~~
\* A list the loader awaits is the one of an application that has asked for it.
LoaderAsked == lists["loader"].state # "idle" => loaded

LEMMA LoaderStep == TypeOK /\ LoaderAsked /\ [Next]_vars => LoaderAsked'
<1> SUFFICES ASSUME TypeOK, LoaderAsked, [Next]_vars PROVE LoaderAsked'
  OBVIOUS
<1>1. lists \in [Fetchers -> Lists] /\ "loader" \in Fetchers
  BY DEF TypeOK, Fetchers
<1>2. ASSUME NEW f \in Families, opens(f) \/ \E k \in Keys(f) : Query(f, k)
      PROVE  UNCHANGED <<lists, loaded>>
  BY <1>2 DEF opens, Query, queryFn, settles, fails
<1>3. ASSUME NEW p \in Providers, selectProvider(p) PROVE UNCHANGED <<lists, loaded>>
  BY <1>3 DEF selectProvider
<1>4. ASSUME NEW a \in Accounts, selectAccount(a) \/ elsewhere(a) PROVE UNCHANGED <<lists, loaded>>
  BY <1>4 DEF selectAccount, elsewhere
<1>5. ASSUME NEW r \in Requests,
             onSuccess(r) \/ \E a \in Accounts : useConnectAccount(r, a) \/ useDeleteAccount(r, a)
      PROVE  lists'["loader"] = lists["loader"] /\ loaded' = loaded
  BY <1>1, <1>5, RequestsAssumption DEF onSuccess, useConnectAccount, useDeleteAccount, asks
<1>6. ASSUME NEW r \in Fetchers, listAccounts(r)
      PROVE  (lists[r].state # "idle" /\ (r = "loader" \/ lists'["loader"] = lists["loader"]))
             /\ loaded' = loaded
  BY <1>1, <1>6 DEF listAccounts
<1>7. ASSUME NEW r \in Fetchers, listFails(r) PROVE LoaderAsked'
  <2>1. CASE r = "loader"
    <3>1. /\ lists["loader"].state = "asked"
          /\ \/ lists' = [lists EXCEPT !["loader"] = NoList]
             \/ loaded' = loaded
      BY <1>7, <2>1 DEF listFails
    <3>2. lists' = [lists EXCEPT !["loader"] = NoList] => lists'["loader"].state = "idle"
      BY <1>1 DEF NoList
    <3>3. QED
      BY <3>1, <3>2 DEF LoaderAsked
  <2>2. CASE r # "loader"
    BY <1>1, <1>7, <2>2 DEF listFails, LoaderAsked
  <2>3. QED
    BY <2>1, <2>2
<1>8. CASE fallback
  BY <1>1, <1>8 DEF fallback, LoaderAsked
<1>9. CASE useAccountLoader
  BY <1>9 DEF useAccountLoader, LoaderAsked
<1>10. CASE loads
  BY <1>1, <1>10 DEF loads, LoaderAsked, NoList
<1>11. reload => LoaderAsked'
  BY <1>1 DEF reload, LoaderAsked, NoList
<1>12. refetchInterval \/ Change \/ useUpdateFindingStatus \/ updated \/ onmessage \/ onclose \/ connect
         => UNCHANGED <<lists, loaded>>
  BY DEF refetchInterval, Change, useUpdateFindingStatus, updated, onmessage, onclose, connect
<1>13. UNCHANGED vars => UNCHANGED <<lists, loaded>>
  BY DEF vars
<1>14. QED
  BY <1>1, <1>2, <1>3, <1>4, <1>5, <1>6, <1>7, <1>8, <1>9, <1>10, <1>11, <1>12, <1>13
     DEF Next, LoaderAsked

\* The loader has its list.
Loaded == loaded /\ lists["loader"].state = "idle"

LEMMA LoadedStays ==
  ASSUME TypeOK, LoaderAsked, [Next]_vars, inputs' = inputs
  PROVE  /\ Loaded => Loaded'
         /\ loads => ~Loaded /\ (scope' # scope => Loaded')
<1>1. lists \in [Fetchers -> Lists] /\ "loader" \in Fetchers /\ inputs \in Nat
  BY DEF TypeOK, Fetchers
<1>2. [QuietNext]_vars
  BY <1>1, InputsCount
<1>3. ASSUME loads PROVE ~Loaded /\ (scope' # scope => Loaded')
  <2>1. /\ lists["loader"].state = "answered" /\ lists' = [lists EXCEPT !["loader"] = NoList]
        /\ scope' # scope => loaded' = loaded
    BY <1>3 DEF loads
  <2>2. lists'["loader"].state = "idle"
    BY <1>1, <2>1 DEF NoList
  <2>3. QED
    BY <2>1, <2>2 DEF Loaded, LoaderAsked
<1>4. ASSUME NEW f \in Families, NEW k \in Keys(f), queryFn(f, k) \/ settles(f, k)
      PROVE  UNCHANGED <<lists, loaded>>
  BY <1>4 DEF queryFn, settles
<1>5. ASSUME NEW r \in Requests, onSuccess(r)
      PROVE  lists'["loader"] = lists["loader"] /\ loaded' = loaded
  BY <1>1, <1>5, RequestsAssumption DEF onSuccess
<1>6. ASSUME NEW r \in Fetchers, listAccounts(r), Loaded
      PROVE  lists'["loader"] = lists["loader"] /\ loaded' = loaded
  BY <1>1, <1>6 DEF listAccounts, Loaded
<1>7. fallback \/ useAccountLoader => ~Loaded
  BY DEF fallback, useAccountLoader, Loaded
<1>8. refetchInterval \/ updated \/ onmessage \/ connect => UNCHANGED <<lists, loaded>>
  BY DEF refetchInterval, updated, onmessage, connect
<1>9. UNCHANGED vars => UNCHANGED <<lists, loaded>>
  BY DEF vars
<1>10. Loaded => Loaded'
  BY <1>2, <1>3, <1>4, <1>5, <1>6, <1>7, <1>8, <1>9 DEF QuietNext, Loaded
<1>11. QED
  BY <1>3, <1>10

\* A list that is had is not asked for again without an input.
LEMMA SuccessIsOnce ==
  ASSUME TypeOK, [Next]_vars, inputs' = inputs, NEW r \in Requests
  PROVE  /\ lists[r].state = "idle" => lists'[r].state = "idle"
         /\ onSuccess(r) => lists[r].state # "idle" /\ lists'[r].state = "idle"
<1>1. lists \in [Fetchers -> Lists] /\ "loader" \in Fetchers /\ r \in Fetchers /\ r # "loader"
      /\ inputs \in Nat
  BY RequestsAssumption DEF TypeOK, Fetchers
<1>2. [QuietNext]_vars
  BY <1>1, InputsCount
<1>3. onSuccess(r) => lists[r].state # "idle" /\ lists'[r].state = "idle"
  BY <1>1 DEF onSuccess, NoList
<1>4. ASSUME NEW f \in Families, NEW k \in Keys(f), queryFn(f, k) \/ settles(f, k)
      PROVE  UNCHANGED lists
  BY <1>4 DEF queryFn, settles
<1>5. ASSUME NEW q \in Requests, onSuccess(q), q # r PROVE lists'[r] = lists[r]
  BY <1>1, <1>5 DEF onSuccess
<1>6. ASSUME NEW q \in Fetchers, listAccounts(q), lists[r].state = "idle" PROVE lists'[r] = lists[r]
  BY <1>1, <1>6 DEF listAccounts
<1>7. fallback \/ useAccountLoader \/ loads => lists'[r] = lists[r]
  BY <1>1 DEF fallback, useAccountLoader, asks, loads
<1>8. refetchInterval \/ updated \/ onmessage \/ connect => UNCHANGED lists
  BY DEF refetchInterval, updated, onmessage, connect
<1>9. UNCHANGED vars => UNCHANGED lists
  BY DEF vars
<1>10. QED
  BY <1>2, <1>3, <1>4, <1>5, <1>6, <1>7, <1>8, <1>9 DEF QuietNext

ScopeCeases == <>[][scope' = scope]_vars
RequestEnds(r) == <>[][~onSuccess(r)]_vars
NoRequest == \A r \in Requests : ~onSuccess(r)

LEMMA ScopeDoesCease == Spec /\ InputsCease /\ RequestsEndTogether => ScopeCeases
<1>1. Spec => []TypeOK /\ []LoaderAsked /\ [][Next]_vars
  <2>1. Init => LoaderAsked
    BY DEF Init, LoaderAsked, Fetchers, NoList
  <2>2. QED
    BY <2>1, LoaderStep, TypeCorrect, PTL DEF Spec
<1>2. ASSUME NEW r \in Requests PROVE Spec /\ InputsCease => RequestEnds(r)
  <2> DEFINE Idle == lists[r].state = "idle"
  <2>1. TypeOK /\ [Next]_vars /\ [inputs' = inputs]_vars =>
          /\ Idle => Idle'
          /\ ~[~onSuccess(r)]_vars => ~Idle /\ Idle'
    BY SuccessIsOnce DEF vars
  <2>2. QED
    BY <1>1, <2>1, PTL DEF InputsCease, RequestEnds
<1>3. Spec /\ InputsCease /\ RequestsEndTogether => <>[][NoRequest]_vars
  <2>1. RequestsEndTogether /\ (\A r \in Requests : RequestEnds(r)) => <>[][NoRequest]_vars
    BY DEF RequestsEndTogether, RequestEnds, NoRequest
  <2>2. QED
    BY <1>2, <2>1
<1>4. TypeOK /\ LoaderAsked /\ [Next]_vars /\ [inputs' = inputs]_vars /\ [NoRequest]_vars =>
        /\ Loaded => Loaded'
        /\ ~[scope' = scope]_vars => ~Loaded /\ Loaded'
  BY LoadedStays, QuietSteps DEF vars, NoRequest, TypeOK
<1>5. QED
  BY <1>1, <1>3, <1>4, PTL DEF InputsCease, ScopeCeases

\* ~~~ What is on screen is brought up to date ~~~
\* The console is on screen, and its query is the one under k.
Here(k) == page = "recent" /\ enabled(scope) /\ key("recent", scope) = k

Recent(k)  == cache["recent"][k]
In(k, x)   == Recent(k).flight.state = x
Current(k) == Recent(k).data.ver = version

\* No answer is under way from before the last change.
Honest(k) == In(k, "answered") => Recent(k).flight.data.ver = version

Still == inputs' = inputs /\ scope' = scope /\ news' = news

LEMMA RecentIsEntry ==
  ASSUME TypeOK, NEW k \in Keys("recent")
  PROVE  /\ cache["recent"] \in [Keys("recent") -> Entries] /\ "recent" \in DOMAIN cache
         /\ Recent(k) \in Entries
         /\ In(k, "no") \/ In(k, "asked") \/ In(k, "answered")
<1>1. DOMAIN cache = Families /\ "recent" \in Families /\ cache["recent"] \in [Keys("recent") -> Entries]
  BY DEF TypeOK, Families
<1>2. Recent(k) \in Entries
  BY <1>1 DEF Recent
<1>3. QED
  BY <1>1, <1>2 DEF Entries, Flights, In

\* The query of the console moves by its own steps and by the interval.
LEMMA RecentMoves ==
  ASSUME TypeOK, NEW k \in Keys("recent"), Here(k), [Next]_vars, Still
  PROVE  /\ Here(k)' /\ version' = version
         /\ \/ Recent(k)' = Recent(k)
            \/ /\ In(k, "no") /\ In(k, "asked")'
               /\ Recent(k)'.data = Recent(k).data
            \/ /\ In(k, "asked") /\ In(k, "answered")'
               /\ Recent(k)'.data = Recent(k).data /\ Recent(k)'.flight.data.ver = version
            \/ /\ In(k, "answered") /\ In(k, "no")'
               /\ Recent(k)'.data = Recent(k).flight.data
<1> DEFINE e == Recent(k)
<1>1. /\ cache["recent"] \in [Keys("recent") -> Entries] /\ "recent" \in DOMAIN cache
      /\ e \in Entries /\ inputs \in Nat /\ news \in Nat
  BY RecentIsEntry DEF TypeOK, Versions
<1>2. [QuietNext]_vars /\ page' = page /\ version' = version /\ scope' = scope
  BY <1>1, InputsCount, QuietSteps DEF Still
<1>3. Here(k)'
  BY <1>2 DEF Here
<1>4. ASSUME NEW f \in Families, NEW h \in Keys(f), queryFn(f, h), f = "recent", h = k
      PROVE  /\ In(k, "asked") /\ In(k, "answered")'
             /\ Recent(k)'.data = e.data /\ Recent(k)'.flight.data.ver = version
  <2> DEFINE d == [ver |-> version, of |-> known \cap reach(e.flight.provider, e.flight.account)]
             v == [e.flight EXCEPT !.state = "answered", !.data = d]
  <2>1. e.flight.state = "asked" /\ cache' = [cache EXCEPT !["recent"][k].flight = v]
    BY <1>4 DEF queryFn, Recent
  <2>2. e.flight \in Flights
    BY <1>1 DEF Entries
  <2>3. v.state = "answered" /\ v.data.ver = version
    BY <2>2 DEF Flights
  <2> HIDE DEF v
  <2>4. Recent(k)'.flight = v /\ Recent(k)'.data = e.data
    BY <1>1, <2>1 DEF Recent, Entries
  <2>5. QED
    BY <2>1, <2>3, <2>4 DEF In
<1>5. ASSUME NEW f \in Families, NEW h \in Keys(f), settles(f, h), f = "recent", h = k
      PROVE  In(k, "answered") /\ In(k, "no")' /\ Recent(k)'.data = e.flight.data
  <2>1. e.flight.state = "answered"
        /\ cache' = [cache EXCEPT !["recent"][k] =
                       [data |-> e.flight.data, age |-> "fresh", flight |-> NoFlight]]
    BY <1>5 DEF settles, Recent
  <2>2. Recent(k)' = [data |-> e.flight.data, age |-> "fresh", flight |-> NoFlight]
    BY <1>1, <2>1 DEF Recent
  <2>3. QED
    BY <2>1, <2>2 DEF In, NoFlight
<1>6. ASSUME NEW f \in Families, NEW h \in Keys(f), queryFn(f, h) \/ settles(f, h),
             ~(f = "recent" /\ h = k)
      PROVE  Recent(k)' = e
  BY <1>1, <1>6 DEF queryFn, settles, Recent
<1>7. ASSUME NEW r \in Requests, onSuccess(r) PROVE Recent(k)' = e
  BY <1>2, <1>7 DEF onSuccess, rescoped, Recent
<1>8. ASSUME NEW r \in Fetchers, listAccounts(r) PROVE Recent(k)' = e
  BY <1>8 DEF listAccounts, Recent
<1>9. refetchInterval => In(k, "no") /\ In(k, "asked")' /\ Recent(k)'.data = e.data
  <2> SUFFICES ASSUME refetchInterval
               PROVE  In(k, "no") /\ In(k, "asked")' /\ Recent(k)'.data = e.data
    OBVIOUS
  <2>1. e.flight.state = "no" /\ cache' = [cache EXCEPT !["recent"][k].flight = Asked(scope)]
    BY DEF refetchInterval, asking, Here, Recent
  <2>2. Recent(k)'.flight = Asked(scope) /\ Recent(k)'.data = e.data
    BY <1>1, <2>1 DEF Recent, Entries
  <2>3. QED
    BY <2>1, <2>2 DEF In, Asked
<1>10. loads => Recent(k)' = e
  BY <1>2 DEF loads, rescoped, Recent
<1>11. fallback \/ useAccountLoader \/ connect => Recent(k)' = e
  BY DEF fallback, useAccountLoader, connect, Recent
<1>12. ~onmessage
  BY <1>1 DEF onmessage, Still
<1>13. updated => Recent(k)' = e
  BY <1>1 DEF updated, invalidateQueries, refetched, Here, Recent
<1>14. UNCHANGED vars => Recent(k)' = e
  BY DEF vars, Recent
<1>15. QED
  BY <1>2, <1>3, <1>4, <1>5, <1>6, <1>7, <1>8, <1>9, <1>10, <1>11, <1>12, <1>13, <1>14 DEF QuietNext

\* The steps that are fair.
LEMMA RecentGoes ==
  ASSUME TypeOK, NEW k \in Keys("recent"), Here(k), Still
  PROVE  /\ refetchInterval => In(k, "no") /\ ~In(k, "no")'
         /\ Query("recent", k) => \/ In(k, "asked") /\ ~In(k, "asked")'
                                  \/ In(k, "answered") /\ ~In(k, "answered")'
<1>1. /\ cache["recent"] \in [Keys("recent") -> Entries] /\ "recent" \in DOMAIN cache
      /\ Recent(k) \in Entries /\ inputs \in Nat
  BY RecentIsEntry DEF TypeOK
<1>2. refetchInterval => Recent(k).flight.state = "no" /\ Recent(k)'.flight = Asked(scope)
  BY <1>1 DEF refetchInterval, asking, Here, Recent, Entries
<1>3. queryFn("recent", k) => Recent(k).flight.state = "asked" /\ Recent(k)'.flight.state = "answered"
  BY <1>1 DEF queryFn, Recent, Entries, Flights
<1>4. settles("recent", k) => Recent(k).flight.state = "answered" /\ Recent(k)'.flight = NoFlight
  BY <1>1 DEF settles, Recent
<1>5. ~fails("recent", k)
  BY <1>1 DEF fails, input, Still
<1>6. QED
  BY <1>2, <1>3, <1>4, <1>5 DEF Query, In, NoFlight, Asked

\* What holds once nothing but answers is left to come.
Calm ==
  /\ []TypeOK /\ [][Next]_vars /\ []ConsoleGoesOn /\ WF_vars(refetchInterval)
  /\ [][inputs' = inputs]_vars /\ [][scope' = scope]_vars /\ [][news' = news]_vars

StaysCurrent(k) == <>[](Here(k) /\ Current(k))

LEMMA ConsoleAt ==
  ASSUME NEW k \in Keys("recent")
  PROVE  Calm /\ QueryIsFair(k) /\ Here(k) => StaysCurrent(k)
<1> DEFINE Quiet == [inputs' = inputs]_vars /\ [scope' = scope]_vars /\ [news' = news]_vars
<1>1. [Next]_vars /\ Quiet => Still
  BY DEF Still, vars, live
<1>2. TypeOK => In(k, "no") \/ In(k, "asked") \/ In(k, "answered")
  BY RecentIsEntry
<1>3. TypeOK /\ Here(k) /\ [Next]_vars /\ Quiet =>
        /\ Here(k)'
        /\ Honest(k) => Honest(k)'
        /\ Honest(k) /\ Current(k) => Current(k)'
        /\ In(k, "no") => In(k, "no")' \/ In(k, "asked")'
        /\ In(k, "asked") => In(k, "asked")' \/ In(k, "answered")'
        /\ In(k, "answered") => In(k, "answered")' \/ In(k, "no")'
        /\ In(k, "answered") /\ Honest(k) => In(k, "answered")' \/ Current(k)'
  BY <1>1, RecentMoves DEF Honest, Current, In
<1>4. TypeOK /\ Here(k) /\ [Next]_vars /\ Quiet =>
        /\ <<refetchInterval>>_vars => In(k, "no") /\ ~In(k, "no")'
        /\ <<Query("recent", k)>>_vars => \/ In(k, "asked") /\ ~In(k, "asked")'
                                          \/ In(k, "answered") /\ ~In(k, "answered")'
  BY <1>1, RecentGoes
<1>5. ConsoleGoesOn /\ Here(k) =>
        /\ In(k, "no") => ENABLED <<refetchInterval>>_vars
        /\ In(k, "asked") \/ In(k, "answered") => CanQuery(k)
  BY DEF ConsoleGoesOn, Here, In, Recent
<1>6. ~Honest(k) => In(k, "answered")
  BY DEF Honest
<1>7. In(k, "no") => ~In(k, "asked") /\ ~In(k, "answered") /\ Honest(k)
  BY DEF In, Honest
<1>8. In(k, "asked") => ~In(k, "answered")
  BY DEF In
<1>9. QED
  BY <1>2, <1>3, <1>4, <1>5, <1>6, <1>7, <1>8, PTL DEF Calm, QueryIsFair, CanQuery, StaysCurrent

EveryQueryIsFair == \A k \in Keys("recent") : QueryIsFair(k)

\* Whatever was lost, failed or came late, the console shows the findings as they
\* are once nothing changes (use-dashboard.ts, useRecentFindings).
THEOREM ConsoleDoesCatchUp ==
  Spec /\ []ConsoleGoesOn /\ WhatIsFinite => ConsoleCatchesUp
<1> DEFINE UpToDate == page = "recent" /\ enabled(scope) =>
                         cache["recent"][key("recent", scope)].data.ver = version
           Shown == page = "recent" /\ enabled(scope)
<1>1. Spec /\ WhatIsFinite => InputsCease /\ ScopeCeases /\ NewsCease
  BY InputsDoCease, NewsDoCease, ScopeDoesCease, PTL DEF WhatIsFinite
<1>2. Spec => /\ [][Next]_vars /\ []TypeOK /\ []Inv
              /\ WF_vars(refetchInterval) /\ EveryQueryIsFair
  BY TypeCorrect, AlwaysInv, PTL DEF Spec, Fairness, EveryQueryIsFair
<1>3. Spec /\ []ConsoleGoesOn /\ WhatIsFinite => <>Calm
  BY <1>1, <1>2, PTL DEF Calm, InputsCease, ScopeCeases, NewsCease
<1>4. ASSUME NEW k \in Keys("recent")
      PROVE  Calm /\ EveryQueryIsFair /\ Here(k) => <>[]UpToDate
  <2>1. EveryQueryIsFair => QueryIsFair(k)
    BY DEF EveryQueryIsFair
  <2>2. Here(k) /\ Current(k) => UpToDate
    BY DEF Here, Current, Recent
  <2>3. QED
    BY <2>1, <2>2, ConsoleAt, PTL DEF StaysCurrent
<1>5. Inv /\ Shown => \E k \in Keys("recent") : Here(k)
  BY KeyIsThere DEF Inv, ScopeFits, Families, Here
<1>6. Inv /\ Shown /\ Calm /\ EveryQueryIsFair => <>[]UpToDate
  BY <1>4, <1>5
<1>7. Calm /\ ~Shown => []UpToDate
  <2>1. TypeOK /\ ~Shown /\ [Next]_vars /\ [inputs' = inputs]_vars /\ [scope' = scope]_vars
          => ~Shown'
    BY InputsCount, QuietSteps DEF vars, TypeOK
  <2>2. ~Shown => UpToDate
    OBVIOUS
  <2>3. QED
    BY <2>1, <2>2, PTL DEF Calm
<1>8. EveryQueryIsFair => []EveryQueryIsFair
  <2>1. ASSUME NEW k \in Keys("recent") PROVE QueryIsFair(k) => []QueryIsFair(k)
    BY PTL DEF QueryIsFair
  <2>2. EveryQueryIsFair => \A k \in Keys("recent") : []QueryIsFair(k)
    BY <2>1 DEF EveryQueryIsFair
  <2>3. (\A k \in Keys("recent") : []QueryIsFair(k)) => []EveryQueryIsFair
    BY DEF EveryQueryIsFair
  <2>4. QED
    BY <2>2, <2>3
<1>9. QED
  BY <1>2, <1>3, <1>6, <1>7, <1>8, PTL DEF ConsoleCatchesUp
=============================================================================
