------------------------- MODULE WebSessionProofs -------------------------
(***************************************************************************)
(* Proofs about WebSession, for any tabs, calls and number of sessions: the*)
(* type invariant, the three safety properties, and that it implements     *)
(* TokenChain.  That a login has one session follows from no two clients   *)
(* exchanging tokens at a time and from the one that was found active      *)
(* still being the only one of its login.  The other two are proved        *)
(* together: while nothing has gone wrong there is at most one active      *)
(* session, the browser's token is of that session or is being exchanged   *)
(* after the first of the two commits, when none is active, and whoever is *)
(* denied belongs to a browser that signed out.                            *)
(*                                                                         *)
(* The last part is liveness: a load goes through finitely many places,    *)
(* none of which it can stay in.                                           *)
(***************************************************************************)
EXTENDS WebSession, TLAPS

Alone == "overlap" \notin blame => \A p, q \in Exchanging : p = q

CheckedIsTheOne ==
  "overlap" \notin blame =>
    \A p \in Clients : at[p] \in {"checked", "ended"} =>
      \A s \in live : login[s] = login[tok[p]] => s = tok[p]

EndedIsGone == \A p \in Clients : at[p] = "ended" => tok[p] \notin live

\* A tab that signs out is no longer expected to have a user.
OutIsNotBegun == \A t \in Tabs : at[t] \in {"out", "outFailed"} => ~began[t]

\* While nothing has gone wrong.
OneSession == \A r, s \in live : r = s

TokensAreLive ==
  \A p \in Clients : at[p] \in {"checked", "rotated", "login"} => tok[p] \in live

Renewable ==
  signed =>
    \/ jar.refresh \in live
    \/ \E p \in Clients : at[p] = "ended" /\ tok[p] = jar.refresh
    \/ \E p \in Clients : at[p] = "rotated" /\ tok[p] \in live

EndedIsIn ==
  \A p \in Clients : at[p] = "ended" => signed /\ live = {} /\ tok[p] = jar.refresh

OutIsOut ==
  \A t \in Tabs : at[t] = "out" =>
    ~signed /\ live = {} /\ \A p \in Clients : at[p] # "again"

NoFailedLogout == \A t \in Tabs : at[t] # "outFailed"

AgainIsAccepted == \A p \in Clients : at[p] = "again" => accepted

DeniedIsOut ==
  \A p \in Clients : at[p] = "denied" => ~signed /\ \A t \in Tabs : at[t] # "login"

LoadsAreSigned == \A t \in Tabs : began[t] /\ at[t] # "idle" => signed

HasUser == \A t \in Tabs : began[t] /\ at[t] = "idle" => user[t]

SameTokens == jar.access # 0 => jar.access = jar.refresh

Gone ==
  ~signed /\ (\A t \in Tabs : at[t] \notin {"login", "out"}) => live = {} /\ jar = NoCookies

FineNow ==
  /\ OneSession /\ TokensAreLive /\ Renewable /\ SameTokens /\ Gone
  /\ OutIsOut /\ NoFailedLogout /\ AgainIsAccepted /\ DeniedIsOut
  /\ EndedIsIn /\ LoadsAreSigned /\ HasUser

Fine == blame = {} => FineNow

Inv ==
  TypeOK /\ Alone /\ CheckedIsTheOne /\ EndedIsGone /\ OnePerLogin /\ OutIsNotBegun /\ Fine

USE ClientsAssumption, MaxSessionsAssumption

\* A session that opens is none there has been.
LEMMA OpensIsNew ==
    ASSUME TypeOK, NEW s \in Sessions, NEW from, from \in 0..s, opens(s, from)
    PROVE  /\ opened \in Nat /\ s = opened + 1 /\ opened' = s
           /\ opened' \in Tokens
           /\ login' \in [Sessions -> 0..opened']
           /\ login'[s] = from
           /\ \A r \in 1..opened : /\ r # s /\ r \in Sessions
                                   /\ login'[r] = login[r] /\ login[r] \in 0..opened
<1>1. opened \in Nat /\ s = opened + 1 /\ opened' = s /\ s \in 1..MaxSessions
  BY DEF TypeOK, opens, Tokens, Sessions
<1>2. login' = [login EXCEPT ![s] = from]
  BY DEF opens
<1>3. opened' \in Tokens
  BY <1>1 DEF Tokens
<1>4. login' \in [Sessions -> 0..opened']
  BY <1>1, <1>2 DEF TypeOK
<1>5. \A r \in 1..opened : r # s /\ r \in Sessions
  BY <1>1 DEF Sessions
<1>6. QED
  BY <1>1, <1>2, <1>3, <1>5 DEF TypeOK

LEMMA InitInv == Init => Inv
<1>1. SUFFICES ASSUME Init PROVE Inv
  OBVIOUS
<1>2. NoCookies \in [access : 0..opened, fresh : BOOLEAN, refresh : 0..opened, flag : BOOLEAN]
  BY <1>1 DEF Init, NoCookies
<1>3. TypeOK
  <2>1. opened \in Tokens /\ live \in SUBSET (1..opened) /\ login \in [Sessions -> 0..opened]
    BY <1>1 DEF Init, Tokens
  <2>2. jar \in [access : 0..opened, fresh : BOOLEAN, refresh : 0..opened, flag : BOOLEAN]
    BY <1>1, <1>2 DEF Init
  <2>3. user \in [Tabs -> BOOLEAN] /\ at \in [Clients -> Places] /\ tok \in [Clients -> 0..opened]
    BY <1>1 DEF Init, Places
  <2>4. \A p \in Clients : tok[p] # 0 <=> at[p] \in {"checked", "ended", "rotated", "login"}
    BY <1>1 DEF Init
  <2>5. signed \in BOOLEAN /\ began \in [Tabs -> BOOLEAN] /\ blame \in SUBSET Blames
    BY <1>1 DEF Init
  <2>6. QED
    BY <2>1, <2>2, <2>3, <2>4, <2>5 DEF TypeOK
<1>4. Alone /\ CheckedIsTheOne /\ EndedIsGone /\ OnePerLogin /\ OutIsNotBegun
  BY <1>1
     DEF Init, Alone, CheckedIsTheOne, EndedIsGone, OnePerLogin, OutIsNotBegun, Exchanging
<1>5. OneSession /\ TokensAreLive /\ Renewable /\ SameTokens /\ Gone
  BY <1>1 DEF Init, OneSession, TokensAreLive, Renewable, SameTokens, Gone, NoCookies
<1>6. OutIsOut /\ NoFailedLogout /\ AgainIsAccepted /\ DeniedIsOut
  BY <1>1 DEF Init, OutIsOut, NoFailedLogout, AgainIsAccepted, DeniedIsOut, Clients
<1>7. EndedIsIn /\ LoadsAreSigned /\ HasUser
  BY <1>1 DEF Init, EndedIsIn, LoadsAreSigned, HasUser
<1>8. QED
  BY <1>3, <1>4, <1>5, <1>6, <1>7 DEF Inv, Fine, FineNow

\* Every step keeps the types.
LEMMA TypeStep ==
    ASSUME Inv, [Next]_vars
    PROVE  TypeOK'
<1>1. TypeOK /\ Alone /\ CheckedIsTheOne /\ EndedIsGone /\ OnePerLogin /\ OutIsNotBegun
  BY DEF Inv
<1>2. ASSUME NEW p \in Clients, refresh_tokens(p) PROVE TypeOK'
  <2>1. opened' \in Tokens /\ live' \in SUBSET (1..opened') /\ login' \in [Sessions -> 0..opened']
    BY <1>1, <1>2 DEF refresh_tokens, TypeOK, server
  <2>2. jar' \in [access : 0..opened', fresh : BOOLEAN, refresh : 0..opened', flag : BOOLEAN]
    BY <1>1, <1>2 DEF refresh_tokens, TypeOK, server
  <2>3. user' \in [Tabs -> BOOLEAN] /\ at' \in [Clients -> Places]
    BY <1>1, <1>2
       DEF refresh_tokens, TypeOK, Sessions, Tokens, Places, Blames, Clients, moves,
           server, hist
  <2>4. tok' \in [Clients -> 0..opened']
    BY <1>1, <1>2
       DEF refresh_tokens, TypeOK, Sessions, Tokens, Places, Blames, Clients, moves,
           server, hist
  <2>5. \A q \in Clients : tok'[q] # 0 <=> at'[q] \in {"checked", "ended", "rotated", "login"}
    <3>1. CASE jar.refresh \in live
      <4>1. jar.refresh # 0 /\ at' = [at EXCEPT ![p] = "checked"] /\ tok' = [tok EXCEPT ![p] = jar.refresh]
        BY <1>1, <1>2, <3>1 DEF refresh_tokens, moves, TypeOK
      <4>2. QED
        BY <1>1, <4>1 DEF TypeOK
    <3>2. CASE jar.refresh \notin live
      <4>1. at' = [at EXCEPT ![p] = "denied"] /\ tok' = tok /\ at[p] = "refused"
        BY <1>2, <3>2 DEF refresh_tokens, moves
      <4>2. QED
        BY <1>1, <4>1 DEF TypeOK
    <3>3. QED
      BY <3>1, <3>2
  <2>6. signed' \in BOOLEAN /\ began' \in [Tabs -> BOOLEAN] /\ blame' \in SUBSET Blames
    BY <1>1, <1>2 DEF refresh_tokens, TypeOK, Blames, hist
  <2>7. QED
    BY <2>1, <2>2, <2>3, <2>4, <2>5, <2>6 DEF TypeOK
<1>3. ASSUME NEW p \in Clients, _create_session(p) PROVE TypeOK'
  <2>1. PICK s \in Sessions :
          /\ opens(s, login[tok[p]])
          /\ live' = live \cup {s}
          /\ tok' = [tok EXCEPT ![p] = s]
    BY <1>3 DEF _create_session
  <2>2. tok[p] \in 1..opened /\ at[p] = "ended" /\ opened \in Nat
    BY <1>1, <1>3 DEF TypeOK, _create_session, Tokens
  <2>3. tok[p] \in Sessions /\ s = opened + 1
    BY <2>2, <2>1 DEF Sessions, opens
  <2>4. login[tok[p]] \in 0..s
    BY <1>1, <2>2, <2>3 DEF TypeOK
  <2>5. /\ opened' = s /\ opened' \in Tokens /\ login' \in [Sessions -> 0..opened']
        /\ login'[s] = login[tok[p]]
        /\ \A r \in 1..opened : r # s /\ r \in Sessions /\ login'[r] = login[r] /\ login[r] \in 0..opened
    BY <1>1, <2>1, <2>4, OpensIsNew
  <2>6. opened' \in Tokens /\ live' \in SUBSET (1..opened') /\ login' \in [Sessions -> 0..opened']
    <3>1. opened' = opened + 1 /\ live' \subseteq live \cup {opened + 1}
      BY <2>1, <2>3, <2>5
    <3>2. live \subseteq 1..opened
      BY <1>1 DEF TypeOK
    <3>3. ASSUME NEW r \in live' PROVE r \in 1..opened'
      <4>1. CASE r = opened + 1
        BY <3>1, <2>2, <4>1
      <4>2. CASE r \in 1..opened
        BY <3>1, <2>2, <4>2
      <4>3. QED
        BY <3>1, <3>2, <4>1, <4>2
    <3>4. QED
      BY <2>5, <3>3
  <2>7. jar' \in [access : 0..opened', fresh : BOOLEAN, refresh : 0..opened', flag : BOOLEAN]
    BY <1>1, <1>3, <2>3, <2>5 DEF _create_session, TypeOK
  <2>8. user' \in [Tabs -> BOOLEAN] /\ at' \in [Clients -> Places]
    BY <1>1, <1>3 DEF _create_session, TypeOK, Places, moves
  <2>9. tok' \in [Clients -> 0..opened']
    BY <1>1, <2>1, <2>3, <2>5 DEF TypeOK
  <2>10. \A q \in Clients : tok'[q] # 0 <=> at'[q] \in {"checked", "ended", "rotated", "login"}
    BY <1>1, <1>3, <2>1, <2>3, <2>5 DEF _create_session, TypeOK, moves
  <2>11. signed' \in BOOLEAN /\ began' \in [Tabs -> BOOLEAN] /\ blame' \in SUBSET Blames
    BY <1>1, <1>3 DEF _create_session, TypeOK, hist
  <2>12. QED
    BY <2>6, <2>7, <2>8, <2>9, <2>10, <2>11 DEF TypeOK
<1>4. ASSUME NEW p \in Clients, crash(p) PROVE TypeOK'
  <2>1. opened' \in Tokens /\ live' \in SUBSET (1..opened') /\ login' \in [Sessions -> 0..opened']
    BY <1>1, <1>4
       DEF crash, TypeOK, Sessions, Tokens, Places, Blames, Clients, moves, server, hist
  <2>2. jar' \in [access : 0..opened', fresh : BOOLEAN, refresh : 0..opened', flag : BOOLEAN]
    BY <1>1, <1>4 DEF crash, TypeOK, server
  <2>3. user' \in [Tabs -> BOOLEAN] /\ at' \in [Clients -> Places]
    BY <1>1, <1>4 DEF crash, TypeOK, Places, moves
  <2>4. tok' \in [Clients -> 0..opened']
    BY <1>1, <1>4 DEF crash, TypeOK, Tokens, server
  <2>5. \A q \in Clients : tok'[q] # 0 <=> at'[q] \in {"checked", "ended", "rotated", "login"}
    BY <1>1, <1>4 DEF crash, TypeOK, moves
  <2>6. signed' \in BOOLEAN /\ began' \in [Tabs -> BOOLEAN] /\ blame' \in SUBSET Blames
    BY <1>1, <1>4 DEF crash, TypeOK, Blames, hist
  <2>7. QED
    BY <2>1, <2>2, <2>3, <2>4, <2>5, <2>6 DEF TypeOK
<1>5. ASSUME NEW p \in Clients, set_auth_cookies(p) PROVE TypeOK'
  BY <1>1, <1>5 DEF set_auth_cookies, TypeOK, Tokens, Places, Issued, moves, server, hist
<1>6. ASSUME NEW p \in Clients, lose(p) PROVE TypeOK'
  BY <1>1, <1>6 DEF lose, TypeOK, Tokens, Places, Blames, moves, server, hist
<1>7. ASSUME NEW p \in Clients, expired(p) PROVE TypeOK'
  BY <1>1, <1>7
     DEF expired, TypeOK, Sessions, Tokens, Places, Blames, Clients, givesUp, moves,
         server, hist
<1>8. CASE \E c \in Calls : apiFetch(c) \/ retry(c)
  BY <1>1, <1>8 DEF apiFetch, retry, Places, Clients, TypeOK, moves, server, hist
<1>9. ASSUME NEW t \in Tabs, refreshUser(t) PROVE TypeOK'
  BY <1>1, <1>9 DEF refreshUser, TypeOK, Places, Clients, getCurrentUser, moves, server
<1>10. ASSUME NEW t \in Tabs, setUser(t) PROVE TypeOK'
  BY <1>1, <1>10 DEF setUser, TypeOK, Places, Clients, moves, server, hist
<1>11. ASSUME NEW t \in Tabs, noAnswer(t) PROVE TypeOK'
  BY <1>1, <1>11
     DEF noAnswer, TypeOK, Sessions, Tokens, Places, Blames, Clients, givesUp, moves,
         server, hist
<1>12. ASSUME NEW t \in Tabs, getAgain(t) PROVE TypeOK'
  BY <1>1, <1>12
     DEF getAgain, TypeOK, Sessions, Tokens, Places, Blames, Clients, givesUp, moves,
         server, hist
<1>13. ASSUME NEW t \in Tabs, login_(t) PROVE TypeOK'
  BY <1>1, <1>13
     DEF login_, TypeOK, Sessions, Tokens, Places, Blames, Clients, opens, moves, hist
<1>14. ASSUME NEW t \in Tabs, loggedIn(t) PROVE TypeOK'
  BY <1>1, <1>14
     DEF loggedIn, TypeOK, Tokens, Places, Clients, Issued, getCurrentUser, moves, server
<1>15. ASSUME NEW t \in Tabs, logout(t) PROVE TypeOK'
  <2>1. /\ t \in Clients /\ at[t] = "idle"
        /\ at' = [at EXCEPT ![t] = "out"] \/ at' = [at EXCEPT ![t] = "outFailed"]
    BY <1>15 DEF logout, moves, Clients
  <2>2. live' \subseteq live /\ blame' \in SUBSET Blames
    BY <1>1, <1>15 DEF logout, TypeOK, Blames
  <2>3. at' \in [Clients -> Places]
    BY <1>1, <2>1 DEF TypeOK, Places
  <2>4. \A q \in Clients : tok[q] # 0 <=> at'[q] \in {"checked", "ended", "rotated", "login"}
    BY <1>1, <2>1 DEF TypeOK
  <2>5. began' \in [Tabs -> BOOLEAN] /\ signed' \in BOOLEAN
    BY <1>1, <1>15 DEF logout, TypeOK
  <2>6. QED
    BY <1>1, <1>15, <2>2, <2>3, <2>4, <2>5 DEF logout, TypeOK
<1>16. ASSUME NEW t \in Tabs, loggedOut(t) PROVE TypeOK'
  BY <1>1, <1>16
     DEF loggedOut, TypeOK, Sessions, Tokens, Places, Blames, Clients, NoCookies, moves,
         server, hist
<1>17. CASE lapses
  BY <1>1, <1>17
     DEF lapses, TypeOK, Sessions, Tokens, Places, Blames, Clients, moves, server, hist
<1>18. CASE hourPasses
  <2>1. jar' \in [access : 0..opened, fresh : BOOLEAN, refresh : 0..opened, flag : BOOLEAN]
    <3>1. jar' = [access |-> 0, fresh |-> FALSE, refresh |-> jar.refresh, flag |-> FALSE]
      BY <1>1, <1>18 DEF hourPasses, TypeOK
    <3>2. jar.refresh \in 0..opened /\ 0 \in 0..opened
      BY <1>1 DEF TypeOK, Tokens
    <3>3. QED
      BY <3>1, <3>2
  <2>2. QED
    BY <1>1, <1>18, <2>1 DEF hourPasses, TypeOK, Blames, server, hist
<1>19. ASSUME NEW s \in Sessions, revoke_session(s) PROVE TypeOK'
  BY <1>1, <1>19 DEF revoke_session, TypeOK, Blames, hist
<1>20. CASE UNCHANGED vars
  BY <1>1, <1>20 DEF vars, TypeOK, server, hist
<1>21. ASSUME NEW p \in Clients, invalidates(p) PROVE TypeOK'
  <2>1. at' = [at EXCEPT ![p] = "ended"] /\ at[p] = "checked"
    BY <1>21 DEF invalidates, moves
  <2>2. live' \in SUBSET (1..opened') /\ at' \in [Clients -> Places]
    BY <1>1, <1>21, <2>1 DEF invalidates, TypeOK, Places
  <2>3. \A q \in Clients : tok'[q] # 0 <=> at'[q] \in {"checked", "ended", "rotated", "login"}
    BY <1>1, <1>21, <2>1 DEF invalidates, TypeOK
  <2>4. QED
    BY <1>1, <1>21, <2>2, <2>3 DEF invalidates, TypeOK, hist
<1>22. ASSUME NEW t \in Tabs, lostReply(t) PROVE TypeOK'
  <2>1. /\ t \in Clients /\ tok' = [tok EXCEPT ![t] = 0]
        /\ at' = [at EXCEPT ![t] = "idle"] \/ at' = [at EXCEPT ![t] = "outFailed"]
    BY <1>22 DEF lostReply, moves, Clients
  <2>2. at' \in [Clients -> Places] /\ tok' \in [Clients -> 0..opened]
    BY <1>1, <2>1 DEF TypeOK, Places, Tokens
  <2>3. \A q \in Clients : tok'[q] # 0 <=> at'[q] \in {"checked", "ended", "rotated", "login"}
    BY <1>1, <2>1 DEF TypeOK
  <2>4. QED
    BY <1>1, <1>22, <2>2, <2>3 DEF lostReply, TypeOK, Blames, server, hist
<1>23. QED
  BY <1>2, <1>3, <1>4, <1>5, <1>6, <1>7, <1>8, <1>9, <1>10, <1>11, <1>12, <1>13, <1>14,
     <1>15, <1>16, <1>17, <1>18, <1>19, <1>20, <1>21, <1>22 DEF Next, Refresh, Load

LEMMA BlameStays ==
    ASSUME Inv, [Next]_vars
    PROVE  blame \subseteq blame'
<1>1. CASE \/ \E p \in Clients : refresh_tokens(p) \/ invalidates(p) \/ _create_session(p)
                                 \/ crash(p) \/ set_auth_cookies(p) \/ lose(p) \/ expired(p)
           \/ \E c \in Calls : apiFetch(c) \/ retry(c)
           \/ \E t \in Tabs : refreshUser(t) \/ setUser(t) \/ noAnswer(t) \/ getAgain(t)
                              \/ login_(t) \/ loggedIn(t) \/ lostReply(t) \/ logout(t)
                              \/ loggedOut(t)
           \/ \E s \in Sessions : revoke_session(s)
           \/ lapses \/ hourPasses \/ UNCHANGED vars
  BY <1>1
     DEF refresh_tokens, invalidates, _create_session, crash, set_auth_cookies, lose,
         expired, apiFetch, retry, refreshUser, setUser, noAnswer, getAgain, login_,
         loggedIn, lostReply, logout, loggedOut, lapses, hourPasses, revoke_session, vars
<1>2. QED
  BY <1>1 DEF Next, Refresh, Load

Onlookers == {"idle", "refused", "denied", "again", "me", "meAgain", "outFailed"}

\* Clients start an exchange one at a time, or that is an overlap.
LEMMA AloneStep ==
    ASSUME Inv, [Next]_vars
    PROVE  Alone'
<1>1. TypeOK /\ Alone /\ CheckedIsTheOne /\ EndedIsGone /\ OnePerLogin /\ OutIsNotBegun
  BY DEF Inv
<1>2. ASSUME UNCHANGED at \/ \E p \in Clients, place \in Places :
               moves(p, place) /\ (p \in Exchanging \/ place \in Onlookers)
      PROVE  Alone'
  <2>1. \A q \in Clients : q \in Exchanging' => q \in Exchanging
    BY <1>1, <1>2 DEF Exchanging, Onlookers, TypeOK, moves
  <2>2. Exchanging' \subseteq Clients /\ blame \subseteq blame'
    BY BlameStays DEF Exchanging
  <2>3. QED
    BY <1>1, <2>1, <2>2 DEF Alone
<1>3. ASSUME NEW p \in Clients, refresh_tokens(p) PROVE Alone'
  BY <1>1, <1>3 DEF refresh_tokens, Alone, Exchanging, TypeOK, moves
<1>4. ASSUME NEW p \in Clients, \/ invalidates(p) \/ _create_session(p) \/ crash(p)
                                \/ set_auth_cookies(p) \/ lose(p) \/ expired(p)
      PROVE  Alone'
  <2>1. \E place \in Places : moves(p, place) /\ (p \in Exchanging \/ place \in Onlookers)
    BY <1>4
       DEF invalidates, _create_session, crash, set_auth_cookies, lose, expired, givesUp,
           Exchanging, Onlookers, Places
  <2>2. QED
    BY <1>2, <2>1
<1>5. ASSUME NEW c \in Calls, apiFetch(c) \/ retry(c) PROVE Alone'
  <2>1. c \in Clients /\ \E place \in Places \cap Onlookers : moves(c, place)
    BY <1>5 DEF apiFetch, retry, Onlookers, Places, Clients
  <2>2. QED
    BY <1>2, <2>1
<1>6. ASSUME NEW t \in Tabs, Load(t) \/ loggedIn(t) \/ lostReply(t) \/ loggedOut(t)
      PROVE  Alone'
  <2>1. t \in Clients /\ \E place \in Places \cap Onlookers : moves(t, place)
    BY <1>6
       DEF Load, refreshUser, setUser, noAnswer, getAgain, loggedIn, lostReply, loggedOut,
           getCurrentUser, givesUp, Onlookers, Places, Clients
  <2>2. QED
    BY <1>2, <2>1
<1>7. ASSUME NEW t \in Tabs, login_(t) PROVE Alone'
  BY <1>7 DEF login_, Alone, Exchanging, Busy, moves
<1>8. ASSUME NEW t \in Tabs, logout(t) PROVE Alone'
  BY <1>1, <1>8 DEF logout, TypeOK, Alone, Exchanging, Busy, moves
<1>9. CASE lapses \/ hourPasses \/ (\E s \in Sessions : revoke_session(s)) \/ UNCHANGED vars
  BY <1>2, <1>9 DEF lapses, hourPasses, revoke_session, vars
<1>10. QED
  BY <1>3, <1>4, <1>5, <1>6, <1>7, <1>8, <1>9 DEF Next, Refresh

\* A session found active is the only one of its login until it is replaced.
LEMMA CheckedStep ==
    ASSUME Inv, [Next]_vars
    PROVE  CheckedIsTheOne'
<1>1. TypeOK /\ Alone /\ CheckedIsTheOne /\ EndedIsGone /\ OnePerLogin /\ OutIsNotBegun
  BY DEF Inv
<1>2. ASSUME NEW p \in Clients, refresh_tokens(p) PROVE CheckedIsTheOne'
  BY <1>1, <1>2
     DEF refresh_tokens, TypeOK, CheckedIsTheOne, OnePerLogin, Exchanging, moves, server
<1>3. ASSUME NEW p \in Clients, _create_session(p) PROVE CheckedIsTheOne'
  BY <1>1, <1>3 DEF _create_session, TypeOK, CheckedIsTheOne, Alone, Exchanging, moves
<1>4. CASE \/ \E p \in Clients : crash(p) \/ set_auth_cookies(p) \/ lose(p) \/ expired(p)
           \/ \E c \in Calls : apiFetch(c) \/ retry(c)
           \/ \E t \in Tabs : refreshUser(t) \/ setUser(t) \/ noAnswer(t) \/ getAgain(t)
                              \/ loggedIn(t) \/ lostReply(t) \/ loggedOut(t)
           \/ \E s \in Sessions : revoke_session(s)
           \/ lapses \/ hourPasses \/ UNCHANGED vars
  BY <1>1, <1>4
     DEF crash, set_auth_cookies, lose, expired, apiFetch, retry, refreshUser, setUser,
         noAnswer, getAgain, loggedIn, lostReply, loggedOut, lapses, hourPasses, revoke_session,
         CheckedIsTheOne, TypeOK, moves, server, givesUp, getCurrentUser, vars
<1>5. ASSUME NEW t \in Tabs, login_(t) PROVE CheckedIsTheOne'
  <2>1. PICK s \in Sessions : opens(s, s) /\ live' = live \cup {s} /\ tok' = [tok EXCEPT ![t] = s]
    BY <1>5 DEF login_
  <2>2. s \in 0..s
    BY DEF Sessions
  <2>3. /\ opened \in Nat /\ s = opened + 1 /\ opened' = s /\ opened' \in Tokens
        /\ login' \in [Sessions -> 0..opened'] /\ login'[s] = s
        /\ \A r \in 1..opened : r # s /\ r \in Sessions /\ login'[r] = login[r] /\ login[r] \in 0..opened
    BY <1>1, <2>1, <2>2, OpensIsNew
  <2>4. \A r \in live' : r = s \/ (r \in live /\ login'[r] = login[r] /\ login[r] # s)
    BY <1>1, <2>1, <2>3 DEF TypeOK
  <2>5. "overlap" \notin blame' => "overlap" \notin blame
    BY <1>5 DEF login_
  <2>6. SUFFICES ASSUME "overlap" \notin blame, NEW p \in Clients, at'[p] \in {"checked", "ended"},
                         NEW r \in live', login'[r] = login'[tok'[p]]
                  PROVE  r = tok'[p]
    BY <2>5 DEF CheckedIsTheOne
  <2>7. p # t /\ at[p] \in {"checked", "ended"} /\ tok'[p] = tok[p]
    BY <1>5, <2>6 DEF login_, moves
  <2>8. tok[p] \in 1..opened
    BY <1>1, <2>7 DEF TypeOK
  <2>9. login'[tok'[p]] = login[tok[p]] /\ login[tok[p]] # s
    BY <2>7, <2>8, <2>3
  <2>10. QED
    BY <1>1, <2>6, <2>7, <2>9, <2>4, <2>3 DEF CheckedIsTheOne
<1>6. ASSUME NEW t \in Tabs, logout(t) PROVE CheckedIsTheOne'
  BY <1>1, <1>6
     DEF logout, TypeOK, CheckedIsTheOne, OnePerLogin, Alone, Exchanging, Clients,
         Sessions, Tokens, moves, server, hist
<1>7. ASSUME NEW p \in Clients, invalidates(p) PROVE CheckedIsTheOne'
  BY <1>1, <1>7 DEF invalidates, TypeOK, CheckedIsTheOne, moves
<1>8. QED
  BY <1>2, <1>3, <1>4, <1>5, <1>6, <1>7 DEF Next, Refresh, Load

\* Rotation replaces the one session of a login.
LEMMA OnePerLoginStep ==
    ASSUME Inv, [Next]_vars
    PROVE  OnePerLogin'
<1>1. TypeOK /\ Alone /\ CheckedIsTheOne /\ EndedIsGone /\ OnePerLogin /\ OutIsNotBegun
  BY DEF Inv
<1>2. CASE \/ \E p \in Clients : refresh_tokens(p) \/ invalidates(p) \/ crash(p)
                                 \/ set_auth_cookies(p) \/ lose(p) \/ expired(p)
           \/ \E c \in Calls : apiFetch(c) \/ retry(c)
           \/ \E t \in Tabs : refreshUser(t) \/ setUser(t) \/ noAnswer(t) \/ getAgain(t)
                              \/ loggedIn(t) \/ lostReply(t) \/ loggedOut(t)
           \/ \E s \in Sessions : revoke_session(s)
           \/ lapses \/ hourPasses \/ UNCHANGED vars
  BY <1>1, <1>2
     DEF refresh_tokens, invalidates, crash, set_auth_cookies, lose, expired, apiFetch, retry,
         refreshUser, setUser, noAnswer, getAgain, loggedIn, lostReply, loggedOut, lapses,
         hourPasses, revoke_session, OnePerLogin, server, vars
<1>3. ASSUME NEW p \in Clients, _create_session(p) PROVE OnePerLogin'
  <2>1. PICK s \in Sessions :
          /\ opens(s, login[tok[p]])
          /\ live' = live \cup {s}
          /\ tok' = [tok EXCEPT ![p] = s]
    BY <1>3 DEF _create_session
  <2>2. tok[p] \in 1..opened /\ at[p] = "ended" /\ tok[p] \notin live /\ opened \in Nat
    BY <1>1, <1>3 DEF TypeOK, EndedIsGone, _create_session, Tokens
  <2>3. tok[p] \in Sessions /\ s = opened + 1
    BY <2>2, <2>1 DEF Sessions, opens
  <2>4. login[tok[p]] \in 0..s
    BY <1>1, <2>2, <2>3 DEF TypeOK
  <2>5. /\ opened' = s /\ opened' \in Tokens /\ login' \in [Sessions -> 0..opened']
        /\ login'[s] = login[tok[p]]
        /\ \A r \in 1..opened : r # s /\ r \in Sessions /\ login'[r] = login[r] /\ login[r] \in 0..opened
    BY <1>1, <2>1, <2>4, OpensIsNew
  <2>6. SUFFICES ASSUME "overlap" \notin blame, NEW r \in live', NEW q \in live', login'[r] = login'[q]
                PROVE  r = q
    BY <1>3 DEF OnePerLogin, _create_session
  <2>7. \A x \in live : login[x] = login[tok[p]] => x = tok[p]
    BY <1>1, <2>2, <2>6 DEF CheckedIsTheOne
  <2>8. \A x \in live' : x = s \/ (x \in live /\ x # tok[p] /\ x \in 1..opened /\ x # s)
    BY <1>1, <2>1, <2>2, <2>5 DEF TypeOK
  <2>9. CASE r = s
    BY <2>6, <2>7, <2>8, <2>5, <2>9
  <2>10. CASE q = s
    BY <2>6, <2>7, <2>8, <2>5, <2>10
  <2>11. CASE r # s /\ q # s
    BY <1>1, <2>6, <2>8, <2>5, <2>11 DEF OnePerLogin
  <2>12. QED
    BY <2>9, <2>10, <2>11
<1>4. ASSUME NEW t \in Tabs, login_(t) PROVE OnePerLogin'
  <2>1. PICK s \in Sessions : opens(s, s) /\ live' = live \cup {s} /\ tok' = [tok EXCEPT ![t] = s]
    BY <1>4 DEF login_
  <2>2. s \in 0..s
    BY DEF Sessions
  <2>3. /\ opened \in Nat /\ s = opened + 1 /\ opened' = s /\ opened' \in Tokens
        /\ login' \in [Sessions -> 0..opened'] /\ login'[s] = s
        /\ \A r \in 1..opened : r # s /\ r \in Sessions /\ login'[r] = login[r] /\ login[r] \in 0..opened
    BY <1>1, <2>1, <2>2, OpensIsNew
  <2>4. \A r \in live' : r = s \/ (r \in live /\ login'[r] = login[r] /\ login[r] # s)
    BY <1>1, <2>1, <2>3 DEF TypeOK
  <2>5. "overlap" \notin blame' => "overlap" \notin blame
    BY <1>4 DEF login_
  <2>6. QED
    BY <1>1, <2>3, <2>4, <2>5 DEF OnePerLogin
<1>5. ASSUME NEW t \in Tabs, logout(t) PROVE OnePerLogin'
  BY <1>1, <1>5
     DEF logout, TypeOK, OnePerLogin, Alone, CheckedIsTheOne, Sessions, Tokens, Clients,
         moves, server, hist
<1>6. QED
  BY <1>2, <1>3, <1>4, <1>5 DEF Next, Refresh, Load

\* A session that ended never becomes active again.
LEMMA EndedIsGoneStep ==
    ASSUME Inv, [Next]_vars
    PROVE  EndedIsGone'
<1>1. TypeOK /\ EndedIsGone
  BY DEF Inv
<1>2. ASSUME NEW p \in Clients, invalidates(p) PROVE EndedIsGone'
  BY <1>1, <1>2 DEF invalidates, TypeOK, EndedIsGone, moves
<1>3. ASSUME NEW p \in Clients, NEW place, place # "ended", moves(p, place),
             NEW s, live' \subseteq live \cup {s}, s \notin 1..opened,
             \A q \in Clients : q # p => tok'[q] = tok[q]
      PROVE  EndedIsGone'
  <2>1. SUFFICES ASSUME NEW q \in Clients, at'[q] = "ended" PROVE tok'[q] \notin live'
    BY DEF EndedIsGone
  <2>2. q # p /\ at[q] = "ended" /\ tok'[q] = tok[q]
    BY <1>1, <1>3, <2>1 DEF TypeOK, moves
  <2>3. tok[q] \in 1..opened /\ tok[q] \notin live
    BY <1>1, <2>2 DEF TypeOK, EndedIsGone, Tokens
  <2>4. QED
    BY <1>3, <2>2, <2>3
<1>4. ASSUME NEW p \in Clients, _create_session(p) PROVE EndedIsGone'
  <2>1. PICK s \in Sessions : /\ s = opened + 1 /\ live' = live \cup {s}
                              /\ tok' = [tok EXCEPT ![p] = s]
    BY <1>4 DEF _create_session, opens
  <2>2. s \notin 1..opened /\ moves(p, "rotated") /\ \A q \in Clients : q # p => tok'[q] = tok[q]
    BY <1>1, <1>4, <2>1 DEF _create_session, TypeOK, Tokens
  <2>3. QED
    BY <1>3, <2>1, <2>2
<1>5. ASSUME NEW t \in Tabs, login_(t) PROVE EndedIsGone'
  <2>1. PICK s \in Sessions : /\ s = opened + 1 /\ live' = live \cup {s}
                              /\ tok' = [tok EXCEPT ![t] = s]
    BY <1>5 DEF login_, opens
  <2>2. /\ s \notin 1..opened /\ moves(t, "login") /\ t \in Clients
        /\ \A q \in Clients : q # t => tok'[q] = tok[q]
    BY <1>1, <1>5, <2>1 DEF login_, TypeOK, Tokens, Clients
  <2>3. QED
    BY <1>3, <2>1, <2>2
<1>6. CASE \/ \E p \in Clients : refresh_tokens(p) \/ crash(p) \/ set_auth_cookies(p)
                                 \/ lose(p) \/ expired(p)
           \/ \E c \in Calls : apiFetch(c) \/ retry(c)
           \/ \E t \in Tabs : refreshUser(t) \/ setUser(t) \/ noAnswer(t) \/ getAgain(t)
                              \/ loggedIn(t) \/ lostReply(t) \/ loggedOut(t)
           \/ \E s \in Sessions : revoke_session(s)
           \/ lapses \/ hourPasses \/ UNCHANGED vars
  BY <1>1, <1>6
     DEF refresh_tokens, crash, set_auth_cookies, lose, expired, apiFetch, retry,
         refreshUser, setUser, noAnswer, getAgain, loggedIn, lostReply, loggedOut, lapses,
         hourPasses, revoke_session, EndedIsGone, TypeOK, moves, server, givesUp,
         getCurrentUser, vars
<1>7. ASSUME NEW t \in Tabs, logout(t) PROVE EndedIsGone'
  BY <1>1, <1>7 DEF logout, EndedIsGone, TypeOK, moves
<1>8. QED
  BY <1>2, <1>4, <1>5, <1>6, <1>7 DEF Next, Refresh, Load

\* A tab that signs out has no user to keep.
LEMMA OutIsNotBegunStep ==
    ASSUME Inv, [Next]_vars
    PROVE  OutIsNotBegun'
<1>1. TypeOK /\ Alone /\ CheckedIsTheOne /\ EndedIsGone /\ OnePerLogin /\ OutIsNotBegun
  BY DEF Inv
<1>2. CASE \/ \E p \in Clients : refresh_tokens(p) \/ expired(p)
           \/ \E t \in Tabs : noAnswer(t) \/ getAgain(t) \/ logout(t)
  BY <1>1, <1>2
     DEF refresh_tokens, expired, noAnswer, getAgain, logout, OutIsNotBegun, Clients,
         TypeOK, moves, hist, givesUp
<1>3. ASSUME NEW p \in Clients, _create_session(p) PROVE OutIsNotBegun'
  BY <1>1, <1>3 DEF _create_session, OutIsNotBegun, moves, hist
<1>4. ASSUME NEW p \in Clients, crash(p) PROVE OutIsNotBegun'
  BY <1>1, <1>4 DEF crash, OutIsNotBegun, moves, hist
<1>5. ASSUME NEW p \in Clients, set_auth_cookies(p) PROVE OutIsNotBegun'
  BY <1>1, <1>5 DEF set_auth_cookies, OutIsNotBegun, moves, hist
<1>6. ASSUME NEW p \in Clients, lose(p) PROVE OutIsNotBegun'
  BY <1>1, <1>6 DEF lose, OutIsNotBegun, moves, hist
<1>7. ASSUME NEW c \in Calls, apiFetch(c) PROVE OutIsNotBegun'
  BY <1>1, <1>7 DEF apiFetch, OutIsNotBegun, moves, hist
<1>8. ASSUME NEW c \in Calls, retry(c) PROVE OutIsNotBegun'
  BY <1>1, <1>8 DEF retry, OutIsNotBegun, moves, hist
<1>9. ASSUME NEW t \in Tabs, refreshUser(t) PROVE OutIsNotBegun'
  BY <1>1, <1>9 DEF refreshUser, OutIsNotBegun, getCurrentUser, moves
<1>10. ASSUME NEW t \in Tabs, setUser(t) PROVE OutIsNotBegun'
  BY <1>1, <1>10 DEF setUser, OutIsNotBegun, moves, hist
<1>11. ASSUME NEW t \in Tabs, login_(t) PROVE OutIsNotBegun'
  BY <1>1, <1>11 DEF login_, OutIsNotBegun, moves, hist
<1>12. ASSUME NEW t \in Tabs, loggedIn(t) PROVE OutIsNotBegun'
  BY <1>1, <1>12 DEF loggedIn, OutIsNotBegun, getCurrentUser, moves
<1>13. ASSUME NEW t \in Tabs, loggedOut(t) PROVE OutIsNotBegun'
  BY <1>1, <1>13 DEF loggedOut, OutIsNotBegun, moves, hist
<1>14. CASE lapses
  BY <1>1, <1>14 DEF lapses, OutIsNotBegun, hist
<1>15. CASE hourPasses
  BY <1>1, <1>15 DEF hourPasses, OutIsNotBegun, hist
<1>16. ASSUME NEW s \in Sessions, revoke_session(s) PROVE OutIsNotBegun'
  BY <1>1, <1>16 DEF revoke_session, OutIsNotBegun, hist
<1>17. CASE UNCHANGED vars
  BY <1>1, <1>17 DEF vars, hist, OutIsNotBegun
<1>18. ASSUME NEW p \in Clients, invalidates(p) PROVE OutIsNotBegun'
  BY <1>1, <1>18 DEF invalidates, OutIsNotBegun, moves, hist
<1>19. ASSUME NEW t \in Tabs, lostReply(t) PROVE OutIsNotBegun'
  <2>1. SUFFICES ASSUME NEW u \in Tabs, at'[u] \in {"out", "outFailed"} PROVE ~began'[u]
    BY DEF OutIsNotBegun
  <2>2. at[u] \in {"out", "outFailed"} /\ began' = began
    BY <1>1, <1>19, <2>1 DEF lostReply, TypeOK, Clients, moves, hist
  <2>3. QED
    BY <1>1, <2>2 DEF OutIsNotBegun
<1>20. QED
  BY <1>2, <1>3, <1>4, <1>5, <1>6, <1>7, <1>8, <1>9, <1>10, <1>11, <1>12, <1>13, <1>14,
     <1>15, <1>16, <1>17, <1>18, <1>19 DEF Next, Refresh, Load

\* The first commit of a rotation ends the session of the browser's own token, and
\* nobody is signing in or out.
LEMMA InvalidatesInside ==
    ASSUME Inv, blame = {}, NEW p \in Clients, invalidates(p)
    PROVE  /\ signed /\ tok[p] = jar.refresh /\ live \ {tok[p]} = {}
           /\ at' = [at EXCEPT ![p] = "ended"] /\ at[p] = "checked"
<1>1. FineNow /\ TypeOK /\ Alone /\ at[p] = "checked" /\ at' = [at EXCEPT ![p] = "ended"]
  BY DEF Inv, Fine, invalidates, moves
<1>2. \A q \in Clients : at[q] \in {"ended", "rotated", "login", "out"} => FALSE
  BY <1>1 DEF Alone, Exchanging
<1>3. tok[p] \in live /\ \A r \in live : r = tok[p]
  BY <1>1 DEF FineNow, TokensAreLive, OneSession
<1>4. signed
  BY <1>1, <1>2, <1>3 DEF FineNow, Gone, Clients
<1>5. jar.refresh \in live
  BY <1>1, <1>2, <1>4 DEF FineNow, Renewable
<1>6. QED
  BY <1>1, <1>3, <1>4, <1>5

\* A login comes when no session is active, a rotation replaces the only one.
LEMMA OneSessionStep ==
    ASSUME Inv, [Next]_vars, blame' = {}
    PROVE  OneSession'
<1>1. blame = {} /\ FineNow /\ TypeOK /\ Alone /\ EndedIsGone /\ OutIsNotBegun
  BY BlameStays DEF Inv, Fine
<1>2. CASE \/ \E p \in Clients : refresh_tokens(p) \/ set_auth_cookies(p) \/ expired(p)
           \/ \E c \in Calls : apiFetch(c) \/ retry(c)
           \/ \E t \in Tabs : refreshUser(t) \/ setUser(t) \/ getAgain(t) \/ loggedIn(t)
                              \/ loggedOut(t)
           \/ lapses \/ UNCHANGED vars
  BY <1>1, <1>2
     DEF refresh_tokens, set_auth_cookies, expired, apiFetch, retry, refreshUser, setUser,
         getAgain, loggedIn, loggedOut, lapses, OneSession, FineNow, server, vars
<1>3. ASSUME NEW p \in Clients, _create_session(p) PROVE OneSession'
  BY <1>1, <1>3
     DEF _create_session, OneSession, EndedIsIn, FineNow
<1>4. CASE \E p \in Clients : crash(p) \/ lose(p)
  BY <1>4 DEF crash, lose
<1>5. ASSUME NEW t \in Tabs, noAnswer(t) PROVE OneSession'
  BY <1>5 DEF noAnswer
<1>6. ASSUME NEW t \in Tabs, login_(t) PROVE OneSession'
  BY <1>1, <1>6
     DEF login_, TypeOK, OneSession, TokensAreLive, Clients, FineNow, opens, moves,
         server, hist
<1>7. ASSUME NEW t \in Tabs, logout(t) PROVE OneSession'
  BY <1>1, <1>7
     DEF logout, TypeOK, OneSession, TokensAreLive, Clients, FineNow, moves, server, hist
<1>8. CASE hourPasses
  BY <1>1, <1>8 DEF hourPasses, OneSession, FineNow, server
<1>9. ASSUME NEW s \in Sessions, revoke_session(s) PROVE OneSession'
  BY <1>9 DEF revoke_session
<1>10. ASSUME NEW t \in Tabs, lostReply(t) PROVE OneSession'
  BY <1>10 DEF lostReply
<1>11. ASSUME NEW p \in Clients, invalidates(p) PROVE OneSession'
  BY <1>1, <1>11 DEF invalidates, OneSession, FineNow
<1>12. QED
  BY <1>2, <1>3, <1>4, <1>5, <1>6, <1>7, <1>8, <1>9, <1>10, <1>11 DEF Next, Refresh,
     Load

\* A session on its way to the browser is active.
LEMMA TokensAreLiveStep ==
    ASSUME Inv, [Next]_vars, blame' = {}
    PROVE  TokensAreLive'
<1>1. blame = {} /\ FineNow /\ TypeOK /\ Alone /\ EndedIsGone /\ OutIsNotBegun
  BY BlameStays DEF Inv, Fine
<1>2. CASE \/ \E p \in Clients : refresh_tokens(p) \/ set_auth_cookies(p) \/ expired(p)
           \/ \E c \in Calls : apiFetch(c) \/ retry(c)
           \/ \E t \in Tabs : refreshUser(t) \/ setUser(t) \/ getAgain(t) \/ login_(t)
                              \/ loggedIn(t) \/ loggedOut(t)
           \/ lapses \/ UNCHANGED vars
  BY <1>1, <1>2
     DEF refresh_tokens, set_auth_cookies, expired, apiFetch, retry, refreshUser, setUser,
         getAgain, login_, loggedIn, loggedOut, lapses, TokensAreLive, FineNow, TypeOK,
         moves, server, givesUp, getCurrentUser, vars
<1>3. ASSUME NEW p \in Clients, _create_session(p) PROVE TokensAreLive'
  BY <1>1, <1>3 DEF _create_session, TypeOK, TokensAreLive, Alone, Exchanging, moves
<1>4. CASE \/ \E p \in Clients : crash(p) \/ lose(p)
           \/ \E t \in Tabs : noAnswer(t) \/ lostReply(t)
           \/ \E s \in Sessions : revoke_session(s)
  BY <1>4 DEF crash, lose, noAnswer, lostReply, revoke_session
<1>5. ASSUME NEW t \in Tabs, logout(t) PROVE TokensAreLive'
  BY <1>1, <1>5 DEF logout, TypeOK, TokensAreLive, Busy, moves
<1>6. ASSUME NEW p \in Clients, invalidates(p) PROVE TokensAreLive'
  BY <1>1, <1>6 DEF invalidates, TypeOK, TokensAreLive, Alone, Exchanging, FineNow, moves
<1>7. CASE hourPasses
  BY <1>1, <1>7 DEF hourPasses, TokensAreLive, FineNow, server
<1>8. QED
  BY <1>2, <1>3, <1>4, <1>5, <1>6, <1>7 DEF Next, Refresh, Load

\* The token of the browser is of the active session.
LEMMA RenewableStep ==
    ASSUME Inv, [Next]_vars, blame' = {}
    PROVE  Renewable'
<1>1. blame = {} /\ FineNow /\ TypeOK /\ Alone /\ EndedIsGone /\ OutIsNotBegun
  BY BlameStays DEF Inv, Fine
<1>2. ASSUME NEW p \in Clients, refresh_tokens(p) PROVE Renewable'
  BY <1>1, <1>2 DEF refresh_tokens, TypeOK, Renewable, FineNow, moves, server, hist
<1>3. ASSUME NEW p \in Clients, _create_session(p) PROVE Renewable'
  BY <1>1, <1>3 DEF _create_session, TypeOK, Renewable, moves
<1>4. CASE \/ \E p \in Clients : crash(p) \/ lose(p)
           \/ \E t \in Tabs : noAnswer(t) \/ lostReply(t)
           \/ \E s \in Sessions : revoke_session(s)
  BY <1>4 DEF crash, lose, noAnswer, lostReply, revoke_session
<1>5. ASSUME NEW p \in Clients, set_auth_cookies(p) PROVE Renewable'
  BY <1>1, <1>5 DEF set_auth_cookies, Renewable, TokensAreLive, FineNow, Issued, server
<1>6. ASSUME NEW p \in Clients, expired(p) PROVE Renewable'
  BY <1>1, <1>6 DEF expired, TypeOK, Renewable, FineNow, givesUp, moves, server, hist
<1>7. ASSUME NEW c \in Calls, apiFetch(c) PROVE Renewable'
  BY <1>1, <1>7 DEF apiFetch, Renewable, FineNow, moves, server, hist
<1>8. ASSUME NEW c \in Calls, retry(c) PROVE Renewable'
  BY <1>1, <1>8 DEF retry, Renewable, FineNow, moves, server, hist
<1>9. ASSUME NEW t \in Tabs, refreshUser(t) PROVE Renewable'
  BY <1>1, <1>9 DEF refreshUser, Renewable, FineNow, moves, server
<1>10. ASSUME NEW t \in Tabs, setUser(t) PROVE Renewable'
  BY <1>1, <1>10 DEF setUser, Renewable, FineNow, moves, server, hist
<1>11. ASSUME NEW t \in Tabs, getAgain(t) PROVE Renewable'
  BY <1>1, <1>11 DEF getAgain, TypeOK, Renewable, FineNow, givesUp, moves, server, hist
<1>12. ASSUME NEW t \in Tabs, login_(t) PROVE Renewable'
  <2>1. live = {} /\ signed' = signed /\ \A q \in Clients : at[q] = "idle"
    BY <1>12 DEF login_, Busy, hist
  <2>2. ~signed
    BY <1>1, <2>1 DEF FineNow, Renewable
  <2>3. QED
    BY <2>1, <2>2 DEF Renewable
<1>13. ASSUME NEW t \in Tabs, loggedIn(t) PROVE Renewable'
  <2>1. t \in Clients /\ at[t] = "login" /\ jar'.refresh = tok[t] /\ live' = live
    BY <1>13 DEF loggedIn, Issued, Clients, server
  <2>2. tok[t] \in live
    BY <1>1, <2>1 DEF FineNow, TokensAreLive
  <2>3. QED
    BY <2>1, <2>2 DEF Renewable
<1>14. ASSUME NEW t \in Tabs, logout(t) PROVE Renewable'
  BY <1>14 DEF logout, Renewable
<1>15. ASSUME NEW t \in Tabs, loggedOut(t) PROVE Renewable'
  BY <1>1, <1>15 DEF loggedOut, Renewable, OutIsOut, FineNow, moves, server, hist
<1>16. CASE lapses
  BY <1>1, <1>16 DEF lapses, Renewable, FineNow, server, hist
<1>17. CASE UNCHANGED vars
  BY <1>1, <1>17 DEF vars, server, hist, Renewable, FineNow
<1>18. CASE hourPasses
  BY <1>1, <1>18 DEF hourPasses, Renewable, FineNow, server, hist
<1>19. ASSUME NEW p \in Clients, invalidates(p) PROVE Renewable'
  BY <1>1, <1>19, InvalidatesInside DEF invalidates, TypeOK, Renewable, moves, hist
<1>20. QED
  BY <1>2, <1>3, <1>4, <1>5, <1>6, <1>7, <1>8, <1>9, <1>10, <1>11, <1>12, <1>13, <1>14,
     <1>15, <1>16, <1>17, <1>18, <1>19 DEF Next, Refresh, Load

\* Both cookies are of one session.
LEMMA SameTokensStep ==
    ASSUME Inv, [Next]_vars, blame' = {}
    PROVE  SameTokens'
<1>1. blame = {} /\ FineNow /\ TypeOK /\ Alone /\ EndedIsGone /\ OutIsNotBegun
  BY BlameStays DEF Inv, Fine
<1>2. CASE \/ \E p \in Clients : refresh_tokens(p) \/ _create_session(p) \/ expired(p)
           \/ \E c \in Calls : apiFetch(c) \/ retry(c)
           \/ \E t \in Tabs : refreshUser(t) \/ setUser(t) \/ getAgain(t) \/ login_(t)
                              \/ logout(t) \/ loggedOut(t)
           \/ lapses \/ UNCHANGED vars
  BY <1>1, <1>2
     DEF refresh_tokens, _create_session, expired, apiFetch, retry, refreshUser, setUser,
         getAgain, login_, logout, loggedOut, lapses, SameTokens, FineNow, TypeOK,
         givesUp, NoCookies, vars
<1>3. CASE \/ \E p \in Clients : crash(p) \/ lose(p)
           \/ \E t \in Tabs : noAnswer(t) \/ lostReply(t)
           \/ \E s \in Sessions : revoke_session(s)
  BY <1>3 DEF crash, lose, noAnswer, lostReply, revoke_session
<1>4. ASSUME NEW p \in Clients, set_auth_cookies(p) PROVE SameTokens'
  BY <1>4 DEF set_auth_cookies, SameTokens, Issued
<1>5. ASSUME NEW t \in Tabs, loggedIn(t) PROVE SameTokens'
  BY <1>5 DEF loggedIn, SameTokens, Issued
<1>6. CASE hourPasses
  BY <1>1, <1>6 DEF hourPasses, SameTokens
<1>7. ASSUME NEW p \in Clients, invalidates(p) PROVE SameTokens'
  BY <1>1, <1>7 DEF invalidates, SameTokens, FineNow
<1>8. QED
  BY <1>2, <1>3, <1>4, <1>5, <1>6, <1>7 DEF Next, Refresh, Load

\* Signed out, nothing is left.
LEMMA GoneStep ==
    ASSUME Inv, [Next]_vars, blame' = {}
    PROVE  Gone'
<1>1. blame = {} /\ FineNow /\ TypeOK /\ Alone /\ EndedIsGone /\ OutIsNotBegun
  BY BlameStays DEF Inv, Fine
<1>2. CASE \/ \E p \in Clients : refresh_tokens(p) \/ expired(p)
           \/ \E t \in Tabs : getAgain(t)
  BY <1>1, <1>2
     DEF refresh_tokens, expired, getAgain, Gone, Clients, FineNow, TypeOK, moves, server,
         hist, NoCookies, givesUp
<1>3. ASSUME NEW p \in Clients, _create_session(p) PROVE Gone'
  BY <1>1, <1>3 DEF _create_session, Gone, EndedIsIn, FineNow, hist
<1>4. CASE \/ \E p \in Clients : crash(p) \/ lose(p)
           \/ \E t \in Tabs : noAnswer(t) \/ lostReply(t)
           \/ \E s \in Sessions : revoke_session(s)
  BY <1>4 DEF crash, lose, noAnswer, lostReply, revoke_session
<1>5. ASSUME NEW p \in Clients, set_auth_cookies(p) PROVE Gone'
  BY <1>1, <1>5 DEF set_auth_cookies, Gone, TokensAreLive, FineNow, moves, hist
<1>6. ASSUME NEW c \in Calls, apiFetch(c) PROVE Gone'
  BY <1>1, <1>6 DEF apiFetch, Gone, FineNow, moves, server, hist
<1>7. ASSUME NEW c \in Calls, retry(c) PROVE Gone'
  BY <1>1, <1>7 DEF retry, Gone, FineNow, moves, server, hist
<1>8. ASSUME NEW t \in Tabs, refreshUser(t) PROVE Gone'
  BY <1>1, <1>8 DEF refreshUser, Gone, FineNow, moves, server
<1>9. ASSUME NEW t \in Tabs, setUser(t) PROVE Gone'
  BY <1>1, <1>9 DEF setUser, Gone, FineNow, moves, server, hist
<1>10. ASSUME NEW t \in Tabs, login_(t) PROVE Gone'
  BY <1>1, <1>10 DEF login_, TypeOK, Gone, Clients, moves
<1>11. ASSUME NEW t \in Tabs, loggedIn(t) PROVE Gone'
  BY <1>11 DEF loggedIn, Gone
<1>12. ASSUME NEW t \in Tabs, logout(t) PROVE Gone'
  BY <1>1, <1>12 DEF logout, TypeOK, Gone, Clients, moves
<1>13. ASSUME NEW t \in Tabs, loggedOut(t) PROVE Gone'
  BY <1>1, <1>13 DEF loggedOut, Gone, OutIsOut, NoFailedLogout, FineNow, server
<1>14. CASE lapses \/ UNCHANGED vars
  BY <1>1, <1>14 DEF lapses, Gone, FineNow, NoCookies, hist, vars, server
<1>15. CASE hourPasses
  BY <1>1, <1>15 DEF hourPasses, Gone, NoCookies, FineNow, server, hist
<1>16. ASSUME NEW p \in Clients, invalidates(p) PROVE Gone'
  BY <1>1, <1>16, InvalidatesInside DEF invalidates, Gone, hist
<1>17. QED
  BY <1>2, <1>3, <1>4, <1>5, <1>6, <1>7, <1>8, <1>9, <1>10, <1>11, <1>12, <1>13, <1>14,
     <1>15, <1>16 DEF Next, Refresh, Load

\* A logout ends the only session there is.
LEMMA OutIsOutStep ==
    ASSUME Inv, [Next]_vars, blame' = {}
    PROVE  OutIsOut'
<1>1. blame = {} /\ FineNow /\ TypeOK /\ Alone /\ EndedIsGone /\ OutIsNotBegun
  BY BlameStays DEF Inv, Fine
<1>2. CASE \/ \E p \in Clients : refresh_tokens(p) \/ expired(p)
           \/ \E t \in Tabs : getAgain(t)
  BY <1>1, <1>2
     DEF refresh_tokens, expired, getAgain, OutIsOut, Clients, FineNow, TypeOK, moves,
         server, hist, givesUp
<1>3. ASSUME NEW p \in Clients, _create_session(p) PROVE OutIsOut'
  BY <1>1, <1>3 DEF _create_session, OutIsOut, Alone, Exchanging, Clients, moves
<1>4. ASSUME NEW p \in Clients, crash(p) PROVE OutIsOut'
  BY <1>4 DEF crash
<1>5. ASSUME NEW p \in Clients, set_auth_cookies(p) PROVE OutIsOut'
  BY <1>1, <1>5 DEF set_auth_cookies, OutIsOut, Alone, Exchanging, Clients, moves
<1>6. ASSUME NEW p \in Clients, lose(p) PROVE OutIsOut'
  BY <1>6 DEF lose
<1>7. ASSUME NEW c \in Calls, apiFetch(c) PROVE OutIsOut'
  BY <1>1, <1>7 DEF apiFetch, OutIsOut, FineNow, moves, server, hist
<1>8. ASSUME NEW c \in Calls, retry(c) PROVE OutIsOut'
  BY <1>1, <1>8 DEF retry, OutIsOut, FineNow, moves, server, hist
<1>9. ASSUME NEW t \in Tabs, refreshUser(t) PROVE OutIsOut'
  BY <1>1, <1>9 DEF refreshUser, OutIsOut, FineNow, getCurrentUser, moves, server
<1>10. ASSUME NEW t \in Tabs, setUser(t) PROVE OutIsOut'
  BY <1>1, <1>10 DEF setUser, OutIsOut, FineNow, moves, server, hist
<1>11. ASSUME NEW t \in Tabs, noAnswer(t) PROVE OutIsOut'
  BY <1>11 DEF noAnswer
<1>12. ASSUME NEW t \in Tabs, login_(t) PROVE OutIsOut'
  BY <1>12 DEF login_, OutIsOut, Busy, Clients, moves
<1>13. ASSUME NEW t \in Tabs, loggedIn(t) PROVE OutIsOut'
  BY <1>1, <1>13 DEF loggedIn, OutIsOut, Alone, Exchanging, Clients, getCurrentUser, moves
<1>14. ASSUME NEW t \in Tabs, logout(t) PROVE OutIsOut'
  <2>1. accepted /\ live' = live \ {jar.access} /\ Busy = {} /\ signed' = FALSE /\ at' = [at EXCEPT ![t] = "out"]
    BY <1>14 DEF logout, moves
  <2>2. \A p \in Clients : at[p] = "idle"
    BY <2>1 DEF Busy
  <2>3. live' = {}
    <3>1. CASE signed
      <4>1. jar.refresh \in live
        BY <1>1, <2>2, <3>1 DEF FineNow, Renewable
      <4>2. jar.access = jar.refresh
        BY <1>1, <2>1 DEF FineNow, SameTokens, accepted
      <4>3. QED
        BY <1>1, <2>1, <4>1, <4>2 DEF FineNow, OneSession
    <3>2. CASE ~signed
      BY <1>1, <2>1, <2>2, <3>2 DEF FineNow, Gone, Clients
    <3>3. QED
      BY <3>1, <3>2
  <2>4. QED
    BY <1>1, <2>1, <2>2, <2>3 DEF OutIsOut, TypeOK, Clients
<1>15. ASSUME NEW t \in Tabs, loggedOut(t) PROVE OutIsOut'
  BY <1>1, <1>15 DEF loggedOut, OutIsOut, FineNow, moves, server, hist
<1>16. CASE lapses \/ UNCHANGED vars
  BY <1>1, <1>16 DEF lapses, OutIsOut, FineNow, server, hist, vars
<1>17. CASE hourPasses
  BY <1>1, <1>17 DEF hourPasses, OutIsOut, FineNow, server, hist
<1>18. ASSUME NEW s \in Sessions, revoke_session(s) PROVE OutIsOut'
  BY <1>18 DEF revoke_session
<1>19. ASSUME NEW t \in Tabs, lostReply(t) PROVE OutIsOut'
  BY <1>19 DEF lostReply
<1>20. ASSUME NEW p \in Clients, invalidates(p) PROVE OutIsOut'
  BY <1>1, <1>20 DEF invalidates, OutIsOut, FineNow, moves, hist
<1>21. QED
  BY <1>2, <1>3, <1>4, <1>5, <1>6, <1>7, <1>8, <1>9, <1>10, <1>11, <1>12, <1>13, <1>14,
     <1>15, <1>16, <1>17, <1>18, <1>19, <1>20 DEF Next, Refresh, Load

\* A logout that ends nothing has gone wrong.
LEMMA NoFailedLogoutStep ==
    ASSUME Inv, [Next]_vars, blame' = {}
    PROVE  NoFailedLogout'
<1>1. blame = {} /\ FineNow /\ TypeOK /\ Alone /\ EndedIsGone /\ OutIsNotBegun
  BY BlameStays DEF Inv, Fine
<1>2. CASE \/ \E p \in Clients : refresh_tokens(p) \/ expired(p)
           \/ \E t \in Tabs : getAgain(t) \/ logout(t)
  BY <1>1, <1>2
     DEF refresh_tokens, expired, getAgain, logout, NoFailedLogout, Clients, FineNow,
         TypeOK, moves, givesUp
<1>3. ASSUME NEW p \in Clients, _create_session(p) PROVE NoFailedLogout'
  BY <1>1, <1>3 DEF _create_session, NoFailedLogout, FineNow, moves
<1>4. ASSUME NEW p \in Clients, crash(p) PROVE NoFailedLogout'
  BY <1>4 DEF crash
<1>5. ASSUME NEW p \in Clients, set_auth_cookies(p) PROVE NoFailedLogout'
  BY <1>1, <1>5 DEF set_auth_cookies, NoFailedLogout, FineNow, moves
<1>6. ASSUME NEW p \in Clients, lose(p) PROVE NoFailedLogout'
  BY <1>6 DEF lose
<1>7. ASSUME NEW c \in Calls, apiFetch(c) PROVE NoFailedLogout'
  BY <1>1, <1>7 DEF apiFetch, NoFailedLogout, FineNow, moves
<1>8. ASSUME NEW c \in Calls, retry(c) PROVE NoFailedLogout'
  BY <1>1, <1>8 DEF retry, NoFailedLogout, FineNow, moves
<1>9. ASSUME NEW t \in Tabs, refreshUser(t) PROVE NoFailedLogout'
  BY <1>1, <1>9 DEF refreshUser, NoFailedLogout, FineNow, getCurrentUser, moves
<1>10. ASSUME NEW t \in Tabs, setUser(t) PROVE NoFailedLogout'
  BY <1>1, <1>10 DEF setUser, NoFailedLogout, FineNow, moves
<1>11. ASSUME NEW t \in Tabs, noAnswer(t) PROVE NoFailedLogout'
  BY <1>11 DEF noAnswer
<1>12. ASSUME NEW t \in Tabs, login_(t) PROVE NoFailedLogout'
  BY <1>1, <1>12 DEF login_, NoFailedLogout, FineNow, moves
<1>13. ASSUME NEW t \in Tabs, loggedIn(t) PROVE NoFailedLogout'
  BY <1>1, <1>13 DEF loggedIn, NoFailedLogout, FineNow, getCurrentUser, moves
<1>14. ASSUME NEW t \in Tabs, loggedOut(t) PROVE NoFailedLogout'
  BY <1>1, <1>14 DEF loggedOut, NoFailedLogout, FineNow, moves
<1>15. CASE lapses
  BY <1>1, <1>15 DEF lapses, NoFailedLogout, FineNow
<1>16. CASE hourPasses
  BY <1>1, <1>16 DEF hourPasses, NoFailedLogout, FineNow
<1>17. ASSUME NEW s \in Sessions, revoke_session(s) PROVE NoFailedLogout'
  BY <1>17 DEF revoke_session
<1>18. CASE UNCHANGED vars
  BY <1>1, <1>18 DEF vars, NoFailedLogout, FineNow
<1>19. ASSUME NEW t \in Tabs, lostReply(t) PROVE NoFailedLogout'
  BY <1>19 DEF lostReply
<1>20. ASSUME NEW p \in Clients, invalidates(p) PROVE NoFailedLogout'
  BY <1>1, <1>20 DEF invalidates, NoFailedLogout, FineNow, moves
<1>21. QED
  BY <1>2, <1>3, <1>4, <1>5, <1>6, <1>7, <1>8, <1>9, <1>10, <1>11, <1>12, <1>13, <1>14,
     <1>15, <1>16, <1>17, <1>18, <1>19, <1>20 DEF Next, Refresh, Load

\* A call made again has the new access token.
LEMMA AgainIsAcceptedStep ==
    ASSUME Inv, [Next]_vars, blame' = {}
    PROVE  AgainIsAccepted'
<1>1. blame = {} /\ FineNow /\ TypeOK /\ Alone /\ EndedIsGone /\ OutIsNotBegun
  BY BlameStays DEF Inv, Fine
<1>2. CASE \/ \E p \in Clients : refresh_tokens(p) \/ _create_session(p) \/ expired(p)
           \/ \E c \in Calls : retry(c)
           \/ \E t \in Tabs : refreshUser(t) \/ setUser(t) \/ login_(t)
           \/ UNCHANGED vars
  BY <1>1, <1>2
     DEF refresh_tokens, _create_session, expired, retry, refreshUser, setUser, login_,
         AgainIsAccepted, accepted, FineNow, TypeOK, moves, givesUp, getCurrentUser, vars
<1>3. CASE \/ \E p \in Clients : crash(p) \/ lose(p)
           \/ \E t \in Tabs : noAnswer(t) \/ lostReply(t)
           \/ \E s \in Sessions : revoke_session(s)
  BY <1>3 DEF crash, lose, noAnswer, lostReply, revoke_session
<1>4. ASSUME NEW p \in Clients, set_auth_cookies(p) PROVE AgainIsAccepted'
  BY <1>1, <1>4 DEF set_auth_cookies, TypeOK, AgainIsAccepted, accepted, Issued
<1>5. ASSUME NEW c \in Calls, apiFetch(c) PROVE AgainIsAccepted'
  BY <1>1, <1>5 DEF apiFetch, AgainIsAccepted, FineNow, moves
<1>6. ASSUME NEW t \in Tabs, getAgain(t) PROVE AgainIsAccepted'
  BY <1>1, <1>6 DEF getAgain, AgainIsAccepted, accepted, Clients, FineNow
<1>7. ASSUME NEW t \in Tabs, loggedIn(t) PROVE AgainIsAccepted'
  BY <1>1, <1>7 DEF loggedIn, TypeOK, AgainIsAccepted, accepted, Clients, Issued
<1>8. ASSUME NEW t \in Tabs, logout(t) PROVE AgainIsAccepted'
  BY <1>8 DEF logout, AgainIsAccepted, accepted
<1>9. ASSUME NEW t \in Tabs, loggedOut(t) PROVE AgainIsAccepted'
  BY <1>1, <1>9 DEF loggedOut, AgainIsAccepted, OutIsOut, NoFailedLogout, FineNow, moves
<1>10. CASE lapses
  BY <1>10 DEF lapses, AgainIsAccepted
<1>11. ASSUME NEW p \in Clients, invalidates(p) PROVE AgainIsAccepted'
  BY <1>1, <1>11 DEF invalidates, AgainIsAccepted, accepted, FineNow, TypeOK, moves
<1>12. CASE hourPasses
  BY <1>1, <1>12 DEF hourPasses, AgainIsAccepted
<1>13. QED
  BY <1>2, <1>3, <1>4, <1>5, <1>6, <1>7, <1>8, <1>9, <1>10, <1>11, <1>12 DEF Next,
     Refresh, Load

\* Only the refresh of a browser that signed out is denied.
LEMMA DeniedIsOutStep ==
    ASSUME Inv, [Next]_vars, blame' = {}
    PROVE  DeniedIsOut'
<1>1. blame = {} /\ FineNow /\ TypeOK /\ Alone /\ EndedIsGone /\ OutIsNotBegun
  BY BlameStays DEF Inv, Fine
<1>2. ASSUME NEW p \in Clients, refresh_tokens(p) PROVE DeniedIsOut'
  <2>1. Exchanging = {} /\ signed' = signed
    BY <1>2 DEF refresh_tokens, hist
  <2>2. signed => jar.refresh \in live
    BY <1>1, <2>1 DEF FineNow, Renewable, Exchanging
  <2>3. CASE jar.refresh \in live
    <3>1. at' = [at EXCEPT ![p] = "checked"]
      BY <1>2, <2>3 DEF refresh_tokens, moves
    <3>2. QED
      BY <1>1, <2>1, <3>1 DEF TypeOK, DeniedIsOut, FineNow, Clients
  <2>4. CASE jar.refresh \notin live
    <3>1. at' = [at EXCEPT ![p] = "denied"]
      BY <1>2, <2>4 DEF refresh_tokens, moves
    <3>2. \A t \in Tabs : at'[t] # "login"
      BY <1>1, <2>1, <3>1 DEF TypeOK, Exchanging, Clients
    <3>3. QED
      BY <2>1, <2>2, <2>4, <3>2 DEF DeniedIsOut
  <2>5. QED
    BY <2>3, <2>4
<1>3. ASSUME signed' = signed, NEW p \in Clients, NEW place \in Places \ {"denied", "login"},
             moves(p, place) \/ UNCHANGED at
      PROVE  DeniedIsOut'
  BY <1>1, <1>3 DEF TypeOK, DeniedIsOut, FineNow, Clients, moves
<1>4. ASSUME NEW p \in Clients,
             \/ invalidates(p) \/ _create_session(p) \/ set_auth_cookies(p) \/ expired(p)
             \/ apiFetch(p) \/ retry(p)
      PROVE  DeniedIsOut'
  <2>1. \E place \in Places \ {"denied", "login"} : moves(p, place)
    BY <1>4
       DEF invalidates, _create_session, set_auth_cookies, expired, apiFetch, retry, givesUp,
           Places
  <2>2. signed' = signed
    BY <1>4
       DEF invalidates, _create_session, set_auth_cookies, expired, apiFetch, retry, hist
  <2>3. QED
    BY <1>3, <2>1, <2>2
<1>5. ASSUME NEW t \in Tabs, refreshUser(t) \/ setUser(t) \/ getAgain(t) \/ loggedOut(t)
      PROVE  DeniedIsOut'
  <2>1. t \in Clients /\ \E place \in Places \ {"denied", "login"} : moves(t, place)
    BY <1>5
       DEF refreshUser, setUser, getAgain, loggedOut, getCurrentUser, givesUp, Places, Clients
  <2>2. signed' = signed
    BY <1>5 DEF refreshUser, setUser, getAgain, loggedOut, hist
  <2>3. QED
    BY <1>3, <2>1, <2>2
<1>6. CASE \/ \E p \in Clients : crash(p) \/ lose(p)
           \/ \E t \in Tabs : noAnswer(t) \/ lostReply(t)
           \/ \E s \in Sessions : revoke_session(s)
  BY <1>6 DEF crash, lose, noAnswer, lostReply, revoke_session
<1>7. ASSUME NEW t \in Tabs, login_(t) \/ logout(t) PROVE DeniedIsOut'
  <2>1. \A p \in Clients : at[p] # "denied"
    BY <1>1, <1>7 DEF login_, logout, Busy
  <2>2. \E place \in {"login", "out", "outFailed"} : at' = [at EXCEPT ![t] = place]
    BY <1>7 DEF login_, logout, moves
  <2>3. QED
    BY <1>1, <2>1, <2>2 DEF DeniedIsOut, TypeOK
<1>8. ASSUME NEW t \in Tabs, loggedIn(t) PROVE DeniedIsOut'
  <2>1. \A p \in Clients : at[p] # "denied"
    BY <1>1, <1>8 DEF loggedIn, FineNow, DeniedIsOut
  <2>2. \E place \in {"idle", "me", "refused"} : at' = [at EXCEPT ![t] = place]
    BY <1>8 DEF loggedIn, getCurrentUser, moves
  <2>3. QED
    BY <1>1, <2>1, <2>2 DEF DeniedIsOut, TypeOK
<1>9. CASE lapses \/ hourPasses \/ UNCHANGED vars
  BY <1>1, <1>9 DEF lapses, hourPasses, DeniedIsOut, FineNow, hist, vars
<1>10. QED
  BY <1>2, <1>4, <1>5, <1>6, <1>7, <1>8, <1>9 DEF Next, Refresh, Load, Clients

\* Between the two commits nothing is active, the browser shows the token that is
\* exchanged, and nobody signs in or out.
LEMMA EndedIsInStep ==
    ASSUME Inv, [Next]_vars, blame' = {}
    PROVE  EndedIsIn'
<1>1. blame = {} /\ FineNow /\ TypeOK /\ Alone /\ EndedIsGone /\ OutIsNotBegun
  BY BlameStays DEF Inv, Fine
<1>2. ASSUME NEW p \in Clients, invalidates(p) PROVE EndedIsIn'
  <2>1. /\ signed /\ tok[p] = jar.refresh /\ live \ {tok[p]} = {}
        /\ at' = [at EXCEPT ![p] = "ended"] /\ at[p] = "checked"
    BY <1>1, <1>2, InvalidatesInside
  <2>2. \A q \in Clients : at'[q] = "ended" => q = p
    BY <1>1, <2>1 DEF TypeOK, Alone, Exchanging
  <2>3. QED
    BY <1>2, <2>1, <2>2 DEF invalidates, EndedIsIn, hist
<1>3. CASE \/ \E p \in Clients : crash(p) \/ lose(p)
           \/ \E t \in Tabs : noAnswer(t) \/ lostReply(t)
           \/ \E s \in Sessions : revoke_session(s)
  BY <1>3 DEF crash, lose, noAnswer, lostReply, revoke_session
<1>4. ASSUME NEW p \in Clients, refresh_tokens(p) PROVE EndedIsIn'
  <2>1. \A q \in Clients : at[q] # "ended"
    BY <1>1, <1>4 DEF refresh_tokens, Exchanging
  <2>2. at' = [at EXCEPT ![p] = "checked"] \/ at' = [at EXCEPT ![p] = "denied"]
    BY <1>4 DEF refresh_tokens, moves
  <2>3. QED
    BY <1>1, <2>1, <2>2 DEF EndedIsIn, TypeOK
<1>5. ASSUME NEW p \in Clients, _create_session(p) \/ set_auth_cookies(p)
      PROVE  EndedIsIn'
  <2>1. p \in Exchanging
    BY <1>5 DEF _create_session, set_auth_cookies, Exchanging
  <2>2. \A q \in Clients : q # p => at[q] # "ended"
    BY <1>1, <2>1 DEF Alone, Exchanging
  <2>3. \E place \in {"rotated", "again"} : at' = [at EXCEPT ![p] = place]
    BY <1>5 DEF _create_session, set_auth_cookies, moves
  <2>4. QED
    BY <1>1, <2>2, <2>3 DEF EndedIsIn, TypeOK
<1>6. CASE \/ \E p \in Clients : expired(p)
           \/ \E c \in Calls : apiFetch(c) \/ retry(c)
           \/ \E t \in Tabs : refreshUser(t) \/ setUser(t) \/ getAgain(t)
           \/ lapses \/ hourPasses \/ UNCHANGED vars
  <2>1. /\ signed' = signed /\ live' = live /\ tok' = tok
        /\ \/ jar' = jar \/ jar' = [jar EXCEPT !.flag = FALSE]
           \/ jar' = [jar EXCEPT !.fresh = FALSE]
           \/ jar' = [jar EXCEPT !.access = 0, !.fresh = FALSE, !.flag = FALSE]
    BY <1>6
       DEF expired, apiFetch, retry, refreshUser, setUser, getAgain, givesUp, lapses,
           hourPasses, server, hist, vars
  <2>2. jar'.refresh = jar.refresh
    BY <1>1, <2>1 DEF TypeOK
  <2>3. \/ at' = at
        \/ \E q \in Clients, place \in Places \ {"ended"} : at' = [at EXCEPT ![q] = place]
    BY <1>6
       DEF expired, apiFetch, retry, refreshUser, setUser, getAgain, getCurrentUser, givesUp,
           lapses, hourPasses, Clients, Places, moves, vars
  <2>4. \A q \in Clients : at'[q] = "ended" => at[q] = "ended"
    BY <1>1, <2>3 DEF TypeOK
  <2>5. QED
    BY <1>1, <2>1, <2>2, <2>4 DEF EndedIsIn, FineNow
<1>7. ASSUME NEW t \in Tabs, login_(t) \/ logout(t) PROVE EndedIsIn'
  <2>1. \A q \in Clients : at[q] # "ended"
    BY <1>1, <1>7 DEF login_, logout, Busy
  <2>2. \E place \in {"login", "out", "outFailed"} : at' = [at EXCEPT ![t] = place]
    BY <1>7 DEF login_, logout, moves
  <2>3. QED
    BY <1>1, <2>1, <2>2 DEF EndedIsIn, TypeOK
<1>8. ASSUME NEW t \in Tabs, loggedIn(t) \/ loggedOut(t) PROVE EndedIsIn'
  <2>1. t \in Exchanging
    BY <1>1, <1>8 DEF loggedIn, loggedOut, Exchanging, NoFailedLogout, FineNow, Clients
  <2>2. \A q \in Clients : q # t => at[q] # "ended"
    BY <1>1, <2>1 DEF Alone, Exchanging
  <2>3. \E place \in {"idle", "me", "refused"} : at' = [at EXCEPT ![t] = place]
    BY <1>8 DEF loggedIn, loggedOut, getCurrentUser, moves
  <2>4. QED
    BY <1>1, <2>2, <2>3 DEF EndedIsIn, TypeOK
<1>9. QED
  BY <1>2, <1>3, <1>4, <1>5, <1>6, <1>7, <1>8 DEF Next, Refresh, Load

\* A logout waits for the loads of the tabs, or that is an overlap.
LEMMA LoadsAreSignedStep ==
    ASSUME Inv, [Next]_vars, blame' = {}
    PROVE  LoadsAreSigned'
<1>1. blame = {} /\ FineNow /\ TypeOK /\ Alone /\ EndedIsGone /\ OutIsNotBegun
  BY BlameStays DEF Inv, Fine
<1>2. CASE \/ \E p \in Clients : refresh_tokens(p) \/ expired(p)
           \/ \E t \in Tabs : getAgain(t)
  BY <1>1, <1>2
     DEF refresh_tokens, expired, getAgain, LoadsAreSigned, Clients, FineNow, TypeOK,
         moves, hist, givesUp
<1>3. ASSUME NEW p \in Clients, _create_session(p) PROVE LoadsAreSigned'
  BY <1>1, <1>3 DEF _create_session, LoadsAreSigned, FineNow, moves, hist
<1>4. ASSUME NEW p \in Clients, crash(p) PROVE LoadsAreSigned'
  BY <1>4 DEF crash
<1>5. ASSUME NEW p \in Clients, set_auth_cookies(p) PROVE LoadsAreSigned'
  BY <1>1, <1>5 DEF set_auth_cookies, LoadsAreSigned, FineNow, moves, hist
<1>6. ASSUME NEW p \in Clients, lose(p) PROVE LoadsAreSigned'
  BY <1>6 DEF lose
<1>7. ASSUME NEW c \in Calls, apiFetch(c) PROVE LoadsAreSigned'
  BY <1>1, <1>7 DEF apiFetch, LoadsAreSigned, FineNow, moves, hist
<1>8. ASSUME NEW c \in Calls, retry(c) PROVE LoadsAreSigned'
  BY <1>1, <1>8 DEF retry, LoadsAreSigned, FineNow, moves, hist
<1>9. ASSUME NEW t \in Tabs, refreshUser(t) PROVE LoadsAreSigned'
  BY <1>1, <1>9 DEF refreshUser, TypeOK, LoadsAreSigned, FineNow, moves
<1>10. ASSUME NEW t \in Tabs, setUser(t) PROVE LoadsAreSigned'
  BY <1>1, <1>10 DEF setUser, LoadsAreSigned, FineNow, moves, hist
<1>11. ASSUME NEW t \in Tabs, noAnswer(t) PROVE LoadsAreSigned'
  BY <1>11 DEF noAnswer
<1>12. ASSUME NEW t \in Tabs, login_(t) PROVE LoadsAreSigned'
  BY <1>1, <1>12 DEF login_, LoadsAreSigned, HasUser, FineNow, moves, hist
<1>13. ASSUME NEW t \in Tabs, loggedIn(t) PROVE LoadsAreSigned'
  BY <1>13 DEF loggedIn, LoadsAreSigned
<1>14. ASSUME NEW t \in Tabs, logout(t) PROVE LoadsAreSigned'
  BY <1>1, <1>14 DEF logout, TypeOK, LoadsAreSigned, Busy, Clients, moves
<1>15. ASSUME NEW t \in Tabs, loggedOut(t) PROVE LoadsAreSigned'
  BY <1>1, <1>15 DEF loggedOut, LoadsAreSigned, FineNow, moves, hist
<1>16. CASE lapses \/ UNCHANGED vars
  BY <1>1, <1>16 DEF lapses, LoadsAreSigned, FineNow, hist, vars
<1>17. CASE hourPasses
  BY <1>1, <1>17 DEF hourPasses, LoadsAreSigned, FineNow, hist
<1>18. ASSUME NEW s \in Sessions, revoke_session(s) PROVE LoadsAreSigned'
  BY <1>18 DEF revoke_session
<1>19. ASSUME NEW t \in Tabs, lostReply(t) PROVE LoadsAreSigned'
  BY <1>19 DEF lostReply
<1>20. ASSUME NEW p \in Clients, invalidates(p) PROVE LoadsAreSigned'
  BY <1>1, <1>20 DEF invalidates, LoadsAreSigned, FineNow, moves, hist
<1>21. QED
  BY <1>2, <1>3, <1>4, <1>5, <1>6, <1>7, <1>8, <1>9, <1>10, <1>11, <1>12, <1>13, <1>14,
     <1>15, <1>16, <1>17, <1>18, <1>19, <1>20 DEF Next, Refresh, Load

\* A load that was begun signed in ends with a user.
LEMMA HasUserStep ==
    ASSUME Inv, [Next]_vars, blame' = {}
    PROVE  HasUser'
<1>1. blame = {} /\ FineNow /\ TypeOK /\ Alone /\ EndedIsGone /\ OutIsNotBegun
  BY BlameStays DEF Inv, Fine
<1>2. ASSUME NEW p \in Clients, refresh_tokens(p) PROVE HasUser'
  BY <1>1, <1>2 DEF refresh_tokens, TypeOK, HasUser, Clients, FineNow, moves, hist
<1>3. ASSUME NEW p \in Clients, _create_session(p) PROVE HasUser'
  BY <1>1, <1>3 DEF _create_session, HasUser, FineNow, moves, hist
<1>4. ASSUME NEW p \in Clients, crash(p) PROVE HasUser'
  BY <1>4 DEF crash
<1>5. ASSUME NEW p \in Clients, set_auth_cookies(p) PROVE HasUser'
  BY <1>1, <1>5 DEF set_auth_cookies, HasUser, FineNow, moves, hist
<1>6. ASSUME NEW p \in Clients, lose(p) PROVE HasUser'
  BY <1>6 DEF lose
<1>7. ASSUME NEW p \in Clients, expired(p) PROVE HasUser'
  BY <1>1, <1>7
     DEF expired, TypeOK, HasUser, LoadsAreSigned, DeniedIsOut, FineNow, givesUp, hist
<1>8. ASSUME NEW c \in Calls, apiFetch(c) PROVE HasUser'
  BY <1>1, <1>8 DEF apiFetch, HasUser, FineNow, moves, hist
<1>9. ASSUME NEW c \in Calls, retry(c) PROVE HasUser'
  BY <1>1, <1>9 DEF retry, HasUser, FineNow, moves, hist
<1>10. ASSUME NEW t \in Tabs, refreshUser(t) PROVE HasUser'
  BY <1>1, <1>10
     DEF refreshUser, TypeOK, HasUser, Clients, FineNow, getCurrentUser, moves
<1>11. ASSUME NEW t \in Tabs, setUser(t) PROVE HasUser'
  BY <1>1, <1>11 DEF setUser, TypeOK, HasUser, FineNow, moves, hist
<1>12. ASSUME NEW t \in Tabs, noAnswer(t) PROVE HasUser'
  BY <1>12 DEF noAnswer
<1>13. ASSUME NEW t \in Tabs, getAgain(t) PROVE HasUser'
  BY <1>1, <1>13
     DEF getAgain, TypeOK, HasUser, AgainIsAccepted, Clients, FineNow, moves, hist
<1>14. ASSUME NEW t \in Tabs, login_(t) PROVE HasUser'
  BY <1>1, <1>14 DEF login_, HasUser, FineNow, moves, hist
<1>15. ASSUME NEW t \in Tabs, loggedIn(t) PROVE HasUser'
  BY <1>1, <1>15 DEF loggedIn, HasUser, FineNow, Issued, getCurrentUser, moves
<1>16. ASSUME NEW t \in Tabs, logout(t) PROVE HasUser'
  BY <1>1, <1>16 DEF logout, TypeOK, HasUser, Clients, FineNow, moves
<1>17. ASSUME NEW t \in Tabs, loggedOut(t) PROVE HasUser'
  BY <1>1, <1>17 DEF loggedOut, HasUser, OutIsNotBegun, FineNow, moves, hist
<1>18. CASE lapses \/ UNCHANGED vars
  BY <1>1, <1>18 DEF lapses, HasUser, FineNow, hist, vars
<1>19. CASE hourPasses
  BY <1>1, <1>19 DEF hourPasses, HasUser, FineNow, hist
<1>20. ASSUME NEW s \in Sessions, revoke_session(s) PROVE HasUser'
  BY <1>20 DEF revoke_session
<1>21. ASSUME NEW t \in Tabs, lostReply(t) PROVE HasUser'
  BY <1>21 DEF lostReply
<1>22. ASSUME NEW p \in Clients, invalidates(p) PROVE HasUser'
  BY <1>1, <1>22 DEF invalidates, HasUser, FineNow, moves, hist
<1>23. QED
  BY <1>2, <1>3, <1>4, <1>5, <1>6, <1>7, <1>8, <1>9, <1>10, <1>11, <1>12, <1>13, <1>14,
     <1>15, <1>16, <1>17, <1>18, <1>19, <1>20, <1>21, <1>22 DEF Next, Refresh, Load

LEMMA FineNext ==
    ASSUME Inv, [Next]_vars
    PROVE  Fine'
<1>1. SUFFICES ASSUME blame' = {} PROVE FineNow'
  BY DEF Fine
<1>2. (OneSession /\ TokensAreLive /\ Renewable /\ SameTokens /\ Gone)'
  BY <1>1, OneSessionStep, TokensAreLiveStep, RenewableStep, SameTokensStep, GoneStep
<1>3. (OutIsOut /\ NoFailedLogout /\ AgainIsAccepted /\ DeniedIsOut)'
  BY <1>1, OutIsOutStep, NoFailedLogoutStep, AgainIsAcceptedStep, DeniedIsOutStep
<1>4. (EndedIsIn /\ LoadsAreSigned /\ HasUser)'
  BY <1>1, EndedIsInStep, LoadsAreSignedStep, HasUserStep
<1>5. QED
  BY <1>2, <1>3, <1>4 DEF FineNow

LEMMA InvStep == Inv /\ [Next]_vars => Inv'
<1>1. SUFFICES ASSUME Inv, [Next]_vars PROVE Inv'
  OBVIOUS
<1>2. QED
  BY <1>1, TypeStep, AloneStep, CheckedStep, EndedIsGoneStep, OnePerLoginStep,
     OutIsNotBegunStep, FineNext
     DEF Inv

THEOREM AlwaysInv == Spec => []Inv
<1>1. QED
  BY InitInv, InvStep, PTL DEF Spec

\* Cookies, sessions and answers keep their types, and a token is always of a
\* session there has been.
THEOREM TypeCorrect == Spec => []TypeOK
<1>1. Inv => TypeOK
  BY DEF Inv
<1>2. QED
  BY <1>1, AlwaysInv, PTL

\* Unless two exchanges overlap, rotation leaves one active session per login
\* (AuthService.refresh_tokens).
THEOREM OneSessionPerLogin == Spec => []OnePerLogin
<1>1. Inv => OnePerLogin
  BY DEF Inv
<1>2. QED
  BY <1>1, AlwaysInv, PTL

\* While nothing goes wrong the browser can always renew its session or is about to
\* be given the next one, in the gap between the two commits of a rotation too
\* (auth_service.py:379, 572), and a page that was loaded signed in keeps its user.
\* A token that lapses is no excuse, nor an idle hour after which only cv_refresh is
\* left (refreshUser, cookies.py:30).
THEOREM UserStaysSignedIn == Spec => []StaysSignedIn
<1>1. Inv => SessionKept
  BY DEF Inv, Fine, FineNow, Renewable, SessionKept
<1>2. Inv => KeepsTheUser
  BY DEF Inv, Fine, FineNow, HasUser, KeepsTheUser
<1>3. Inv => StaysSignedIn
  BY <1>1, <1>2 DEF StaysSignedIn
<1>4. QED
  BY <1>3, AlwaysInv, PTL

\* While nothing goes wrong a logout leaves no cookie and no active session.
THEOREM LogoutIsComplete == Spec => []SignedOut
<1>1. Inv => SignedOut
  BY DEF Inv, Fine, FineNow, Gone, SignedOut
<1>2. QED
  BY <1>1, AlwaysInv, PTL

----------------------------------------------------------------------------
(* Each step is a step of TokenChain, or none.                             *)

ChainVars == <<live, opened, login, Claims>>
ChainStep == Chain!Next \/ UNCHANGED ChainVars

Claimed == {"checked", "ended"}

LEMMA ClaimOf ==
    ASSUME NEW p \in Clients
    PROVE  Claims[p] = IF at[p] \in Claimed THEN tok[p] ELSE 0
  BY DEF Claims, Claimed

LEMMA ClaimsMove ==
    ASSUME TypeOK, NEW p \in Clients, NEW place, moves(p, place),
           \A q \in Clients : q # p => tok'[q] = tok[q]
    PROVE  Claims' = [Claims EXCEPT ![p] = IF place \in Claimed THEN tok'[p] ELSE 0]
<1>1. at'[p] = place /\ \A q \in Clients : q # p => at'[q] = at[q]
  BY DEF moves, TypeOK
<1>2. Claims' = [q \in Clients |-> IF at'[q] \in Claimed THEN tok'[q] ELSE 0]
  BY DEF Claims, Claimed
<1>3. [Claims EXCEPT ![p] = IF place \in Claimed THEN tok'[p] ELSE 0]
        = [q \in Clients |-> IF q = p THEN (IF place \in Claimed THEN tok'[p] ELSE 0)
                             ELSE IF at[q] \in Claimed THEN tok[q] ELSE 0]
  BY DEF Claims, Claimed
<1>4. QED
  BY <1>1, <1>2, <1>3

\* A client that claims nothing before a step and after it.
LEMMA ClaimsStay ==
    ASSUME TypeOK, NEW p \in Clients, NEW place, moves(p, place), place \notin Claimed,
           at[p] \notin Claimed, \A q \in Clients : q # p => tok'[q] = tok[q]
    PROVE  UNCHANGED Claims
<1>1. Claims' = [Claims EXCEPT ![p] = 0] /\ Claims[p] = 0
  BY ClaimsMove, ClaimOf
<1>2. Claims = [q \in Clients |-> Claims[q]]
  BY DEF Claims
<1>3. QED
  BY <1>1, <1>2

LEMMA ClaimsSame == UNCHANGED <<at, tok>> => UNCHANGED Claims
  BY DEF Claims

\* What a client that is not exchanging anything does, but for the server.
LEMMA QuietChain ==
    ASSUME TypeOK, UNCHANGED server,
           \/ UNCHANGED <<at, tok>>
           \/ \E p \in Clients, place \in Places :
                /\ moves(p, place) /\ place \notin Claimed /\ at[p] \notin Claimed
                /\ \A q \in Clients : q # p => tok'[q] = tok[q]
    PROVE  ChainStep
  BY ClaimsStay, ClaimsSame DEF ChainStep, ChainVars, server

LEMMA EndsChain ==
    ASSUME TypeOK, UNCHANGED <<opened, login, Claims>>, NEW s, live' = live \ {s}
    PROVE  ChainStep
<1>1. CASE s \in live
  <2>1. s \in 1..MaxSessions
    BY <1>1 DEF TypeOK, Tokens
  <2>2. Chain!End(s) /\ s \in Chain!Sessions
    BY <1>1, <2>1 DEF Chain!End, Chain!Sessions
  <2>3. QED
    BY <2>2 DEF ChainStep, Chain!Next
<1>2. CASE s \notin live
  BY <1>2 DEF ChainStep, ChainVars
<1>3. QED
  BY <1>1, <1>2

\* The refresh (auth_service.py:354): the check, the two commits, and what fails
\* before, between and after them.
LEMMA RefreshChain ==
    ASSUME TypeOK, EndedIsGone, NEW p \in Clients, Refresh(p)
    PROVE  ChainStep
<1>0. \A q \in Clients : tok[q] # 0 <=> at[q] \in {"checked", "ended", "rotated", "login"}
  BY DEF TypeOK
<1>1. CASE refresh_tokens(p) /\ jar.refresh \in live
  <2>1. /\ moves(p, "checked") /\ tok' = [tok EXCEPT ![p] = jar.refresh]
        /\ at[p] = "refused" /\ UNCHANGED server
    BY <1>1 DEF refresh_tokens
  <2>2. tok'[p] = jar.refresh /\ \A q \in Clients : q # p => tok'[q] = tok[q]
    BY <2>1 DEF TypeOK
  <2>3. Claims' = [Claims EXCEPT ![p] = jar.refresh] /\ Claims[p] = 0
    BY <2>1, <2>2, ClaimsMove, ClaimOf DEF Claimed
  <2>4. Chain!Claim(p)
    BY <1>1, <2>1, <2>3 DEF Chain!Claim, server
  <2>5. QED
    BY <2>4 DEF ChainStep, Chain!Next
<1>2. CASE refresh_tokens(p) /\ jar.refresh \notin live
  <2>1. moves(p, "denied") /\ UNCHANGED <<tok, server>> /\ at[p] = "refused"
    BY <1>2 DEF refresh_tokens
  <2>2. QED
    BY <2>1, QuietChain DEF Places, Claimed
<1>3. CASE _create_session(p)
  <2>1. PICK s \in Sessions : /\ opens(s, login[tok[p]])
                              /\ live' = live \cup {s}
                              /\ tok' = [tok EXCEPT ![p] = s]
    BY <1>3 DEF _create_session
  <2>2. /\ at[p] = "ended" /\ moves(p, "rotated") /\ Claims[p] = tok[p] /\ Claims[p] # 0
        /\ live \ {Claims[p]} = live
    BY <1>0, <1>3, ClaimOf DEF _create_session, EndedIsGone, Claimed
  <2>3. Claims' = [Claims EXCEPT ![p] = 0]
    BY <2>1, <2>2, ClaimsMove DEF Claimed
  <2>4. Chain!opens(s, login[Claims[p]]) /\ s \in Chain!Sessions
    BY <2>1, <2>2 DEF opens, Chain!opens, Chain!Sessions, Sessions
  <2>5. Chain!Rotate(p)
    BY <2>1, <2>2, <2>3, <2>4 DEF Chain!Rotate
  <2>6. QED
    BY <2>5 DEF ChainStep, Chain!Next
<1>4. CASE crash(p)
  <2>1. /\ at[p] \in Claimed /\ moves(p, "denied") /\ UNCHANGED server
        /\ tok' = [tok EXCEPT ![p] = 0]
    BY <1>4 DEF crash, Claimed
  <2>2. Claims[p] = tok[p] /\ Claims[p] # 0 /\ Claims' = [Claims EXCEPT ![p] = 0]
    BY <1>0, <2>1, ClaimOf, ClaimsMove DEF Claimed
  <2>3. Chain!Lose(p)
    BY <2>1, <2>2 DEF Chain!Lose, server
  <2>4. QED
    BY <2>3 DEF ChainStep, Chain!Next
<1>5. CASE set_auth_cookies(p) \/ lose(p)
  <2>1. /\ at[p] \in {"refused", "rotated"} /\ UNCHANGED server
        /\ tok' = [tok EXCEPT ![p] = 0]
        /\ moves(p, "again") \/ moves(p, "denied")
    BY <1>5 DEF set_auth_cookies, lose
  <2>2. \A q \in Clients : q # p => tok'[q] = tok[q]
    BY <2>1
  <2>3. QED
    BY <2>1, QuietChain DEF Places, Claimed
<1>6. CASE expired(p)
  <2>1. at[p] = "denied" /\ moves(p, "idle") /\ UNCHANGED <<tok, server>>
    BY <1>6 DEF expired, givesUp
  <2>2. QED
    BY <2>1, QuietChain DEF Places, Claimed
<1>7. CASE invalidates(p)
  <2>1. /\ at[p] = "checked" /\ moves(p, "ended") /\ live' = live \ {tok[p]}
        /\ UNCHANGED <<opened, login, tok>>
    BY <1>7 DEF invalidates
  <2>2. Claims' = [Claims EXCEPT ![p] = tok[p]] /\ Claims[p] = tok[p]
    BY <2>1, ClaimsMove, ClaimOf DEF Claimed
  <2>3. UNCHANGED Claims
    BY <2>2 DEF Claims
  <2>4. QED
    BY <2>1, <2>3, EndsChain
<1>8. QED
  BY <1>1, <1>2, <1>3, <1>4, <1>5, <1>6, <1>7 DEF Refresh

\* Calls and page loads leave the server alone.
LEMMA PageChain ==
    ASSUME TypeOK, NEW p \in Clients,
           apiFetch(p) \/ retry(p) \/ (p \in Tabs /\ (Load(p) \/ loggedOut(p)))
    PROVE  ChainStep
<1>1. UNCHANGED <<tok, server>> /\ at[p] \notin Claimed
  BY DEF apiFetch, retry, Load, refreshUser, setUser, noAnswer, getAgain, loggedOut, Claimed
<1>2. \E place \in Places : moves(p, place) /\ place \notin Claimed
  <2>1. getCurrentUser(jar) \in {"idle", "me", "refused"}
    BY DEF getCurrentUser
  <2>2. \E place \in {"idle", "me", "refused", "meAgain"} : moves(p, place)
    BY <2>1
       DEF apiFetch, retry, Load, refreshUser, setUser, noAnswer, getAgain, givesUp,
           loggedOut
  <2>3. QED
    BY <2>2 DEF Places, Claimed
<1>3. QED
  BY <1>1, <1>2, QuietChain

\* Signing in opens a session, signing out ends one (auth.py:205).
LEMMA SignChain ==
    ASSUME TypeOK, NEW t \in Tabs, login_(t) \/ loggedIn(t) \/ lostReply(t) \/ logout(t)
    PROVE  ChainStep
<1>0. t \in Clients
  BY DEF Clients
<1>1. CASE login_(t)
  <2>1. PICK s \in Sessions : /\ opens(s, s) /\ live' = live \cup {s}
                              /\ tok' = [tok EXCEPT ![t] = s]
    BY <1>1 DEF login_
  <2>2. at[t] = "idle" /\ moves(t, "login") /\ \A q \in Clients : q # t => tok'[q] = tok[q]
    BY <1>1 DEF login_
  <2>3. UNCHANGED Claims
    BY <1>0, <2>2, ClaimsStay DEF Claimed
  <2>4. Chain!SignIn
    BY <2>1, <2>3 DEF Chain!SignIn, Chain!opens, Chain!Sessions, opens, Sessions
  <2>5. QED
    BY <2>4 DEF ChainStep, Chain!Next
<1>2. CASE loggedIn(t)
  <2>1. at[t] = "login" /\ UNCHANGED server /\ tok' = [tok EXCEPT ![t] = 0]
    BY <1>2 DEF loggedIn
  <2>2. \A q \in Clients : q # t => tok'[q] = tok[q]
    BY <2>1
  <2>3. \E place \in {"idle", "me", "refused"} : moves(t, place)
    BY <1>2 DEF loggedIn, getCurrentUser
  <2>4. QED
    BY <1>0, <2>1, <2>3, QuietChain DEF Places, Claimed
<1>3. CASE logout(t)
  <2>1. /\ at[t] = "idle" /\ UNCHANGED <<opened, login, tok>>
        /\ moves(t, "out") \/ moves(t, "outFailed")
        /\ live' = live \ {jar.access} \/ live' = live
    BY <1>3 DEF logout
  <2>2. UNCHANGED Claims
    BY <1>0, <2>1, ClaimsStay DEF Claimed
  <2>3. QED
    BY <2>1, <2>2, EndsChain DEF ChainStep, ChainVars
<1>4. CASE lostReply(t)
  <2>1. /\ at[t] \in {"login", "out"} /\ UNCHANGED server /\ tok' = [tok EXCEPT ![t] = 0]
        /\ moves(t, "idle") \/ moves(t, "outFailed")
    BY <1>4 DEF lostReply
  <2>2. \A q \in Clients : q # t => tok'[q] = tok[q]
    BY <2>1
  <2>3. QED
    BY <1>0, <2>1, <2>2, QuietChain DEF Places, Claimed
<1>5. QED
  BY <1>1, <1>2, <1>3, <1>4

LEMMA StepChain == TypeOK /\ EndedIsGone /\ [Next]_vars => ChainStep
<1>1. SUFFICES ASSUME TypeOK, EndedIsGone, [Next]_vars PROVE ChainStep
  OBVIOUS
<1>2. ASSUME NEW t \in Tabs, Load(t) \/ loggedOut(t) PROVE ChainStep
  BY <1>1, <1>2, PageChain DEF Clients
<1>3. ASSUME NEW c \in Calls, apiFetch(c) \/ retry(c) PROVE ChainStep
  BY <1>1, <1>3, PageChain DEF Clients
<1>4. CASE lapses \/ hourPasses \/ UNCHANGED vars
  <2>1. UNCHANGED <<server, at, tok>>
    BY <1>4 DEF lapses, hourPasses, vars
  <2>2. QED
    BY <1>1, <2>1, QuietChain
<1>5. ASSUME NEW s \in Sessions, revoke_session(s) PROVE ChainStep
  <2>1. live' = live \ {s} /\ UNCHANGED <<opened, login, at, tok>>
    BY <1>5 DEF revoke_session
  <2>2. QED
    BY <1>1, <2>1, ClaimsSame, EndsChain
<1>6. QED
  BY <1>1, <1>2, <1>3, <1>4, <1>5, RefreshChain, SignChain DEF Next

\* The sessions of a login form a chain, whatever tabs, crashes, lost answers and
\* revocations do (auth_service.py:354, 374, 379).
THEOREM SessionsAreAChain == Spec => SessionsChain
<1>1. Init => Chain!Init
  BY DEF Init, Chain!Init, Chain!Sessions, Sessions, Claims
<1>2. Inv /\ [Next]_vars => [Chain!Next]_ChainVars
  BY StepChain DEF ChainStep, Inv
<1>3. QED
  BY <1>1, <1>2, AlwaysInv, PTL
     DEF Spec, SessionsChain, Chain!Spec, Chain!vars, ChainVars

----------------------------------------------------------------------------
(***************************************************************************)
(* What the chain is good for: a login has one active session as long as   *)
(* its exchanges do not overlap.  The invariant ties every claim to the    *)
(* only session its login can have, so that the successor finds the place  *)
(* empty; it is proved of the abstract chain, and thus of whatever         *)
(* implements it.                                                          *)
(***************************************************************************)
OneChain == Chain!ClaimsFit /\ Chain!OnlyOne

\* Signing in: the new session is the first of a login nobody knows.
LEMMA SignInKeepsOne ==
    ASSUME OneChain, Chain!SignIn
    PROVE  OneChain'
<1>1. PICK s \in Chain!Sessions : /\ s = opened + 1 /\ opened' = s
                                  /\ login' = [login EXCEPT ![s] = s]
                                  /\ live' = live \cup {s} /\ Claims' = Claims
  BY DEF Chain!SignIn, Chain!opens
<1>2. opened \in Nat /\ s \in Nat /\ s \notin live
  BY <1>1 DEF OneChain, Chain!ClaimsFit
<1>3. \A r \in Chain!Sessions : r # s => login'[r] = login[r]
  BY <1>1
<1>4. login'[s] = s /\ login' \in [Chain!Sessions -> Nat]
  BY <1>1 DEF OneChain, Chain!ClaimsFit
<1>5. \A r \in Chain!Sessions : r <= opened => login'[r] = login[r] /\ login[r] <= opened
  BY <1>1 DEF OneChain, Chain!ClaimsFit
<1>6. \A r \in live : r \in Chain!Sessions /\ r <= opened
  BY DEF OneChain, Chain!ClaimsFit
<1>7. \A r \in live : login'[r] = login[r] /\ login'[r] # s
  BY <1>1 DEF OneChain, Chain!ClaimsFit
<1>8. Chain!OnlyOne'
  BY <1>1, <1>4, <1>7 DEF OneChain, Chain!OnlyOne
<1>9. Chain!ClaimsFit'
  <2>1. \A r \in Chain!Sessions : r <= opened' => login'[r] <= opened'
    <3>1. SUFFICES ASSUME NEW r \in Chain!Sessions, r <= s PROVE login'[r] <= s
      BY <1>1
    <3>2. CASE r = s
      BY <3>2, <1>4
    <3>3. CASE r # s
      <4>1. r <= opened
        BY <3>1, <3>3, <1>1, <1>2
      <4>2. login[r] \in Nat
        BY DEF OneChain, Chain!ClaimsFit
      <4>3. QED
        BY <4>1, <4>2, <1>1, <1>2, <1>5
    <3>4. QED
      BY <3>2, <3>3
  <2>2. live' \subseteq 1..opened' /\ live' \subseteq Chain!Sessions /\ opened' \in Nat
    BY <1>1, <1>2, <1>6 DEF Chain!Sessions
  <2>3. ASSUME NEW p \in Clients, Claims'[p] # 0
        PROVE  /\ Claims'[p] \in 1..opened' /\ Claims'[p] \in Chain!Sessions
               /\ \A r \in live' : login'[r] = login'[Claims'[p]] => r = Claims'[p]
    <3>1. /\ Claims[p] \in 1..opened /\ Claims[p] \in Chain!Sessions
          /\ \A r \in live : login[r] = login[Claims[p]] => r = Claims[p]
      BY <1>1, <2>3 DEF OneChain, Chain!ClaimsFit
    <3>2. login'[Claims[p]] = login[Claims[p]] /\ login[Claims[p]] # s
      <4>1. login[Claims[p]] \in Nat
        BY <3>1 DEF OneChain, Chain!ClaimsFit
      <4>2. QED
        BY <3>1, <1>1, <1>2, <1>5
    <3>3. Claims[p] \in 1..opened'
      BY <3>1, <1>1, <1>2
    <3>4. QED
      BY <1>1, <1>4, <3>1, <3>2, <3>3
  <2>4. QED
    BY <1>4, <2>1, <2>2, <2>3 DEF Chain!ClaimsFit
<1>10. QED
  BY <1>8, <1>9 DEF OneChain

\* An exchange ends: the successor takes the place its predecessor leaves, and no
\* other client holds a claim on the login.
LEMMA RotateKeepsOne ==
    ASSUME OneChain, Chain!NoRace, NEW p \in Clients, Chain!Rotate(p)
    PROVE  OneChain'
<1> DEFINE c == Claims[p]
<1>1. PICK s \in Chain!Sessions : /\ s = opened + 1 /\ opened' = s
                                  /\ login' = [login EXCEPT ![s] = login[c]]
                                  /\ live' = (live \ {c}) \cup {s}
  BY DEF Chain!Rotate, Chain!opens
<1>2. c # 0 /\ Claims' = [Claims EXCEPT ![p] = 0]
  BY DEF Chain!Rotate
<1>3. /\ opened \in Nat /\ s \in Nat /\ s \notin live
      /\ c \in 1..opened /\ c \in Chain!Sessions
      /\ \A r \in live : login[r] = login[c] => r = c
  BY <1>1, <1>2 DEF OneChain, Chain!ClaimsFit
<1>4. login[c] \in Nat /\ login[c] <= opened
  BY <1>3 DEF OneChain, Chain!ClaimsFit
<1>5. /\ login'[s] = login[c] /\ login' \in [Chain!Sessions -> Nat]
      /\ \A r \in Chain!Sessions : r # s => login'[r] = login[r]
  BY <1>1, <1>4 DEF OneChain, Chain!ClaimsFit
<1>6. \A r \in live : r \in Chain!Sessions /\ r <= opened /\ r # s
  BY <1>3 DEF OneChain, Chain!ClaimsFit
<1>7. \A r \in live \ {c} : login'[r] = login[r] /\ login'[r] # login'[s]
  BY <1>3, <1>5, <1>6
<1>8. Chain!OnlyOne'
  BY <1>1, <1>7 DEF OneChain, Chain!OnlyOne
<1>9. Chain!ClaimsFit'
  <2>1. \A r \in Chain!Sessions : r <= opened' => login'[r] <= opened'
    <3>1. SUFFICES ASSUME NEW r \in Chain!Sessions, r <= s PROVE login'[r] <= s
      BY <1>1
    <3>2. CASE r = s
      BY <3>2, <1>1, <1>3, <1>4, <1>5
    <3>3. CASE r # s
      <4>1. r <= opened
        BY <3>1, <3>3, <1>1, <1>3 DEF Chain!Sessions
      <4>2. login[r] \in Nat /\ login[r] <= opened
        BY <4>1 DEF OneChain, Chain!ClaimsFit
      <4>3. QED
        BY <3>3, <4>2, <1>1, <1>3
    <3>4. QED
      BY <3>2, <3>3
  <2>2. live' \subseteq 1..opened' /\ live' \subseteq Chain!Sessions /\ opened' \in Nat
    BY <1>1, <1>3, <1>6 DEF Chain!Sessions
  <2>3. ASSUME NEW q \in Clients, Claims'[q] # 0
        PROVE  /\ Claims'[q] \in 1..opened' /\ Claims'[q] \in Chain!Sessions
               /\ \A r \in live' : login'[r] = login'[Claims'[q]] => r = Claims'[q]
    <3>1. q # p /\ Claims'[q] = Claims[q]
      BY <1>2, <2>3 DEF Claims
    <3>2. login[Claims[q]] # login[c]
      BY <1>2, <2>3, <3>1 DEF Chain!NoRace
    <3>3. /\ Claims[q] \in 1..opened /\ Claims[q] \in Chain!Sessions
          /\ \A r \in live : login[r] = login[Claims[q]] => r = Claims[q]
      BY <2>3, <3>1 DEF OneChain, Chain!ClaimsFit
    <3>4. Claims[q] # s /\ Claims[q] \in 1..opened'
      BY <3>3, <1>1, <1>3
    <3>5. login'[Claims[q]] = login[Claims[q]]
      BY <3>3, <3>4, <1>5
    <3>6. QED
      BY <1>1, <1>5, <3>1, <3>2, <3>3, <3>4
  <2>4. QED
    BY <1>5, <2>1, <2>2, <2>3 DEF Chain!ClaimsFit
<1>10. QED
  BY <1>8, <1>9 DEF OneChain

\* Claiming binds a client to the only session of a login; losing and ending only
\* take sessions away.
LEMMA OthersKeepOne ==
    ASSUME OneChain, Chain!NoRace, [Chain!Next]_ChainVars
    PROVE  OneChain'
<1>1. ASSUME NEW p \in Clients, Chain!Claim(p) PROVE OneChain'
  <2>1. PICK s \in live : Claims' = [Claims EXCEPT ![p] = s]
    BY <1>1 DEF Chain!Claim
  <2>2. UNCHANGED <<live, opened, login>>
    BY <1>1 DEF Chain!Claim
  <2>3. s \in 1..opened /\ s \in Chain!Sessions
    BY DEF OneChain, Chain!ClaimsFit
  <2>4. \A r \in live : login[r] = login[s] => r = s
    BY DEF OneChain, Chain!OnlyOne
  <2>5. \A q \in Clients : Claims'[q] = IF q = p THEN s ELSE Claims[q]
    BY <2>1 DEF Claims
  <2>6. QED
    BY <2>2, <2>4, <2>5 DEF OneChain, Chain!ClaimsFit, Chain!OnlyOne
<1>2. ASSUME live' \subseteq live, UNCHANGED <<opened, login>>,
             \A q \in Clients : Claims'[q] = Claims[q] \/ Claims'[q] = 0
      PROVE  OneChain'
  <2>1. Chain!OnlyOne'
    BY <1>2 DEF OneChain, Chain!OnlyOne
  <2>2. Chain!ClaimsFit'
    BY <1>2 DEF OneChain, Chain!ClaimsFit
  <2>3. QED
    BY <2>1, <2>2 DEF OneChain
<1>3. ASSUME NEW p \in Clients, Chain!Lose(p) PROVE OneChain'
  <2>1. live' \subseteq live /\ UNCHANGED <<opened, login>>
    BY <1>3 DEF Chain!Lose
  <2>2. \A q \in Clients : Claims'[q] = Claims[q] \/ Claims'[q] = 0
    BY <1>3 DEF Chain!Lose, Claims
  <2>3. QED
    BY <2>1, <2>2, <1>2
<1>4. ASSUME NEW s \in Chain!Sessions, Chain!End(s) PROVE OneChain'
  BY <1>2, <1>4 DEF Chain!End
<1>5. CASE UNCHANGED ChainVars
  BY <1>2, <1>5 DEF ChainVars
<1>6. QED
  BY <1>1, <1>3, <1>4, <1>5, SignInKeepsOne, RotateKeepsOne DEF Chain!Next

\* A chain whose exchanges never overlap gives every login at most one active
\* session; both hypotheses are about the service alone (auth_service.py:354-379).
THEOREM ChainKeepsOne == SessionsChain /\ []Chain!NoRace => []Chain!OnlyOne
<1>1. Chain!Init => OneChain
  BY DEF Chain!Init, OneChain, Chain!ClaimsFit, Chain!OnlyOne
<1>2. OneChain /\ Chain!NoRace /\ [Chain!Next]_ChainVars => OneChain'
  BY OthersKeepOne
<1>3. OneChain => Chain!OnlyOne
  BY DEF OneChain
<1>4. QED
  BY <1>1, <1>2, <1>3, PTL DEF SessionsChain, Chain!Spec, Chain!vars, ChainVars

\* The browser meets the chain's condition: as long as no two exchanges of its
\* tabs and calls overlap, no session of a login is claimed twice.
THEOREM NoOverlapNoRace == Spec => []("overlap" \notin blame => Chain!NoRace)
<1>1. Alone => ("overlap" \notin blame => Chain!NoRace)
  BY DEF Alone, Chain!NoRace, Claims, Exchanging
<1>2. Inv => Alone
  BY DEF Inv
<1>3. QED
  BY <1>1, <1>2, AlwaysInv, PTL

\* What a load, a login or a logout that is at a place goes on to.
Onwards == [refused |-> {"checked", "denied"}, checked |-> {"ended", "denied"},
            ended   |-> {"rotated", "denied"}, rotated |-> {"again", "denied"},
            denied  |-> {"idle"},              again   |-> {"meAgain", "idle"},
            me      |-> {"idle", "refused"},   meAgain |-> {"idle"},
            login   |-> {"me", "refused", "idle"},
            out     |-> {"idle", "outFailed"}, outFailed |-> {"idle"}]

\* What a refresh does to the place of whoever refreshes.
LEMMA RefreshMoves ==
    ASSUME NEW p \in Clients, Refresh(p)
    PROVE  /\ at[p] \in {"refused", "checked", "ended", "rotated", "denied"}
           /\ \E q \in Onwards[at[p]] : q # at[p] /\ at' = [at EXCEPT ![p] = q]
<1>1. ASSUME refresh_tokens(p)
      PROVE  at[p] = "refused" /\ \E q \in {"checked", "denied"} : at' = [at EXCEPT ![p] = q]
  BY <1>1 DEF refresh_tokens, moves
<1>2. ASSUME _create_session(p) PROVE at[p] = "ended" /\ at' = [at EXCEPT ![p] = "rotated"]
  BY <1>2 DEF _create_session, moves
<1>3. ASSUME crash(p) PROVE at[p] \in {"checked", "ended"} /\ at' = [at EXCEPT ![p] = "denied"]
  BY <1>3 DEF crash, moves
<1>4. ASSUME set_auth_cookies(p) PROVE at[p] = "rotated" /\ at' = [at EXCEPT ![p] = "again"]
  BY <1>4 DEF set_auth_cookies, moves
<1>5. ASSUME lose(p) PROVE at[p] \in {"refused", "rotated"} /\ at' = [at EXCEPT ![p] = "denied"]
  BY <1>5 DEF lose, moves
<1>6. ASSUME expired(p) PROVE at[p] = "denied" /\ at' = [at EXCEPT ![p] = "idle"]
  BY <1>6 DEF expired, givesUp, moves
<1>7. ASSUME invalidates(p) PROVE at[p] = "checked" /\ at' = [at EXCEPT ![p] = "ended"]
  BY <1>7 DEF invalidates, moves
<1>8. QED
  BY <1>1, <1>2, <1>3, <1>4, <1>5, <1>6, <1>7 DEF Refresh, Onwards

LEMMA GoesOnwards ==
    ASSUME TypeOK, [Next]_vars, NEW t \in Tabs, at[t] # "idle"
    PROVE  at'[t] = at[t] \/ at'[t] \in Onwards[at[t]]
<1>1. at \in [Clients -> Places] /\ t \in Clients /\ t \notin Calls
  BY DEF TypeOK, Clients
<1>2. ASSUME NEW p \in Clients, Refresh(p) PROVE at'[t] = at[t] \/ at'[t] \in Onwards[at[t]]
  BY <1>1, <1>2, RefreshMoves
<1>3. ASSUME NEW c \in Calls, apiFetch(c) \/ retry(c) PROVE at'[t] = at[t]
  BY <1>1, <1>3 DEF apiFetch, retry, moves
<1>4. ASSUME NEW u \in Tabs, Load(u) PROVE at'[t] = at[t] \/ at'[t] \in Onwards[at[t]]
  BY <1>1, <1>4
     DEF Load, refreshUser, setUser, noAnswer, getAgain, givesUp, moves, Onwards, Clients
<1>5. ASSUME NEW u \in Tabs, login_(u) \/ loggedIn(u) \/ lostReply(u) \/ logout(u) \/ loggedOut(u)
      PROVE  at'[t] = at[t] \/ at'[t] \in Onwards[at[t]]
  BY <1>1, <1>5
     DEF login_, loggedIn, getCurrentUser, lostReply, logout, loggedOut, moves, Onwards,
         Clients
<1>6. CASE lapses \/ hourPasses \/ \E s \in Sessions : revoke_session(s)
  BY <1>6 DEF lapses, hourPasses, revoke_session
<1>7. CASE UNCHANGED vars
  BY <1>7 DEF vars
<1>8. QED
  BY <1>2, <1>3, <1>4, <1>5, <1>6, <1>7 DEF Next

\* The step that Fairness owes a tab takes it away from where it is.
LEMMA FairStepsLeave ==
    ASSUME TypeOK, NEW t \in Tabs, at[t] # "idle"
    PROVE  /\ Refresh(t) => at'[t] # at[t]
           /\ setUser(t) \/ getAgain(t) \/ loggedIn(t) \/ loggedOut(t) => at'[t] # at[t]
<1>1. at \in [Clients -> Places] /\ t \in Clients
  BY DEF TypeOK, Clients
<1>2. ASSUME Refresh(t) PROVE at'[t] # at[t]
  BY <1>1, <1>2, RefreshMoves
<1>3. ASSUME setUser(t) \/ getAgain(t) \/ loggedIn(t) \/ loggedOut(t) PROVE at'[t] # at[t]
  <2>1. \E q \in Places : q # at[t] /\ at' = [at EXCEPT ![t] = q]
    BY <1>3 DEF setUser, getAgain, loggedIn, loggedOut, getCurrentUser, givesUp, moves, Places
  <2>2. QED
    BY <1>1, <2>1
<1>4. QED
  BY <1>2, <1>3

\* A tab leaves every place for one further on.
Leaves(t, x) == at[t] = x ~> at[t] \in Onwards[x]

LEMMA PlacesAreLeft ==
    ASSUME NEW t \in Tabs
    PROVE  Spec /\ []LoadGoesOn => \A x \in Places \ {"idle"} : Leaves(t, x)
<1>1. Fairness => RefreshIsFair(t) /\ AnswersAreFair(t)
  BY DEF Fairness, Clients
<1>2. ASSUME NEW x \in Places \ {"idle"}
      PROVE  Spec /\ []LoadGoesOn => Leaves(t, x)
  <2>1. TypeOK /\ at[t] = x /\ [Next]_vars => (at[t] = x)' \/ (at[t] \in Onwards[x])'
    BY GoesOnwards
  <2>2. /\ TypeOK /\ at[t] = x /\ <<Refresh(t)>>_vars => ~(at[t] = x)'
        /\ TypeOK /\ at[t] = x /\ <<setUser(t)>>_vars => ~(at[t] = x)'
        /\ TypeOK /\ at[t] = x /\ <<getAgain(t)>>_vars => ~(at[t] = x)'
        /\ TypeOK /\ at[t] = x /\ <<loggedIn(t)>>_vars => ~(at[t] = x)'
        /\ TypeOK /\ at[t] = x /\ <<loggedOut(t)>>_vars => ~(at[t] = x)'
    BY FairStepsLeave
  <2>3. CASE x \in {"refused", "checked", "ended", "rotated", "denied"}
    <3>1. LoadGoesOn /\ at[t] = x => ENABLED <<Refresh(t)>>_vars
      BY <2>3 DEF LoadGoesOn
    <3>2. QED
      BY <1>1, <2>1, <2>2, <3>1, TypeCorrect, PTL DEF Spec, RefreshIsFair, Leaves
  <2>4. CASE x \in {"me", "meAgain"}
    <3>1. LoadGoesOn /\ at[t] = x => ENABLED <<setUser(t)>>_vars
      BY <2>4 DEF LoadGoesOn
    <3>2. QED
      BY <1>1, <2>1, <2>2, <3>1, TypeCorrect, PTL DEF Spec, AnswersAreFair, Leaves
  <2>5. CASE x = "again"
    <3>1. LoadGoesOn /\ at[t] = x => ENABLED <<getAgain(t)>>_vars
      BY <2>5 DEF LoadGoesOn
    <3>2. QED
      BY <1>1, <2>1, <2>2, <3>1, TypeCorrect, PTL DEF Spec, AnswersAreFair, Leaves
  <2>6. CASE x = "login"
    <3>1. LoadGoesOn /\ at[t] = x => ENABLED <<loggedIn(t)>>_vars
      BY <2>6 DEF LoadGoesOn
    <3>2. QED
      BY <1>1, <2>1, <2>2, <3>1, TypeCorrect, PTL DEF Spec, AnswersAreFair, Leaves
  <2>7. CASE x \in {"out", "outFailed"}
    <3>1. LoadGoesOn /\ at[t] = x => ENABLED <<loggedOut(t)>>_vars
      BY <2>7 DEF LoadGoesOn
    <3>2. QED
      BY <1>1, <2>1, <2>2, <3>1, TypeCorrect, PTL DEF Spec, AnswersAreFair, Leaves
  <2>8. QED
    BY <2>3, <2>4, <2>5, <2>6, <2>7 DEF Places
<1>3. QED
  BY <1>2

\* A page load, a login or a logout ends, whatever the other tabs, the calls, the
\* server and the clock do.
THEOREM LoadsEnd == Spec /\ []LoadGoesOn => LoadEnds
<1>1. ASSUME NEW t \in Tabs
      PROVE  Spec /\ []LoadGoesOn => (at[t] # "idle" ~> at[t] = "idle")
  <2>1. Spec /\ []LoadGoesOn =>
          /\ Leaves(t, "refused") /\ Leaves(t, "checked") /\ Leaves(t, "ended")
          /\ Leaves(t, "rotated")
          /\ Leaves(t, "denied") /\ Leaves(t, "again") /\ Leaves(t, "me") /\ Leaves(t, "meAgain")
          /\ Leaves(t, "login") /\ Leaves(t, "out") /\ Leaves(t, "outFailed")
    BY PlacesAreLeft DEF Places
  <2>2. /\ at[t] \in Onwards["refused"] => at[t] = "checked" \/ at[t] = "denied"
        /\ at[t] \in Onwards["checked"] => at[t] = "ended" \/ at[t] = "denied"
        /\ at[t] \in Onwards["ended"] => at[t] = "rotated" \/ at[t] = "denied"
        /\ at[t] \in Onwards["rotated"] => at[t] = "again" \/ at[t] = "denied"
        /\ at[t] \in Onwards["again"] => at[t] = "meAgain" \/ at[t] = "idle"
        /\ at[t] \in Onwards["me"] => at[t] = "refused" \/ at[t] = "idle"
        /\ at[t] \in Onwards["login"] => at[t] = "me" \/ at[t] = "refused" \/ at[t] = "idle"
    BY DEF Onwards
  <2>3. /\ at[t] \in Onwards["denied"] => at[t] = "idle"
        /\ at[t] \in Onwards["meAgain"] => at[t] = "idle"
        /\ at[t] \in Onwards["out"] => at[t] = "outFailed" \/ at[t] = "idle"
        /\ at[t] \in Onwards["outFailed"] => at[t] = "idle"
    BY DEF Onwards
  <2>4. TypeOK =>
          \/ at[t] = "idle" \/ at[t] = "refused" \/ at[t] = "checked" \/ at[t] = "ended"
          \/ at[t] = "rotated" \/ at[t] = "denied" \/ at[t] = "again" \/ at[t] = "me" \/ at[t] = "meAgain"
          \/ at[t] = "login" \/ at[t] = "out" \/ at[t] = "outFailed"
    BY DEF TypeOK, Places, Clients
  <2>5. QED
    BY <2>1, <2>2, <2>3, <2>4, TypeCorrect, PTL DEF Leaves
<1>2. QED
  BY <1>1 DEF LoadEnds, LoadIsOver
=============================================================================
