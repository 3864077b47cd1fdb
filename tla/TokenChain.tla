----------------------------- MODULE TokenChain -----------------------------
(***************************************************************************)
(* What the authentication service promises about refresh tokens: the      *)
(* sessions of one login form a chain.  A client that shows the token of   *)
(* an active session claims it, and then a new session of the same login   *)
(* takes the place of the claimed one, or the claim comes to nothing.  The *)
(* claimed session may end before that.  What has ended never becomes      *)
(* active again, and a session comes from a login or from a claim and from *)
(* nothing else.                                                           *)
(*                                                                         *)
(* WebSession implements this module with cookies, tabs and page loads.    *)
(***************************************************************************)
EXTENDS Naturals

CONSTANTS
  Clients,
  MaxSessions

VARIABLES
  live,      \* the active sessions
  opened,    \* how many there have been
  login,     \* session -> the session of the login it goes back to
  claim      \* client -> the session it is exchanging, 0 for none

vars == <<live, opened, login, claim>>

Sessions == 1..MaxSessions

Init ==
  /\ live = {} /\ opened = 0
  /\ login = [s \in Sessions |-> 0]
  /\ claim = [p \in Clients |-> 0]

----------------------------------------------------------------------------
opens(s, from) ==
  /\ s = opened + 1 /\ s \in Sessions
  /\ opened' = s
  /\ login' = [login EXCEPT ![s] = from]

SignIn ==
  /\ \E s \in Sessions : opens(s, s) /\ live' = live \cup {s}
  /\ UNCHANGED claim

Claim(p) ==
  /\ claim[p] = 0
  /\ \E s \in live : claim' = [claim EXCEPT ![p] = s]
  /\ UNCHANGED <<live, opened, login>>

\* The claimed session need not be active any more: it may have been ended, or
\* claimed by another client too.
Rotate(p) ==
  /\ claim[p] # 0
  /\ \E s \in Sessions : /\ opens(s, login[claim[p]])
                         /\ live' = (live \ {claim[p]}) \cup {s}
  /\ claim' = [claim EXCEPT ![p] = 0]

\* The claim comes to nothing, whether its session has ended by then or not.
Lose(p) ==
  /\ claim[p] # 0
  /\ claim' = [claim EXCEPT ![p] = 0]
  /\ UNCHANGED <<live, opened, login>>

End(s) ==
  /\ s \in live
  /\ live' = live \ {s}
  /\ UNCHANGED <<opened, login, claim>>

Next ==
  \/ SignIn
  \/ \E p \in Clients : Claim(p) \/ Rotate(p) \/ Lose(p)
  \/ \E s \in Sessions : End(s)

Spec == Init /\ [][Next]_vars

----------------------------------------------------------------------------
\* A claim is of a session there has been, sessions go back to logins, and a
\* claimed session is the only one its login can have.
ClaimsFit ==
  /\ opened \in Nat
  /\ live \subseteq 1..opened /\ live \subseteq Sessions
  /\ login \in [Sessions -> Nat]
  /\ \A s \in Sessions : s <= opened => login[s] <= opened
  /\ \A p \in Clients :
       claim[p] # 0 =>
         /\ claim[p] \in 1..opened /\ claim[p] \in Sessions
         /\ \A s \in live : login[s] = login[claim[p]] => s = claim[p]

OnlyOne == \A r, s \in live : login[r] = login[s] => r = s

\* Nobody claims a session of a login that another client is exchanging.
NoRace ==
  \A p, q \in Clients :
    claim[p] # 0 /\ claim[q] # 0 /\ login[claim[p]] = login[claim[q]] => p = q
============================================================================
