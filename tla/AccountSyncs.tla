---------------------------- MODULE AccountSyncs ----------------------------
(***************************************************************************)
(* What the connector promises about the work done for ONE cloud account:  *)
(* nobody starts on it before it exists or after it was deleted, only who  *)
(* works on it or deletes it changes its record, a sync begins only where  *)
(* none is under way and ends by giving back its own lock.  The exception  *)
(* is written into the specification: whoever clears the lock of a running *)
(* sync has robbed it, and until the syncs of that time are over the lock  *)
(* promises nothing.                                                       *)
(*                                                                         *)
(* SyncScheduler implements this module; Discovery relies on it.           *)
(***************************************************************************)

CONSTANTS
    Workers,   \* the monitor loops and requests of every replica
    Records    \* what the account's row may say

VARIABLES
    account,   \* "new", "live" or "over"
    record,
    working,   \* the workers with something to do for the account
    closing,   \* those that delete it
    syncing,   \* those of the working that sync it
    owner,     \* the worker in the lock, as a set of at most one
    robbed     \* a sync lost its lock, and syncs have been running ever since

vars == <<account, record, working, closing, syncing, owner, robbed>>

Init ==
    /\ account \in {"new", "live"}
    /\ record \in Records
    /\ working = {}
    /\ closing = {}
    /\ syncing = {}
    /\ owner = {}
    /\ robbed = FALSE

-----------------------------------------------------------------------------
Create(w) ==
    /\ account = "new"
    /\ account' = "live"
    /\ record' \in Records
    /\ working' = working \cup {w}
    /\ UNCHANGED <<closing, syncing, owner, robbed>>

\* Only a live account gets new work.
Arrive(w) ==
    /\ account = "live"
    /\ w \notin working \cup closing
    /\ working' = working \cup {w}
    /\ UNCHANGED <<account, record, closing, syncing, owner, robbed>>

Write(w) ==
    /\ w \in working
    /\ record' \in Records
    /\ UNCHANGED <<account, working, closing, syncing, owner, robbed>>

Leave(w) ==
    /\ w \in working \ syncing
    /\ working' = working \ {w}
    /\ record' \in Records
    /\ UNCHANGED <<account, closing, syncing, owner, robbed>>

\* Mutual exclusion: nobody else syncs.
Begin(w) ==
    /\ w \in working \ syncing
    /\ owner = {}
    /\ syncing = {} \/ robbed
    /\ owner' = {w}
    /\ syncing' = syncing \cup {w}
    /\ UNCHANGED <<account, record, working, closing, robbed>>

\* Ownership: the lock that is given back is one's own.
End(w) ==
    /\ w \in syncing
    /\ owner = {w} \/ robbed
    /\ owner' = {}
    /\ syncing' = syncing \ {w}
    /\ working' \in {working, working \ {w}}
    /\ robbed' = (robbed /\ syncing' # {})
    /\ UNCHANGED <<account, record, closing>>

Rob ==
    /\ owner' = {}
    /\ robbed' = (robbed \/ owner \cap syncing # {})

\* A reschedule clears the lock.
Reschedule(w) ==
    /\ w \in working \ syncing
    /\ working' \in {working, working \ {w}}
    /\ Rob
    /\ UNCHANGED <<account, record, closing, syncing>>

\* So do its TTL and the start of a replica.
Expire ==
    /\ owner # {}
    /\ Rob
    /\ UNCHANGED <<account, record, working, closing, syncing>>

\* A crash leaves the lock to its TTL.
Die ==
    \E gone \in SUBSET Workers :
        /\ working' = working \ gone
        /\ closing' = closing \ gone
        /\ syncing' = syncing \ gone
        /\ robbed' = (robbed /\ syncing' # {})
        /\ UNCHANGED <<account, record, owner>>

StartClose(w) ==
    /\ account # "new"
    /\ w \notin working \cup closing
    /\ closing' = closing \cup {w}
    /\ UNCHANGED <<account, record, working, syncing, owner, robbed>>

\* A deletion may fail.
Close(w) ==
    /\ w \in closing
    /\ closing' = closing \ {w}
    /\ account' \in {account, "over"}
    /\ record' \in Records
    /\ UNCHANGED <<working, syncing, owner, robbed>>

Next ==
    \/ \E w \in Workers :
         \/ Create(w) \/ Arrive(w) \/ Write(w) \/ Leave(w)
         \/ Begin(w) \/ End(w) \/ Reschedule(w)
         \/ StartClose(w) \/ Close(w)
    \/ Expire \/ Die

Spec == Init /\ [][Next]_vars

-----------------------------------------------------------------------------
\* At most one sync runs, and it owns the lock.
Exclusive ==
    robbed \/ /\ syncing \subseteq owner
              /\ \A v, w \in syncing : v = w
=============================================================================
