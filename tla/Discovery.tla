------------------------------ MODULE Discovery ------------------------------
(***************************************************************************)
(* Full discovery of one account (services/connector/app/services/         *)
(* discovery.py): list the cloud's resources, announce them, upsert them   *)
(* and sweep the rows the listing lacks through fresh, stale and deleted.  *)
(* Incremental discovery is never reached: the cache of known resources it *)
(* needs is filled by a query that matches no row (README).                *)
(*                                                                         *)
(* Each phase is a transaction or a series of Kafka sends of its own, so   *)
(* each is one action and two syncs of the account may interleave.  Errors *)
(* of the upsert, of the sweep and of Kafka are logged and swallowed.      *)
(***************************************************************************)
EXTENDS Naturals

CONSTANTS
    Resources,
    Syncs,       \* syncs of the account that may run at once: one under the
                 \* scheduler's lock, two once that lock was breached
    Threshold,   \* stale_to_deleted_threshold
    MaxChanges,  \* bound: resources created or removed in the cloud
    Faults,      \* the faults that may happen, a subset of FaultKinds
    MaxFaults    \* bound: how many do

FaultKinds == {"partialList", "failedList", "failedUpsert", "failedSweep",
               "lostEvent", "crash"}

ASSUME DiscoveryAssumption ==
    /\ Threshold \in Nat \ {0}
    /\ MaxChanges \in Nat
    /\ MaxFaults \in Nat
    /\ Faults \subseteq FaultKinds

VARIABLES
    cloud,   \* the resources that exist at the provider
    db,      \* connector_discovered_resources
    view,    \* the resources a consumer of every event believes to exist
    sync,    \* the syncs' progress
    account, \* "live"; "deleting" once delete_account has emitted; "deleted"
    streak,  \* history: finished syncs that missed the resource in a row
    changes,
    faults   \* how many faults there were, and of which kinds

vars == <<cloud, db, view, sync, account, streak, changes, faults>>

MaxMissed == Threshold + 1  \* bound at which missed_sync_count saturates
Row == [stored : BOOLEAN, deleted : BOOLEAN,
        freshness : {"fresh", "stale", "deleted"}, missed : 0..MaxMissed]
NoRow == [stored |-> FALSE, deleted |-> FALSE, freshness |-> "fresh", missed |-> 0]
Phases == {"idle", "listing", "emitting", "upserting", "sweeping", "writing", "deleting"}
IdleSync == [phase |-> "idle", listed |-> {}, drop |-> {}, stale |-> {}]

TypeOK ==
    /\ cloud \subseteq Resources
    /\ db \in [Resources -> Row]
    /\ view \subseteq Resources
    /\ sync \in [Syncs -> [phase : Phases, listed : SUBSET Resources,
                           drop : SUBSET Resources, stale : SUBSET Resources]]
    /\ account \in {"live", "deleting", "deleted"}
    /\ streak \in [Resources -> 0..Threshold]
    /\ changes \in 0..MaxChanges
    /\ faults \in [count : 0..MaxFaults, kinds : SUBSET Faults]

Init ==
    /\ cloud \in SUBSET Resources
    /\ db = [r \in Resources |-> NoRow]
    /\ view = {}
    /\ sync = [s \in Syncs |-> IdleSync]
    /\ account = "live"
    /\ streak = [r \in Resources |-> 0]
    /\ changes = 0
    /\ faults = [count |-> 0, kinds |-> {}]

-----------------------------------------------------------------------------
Live == {r \in Resources : db[r].stored /\ ~db[r].deleted}

In(s, phase) == sync[s].phase = phase
GoTo(s, phase) == sync' = [sync EXCEPT ![s].phase = phase]
Finish(s) == sync' = [sync EXCEPT ![s] = IdleSync]

Fault(kind) ==
    /\ kind \in Faults
    /\ faults.count < MaxFaults
    /\ faults' = [count |-> faults.count + 1, kinds |-> faults.kinds \cup {kind}]

\* What comes through of a set: all of it, or only part when kind strikes.
Through(all, part, kind) ==
    \/ part = all /\ UNCHANGED faults
    \/ part # all /\ part \subseteq all /\ Fault(kind)

\* _send_event drops an event it cannot send and nothing sends it again.
Delivered(events, arrived) == Through(events, arrived, "lostEvent")

\* ~~~ The provider ~~~

CloudChanges ==
    /\ changes < MaxChanges
    /\ changes' = changes + 1
    /\ \E r \in Resources :
         cloud' = IF r \in cloud THEN cloud \ {r} ELSE cloud \cup {r}
    /\ UNCHANGED <<db, view, sync, account, streak, faults>>

\* ~~~ discover_full ~~~

\* trigger_sync has loaded the account; the row stays live until the commit of
\* its deletion.
Start(s) ==
    /\ In(s, "idle")
    /\ account # "deleted"
    /\ GoTo(s, "listing")
    /\ UNCHANGED <<cloud, db, view, account, streak, changes, faults>>

\* list_resources: the failure of one resource type is swallowed by the
\* client, and its resources are simply not in the list.
List(s) ==
    /\ In(s, "listing")
    /\ \E listed \in SUBSET cloud :
         /\ Through(cloud, listed, "partialList")
         /\ sync' = [sync EXCEPT ![s].phase = "emitting", ![s].listed = listed]
    /\ UNCHANGED <<cloud, db, view, account, streak, changes>>

\* The listing raises: one error is recorded and nothing is swept.
ListFails(s) ==
    /\ In(s, "listing")
    /\ Fault("failedList")
    /\ Finish(s)
    /\ UNCHANGED <<cloud, db, view, account, streak, changes>>

\* A resource.discovered event for every listed resource, known or not.
EmitDiscovered(s) ==
    /\ In(s, "emitting")
    /\ \E arrived \in SUBSET sync[s].listed :
         /\ Delivered(sync[s].listed, arrived)
         /\ view' = view \cup arrived
    /\ GoTo(s, "upserting")
    /\ UNCHANGED <<cloud, db, account, streak, changes>>

\* Faulty: a row found again keeps its count of misses.
SeenKeepingMisses(row) ==
    [row EXCEPT !.stored = TRUE, !.deleted = FALSE, !.freshness = "fresh"]

\* The upsert of one resource: insert, or update that resurrects and resets.
SeenRow(row) ==
    [row EXCEPT !.stored = TRUE, !.deleted = FALSE, !.freshness = "fresh", !.missed = 0]

\* Batches commit one by one; the first that fails ends the upsert, silently.
Upsert(s) ==
    /\ In(s, "upserting")
    /\ \E saved \in SUBSET sync[s].listed :
         /\ Through(sync[s].listed, saved, "failedUpsert")
         /\ db' = [r \in Resources |-> IF r \in saved THEN SeenRow(db[r]) ELSE db[r]]
    /\ streak' = [r \in Resources |-> IF r \in sync[s].listed THEN 0 ELSE streak[r]]
    /\ GoTo(s, "sweeping")
    /\ UNCHANGED <<cloud, view, account, changes>>

\* Faulty: the miss of this sync is counted twice.
OverThresholdEarly(row) == row.missed + 2 >= Threshold

OverThreshold(row) == row.missed + 1 >= Threshold

\* _mark_missing_as_deleted reads the live rows and decides ...
SweepRead(s) ==
    /\ In(s, "sweeping")
    /\ LET missing == Live \ sync[s].listed
           drop == {r \in missing : OverThreshold(db[r])}
       IN  sync' = [sync EXCEPT ![s].phase = "writing", ![s].drop = drop,
                                ![s].stale = missing \ drop]
    /\ UNCHANGED <<cloud, db, view, account, streak, changes, faults>>

SweepFails(s) ==
    /\ In(s, "sweeping")
    /\ Fault("failedSweep")
    /\ Finish(s)
    /\ UNCHANGED <<cloud, db, view, account, streak, changes>>

\* Faulty: a freshness state outside the enumeration.
MissedUnknown(row, freshness, deleted) ==
    [row EXCEPT !.freshness = "missing", !.deleted = deleted]

\* Faulty: the miss is flagged and not counted.
MissedUncounted(row, freshness, deleted) ==
    [row EXCEPT !.freshness = freshness, !.deleted = deleted]

Missed(row, freshness, deleted) ==
    [row EXCEPT !.freshness = freshness, !.deleted = deleted,
                !.missed = IF @ < MaxMissed THEN @ + 1 ELSE @]

\* ... and then updates the rows it decided about, by id, whatever they are by
\* now.  The stale update does not touch is_deleted.
SweepWrite(s) ==
    /\ In(s, "writing")
    /\ db' = [r \in Resources |->
                IF r \in sync[s].drop THEN Missed(db[r], "deleted", TRUE)
                ELSE IF r \in sync[s].stale
                     THEN Missed(db[r], "stale", db[r].deleted)
                     ELSE db[r]]
    /\ streak' = [r \in Resources |->
                    IF r \in sync[s].listed \/ streak[r] = Threshold
                    THEN streak[r] ELSE streak[r] + 1]
    /\ GoTo(s, "deleting")
    /\ UNCHANGED <<cloud, view, account, changes, faults>>

\* Faulty: the rows that only became stale are announced as deleted.
EmitDeletedOfMissing(s) ==
    /\ In(s, "deleting")
    /\ \E arrived \in SUBSET (sync[s].drop \cup sync[s].stale) :
         /\ Delivered(sync[s].drop \cup sync[s].stale, arrived)
         /\ view' = view \ arrived
    /\ Finish(s)
    /\ UNCHANGED <<cloud, db, account, streak, changes>>

\* After the commit, a resource.deleted event for every row it deleted.
EmitDeleted(s) ==
    /\ In(s, "deleting")
    /\ \E arrived \in SUBSET sync[s].drop :
         /\ Delivered(sync[s].drop, arrived)
         /\ view' = view \ arrived
    /\ Finish(s)
    /\ UNCHANGED <<cloud, db, account, streak, changes>>

\* The connector dies; the scheduler starts over with a new sync.
Crash(s) ==
    /\ ~In(s, "idle")
    /\ Fault("crash")
    /\ Finish(s)
    /\ UNCHANGED <<cloud, db, view, account, streak, changes>>

\* ~~~ delete_account ~~~

\* resource.deleted for every live row; the rows stay as they are.
EmitAccountDeleted ==
    /\ account = "live"
    /\ account' = "deleting"
    /\ \E arrived \in SUBSET Live :
         /\ Delivered(Live, arrived)
         /\ view' = view \ arrived
    /\ UNCHANGED <<cloud, db, sync, streak, changes>>

DeleteAccount ==
    /\ account = "deleting"
    /\ account' = "deleted"
    /\ UNCHANGED <<cloud, db, view, sync, streak, changes, faults>>

Proceed(s) ==
    \/ List(s) \/ ListFails(s)
    \/ EmitDiscovered(s) \/ Upsert(s)
    \/ SweepRead(s) \/ SweepFails(s) \/ SweepWrite(s)
    \/ EmitDeleted(s)

Next ==
    \/ CloudChanges
    \/ \E s \in Syncs : Start(s) \/ Proceed(s) \/ Crash(s)
    \/ EmitAccountDeleted \/ DeleteAccount

Spec == Init /\ [][Next]_vars

(***************************************************************************)
(* Fairness: the scheduler polls a live account again and again, a sync    *)
(* that started goes on.                                                   *)
(***************************************************************************)
StartIsFair(s)   == WF_vars(Start(s))
ProceedIsFair(s) == WF_vars(Proceed(s))

FairSpec ==
    /\ Spec
    /\ \A s \in Syncs : StartIsFair(s) /\ ProceedIsFair(s)

-----------------------------------------------------------------------------
(***************************************************************************)
(* Properties.                                                             *)
(***************************************************************************)

\* The freshness state machine (cloud_account.py:140): a live row is fresh
\* exactly when it has no miss, stale below the threshold, and never live with
\* its misses at the threshold.
FreshnessOK ==
    \A r \in Resources : db[r].stored =>
        /\ db[r].deleted <=> db[r].freshness = "deleted"
        /\ db[r].freshness = "fresh" <=> db[r].missed = 0
        /\ db[r].freshness = "stale" => db[r].missed < Threshold

\* A resource is marked deleted only when Threshold syncs in a row missed it:
\* one partial listing never deletes anything (discovery.py:194).  A failed
\* upsert voids it, for the row found again keeps its count (README).
DeletedAfterGrace ==
    [][ \A r \in Resources :
          r \in Live /\ db'[r].deleted /\ "failedUpsert" \notin faults.kinds
            => streak'[r] >= Threshold ]_vars

\* Nor do the consumers hear of a deletion earlier.
ForgottenAfterGrace ==
    [][ \A r \in Resources :
          /\ account = "live" /\ account' = "live"
          /\ r \in view /\ r \notin view'
          /\ "failedUpsert" \notin faults.kinds
          => streak[r] >= Threshold ]_vars

\* A deletion is announced "after commit so downstream consumers can re-query"
\* (discovery.py:280): whoever hears of it finds the row deleted.
DeletionIsCommitted ==
    [][ \A r \in Resources :
          account = "live" /\ account' = "live" /\ r \in view /\ r \notin view'
            => db[r].deleted ]_vars

\* What a consumer hears of a deletion is due and is already so in the
\* database, whatever was lost or died on the way.
ForgottenDuly == ForgottenAfterGrace /\ DeletionIsCommitted

\* The faults that lose a row or an event for good.
Lossy == {"failedUpsert", "lostEvent", "crash"}

\* A sync can start until the account is deleted, and one that started can go on.
CanStart(s)   == ENABLED <<Start(s)>>_vars
CanProceed(s) == ENABLED <<Proceed(s)>>_vars

DiscoveryGoesOn ==
    \A s \in Syncs : /\ In(s, "idle") /\ account # "deleted" => CanStart(s)
                     /\ ~In(s, "idle") => CanProceed(s)

\* When the account's resources settle, its consumers end up with exactly
\* what exists, through partial listings, failed listings and failed sweeps;
\* nothing repairs what the other faults lost.  No sync is stuck.
Converges ==
    /\ []DiscoveryGoesOn
    /\ <>[](account = "live" /\ faults.kinds \cap Lossy = {} => view = cloud)
=============================================================================
