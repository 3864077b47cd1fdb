---------------------------- MODULE SyncScheduler ----------------------------
(***************************************************************************)
(* The connector's sync scheduler for ONE cloud account: the account's row *)
(* in PostgreSQL, its polling schedule and its sync lock in Redis, the     *)
(* monitor loop of each connector replica, and the HTTP handlers that      *)
(* create, patch, delete, rotate and sync the account on demand            *)
(* (services/connector/app/scheduler/sync_scheduler.py,                    *)
(* api/routes/accounts.py, services/account_service.py).                   *)
(*                                                                         *)
(* One action per stretch of code between two awaits that matter.  The ORM *)
(* sessions never refresh a row they have read and write back only the     *)
(* attributes whose value they changed, so every handler keeps the view of *)
(* the row it read.                                                        *)
(***************************************************************************)
EXTENDS Naturals, FiniteSets

CONSTANTS
    Procs,         \* connector replicas
    Slots,         \* concurrent requests per replica, the bound on requests
    Outcomes,      \* bound: the ends of a sync that are explored
    AuthThreshold, \* consecutive errors after which auth errors stop polling;
                   \* also the bound at which consecutive_errors saturates
    MaxCrashes,    \* bound: crashes (or stops) of replicas
    MayPatch,      \* PATCH requests change the polling interval
    MayRotate,     \* credential rotations
    Overruns,      \* a sync may outlive the TTL of its lock: nothing stops it
    KeyExpires,    \* the uptime exceeds the 7-day TTL of the schedule key
    RedisMayFail,  \* the Redis calls whose failure the code handles may fail
    IsAws          \* the account's provider is AWS

ASSUME SchedulerAssumption ==
    /\ "monitor" \notin Slots
    /\ Outcomes \subseteq {"ok", "partial", "error", "auth"}
    /\ AuthThreshold \in Nat \ {0}
    /\ MaxCrashes \in Nat
    /\ {MayPatch, MayRotate, Overruns, KeyExpires, RedisMayFail, IsAws} \subseteq BOOLEAN

Monitors == Procs \X {"monitor"}
Requests == Procs \X Slots
Tasks == Monitors \cup Requests
ProcOf(t) == t[1]

Status == {"pending", "active", "error", "partial_sync", "auth_failed", "paused"}
Pollable == {"active", "pending", "error", "partial_sync"}
Restored == {"active", "pending"}
OutcomeKinds == {"ok", "partial", "error", "auth"}
Steps == {"idle", "queued", "syncing", "saving", "saved", "flushing",
          "createSchedule", "createClear", "patchSchedule", "patchClear",
          "deleting", "rotating", "seeding"}
Stages == {"begin", "clear", "load", "schedule", "unlock", "seed"}

VARIABLES
    row,      \* the connector_cloud_accounts row
    schedule, \* connector:schedule:<id>: "waiting" and "due" have last_sync_at
    lock,     \* connector:sync_lock:<id>: {} or the task that set it (the stored
              \* value is "1": the code cannot tell whose it is)
    task,     \* the monitor loops and the requests
    up,       \* the replicas that run
    start,    \* how far a replica that does not run is with start()
    crashes,
    breached  \* history: the lock of a running sync was taken from it, and
              \* some sync has been running ever since

vars == <<row, schedule, lock, task, up, start, crashes, breached>>

View == [status : Status, errs : 0..AuthThreshold]
NoView == [status |-> "pending", errs |-> 0]
GoneRow == [state |-> "gone", status |-> "pending", errs |-> 0]
Idle == [pc |-> "idle", base |-> NoView, view |-> NoView, out |-> "ok",
         raised |-> FALSE]

TypeOK ==
    /\ row \in [state : {"new", "live", "deleted", "gone"},
                status : Status, errs : 0..AuthThreshold]
    /\ schedule \in {"none", "unseeded", "waiting", "due"}
    /\ lock \in {{}} \cup {{t} : t \in Tasks}
    /\ task \in [Tasks -> [pc : Steps, base : View, view : View,
                           out : OutcomeKinds, raised : BOOLEAN]]
    /\ up \in [Procs -> BOOLEAN]
    /\ start \in [Procs -> Stages]
    /\ crashes \in 0..MaxCrashes
    /\ breached \in BOOLEAN

\* A deployment without the account, or a replica that starts over an account
\* that was there before it and a Redis that was emptied.
Init ==
    /\ row \in {[state |-> s, status |-> "pending", errs |-> 0] : s \in {"new", "live"}}
    /\ schedule = "none"
    /\ lock = {}
    /\ task = [t \in Tasks |-> Idle]
    /\ up \in [Procs -> BOOLEAN]
    /\ row.state = "live" => \E p \in Procs : ~up[p]
    /\ start = [p \in Procs |-> "begin"]
    /\ crashes = 0
    /\ breached = FALSE

-----------------------------------------------------------------------------
Holding == {t \in Tasks : task[t].pc \in {"syncing", "saving", "saved"}}

Seen == [status |-> row.status, errs |-> row.errs]

At(t, pc) == task[t].pc = pc
Goto(t, pc) == task' = [task EXCEPT ![t].pc = pc]
Done(t) == task' = [task EXCEPT ![t] = Idle]

\* An ORM flush: the attributes changed in memory, and no other, are written.
Flushed(old, new, errsAssigned) ==
    [row EXCEPT !.status = IF new.status = old.status THEN @ ELSE new.status,
                !.errs = IF errsAssigned THEN new.errs ELSE @]

\* Removing the lock key, whoever set it.
FreeLock ==
    /\ lock' = {}
    /\ breached' = (breached \/ lock \cap Holding # {})

\* ~~~ Account requests ~~~

\* create_account up to its commit; a failed connectivity check leaves the
\* account "pending".
Create(t) ==
    /\ At(t, "idle") /\ up[ProcOf(t)]
    /\ row.state = "new"
    /\ \E s \in {"active", "pending"} :
         row' = [state |-> "live", status |-> s, errs |-> 0]
    /\ Goto(t, "createSchedule")
    /\ UNCHANGED <<schedule, lock, up, start, crashes, breached>>

\* Faulty: the lookup does not filter deleted_at.
PatchDeleted(t) ==
    /\ MayPatch
    /\ At(t, "idle") /\ up[ProcOf(t)]
    /\ row.state \in {"live", "deleted"}
    /\ Goto(t, "patchSchedule")
    /\ UNCHANGED <<row, schedule, lock, up, start, crashes, breached>>

Patch(t) ==
    /\ MayPatch
    /\ At(t, "idle") /\ up[ProcOf(t)]
    /\ row.state = "live"
    /\ Goto(t, "patchSchedule")
    /\ UNCHANGED <<row, schedule, lock, up, start, crashes, breached>>

\* schedule_account: the hash is merged into whatever is there, so a
\* last_sync_at survives.
Schedule(t) ==
    /\ \/ At(t, "createSchedule") /\ Goto(t, "createClear")
       \/ At(t, "patchSchedule") /\ Goto(t, "patchClear")
    /\ schedule' = IF schedule = "none" THEN "unseeded" ELSE schedule
    /\ UNCHANGED <<row, lock, up, start, crashes, breached>>

\* schedule_account's second half clears the "stale" lock.  Registration then
\* starts the initial sync.
ClearLock(t) ==
    /\ \/ At(t, "createClear") /\ Goto(t, "queued")
       \/ At(t, "patchClear") /\ Done(t)
    /\ FreeLock
    /\ UNCHANGED <<row, schedule, up, start, crashes>>

\* _register_with_scheduler swallows a Redis error: no schedule, no sync.
RegisterFails(t) ==
    /\ RedisMayFail
    /\ At(t, "createSchedule")
    /\ Done(t)
    /\ UNCHANGED <<row, schedule, lock, up, start, crashes, breached>>

\* Faulty: the lookup does not filter deleted_at.
SyncNowDeleted(t) ==
    /\ At(t, "idle") /\ up[ProcOf(t)]
    /\ row.state \in {"live", "deleted"}
    /\ Goto(t, "queued")
    /\ UNCHANGED <<row, schedule, lock, up, start, crashes, breached>>

\* POST .../sync: load the live row and start trigger_sync in the background.
SyncNow(t) ==
    /\ At(t, "idle") /\ up[ProcOf(t)]
    /\ row.state = "live"
    /\ Goto(t, "queued")
    /\ UNCHANGED <<row, schedule, lock, up, start, crashes, breached>>

\* delete_account cancels the schedule first.  Running syncs are registered
\* nowhere, so nothing stops them.
Delete(t) ==
    /\ At(t, "idle") /\ up[ProcOf(t)]
    /\ row.state \in {"live", "deleted"}
    /\ task' = [task EXCEPT ![t].pc = "deleting", ![t].base = [Seen EXCEPT !.errs = 0]]
    /\ \/ schedule' = "none"
       \/ RedisMayFail /\ UNCHANGED schedule
    /\ UNCHANGED <<row, lock, up, start, crashes, breached>>

\* ... and, consumers, credentials and events later, tombstones or removes
\* the row.  For AWS it calls a method that does not exist and ends in a 500.
DeleteCommit(t) ==
    /\ At(t, "deleting")
    /\ \/ /\ ~IsAws /\ row.state # "gone"
          /\ \/ row' = [Flushed(task[t].base, [status |-> "paused"], FALSE)
                          EXCEPT !.state = "deleted"]
             \/ row' = GoneRow
       \/ /\ IsAws \/ row.state = "gone"
          /\ UNCHANGED row
    /\ Done(t)
    /\ UNCHANGED <<schedule, lock, up, start, crashes, breached>>

Rotate(t) ==
    /\ MayRotate
    /\ At(t, "idle") /\ up[ProcOf(t)]
    /\ row.state = "live"
    /\ task' = [task EXCEPT ![t].pc = "rotating", ![t].base = Seen]
    /\ UNCHANGED <<row, schedule, lock, up, start, crashes, breached>>

\* rotate_credentials after the connectivity check of the new credentials.
RotateCommit(t, connects) ==
    /\ At(t, "rotating")
    /\ row' = IF row.state = "gone" THEN row
              ELSE IF connects
              THEN Flushed(task[t].base, [status |-> "active", errs |-> 0],
                           task[t].base.errs # 0)
              ELSE Flushed(task[t].base, [status |-> "pending"], FALSE)
    /\ Done(t)
    /\ UNCHANGED <<schedule, lock, up, start, crashes, breached>>

\* ~~~ The monitor loop ~~~

\* The tick reads the hash and finds no last_sync_at ...
FindUnseeded(m) ==
    /\ At(m, "idle") /\ up[ProcOf(m)]
    /\ schedule = "unseeded"
    /\ Goto(m, "seeding")
    /\ UNCHANGED <<row, schedule, lock, up, start, crashes, breached>>

\* ... and writes one, which recreates the hash of a schedule cancelled meanwhile.
Seed(m) ==
    /\ At(m, "seeding")
    /\ schedule' = "waiting"
    /\ Done(m)
    /\ UNCHANGED <<row, lock, up, start, crashes, breached>>

\* The account is due: load it in a session that stays open during the sync.
Poll(m) ==
    /\ At(m, "idle") /\ up[ProcOf(m)]
    /\ schedule = "due"
    /\ row.state = "live" /\ row.status \in Pollable
    /\ task' = [task EXCEPT ![m].pc = "queued", ![m].base = Seen]
    /\ UNCHANGED <<row, schedule, lock, up, start, crashes, breached>>

ClearSchedule(m) ==
    /\ At(m, "idle") /\ up[ProcOf(m)]
    /\ schedule = "due"
    /\ row.state # "live"
    /\ schedule' = "none"
    /\ UNCHANGED <<row, lock, task, up, start, crashes, breached>>

\* ~~~ trigger_sync ~~~

\* The monitor stamps last_sync_at first, which recreates the hash of a
\* schedule cancelled meanwhile.
Stamp(t) ==
    schedule' = IF t \in Monitors THEN "waiting" ELSE schedule

Acquire(t) ==
    /\ At(t, "queued")
    /\ lock = {}
    /\ lock' = {t}
    /\ Stamp(t)
    /\ Goto(t, "syncing")
    /\ UNCHANGED <<row, up, start, crashes, breached>>

\* Faulty: the early return is inside the try whose finally deletes the lock.
BusyReleasing(t) ==
    /\ At(t, "queued")
    /\ lock # {}
    /\ lock' = {}
    /\ Stamp(t)
    /\ Done(t)
    /\ UNCHANGED <<row, up, start, crashes, breached>>

\* "Sync already in progress": nothing is recorded.
Busy(t) ==
    /\ At(t, "queued")
    /\ lock # {}
    /\ Stamp(t)
    /\ Done(t)
    /\ UNCHANGED <<row, lock, up, start, crashes, breached>>

\* Discovery returned or raised, and _update_account_sync_status has read the
\* row.  What raises is recorded as one error with nothing discovered; only the
\* monitor still has something to lose by it.
Discovered(t) ==
    /\ At(t, "syncing")
    /\ \E o \in Outcomes, r \in BOOLEAN :
         /\ r => o \in {"error", "auth"} /\ t \in Monitors
         /\ task' = [task EXCEPT
              ![t].pc = IF row.state = "gone" THEN "saved" ELSE "saving",
              ![t].base = IF row.state = "gone" THEN NoView ELSE @,
              ![t].view = IF row.state = "gone" THEN NoView ELSE Seen,
              ![t].out = o,
              ![t].raised = r]
    /\ UNCHANGED <<row, schedule, lock, up, start, crashes, breached>>

\* Faulty: a sync with errors writes the name of its outcome, "partial", where
\* the account's status is an enumeration.
AfterUnnamed(o, v) ==
    IF o = "ok" THEN [status |-> "active", errs |-> 0]
    ELSE [status |-> o, errs |-> v.errs]

\* The status and error count that outcome o leaves on a row read as v.
After(o, v) ==
    LET n == IF v.errs < AuthThreshold THEN v.errs + 1 ELSE v.errs
    IN  CASE o = "ok"      -> [status |-> "active", errs |-> 0]
          [] o = "partial" -> [status |-> "partial_sync", errs |-> n]
          [] o = "error"   -> [status |-> "error", errs |-> n]
          [] o = "auth"    -> [status |-> IF n >= AuthThreshold THEN "auth_failed"
                                          ELSE v.status,
                               errs |-> n]

\* The commit of _update_account_sync_status, which copies the new values to
\* the caller's account object.  A row removed meanwhile makes it raise.  Only
\* the monitor's object is still attached to a session, and only a trigger_sync
\* that does not raise lets that session commit.
Save(t) ==
    /\ At(t, "saving")
    /\ LET v == task[t].view
           new == After(task[t].out, v)
           attached == t \in Monitors /\ ~task[t].raised /\ row.state # "gone"
       IN  /\ row' = IF row.state = "gone" THEN row
                     ELSE Flushed(v, new, task[t].out # "ok" \/ v.errs # 0)
           /\ task' = [task EXCEPT ![t] =
                         [Idle EXCEPT !.pc = "saved",
                                      !.base = IF attached THEN task[t].base ELSE NoView,
                                      !.view = IF attached THEN new ELSE NoView]]
    /\ UNCHANGED <<schedule, lock, up, start, crashes, breached>>

\* The finally clause deletes the lock key, whoever set it.
Release(t) ==
    /\ At(t, "saved")
    /\ lock' = {}
    /\ breached' = (breached /\ Holding # {t})
    /\ IF t \in Monitors THEN task' = [task EXCEPT ![t].pc = "flushing",
                                                   ![t].out = "ok",
                                                   ![t].raised = FALSE]
                         ELSE Done(t)
    /\ UNCHANGED <<row, schedule, up, start, crashes>>

\* The monitor's own session commits on exit: the attributes trigger_sync
\* changed on its account object are written a second time, without the lock.
Flush(m) ==
    /\ At(m, "flushing")
    /\ LET b == task[m].base  v == task[m].view
       IN  row' = IF row.state = "gone" THEN row
                  ELSE Flushed(b, v, v.errs # b.errs \/ v.errs = AuthThreshold)
    /\ Done(m)
    /\ UNCHANGED <<schedule, lock, up, start, crashes, breached>>

\* ~~~ Replicas, clocks and Redis ~~~

\* A crash, or stop(), which has no task to cancel: everything in flight dies.
Crash(p) ==
    /\ up[p]
    /\ crashes < MaxCrashes
    /\ crashes' = crashes + 1
    /\ up' = [up EXCEPT ![p] = FALSE]
    /\ task' = [t \in Tasks |-> IF ProcOf(t) = p THEN Idle ELSE task[t]]
    /\ breached' = (breached /\ \E t \in Holding : ProcOf(t) # p)
    /\ UNCHANGED <<row, schedule, lock, start>>

\* A replica that is still starting serves no request and runs no monitor.
CrashStarting(p) ==
    /\ ~up[p] /\ start[p] # "begin"
    /\ crashes < MaxCrashes
    /\ crashes' = crashes + 1
    /\ start' = [start EXCEPT ![p] = "begin"]
    /\ UNCHANGED <<row, schedule, lock, task, up, breached>>

\* start() takes its stages one await at a time while other replicas work on.
Starting(p, s) == ~up[p] /\ start[p] = s
Goes(p, s) == start' = [start EXCEPT ![p] = s] /\ UNCHANGED <<row, task, up, crashes>>
Starts(p) ==
    /\ up' = [up EXCEPT ![p] = TRUE]
    /\ start' = [start EXCEPT ![p] = "begin"]
    /\ UNCHANGED <<row, task, crashes>>

\* _clear_stale_locks: KEYS, then DEL of whatever now is under the key that was
\* found; a Redis error is swallowed.
FindLocks(p) ==
    /\ Starting(p, "begin")
    /\ \/ lock # {} /\ Goes(p, "clear")
       \/ (lock = {} \/ RedisMayFail) /\ Goes(p, "load")
    /\ UNCHANGED <<schedule, lock, breached>>

ClearLocks(p) ==
    /\ Starting(p, "clear")
    /\ Goes(p, "load")
    /\ \/ FreeLock
       \/ RedisMayFail /\ UNCHANGED <<lock, breached>>
    /\ UNCHANGED schedule

\* _restore_schedules_from_db: the live accounts of two statuses are read once,
\* then scheduled, with their lock cleared, and seeded; an error ends the loop.
LoadAccounts(p) ==
    /\ Starting(p, "load")
    /\ IF row.state = "live" /\ row.status \in Restored THEN Goes(p, "schedule")
                                                        ELSE Starts(p)
    /\ UNCHANGED <<schedule, lock, breached>>

RestoreSchedule(p) ==
    /\ Starting(p, "schedule")
    /\ Goes(p, "unlock")
    /\ schedule' = IF schedule = "none" THEN "unseeded" ELSE schedule
    /\ UNCHANGED <<lock, breached>>

RestoreUnlock(p) ==
    /\ Starting(p, "unlock")
    /\ Goes(p, "seed")
    /\ FreeLock
    /\ UNCHANGED schedule

RestoreSeed(p) ==
    /\ Starting(p, "seed")
    /\ Starts(p)
    /\ schedule' = "waiting"
    /\ UNCHANGED <<lock, breached>>

RestoreFails(p) ==
    /\ RedisMayFail
    /\ ~up[p] /\ start[p] \in {"load", "schedule", "unlock", "seed"}
    /\ Starts(p)
    /\ UNCHANGED <<schedule, lock, breached>>

Restart(p) ==
    \/ FindLocks(p) \/ ClearLocks(p) \/ LoadAccounts(p)
    \/ RestoreSchedule(p) \/ RestoreUnlock(p) \/ RestoreSeed(p) \/ RestoreFails(p)

\* The polling interval elapses.
Due ==
    /\ schedule = "waiting"
    /\ schedule' = "due"
    /\ UNCHANGED <<row, lock, task, up, start, crashes, breached>>

\* The TTL of the lock is twice the sync timeout and a minute, but nothing
\* enforces that timeout on a sync.
LockExpires ==
    /\ lock # {}
    /\ lock \cap Holding # {} => Overruns
    /\ FreeLock
    /\ UNCHANGED <<row, schedule, task, up, start, crashes>>

\* Only schedule_account sets the key's TTL; polling does not renew it.
ScheduleExpires ==
    /\ KeyExpires
    /\ schedule # "none"
    /\ schedule' = "none"
    /\ UNCHANGED <<row, lock, task, up, start, crashes, breached>>

Request(t) == Create(t) \/ Patch(t) \/ SyncNow(t) \/ Delete(t) \/ Rotate(t)

Handle(t) ==
    \/ Schedule(t) \/ ClearLock(t) \/ RegisterFails(t)
    \/ DeleteCommit(t)
    \/ \E connects \in BOOLEAN : RotateCommit(t, connects)

Sync(t) == Acquire(t) \/ Busy(t) \/ Discovered(t) \/ Save(t) \/ Release(t)

Monitor(m) == FindUnseeded(m) \/ Seed(m) \/ Poll(m) \/ ClearSchedule(m) \/ Flush(m)

Next ==
    \/ \E t \in Requests : Request(t) \/ Handle(t)
    \/ \E t \in Tasks : Sync(t)
    \/ \E m \in Monitors : Monitor(m)
    \/ \E p \in Procs : Crash(p) \/ CrashStarting(p) \/ Restart(p)
    \/ Due \/ LockExpires \/ ScheduleExpires

Spec == Init /\ [][Next]_vars

(***************************************************************************)
(* Fairness: a started handler or sync goes on (each provider call has a   *)
(* timeout of its own), the monitor loop ticks every 30 seconds, a crashed *)
(* replica is restarted by the orchestrator, polling intervals elapse and  *)
(* Redis expires what nobody uses.  No request is ever bound to come.      *)
(***************************************************************************)
HandleIsFair(t) == WF_vars(Handle(t))
SyncIsFair(t) == WF_vars(Sync(t))
MonitorIsFair(m) == WF_vars(Monitor(m))
RestartIsFair(p) == WF_vars(Restart(p))

FairSpec ==
    /\ Spec
    /\ \A t \in Requests : HandleIsFair(t)
    /\ \A t \in Tasks : SyncIsFair(t)
    /\ \A m \in Monitors : MonitorIsFair(m)
    /\ \A p \in Procs : RestartIsFair(p)
    /\ WF_vars(Due)
    /\ WF_vars(LockExpires)

-----------------------------------------------------------------------------
(***************************************************************************)
(* Properties.                                                             *)
(***************************************************************************)

\* Two syncs of the account run at once only after the lock of a running one
\* was taken away by its TTL, a reschedule or another replica's start; SET NX
\* and the unconditional DELETE of the finally clause add no way of their own.
OverlapNeedsBreach ==
    breached \/ \A t, u \in Holding : t = u

\* A sync that nobody robbed of its lock still owns it, so its own DELETE
\* never frees another sync's lock.
HolderOwnsLock ==
    breached \/ Holding \subseteq lock

\* The two halves of mutual exclusion.
LockIsOurs == OverlapNeedsBreach /\ HolderOwnsLock

\* The lock never blocks the account for ever, whatever crashes.
LockIsFreed == lock # {} ~> lock = {}

\* After a delete the schedule goes and stays away, even if a patch, a
\* creation or a polling tick that was under way wrote it again.
DeletedIsUnscheduled ==
    row.state \in {"deleted", "gone"} ~> [](schedule = "none")

\* A live account with a schedule and a status the monitor polls is synced
\* again and again.
ScheduledIsSynced ==
    row.state = "live" /\ row.status \in Pollable /\ schedule # "none"
      ~> \/ \E t \in Tasks : task[t].pc = "syncing"
         \/ row.state # "live"
         \/ row.status \notin Pollable
         \/ schedule = "none"

\* What a monitor has to do of its own.
MonitorHasWork(m) ==
    \/ task[m].pc \in {"flushing", "seeding"}
    \/ /\ At(m, "idle") /\ up[ProcOf(m)]
       /\ \/ schedule = "unseeded"
          \/ schedule = "due" /\ (row.state = "live" => row.status \in Pollable)

CanHandle(t) == ENABLED <<Handle(t)>>_vars
CanSync(t) == ENABLED <<Sync(t)>>_vars
CanTick(m) == ENABLED <<Monitor(m)>>_vars

\* No handler, sync, monitor loop, crashed replica or key is stuck.
SchedulerGoesOn ==
    /\ \A t \in Requests :
         task[t].pc \in {"createSchedule", "patchSchedule"} => CanHandle(t)
    /\ \A t \in Tasks :
         task[t].pc \in {"queued", "syncing", "saving", "saved"} => CanSync(t)
    /\ \A m \in Monitors : MonitorHasWork(m) => CanTick(m)
    /\ \A p \in Procs : ~up[p] => ENABLED <<Restart(p)>>_vars
    /\ schedule = "waiting" => ENABLED <<Due>>_vars
    /\ lock # {} /\ (lock \cap Holding # {} => Overruns) => ENABLED <<LockExpires>>_vars

\* What the scheduler owes the account.
SchedulerKeepsUp ==
    []SchedulerGoesOn /\ LockIsFreed /\ DeletedIsUnscheduled /\ ScheduledIsSynced

\* Who works for the account, seen as in AccountSyncs.
AccountState == IF row.state \in {"deleted", "gone"} THEN "over" ELSE row.state
Working == {t \in Tasks : task[t].pc \notin {"idle", "deleting", "seeding"}}
Deleting == {t \in Tasks : task[t].pc = "deleting"}

Syncs == INSTANCE AccountSyncs
           WITH Workers <- Tasks, Records <- View, account <- AccountState,
                record <- Seen, working <- Working, closing <- Deleting,
                syncing <- Holding, owner <- lock, robbed <- breached

\* The handlers, the monitor loops and the lock in Redis together keep the
\* promise: whatever a handler read before its account was deleted, no new work
\* starts after it and only what was under way then may still change the row;
\* and short of a robbed lock a sync begins alone and deletes no lock but its own.
SyncsAsPromised == Syncs!Spec
=============================================================================
