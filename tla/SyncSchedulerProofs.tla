------------------------ MODULE SyncSchedulerProofs ------------------------
(***************************************************************************)
(* The safety of the sync lock for any number of replicas and requests and *)
(* any setting of the switches.  OverlapNeedsBreach is not inductive: that *)
(* at most one task holds says nothing of the lock the next one will find. *)
(* HolderOwnsLock is, with the types: the lock names at most one task and  *)
(* every unrobbed holder is that task.  The same invariant makes each step *)
(* one of AccountSyncs.                                                    *)
(*                                                                         *)
(* The last part is liveness: once crashes have ceased the replicas stay   *)
(* up, syncs end, and the monitor finds what is due.                       *)
(***************************************************************************)
EXTENDS SyncScheduler, TLAPS

Inv == TypeOK /\ HolderOwnsLock

\* Merging an ORM flush into the row keeps the row's type.
LEMMA FlushedType ==
    ASSUME TypeOK, NEW old, NEW new, NEW b \in BOOLEAN,
           new.status \in Status, b => new.errs \in 0..AuthThreshold
    PROVE  Flushed(old, new, b) \in [state : {"new", "live", "deleted", "gone"},
                                     status : Status, errs : 0..AuthThreshold]
  BY DEF TypeOK, Flushed

\* What a sync outcome leaves of a view is a view (sync_scheduler.py:588).
LEMMA AfterType ==
    ASSUME NEW o \in OutcomeKinds, NEW v \in View
    PROVE  After(o, v) \in View
  BY SchedulerAssumption DEF OutcomeKinds, View, After, Status

LEMMA SeenType == TypeOK => Seen \in View
  BY DEF TypeOK, Seen, View

LEMMA NoViewType == NoView \in View
  BY SchedulerAssumption DEF NoView, View, Status

LEMMA SeenTyped == TypeOK' => Seen' \in View
  BY DEF TypeOK, Seen, View

Record == [pc : Steps, base : View, view : View, out : OutcomeKinds, raised : BOOLEAN]

LEMMA IdleType == Idle \in Record
  BY NoViewType DEF Idle, Record, Steps, OutcomeKinds

LEMMA InitInv == Init => Inv
<1> SUFFICES ASSUME Init PROVE Inv
  OBVIOUS
<1>1. TypeOK
  <2>1. task \in [Tasks -> Record]
    BY IdleType DEF Init
  <2>2. row \in [state : {"new", "live", "deleted", "gone"},
                 status : Status, errs : 0..AuthThreshold]
    BY SchedulerAssumption DEF Init, Status
  <2>3. /\ up \in [Procs -> BOOLEAN] /\ crashes \in 0..MaxCrashes
        /\ start \in [Procs -> Stages]
    BY SchedulerAssumption DEF Init, Stages
  <2>4. schedule = "none" /\ lock = {} /\ breached = FALSE
    BY DEF Init
  <2> QED
    BY <2>1, <2>2, <2>3, <2>4 DEF TypeOK, Record
<1>2. Holding = {}
  BY DEF Init, Holding, Idle
<1> QED
  BY <1>1, <1>2 DEF Inv, HolderOwnsLock

\* ~~~ Starting a replica ~~~

LEMMA GoneType == GoneRow \in [state : {"new", "live", "deleted", "gone"},
                               status : Status, errs : 0..AuthThreshold]
  BY SchedulerAssumption DEF GoneRow, Status

\* A step of start() leaves rows and tasks alone, and ends in the next stage or
\* with the replica running.
LEMMA RestartGoes ==
    ASSUME TypeOK, NEW p \in Procs, Restart(p)
    PROVE  /\ ~up[p] /\ UNCHANGED <<row, task, crashes>>
           /\ schedule' \in {schedule, "unseeded", "waiting"}
           /\ FreeLock \/ UNCHANGED <<lock, breached>>
           /\ \/ start' = [start EXCEPT ![p] = "begin"] /\ up' = [up EXCEPT ![p] = TRUE]
              \/ /\ up' = up
                 /\ \/ start[p] = "begin" /\ start' = [start EXCEPT ![p] = "clear"]
                    \/ start[p] \in {"begin", "clear"} /\ start' = [start EXCEPT ![p] = "load"]
                    \/ start[p] = "load" /\ start' = [start EXCEPT ![p] = "schedule"]
                    \/ start[p] = "schedule" /\ start' = [start EXCEPT ![p] = "unlock"]
                    \/ start[p] = "unlock" /\ start' = [start EXCEPT ![p] = "seed"]
<1>1. CASE FindLocks(p)
  BY <1>1 DEF FindLocks, Starting, Goes
<1>2. CASE ClearLocks(p)
  BY <1>2 DEF ClearLocks, Starting, Goes
<1>3. CASE LoadAccounts(p)
  BY <1>3 DEF LoadAccounts, Starting, Goes, Starts
<1>4. CASE RestoreSchedule(p)
  BY <1>4 DEF RestoreSchedule, Starting, Goes
<1>5. CASE RestoreUnlock(p)
  BY <1>5 DEF RestoreUnlock, Starting, Goes
<1>6. CASE RestoreSeed(p) \/ RestoreFails(p)
  BY <1>6 DEF RestoreSeed, RestoreFails, Starting, Starts
<1> QED
  BY <1>1, <1>2, <1>3, <1>4, <1>5, <1>6 DEF Restart

\* ~~~ Type correctness ~~~
LEMMA StepType == TypeOK /\ [Next]_vars => TypeOK'
<1> SUFFICES ASSUME TypeOK, [Next]_vars PROVE TypeOK'
  OBVIOUS
<1> USE SchedulerAssumption, NoViewType, IdleType, SeenType
<1>0. task \in [Tasks -> Record]
  BY DEF TypeOK, Record
<1>1. ASSUME NEW t \in Requests, Request(t) PROVE TypeOK'
  BY <1>1 DEF TypeOK, Request, Create, Patch, SyncNow, Delete, Rotate,
              Goto, Steps, Tasks, Status
<1>2. ASSUME NEW t \in Requests, Handle(t) PROVE TypeOK'
  <2> t \in Tasks
    BY DEF Tasks
  <2>1. CASE Schedule(t) \/ ClearLock(t) \/ RegisterFails(t)
    <3>1. task' \in [Tasks -> Record]
      BY <2>1, <1>0 DEF Schedule, ClearLock, RegisterFails, Goto, Done, Steps, Record
    <3>2. UNCHANGED <<row, up, start, crashes>>
      BY <2>1 DEF Schedule, ClearLock, RegisterFails
    <3>3. /\ schedule' \in {"none", "unseeded", "waiting", "due"}
          /\ lock' = lock \/ lock' = {}
          /\ breached' \in BOOLEAN
      BY <2>1 DEF Schedule, ClearLock, RegisterFails, FreeLock, TypeOK
    <3> QED
      BY <3>1, <3>2, <3>3 DEF TypeOK, Record
  <2>2. CASE DeleteCommit(t)
    <3>1. task' \in [Tasks -> Record] /\ UNCHANGED <<schedule, lock, up, start, crashes, breached>>
      BY <2>2, <1>0 DEF DeleteCommit, Done
    <3>2. row' \in [state : {"new", "live", "deleted", "gone"},
                    status : Status, errs : 0..AuthThreshold]
      <4>1. Flushed(task[t].base, [status |-> "paused"], FALSE)
              \in [state : {"new", "live", "deleted", "gone"},
                  status : Status, errs : 0..AuthThreshold]
        BY FlushedType DEF Status
      <4>2. \/ row' = row
            \/ row' = GoneRow
            \/ row' = [Flushed(task[t].base, [status |-> "paused"], FALSE)
                         EXCEPT !.state = "deleted"]
        BY <2>2 DEF DeleteCommit
      <4> QED
        BY <4>1, <4>2, GoneType DEF TypeOK
    <3> QED
      BY <3>1, <3>2 DEF TypeOK, Record
  <2>3. ASSUME NEW c \in BOOLEAN, RotateCommit(t, c) PROVE TypeOK'
    <3>1. task' \in [Tasks -> Record] /\ UNCHANGED <<schedule, lock, up, start, crashes, breached>>
      BY <2>3, <1>0 DEF RotateCommit, Done
    <3>2. row' \in [state : {"new", "live", "deleted", "gone"},
                    status : Status, errs : 0..AuthThreshold]
      <4>1. \A b \in BOOLEAN :
              Flushed(task[t].base, [status |-> "active", errs |-> 0], b)
                \in [state : {"new", "live", "deleted", "gone"},
                    status : Status, errs : 0..AuthThreshold]
        BY FlushedType DEF Status
      <4>2. Flushed(task[t].base, [status |-> "pending"], FALSE)
              \in [state : {"new", "live", "deleted", "gone"},
                  status : Status, errs : 0..AuthThreshold]
        BY FlushedType DEF Status
      <4>3. \/ row' = row
            \/ row' = Flushed(task[t].base, [status |-> "active", errs |-> 0],
                              task[t].base.errs # 0)
            \/ row' = Flushed(task[t].base, [status |-> "pending"], FALSE)
        BY <2>3 DEF RotateCommit
      <4> QED
        BY <4>1, <4>2, <4>3 DEF TypeOK
    <3> QED
      BY <3>1, <3>2 DEF TypeOK, Record
  <2> QED
    BY <1>2, <2>1, <2>2, <2>3 DEF Handle
<1>3. ASSUME NEW t \in Tasks, Sync(t) PROVE TypeOK'
  <2>1. CASE Acquire(t)
    BY <2>1 DEF TypeOK, Acquire, Goto, Stamp, Steps
  <2>2. CASE Busy(t)
    BY <2>2, <1>0 DEF TypeOK, Busy, Done, Stamp, Record
  <2>3. CASE Discovered(t)
    <3> DEFINE gone == row.state = "gone"
               pc == IF gone THEN "saved" ELSE "saving"
               base == IF gone THEN NoView ELSE task[t].base
               view == IF gone THEN NoView ELSE Seen
    <3>1. PICK o \in Outcomes, r \in BOOLEAN :
            task' = [task EXCEPT ![t].pc = pc, ![t].base = base,
                                 ![t].view = view, ![t].out = o, ![t].raised = r]
      BY <2>3 DEF Discovered
    <3>a. pc \in Steps /\ base \in View /\ view \in View
      BY <1>0 DEF Record, Steps
    <3>b. o \in OutcomeKinds
      BY SchedulerAssumption DEF OutcomeKinds
    <3> HIDE DEF pc, base, view
    <3>2. task' \in [Tasks -> Record]
      BY <3>1, <3>a, <3>b, <1>0 DEF Record
    <3> QED
      BY <2>3, <3>2 DEF TypeOK, Record, Discovered
  <2>4. CASE Save(t)
    <3> DEFINE v == task[t].view
               new == After(task[t].out, v)
    <3>1. v \in View /\ task[t].base \in View /\ task[t].out \in OutcomeKinds
      BY <1>0 DEF Record
    <3>2. new \in View
      BY <3>1, AfterType
    <3> HIDE DEF new
    <3>3. row' \in [state : {"new", "live", "deleted", "gone"},
                    status : Status, errs : 0..AuthThreshold]
      <4>1. row' = row \/ row' = Flushed(v, new, task[t].out # "ok" \/ v.errs # 0)
        BY <2>4 DEF Save, new
      <4> QED
        <5>1. new.status \in Status /\ new.errs \in 0..AuthThreshold
          BY <3>2 DEF View
        <5>2. (task[t].out # "ok" \/ v.errs # 0) \in BOOLEAN
          OBVIOUS
        <5>3. Flushed(v, new, task[t].out # "ok" \/ v.errs # 0)
                \in [state : {"new", "live", "deleted", "gone"},
                    status : Status, errs : 0..AuthThreshold]
          BY <5>1, <5>2, FlushedType
        <5> QED
          BY <4>1, <5>3 DEF TypeOK
    <3>4. \E r \in Record : task' = [task EXCEPT ![t] = r]
      <4> DEFINE b == t \in Monitors /\ ~task[t].raised /\ row.state # "gone"
                 r == [Idle EXCEPT !.pc = "saved",
                         !.base = IF b THEN task[t].base ELSE NoView,
                         !.view = IF b THEN new ELSE NoView]
      <4>1. task' = [task EXCEPT ![t] = r]
        BY <2>4 DEF Save, new
      <4>2. r \in Record
        BY <3>1, <3>2 DEF Record, Idle, Steps
      <4> QED
        BY <4>1, <4>2
    <3>5. task' \in [Tasks -> Record]
      BY <3>4, <1>0
    <3> QED
      BY <2>4, <3>3, <3>5 DEF TypeOK, Record, Save
  <2>5. CASE Release(t)
    BY <2>5, <1>0 DEF TypeOK, Release, Done, Steps, OutcomeKinds, Record
  <2> QED
    BY <1>3, <2>1, <2>2, <2>3, <2>4, <2>5 DEF Sync
<1>4. ASSUME NEW m \in Monitors, Monitor(m) PROVE TypeOK'
  <2> m \in Tasks
    BY DEF Tasks
  <2>1. CASE FindUnseeded(m) \/ Poll(m) \/ ClearSchedule(m)
    BY <2>1 DEF TypeOK, FindUnseeded, Goto, Poll, ClearSchedule, Steps
  <2>3. CASE Seed(m)
    BY <2>3, <1>0 DEF TypeOK, Seed, Done, Record
  <2>2. CASE Flush(m)
    <3>1. task[m].view \in View
      BY <1>0 DEF Record
    <3>2. task' \in [Tasks -> Record]
      BY <2>2, <1>0 DEF Flush, Done
    <3>3. row' \in [state : {"new", "live", "deleted", "gone"},
                    status : Status, errs : 0..AuthThreshold]
      BY <2>2, <3>1 DEF Flush, Flushed, TypeOK, View
    <3> QED
      BY <2>2, <3>2, <3>3 DEF TypeOK, Record, Flush
  <2> QED
    BY <1>4, <2>1, <2>2, <2>3 DEF Monitor
<1>5. ASSUME NEW p \in Procs, Crash(p) PROVE TypeOK'
  BY <1>5, <1>0 DEF TypeOK, Crash, Record
<1>9. ASSUME NEW p \in Procs, CrashStarting(p) PROVE TypeOK'
  BY <1>9 DEF TypeOK, CrashStarting, Stages
<1>6. ASSUME NEW p \in Procs, Restart(p) PROVE TypeOK'
  <2>1. /\ UNCHANGED <<row, task, crashes>>
        /\ schedule' \in {schedule, "unseeded", "waiting"}
        /\ FreeLock \/ UNCHANGED <<lock, breached>>
    BY <1>6, RestartGoes
  <2>2. lock' \in {{}} \cup {{t} : t \in Tasks} /\ breached' \in BOOLEAN
    BY <2>1 DEF TypeOK, FreeLock
  <2>3. up' \in [Procs -> BOOLEAN] /\ start' \in [Procs -> Stages]
    BY <1>6, RestartGoes DEF TypeOK, Stages
  <2> QED
    BY <2>1, <2>2, <2>3 DEF TypeOK
<1>7. CASE Due \/ LockExpires \/ ScheduleExpires
  BY <1>7 DEF TypeOK, Due, LockExpires, ScheduleExpires, FreeLock
<1>8. CASE UNCHANGED vars
  BY <1>8 DEF TypeOK, vars
<1> QED
  BY <1>1, <1>2, <1>3, <1>4, <1>5, <1>6, <1>7, <1>8, <1>9 DEF Next

\* ~~~ The lock ~~~

NotHolding == Steps \ {"syncing", "saving", "saved"}

\* A task that moves to a step outside the locked section adds no holder.
LEMMA MovesOut ==
    ASSUME task \in [Tasks -> Record], NEW t \in Tasks, NEW pc \in NotHolding,
           \/ task' = [task EXCEPT ![t].pc = pc]
           \/ task' = [task EXCEPT ![t] = Idle]
           \/ \E b : task' = [task EXCEPT ![t].pc = pc, ![t].base = b]
    PROVE  Holding' \subseteq Holding
  BY DEF Holding, Record, NotHolding, Idle

\* A step that touches neither the lock nor breached, and starts no sync,
\* keeps HolderOwnsLock.
LEMMA QuietStep ==
    ASSUME HolderOwnsLock, UNCHANGED <<lock, breached>>, Holding' \subseteq Holding
    PROVE  HolderOwnsLock'
  BY DEF HolderOwnsLock

\* Taking the lock away sets breached if some holder loses it.
LEMMA FreeStep ==
    ASSUME HolderOwnsLock, FreeLock, Holding' \subseteq Holding
    PROVE  HolderOwnsLock'
  BY DEF HolderOwnsLock, FreeLock

LEMMA StepLock == Inv /\ [Next]_vars => HolderOwnsLock'
<1> SUFFICES ASSUME TypeOK, HolderOwnsLock, [Next]_vars PROVE HolderOwnsLock'
  BY DEF Inv
<1>0. task \in [Tasks -> Record]
  BY DEF TypeOK, Record
<1>1. ASSUME NEW t \in Requests, Request(t) PROVE HolderOwnsLock'
  <2>1. \E pc \in NotHolding :
          \/ task' = [task EXCEPT ![t].pc = pc]
          \/ \E b : task' = [task EXCEPT ![t].pc = pc, ![t].base = b]
    BY <1>1 DEF Request, Create, Patch, SyncNow, Delete, Rotate, Goto,
                NotHolding, Steps
  <2>2. Holding' \subseteq Holding
    BY <2>1, <1>0, MovesOut DEF Tasks
  <2>3. UNCHANGED <<lock, breached>>
    BY <1>1 DEF Request, Create, Patch, SyncNow, Delete, Rotate
  <2> QED
    BY <2>2, <2>3, QuietStep
<1>2. ASSUME NEW t \in Requests, Handle(t) PROVE HolderOwnsLock'
  <2>1. \E pc \in NotHolding :
          \/ task' = [task EXCEPT ![t].pc = pc]
          \/ task' = [task EXCEPT ![t] = Idle]
    <3>1. \A pc \in {"createClear", "patchClear", "queued", "idle"} : pc \in NotHolding
      BY DEF NotHolding, Steps
    <3>2. CASE Schedule(t) \/ ClearLock(t)
      BY <3>1, <3>2 DEF Schedule, ClearLock, Goto, Done
    <3>3. CASE RegisterFails(t) \/ DeleteCommit(t) \/ \E c \in BOOLEAN : RotateCommit(t, c)
      BY <3>1, <3>3 DEF RegisterFails, DeleteCommit, RotateCommit, Done
    <3> QED
      BY <1>2, <3>2, <3>3 DEF Handle
  <2>2. Holding' \subseteq Holding
    BY <2>1, <1>0, MovesOut DEF Tasks
  <2>3. FreeLock \/ UNCHANGED <<lock, breached>>
    BY <1>2 DEF Handle, Schedule, ClearLock, RegisterFails, DeleteCommit,
                RotateCommit
  <2> QED
    BY <2>2, <2>3, QuietStep, FreeStep
<1>3. ASSUME NEW t \in Tasks, Sync(t) PROVE HolderOwnsLock'
  <2>1. CASE Acquire(t)
    <3>1. Holding' = Holding \cup {t}
      BY <2>1, <1>0 DEF Acquire, Goto, At, Holding, Record
    <3>2. breached \/ Holding = {}
      BY <2>1 DEF Acquire, HolderOwnsLock
    <3> QED
      BY <2>1, <3>1, <3>2 DEF Acquire, HolderOwnsLock
  <2>2. CASE Busy(t)
    <3>1. Holding' \subseteq Holding
      BY <2>2, <1>0 DEF Busy, Done, Idle, Holding
    <3> QED
      BY <2>2, <3>1, QuietStep DEF Busy
  <2>3. CASE Discovered(t)
    <3>1. Holding' \subseteq Holding
      BY <2>3, <1>0 DEF Discovered, At, Holding
    <3> QED
      BY <2>3, <3>1, QuietStep DEF Discovered
  <2>4. CASE Save(t)
    <3>1. Holding' \subseteq Holding
      BY <2>4, <1>0 DEF Save, At, Holding
    <3> QED
      BY <2>4, <3>1, QuietStep DEF Save
  <2>5. CASE Release(t)
    <3>1. Holding' = Holding \ {t}
      <4>1. task'[t].pc \in {"flushing", "idle"}
        BY <2>5, <1>0 DEF Release, Done, Idle, Record
      <4>2. \A u \in Tasks \ {t} : task'[u] = task[u]
        BY <2>5, <1>0 DEF Release, Done
      <4> QED
        BY <4>1, <4>2 DEF Holding
    <3>2. t \in Holding
      BY <2>5 DEF Release, At, Holding
    <3>3. breached \/ Holding = {t}
      BY <3>2 DEF HolderOwnsLock, TypeOK
    <3> QED
      BY <2>5, <3>1, <3>3 DEF Release, HolderOwnsLock
  <2> QED
    BY <1>3, <2>1, <2>2, <2>3, <2>4, <2>5 DEF Sync
<1>4. ASSUME NEW m \in Monitors, Monitor(m) PROVE HolderOwnsLock'
  <2>1. \/ task' = task
        \/ task' = [task EXCEPT ![m] = Idle]
        \/ task' = [task EXCEPT ![m].pc = "seeding"]
        \/ task' = [task EXCEPT ![m].pc = "queued", ![m].base = Seen]
    BY <1>4 DEF Monitor, FindUnseeded, Seed, Poll, ClearSchedule, Flush, Done, Goto
  <2>2. Holding' \subseteq Holding
    <3>1. CASE task' = task
      BY <3>1 DEF Holding
    <3>2. m \in Tasks /\ "queued" \in NotHolding /\ "seeding" \in NotHolding
      BY DEF Tasks, NotHolding, Steps
    <3> QED
      BY <2>1, <3>1, <3>2, <1>0, MovesOut
  <2>3. UNCHANGED <<lock, breached>>
    BY <1>4 DEF Monitor, FindUnseeded, Seed, Poll, ClearSchedule, Flush
  <2> QED
    BY <2>2, <2>3, QuietStep
<1>5. ASSUME NEW p \in Procs, Crash(p) PROVE HolderOwnsLock'
  <2>1. Holding' = {t \in Holding : ProcOf(t) # p}
    BY <1>5, <1>0 DEF Crash, Idle, Holding
  <2>2. UNCHANGED lock
    BY <1>5 DEF Crash
  <2>3. CASE breached /\ Holding' # {}
    BY <1>5, <2>1, <2>3 DEF Crash, HolderOwnsLock
  <2>4. CASE Holding' = {}
    BY <2>4 DEF HolderOwnsLock
  <2>5. CASE ~breached
    BY <2>1, <2>2, <2>5 DEF HolderOwnsLock
  <2> QED
    BY <2>3, <2>4, <2>5
<1>6. ASSUME NEW p \in Procs, Restart(p) \/ CrashStarting(p) PROVE HolderOwnsLock'
  <2>1. Holding' = Holding
    BY <1>6, RestartGoes DEF CrashStarting, Holding
  <2>2. FreeLock \/ UNCHANGED <<lock, breached>>
    BY <1>6, RestartGoes DEF CrashStarting
  <2> QED
    BY <2>1, <2>2, FreeStep, QuietStep
<1>7. CASE LockExpires
  BY <1>7, FreeStep DEF LockExpires, Holding
<1>8. CASE Due \/ ScheduleExpires
  BY <1>8, QuietStep DEF Due, ScheduleExpires, Holding
<1>9. CASE UNCHANGED vars
  BY <1>9, QuietStep DEF vars, Holding
<1> QED
  BY <1>1, <1>2, <1>3, <1>4, <1>5, <1>6, <1>7, <1>8, <1>9 DEF Next

THEOREM InvHolds == Spec => []Inv
<1>1. Inv /\ [Next]_vars => Inv'
  BY StepType, StepLock DEF Inv
<1> QED
  BY InitInv, <1>1, PTL DEF Spec

\* The type invariant for any number of replicas, requests and crashes.
THEOREM TypeCorrect == Spec => []TypeOK
  BY InvHolds, PTL DEF Inv

\* A sync nobody robbed of its lock owns it until it deletes it
\* (sync_scheduler.py:251, 409).
LEMMA HolderOwns == Spec => []HolderOwnsLock
  BY InvHolds, PTL DEF Inv

\* Concurrent syncs need the lock of a running sync to be taken away first
\* (sync_scheduler.py:245).
LEMMA OverlapOnlyAfterBreach == Spec => []OverlapNeedsBreach
<1>1. Inv => OverlapNeedsBreach
  BY DEF Inv, TypeOK, HolderOwnsLock, OverlapNeedsBreach
<1> QED
  BY InvHolds, <1>1, PTL

\* Mutual exclusion of the syncs, up to the three ways a lock is taken from
\* its sync (sync_scheduler.py:192, 250, 78).
THEOREM LockIsOursHolds == Spec => []LockIsOurs
  BY HolderOwns, OverlapOnlyAfterBreach, PTL DEF LockIsOurs

\* Once everything that was in flight at the deletion has ended, no sync of
\* the account starts again and its row keeps its status: at most a monitor
\* seeds a schedule that is left of it.
DeletedStaysQuiet ==
    [][ row.state = "deleted" /\ (\A t \in Tasks : task[t] = Idle)
          => /\ \A t \in Tasks : task'[t].pc \in {"idle", "deleting", "seeding"}
             /\ row' = row ]_vars

\* Once the handlers and syncs in flight at a soft delete have ended, only
\* another delete request can touch the account (accounts.py:317).
THEOREM DeletedQuiet == Spec => DeletedStaysQuiet
<1> DEFINE A == row.state = "deleted" /\ (\A t \in Tasks : task[t] = Idle)
                  => /\ \A t \in Tasks : task'[t].pc \in {"idle", "deleting", "seeding"}
                     /\ row' = row
<1>1. Inv /\ [Next]_vars => [A]_vars
  <2> SUFFICES ASSUME TypeOK, Next, row.state = "deleted",
                      \A t \in Tasks : task[t] = Idle
               PROVE  /\ \A t \in Tasks : task'[t].pc \in {"idle", "deleting", "seeding"}
                      /\ row' = row
    BY DEF Inv
  <2>0. /\ \A t \in Tasks : task[t].pc = "idle"
        /\ task \in [Tasks -> Record]
        /\ Requests \subseteq Tasks /\ Monitors \subseteq Tasks
    BY DEF Idle, TypeOK, Record, Tasks
  <2>1. ASSUME NEW t \in Requests, Request(t)
        PROVE  (\E b : task' = [task EXCEPT ![t].pc = "deleting", ![t].base = b])
               /\ row' = row
    BY <2>1 DEF Request, Create, Patch, SyncNow, Delete, Rotate
  <2>2. ASSUME NEW t \in Requests, Handle(t) PROVE FALSE
    BY <2>0, <2>2 DEF Handle, Schedule, ClearLock, RegisterFails, DeleteCommit,
                      RotateCommit, At
  <2>3. ASSUME NEW t \in Tasks, Sync(t) PROVE FALSE
    BY <2>0, <2>3 DEF Sync, Acquire, Busy, Discovered, Save, Release, At
  <2>4. ASSUME NEW m \in Monitors, Monitor(m)
        PROVE  (task' = task \/ task' = [task EXCEPT ![m].pc = "seeding"]) /\ row' = row
    BY <2>0, <2>4 DEF Monitor, FindUnseeded, Seed, Poll, ClearSchedule, Flush, At, Goto
  <2>5. ASSUME NEW p \in Procs, Crash(p)
        PROVE  row' = row /\ \A t \in Tasks : task'[t].pc = "idle"
    BY <2>0, <2>5 DEF Crash, Idle
  <2>6. ASSUME NEW p \in Procs, Restart(p) \/ CrashStarting(p)
        PROVE  task' = task /\ row' = row
    BY <2>6, RestartGoes DEF CrashStarting
  <2>7. CASE Due \/ LockExpires \/ ScheduleExpires
    BY <2>0, <2>7 DEF Due, LockExpires, ScheduleExpires
  <2>8. ASSUME NEW t \in Tasks,
               \/ \E b : task' = [task EXCEPT ![t].pc = "deleting", ![t].base = b]
               \/ task' = [task EXCEPT ![t].pc = "seeding"]
        PROVE  \A u \in Tasks : task'[u].pc \in {"idle", "deleting", "seeding"}
    BY <2>0, <2>8 DEF Record
  <2> QED
    BY <2>0, <2>1, <2>2, <2>3, <2>4, <2>5, <2>6, <2>7, <2>8 DEF Next
<1> QED
  BY InvHolds, <1>1, PTL DEF Spec, DeletedStaysQuiet

\* ~~~ The promise of AccountSyncs ~~~

LEMMA FlushedState ==
    ASSUME TypeOK, NEW old, NEW new, NEW b
    PROVE  Flushed(old, new, b).state = row.state
  BY DEF TypeOK, Flushed

\* A deletion tombstones or removes the row, or does not come about.
LEMMA DeleteEnds ==
    ASSUME TypeOK, NEW t \in Requests, DeleteCommit(t)
    PROVE  row' = row \/ row'.state \in {"deleted", "gone"}
<1>1. ASSUME NEW r, r = Flushed(task[t].base, [status |-> "paused"], FALSE)
      PROVE  [r EXCEPT !.state = "deleted"].state = "deleted"
  BY <1>1 DEF TypeOK, Flushed
<1>2. GoneRow.state = "gone"
  BY DEF GoneRow
<1>3. \/ row' = row
      \/ row' = GoneRow
      \/ row' = [Flushed(task[t].base, [status |-> "paused"], FALSE)
                   EXCEPT !.state = "deleted"]
  BY DEF DeleteCommit
<1> QED
  BY <1>1, <1>2, <1>3

Off == {"idle", "deleting", "seeding"}
On == {"syncing", "saving", "saved"}

\* Where one task's step leaves those that work and those that sync.
LEMMA OneWorks ==
    ASSUME NEW t \in Tasks, \A u \in Tasks \ {t} : task'[u] = task[u]
    PROVE  /\ task[t].pc \notin Off /\ task'[t].pc \notin Off => Working' = Working
           /\ task[t].pc \in Off /\ task'[t].pc \in Off => Working' = Working
           /\ task'[t].pc \notin Off => Working' = Working \cup {t}
           /\ task'[t].pc \in Off => Working' = Working \ {t}
  BY DEF Working, Off

LEMMA OneHolds ==
    ASSUME NEW t \in Tasks, \A u \in Tasks \ {t} : task'[u] = task[u]
    PROVE  /\ task[t].pc \in On /\ task'[t].pc \in On => Holding' = Holding
           /\ task[t].pc \notin On /\ task'[t].pc \notin On => Holding' = Holding
           /\ task'[t].pc \in On => Holding' = Holding \cup {t}
           /\ task'[t].pc \notin On => Holding' = Holding \ {t}
  BY DEF Holding, On

LEMMA OneDeletes ==
    ASSUME NEW t \in Tasks, \A u \in Tasks \ {t} : task'[u] = task[u]
    PROVE  /\ task[t].pc # "deleting" /\ task'[t].pc # "deleting" => Deleting' = Deleting
           /\ task'[t].pc = "deleting" => Deleting' = Deleting \cup {t}
           /\ task'[t].pc # "deleting" => Deleting' = Deleting \ {t}
  BY DEF Deleting

LEMMA Quiet ==
    ASSUME task' = task
    PROVE  Working' = Working /\ Holding' = Holding /\ Deleting' = Deleting
  BY DEF Working, Holding, Deleting

LEMMA SameRow ==
    ASSUME row' = row
    PROVE  AccountState' = AccountState /\ Seen' = Seen
  BY DEF AccountState, Seen

Promised == [Syncs!Next]_(Syncs!vars)

LEMMA Stutters ==
    ASSUME AccountState' = AccountState, Seen' = Seen, Working' = Working,
           Deleting' = Deleting, Holding' = Holding, UNCHANGED <<lock, breached>>
    PROVE  Promised
  BY DEF Promised, Syncs!vars

\* A merged flush writes the record and leaves the account where it is.
LEMMA Merged ==
    ASSUME TypeOK, row' = row \/ \E old, new, b : row' = Flushed(old, new, b)
    PROVE  AccountState' = AccountState
  BY FlushedState DEF AccountState

\* An accepted request is a new worker, or one more that deletes.
LEMMA RequestPromised ==
    ASSUME Inv, Inv', NEW t \in Requests, Request(t)
    PROVE  Promised
<1>0. t \in Tasks /\ task \in [Tasks -> Record] /\ Seen' \in View
  BY SeenTyped DEF Inv, TypeOK, Record, Tasks
<1>1. UNCHANGED <<lock, breached>> /\ \A u \in Tasks \ {t} : task'[u] = task[u]
  BY <1>0 DEF Request, Create, Patch, SyncNow, Delete, Rotate, Goto
<1>2. task[t].pc = "idle" /\ t \notin Working \cup Deleting
  BY <1>0 DEF Request, Create, Patch, SyncNow, Delete, Rotate, At, Working, Deleting
<1>3. CASE Create(t)
  <2>1. task'[t].pc = "createSchedule"
    BY <1>0, <1>3 DEF Create, Goto, Record
  <2>2. Working' = Working \cup {t} /\ Holding' = Holding /\ Deleting' = Deleting
    BY <1>0, <1>1, <1>2, <2>1, OneWorks, OneHolds, OneDeletes DEF Off, On
  <2>3. AccountState = "new" /\ AccountState' = "live"
    BY <1>3 DEF Create, AccountState
  <2>4. Syncs!Create(t)
    BY <1>0, <1>1, <2>2, <2>3 DEF Syncs!Create
  <2> QED
    BY <1>0, <2>4 DEF Promised, Syncs!Next
<1>4. CASE Patch(t) \/ SyncNow(t) \/ Rotate(t)
  <2>1. task'[t].pc \in {"patchSchedule", "queued", "rotating"}
    BY <1>0, <1>4 DEF Patch, SyncNow, Rotate, Goto, Record
  <2>2. Working' = Working \cup {t} /\ Holding' = Holding /\ Deleting' = Deleting
    BY <1>0, <1>1, <1>2, <2>1, OneWorks, OneHolds, OneDeletes DEF Off, On
  <2>3. AccountState = "live" /\ row' = row
    BY <1>4 DEF Patch, SyncNow, Rotate, AccountState
  <2>4. Syncs!Arrive(t)
    BY <1>1, <1>2, <2>2, <2>3, SameRow DEF Syncs!Arrive
  <2> QED
    BY <1>0, <2>4 DEF Promised, Syncs!Next
<1>5. CASE Delete(t)
  <2>1. task'[t].pc = "deleting"
    BY <1>0, <1>5 DEF Delete, Record
  <2>2. Working' = Working /\ Holding' = Holding /\ Deleting' = Deleting \cup {t}
    BY <1>0, <1>1, <1>2, <2>1, OneWorks, OneHolds, OneDeletes DEF Off, On
  <2>3. AccountState # "new" /\ row' = row
    BY <1>5 DEF Delete, AccountState
  <2>4. Syncs!StartClose(t)
    BY <1>1, <1>2, <2>2, <2>3, SameRow DEF Syncs!StartClose
  <2> QED
    BY <1>0, <2>4 DEF Promised, Syncs!Next
<1> QED
  BY <1>3, <1>4, <1>5 DEF Request

\* The rest of a request: it clears the lock, leaves, or closes the account.
LEMMA HandlePromised ==
    ASSUME Inv, Inv', NEW t \in Requests, Handle(t)
    PROVE  Promised
<1>0. t \in Tasks /\ task \in [Tasks -> Record] /\ Seen' \in View
  BY SeenTyped DEF Inv, TypeOK, Record, Tasks
<1>1. \A u \in Tasks \ {t} : task'[u] = task[u]
  BY <1>0 DEF Handle, Schedule, ClearLock, RegisterFails, DeleteCommit,
              RotateCommit, Goto, Done
<1>2. CASE Schedule(t)
  <2>1. task[t].pc \in {"createSchedule", "patchSchedule"}
    BY <1>2 DEF Schedule, At
  <2>2. task'[t].pc \in {"createClear", "patchClear"}
    BY <1>0, <1>2 DEF Schedule, Goto, Record
  <2>3. Working' = Working /\ Holding' = Holding /\ Deleting' = Deleting
    BY <1>0, <1>1, <2>1, <2>2, OneWorks, OneHolds, OneDeletes DEF Off, On
  <2>4. row' = row /\ UNCHANGED <<lock, breached>>
    BY <1>2 DEF Schedule
  <2> QED
    BY <2>3, <2>4, SameRow, Stutters
<1>3. CASE ClearLock(t)
  <2>1. task[t].pc \in {"createClear", "patchClear"} /\ t \in Working \ Holding
    BY <1>0, <1>3 DEF ClearLock, At, Working, Holding
  <2>2. task'[t].pc \in {"queued", "idle"}
    BY <1>0, <1>3 DEF ClearLock, Goto, Done, Idle, Record
  <2>3. /\ Working' \in {Working, Working \ {t}}
        /\ Holding' = Holding /\ Deleting' = Deleting
    BY <1>0, <1>1, <2>1, <2>2, OneWorks, OneHolds, OneDeletes DEF Off, On
  <2>4. FreeLock /\ row' = row
    BY <1>3 DEF ClearLock
  <2>5. Syncs!Reschedule(t)
    BY <2>1, <2>3, <2>4, SameRow DEF Syncs!Reschedule, Syncs!Rob, FreeLock
  <2> QED
    BY <1>0, <2>5 DEF Promised, Syncs!Next
<1>4. CASE RegisterFails(t) \/ \E c \in BOOLEAN : RotateCommit(t, c)
  <2>1. task[t].pc \in {"createSchedule", "rotating"} /\ t \in Working \ Holding
    BY <1>0, <1>4 DEF RegisterFails, RotateCommit, At, Working, Holding
  <2>2. Done(t) /\ UNCHANGED <<lock, breached>>
    BY <1>4 DEF RegisterFails, RotateCommit
  <2>3. task'[t].pc = "idle"
    BY <1>0, <2>2 DEF Done, Idle
  <2>4. Working' = Working \ {t} /\ Holding' = Holding /\ Deleting' = Deleting
    BY <1>0, <1>1, <2>1, <2>3, OneWorks, OneHolds, OneDeletes DEF Off, On
  <2>5. row' = row \/ \E old, new, b : row' = Flushed(old, new, b)
    BY <1>4 DEF RegisterFails, RotateCommit
  <2>6. Syncs!Leave(t)
    BY <1>0, <2>1, <2>2, <2>4, <2>5, Merged DEF Syncs!Leave, Inv
  <2> QED
    BY <1>0, <2>6 DEF Promised, Syncs!Next
<1>5. CASE DeleteCommit(t)
  <2>1. task[t].pc = "deleting" /\ t \in Deleting
    BY <1>0, <1>5 DEF DeleteCommit, At, Deleting
  <2>2. task'[t].pc = "idle"
    BY <1>0, <1>5 DEF DeleteCommit, Done, Idle
  <2>3. Working' = Working /\ Holding' = Holding /\ Deleting' = Deleting \ {t}
    BY <1>0, <1>1, <2>1, <2>2, OneWorks, OneHolds, OneDeletes DEF Off, On
  <2>4. UNCHANGED <<lock, breached>>
    BY <1>5 DEF DeleteCommit
  <2>5. row' = row \/ row'.state \in {"deleted", "gone"}
    BY <1>5, DeleteEnds DEF Inv
  <2>6. AccountState' \in {AccountState, "over"}
    BY <2>5 DEF AccountState
  <2>7. Syncs!Close(t)
    BY <1>0, <2>1, <2>3, <2>4, <2>6 DEF Syncs!Close
  <2> QED
    BY <1>0, <2>7 DEF Promised, Syncs!Next
<1> QED
  BY <1>2, <1>3, <1>4, <1>5 DEF Handle

\* trigger_sync: the guards on mutual exclusion and ownership are where the
\* invariant is needed.
LEMMA SyncPromised ==
    ASSUME Inv, Inv', NEW t \in Tasks, Sync(t)
    PROVE  Promised
<1>0. /\ task \in [Tasks -> Record] /\ lock \in {{}} \cup {{u} : u \in Tasks}
      /\ Seen' \in View
  BY SeenTyped DEF Inv, TypeOK, Record
<1>1. \A u \in Tasks \ {t} : task'[u] = task[u]
  BY <1>0 DEF Sync, Acquire, Busy, Discovered, Save, Release, Goto, Done
<1>2. breached \/ Holding \subseteq lock
  BY DEF Inv, HolderOwnsLock
<1>3. CASE Acquire(t)
  <2>1. task[t].pc = "queued" /\ t \in Working \ Holding
    BY <1>3 DEF Acquire, At, Working, Holding
  <2>2. task'[t].pc = "syncing"
    BY <1>0, <1>3 DEF Acquire, Goto, Record
  <2>3. Working' = Working /\ Holding' = Holding \cup {t} /\ Deleting' = Deleting
    BY <1>1, <2>1, <2>2, OneWorks, OneHolds, OneDeletes DEF Off, On
  <2>4. Syncs!Begin(t)
    BY <1>2, <1>3, <2>1, <2>3, SameRow DEF Syncs!Begin, Acquire
  <2> QED
    BY <2>4 DEF Promised, Syncs!Next
<1>4. CASE Busy(t)
  <2>1. task[t].pc = "queued" /\ t \in Working \ Holding
    BY <1>4 DEF Busy, At, Working, Holding
  <2>2. task'[t].pc = "idle"
    BY <1>0, <1>4 DEF Busy, Done, Idle
  <2>3. Working' = Working \ {t} /\ Holding' = Holding /\ Deleting' = Deleting
    BY <1>1, <2>1, <2>2, OneWorks, OneHolds, OneDeletes DEF Off, On
  <2>4. Syncs!Leave(t)
    BY <1>0, <1>4, <2>1, <2>3, SameRow DEF Syncs!Leave, Busy
  <2> QED
    BY <2>4 DEF Promised, Syncs!Next
<1>5. CASE Discovered(t) \/ Save(t)
  <2>1. task[t].pc \in {"syncing", "saving"} /\ t \in Working
    BY <1>5 DEF Discovered, Save, At, Working
  <2>2. task'[t].pc \in {"saving", "saved"}
    <3>1. CASE Discovered(t)
      BY <1>0, <3>1 DEF Discovered, Record
    <3>2. CASE Save(t)
      BY <1>0, <3>2 DEF Save, Idle
    <3> QED
      BY <1>5, <3>1, <3>2
  <2>3. Working' = Working /\ Holding' = Holding /\ Deleting' = Deleting
    BY <1>1, <2>1, <2>2, OneWorks, OneHolds, OneDeletes DEF Off, On
  <2>4. UNCHANGED <<lock, breached>>
    BY <1>5 DEF Discovered, Save
  <2>5. AccountState' = AccountState
    <3>1. CASE Discovered(t)
      BY <3>1, SameRow DEF Discovered
    <3>2. CASE Save(t)
      <4>1. row' = row \/ \E old, new, b : row' = Flushed(old, new, b)
        BY <3>2 DEF Save
      <4> QED
        BY <4>1, Merged DEF Inv
    <3> QED
      BY <1>5, <3>1, <3>2
  <2>6. Syncs!Write(t)
    BY <1>0, <2>1, <2>3, <2>4, <2>5 DEF Syncs!Write
  <2> QED
    BY <2>6 DEF Promised, Syncs!Next
<1>6. CASE Release(t)
  <2>1. task[t].pc = "saved" /\ t \in Holding
    BY <1>6 DEF Release, At, Holding
  <2>2. task'[t].pc \in {"flushing", "idle"}
    BY <1>0, <1>6 DEF Release, Done, Idle, Record
  <2>3. /\ Working' \in {Working, Working \ {t}}
        /\ Holding' = Holding \ {t} /\ Deleting' = Deleting
    BY <1>1, <2>1, <2>2, OneWorks, OneHolds, OneDeletes DEF Off, On
  <2>4. breached' = (breached /\ Holding' # {})
    BY <1>6, <2>1, <2>3 DEF Release
  <2>5. lock = {t} \/ breached
    BY <1>0, <1>2, <2>1
  <2>6. row' = row /\ lock' = {}
    BY <1>6 DEF Release
  <2>7. Syncs!End(t)
    BY <2>1, <2>3, <2>4, <2>5, <2>6, SameRow DEF Syncs!End
  <2> QED
    BY <2>7 DEF Promised, Syncs!Next
<1> QED
  BY <1>3, <1>4, <1>5, <1>6 DEF Sync

LEMMA MonitorPromised ==
    ASSUME Inv, Inv', NEW m \in Monitors, Monitor(m)
    PROVE  Promised
<1>0. m \in Tasks /\ task \in [Tasks -> Record] /\ Seen' \in View
  BY SeenTyped DEF Inv, TypeOK, Record, Tasks
<1>1. CASE FindUnseeded(m) \/ Seed(m) \/ ClearSchedule(m)
  <2>1. UNCHANGED <<row, lock, breached>> /\ \A u \in Tasks \ {m} : task'[u] = task[u]
    BY <1>0, <1>1 DEF FindUnseeded, Seed, ClearSchedule, Goto, Done
  <2>2. task[m].pc \in {"idle", "seeding"} /\ task'[m].pc \in {"idle", "seeding"}
    BY <1>0, <1>1 DEF FindUnseeded, Seed, ClearSchedule, At, Goto, Done, Idle, Record
  <2>3. Working' = Working /\ Holding' = Holding /\ Deleting' = Deleting
    BY <1>0, <2>1, <2>2, OneWorks, OneHolds, OneDeletes DEF Off, On
  <2> QED
    BY <2>1, <2>3, SameRow, Stutters
<1>2. CASE Poll(m)
  <2>1. task[m].pc = "idle" /\ m \notin Working \cup Deleting
    BY <1>2 DEF Poll, At, Working, Deleting
  <2>2. task'[m].pc = "queued" /\ \A u \in Tasks \ {m} : task'[u] = task[u]
    BY <1>0, <1>2 DEF Poll, Record
  <2>3. Working' = Working \cup {m} /\ Holding' = Holding /\ Deleting' = Deleting
    BY <1>0, <2>1, <2>2, OneWorks, OneHolds, OneDeletes DEF Off, On
  <2>4. AccountState = "live"
    BY <1>2 DEF Poll, AccountState
  <2>5. Syncs!Arrive(m)
    BY <1>2, <2>1, <2>3, <2>4, SameRow DEF Syncs!Arrive, Poll
  <2> QED
    BY <1>0, <2>5 DEF Promised, Syncs!Next
<1>3. CASE Flush(m)
  <2>1. task[m].pc = "flushing" /\ m \in Working \ Holding
    BY <1>0, <1>3 DEF Flush, At, Working, Holding
  <2>2. task'[m].pc = "idle" /\ \A u \in Tasks \ {m} : task'[u] = task[u]
    BY <1>0, <1>3 DEF Flush, Done, Idle
  <2>3. Working' = Working \ {m} /\ Holding' = Holding /\ Deleting' = Deleting
    BY <1>0, <2>1, <2>2, OneWorks, OneHolds, OneDeletes DEF Off, On
  <2>4. row' = row \/ \E old, new, b : row' = Flushed(old, new, b)
    BY <1>3 DEF Flush
  <2>5. UNCHANGED <<lock, breached>>
    BY <1>3 DEF Flush
  <2>6. Syncs!Leave(m)
    BY <1>0, <2>1, <2>3, <2>4, <2>5, Merged DEF Syncs!Leave, Inv
  <2> QED
    BY <1>0, <2>6 DEF Promised, Syncs!Next
<1> QED
  BY <1>1, <1>2, <1>3 DEF Monitor

\* A crash takes workers and their syncs, and leaves the lock behind.
LEMMA CrashPromised ==
    ASSUME Inv, NEW p \in Procs, Crash(p)
    PROVE  Promised
<1> DEFINE dead == {t \in Tasks : ProcOf(t) = p}
<1>1. \A t \in Tasks : task'[t] = IF ProcOf(t) = p THEN Idle ELSE task[t]
  BY DEF Crash
<1>2. Working' = Working \ dead /\ Deleting' = Deleting \ dead
  BY <1>1 DEF Working, Deleting, Idle
<1>3. Holding' = Holding \ dead
  BY <1>1 DEF Holding, Idle
<1>4. (\E t \in Holding : ProcOf(t) # p) <=> Holding' # {}
  BY <1>3 DEF Holding
<1>5. breached' = (breached /\ Holding' # {})
  BY <1>4 DEF Crash
<1>6. dead \in SUBSET Tasks
  OBVIOUS
<1>7. UNCHANGED <<lock, row>>
  BY DEF Crash
<1> HIDE DEF dead
<1>8. Syncs!Die
  BY <1>2, <1>3, <1>5, <1>6, <1>7, SameRow DEF Syncs!Die
<1> QED
  BY <1>8 DEF Promised, Syncs!Next

\* Whoever deletes the lock key without owning it robs the sync that runs.
LEMMA FreePromised ==
    ASSUME Inv, FreeLock, UNCHANGED <<row, task>>
    PROVE  Promised
<1>1. CASE lock = {}
  <2>1. UNCHANGED <<lock, breached>>
    BY <1>1 DEF FreeLock, Inv, TypeOK
  <2> QED
    BY <2>1, Quiet, SameRow, Stutters
<1>2. CASE lock # {}
  <2>1. Syncs!Expire
    BY <1>2, Quiet, SameRow DEF FreeLock, Syncs!Expire, Syncs!Rob
  <2> QED
    BY <2>1 DEF Promised, Syncs!Next
<1> QED
  BY <1>1, <1>2

LEMMA StepPromised == Inv /\ Inv' /\ [Next]_vars => Promised
<1> SUFFICES ASSUME Inv, Inv', [Next]_vars PROVE Promised
  OBVIOUS
<1>1. ASSUME NEW p \in Procs, Restart(p) \/ CrashStarting(p) PROVE Promised
  <2>1. UNCHANGED <<row, task>> /\ (FreeLock \/ UNCHANGED <<lock, breached>>)
    BY <1>1, RestartGoes DEF CrashStarting, Inv
  <2> QED
    BY <2>1, FreePromised, Quiet, SameRow, Stutters
<1>2. CASE LockExpires
  BY <1>2, FreePromised DEF LockExpires
<1>3. CASE Due \/ ScheduleExpires \/ UNCHANGED vars
  <2>1. UNCHANGED <<row, task, lock, breached>>
    BY <1>3 DEF Due, ScheduleExpires, vars
  <2> QED
    BY <2>1, Quiet, SameRow, Stutters
<1> QED
  BY <1>1, <1>2, <1>3, RequestPromised, HandlePromised, SyncPromised,
     MonitorPromised, CrashPromised DEF Next

\* The scheduler implements AccountSyncs, for any number of replicas and
\* requests (sync_scheduler.py:245, accounts.py:317).
THEOREM SyncsArePromised == Spec => SyncsAsPromised
<1>1. Init => Syncs!Init
  <2> SUFFICES ASSUME Init PROVE Syncs!Init
    OBVIOUS
  <2>1. \A t \in Tasks : task[t].pc = "idle"
    BY DEF Init, Idle
  <2>2. Working = {} /\ Holding = {} /\ Deleting = {}
    BY <2>1 DEF Working, Holding, Deleting
  <2>3. Seen \in View
    BY InitInv, SeenType DEF Inv
  <2> QED
    BY <2>2, <2>3 DEF Init, AccountState, Syncs!Init
<1>2. Inv /\ Inv' /\ [Next]_vars => [Syncs!Next]_(Syncs!vars)
  BY StepPromised DEF Promised
<1> QED
  BY InvHolds, <1>1, <1>2, PTL DEF Spec, SyncsAsPromised, Syncs!Spec

-----------------------------------------------------------------------------
(***************************************************************************)
(* Liveness.  Each temporal leaf cites one fairness condition of FairSpec  *)
(* and takes from SchedulerGoesOn that what it is about is not stuck.      *)
(***************************************************************************)
MonitorSteps == {"idle", "seeding", "queued", "syncing", "saving", "saved", "flushing"}

\* Monitors only poll, and there is no account without a replica.
Staffed ==
    /\ \A m \in Monitors : task[m].pc \in MonitorSteps
    /\ row.state # "new" => Procs # {}

LEMMA OthersKeep ==
    ASSUME TypeOK, NEW t \in Tasks, NEW u \in Tasks, u # t,
           Request(t) \/ Handle(t) \/ Sync(t) \/ Monitor(t)
    PROVE  task'[u] = task[u]
<1>0. task \in [Tasks -> Record]
  BY DEF TypeOK, Record
<1>1. CASE Request(t)
  BY <1>0, <1>1 DEF Request, Create, Patch, SyncNow, Delete, Rotate, Goto
<1>2. CASE Handle(t)
  BY <1>0, <1>2 DEF Handle, Schedule, ClearLock, RegisterFails, DeleteCommit, RotateCommit,
                    Goto, Done
<1>3. CASE Sync(t)
  BY <1>0, <1>3 DEF Sync, Acquire, Busy, Discovered, Save, Release, Goto, Done
<1>4. CASE Monitor(t)
  BY <1>0, <1>4 DEF Monitor, FindUnseeded, Seed, Poll, ClearSchedule, Flush, Goto, Done
<1>5. QED
  BY <1>1, <1>2, <1>3, <1>4

LEMMA WhoMoves ==
    ASSUME TypeOK, [Next]_vars, NEW u \in Tasks
    PROVE  \/ u \in Requests /\ (Request(u) \/ Handle(u))
           \/ Sync(u)
           \/ u \in Monitors /\ Monitor(u)
           \/ task'[u] = task[u]
           \/ task'[u] = Idle /\ crashes' = crashes + 1
<1>1. Requests \subseteq Tasks /\ Monitors \subseteq Tasks
  BY DEF Tasks
<1>2. ASSUME NEW t \in Requests, Request(t) \/ Handle(t) PROVE t = u \/ task'[u] = task[u]
  BY <1>1, <1>2, OthersKeep
<1>3. ASSUME NEW t \in Tasks, Sync(t) PROVE t = u \/ task'[u] = task[u]
  BY <1>3, OthersKeep
<1>4. ASSUME NEW m \in Monitors, Monitor(m) PROVE m = u \/ task'[u] = task[u]
  BY <1>1, <1>4, OthersKeep
<1>5. ASSUME NEW p \in Procs, Crash(p)
      PROVE  task'[u] = task[u] \/ (task'[u] = Idle /\ crashes' = crashes + 1)
  BY <1>5 DEF Crash
<1>6. ASSUME NEW p \in Procs, Restart(p) \/ CrashStarting(p) PROVE task' = task
  BY <1>6, RestartGoes DEF CrashStarting
<1>7. CASE Due \/ LockExpires \/ ScheduleExpires \/ UNCHANGED vars
  BY <1>7 DEF Due, LockExpires, ScheduleExpires, vars
<1>8. QED
  BY <1>2, <1>3, <1>4, <1>5, <1>6, <1>7 DEF Next

\* Where a step of a sync takes its task and the lock.
LEMMA SyncGoes ==
    ASSUME TypeOK, NEW t \in Tasks, Sync(t)
    PROVE  \/ /\ task[t].pc = "queued" /\ lock = {}
              /\ task'[t].pc = "syncing" /\ lock' = {t}
           \/ /\ task[t].pc = "queued" /\ lock # {}
              /\ task'[t].pc = "idle" /\ lock' = lock
           \/ /\ task[t].pc = "syncing"
              /\ task'[t].pc \in {"saving", "saved"} /\ lock' = lock
           \/ task[t].pc = "saving" /\ task'[t].pc = "saved" /\ lock' = lock
           \/ /\ task[t].pc = "saved" /\ lock' = {}
              /\ task'[t].pc = IF t \in Monitors THEN "flushing" ELSE "idle"
<1>0. task \in [Tasks -> Record]
  BY DEF TypeOK, Record
<1>1. CASE Acquire(t) \/ Busy(t)
  BY <1>0, <1>1 DEF Acquire, Busy, At, Goto, Done, Idle, Record
<1>2. CASE Discovered(t)
  BY <1>0, <1>2 DEF Discovered, At, Record
<1>3. CASE Save(t)
  BY <1>0, <1>3 DEF Save, At, Idle, Record
<1>4. CASE Release(t)
  BY <1>0, <1>4 DEF Release, At, Done, Idle, Record
<1>5. QED
  BY <1>1, <1>2, <1>3, <1>4 DEF Sync

LEMMA MonitorGoes ==
    ASSUME TypeOK, NEW m \in Monitors, Monitor(m)
    PROVE  /\ task[m].pc \in {"idle", "seeding", "flushing"} /\ lock' = lock
           /\ task[m].pc = "flushing" => task'[m].pc = "idle" /\ schedule' = schedule
           /\ task[m].pc = "seeding" => task'[m].pc = "idle" /\ schedule' = "waiting"
           /\ task[m].pc = "idle" /\ schedule = "unseeded" =>
                task'[m].pc = "seeding" /\ schedule' = schedule
           /\ task[m].pc = "idle" /\ schedule # "unseeded" =>
                /\ schedule = "due"
                /\ \/ /\ row.state = "live" /\ row.status \in Pollable
                      /\ task'[m].pc = "queued" /\ schedule' = schedule
                   \/ row.state # "live" /\ task'[m].pc = "idle" /\ schedule' = "none"
<1>0. task \in [Tasks -> Record] /\ m \in Tasks
  BY DEF TypeOK, Record, Tasks
<1>1. CASE FindUnseeded(m)
  BY <1>0, <1>1 DEF FindUnseeded, At, Goto, Record
<1>5. CASE Seed(m)
  BY <1>0, <1>5 DEF Seed, At, Done, Idle
<1>6. CASE ClearSchedule(m)
  BY <1>0, <1>6 DEF ClearSchedule, At
<1>2. CASE Poll(m)
  BY <1>0, <1>2 DEF Poll, At, Record
<1>3. CASE Flush(m)
  BY <1>0, <1>3 DEF Flush, At, Done, Idle
<1>4. QED
  BY <1>1, <1>2, <1>3, <1>5, <1>6 DEF Monitor

LEMMA StaffedStep == TypeOK /\ Staffed /\ [Next]_vars => Staffed'
<1> SUFFICES ASSUME TypeOK, Staffed, [Next]_vars PROVE Staffed'
  OBVIOUS
<1>1. ASSUME NEW m \in Monitors PROVE task'[m].pc \in MonitorSteps
  <2>1. m \in Tasks /\ m \notin Requests
    BY SchedulerAssumption DEF Monitors, Requests, Tasks
  <2>2. task[m].pc \in MonitorSteps
    BY DEF Staffed
  <2>3. CASE Sync(m)
    BY <2>1, <2>3, SyncGoes DEF MonitorSteps
  <2>4. CASE Monitor(m)
    <3>1. task'[m].pc \in {"idle", "seeding", "queued"}
      BY <2>4, MonitorGoes
    <3>2. QED
      BY <3>1 DEF MonitorSteps
  <2>5. CASE task'[m] = task[m] \/ task'[m] = Idle
    BY <2>2, <2>5 DEF Idle, MonitorSteps
  <2>6. QED
    BY <2>1, <2>3, <2>4, <2>5, WhoMoves
<1>2. row'.state # "new" => Procs # {}
  <2>1. ASSUME Procs = {} PROVE row' = row
    BY <2>1 DEF Next, Due, LockExpires, ScheduleExpires, vars, Tasks, Requests, Monitors
  <2>2. QED
    BY <2>1 DEF Staffed
<1>3. QED
  BY <1>1, <1>2 DEF Staffed

LEMMA AlwaysStaffed == Spec => []Staffed
<1>1. Init => Staffed
  BY DEF Init, Staffed, Idle, MonitorSteps, Monitors, Tasks
<1>2. QED
  BY <1>1, StaffedStep, TypeCorrect, PTL DEF Spec

LEMMA LockMoves ==
    ASSUME TypeOK, [Next]_vars
    PROVE  \/ lock' = lock
           \/ lock' = {}
           \/ lock = {} /\ \E t \in Tasks : lock' = {t} /\ task'[t].pc = "syncing"
<1>1. ASSUME NEW t \in Requests, Request(t) \/ Handle(t) PROVE lock' = lock \/ lock' = {}
  BY <1>1 DEF Request, Create, Patch, SyncNow, Delete, Rotate, Handle, Schedule, ClearLock,
              RegisterFails, DeleteCommit, RotateCommit, FreeLock
<1>2. ASSUME NEW t \in Tasks, Sync(t)
      PROVE  lock' = lock \/ lock' = {} \/ (lock = {} /\ lock' = {t} /\ task'[t].pc = "syncing")
  BY <1>2, SyncGoes
<1>3. ASSUME NEW m \in Monitors, Monitor(m) PROVE lock' = lock
  BY <1>3, MonitorGoes
<1>4. ASSUME NEW p \in Procs, Crash(p) \/ CrashStarting(p) \/ Restart(p)
      PROVE  lock' = lock \/ lock' = {}
  BY <1>4, RestartGoes DEF Crash, CrashStarting, FreeLock
<1>5. CASE Due \/ LockExpires \/ ScheduleExpires \/ UNCHANGED vars
  BY <1>5 DEF Due, LockExpires, ScheduleExpires, FreeLock, vars
<1>6. QED
  BY <1>1, <1>2, <1>3, <1>4, <1>5 DEF Next

\* ~~~ The lock is freed ~~~

\* A request and its handler stay out of the locked section.
LEMMA HandlersHoldNothing ==
    ASSUME TypeOK, NEW t \in Requests, Request(t) \/ Handle(t)
    PROVE  task[t].pc \notin On /\ task'[t].pc \notin On
<1>0. task \in [Tasks -> Record] /\ t \in Tasks
  BY DEF TypeOK, Record, Tasks
<1>1. CASE Create(t) \/ Patch(t) \/ SyncNow(t)
  BY <1>0, <1>1 DEF Create, Patch, SyncNow, At, Goto, Record, On
<1>2. CASE Delete(t) \/ Rotate(t)
  BY <1>0, <1>2 DEF Delete, Rotate, At, Record, On
<1>3. CASE Schedule(t) \/ ClearLock(t) \/ RegisterFails(t)
  BY <1>0, <1>3 DEF Schedule, ClearLock, RegisterFails, At, Goto, Done, Idle, Record, On
<1>4. ASSUME NEW c \in BOOLEAN, DeleteCommit(t) \/ RotateCommit(t, c)
      PROVE  task[t].pc \notin On /\ task'[t].pc \notin On
  <2>1. task[t].pc \in {"deleting", "rotating"} /\ Done(t)
    BY <1>4 DEF DeleteCommit, RotateCommit, At
  <2>2. QED
    BY <1>0, <2>1 DEF Done, Idle, On
<1>5. QED
  BY <1>1, <1>2, <1>3, <1>4 DEF Request, Handle

\* How a holder gets through its locked section.
Further == [syncing |-> {"saving", "saved"}, saving |-> {"saved"}, saved |-> {}]
Held(t, x) == lock = {t} /\ task[t].pc = x
Loose(t) == lock = {t} /\ t \notin Holding

HoldLeaves(t, x) ==
    Held(t, x) ~> lock = {} \/ Loose(t) \/ (lock = {t} /\ task[t].pc \in Further[x])

LEMMA HolderGoesOn ==
    ASSUME NEW t \in Tasks, NEW x \in On
    PROVE  [][Next]_vars /\ []TypeOK /\ []SchedulerGoesOn /\ SyncIsFair(t) => HoldLeaves(t, x)
<1>1. TypeOK /\ Held(t, x) /\ [Next]_vars =>
        Held(t, x)' \/ (lock = {} \/ Loose(t) \/ (lock = {t} /\ task[t].pc \in Further[x]))'
  <2> SUFFICES ASSUME TypeOK, Held(t, x), [Next]_vars, lock' # {}
               PROVE  \/ Held(t, x)' \/ Loose(t)'
                      \/ (lock = {t} /\ task[t].pc \in Further[x])'
    OBVIOUS
  <2>1. lock' = {t}
    BY LockMoves DEF Held
  <2>2. CASE Sync(t)
    BY <2>1, <2>2, SyncGoes DEF Held, Further, On
  <2>3. CASE task'[t] = task[t]
    BY <2>1, <2>3 DEF Held
  <2>4. CASE task'[t] = Idle
    BY <2>1, <2>4 DEF Loose, Holding, Idle
  <2>5. CASE t \in Requests /\ (Request(t) \/ Handle(t))
    BY <2>5, HandlersHoldNothing DEF Held
  <2>6. CASE t \in Monitors /\ Monitor(t)
    BY <2>6, MonitorGoes DEF Held, On
  <2>7. QED
    BY <2>2, <2>3, <2>4, <2>5, <2>6, WhoMoves
<1>2. TypeOK /\ Held(t, x) /\ <<Sync(t)>>_vars => ~Held(t, x)'
  BY SyncGoes DEF Held, On
<1>3. SchedulerGoesOn /\ Held(t, x) => CanSync(t)
  BY DEF SchedulerGoesOn, Held, On
<1>4. QED
  BY <1>1, <1>2, <1>3, PTL DEF SyncIsFair, CanSync, HoldLeaves

\* A lock nobody holds stays nobody's, and expires.
LEMMA LooseExpires ==
    ASSUME NEW t \in Tasks
    PROVE  [][Next]_vars /\ []TypeOK /\ []SchedulerGoesOn /\ WF_vars(LockExpires)
             => (Loose(t) ~> lock = {})
<1>1. TypeOK /\ Loose(t) /\ [Next]_vars => Loose(t)' \/ (lock = {})'
  <2> SUFFICES ASSUME TypeOK, Loose(t), [Next]_vars, lock' # {} PROVE Loose(t)'
    OBVIOUS
  <2>1. lock' = {t}
    BY LockMoves DEF Loose
  <2>2. task[t].pc \notin On
    BY DEF Loose, Holding, On
  <2>3. CASE Sync(t)
    BY <2>1, <2>2, <2>3, SyncGoes DEF Loose, Holding, On
  <2>4. CASE task'[t] = task[t] \/ task'[t] = Idle
    BY <2>1, <2>2, <2>4 DEF Loose, Holding, Idle, On
  <2>5. CASE t \in Requests /\ (Request(t) \/ Handle(t))
    <3>1. task'[t].pc \notin On
      BY <2>5, HandlersHoldNothing
    <3>2. QED
      BY <2>1, <3>1 DEF Loose, Holding, On
  <2>6. CASE t \in Monitors /\ Monitor(t)
    <3>1. task'[t].pc \in {"idle", "seeding", "queued"}
      BY <2>6, MonitorGoes
    <3>2. QED
      BY <2>1, <3>1 DEF Loose, Holding
  <2>7. QED
    BY <2>3, <2>4, <2>5, <2>6, WhoMoves
<1>2. <<LockExpires>>_vars => (lock = {})'
  BY DEF LockExpires, FreeLock
<1>3. SchedulerGoesOn /\ Loose(t) => ENABLED <<LockExpires>>_vars
  <2>1. Loose(t) => lock # {} /\ lock \cap Holding = {}
    BY DEF Loose
  <2>2. QED
    BY <2>1 DEF SchedulerGoesOn
<1>4. QED
  BY <1>1, <1>2, <1>3, PTL

Freed == <>(lock = {})
FreedOnce(t) == lock = {t} => Freed
IsFreed(t) == lock = {t} ~> lock = {}

LEMMA OwnLockIsFreed ==
    ASSUME NEW t \in Tasks
    PROVE  [][Next]_vars /\ []TypeOK /\ []SchedulerGoesOn /\ SyncIsFair(t) /\ WF_vars(LockExpires)
             => IsFreed(t)
<1>1. [][Next]_vars /\ []TypeOK /\ []SchedulerGoesOn /\ SyncIsFair(t) =>
        HoldLeaves(t, "syncing") /\ HoldLeaves(t, "saving") /\ HoldLeaves(t, "saved")
  BY HolderGoesOn DEF On
<1>2. /\ lock = {t} => \/ Loose(t)
                       \/ Held(t, "syncing") \/ Held(t, "saving") \/ Held(t, "saved")
      /\ lock = {t} /\ task[t].pc \in Further["syncing"] => Held(t, "saving") \/ Held(t, "saved")
      /\ lock = {t} /\ task[t].pc \in Further["saving"] => Held(t, "saved")
      /\ ~(task[t].pc \in Further["saved"])
  BY DEF Loose, Held, Holding, Further
<1>3. QED
  BY <1>1, <1>2, LooseExpires, PTL DEF HoldLeaves, IsFreed

\* ~~~ Fairness, taken apart ~~~
AllFair ==
    /\ \A t \in Requests : HandleIsFair(t)
    /\ \A t \in Tasks : SyncIsFair(t)
    /\ \A m \in Monitors : MonitorIsFair(m)
    /\ \A p \in Procs : RestartIsFair(p)

\* The lock never blocks the account for ever: a sync that goes on frees it, and it
\* expires otherwise, whatever crashes (sync_scheduler.py:251).
THEOREM LockIsFreedInTime == FairSpec /\ []SchedulerGoesOn => LockIsFreed
<1>1. FairSpec => AllFair /\ WF_vars(LockExpires)
  BY PTL DEF FairSpec, AllFair
<1>2. FairSpec /\ []SchedulerGoesOn => \A t \in Tasks : IsFreed(t)
  <2>1. FairSpec => [][Next]_vars /\ []TypeOK
    BY TypeCorrect, PTL DEF FairSpec, Spec
  <2>2. ASSUME NEW t \in Tasks PROVE AllFair => SyncIsFair(t)
    BY DEF AllFair
  <2>3. ASSUME NEW t \in Tasks PROVE FairSpec /\ []SchedulerGoesOn => IsFreed(t)
    BY <1>1, <2>1, <2>2, OwnLockIsFreed, PTL
  <2>4. QED
    BY <2>3
<1>3. FairSpec /\ []SchedulerGoesOn => [](\A t \in Tasks : FreedOnce(t))
  <2>1. \A t \in Tasks : IsFreed(t) => []FreedOnce(t)
    <3> TAKE t \in Tasks
    <3> QED
      BY PTL DEF IsFreed, FreedOnce, Freed
  <2>2. (\A t \in Tasks : []FreedOnce(t)) => [](\A t \in Tasks : FreedOnce(t))
    OBVIOUS
  <2>3. QED
    BY <1>2, <2>1, <2>2
<1>4. TypeOK /\ (\A t \in Tasks : FreedOnce(t)) => (lock # {} => Freed)
  <2>1. TypeOK /\ lock # {} => \E t \in Tasks : lock = {t}
    BY DEF TypeOK
  <2>2. QED
    BY <2>1 DEF FreedOnce
<1>5. FairSpec => []TypeOK
  BY TypeCorrect, PTL DEF FairSpec
<1>6. QED
  BY <1>3, <1>4, <1>5, PTL DEF LockIsFreed, Freed

-----------------------------------------------------------------------------
(***************************************************************************)
(* What is true of each of finitely many things from some time on is true  *)
(* of all of them from some time on.  The proof is an induction over the   *)
(* set, which is out of the provers' reach, so that the four instances of  *)
(* this law that are needed are stated as premises.                        *)
(***************************************************************************)
CrashesPassTogether ==
    (\A n \in 0..MaxCrashes : <>[](crashes # n)) => <>[](\A n \in 0..MaxCrashes : crashes # n)

ReplicasStartTogether ==
    (\A p \in Procs : <>[]up[p]) => <>[](\A p \in Procs : up[p])

\* A task that will not write the schedule of a deleted account again.
Finished(t) ==
    /\ t \in Requests => task[t].pc \notin {"createSchedule", "patchSchedule"}
    /\ t \in Monitors => task[t].pc # "queued"

TasksFinishTogether ==
    (\A t \in Tasks : <>[]Finished(t)) => <>[](\A t \in Tasks : Finished(t))

SeedsPassTogether ==
    (\A m \in Monitors : <>[](task[m].pc # "seeding"))
      => <>[](\A m \in Monitors : task[m].pc # "seeding")

WhatIsFinite ==
    CrashesPassTogether /\ ReplicasStartTogether /\ TasksFinishTogether /\ SeedsPassTogether

-----------------------------------------------------------------------------
\* ~~~ Crashes are counted and bounded, so that the replicas come up ~~~
CrashesCease   == <>[][crashes' = crashes]_vars
CrashesPass(n) == <>[](crashes # n)
NoCrashCount   == \A n \in 0..MaxCrashes : crashes # n

LEMMA CrashesCount ==
    ASSUME TypeOK, [Next]_vars
    PROVE  \/ crashes' = crashes /\ \A p \in Procs : up[p] => up'[p]
           \/ crashes' = crashes + 1
<1> DEFINE Keeps == crashes' = crashes /\ \A p \in Procs : up[p] => up'[p]
<1>1. ASSUME NEW t \in Requests, Request(t) PROVE Keeps
  BY <1>1 DEF Request, Create, Patch, SyncNow, Delete, Rotate
<1>2. ASSUME NEW t \in Requests, Handle(t) PROVE Keeps
  BY <1>2 DEF Handle, Schedule, ClearLock, RegisterFails, DeleteCommit, RotateCommit
<1>3. ASSUME NEW t \in Tasks, Sync(t) PROVE Keeps
  BY <1>3 DEF Sync, Acquire, Busy, Discovered, Save, Release
<1>4. ASSUME NEW m \in Monitors, Monitor(m) PROVE Keeps
  BY <1>4 DEF Monitor, FindUnseeded, Seed, Poll, ClearSchedule, Flush
<1>5. ASSUME NEW p \in Procs, Restart(p) PROVE Keeps
  BY <1>5, RestartGoes DEF TypeOK
<1>6. ASSUME NEW p \in Procs, Crash(p) \/ CrashStarting(p) PROVE crashes' = crashes + 1
  BY <1>6 DEF Crash, CrashStarting
<1>7. CASE Due \/ LockExpires \/ ScheduleExpires \/ UNCHANGED vars
  BY <1>7 DEF Due, LockExpires, ScheduleExpires, vars
<1>8. QED
  BY <1>1, <1>2, <1>3, <1>4, <1>5, <1>6, <1>7 DEF Next

LEMMA CrashesDoCease == Spec /\ CrashesPassTogether => CrashesCease
<1> DEFINE Past(n) == crashes > n
<1>1. Spec => []TypeOK /\ [][Next]_vars
  BY TypeCorrect, PTL DEF Spec
<1>2. MaxCrashes \in Nat /\ (TypeOK => crashes \in 0..MaxCrashes)
  BY SchedulerAssumption DEF TypeOK
<1>3. ASSUME NEW n \in 0..MaxCrashes PROVE Spec /\ ~CrashesCease => CrashesPass(n)
  <2>1. TypeOK /\ ~(crashes # n) /\ [Next]_vars /\ ~[crashes' = crashes]_vars => Past(n)'
    BY <1>2, CrashesCount
  <2>2. TypeOK /\ ~(crashes # n) /\ [Next]_vars => Past(n)' \/ ~(crashes # n)'
    BY <1>2, CrashesCount
  <2>3. TypeOK /\ Past(n) /\ [Next]_vars => Past(n)'
    BY <1>2, CrashesCount
  <2>4. TypeOK /\ Past(n) => crashes # n
    BY <1>2
  <2>5. QED
    BY <1>1, <2>1, <2>2, <2>3, <2>4, PTL DEF CrashesCease, CrashesPass
<1>4. Spec /\ CrashesPassTogether /\ ~CrashesCease => <>[]NoCrashCount
  <2>1. CrashesPassTogether /\ (\A n \in 0..MaxCrashes : CrashesPass(n)) => <>[]NoCrashCount
    BY DEF CrashesPassTogether, CrashesPass, NoCrashCount
  <2>2. QED
    BY <1>3, <2>1
<1>5. TypeOK => ~NoCrashCount
  BY <1>2 DEF NoCrashCount
<1>6. QED
  BY <1>1, <1>4, <1>5, PTL

\* Only start() moves a replica while nothing crashes.
LEMMA StartMoves ==
    ASSUME TypeOK, [Next]_vars, crashes' = crashes, NEW p \in Procs
    PROVE  Restart(p) \/ (up'[p] = up[p] /\ start'[p] = start[p])
<1> DEFINE Keeps == up' = up /\ start' = start
<1>0. crashes' # crashes + 1
  BY DEF TypeOK
<1>1. ASSUME NEW t \in Requests, Request(t) PROVE Keeps
  BY <1>1 DEF Request, Create, Patch, SyncNow, Delete, Rotate
<1>2. ASSUME NEW t \in Requests, Handle(t) PROVE Keeps
  BY <1>2 DEF Handle, Schedule, ClearLock, RegisterFails, DeleteCommit, RotateCommit
<1>3. ASSUME NEW t \in Tasks, Sync(t) PROVE Keeps
  BY <1>3 DEF Sync, Acquire, Busy, Discovered, Save, Release
<1>4. ASSUME NEW m \in Monitors, Monitor(m) PROVE Keeps
  BY <1>4 DEF Monitor, FindUnseeded, Seed, Poll, ClearSchedule, Flush
<1>5. ASSUME NEW q \in Procs, Restart(q) PROVE q = p \/ (up'[p] = up[p] /\ start'[p] = start[p])
  BY <1>5, RestartGoes DEF TypeOK
<1>6. ASSUME NEW q \in Procs, Crash(q) \/ CrashStarting(q) PROVE FALSE
  BY <1>0, <1>6 DEF Crash, CrashStarting
<1>7. CASE Due \/ LockExpires \/ ScheduleExpires \/ UNCHANGED vars
  BY <1>7 DEF Due, LockExpires, ScheduleExpires, vars
<1>8. QED
  BY <1>1, <1>2, <1>3, <1>4, <1>5, <1>6, <1>7 DEF Next

\* How a replica gets through start().
StartOn == [begin |-> {"clear", "load"}, clear |-> {"load"}, load |-> {"schedule"},
            schedule |-> {"unlock"}, unlock |-> {"seed"}, seed |-> {}]
StartsAt(p, x) == ~up[p] /\ start[p] = x
StartLeaves(p, x) == StartsAt(p, x) ~> up[p] \/ (~up[p] /\ start[p] \in StartOn[x])
ReplicaStarts(p) == <>[]up[p]

\* A replica that nothing crashes any more comes up and stays up.
LEMMA StaysUp ==
    ASSUME NEW p \in Procs
    PROVE  [][Next]_vars /\ []TypeOK /\ []SchedulerGoesOn /\ CrashesCease /\ RestartIsFair(p)
             => ReplicaStarts(p)
<1> DEFINE Still == [][Next]_vars /\ []TypeOK /\ []SchedulerGoesOn
                      /\ [][crashes' = crashes]_vars
<1>1. TypeOK /\ up[p] /\ [Next]_vars /\ [crashes' = crashes]_vars => up[p]'
  <2> SUFFICES ASSUME TypeOK, up[p], [Next]_vars, crashes' = crashes PROVE up'[p]
    BY DEF vars
  <2>1. crashes' # crashes + 1
    BY DEF TypeOK
  <2>2. QED
    BY <2>1, CrashesCount
<1>2. ASSUME NEW x \in Stages PROVE Still /\ RestartIsFair(p) => StartLeaves(p, x)
  <2>1. TypeOK /\ StartsAt(p, x) /\ [Next]_vars /\ [crashes' = crashes]_vars =>
          StartsAt(p, x)' \/ (up[p] \/ (~up[p] /\ start[p] \in StartOn[x]))'
    <3> SUFFICES ASSUME TypeOK, StartsAt(p, x), [Next]_vars, crashes' = crashes
                 PROVE  \/ StartsAt(p, x)'
                        \/ up'[p] \/ (~up'[p] /\ start'[p] \in StartOn[x])
      BY DEF vars
    <3>1. CASE up'[p] = up[p] /\ start'[p] = start[p]
      BY <3>1 DEF StartsAt
    <3>2. CASE Restart(p)
      <4>1. CASE up' = [up EXCEPT ![p] = TRUE]
        BY <4>1 DEF TypeOK
      <4>2. CASE up' = up /\ start'[p] \in StartOn[x]
        BY <4>2 DEF StartsAt
      <4>3. QED
        BY <3>2, <4>1, <4>2, RestartGoes DEF TypeOK, StartOn, StartsAt
    <3>3. QED
      BY <3>1, <3>2, StartMoves
  <2>2. TypeOK /\ StartsAt(p, x) /\ <<Restart(p)>>_vars => ~StartsAt(p, x)'
    <3> SUFFICES ASSUME TypeOK, StartsAt(p, x), Restart(p) PROVE ~StartsAt(p, x)'
      OBVIOUS
    <3>1. QED
      BY RestartGoes DEF TypeOK, StartsAt
  <2>3. SchedulerGoesOn /\ StartsAt(p, x) => ENABLED <<Restart(p)>>_vars
    BY DEF SchedulerGoesOn, StartsAt
  <2>4. QED
    BY <2>1, <2>2, <2>3, PTL DEF RestartIsFair, StartLeaves
<1>3. Still /\ RestartIsFair(p) =>
        /\ StartLeaves(p, "begin") /\ StartLeaves(p, "clear") /\ StartLeaves(p, "load")
        /\ StartLeaves(p, "schedule") /\ StartLeaves(p, "unlock") /\ StartLeaves(p, "seed")
  BY <1>2 DEF Stages
<1>4. /\ ~up[p] /\ start[p] \in StartOn["begin"] => StartsAt(p, "clear") \/ StartsAt(p, "load")
      /\ ~up[p] /\ start[p] \in StartOn["clear"] => StartsAt(p, "load")
      /\ ~up[p] /\ start[p] \in StartOn["load"] => StartsAt(p, "schedule")
      /\ ~up[p] /\ start[p] \in StartOn["schedule"] => StartsAt(p, "unlock")
      /\ ~up[p] /\ start[p] \in StartOn["unlock"] => StartsAt(p, "seed")
      /\ ~(~up[p] /\ start[p] \in StartOn["seed"])
  BY DEF StartOn, StartsAt
<1>5. TypeOK => \/ up[p] \/ StartsAt(p, "begin") \/ StartsAt(p, "clear")
                \/ StartsAt(p, "load") \/ StartsAt(p, "schedule")
                \/ StartsAt(p, "unlock") \/ StartsAt(p, "seed")
  BY DEF TypeOK, Stages, StartsAt
<1>6. Still /\ RestartIsFair(p) => ReplicaStarts(p)
  BY <1>1, <1>3, <1>4, <1>5, PTL DEF StartLeaves, ReplicaStarts, RestartIsFair
<1>7. QED
  BY <1>6, PTL DEF CrashesCease, ReplicaStarts, RestartIsFair

AllUp == \A p \in Procs : up[p]
ReplicasRun == <>[]AllUp

LEMMA ReplicasDoRun ==
    FairSpec /\ []SchedulerGoesOn /\ CrashesPassTogether /\ ReplicasStartTogether => ReplicasRun
<1>1. FairSpec => Spec /\ [][Next]_vars /\ []TypeOK /\ AllFair
  BY TypeCorrect, PTL DEF FairSpec, Spec, AllFair
<1>2. FairSpec /\ []SchedulerGoesOn /\ CrashesCease => \A p \in Procs : ReplicaStarts(p)
  <2>1. ASSUME NEW p \in Procs
        PROVE  FairSpec /\ []SchedulerGoesOn /\ CrashesCease => ReplicaStarts(p)
    <3>1. AllFair => RestartIsFair(p)
      BY DEF AllFair
    <3>2. QED
      BY <1>1, <3>1, StaysUp
  <2>2. QED
    BY <2>1
<1>3. ReplicasStartTogether /\ (\A p \in Procs : ReplicaStarts(p)) => ReplicasRun
  BY DEF ReplicasStartTogether, ReplicaStarts, ReplicasRun, AllUp
<1>4. QED
  BY <1>1, <1>2, <1>3, CrashesDoCease

-----------------------------------------------------------------------------
\* ~~~ The schedule is followed ~~~

Calm ==
    /\ [][Next]_vars /\ [][crashes' = crashes]_vars
    /\ []TypeOK /\ []Staffed /\ []SchedulerGoesOn /\ []AllUp
    /\ LockIsFreed /\ WF_vars(Due)

LEMMA ScheduleMoves ==
    ASSUME TypeOK, [Next]_vars, crashes' = crashes, AllUp
    PROVE  \/ schedule' = schedule
           \/ schedule' = "none"
           \/ /\ schedule = "none" /\ schedule' = "unseeded"
              /\ \E t \in Requests : task[t].pc \in {"createSchedule", "patchSchedule"}
           \/ schedule = "waiting" /\ schedule' = "due"
           \/ /\ schedule' = "waiting"
              /\ \E m \in Monitors : \/ task[m].pc = "seeding"
                                     \/ /\ task[m].pc = "queued"
                                        /\ lock # {} \/ task'[m].pc = "syncing"
<1> DEFINE G == \/ schedule' = schedule
                \/ schedule' = "none"
                \/ /\ schedule = "none" /\ schedule' = "unseeded"
                   /\ \E t \in Requests : task[t].pc \in {"createSchedule", "patchSchedule"}
                \/ schedule = "waiting" /\ schedule' = "due"
                \/ /\ schedule' = "waiting"
                   /\ \E m \in Monitors : \/ task[m].pc = "seeding"
                                          \/ /\ task[m].pc = "queued"
                                             /\ lock # {} \/ task'[m].pc = "syncing"
<1>1. ASSUME NEW t \in Requests, Request(t) PROVE G
  <2>1. schedule' = schedule \/ schedule' = "none"
    BY <1>1 DEF Request, Create, Patch, SyncNow, Delete, Rotate
  <2>2. QED
    BY <2>1
<1>2. ASSUME NEW t \in Requests, Handle(t) PROVE G
  <2>1. CASE Schedule(t)
    BY <2>1 DEF Schedule, At
  <2>2. CASE ~Schedule(t)
    BY <1>2, <2>2 DEF Handle, ClearLock, RegisterFails, DeleteCommit, RotateCommit
  <2>3. QED
    BY <2>1, <2>2
<1>3. ASSUME NEW t \in Tasks, Sync(t) PROVE G
  <2>1. CASE Acquire(t) \/ Busy(t)
    <3>1. /\ schedule' = schedule \/ (t \in Monitors /\ schedule' = "waiting")
          /\ task[t].pc = "queued"
      BY <2>1 DEF Acquire, Busy, Stamp, At
    <3>2. lock # {} \/ task'[t].pc = "syncing"
      BY <1>3, <3>1, SyncGoes
    <3>3. QED
      BY <3>1, <3>2
  <2>2. CASE Discovered(t) \/ Save(t) \/ Release(t)
    <3>1. schedule' = schedule
      BY <2>2 DEF Discovered, Save, Release
    <3>2. QED
      BY <3>1
  <2>3. QED
    BY <1>3, <2>1, <2>2 DEF Sync
<1>4. ASSUME NEW m \in Monitors, Monitor(m) PROVE G
  BY <1>4, MonitorGoes
<1>5. ASSUME NEW p \in Procs, Crash(p) \/ CrashStarting(p) PROVE FALSE
  BY <1>5 DEF Crash, CrashStarting, TypeOK
<1>6. ASSUME NEW p \in Procs, Restart(p) PROVE FALSE
  BY <1>6, RestartGoes DEF AllUp
<1>7. CASE Due \/ LockExpires \/ ScheduleExpires \/ UNCHANGED vars
  BY <1>7 DEF Due, LockExpires, ScheduleExpires, vars
<1>8. QED
  BY <1>1, <1>2, <1>3, <1>4, <1>5, <1>6, <1>7 DEF Next

\* How a monitor gets through a sync.
MonitorOn == [syncing |-> {"saving", "saved"}, saving |-> {"saved"},
              saved |-> {"flushing"}, flushing |-> {"idle"}]

MonitorLeaves(m, x) == task[m].pc = x ~> task[m].pc \in MonitorOn[x]

LEMMA MonitorMoves ==
    ASSUME TypeOK, [Next]_vars, crashes' = crashes, NEW m \in Monitors
    PROVE  Sync(m) \/ Monitor(m) \/ task'[m] = task[m]
<1>1. m \in Tasks /\ m \notin Requests
  BY SchedulerAssumption DEF Monitors, Requests, Tasks
<1>2. crashes' # crashes + 1
  BY DEF TypeOK
<1>3. QED
  BY <1>1, <1>2, WhoMoves

LEMMA MonitorIsDone ==
    ASSUME NEW m \in Monitors
    PROVE  Calm /\ SyncIsFair(m) /\ MonitorIsFair(m) =>
             (TRUE ~> task[m].pc \in {"idle", "queued", "seeding"})
<1>0. m \in Tasks
  BY DEF Tasks
<1>1. ASSUME NEW x \in DOMAIN MonitorOn
      PROVE  Calm /\ SyncIsFair(m) /\ MonitorIsFair(m) => MonitorLeaves(m, x)
  <2>1. TypeOK /\ task[m].pc = x /\ [Next]_vars /\ [crashes' = crashes]_vars
          => (task[m].pc = x)' \/ (task[m].pc \in MonitorOn[x])'
    <3> SUFFICES ASSUME TypeOK, task[m].pc = x, [Next]_vars, crashes' = crashes
                 PROVE  task'[m].pc = x \/ task'[m].pc \in MonitorOn[x]
      BY DEF vars
    <3>1. QED
      BY <1>0, MonitorMoves, SyncGoes, MonitorGoes DEF MonitorOn
  <2>2. CASE x \in {"syncing", "saving", "saved"}
    <3>1. TypeOK /\ task[m].pc = x /\ <<Sync(m)>>_vars => ~(task[m].pc = x)'
      BY <1>0, <2>2, SyncGoes
    <3>2. SchedulerGoesOn /\ task[m].pc = x => CanSync(m)
      <4>1. task[m].pc = x => task[m].pc \in {"queued", "syncing", "saving", "saved"}
        BY <2>2
      <4>2. QED
        BY <1>0, <4>1 DEF SchedulerGoesOn
    <3>3. QED
      BY <2>1, <3>1, <3>2, PTL DEF Calm, SyncIsFair, CanSync, MonitorLeaves
  <2>3. CASE x = "flushing"
    <3>1. TypeOK /\ task[m].pc = x /\ <<Monitor(m)>>_vars => ~(task[m].pc = x)'
      BY <2>3, MonitorGoes
    <3>2. SchedulerGoesOn /\ task[m].pc = x => CanTick(m)
      BY <2>3 DEF SchedulerGoesOn, MonitorHasWork
    <3>3. QED
      BY <2>1, <3>1, <3>2, PTL DEF Calm, MonitorIsFair, CanTick, MonitorLeaves
  <2>4. QED
    BY <2>2, <2>3 DEF MonitorOn
<1>2. Calm /\ SyncIsFair(m) /\ MonitorIsFair(m) =>
        /\ MonitorLeaves(m, "syncing") /\ MonitorLeaves(m, "saving")
        /\ MonitorLeaves(m, "saved") /\ MonitorLeaves(m, "flushing")
  BY <1>1 DEF MonitorOn
<1>3. Staffed => \/ task[m].pc = "syncing" \/ task[m].pc = "saving"
                 \/ task[m].pc = "saved" \/ task[m].pc = "flushing"
                 \/ task[m].pc \in {"idle", "queued", "seeding"}
  BY DEF Staffed, MonitorSteps
<1>4. /\ task[m].pc \in MonitorOn["syncing"] => task[m].pc = "saving" \/ task[m].pc = "saved"
      /\ task[m].pc \in MonitorOn["saving"] => task[m].pc = "saved"
      /\ task[m].pc \in MonitorOn["saved"] => task[m].pc = "flushing"
      /\ task[m].pc \in MonitorOn["flushing"] => task[m].pc \in {"idle", "queued", "seeding"}
  BY DEF MonitorOn
<1>5. QED
  BY <1>2, <1>3, <1>4, PTL DEF Calm, MonitorLeaves

\* A monitor that has nothing to poll and nothing to seed rests.
LEMMA MonitorRests ==
    ASSUME NEW m \in Monitors
    PROVE  Calm /\ SyncIsFair(m) /\ MonitorIsFair(m)
             /\ [](task[m].pc # "queued") /\ [](task[m].pc # "seeding")
             => <>[](task[m].pc = "idle")
<1>1. TypeOK /\ task[m].pc = "idle" /\ [Next]_vars /\ [crashes' = crashes]_vars
        /\ (task[m].pc # "queued")' /\ (task[m].pc # "seeding")'
        => (task[m].pc = "idle")'
  <2> SUFFICES ASSUME TypeOK, task[m].pc = "idle", [Next]_vars, crashes' = crashes,
                      task'[m].pc # "queued", task'[m].pc # "seeding"
               PROVE  task'[m].pc = "idle"
    BY DEF vars
  <2>1. m \in Tasks
    BY DEF Tasks
  <2>2. QED
    BY <2>1, MonitorMoves, SyncGoes, MonitorGoes
<1>2. task[m].pc \in {"idle", "queued", "seeding"} /\ task[m].pc # "queued"
        /\ task[m].pc # "seeding" => task[m].pc = "idle"
  OBVIOUS
<1>3. QED
  BY <1>1, <1>2, MonitorIsDone, PTL DEF Calm

\* ~~~ Seeding comes to an end ~~~

Seeded == schedule # "unseeded"
StaysSeeded == [][Seeded => Seeded']_vars
EverSeeded == <>[]Seeded
SeedsPass(m) == <>[](task[m].pc # "seeding")
NobodySeeds == \A m \in Monitors : task[m].pc # "seeding"

\* A monitor with nothing to poll seeds the schedule.
LEMMA SeedingWorks ==
    ASSUME NEW m \in Monitors
    PROVE  Calm /\ SyncIsFair(m) /\ MonitorIsFair(m) /\ StaysSeeded
             /\ [](task[m].pc # "queued") => EverSeeded
<1>0. m \in Tasks /\ ProcOf(m) \in Procs
  BY DEF Tasks, Monitors, ProcOf
<1>1. TypeOK /\ ~Seeded /\ task[m].pc = "idle" /\ [Next]_vars /\ [crashes' = crashes]_vars
        => (task[m].pc = "idle")' \/ (task[m].pc = "seeding")'
  <2> SUFFICES ASSUME TypeOK, ~Seeded, task[m].pc = "idle", [Next]_vars, crashes' = crashes
               PROVE  task'[m].pc = "idle" \/ task'[m].pc = "seeding"
    BY DEF vars
  <2>1. QED
    BY <1>0, MonitorMoves, SyncGoes, MonitorGoes DEF Seeded
<1>2. TypeOK /\ ~Seeded /\ task[m].pc = "idle" /\ <<Monitor(m)>>_vars => ~(task[m].pc = "idle")'
  BY MonitorGoes DEF Seeded
<1>3. TypeOK /\ task[m].pc = "seeding" /\ [Next]_vars /\ [crashes' = crashes]_vars
        => (task[m].pc = "seeding")' \/ Seeded'
  <2> SUFFICES ASSUME TypeOK, task[m].pc = "seeding", [Next]_vars, crashes' = crashes
               PROVE  task'[m].pc = "seeding" \/ schedule' # "unseeded"
    BY DEF vars, Seeded
  <2>1. QED
    BY <1>0, MonitorMoves, SyncGoes, MonitorGoes
<1>4. TypeOK /\ task[m].pc = "seeding" /\ <<Monitor(m)>>_vars => Seeded'
  BY MonitorGoes DEF Seeded
<1>5. /\ SchedulerGoesOn /\ AllUp /\ ~Seeded /\ task[m].pc = "idle" => CanTick(m)
      /\ SchedulerGoesOn /\ task[m].pc = "seeding" => CanTick(m)
  BY <1>0 DEF SchedulerGoesOn, MonitorHasWork, AllUp, Seeded, At
<1>6. task[m].pc \in {"idle", "queued", "seeding"} /\ task[m].pc # "queued"
        => task[m].pc = "idle" \/ task[m].pc = "seeding"
  OBVIOUS
<1>7. Seeded /\ [Seeded => Seeded']_vars => Seeded'
  BY DEF vars, Seeded
<1>8. QED
  BY <1>1, <1>2, <1>3, <1>4, <1>5, <1>6, <1>7, MonitorIsDone, PTL
     DEF Calm, SyncIsFair, MonitorIsFair, CanTick, StaysSeeded, EverSeeded

\* Once the schedule is seeded for good, whoever is about to seed it does so once more.
LEMMA SeedsEnd ==
    ASSUME NEW m \in Monitors
    PROVE  Calm /\ MonitorIsFair(m) /\ EverSeeded => SeedsPass(m)
<1>0. m \in Tasks
  BY DEF Tasks
<1>1. TypeOK /\ Seeded /\ task[m].pc # "seeding" /\ [Next]_vars /\ [crashes' = crashes]_vars
        => (task[m].pc # "seeding")'
  <2> SUFFICES ASSUME TypeOK, Seeded, task[m].pc # "seeding", [Next]_vars, crashes' = crashes
               PROVE  task'[m].pc # "seeding"
    BY DEF vars
  <2>1. QED
    BY <1>0, MonitorMoves, SyncGoes, MonitorGoes DEF Seeded
<1>2. TypeOK /\ ~(task[m].pc # "seeding") /\ <<Monitor(m)>>_vars => (task[m].pc # "seeding")'
  BY MonitorGoes
<1>3. SchedulerGoesOn /\ ~(task[m].pc # "seeding") => CanTick(m)
  BY DEF SchedulerGoesOn, MonitorHasWork
<1>4. QED
  BY <1>1, <1>2, <1>3, PTL DEF Calm, MonitorIsFair, CanTick, SeedsPass, EverSeeded

EverCalm == <>Calm

LEMMA AllSeedsEnd ==
    EverCalm /\ AllFair /\ EverSeeded /\ SeedsPassTogether => <>[]NobodySeeds
<1>1. EverCalm /\ AllFair /\ EverSeeded => \A m \in Monitors : SeedsPass(m)
  <2>1. ASSUME NEW m \in Monitors
        PROVE  EverCalm /\ AllFair /\ EverSeeded => SeedsPass(m)
    <3>1. AllFair => MonitorIsFair(m)
      BY DEF AllFair
    <3>2. Calm /\ MonitorIsFair(m) /\ EverSeeded => SeedsPass(m)
      BY SeedsEnd
    <3>3. EverCalm /\ MonitorIsFair(m) /\ EverSeeded => SeedsPass(m)
      BY <3>2, PTL DEF EverCalm, MonitorIsFair, EverSeeded, SeedsPass
    <3>4. QED
      BY <3>1, <3>3
  <2>2. QED
    BY <2>1
<1>2. SeedsPassTogether /\ (\A m \in Monitors : SeedsPass(m)) => <>[]NobodySeeds
  BY DEF SeedsPassTogether, SeedsPass, NobodySeeds
<1>3. QED
  BY <1>1, <1>2

\* ~~~ A scheduled account is synced ~~~

\* It waits for a sync.
Waits ==
    /\ row.state = "live" /\ row.status \in Pollable /\ schedule # "none"
    /\ \A t \in Tasks : task[t].pc # "syncing"

LEMMA WaitsUnlocked ==
    ASSUME TypeOK, [Next]_vars, Waits', lock = {}
    PROVE  lock' = {}
  BY LockMoves DEF Waits

\* Whoever polls an account whose lock is free syncs it.
LEMMA WaitsUnpolled ==
    ASSUME NEW m \in Monitors
    PROVE  Calm /\ SyncIsFair(m) /\ []Waits /\ [](lock = {}) => [](task[m].pc # "queued")
<1>0. m \in Tasks
  BY DEF Tasks
<1>1. TypeOK /\ task[m].pc = "queued" /\ lock = {} /\ Waits' /\ [crashes' = crashes]_vars /\ [Next]_vars
        => (task[m].pc = "queued")' /\ ~<<Sync(m)>>_vars
  <2> SUFFICES ASSUME TypeOK, task[m].pc = "queued", lock = {}, Waits', crashes' = crashes, [Next]_vars
               PROVE  task'[m].pc = "queued" /\ ~Sync(m)
    BY DEF vars
  <2>1. ~Sync(m)
    BY <1>0, SyncGoes DEF Waits
  <2>2. QED
    BY <2>1, MonitorMoves, MonitorGoes
<1>2. SchedulerGoesOn /\ task[m].pc = "queued" => CanSync(m)
  BY <1>0 DEF SchedulerGoesOn
<1>3. task[m].pc # "queued" <=> ~(task[m].pc = "queued")
  OBVIOUS
<1>4. QED
  BY <1>1, <1>2, <1>3, PTL DEF Calm, SyncIsFair, CanSync

LEMMA WaitsFree == Calm /\ []Waits => <>[](lock = {})
<1>1. TypeOK /\ [Next]_vars /\ Waits' /\ lock = {} => (lock = {})'
  BY WaitsUnlocked
<1>2. lock # {} <=> ~(lock = {})
  OBVIOUS
<1>3. QED
  BY <1>1, <1>2, PTL DEF Calm, LockIsFreed

LEMMA WaitsSeeded ==
    ASSUME NEW m \in Monitors
    PROVE  Calm /\ SyncIsFair(m) /\ MonitorIsFair(m) /\ []Waits => EverSeeded
<1>1. TypeOK /\ Waits /\ Waits' /\ [Next]_vars /\ [crashes' = crashes]_vars /\ AllUp
        => [Seeded => Seeded']_vars
  <2> SUFFICES ASSUME TypeOK, Waits, [Next]_vars, [crashes' = crashes]_vars, AllUp, Seeded
               PROVE  Seeded'
    OBVIOUS
  <2>1. crashes' = crashes
    BY DEF vars
  <2>2. QED
    BY <2>1, ScheduleMoves DEF Waits, Seeded
<1>2. Calm /\ []Waits => StaysSeeded
  BY <1>1, PTL DEF Calm, StaysSeeded
<1>3. Calm /\ SyncIsFair(m) /\ []Waits => <>[](task[m].pc # "queued")
  BY WaitsFree, WaitsUnpolled, PTL DEF Calm, SyncIsFair, LockIsFreed
<1>4. QED
  BY <1>2, <1>3, SeedingWorks, PTL
     DEF Calm, SyncIsFair, MonitorIsFair, LockIsFreed, StaysSeeded, EverSeeded

Ready(m) == Waits /\ NobodySeeds /\ lock = {} /\ task[m].pc = "idle" /\ AllUp

LEMMA WaitsForever ==
    ASSUME NEW m \in Monitors
    PROVE  Calm /\ SyncIsFair(m) /\ MonitorIsFair(m) /\ []NobodySeeds => ~[]Waits
<1>0. ProcOf(m) \in Procs
  BY DEF Monitors, ProcOf
<1>1. Calm /\ SyncIsFair(m) /\ MonitorIsFair(m) /\ []NobodySeeds /\ []Waits => <>[]Ready(m)
  <2>1. NobodySeeds => task[m].pc # "seeding"
    BY DEF NobodySeeds
  <2>2. QED
    BY <2>1, WaitsFree, WaitsUnpolled, MonitorRests, PTL
       DEF Calm, SyncIsFair, MonitorIsFair, LockIsFreed, Ready
<1>2. TypeOK /\ Ready(m) /\ Ready(m)' /\ [Next]_vars /\ [crashes' = crashes]_vars =>
        /\ schedule = "unseeded" => (schedule = "unseeded")'
        /\ schedule = "waiting" => (schedule = "waiting")' \/ (schedule = "due")'
        /\ schedule = "due" => (schedule = "due")'
        /\ ~<<Monitor(m)>>_vars
  <2> SUFFICES ASSUME TypeOK, Ready(m), Ready(m)', [Next]_vars, crashes' = crashes
               PROVE  /\ schedule = "unseeded" => schedule' = "unseeded"
                      /\ schedule = "waiting" => schedule' \in {"waiting", "due"}
                      /\ schedule = "due" => schedule' = "due"
                      /\ ~Monitor(m)
    BY DEF vars
  <2>1. /\ \A n \in Monitors : task'[n].pc # "syncing"
        /\ \A n \in Monitors : task[n].pc # "seeding"
    BY DEF Ready, Waits, NobodySeeds, Tasks
  <2>2. schedule' # "none"
    BY DEF Ready, Waits
  <2>3. /\ schedule = "unseeded" => schedule' = "unseeded"
        /\ schedule = "waiting" => schedule' \in {"waiting", "due"}
        /\ schedule = "due" => schedule' = "due"
    BY <2>1, <2>2, ScheduleMoves DEF Ready
  <2>4. ~Monitor(m)
    BY <2>2, MonitorGoes DEF Ready, Waits, NobodySeeds
  <2>5. QED
    BY <2>3, <2>4
<1>3. SchedulerGoesOn /\ Ready(m) /\ (schedule = "unseeded" \/ schedule = "due")
        => CanTick(m)
  BY <1>0 DEF SchedulerGoesOn, MonitorHasWork, Ready, AllUp, Waits, At
<1>4. <<Due>>_vars => ~(schedule = "waiting")'
  BY DEF Due
<1>5. SchedulerGoesOn /\ schedule = "waiting" => ENABLED <<Due>>_vars
  BY DEF SchedulerGoesOn
<1>6. TypeOK /\ Ready(m) => schedule = "unseeded" \/ schedule = "waiting" \/ schedule = "due"
  BY DEF TypeOK, Ready, Waits
<1>7. Calm /\ MonitorIsFair(m) => ~[]Ready(m)
  BY <1>2, <1>3, <1>4, <1>5, <1>6, PTL DEF Calm, MonitorIsFair, CanTick
<1>8. QED
  BY <1>1, <1>7, PTL DEF Calm, SyncIsFair, MonitorIsFair, LockIsFreed

\* ~~~ A deleted account loses its schedule ~~~

Over == row.state \in {"deleted", "gone"}

LEMMA StaysOver ==
    ASSUME TypeOK, Over, [Next]_vars
    PROVE  Over'
<1>1. ASSUME NEW t \in Requests, Request(t) PROVE row' = row
  BY <1>1 DEF Request, Create, Patch, SyncNow, Delete, Rotate, Over
<1>2. ASSUME NEW t \in Requests, Handle(t) PROVE Over'
  <2>1. CASE Schedule(t) \/ ClearLock(t) \/ RegisterFails(t)
    BY <2>1 DEF Schedule, ClearLock, RegisterFails, Over
  <2>2. CASE DeleteCommit(t)
    BY <2>2, DeleteEnds DEF Over
  <2>3. ASSUME NEW c \in BOOLEAN, RotateCommit(t, c) PROVE Over'
    <3>1. row' = row \/ \E old, new, b : row' = Flushed(old, new, b)
      BY <2>3 DEF RotateCommit
    <3>2. QED
      BY <3>1, FlushedState DEF Over
  <2>4. QED
    BY <1>2, <2>1, <2>2, <2>3 DEF Handle
<1>3. ASSUME NEW t \in Tasks, Sync(t) PROVE row'.state = row.state
  <2>1. row' = row \/ \E old, new, b : row' = Flushed(old, new, b)
    BY <1>3 DEF Sync, Acquire, Busy, Discovered, Save, Release
  <2>2. QED
    BY <2>1, FlushedState
<1>4. ASSUME NEW m \in Monitors, Monitor(m) PROVE row'.state = row.state
  <2>1. row' = row \/ \E old, new, b : row' = Flushed(old, new, b)
    BY <1>4 DEF Monitor, FindUnseeded, Seed, Poll, ClearSchedule, Flush
  <2>2. QED
    BY <2>1, FlushedState
<1>5. ASSUME NEW p \in Procs, Crash(p) \/ CrashStarting(p) \/ Restart(p) PROVE row' = row
  BY <1>5, RestartGoes DEF Crash, CrashStarting
<1>6. CASE Due \/ LockExpires \/ ScheduleExpires \/ UNCHANGED vars
  BY <1>6 DEF Due, LockExpires, ScheduleExpires, vars, Over
<1>7. QED
  BY <1>1, <1>2, <1>3, <1>4, <1>5, <1>6 DEF Next, Over

\* A handler that has written the schedule has finished.
LEMMA HandlerFinishes ==
    ASSUME TypeOK, NEW t \in Requests, Handle(t)
    PROVE  task'[t].pc \notin {"createSchedule", "patchSchedule"}
<1>0. task \in [Tasks -> Record] /\ t \in Tasks
  BY DEF TypeOK, Record, Tasks
<1>1. CASE Schedule(t) \/ ClearLock(t) \/ RegisterFails(t)
  BY <1>0, <1>1 DEF Schedule, ClearLock, RegisterFails, Goto, Done, Idle, Record
<1>2. CASE Done(t)
  BY <1>0, <1>2 DEF Done, Idle
<1>3. QED
  BY <1>1, <1>2 DEF Handle, DeleteCommit, RotateCommit

LEMMA StaysFinished ==
    ASSUME NEW t \in Tasks, TypeOK, Over, Finished(t), [Next]_vars
    PROVE  Finished(t)'
<1>0. /\ task \in [Tasks -> Record]
      /\ Requests \subseteq Tasks /\ Monitors \subseteq Tasks /\ Requests \cap Monitors = {}
  BY SchedulerAssumption DEF TypeOK, Record, Monitors, Requests, Tasks
<1>1. CASE t \in Requests /\ Request(t)
  <2>1. task'[t].pc \notin {"createSchedule", "patchSchedule"}
    BY <1>0, <1>1 DEF Request, Create, Patch, SyncNow, Delete, Rotate, Goto, Record, Over
  <2>2. QED
    BY <1>0, <1>1, <2>1 DEF Finished
<1>2. CASE t \in Requests /\ Handle(t)
  BY <1>0, <1>2, HandlerFinishes DEF Finished
<1>3. CASE Sync(t)
  BY <1>0, <1>3, SyncGoes DEF Finished
<1>4. CASE t \in Monitors /\ Monitor(t)
  BY <1>0, <1>4, MonitorGoes DEF Finished, Over
<1>5. CASE task'[t] = task[t] \/ task'[t] = Idle
  BY <1>5 DEF Finished, Idle
<1>6. QED
  BY <1>1, <1>2, <1>3, <1>4, <1>5, WhoMoves

FinishesInTime(t) == <>[]Finished(t)

LEMMA HandlerIsFinished ==
    ASSUME NEW t \in Requests
    PROVE  [][Next]_vars /\ []TypeOK /\ []Over /\ []SchedulerGoesOn /\ HandleIsFair(t)
             => FinishesInTime(t)
<1>0. t \in Tasks /\ t \notin Monitors
  BY SchedulerAssumption DEF Monitors, Requests, Tasks
<1>1. TypeOK /\ Over /\ Finished(t) /\ [Next]_vars => Finished(t)'
  BY <1>0, StaysFinished
<1>2. TypeOK /\ <<Handle(t)>>_vars => Finished(t)'
  BY <1>0, HandlerFinishes DEF Finished
<1>3. SchedulerGoesOn /\ ~Finished(t) => CanHandle(t)
  BY <1>0 DEF SchedulerGoesOn, Finished
<1>4. QED
  BY <1>1, <1>2, <1>3, PTL DEF HandleIsFair, CanHandle, FinishesInTime

LEMMA MonitorIsFinished ==
    ASSUME NEW t \in Monitors
    PROVE  [][Next]_vars /\ []TypeOK /\ []Over /\ []SchedulerGoesOn /\ SyncIsFair(t)
             => FinishesInTime(t)
<1>0. t \in Tasks /\ t \notin Requests
  BY SchedulerAssumption DEF Monitors, Requests, Tasks
<1>1. TypeOK /\ Over /\ Finished(t) /\ [Next]_vars => Finished(t)'
  BY <1>0, StaysFinished
<1>2. TypeOK /\ <<Sync(t)>>_vars => Finished(t)'
  BY <1>0, SyncGoes DEF Finished
<1>3. SchedulerGoesOn /\ ~Finished(t) => CanSync(t)
  BY <1>0 DEF SchedulerGoesOn, Finished
<1>4. QED
  BY <1>1, <1>2, <1>3, PTL DEF SyncIsFair, CanSync, FinishesInTime

Unscheduled == <>[](schedule = "none")
AllFinished == \A t \in Tasks : Finished(t)

LEMMA OverSeeded ==
    ASSUME NEW m \in Monitors
    PROVE  Calm /\ SyncIsFair(m) /\ MonitorIsFair(m) /\ []AllFinished => EverSeeded
<1>1. TypeOK /\ AllFinished /\ [Next]_vars /\ [crashes' = crashes]_vars /\ AllUp
        => [Seeded => Seeded']_vars
  <2> SUFFICES ASSUME TypeOK, AllFinished, [Next]_vars, [crashes' = crashes]_vars, AllUp, Seeded
               PROVE  Seeded'
    OBVIOUS
  <2>1. crashes' = crashes
    BY DEF vars
  <2>2. \A t \in Requests : task[t].pc \notin {"createSchedule", "patchSchedule"}
    BY DEF AllFinished, Finished, Tasks
  <2>3. QED
    BY <2>1, <2>2, ScheduleMoves DEF Seeded
<1>2. AllFinished => task[m].pc # "queued"
  BY DEF AllFinished, Finished, Tasks
<1>3. QED
  BY <1>1, <1>2, SeedingWorks, PTL
     DEF Calm, SyncIsFair, MonitorIsFair, LockIsFreed, StaysSeeded, EverSeeded

LEMMA OverForever ==
    ASSUME NEW m \in Monitors
    PROVE  Calm /\ SyncIsFair(m) /\ MonitorIsFair(m)
             /\ []Over /\ []AllFinished /\ []NobodySeeds => Unscheduled
<1>0. ProcOf(m) \in Procs
  BY DEF Monitors, ProcOf
<1>1. AllFinished /\ NobodySeeds => task[m].pc # "queued" /\ task[m].pc # "seeding"
  BY DEF AllFinished, Finished, NobodySeeds, Tasks
<1>2. Calm /\ SyncIsFair(m) /\ MonitorIsFair(m) /\ []AllFinished /\ []NobodySeeds
        => <>[](task[m].pc = "idle")
  BY <1>1, MonitorRests, PTL
<1>3. TypeOK /\ Over /\ AllFinished /\ NobodySeeds /\ AllUp
      /\ [Next]_vars /\ [crashes' = crashes]_vars =>
        /\ schedule = "none" => (schedule = "none")'
        /\ schedule = "unseeded" => (schedule = "unseeded")' \/ (schedule = "none")'
        /\ schedule = "waiting" =>
             (schedule = "waiting")' \/ (schedule = "due")' \/ (schedule = "none")'
        /\ schedule = "due" => (schedule = "due")' \/ (schedule = "none")'
  <2> SUFFICES ASSUME TypeOK, Over, AllFinished, NobodySeeds, AllUp, [Next]_vars,
                      crashes' = crashes
               PROVE  /\ schedule = "none" => schedule' = "none"
                      /\ schedule = "unseeded" => schedule' \in {"unseeded", "none"}
                      /\ schedule = "waiting" => schedule' \in {"waiting", "due", "none"}
                      /\ schedule = "due" => schedule' \in {"due", "none"}
    BY DEF vars
  <2>1. /\ \A t \in Requests : task[t].pc \notin {"createSchedule", "patchSchedule"}
        /\ \A n \in Monitors : task[n].pc # "queued" /\ task[n].pc # "seeding"
    BY DEF AllFinished, Finished, NobodySeeds, Tasks
  <2>2. QED
    BY <2>1, ScheduleMoves
<1>4. /\ TypeOK /\ NobodySeeds' /\ task[m].pc = "idle" /\ schedule = "unseeded"
           => ~<<Monitor(m)>>_vars
      /\ TypeOK /\ Over /\ <<Monitor(m)>>_vars /\ task[m].pc = "idle" /\ schedule = "due" =>
           ~(schedule = "due")'
  BY MonitorGoes DEF Over, NobodySeeds
<1>5. SchedulerGoesOn /\ AllUp /\ Over /\ task[m].pc = "idle"
        /\ (schedule = "unseeded" \/ schedule = "due") => CanTick(m)
  BY <1>0 DEF SchedulerGoesOn, MonitorHasWork, AllUp, Over, At
<1>6. <<Due>>_vars => ~(schedule = "waiting")'
  BY DEF Due
<1>7. SchedulerGoesOn /\ schedule = "waiting" => ENABLED <<Due>>_vars
  BY DEF SchedulerGoesOn
<1>8. TypeOK => schedule = "none" \/ schedule = "unseeded" \/ schedule = "waiting" \/ schedule = "due"
  BY DEF TypeOK
<1>9. QED
  BY <1>2, <1>3, <1>4, <1>5, <1>6, <1>7, <1>8, PTL
     DEF Calm, MonitorIsFair, CanTick, Unscheduled

EverOver == <>Over
EverWaits == <>[]Waits

LEMMA AllFinish ==
    FairSpec /\ []SchedulerGoesOn /\ TasksFinishTogether /\ EverOver => <>[]AllFinished
<1>1. FairSpec => [][Next]_vars /\ []TypeOK /\ AllFair
  BY TypeCorrect, PTL DEF FairSpec, Spec, AllFair
<1>2. TypeOK /\ Over /\ [Next]_vars => Over'
  BY StaysOver
<1>3. FairSpec /\ []SchedulerGoesOn /\ EverOver => \A t \in Tasks : FinishesInTime(t)
  <2>1. ASSUME NEW t \in Requests
        PROVE  FairSpec /\ []SchedulerGoesOn /\ EverOver => FinishesInTime(t)
    <3>1. AllFair => HandleIsFair(t)
      BY DEF AllFair
    <3>2. QED
      BY <1>1, <1>2, <3>1, HandlerIsFinished, PTL DEF HandleIsFair, EverOver, FinishesInTime
  <2>2. ASSUME NEW t \in Monitors
        PROVE  FairSpec /\ []SchedulerGoesOn /\ EverOver => FinishesInTime(t)
    <3>1. AllFair => SyncIsFair(t)
      BY DEF AllFair, Tasks
    <3>2. QED
      BY <1>1, <1>2, <3>1, MonitorIsFinished, PTL DEF SyncIsFair, EverOver, FinishesInTime
  <2>3. QED
    BY <2>1, <2>2 DEF Tasks
<1>4. TasksFinishTogether /\ (\A t \in Tasks : FinishesInTime(t)) => <>[]AllFinished
  BY DEF TasksFinishTogether, FinishesInTime, AllFinished
<1>5. QED
  BY <1>3, <1>4

\* A deleted account loses its schedule for good, although handlers and a tick
\* that were under way wrote it again (sync_scheduler.py:506), and a scheduled
\* account is synced, although other syncs, patches, expiries and crashes come
\* between.
THEOREM SchedulerKeepsItsPromise ==
    FairSpec /\ []SchedulerGoesOn /\ WhatIsFinite => SchedulerKeepsUp
<1> DEFINE Premises == FairSpec /\ []SchedulerGoesOn /\ WhatIsFinite
<1>1. FairSpec => AllFair /\ [][Next]_vars /\ []TypeOK /\ []Staffed
  BY TypeCorrect, AlwaysStaffed, PTL DEF FairSpec, Spec, AllFair
<1>2. Premises => EverCalm
  <2>1. FairSpec => WF_vars(Due)
    BY PTL DEF FairSpec
  <2>0. FairSpec => Spec
    BY PTL DEF FairSpec
  <2>2. Premises => ReplicasRun
    BY ReplicasDoRun DEF WhatIsFinite
  <2>3. Premises => CrashesCease
    BY <2>0, CrashesDoCease DEF WhatIsFinite
  <2>4. Premises => []SchedulerGoesOn /\ LockIsFreed
    BY LockIsFreedInTime
  <2>5. QED
    BY <1>1, <2>1, <2>2, <2>3, <2>4, PTL
       DEF ReplicasRun, CrashesCease, Calm, EverCalm, LockIsFreed
<1>3. ~Waits => \/ \E t \in Tasks : task[t].pc = "syncing"
                \/ row.state # "live"
                \/ row.status \notin Pollable
                \/ schedule = "none"
  BY DEF Waits
<1>4. CASE Procs = {}
  <2>1. Staffed => ~Over /\ ~Waits
    BY <1>4 DEF Staffed, Over, Waits
  <2>2. FairSpec => DeletedIsUnscheduled /\ ScheduledIsSynced
    BY <1>1, <1>3, <2>1, PTL DEF DeletedIsUnscheduled, ScheduledIsSynced, Over
  <2>3. QED
    BY <2>2, LockIsFreedInTime, PTL DEF SchedulerKeepsUp
<1>5. CASE Procs # {}
  <2>1. PICK p \in Procs : TRUE
    BY <1>5
  <2> DEFINE m == <<p, "monitor">>
  <2>2. m \in Monitors /\ m \in Tasks /\ ProcOf(m) = p
    BY DEF Monitors, Tasks, ProcOf
  <2> HIDE DEF m
  <2>3. AllFair => SyncIsFair(m) /\ MonitorIsFair(m)
    BY <2>2 DEF AllFair
  <2>4. Calm /\ SyncIsFair(m) /\ MonitorIsFair(m) /\ []Waits => EverSeeded
    BY <2>2, WaitsSeeded
  <2>5. Premises /\ EverWaits => EverSeeded
    BY <1>1, <1>2, <2>3, <2>4, PTL
       DEF EverCalm, EverWaits, EverSeeded, SyncIsFair, MonitorIsFair, Calm, LockIsFreed
  <2>6. Calm /\ SyncIsFair(m) /\ MonitorIsFair(m) /\ []NobodySeeds => ~[]Waits
    BY <2>2, WaitsForever
  <2>7. Premises => ~EverWaits
    <3>1. Premises /\ EverWaits => <>[]NobodySeeds
      BY <1>1, <1>2, <2>5, AllSeedsEnd DEF WhatIsFinite, EverCalm
    <3>2. QED
      BY <1>1, <1>2, <2>3, <2>6, <3>1, PTL
         DEF EverWaits, EverCalm, SyncIsFair, MonitorIsFair, Calm, LockIsFreed
  <2>8. Premises => ScheduledIsSynced
    BY <1>3, <2>7, PTL DEF ScheduledIsSynced, EverWaits
  <2>9. TypeOK /\ Over /\ [Next]_vars => Over'
    BY StaysOver
  <2>10. Premises /\ EverOver => Unscheduled
    <3>1. Premises /\ EverOver => <>[]AllFinished
      BY AllFinish DEF WhatIsFinite
    <3>2. Calm /\ SyncIsFair(m) /\ MonitorIsFair(m) /\ []AllFinished => EverSeeded
      BY <2>2, OverSeeded
    <3>3. Premises /\ EverOver => EverSeeded
      BY <1>1, <1>2, <2>3, <3>1, <3>2, PTL
         DEF EverCalm, EverSeeded, SyncIsFair, MonitorIsFair, Calm, LockIsFreed
    <3>4. Premises /\ EverOver => <>[]NobodySeeds
      BY <1>1, <1>2, <3>3, AllSeedsEnd DEF WhatIsFinite, EverCalm
    <3>5. Calm /\ SyncIsFair(m) /\ MonitorIsFair(m)
            /\ []Over /\ []AllFinished /\ []NobodySeeds => Unscheduled
      BY <2>2, OverForever
    <3>6. QED
      BY <1>1, <1>2, <2>3, <2>9, <3>1, <3>4, <3>5, PTL
         DEF EverCalm, EverOver, SyncIsFair, MonitorIsFair, Calm, LockIsFreed, Unscheduled
  <2>11. Premises => DeletedIsUnscheduled
    BY <2>10, PTL DEF EverOver, Over, DeletedIsUnscheduled, Unscheduled
  <2>12. QED
    BY <2>8, <2>11, LockIsFreedInTime, PTL DEF SchedulerKeepsUp
<1>6. QED
  BY <1>4, <1>5
=============================================================================
