--------------------------- MODULE DiscoveryProofs ---------------------------
(***************************************************************************)
(* The freshness state machine, the grace period and what consumers hear   *)
(* of deletions, for any resources, syncs, threshold, bounds and faults,   *)
(* as long as the account has one sync at a time.  That is what the lock   *)
(* of the scheduler is there for: LockSuffices and what cites it take the  *)
(* promise of AccountSyncs, which SyncScheduler implements, in its place.  *)
(*                                                                         *)
(* FreshnessOK alone is not inductive: the sweep writes what it decided on *)
(* an earlier read, so the invariant must say that a sync about to write   *)
(* still has the truth about the rows it read (DecisionOK).  The grace     *)
(* period needs a relation between the counter in the row and the history  *)
(* of the syncs (MissesCounted), and the announcement of a deletion that   *)
(* the rows about to be announced are still deleted and due (DropOK).      *)
(*                                                                         *)
(* Convergence is proved at the end: once changes and faults have ceased,  *)
(* every sync lists the whole cloud, a resource that exists is found and   *)
(* told of, and one that does not is missed until it is due.               *)
(***************************************************************************)
EXTENDS Discovery, TLAPS

Active == {s \in Syncs : ~In(s, "idle")}

OneAtATime == \A s, t \in Active : s = t

\* What the sweep read is still so when it writes.
DecisionOK ==
    \A s \in Syncs : In(s, "writing") =>
        /\ sync[s].drop \cup sync[s].stale \subseteq Live \ sync[s].listed
        /\ \A r \in sync[s].drop  : OverThreshold(db[r])
        /\ \A r \in sync[s].stale : ~OverThreshold(db[r])

\* A row counts no more misses than syncs missed the resource in a row.
MissesCounted ==
    "failedUpsert" \notin faults.kinds =>
        \A r \in Resources : streak[r] >= db[r].missed \/ streak[r] = Threshold

\* What a sync is about to announce as deleted is deleted, and duly so.
DropOK ==
    \A s \in Syncs : In(s, "deleting") =>
        \A r \in sync[s].drop :
            /\ db[r].deleted
            /\ "failedUpsert" \notin faults.kinds => streak[r] = Threshold

Inv == TypeOK /\ FreshnessOK /\ DecisionOK /\ MissesCounted /\ DropOK

FaultLog == [count : 0..MaxFaults, kinds : SUBSET Faults]

LEMMA FaultType ==
    ASSUME NEW kind, faults \in FaultLog, Fault(kind)
    PROVE  /\ faults' \in FaultLog
           /\ faults'.kinds = faults.kinds \cup {kind}
<1> DEFINE n == faults.count + 1
           k == faults.kinds \cup {kind}
<1>1. n \in 0..MaxFaults
  BY DiscoveryAssumption DEF Fault, FaultLog
<1>2. k \in SUBSET Faults
  BY DEF Fault, FaultLog
<1>3. faults' = [count |-> n, kinds |-> k]
  BY DEF Fault
<1> HIDE DEF n, k
<1>4. faults' \in FaultLog /\ faults'.kinds = k
  BY <1>1, <1>2, <1>3 DEF FaultLog
<1> QED
  BY <1>4 DEF k

LEMMA ThroughType ==
    ASSUME NEW all, NEW part, NEW kind, faults \in FaultLog,
           Through(all, part, kind)
    PROVE  /\ faults' \in FaultLog
           /\ part \subseteq all
           /\ faults.kinds \subseteq faults'.kinds
           /\ kind \notin faults'.kinds => part = all
<1>1. CASE part = all /\ UNCHANGED faults
  BY <1>1
<1>2. CASE part # all /\ part \subseteq all /\ Fault(kind)
  BY <1>2, FaultType
<1> QED
  BY <1>1, <1>2 DEF Through

Sweep == [phase : Phases, listed : SUBSET Resources,
          drop : SUBSET Resources, stale : SUBSET Resources]

LEMMA IdleSyncType == IdleSync \in Sweep
  BY DEF IdleSync, Sweep, Phases

\* ~~~ Rows: what the upsert and the sweep make of one, field by field ~~~

Count == 0..MaxMissed
Freshness == {"fresh", "stale", "deleted"}

LEMMA CountType == 0 \in Count /\ \A n \in Count : n < MaxMissed => n + 1 \in Count
  BY DiscoveryAssumption DEF Count, MaxMissed

LEMMA RowSet ==
    Row = [stored : BOOLEAN, deleted : BOOLEAN, freshness : Freshness, missed : Count]
  BY DEF Row, Freshness, Count

LEMMA RowFields ==
    ASSUME NEW row \in Row
    PROVE  /\ row.stored \in BOOLEAN /\ row.deleted \in BOOLEAN
           /\ row.freshness \in Freshness
  BY RowSet

LEMMA RowMisses ==
    ASSUME NEW row \in Row
    PROVE  row.missed \in Nat /\ row.missed <= Threshold + 1
<1>1. row.missed \in Count
  BY RowSet
<1> QED
  BY <1>1, DiscoveryAssumption DEF Count, MaxMissed

LEMMA NoRowType == NoRow \in Row /\ ~NoRow.stored /\ NoRow.missed = 0
  BY RowSet, CountType DEF NoRow, Freshness

LEMMA SeenType ==
    ASSUME NEW row \in Row
    PROVE  SeenRow(row) \in Row
<1> "fresh" \in Freshness
  BY DEF Freshness
<1> QED
  BY RowSet, CountType DEF SeenRow

LEMMA SeenFields ==
    ASSUME NEW row \in Row
    PROVE  /\ SeenRow(row).stored
           /\ ~SeenRow(row).deleted
           /\ SeenRow(row).freshness = "fresh"
           /\ SeenRow(row).missed = 0
  BY RowSet DEF SeenRow

LEMMA MissedType ==
    ASSUME NEW row \in Row, NEW f \in Freshness, NEW d \in BOOLEAN
    PROVE  Missed(row, f, d) \in Row
<1> DEFINE n == IF row.missed < MaxMissed THEN row.missed + 1 ELSE row.missed
<1>1. n \in Count
  BY RowSet, CountType
<1> HIDE DEF n
<1>2. [row EXCEPT !.freshness = f, !.deleted = d, !.missed = n] \in Row
  BY RowSet, <1>1
<1> QED
  BY <1>2 DEF Missed, n

\* One more miss, short of the bound on the counter.
LEMMA MissedCounts ==
    ASSUME NEW row \in Row, NEW f, NEW d
    PROVE  /\ Missed(row, f, d).missed \in Nat
           /\ Missed(row, f, d).missed # 0
           /\ Missed(row, f, d).missed <= row.missed + 1
<1>1. row.missed \in Nat /\ row.missed <= Threshold + 1
  BY RowMisses
<1>2. Missed(row, f, d).missed = IF row.missed < MaxMissed THEN row.missed + 1
                                                          ELSE row.missed
  BY RowSet DEF Missed
<1> QED
  BY <1>1, <1>2, DiscoveryAssumption DEF MaxMissed

Dropped(row) == Missed(row, "deleted", TRUE)
Staled(row) == Missed(row, "stale", row.deleted)

LEMMA DroppedFields ==
    ASSUME NEW row \in Row
    PROVE  /\ Dropped(row).deleted
           /\ Dropped(row).freshness = "deleted"
           /\ Dropped(row).missed # 0
           /\ Dropped(row).missed \in Nat
           /\ Dropped(row).missed <= row.missed + 1
<1>1. Dropped(row).deleted /\ Dropped(row).freshness = "deleted"
  BY RowSet DEF Dropped, Missed
<1>2. /\ Missed(row, "deleted", TRUE).missed \in Nat
      /\ Missed(row, "deleted", TRUE).missed # 0
      /\ Missed(row, "deleted", TRUE).missed <= row.missed + 1
  BY MissedCounts
<1>3. /\ Dropped(row).missed # 0
      /\ Dropped(row).missed \in Nat
      /\ Dropped(row).missed <= row.missed + 1
  BY <1>2, Zenon DEF Dropped
<1> QED
  BY <1>1, <1>3

LEMMA StaledFields ==
    ASSUME NEW row \in Row
    PROVE  /\ Staled(row).deleted = row.deleted
           /\ Staled(row).freshness = "stale"
           /\ Staled(row).missed # 0
           /\ Staled(row).missed \in Nat
           /\ Staled(row).missed <= row.missed + 1
<1>1. Staled(row).deleted = row.deleted /\ Staled(row).freshness = "stale"
  BY RowSet DEF Staled, Missed
<1>2. /\ Missed(row, "stale", row.deleted).missed \in Nat
      /\ Missed(row, "stale", row.deleted).missed # 0
      /\ Missed(row, "stale", row.deleted).missed <= row.missed + 1
  BY MissedCounts
<1>3. /\ Staled(row).missed # 0
      /\ Staled(row).missed \in Nat
      /\ Staled(row).missed <= row.missed + 1
  BY <1>2, Zenon DEF Staled
<1> QED
  BY <1>1, <1>3

\* SweepWrite row by row.
LEMMA SweptRow ==
    ASSUME NEW s, SweepWrite(s), NEW r \in Resources
    PROVE  db'[r] = IF r \in sync[s].drop THEN Dropped(db[r])
                    ELSE IF r \in sync[s].stale THEN Staled(db[r])
                    ELSE db[r]
  BY DEF SweepWrite, Dropped, Staled

LEMMA InitInv == Init => Inv
<1> SUFFICES ASSUME Init PROVE Inv
  OBVIOUS
<1>1. \A r \in Resources : db[r] = NoRow /\ streak[r] = 0
  BY DEF Init
<1>2. TypeOK
  BY NoRowType, IdleSyncType, DiscoveryAssumption DEF Init, TypeOK, Sweep
<1>3. FreshnessOK /\ MissesCounted
  <2>1. \A r \in Resources : ~db[r].stored /\ db[r].missed = 0
    BY <1>1, NoRowType
  <2> QED
    BY <1>1, <2>1 DEF FreshnessOK, MissesCounted
<1>4. DecisionOK /\ DropOK
  BY DEF Init, DecisionOK, DropOK, In, IdleSync
<1> QED
  BY <1>2, <1>3, <1>4 DEF Inv

\* The types need no bound on the number of syncs.
LEMMA StepType == TypeOK /\ [Next]_vars => TypeOK'
<1> SUFFICES ASSUME TypeOK, [Next]_vars PROVE TypeOK'
  OBVIOUS
<1> USE DiscoveryAssumption
<1>0. sync \in [Syncs -> Sweep] /\ faults \in FaultLog
  BY DEF TypeOK, Sweep, FaultLog
<1>1. CASE CloudChanges
  BY <1>1 DEF CloudChanges, TypeOK
<1>2. ASSUME NEW s \in Syncs, Start(s) PROVE TypeOK'
  BY <1>2 DEF Start, TypeOK, GoTo, Phases
<1>3. ASSUME NEW s \in Syncs, Proceed(s) PROVE TypeOK'
  <2>1. CASE List(s)
    <3>1. PICK listed \in SUBSET cloud :
            /\ Through(cloud, listed, "partialList")
            /\ sync' = [sync EXCEPT ![s].phase = "emitting", ![s].listed = listed]
      BY <2>1 DEF List
    <3>2. faults' \in FaultLog /\ listed \subseteq Resources
      BY <3>1, <1>0, ThroughType DEF TypeOK
    <3>3. sync' \in [Syncs -> Sweep]
      BY <3>1, <3>2, <1>0 DEF Sweep, Phases
    <3> QED
      BY <2>1, <3>2, <3>3 DEF List, TypeOK, Sweep, FaultLog
  <2>2. CASE ListFails(s) \/ SweepFails(s)
    <3>1. sync' \in [Syncs -> Sweep]
      BY <2>2, <1>0, IdleSyncType DEF ListFails, SweepFails, Finish
    <3>2. faults' \in FaultLog
      BY <2>2, <1>0, FaultType DEF ListFails, SweepFails
    <3> QED
      BY <2>2, <3>1, <3>2 DEF ListFails, SweepFails, TypeOK, Sweep, FaultLog
  <2>3. CASE EmitDiscovered(s)
    <3>1. PICK arrived \in SUBSET sync[s].listed :
            /\ Through(sync[s].listed, arrived, "lostEvent")
            /\ view' = view \cup arrived
      BY <2>3 DEF EmitDiscovered, Delivered
    <3>2. faults' \in FaultLog
      BY <3>1, <1>0, ThroughType
    <3>3. view' \subseteq Resources
      BY <3>1, <1>0 DEF TypeOK, Sweep
    <3> QED
      BY <2>3, <3>2, <3>3 DEF EmitDiscovered, GoTo, TypeOK, Phases, FaultLog
  <2>4. CASE Upsert(s)
    <3>1. PICK saved \in SUBSET sync[s].listed :
            /\ Through(sync[s].listed, saved, "failedUpsert")
            /\ db' = [r \in Resources |-> IF r \in saved THEN SeenRow(db[r]) ELSE db[r]]
      BY <2>4 DEF Upsert
    <3>2. faults' \in FaultLog
      BY <3>1, <1>0, ThroughType
    <3>3. db' \in [Resources -> Row]
      BY <3>1, SeenType DEF TypeOK
    <3>4. streak' \in [Resources -> 0..Threshold]
      BY <2>4 DEF Upsert, TypeOK
    <3> QED
      BY <2>4, <3>2, <3>3, <3>4 DEF Upsert, GoTo, TypeOK, Phases, FaultLog
  <2>5. CASE SweepRead(s)
    <3>1. Live \subseteq Resources
      BY DEF Live
    <3>2. sync' \in [Syncs -> Sweep]
      BY <2>5, <3>1, <1>0 DEF SweepRead, Sweep, Phases
    <3> QED
      BY <2>5, <3>2 DEF SweepRead, TypeOK, Sweep
  <2>6. CASE SweepWrite(s)
    <3>1. ASSUME NEW r \in Resources PROVE db'[r] \in Row
      <4>1. db[r] \in Row /\ db[r].deleted \in BOOLEAN
        BY RowFields DEF TypeOK
      <4>2. Dropped(db[r]) \in Row /\ Staled(db[r]) \in Row
        BY <4>1, MissedType DEF Freshness, Dropped, Staled
      <4> QED
        BY <2>6, <4>1, <4>2, SweptRow
    <3>2. db' \in [Resources -> Row]
      <4>1. db' = [r \in Resources |-> db'[r]]
        BY <2>6 DEF SweepWrite
      <4> QED
        BY <3>1, <4>1
    <3>3. streak' \in [Resources -> 0..Threshold]
      BY <2>6 DEF SweepWrite, TypeOK
    <3>4. sync' \in [Syncs -> Sweep]
      BY <2>6, <1>0 DEF SweepWrite, GoTo, Sweep, Phases
    <3>5. UNCHANGED <<cloud, view, account, changes, faults>>
      BY <2>6 DEF SweepWrite
    <3> QED
      BY <3>2, <3>3, <3>4, <3>5 DEF TypeOK, Sweep
  <2>7. CASE EmitDeleted(s)
    <3>1. PICK arrived : /\ Through(sync[s].drop, arrived, "lostEvent")
                         /\ view' = view \ arrived
      BY <2>7 DEF EmitDeleted, Delivered
    <3>2. faults' \in FaultLog
      BY <3>1, <1>0, ThroughType
    <3>3. sync' \in [Syncs -> Sweep]
      BY <2>7, <1>0, IdleSyncType DEF EmitDeleted, Finish
    <3> QED
      BY <2>7, <3>1, <3>2, <3>3 DEF EmitDeleted, TypeOK, Sweep, FaultLog
  <2> QED
    BY <1>3, <2>1, <2>2, <2>3, <2>4, <2>5, <2>6, <2>7 DEF Proceed
<1>4. ASSUME NEW s \in Syncs, Crash(s) PROVE TypeOK'
  <2>1. sync' \in [Syncs -> Sweep]
    BY <1>4, <1>0, IdleSyncType DEF Crash, Finish
  <2>2. faults' \in FaultLog
    BY <1>4, <1>0, FaultType DEF Crash
  <2> QED
    BY <1>4, <2>1, <2>2 DEF Crash, TypeOK, Sweep, FaultLog
<1>5. CASE EmitAccountDeleted
  <2>1. PICK arrived : /\ Through(Live, arrived, "lostEvent")
                       /\ view' = view \ arrived
    BY <1>5 DEF EmitAccountDeleted, Delivered
  <2>2. faults' \in FaultLog
    BY <2>1, <1>0, ThroughType
  <2> QED
    BY <1>5, <2>1, <2>2 DEF EmitAccountDeleted, TypeOK, FaultLog
<1>6. CASE DeleteAccount
  BY <1>6 DEF DeleteAccount, TypeOK
<1>7. CASE UNCHANGED vars
  BY <1>7 DEF vars, TypeOK
<1> QED
  BY <1>1, <1>2, <1>3, <1>4, <1>5, <1>6, <1>7 DEF Next

\* ~~~ One sync at a time ~~~

Safety == FreshnessOK /\ DecisionOK /\ MissesCounted /\ DropOK

\* Kinds of faults are only ever added.
LEMMA KindsGrow ==
    ASSUME TypeOK, [Next]_vars
    PROVE  faults.kinds \subseteq faults'.kinds
<1>0. faults \in FaultLog
  BY DEF TypeOK, FaultLog
<1>1. CASE UNCHANGED faults
  BY <1>1
<1>2. ASSUME NEW kind, Fault(kind) PROVE faults.kinds \subseteq faults'.kinds
  BY <1>0, <1>2, FaultType
<1>3. ASSUME NEW all, NEW part, NEW kind, Through(all, part, kind)
      PROVE  faults.kinds \subseteq faults'.kinds
  BY <1>0, <1>3, ThroughType
<1>4. ASSUME NEW s \in Syncs, Proceed(s) PROVE faults.kinds \subseteq faults'.kinds
  <2>1. CASE List(s)
    BY <2>1, <1>3 DEF List
  <2>2. CASE ListFails(s) \/ SweepFails(s)
    BY <2>2, <1>2 DEF ListFails, SweepFails
  <2>3. CASE EmitDiscovered(s) \/ EmitDeleted(s)
    BY <2>3, <1>3 DEF EmitDiscovered, EmitDeleted, Delivered
  <2>4. CASE Upsert(s)
    BY <2>4, <1>3 DEF Upsert
  <2>5. CASE SweepRead(s) \/ SweepWrite(s)
    BY <2>5, <1>1 DEF SweepRead, SweepWrite
  <2> QED
    BY <1>4, <2>1, <2>2, <2>3, <2>4, <2>5 DEF Proceed
<1>5. CASE CloudChanges \/ DeleteAccount \/ UNCHANGED vars
  BY <1>5, <1>1 DEF CloudChanges, DeleteAccount, vars
<1>6. ASSUME NEW s \in Syncs, Start(s) \/ Crash(s)
      PROVE  faults.kinds \subseteq faults'.kinds
  BY <1>6, <1>1, <1>2 DEF Start, Crash
<1>7. CASE EmitAccountDeleted
  BY <1>7, <1>3 DEF EmitAccountDeleted, Delivered
<1> QED
  BY <1>4, <1>5, <1>6, <1>7 DEF Next

\* A step that leaves the rows and the history alone keeps the safety part,
\* unless it puts a sync into a phase that relies on what it decided.
LEMMA QuietStep ==
    ASSUME Inv, [Next]_vars, UNCHANGED <<db, streak>>,
           \A s \in Syncs :
               In(s, "writing")' \/ In(s, "deleting")' => sync'[s] = sync[s]
    PROVE  Safety'
<1>0. "failedUpsert" \notin faults'.kinds => "failedUpsert" \notin faults.kinds
  BY KindsGrow DEF Inv
<1>1. FreshnessOK'
  BY DEF Inv, FreshnessOK
<1>2. MissesCounted'
  BY <1>0 DEF Inv, MissesCounted
<1>3. DecisionOK'
  BY DEF Inv, DecisionOK, In, Live, OverThreshold
<1>4. DropOK'
  BY <1>0 DEF Inv, DropOK, In
<1> QED
  BY <1>1, <1>2, <1>3, <1>4 DEF Safety

LEMMA StepSafety == Inv /\ OneAtATime /\ [Next]_vars => Safety'
<1> SUFFICES ASSUME Inv, OneAtATime, [Next]_vars
             PROVE  Safety'
  OBVIOUS
<1> USE DiscoveryAssumption
<1>0. /\ sync \in [Syncs -> Sweep] /\ db \in [Resources -> Row]
      /\ streak \in [Resources -> 0..Threshold]
      /\ faults \in FaultLog
  BY DEF Inv, TypeOK, Sweep, FaultLog
<1>1. CASE CloudChanges \/ EmitAccountDeleted \/ DeleteAccount \/ UNCHANGED vars
  BY <1>1, QuietStep DEF CloudChanges, EmitAccountDeleted, DeleteAccount, vars, In
<1>2. ASSUME NEW s \in Syncs, Start(s) \/ Crash(s)
      PROVE  Safety'
  <2>1. UNCHANGED <<db, streak>>
    BY <1>2 DEF Start, Crash
  <2>2. \A t \in Syncs :
          In(t, "writing")' \/ In(t, "deleting")' => sync'[t] = sync[t]
    BY <1>2, <1>0 DEF Start, Crash, GoTo, Finish, In, IdleSync, Sweep
  <2> QED
    BY <2>1, <2>2, QuietStep
<1>3. ASSUME NEW s \in Syncs, Proceed(s)
      PROVE  Safety'
  <2>0. /\ s \in Active
        /\ \A t \in Syncs \ {s} : sync'[t] = sync[t] /\ In(t, "idle")
    <3>1. s \in Active
      BY <1>3 DEF Proceed, List, ListFails, EmitDiscovered, Upsert, SweepRead,
                  SweepFails, SweepWrite, EmitDeleted, In, Active
    <3>2. \A t \in Syncs \ {s} : sync'[t] = sync[t]
      BY <1>3, <1>0 DEF Proceed, List, ListFails, EmitDiscovered, Upsert, SweepRead,
                  SweepFails, SweepWrite, EmitDeleted, GoTo, Finish
    <3> QED
      BY <3>1, <3>2 DEF OneAtATime, Active
  <2>1. CASE List(s) \/ ListFails(s) \/ EmitDiscovered(s) \/ SweepFails(s) \/ EmitDeleted(s)
    <3>1. UNCHANGED <<db, streak>>
      BY <2>1 DEF List, ListFails, EmitDiscovered, SweepFails, EmitDeleted
    <3>2. \A t \in Syncs :
            In(t, "writing")' \/ In(t, "deleting")' => sync'[t] = sync[t]
      BY <2>1, <1>0 DEF List, ListFails, EmitDiscovered, SweepFails, EmitDeleted,
                        GoTo, Finish, In, IdleSync, Sweep
    <3> QED
      BY <3>1, <3>2, QuietStep
  <2>2. CASE Upsert(s)
    <3>1. PICK saved \in SUBSET sync[s].listed :
            /\ Through(sync[s].listed, saved, "failedUpsert")
            /\ db' = [r \in Resources |-> IF r \in saved THEN SeenRow(db[r]) ELSE db[r]]
      BY <2>2 DEF Upsert
    <3>2. FreshnessOK'
      <4> SUFFICES ASSUME NEW r \in Resources, db'[r].stored
                   PROVE  /\ db'[r].deleted <=> db'[r].freshness = "deleted"
                          /\ db'[r].freshness = "fresh" <=> db'[r].missed = 0
                          /\ db'[r].freshness = "stale" => db'[r].missed < Threshold
        BY DEF FreshnessOK
      <4>1. CASE r \in saved
        BY <3>1, <4>1, <1>0, SeenFields
      <4>2. CASE r \notin saved
        BY <3>1, <4>2 DEF Inv, FreshnessOK
      <4> QED
        BY <4>1, <4>2
    <3>3. DecisionOK'
      BY <2>0, <2>2, <1>0 DEF Upsert, GoTo, DecisionOK, In, Sweep
    <3>4. MissesCounted'
      <4> SUFFICES ASSUME "failedUpsert" \notin faults'.kinds, NEW r \in Resources
                   PROVE  streak'[r] >= db'[r].missed \/ streak'[r] = Threshold
        BY DEF MissesCounted
      <4>1. saved = sync[s].listed /\ "failedUpsert" \notin faults.kinds
        BY <3>1, <1>0, ThroughType
      <4>2. CASE r \in saved
        BY <2>2, <3>1, <4>1, <4>2, <1>0, SeenFields DEF Upsert
      <4>3. CASE r \notin saved
        BY <2>2, <3>1, <4>1, <4>3, <1>0 DEF Upsert, Inv, MissesCounted
      <4> QED
        BY <4>2, <4>3
    <3>5. DropOK'
      BY <2>0, <2>2, <1>0 DEF Upsert, GoTo, DropOK, In, Sweep
    <3> QED
      BY <3>2, <3>3, <3>4, <3>5 DEF Safety
  <2>3. CASE SweepRead(s)
    <3>1. FreshnessOK' /\ MissesCounted'
      BY <2>3 DEF SweepRead, Inv, FreshnessOK, MissesCounted
    <3>2. DecisionOK'
      <4> DEFINE missing == Live \ sync[s].listed
                 drop == {r \in missing : OverThreshold(db[r])}
      <4>1. /\ sync'[s].drop = drop
            /\ sync'[s].stale = missing \ drop
            /\ sync'[s].listed = sync[s].listed
            /\ db' = db
        BY <2>3, <1>0 DEF SweepRead, Sweep
      <4>2. Live' = Live
        BY <4>1 DEF Live
      <4>3. \A t \in Syncs : In(t, "writing")' => t = s
        BY <2>0 DEF In
      <4> QED
        BY <4>1, <4>2, <4>3 DEF DecisionOK, OverThreshold
    <3>3. DropOK'
      <4>1. sync'[s].phase = "writing"
        BY <2>3, <1>0 DEF SweepRead, Sweep
      <4>2. \A t \in Syncs : ~In(t, "deleting")'
        BY <2>0, <4>1 DEF In
      <4> QED
        BY <4>2 DEF DropOK
    <3> QED
      BY <3>1, <3>2, <3>3 DEF Safety
  <2>4. CASE SweepWrite(s)
    <3>1. /\ sync[s].drop \cup sync[s].stale \subseteq Live \ sync[s].listed
          /\ \A r \in sync[s].drop  : OverThreshold(db[r])
          /\ \A r \in sync[s].stale : ~OverThreshold(db[r])
      BY <2>4 DEF SweepWrite, Inv, DecisionOK
    <3>2. ASSUME NEW r \in Resources
          PROVE  db'[r] = IF r \in sync[s].drop THEN Dropped(db[r])
                          ELSE IF r \in sync[s].stale THEN Staled(db[r])
                          ELSE db[r]
      BY <2>4, SweptRow
    <3>3. ASSUME NEW r \in Resources
          PROVE  streak'[r] = IF r \in sync[s].listed \/ streak[r] = Threshold
                              THEN streak[r] ELSE streak[r] + 1
      BY <2>4 DEF SweepWrite
    <3>4. FreshnessOK'
      <4> SUFFICES ASSUME NEW r \in Resources, db'[r].stored
                   PROVE  /\ db'[r].deleted <=> db'[r].freshness = "deleted"
                          /\ db'[r].freshness = "fresh" <=> db'[r].missed = 0
                          /\ db'[r].freshness = "stale" => db'[r].missed < Threshold
        BY DEF FreshnessOK
      <4>0. db[r] \in Row
        BY <1>0
      <4>1. CASE r \in sync[s].drop
        <5>1. db'[r] = Dropped(db[r])
          BY <4>1, <3>2
        <5> QED
          BY <4>0, <5>1, DroppedFields
      <4>2. CASE r \notin sync[s].drop /\ r \in sync[s].stale
        <5>1. /\ db[r].missed \in Nat
              /\ ~(db[r].missed + 1 >= Threshold)
          BY <4>0, <4>2, <3>1, RowMisses DEF OverThreshold
        <5>2. ~db[r].deleted
          BY <4>2, <3>1 DEF Live
        <5>3. db'[r] = Staled(db[r])
          BY <4>2, <3>2
        <5>4. ~db'[r].deleted /\ db'[r].freshness = "stale"
          BY <4>0, <5>2, <5>3, StaledFields
        <5>5. db'[r].missed # 0 /\ db'[r].missed < Threshold
          BY <4>0, <5>1, <5>3, StaledFields
        <5> QED
          BY <5>4, <5>5
      <4>3. CASE r \notin sync[s].drop \cup sync[s].stale
        BY <4>3, <3>2 DEF Inv, FreshnessOK
      <4> QED
        BY <4>1, <4>2, <4>3
    <3>5. DecisionOK'
      BY <2>0, <2>4, <1>0 DEF SweepWrite, GoTo, DecisionOK, In, Sweep
    <3>6. MissesCounted'
      <4> SUFFICES ASSUME "failedUpsert" \notin faults'.kinds, NEW r \in Resources
                   PROVE  streak'[r] >= db'[r].missed \/ streak'[r] = Threshold
        BY DEF MissesCounted
      <4>0. /\ db[r] \in Row
            /\ streak[r] \in 0..Threshold
            /\ streak[r] >= db[r].missed \/ streak[r] = Threshold
        BY <2>4, <1>0 DEF SweepWrite, Inv, MissesCounted
      <4>1. CASE r \in sync[s].drop \cup sync[s].stale
        <5>1. r \notin sync[s].listed
          BY <4>1, <3>1
        <5>2. db'[r].missed \in Nat /\ db'[r].missed <= db[r].missed + 1
          <6>1. db'[r] = Dropped(db[r]) \/ db'[r] = Staled(db[r])
            BY <4>1, <3>2
          <6> QED
            BY <4>0, <6>1, DroppedFields, StaledFields
        <5>3. db[r].missed \in Nat
          BY <4>0, RowMisses
        <5>4. streak'[r] = IF streak[r] = Threshold THEN streak[r] ELSE streak[r] + 1
          BY <5>1, <3>3
        <5> QED
          BY <4>0, <5>2, <5>3, <5>4
      <4>2. CASE r \notin sync[s].drop \cup sync[s].stale
        <5>1. db'[r] = db[r] /\ db[r].missed \in Nat
          BY <4>0, <4>2, <3>2, RowMisses
        <5> QED
          BY <4>0, <5>1, <3>3
      <4> QED
        BY <4>1, <4>2
    <3>7. DropOK'
      <4> SUFFICES ASSUME NEW t \in Syncs, In(t, "deleting")', NEW r \in sync'[t].drop
                   PROVE  /\ db'[r].deleted
                          /\ "failedUpsert" \notin faults'.kinds => streak'[r] = Threshold
        BY DEF DropOK
      <4>0. t = s /\ sync'[s].drop = sync[s].drop
        BY <2>0, <2>4, <1>0 DEF SweepWrite, GoTo, In, Sweep
      <4>1. r \in sync[s].drop /\ r \in Resources
        BY <4>0, <1>0 DEF Sweep
      <4>2. db[r] \in Row /\ db'[r] = Dropped(db[r])
        BY <4>1, <3>2, <1>0
      <4>3. db'[r].deleted
        BY <4>2, DroppedFields
      <4>4. ASSUME "failedUpsert" \notin faults'.kinds PROVE streak'[r] = Threshold
        <5>1. r \notin sync[s].listed /\ OverThreshold(db[r])
          BY <4>1, <3>1
        <5>2. db[r].missed \in Nat /\ db[r].missed + 1 >= Threshold
          BY <5>1, <4>2, RowMisses DEF OverThreshold
        <5>3. /\ streak[r] \in 0..Threshold
              /\ streak[r] >= db[r].missed \/ streak[r] = Threshold
          BY <4>1, <4>4, <2>4, <1>0 DEF SweepWrite, Inv, MissesCounted
        <5>4. streak'[r] = IF streak[r] = Threshold THEN streak[r] ELSE streak[r] + 1
          BY <5>1, <4>1, <3>3
        <5> QED
          BY <5>2, <5>3, <5>4
      <4> QED
        BY <4>3, <4>4
    <3> QED
      BY <3>4, <3>5, <3>6, <3>7 DEF Safety
  <2> QED
    BY <1>3, <2>1, <2>2, <2>3, <2>4 DEF Proceed
<1> QED
  BY <1>1, <1>2, <1>3 DEF Next

THEOREM InvHolds == Spec /\ []OneAtATime => []Inv
<1>1. Inv /\ OneAtATime /\ [Next]_vars => Inv'
  BY StepType, StepSafety DEF Inv, Safety
<1> QED
  BY InitInv, <1>1, PTL DEF Spec

\* The type invariant, for any number of syncs at once.
THEOREM TypeCorrect == Spec => []TypeOK
<1>1. Init => TypeOK
  BY InitInv DEF Inv
<1> QED
  BY <1>1, StepType, PTL DEF Spec

\* With one sync at a time no fault breaks the freshness state machine
\* (cloud_account.py:140): a live row is never at the threshold.
THEOREM FreshnessHolds == Spec /\ []OneAtATime => []FreshnessOK
<1>1. Inv => FreshnessOK
  BY DEF Inv
<1> QED
  BY InvHolds, <1>1, PTL

\* With one sync at a time, a resource is marked deleted only after Threshold
\* syncs in a row missed it, until an upsert fails (discovery.py:194).
THEOREM GraceHolds == Spec /\ []OneAtATime => DeletedAfterGrace
<1> DEFINE A == \A r \in Resources :
                  r \in Live /\ db'[r].deleted /\ "failedUpsert" \notin faults.kinds
                    => streak'[r] >= Threshold
<1>1. Inv /\ [Next]_vars => [A]_vars
  <2> SUFFICES ASSUME Inv, Next, NEW r \in Live, db'[r].deleted,
                      "failedUpsert" \notin faults.kinds
               PROVE  streak'[r] >= Threshold
    BY DEF Live
  <2> USE DiscoveryAssumption
  <2>0. /\ r \in Resources /\ ~db[r].deleted
        /\ db[r] \in Row /\ streak[r] \in 0..Threshold
        /\ streak[r] >= db[r].missed \/ streak[r] = Threshold
    BY DEF Live, Inv, TypeOK, MissesCounted
  <2>1. db' # db
    BY <2>0
  <2>2. PICK s \in Syncs : Upsert(s) \/ SweepWrite(s)
    BY <2>1 DEF Next, CloudChanges, Start, Proceed, Crash, List, ListFails,
                EmitDiscovered, SweepRead, SweepFails, EmitDeleted,
                EmitAccountDeleted, DeleteAccount
  <2>3. CASE Upsert(s)
    <3>1. db'[r] = SeenRow(db[r]) \/ db'[r] = db[r]
      BY <2>0, <2>3 DEF Upsert
    <3> QED
      BY <2>0, <3>1, SeenFields
  <2>4. CASE SweepWrite(s)
    <3>1. r \in sync[s].drop
      <4>1. SUFFICES ASSUME r \notin sync[s].drop PROVE FALSE
        OBVIOUS
      <4>2. db'[r] = db[r] \/ db'[r] = Staled(db[r])
        BY <2>0, <2>4, <4>1, SweptRow
      <4>3. db'[r].deleted = db[r].deleted
        BY <2>0, <4>2, StaledFields
      <4> QED
        BY <2>0, <4>3
    <3>2. OverThreshold(db[r]) /\ r \notin sync[s].listed
      BY <2>4, <3>1 DEF SweepWrite, Inv, DecisionOK
    <3>3. streak'[r] = IF streak[r] = Threshold THEN streak[r] ELSE streak[r] + 1
      BY <2>0, <2>4, <3>2 DEF SweepWrite
    <3> QED
      <4>1. db[r].missed \in Nat /\ db[r].missed + 1 >= Threshold
        BY <2>0, <3>2, RowMisses DEF OverThreshold
      <4>2. /\ streak[r] \in 0..Threshold
            /\ streak[r] >= db[r].missed \/ streak[r] = Threshold
        BY <2>0
      <4> QED
        BY <3>3, <4>1, <4>2
  <2> QED
    BY <2>2, <2>3, <2>4
<1> QED
  BY InvHolds, <1>1, PTL DEF Spec, DeletedAfterGrace

\* What can take a resource from the consumers of a live account.
LEMMA ForgetStep ==
    ASSUME Inv, Next, NEW r \in Resources,
           account = "live", account' = "live", r \in view, r \notin view'
    PROVE  \E s \in Syncs : In(s, "deleting") /\ r \in sync[s].drop
<1>1. view' # view
  OBVIOUS
<1>2. PICK s \in Syncs : EmitDiscovered(s) \/ EmitDeleted(s)
  BY <1>1 DEF Next, CloudChanges, Start, Proceed, Crash, List, ListFails, Upsert,
              SweepRead, SweepWrite, SweepFails, EmitAccountDeleted, DeleteAccount
<1>3. ~EmitDiscovered(s)
  BY DEF EmitDiscovered
<1> QED
  BY <1>2, <1>3 DEF EmitDeleted

\* With one sync at a time, consumers of a live account hear of a deletion
\* only when it is committed (discovery.py:280) and, unless an upsert failed,
\* due.
THEOREM ForgottenDulyHolds == Spec /\ []OneAtATime => ForgottenDuly
<1> DEFINE Gone(r) == /\ account = "live" /\ account' = "live"
                      /\ r \in view /\ r \notin view'
           A == \A r \in Resources :
                  /\ account = "live" /\ account' = "live"
                  /\ r \in view /\ r \notin view'
                  /\ "failedUpsert" \notin faults.kinds
                  => streak[r] >= Threshold
           B == \A r \in Resources :
                  account = "live" /\ account' = "live" /\ r \in view /\ r \notin view'
                    => db[r].deleted
<1>1. Inv /\ [Next]_vars => [A]_vars
  <2> SUFFICES ASSUME Inv, Next, NEW r \in Resources, Gone(r),
                      "failedUpsert" \notin faults.kinds
               PROVE  streak[r] >= Threshold
    OBVIOUS
  <2>1. streak[r] = Threshold
    BY ForgetStep DEF Inv, DropOK
  <2> QED
    BY <2>1, DiscoveryAssumption
<1>2. Inv /\ [Next]_vars => [B]_vars
  <2> SUFFICES ASSUME Inv, Next, NEW r \in Resources, Gone(r)
               PROVE  db[r].deleted
    OBVIOUS
  <2> QED
    BY ForgetStep DEF Inv, DropOK
<1>3. Spec /\ []OneAtATime => ForgottenAfterGrace
  BY InvHolds, <1>1, PTL DEF Spec, ForgottenAfterGrace
<1>4. Spec /\ []OneAtATime => DeletionIsCommitted
  BY InvHolds, <1>2, PTL DEF Spec, DeletionIsCommitted
<1> QED
  BY <1>3, <1>4 DEF ForgottenDuly

\* ~~~ Under the scheduler's lock ~~~

\* An account's work as AccountSyncs has it, whatever its other variables are.
VARIABLES stage, record, working, closing, syncing, owner, robbed
CONSTANTS Workers, Records

Lock == INSTANCE AccountSyncs WITH account <- stage

\* The lock keeps its promise, a discovery runs only in the task of a sync that
\* holds it, and nobody clears it under a running sync.
UnderTheLock == Lock!Spec /\ [](Active \subseteq syncing) /\ []~robbed

\* Whoever implements AccountSyncs runs one sync at a time until it is robbed
\* (sync_scheduler.py:245).
LEMMA LockExcludes == Lock!Spec => []Lock!Exclusive
<1>1. Lock!Init => Lock!Exclusive
  BY DEF Lock!Init, Lock!Exclusive
<1>2. Lock!Exclusive /\ [Lock!Next]_(Lock!vars) => Lock!Exclusive'
  <2> SUFFICES ASSUME Lock!Exclusive, [Lock!Next]_(Lock!vars) PROVE Lock!Exclusive'
    OBVIOUS
  <2>1. ASSUME NEW w \in Workers, Lock!Begin(w) PROVE Lock!Exclusive'
    BY <2>1 DEF Lock!Begin, Lock!Exclusive
  <2>2. ASSUME NEW w \in Workers, Lock!End(w) PROVE Lock!Exclusive'
    BY <2>2 DEF Lock!End, Lock!Exclusive
  <2>3. ASSUME Lock!Rob, syncing' = syncing PROVE Lock!Exclusive'
    BY <2>3 DEF Lock!Rob, Lock!Exclusive
  <2>4. CASE Lock!Die
    BY <2>4 DEF Lock!Die, Lock!Exclusive
  <2>5. ASSUME UNCHANGED <<syncing, owner, robbed>> PROVE Lock!Exclusive'
    BY <2>5 DEF Lock!Exclusive
  <2>6. ASSUME NEW w \in Workers,
               \/ Lock!Create(w) \/ Lock!Arrive(w) \/ Lock!Write(w) \/ Lock!Leave(w)
               \/ Lock!StartClose(w) \/ Lock!Close(w)
        PROVE  Lock!Exclusive'
    BY <2>5, <2>6 DEF Lock!Create, Lock!Arrive, Lock!Write, Lock!Leave,
                      Lock!StartClose, Lock!Close
  <2>7. CASE Lock!Expire \/ \E w \in Workers : Lock!Reschedule(w)
    BY <2>3, <2>7 DEF Lock!Expire, Lock!Reschedule
  <2>8. CASE UNCHANGED Lock!vars
    BY <2>5, <2>8 DEF Lock!vars
  <2> QED
    BY <2>1, <2>2, <2>4, <2>6, <2>7, <2>8 DEF Lock!Next
<1> QED
  BY <1>1, <1>2, PTL DEF Lock!Spec

LEMMA LockSuffices == UnderTheLock => []OneAtATime
<1>1. Lock!Exclusive /\ ~robbed /\ Active \subseteq syncing => OneAtATime
  BY DEF Lock!Exclusive, OneAtATime
<1> QED
  BY LockExcludes, <1>1, PTL DEF UnderTheLock

\* Discovery and the lock together: while no lock is taken from a running sync,
\* the account's resources stay in the freshness state machine, and are deleted
\* and announced as deleted only when that is due (sync_scheduler.py:245,
\* discovery.py:194, 280).
THEOREM LockedDiscovery ==
    Spec /\ UnderTheLock => []FreshnessOK /\ DeletedAfterGrace /\ ForgottenDuly
  BY LockSuffices, FreshnessHolds, GraceHolds, ForgottenDulyHolds, PTL

-----------------------------------------------------------------------------
(***************************************************************************)
(* Consumers end up with what exists.  As long as no upsert failed, no     *)
(* event was lost and no sync died, whatever a consumer believes to exist  *)
(* has a live row, is about to have one, or is about to be announced as    *)
(* deleted (Told); and a sync sweeps all the live rows that it did not     *)
(* list, and announces none that it did (Whole, Apart).                    *)
(***************************************************************************)
Good == account = "live" /\ faults.kinds \cap Lossy = {}

\* Sync s is about to give r a row, or to announce that r was deleted.
Bears(s, r) == \/ In(s, "upserting") /\ r \in sync[s].listed
               \/ In(s, "deleting")  /\ r \in sync[s].drop

Told  == Good => \A r \in view : r \in Live \/ \E s \in Syncs : Bears(s, r)
Whole == \A s \in Syncs : In(s, "writing") =>
             Live \ sync[s].listed \subseteq sync[s].drop \cup sync[s].stale
Apart == \A s \in Syncs : In(s, "deleting") => sync[s].drop \cap sync[s].listed = {}

\* What each phase of a sync does.
Lists(s) ==
    /\ In(s, "listing") /\ sync'[s].phase = "emitting" /\ db' = db /\ view' = view
    /\ faults' = faults => sync'[s].listed = cloud

GivesUp(s) ==
    /\ In(s, "listing") \/ In(s, "sweeping")
    /\ sync'[s].phase = "idle" /\ db' = db /\ view' = view
    /\ faults' # faults

Emits(s) ==
    /\ In(s, "emitting") /\ sync'[s].phase = "upserting" /\ db' = db
    /\ sync'[s].listed = sync[s].listed
    /\ view \subseteq view' /\ view' \subseteq view \cup sync[s].listed
    /\ "lostEvent" \notin faults'.kinds \/ faults' = faults => view' = view \cup sync[s].listed

Upserts(s) ==
    /\ In(s, "upserting") /\ sync'[s].phase = "sweeping" /\ view' = view
    /\ sync'[s].listed = sync[s].listed
    /\ \A r \in Resources : db'[r] = db[r] \/ (r \in sync[s].listed /\ db'[r] = SeenRow(db[r]))
    /\ "failedUpsert" \notin faults'.kinds =>
         \A r \in sync[s].listed : db'[r] = SeenRow(db[r])

Decides(s) ==
    /\ In(s, "sweeping") /\ sync'[s].phase = "writing" /\ db' = db /\ view' = view
    /\ sync'[s].listed = sync[s].listed
    /\ sync'[s].drop \cup sync'[s].stale = Live \ sync[s].listed

Writes(s) ==
    /\ In(s, "writing") /\ sync'[s].phase = "deleting" /\ view' = view
    /\ sync'[s].listed = sync[s].listed /\ sync'[s].drop = sync[s].drop
    /\ SweepWrite(s)

Announces(s) ==
    /\ In(s, "deleting") /\ sync'[s].phase = "idle" /\ db' = db
    /\ view' \subseteq view /\ view \ sync[s].drop \subseteq view'
    /\ "lostEvent" \notin faults'.kinds => view' = view \ sync[s].drop

LEMMA WhatProceedDoes ==
    ASSUME TypeOK, NEW s \in Syncs, Proceed(s)
    PROVE  /\ \/ Lists(s) \/ GivesUp(s) \/ Emits(s) \/ Upserts(s)
              \/ Decides(s) \/ Writes(s) \/ Announces(s)
           /\ UNCHANGED <<account, cloud, changes>> /\ s \in Active
           /\ \A t \in Syncs \ {s} : sync'[t] = sync[t]
<1>0. sync \in [Syncs -> Sweep] /\ db \in [Resources -> Row] /\ faults \in FaultLog
  BY DEF TypeOK, Sweep, FaultLog
<1>1. /\ s \in Active /\ \A t \in Syncs \ {s} : sync'[t] = sync[t]
  BY <1>0 DEF Proceed, List, ListFails, EmitDiscovered, Upsert, SweepRead,
              SweepFails, SweepWrite, EmitDeleted, In, Active, GoTo, Finish
<1>2. UNCHANGED <<account, cloud, changes>>
  BY DEF Proceed, List, ListFails, EmitDiscovered, Upsert, SweepRead,
         SweepFails, SweepWrite, EmitDeleted
<1>3. ASSUME NEW kind, Fault(kind) PROVE faults' # faults
  <2>1. faults'.count = faults.count + 1 /\ faults.count \in 0..MaxFaults
    BY <1>0, <1>3 DEF Fault, FaultLog
  <2> QED
    BY <2>1, DiscoveryAssumption
<1>4. ASSUME NEW all, NEW part, NEW kind, Through(all, part, kind)
      PROVE  /\ part \subseteq all
             /\ kind \notin faults'.kinds \/ faults' = faults => part = all
  <2>1. part \subseteq all /\ (kind \notin faults'.kinds => part = all)
    BY <1>0, <1>4, ThroughType
  <2>2. part = all \/ Fault(kind)
    BY <1>4 DEF Through
  <2> QED
    BY <1>3, <2>1, <2>2
<1>5. CASE List(s)
  <2>1. PICK listed \in SUBSET cloud :
          /\ Through(cloud, listed, "partialList")
          /\ sync' = [sync EXCEPT ![s].phase = "emitting", ![s].listed = listed]
    BY <1>5 DEF List
  <2>2. sync'[s].phase = "emitting" /\ sync'[s].listed = listed
    BY <1>0, <2>1 DEF Sweep
  <2>3. Lists(s)
    BY <1>4, <1>5, <2>1, <2>2 DEF List, Lists
  <2> QED
    BY <1>1, <1>2, <2>3
<1>6. CASE ListFails(s) \/ SweepFails(s)
  <2>1. sync'[s].phase = "idle"
    BY <1>0, <1>6 DEF ListFails, SweepFails, Finish, IdleSync
  <2>2. GivesUp(s)
    BY <1>3, <1>6, <2>1 DEF ListFails, SweepFails, GivesUp
  <2> QED
    BY <1>1, <1>2, <2>2
<1>7. CASE EmitDiscovered(s)
  <2>1. PICK arrived \in SUBSET sync[s].listed :
          Through(sync[s].listed, arrived, "lostEvent") /\ view' = view \cup arrived
    BY <1>7 DEF EmitDiscovered, Delivered
  <2>2. sync'[s].phase = "upserting" /\ sync'[s].listed = sync[s].listed
    BY <1>0, <1>7 DEF EmitDiscovered, GoTo, Sweep
  <2>3. Emits(s)
    BY <1>4, <1>7, <2>1, <2>2 DEF EmitDiscovered, Emits
  <2> QED
    BY <1>1, <1>2, <2>3
<1>8. CASE Upsert(s)
  <2>1. PICK saved \in SUBSET sync[s].listed :
          /\ Through(sync[s].listed, saved, "failedUpsert")
          /\ db' = [r \in Resources |-> IF r \in saved THEN SeenRow(db[r]) ELSE db[r]]
    BY <1>8 DEF Upsert
  <2>2. /\ sync'[s].phase = "sweeping" /\ sync'[s].listed = sync[s].listed
        /\ sync[s].listed \subseteq Resources
    BY <1>0, <1>8 DEF Upsert, GoTo, Sweep
  <2>3. "failedUpsert" \notin faults'.kinds => saved = sync[s].listed
    BY <1>4, <2>1
  <2>4. Upserts(s)
    BY <1>8, <2>1, <2>2, <2>3 DEF Upsert, Upserts
  <2> QED
    BY <1>1, <1>2, <2>4
<1>9. CASE SweepRead(s)
  <2> DEFINE missing == Live \ sync[s].listed
             drop == {r \in missing : OverThreshold(db[r])}
  <2>1. /\ sync'[s].drop = drop /\ sync'[s].stale = missing \ drop
        /\ sync'[s].listed = sync[s].listed /\ sync'[s].phase = "writing"
    BY <1>0, <1>9 DEF SweepRead, Sweep
  <2>2. Decides(s)
    BY <1>9, <2>1 DEF SweepRead, Decides
  <2> QED
    BY <1>1, <1>2, <2>2
<1>10. CASE SweepWrite(s)
  <2>1. /\ sync'[s].phase = "deleting" /\ sync'[s].listed = sync[s].listed
        /\ sync'[s].drop = sync[s].drop /\ In(s, "writing") /\ view' = view
    BY <1>0, <1>10 DEF SweepWrite, GoTo, Sweep
  <2>2. Writes(s)
    BY <1>10, <2>1 DEF Writes
  <2> QED
    BY <1>1, <1>2, <2>2
<1>11. CASE EmitDeleted(s)
  <2>1. PICK arrived \in SUBSET sync[s].drop :
          Through(sync[s].drop, arrived, "lostEvent") /\ view' = view \ arrived
    BY <1>11 DEF EmitDeleted, Delivered
  <2>2. sync'[s].phase = "idle"
    BY <1>0, <1>11 DEF EmitDeleted, Finish, IdleSync
  <2>3. Announces(s)
    BY <1>4, <1>11, <2>1, <2>2 DEF EmitDeleted, Announces
  <2> QED
    BY <1>1, <1>2, <2>3
<1> QED
  BY <1>5, <1>6, <1>7, <1>8, <1>9, <1>10, <1>11 DEF Proceed

\* What else happens to the syncs and the rows.
LEMMA WhatElseHappens ==
    ASSUME TypeOK, [Next]_vars, \A s \in Syncs : ~Proceed(s)
    PROVE  /\ db' = db
           /\ \A s \in Syncs : \/ sync'[s] = sync[s]
                               \/ In(s, "idle") /\ sync'[s].phase = "listing"
                               \/ ~In(s, "idle") /\ sync'[s].phase = "idle"
           /\ Good' => view' = view /\ \A s \in Syncs : sync'[s].phase = "idle" => In(s, "idle")
<1>0. sync \in [Syncs -> Sweep] /\ faults \in FaultLog
  BY DEF TypeOK, Sweep, FaultLog
<1>1. ASSUME NEW s \in Syncs, Start(s)
      PROVE  /\ db' = db /\ view' = view /\ In(s, "idle") /\ sync'[s].phase = "listing"
             /\ \A t \in Syncs \ {s} : sync'[t] = sync[t]
  BY <1>0, <1>1 DEF Start, GoTo, Sweep
<1>2. ASSUME NEW s \in Syncs, Crash(s)
      PROVE  /\ db' = db /\ ~In(s, "idle") /\ sync'[s].phase = "idle" /\ ~Good'
             /\ \A t \in Syncs \ {s} : sync'[t] = sync[t]
  <2>1. "crash" \in faults'.kinds
    BY <1>0, <1>2, FaultType DEF Crash
  <2>2. ~Good'
    BY <2>1 DEF Good, Lossy
  <2> QED
    BY <1>0, <1>2, <2>2 DEF Crash, Finish, IdleSync
<1>3. CloudChanges \/ DeleteAccount \/ UNCHANGED vars => UNCHANGED <<db, view, sync>>
  BY DEF CloudChanges, DeleteAccount, vars
<1>4. EmitAccountDeleted => UNCHANGED <<db, sync>> /\ ~Good'
  BY DEF EmitAccountDeleted, Good
<1> QED
  BY <1>1, <1>2, <1>3, <1>4 DEF Next, In

LEMMA GoodStays == TypeOK /\ [Next]_vars /\ Good' => Good
<1> SUFFICES ASSUME TypeOK, [Next]_vars, Good' PROVE Good
  OBVIOUS
<1>1. faults.kinds \subseteq faults'.kinds
  BY KindsGrow
<1>2. account' = "live" => account = "live"
  <2>1. ASSUME NEW s \in Syncs, Start(s) \/ Proceed(s) \/ Crash(s) PROVE account' = account
    BY <2>1, WhatProceedDoes DEF Start, Crash
  <2>2. CloudChanges \/ UNCHANGED vars => account' = account
    BY DEF CloudChanges, vars
  <2>3. EmitAccountDeleted \/ DeleteAccount => account' # "live"
    BY DEF EmitAccountDeleted, DeleteAccount
  <2> QED
    BY <2>1, <2>2, <2>3 DEF Next
<1> QED
  BY <1>1, <1>2 DEF Good

LEMMA LiveRows ==
    ASSUME TypeOK, NEW r \in Resources
    PROVE  /\ db' = db => (r \in Live' <=> r \in Live)
           /\ db'[r] = db[r] => (r \in Live' <=> r \in Live)
           /\ db'[r] = SeenRow(db[r]) => r \in Live'
           /\ db'[r] = Staled(db[r]) => (r \in Live' <=> r \in Live)
           /\ db'[r] = Dropped(db[r]) => r \notin Live'
<1>1. db[r] \in Row
  BY DEF TypeOK
<1>2. Staled(db[r]).stored = db[r].stored /\ Staled(db[r]).deleted = db[r].deleted
  BY <1>1, RowSet DEF Staled, Missed
<1>3. SeenRow(db[r]).stored /\ ~SeenRow(db[r]).deleted /\ Dropped(db[r]).deleted
  BY <1>1, SeenFields, DroppedFields
<1> QED
  BY <1>2, <1>3 DEF Live

LEMMA ApartStep == Inv /\ OneAtATime /\ Apart /\ [Next]_vars => Apart'
<1> SUFFICES ASSUME Inv, OneAtATime, Apart, [Next]_vars,
                    NEW s \in Syncs, In(s, "deleting")'
             PROVE  sync'[s].drop \cap sync'[s].listed = {}
  BY DEF Apart
<1>0. TypeOK
  BY DEF Inv
<1>1. CASE sync'[s] = sync[s]
  BY <1>1 DEF Apart, In
<1>2. ASSUME NEW t \in Syncs, Proceed(t), sync'[s] # sync[s]
      PROVE  sync'[s].drop \cap sync'[s].listed = {}
  <2>1. t = s
    BY <1>0, <1>2, WhatProceedDoes
  <2>2. Writes(s)
    BY <1>0, <1>2, <2>1, WhatProceedDoes
       DEF Lists, GivesUp, Emits, Upserts, Decides, Announces, In
  <2> QED
    BY <2>2 DEF Writes, Inv, DecisionOK
<1> QED
  BY <1>0, <1>1, <1>2, WhatElseHappens DEF In

LEMMA WholeStep == Inv /\ OneAtATime /\ Whole /\ [Next]_vars => Whole'
<1> SUFFICES ASSUME Inv, OneAtATime, Whole, [Next]_vars,
                    NEW s \in Syncs, In(s, "writing")'
             PROVE  Live' \ sync'[s].listed \subseteq sync'[s].drop \cup sync'[s].stale
  BY DEF Whole
<1>0. TypeOK
  BY DEF Inv
<1>1. db' = db => Live' = Live
  BY DEF Live
<1>2. CASE sync'[s] = sync[s] /\ db' = db
  BY <1>1, <1>2 DEF Whole, In
<1>3. ASSUME NEW t \in Syncs, Proceed(t), ~(sync'[s] = sync[s] /\ db' = db)
      PROVE  Live' \ sync'[s].listed \subseteq sync'[s].drop \cup sync'[s].stale
  <2>1. t = s
    <3> SUFFICES ASSUME t # s PROVE FALSE
      OBVIOUS
    <3>1. sync'[s] = sync[s] /\ t \in Active
      BY <1>0, <1>3, WhatProceedDoes
    <3>2. s \in Active
      BY <3>1 DEF Active, In
    <3> QED
      BY <3>1, <3>2 DEF OneAtATime
  <2>2. Decides(s)
    BY <1>0, <1>3, <2>1, WhatProceedDoes
       DEF Lists, GivesUp, Emits, Upserts, Writes, Announces, In
  <2> QED
    BY <1>1, <2>2 DEF Decides
<1> QED
  BY <1>0, <1>2, <1>3, WhatElseHappens DEF In

LEMMA ToldStep == Inv /\ OneAtATime /\ Told /\ [Next]_vars => Told'
<1> SUFFICES ASSUME Inv, OneAtATime, Told, [Next]_vars, Good', NEW r \in view'
             PROVE  r \in Live' \/ \E s \in Syncs : Bears(s, r)'
  BY DEF Told
<1>0. TypeOK /\ Good
  BY GoodStays DEF Inv
<1>1. /\ "lostEvent" \notin faults'.kinds /\ "failedUpsert" \notin faults'.kinds
      /\ view' \subseteq Resources /\ r \in Resources
  <2>1. TypeOK'
    BY <1>0, StepType
  <2> QED
    BY <2>1 DEF Good, Lossy, TypeOK
<1>2. r \in view => r \in Live \/ \E s \in Syncs : Bears(s, r)
  BY <1>0 DEF Told
<1>3. CASE \A s \in Syncs : ~Proceed(s)
  <2>1. /\ db' = db /\ view' = view
        /\ \A s \in Syncs : sync'[s] = sync[s] \/ In(s, "idle")
    BY <1>0, <1>3, WhatElseHappens
  <2>2. \A s \in Syncs : Bears(s, r) => Bears(s, r)'
    BY <2>1 DEF Bears, In
  <2> QED
    BY <1>0, <1>1, <1>2, <2>1, <2>2, LiveRows
<1>4. ASSUME NEW s \in Syncs, Proceed(s) PROVE r \in Live' \/ Bears(s, r)'
  <2>1. \A t \in Syncs : Bears(t, r) => t = s
    <3>1. s \in Active
      BY <1>0, <1>4, WhatProceedDoes
    <3>2. \A t \in Syncs : Bears(t, r) => t \in Active
      BY DEF Bears, Active, In
    <3> QED
      BY <3>1, <3>2 DEF OneAtATime
  <2>2. r \in view => r \in Live \/ Bears(s, r)
    BY <1>2, <2>1
  <2>3. CASE Lists(s) \/ GivesUp(s) \/ Decides(s)
    <3>1. db' = db /\ view' = view /\ ~Bears(s, r)
      BY <2>3 DEF Lists, GivesUp, Decides, Bears, In
    <3> QED
      BY <1>0, <1>1, <2>2, <3>1, LiveRows
  <2>4. CASE Emits(s)
    BY <1>0, <1>1, <2>2, <2>4, LiveRows DEF Emits, Bears, In
  <2>5. CASE Upserts(s)
    BY <1>0, <1>1, <2>2, <2>5, LiveRows DEF Upserts, Bears, In
  <2>6. CASE Writes(s)
    <3>1. r \in Live
      BY <2>2, <2>6 DEF Writes, Bears, In
    <3>2. db'[r] = IF r \in sync[s].drop THEN Dropped(db[r])
                   ELSE IF r \in sync[s].stale THEN Staled(db[r]) ELSE db[r]
      BY <1>1, <2>6, SweptRow DEF Writes
    <3>3. CASE r \in sync[s].drop
      BY <2>6, <3>3 DEF Writes, Bears, In
    <3>4. CASE r \notin sync[s].drop
      BY <1>0, <1>1, <3>1, <3>2, <3>4, LiveRows
    <3> QED
      BY <3>3, <3>4
  <2>7. CASE Announces(s)
    BY <1>0, <1>1, <2>2, <2>7, LiveRows DEF Announces, Bears, In
  <2> QED
    BY <1>0, <1>4, <2>3, <2>4, <2>5, <2>6, <2>7, WhatProceedDoes
<1> QED
  BY <1>3, <1>4

Ends == Inv /\ Apart /\ Whole /\ Told

LEMMA EndsHold == Spec /\ []OneAtATime => []Ends
<1>1. Init => Apart /\ Whole /\ Told
  BY DEF Init, Apart, Whole, Told, In, IdleSync
<1>2. QED
  BY <1>1, ApartStep, WholeStep, ToldStep, InvHolds, PTL DEF Spec, Ends

-----------------------------------------------------------------------------
(***************************************************************************)
(* Changes of the cloud and faults are counted and bounded, so that they   *)
(* cease.  The three premises are instances of the law that what is true   *)
(* of each of finitely many things from some time on is true of all of     *)
(* them from some time on.                                                 *)
(***************************************************************************)
ChangesPassTogether ==
    (\A n \in 0..MaxChanges : <>[](changes # n)) => <>[](\A n \in 0..MaxChanges : changes # n)

FaultsPassTogether ==
    (\A n \in 0..MaxFaults : <>[](faults.count # n))
      => <>[](\A n \in 0..MaxFaults : faults.count # n)

\* r has a live row, does not exist, and was missed n times.
Misses(r, n) == r \in Live \ cloud /\ db[r].missed = n

MissesPassTogether ==
    (\A r \in Resources, n \in 0..Threshold : <>[]~Misses(r, n))
      => <>[](\A r \in Resources, n \in 0..Threshold : ~Misses(r, n))

WhatIsFinite == ChangesPassTogether /\ FaultsPassTogether /\ MissesPassTogether

LEMMA BothCount ==
    ASSUME TypeOK, [Next]_vars
    PROVE  /\ changes' = changes \/ (changes < MaxChanges /\ changes' = changes + 1)
           /\ changes' = changes => cloud' = cloud
           /\ faults' = faults \/ faults'.count = faults.count + 1
<1>1. ASSUME NEW kind, Fault(kind) PROVE faults'.count = faults.count + 1
  BY <1>1 DEF Fault
<1>2. ASSUME NEW all, NEW part, NEW kind, Through(all, part, kind)
      PROVE  faults' = faults \/ faults'.count = faults.count + 1
  BY <1>1, <1>2 DEF Through
<1>3. ASSUME NEW s \in Syncs, Proceed(s)
      PROVE  /\ UNCHANGED <<changes, cloud>>
             /\ faults' = faults \/ faults'.count = faults.count + 1
  <2>1. UNCHANGED <<changes, cloud>>
    BY <1>3, WhatProceedDoes
  <2>2. CASE List(s)
    BY <1>2, <2>1, <2>2 DEF List
  <2>3. CASE ListFails(s) \/ SweepFails(s)
    BY <1>1, <2>1, <2>3 DEF ListFails, SweepFails
  <2>4. CASE EmitDiscovered(s) \/ EmitDeleted(s)
    BY <1>2, <2>1, <2>4 DEF EmitDiscovered, EmitDeleted, Delivered
  <2>5. CASE Upsert(s)
    BY <1>2, <2>1, <2>5 DEF Upsert
  <2>6. CASE SweepRead(s) \/ SweepWrite(s)
    BY <2>1, <2>6 DEF SweepRead, SweepWrite
  <2> QED
    BY <1>3, <2>2, <2>3, <2>4, <2>5, <2>6 DEF Proceed
<1>4. CASE CloudChanges
  BY <1>4 DEF CloudChanges, TypeOK
<1>5. CASE DeleteAccount \/ UNCHANGED vars
  BY <1>5 DEF DeleteAccount, vars
<1>6. ASSUME NEW s \in Syncs, Start(s) \/ Crash(s)
      PROVE  /\ UNCHANGED <<changes, cloud>>
             /\ faults' = faults \/ faults'.count = faults.count + 1
  BY <1>1, <1>6 DEF Start, Crash
<1>7. CASE EmitAccountDeleted
  BY <1>2, <1>7 DEF EmitAccountDeleted, Delivered
<1>8. changes + 1 # changes
  BY DiscoveryAssumption DEF TypeOK
<1> QED
  BY <1>3, <1>4, <1>5, <1>6, <1>7, <1>8 DEF Next, CloudChanges

ChangesCease == <>[][changes' = changes]_vars
ChangesPass(n) == <>[](changes # n)
NoChangeCount == \A n \in 0..MaxChanges : changes # n

LEMMA ChangesDoCease == Spec /\ ChangesPassTogether => ChangesCease
<1> DEFINE Past(n) == changes > n
<1>1. Spec => []TypeOK /\ [][Next]_vars
  BY TypeCorrect, PTL DEF Spec
<1>2. MaxChanges \in Nat /\ (TypeOK => changes \in 0..MaxChanges)
  BY DiscoveryAssumption DEF TypeOK
<1>3. ASSUME NEW n \in 0..MaxChanges PROVE Spec /\ ~ChangesCease => ChangesPass(n)
  <2>1. TypeOK /\ ~(changes # n) /\ [Next]_vars /\ ~[changes' = changes]_vars => Past(n)'
    BY <1>2, BothCount
  <2>2. TypeOK /\ ~(changes # n) /\ [Next]_vars => Past(n)' \/ ~(changes # n)'
    BY <1>2, BothCount
  <2>3. TypeOK /\ Past(n) /\ [Next]_vars => Past(n)'
    BY <1>2, BothCount
  <2>4. TypeOK /\ Past(n) => changes # n
    BY <1>2
  <2> QED
    BY <1>1, <2>1, <2>2, <2>3, <2>4, PTL DEF ChangesCease, ChangesPass
<1>4. Spec /\ ChangesPassTogether /\ ~ChangesCease => <>[]NoChangeCount
  <2>1. ChangesPassTogether /\ (\A n \in 0..MaxChanges : ChangesPass(n)) => <>[]NoChangeCount
    BY DEF ChangesPassTogether, ChangesPass, NoChangeCount
  <2> QED
    BY <1>3, <2>1
<1>5. TypeOK => ~NoChangeCount
  BY <1>2 DEF NoChangeCount
<1> QED
  BY <1>1, <1>4, <1>5, PTL

FaultsCease == <>[][faults' = faults]_vars
FaultsPass(n) == <>[](faults.count # n)
NoFaultCount == \A n \in 0..MaxFaults : faults.count # n

LEMMA FaultsDoCease == Spec /\ FaultsPassTogether => FaultsCease
<1> DEFINE Past(n) == faults.count > n
<1>1. Spec => []TypeOK /\ [][Next]_vars
  BY TypeCorrect, PTL DEF Spec
<1>2. MaxFaults \in Nat /\ (TypeOK => faults.count \in 0..MaxFaults)
  BY DiscoveryAssumption DEF TypeOK
<1>3. ASSUME NEW n \in 0..MaxFaults PROVE Spec /\ ~FaultsCease => FaultsPass(n)
  <2>0. TypeOK /\ [Next]_vars => faults' = faults \/ faults'.count = faults.count + 1
    BY BothCount
  <2>1. TypeOK /\ ~(faults.count # n) /\ [Next]_vars /\ ~[faults' = faults]_vars => Past(n)'
    BY <1>2, <2>0
  <2>2. TypeOK /\ ~(faults.count # n) /\ [Next]_vars => Past(n)' \/ ~(faults.count # n)'
    BY <1>2, <2>0
  <2>3. TypeOK /\ Past(n) /\ [Next]_vars => Past(n)'
    BY <1>2, <2>0
  <2>4. TypeOK /\ Past(n) => faults.count # n
    BY <1>2
  <2> QED
    BY <1>1, <2>1, <2>2, <2>3, <2>4, PTL DEF FaultsCease, FaultsPass
<1>4. Spec /\ FaultsPassTogether /\ ~FaultsCease => <>[]NoFaultCount
  <2>1. FaultsPassTogether /\ (\A n \in 0..MaxFaults : FaultsPass(n)) => <>[]NoFaultCount
    BY DEF FaultsPassTogether, FaultsPass, NoFaultCount
  <2> QED
    BY <1>3, <2>1
<1>5. TypeOK => ~NoFaultCount
  BY <1>2 DEF NoFaultCount
<1> QED
  BY <1>1, <1>4, <1>5, PTL

-----------------------------------------------------------------------------
(***************************************************************************)
(* Once nothing changes and nothing fails, the syncs follow each other:    *)
(* every one lists what exists, announces it, and counts one more miss of  *)
(* every live row of what does not.                                        *)
(***************************************************************************)
Undisturbed ==
    /\ Ends /\ OneAtATime /\ OneAtATime' /\ Good /\ Good'
    /\ [Next]_vars /\ changes' = changes /\ faults' = faults

Rest == Active = {}

LEMMA CalmMoves ==
    ASSUME Undisturbed
    PROVE  /\ cloud' = cloud
           /\ \/ /\ db' = db /\ view' = view
                 /\ \A s \in Syncs : \/ sync'[s] = sync[s]
                                     \/ Rest /\ In(s, "idle") /\ sync'[s].phase = "listing"
              \/ \E s \in Syncs :
                   /\ \/ Lists(s) \/ Emits(s) \/ Upserts(s) \/ Decides(s) \/ Writes(s) \/ Announces(s)
                   /\ \A t \in Syncs \ {s} : sync'[t] = sync[t] /\ In(t, "idle")
<1>0. TypeOK /\ cloud' = cloud
  BY BothCount DEF Undisturbed, Ends, Inv
<1>1. CASE \A s \in Syncs : ~Proceed(s)
  <2>1. /\ db' = db /\ view' = view
        /\ \A s \in Syncs : \/ sync'[s] = sync[s]
                            \/ In(s, "idle") /\ sync'[s].phase = "listing"
    BY <1>0, <1>1, WhatElseHappens DEF Undisturbed
  <2>2. ASSUME NEW s \in Syncs, In(s, "idle"), sync'[s].phase = "listing" PROVE Rest
    <3> SUFFICES ASSUME NEW t \in Active PROVE FALSE
      BY DEF Rest
    <3>1. t \in Syncs /\ t # s /\ sync'[t] = sync[t]
      BY <2>1, <2>2 DEF Active
    <3>2. s \in Active' /\ t \in Active'
      BY <2>2, <3>1 DEF Active, In
    <3> QED
      BY <3>1, <3>2 DEF Undisturbed, OneAtATime
  <2> QED
    BY <1>0, <2>1, <2>2
<1>2. ASSUME NEW s \in Syncs, Proceed(s)
      PROVE  /\ \/ Lists(s) \/ Emits(s) \/ Upserts(s) \/ Decides(s) \/ Writes(s) \/ Announces(s)
             /\ \A t \in Syncs \ {s} : sync'[t] = sync[t] /\ In(t, "idle")
  <2>1. ~GivesUp(s)
    BY DEF GivesUp, Undisturbed
  <2>2. s \in Active /\ \A t \in Syncs \ {s} : sync'[t] = sync[t]
    BY <1>0, <1>2, WhatProceedDoes
  <2>3. \A t \in Syncs \ {s} : In(t, "idle")
    BY <2>2 DEF Undisturbed, OneAtATime, Active
  <2> QED
    BY <1>0, <1>2, <2>1, <2>2, <2>3, WhatProceedDoes
<1> QED
  BY <1>0, <1>1, <1>2

\* A sync that has a list has that of what exists.
AllFresh == \A s \in Syncs : In(s, "idle") \/ In(s, "listing") \/ sync[s].listed = cloud

LEMMA FreshStays == Undisturbed /\ AllFresh => AllFresh'
<1> SUFFICES ASSUME Undisturbed, AllFresh, NEW s \in Syncs
             PROVE  (In(s, "idle") \/ In(s, "listing") \/ sync[s].listed = cloud)'
  BY DEF AllFresh
<1>1. faults' = faults
  BY DEF Undisturbed
<1>2. CASE sync'[s] = sync[s]
  BY <1>2, CalmMoves DEF AllFresh, In
<1>3. CASE Lists(s)
  BY <1>1, <1>3, CalmMoves DEF Lists
<1>4. CASE Emits(s) \/ Upserts(s) \/ Decides(s) \/ Writes(s)
  BY <1>4, CalmMoves DEF Emits, Upserts, Decides, Writes, AllFresh, In
<1>5. CASE Announces(s) \/ sync'[s].phase = "listing"
  BY <1>5 DEF Announces, In
<1> QED
  BY <1>2, <1>3, <1>4, <1>5, CalmMoves

\* ~~~ What consumers believe ~~~
HasAll  == cloud \subseteq view
HasOnly == view \subseteq cloud

LEMMA BeliefStays ==
    ASSUME Undisturbed, AllFresh
    PROVE  /\ HasAll => HasAll'
           /\ HasOnly => HasOnly'
<1>0. /\ "lostEvent" \notin faults'.kinds /\ Apart
  BY DEF Undisturbed, Good, Lossy, Ends
<1>1. CASE view' = view
  BY <1>1, CalmMoves DEF HasAll, HasOnly
<1>2. ASSUME NEW s \in Syncs, Emits(s) PROVE (HasAll => HasAll') /\ (HasOnly => HasOnly')
  <2>1. sync[s].listed = cloud
    BY <1>2 DEF Emits, AllFresh, In
  <2> QED
    BY <1>2, <2>1, CalmMoves DEF Emits, HasAll, HasOnly
<1>3. ASSUME NEW s \in Syncs, Announces(s) PROVE (HasAll => HasAll') /\ (HasOnly => HasOnly')
  <2>1. sync[s].listed = cloud /\ sync[s].drop \cap sync[s].listed = {}
    BY <1>0, <1>3 DEF Announces, AllFresh, Apart, In
  <2> QED
    BY <1>0, <1>3, <2>1, CalmMoves DEF Announces, HasAll, HasOnly
<1>4. ASSUME NEW s \in Syncs, Lists(s) \/ Upserts(s) \/ Decides(s) \/ Writes(s)
      PROVE  view' = view
  BY <1>4 DEF Lists, Upserts, Decides, Writes
<1> QED
  BY <1>1, <1>2, <1>3, <1>4, CalmMoves

\* With no sync under way, a consumer believes in live rows only.
LEMMA RestIsTold == Ends /\ Good /\ Rest /\ Live \subseteq cloud => HasOnly
<1>1. Rest => \A s \in Syncs, r \in Resources : ~Bears(s, r)
  BY DEF Rest, Active, Bears, In
<1>2. Ends => view \subseteq Resources
  BY DEF Ends, Inv, TypeOK
<1> QED
  BY <1>1, <1>2 DEF Ends, Told, HasOnly

\* ~~~ What is missed ~~~
\* r is missed more often than n times, or needs not be missed.
Behind(r, n) == r \notin Live \/ r \in cloud \/ db[r].missed > n

LEMMA OneMoreMiss ==
    ASSUME NEW row \in Row
    PROVE  /\ Staled(row).missed >= row.missed
           /\ row.missed <= Threshold => Staled(row).missed > row.missed
<1>1. row.missed \in Nat
  BY RowMisses
<1>2. Staled(row).missed = IF row.missed < MaxMissed THEN row.missed + 1 ELSE row.missed
  BY RowSet DEF Staled, Missed
<1> QED
  BY <1>1, <1>2, DiscoveryAssumption DEF MaxMissed

LEMMA MissesMove ==
    ASSUME Undisturbed, AllFresh, NEW r \in Resources, NEW n \in 0..Threshold
    PROVE  /\ Behind(r, n) => Behind(r, n)'
           /\ Misses(r, n) => Misses(r, n)' \/ Behind(r, n)'
           /\ \A s \in Syncs : Misses(r, n) /\ Writes(s) => Behind(r, n)'
<1>0. TypeOK /\ db[r] \in Row /\ cloud' = cloud /\ n \in Nat /\ n <= Threshold
  BY CalmMoves, DiscoveryAssumption DEF Undisturbed, Ends, Inv, TypeOK
<1>1. db[r].missed \in Nat
  BY <1>0, RowMisses
<1>2. ASSUME db'[r] = db[r]
      PROVE  /\ Behind(r, n) => Behind(r, n)'
             /\ Misses(r, n) => Misses(r, n)'
  BY <1>0, <1>2, LiveRows DEF Behind, Misses
<1>3. ASSUME NEW s \in Syncs, Upserts(s)
      PROVE  db'[r] = db[r] \/ (r \in cloud /\ r \in cloud')
  BY <1>0, <1>3 DEF Upserts, AllFresh, In
<1>4. ASSUME NEW s \in Syncs, Writes(s)
      PROVE  /\ Behind(r, n) => Behind(r, n)'
             /\ Misses(r, n) => Behind(r, n)'
  <2>1. /\ db'[r] = IF r \in sync[s].drop THEN Dropped(db[r])
                    ELSE IF r \in sync[s].stale THEN Staled(db[r]) ELSE db[r]
        /\ sync[s].listed = cloud
    BY <1>4, SweptRow DEF Writes, AllFresh, In
  <2>2. Live \ sync[s].listed \subseteq sync[s].drop \cup sync[s].stale
    BY <1>4 DEF Writes, Undisturbed, Ends, Whole
  <2>3. sync[s].drop \cup sync[s].stale \subseteq Live \ sync[s].listed
    BY <1>4 DEF Writes, Undisturbed, Ends, Inv, DecisionOK
  <2>4. CASE r \in sync[s].drop
    BY <1>0, <2>1, <2>4, LiveRows DEF Behind
  <2>5. CASE r \notin sync[s].drop /\ r \in sync[s].stale
    <3>1. db'[r] = Staled(db[r]) /\ r \in Live /\ r \notin cloud
      BY <2>1, <2>3, <2>5
    <3>2. Staled(db[r]).missed \in Nat
      BY <1>0, StaledFields
    <3>3. Behind(r, n) => Staled(db[r]).missed > n
      BY <1>0, <1>1, <3>1, <3>2, OneMoreMiss DEF Behind
    <3>4. Misses(r, n) => Staled(db[r]).missed > n
      BY <1>0, <1>1, <3>2, OneMoreMiss DEF Misses
    <3> QED
      BY <3>1, <3>3, <3>4 DEF Behind
  <2>6. CASE r \notin sync[s].drop \cup sync[s].stale
    <3>1. db'[r] = db[r] /\ ~Misses(r, n)
      BY <2>1, <2>2, <2>6 DEF Misses
    <3> QED
      BY <1>2, <3>1
  <2> QED
    BY <2>4, <2>5, <2>6
<1>5. ASSUME NEW s \in Syncs, Lists(s) \/ Emits(s) \/ Decides(s) \/ Announces(s)
      PROVE  db' = db
  BY <1>5 DEF Lists, Emits, Decides, Announces
<1>6. r \in cloud /\ r \in cloud' => Behind(r, n)' /\ ~Misses(r, n)
  BY DEF Behind, Misses
<1>7. \/ db'[r] = db[r] \/ (r \in cloud /\ r \in cloud')
      \/ \E s \in Syncs : Writes(s)
  BY <1>3, <1>5, CalmMoves
<1> QED
  BY <1>2, <1>4, <1>6, <1>7

\* Every live row is missed or exists.
LEMMA NothingMissed ==
    ASSUME Inv, \A r \in Resources, n \in 0..Threshold : ~Misses(r, n)
    PROVE  Live \subseteq cloud
<1> SUFFICES ASSUME NEW r \in Live, r \notin cloud PROVE FALSE
  OBVIOUS
<1>1. /\ r \in Resources /\ db[r] \in Row /\ db[r].stored /\ ~db[r].deleted
  BY DEF Live, Inv, TypeOK
<1>2. db[r].missed \in Nat /\ db[r].freshness \in Freshness
  BY <1>1, RowMisses, RowFields
<1>3. db[r].missed <= Threshold
  BY <1>1, <1>2, DiscoveryAssumption DEF Inv, FreshnessOK, Freshness
<1> QED
  BY <1>1, <1>2, <1>3, DiscoveryAssumption DEF Misses

\* ~~~ The phases follow each other ~~~
SomeListing == \E s \in Syncs : In(s, "listing")

LEMMA RestMoves == Undisturbed /\ Rest => Rest' \/ SomeListing'
<1> SUFFICES ASSUME Undisturbed, Rest, ~SomeListing' PROVE Rest'
  OBVIOUS
<1>1. \A s \in Syncs : In(s, "idle")
  BY DEF Rest, Active
<1>2. \A s \in Syncs : sync'[s] = sync[s]
  BY <1>1, CalmMoves DEF SomeListing, In, Lists, Emits, Upserts, Decides, Writes, Announces
<1> QED
  BY <1>1, <1>2 DEF Rest, Active, In

LEMMA PhaseMoves ==
    ASSUME Undisturbed, NEW s \in Syncs
    PROVE  /\ In(s, "listing") => In(s, "listing")' \/ In(s, "emitting")'
           /\ In(s, "emitting") => In(s, "emitting")' \/ (In(s, "upserting")' /\ (AllFresh => HasAll'))
           /\ In(s, "upserting") => In(s, "upserting")' \/ In(s, "sweeping")'
           /\ In(s, "sweeping") => In(s, "sweeping")' \/ In(s, "writing")'
           /\ In(s, "writing") => In(s, "writing")' \/ (In(s, "deleting")' /\ Writes(s))
           /\ In(s, "deleting") => In(s, "deleting")' \/ Rest'
<1>1. CASE sync'[s] = sync[s]
  BY <1>1 DEF In
<1>2. CASE sync'[s] # sync[s]
  <2>1. \/ In(s, "idle")
        \/ /\ \/ Lists(s) \/ Emits(s) \/ Upserts(s) \/ Decides(s) \/ Writes(s) \/ Announces(s)
           /\ \A t \in Syncs \ {s} : sync'[t] = sync[t] /\ In(t, "idle")
    BY <1>2, CalmMoves
  <2>2. Emits(s) /\ AllFresh => HasAll'
    <3> SUFFICES ASSUME Emits(s), AllFresh PROVE HasAll'
      OBVIOUS
    <3>1. sync[s].listed = cloud /\ faults' = faults
      BY DEF Emits, AllFresh, In, Undisturbed
    <3> QED
      BY <3>1, CalmMoves DEF Emits, HasAll
  <2>3. Announces(s) /\ (\A t \in Syncs \ {s} : sync'[t] = sync[t] /\ In(t, "idle")) => Rest'
    BY DEF Announces, Rest, Active, In
  <2> QED
    BY <2>1, <2>2, <2>3 DEF Lists, Emits, Upserts, Decides, Writes, Announces, In
<1> QED
  BY <1>1, <1>2

LEMMA ProceedLeaves ==
    ASSUME TypeOK, NEW s \in Syncs, Proceed(s), NEW x \in Phases, In(s, x)
    PROVE  ~In(s, x)'
  BY WhatProceedDoes DEF Lists, GivesUp, Emits, Upserts, Decides, Writes, Announces, In

EveryStartIsFair   == \A s \in Syncs : StartIsFair(s)
EveryProceedIsFair == \A s \in Syncs : ProceedIsFair(s)

\* What holds from the last change and the last fault on.
Calm ==
    /\ []Ends /\ []OneAtATime /\ []Good /\ []DiscoveryGoesOn
    /\ [][Next]_vars /\ [][changes' = changes]_vars /\ [][faults' = faults]_vars
    /\ []EveryStartIsFair /\ []EveryProceedIsFair

LEMMA CalmSteps ==
    Ends /\ OneAtATime /\ OneAtATime' /\ Good /\ Good' /\ [Next]_vars
      /\ [changes' = changes]_vars /\ [faults' = faults]_vars => Undisturbed
  BY DEF Undisturbed, vars

\* Sync s goes through its phases, and comes to rest.
Onwards(s) ==
    /\ In(s, "listing")   ~> In(s, "emitting")
    /\ In(s, "emitting")  ~> In(s, "upserting")
    /\ In(s, "upserting") ~> In(s, "sweeping")
    /\ In(s, "sweeping")  ~> In(s, "writing")
    /\ In(s, "writing")   ~> In(s, "deleting")
    /\ In(s, "deleting")  ~> Rest

LEMMA SyncGoesOn ==
    ASSUME NEW s \in Syncs
    PROVE  Calm => Onwards(s)
<1>1. EveryProceedIsFair => ProceedIsFair(s)
  BY DEF EveryProceedIsFair
<1>2. Undisturbed =>
        /\ In(s, "listing") => In(s, "listing")' \/ In(s, "emitting")'
        /\ In(s, "emitting") => In(s, "emitting")' \/ In(s, "upserting")'
        /\ In(s, "upserting") => In(s, "upserting")' \/ In(s, "sweeping")'
        /\ In(s, "sweeping") => In(s, "sweeping")' \/ In(s, "writing")'
        /\ In(s, "writing") => In(s, "writing")' \/ In(s, "deleting")'
        /\ In(s, "deleting") => In(s, "deleting")' \/ Rest'
  BY PhaseMoves
<1>3. Ends /\ <<Proceed(s)>>_vars =>
        /\ In(s, "listing") => ~In(s, "listing")'
        /\ In(s, "emitting") => ~In(s, "emitting")'
        /\ In(s, "upserting") => ~In(s, "upserting")'
        /\ In(s, "sweeping") => ~In(s, "sweeping")'
        /\ In(s, "writing") => ~In(s, "writing")'
        /\ In(s, "deleting") => ~In(s, "deleting")'
  BY ProceedLeaves DEF Ends, Inv, Phases
<1>4. DiscoveryGoesOn =>
        /\ In(s, "listing") => CanProceed(s)
        /\ In(s, "emitting") => CanProceed(s)
        /\ In(s, "upserting") => CanProceed(s)
        /\ In(s, "sweeping") => CanProceed(s)
        /\ In(s, "writing") => CanProceed(s)
        /\ In(s, "deleting") => CanProceed(s)
  BY DEF DiscoveryGoesOn, In
<1> QED
  BY <1>1, <1>2, <1>3, <1>4, CalmSteps, PTL DEF Calm, ProceedIsFair, CanProceed, Onwards

LEMMA ComesToRest == Calm => (TRUE ~> Rest)
<1>1. ASSUME NEW s \in Syncs PROVE Calm /\ ~In(s, "idle") => <>Rest
  <2>1. Ends => \/ In(s, "idle") \/ In(s, "listing") \/ In(s, "emitting") \/ In(s, "upserting")
                \/ In(s, "sweeping") \/ In(s, "writing") \/ In(s, "deleting")
    BY DEF Ends, Inv, TypeOK, Phases, In
  <2> QED
    BY <2>1, SyncGoesOn, PTL DEF Calm, Onwards
<1>2. ~Rest => \E s \in Syncs : ~In(s, "idle")
  BY DEF Rest, Active
<1>3. Calm /\ ~Rest => <>Rest
  BY <1>1, <1>2
<1> QED
  BY <1>3, PTL DEF Calm

LEMMA GetsFresh == Calm => <>[]AllFresh
<1>1. Rest => AllFresh
  BY DEF Rest, Active, AllFresh
<1> QED
  BY <1>1, ComesToRest, FreshStays, CalmSteps, PTL DEF Calm

LEMMA ListingFollows == Syncs # {} => (Calm => (TRUE ~> SomeListing))
<1> SUFFICES ASSUME Syncs # {} PROVE Calm => (TRUE ~> SomeListing)
  OBVIOUS
<1>1. PICK s : s \in Syncs
  OBVIOUS
<1>2. EveryStartIsFair => StartIsFair(s)
  BY <1>1 DEF EveryStartIsFair
<1>3. Undisturbed /\ Rest => Rest' \/ SomeListing'
  BY RestMoves
<1>4. Ends /\ <<Start(s)>>_vars => SomeListing'
  BY <1>1 DEF Start, GoTo, SomeListing, In, Ends, Inv, TypeOK
<1>5. Good /\ Rest /\ DiscoveryGoesOn => CanStart(s)
  BY <1>1 DEF Good, Rest, Active, DiscoveryGoesOn
<1> QED
  BY <1>2, <1>3, <1>4, <1>5, CalmSteps, ComesToRest, PTL DEF Calm, StartIsFair, CanStart

LEMMA EverythingIsTold == Syncs # {} => (Calm /\ []AllFresh => <>[]HasAll)
<1> SUFFICES ASSUME Syncs # {} PROVE Calm /\ []AllFresh => <>[]HasAll
  OBVIOUS
<1>1. ASSUME NEW s \in Syncs PROVE Calm /\ []AllFresh /\ In(s, "listing") => <>HasAll
  <2>1. Undisturbed /\ AllFresh /\ In(s, "emitting") => In(s, "emitting")' \/ HasAll'
    BY PhaseMoves
  <2>2. In(s, "upserting") => ~In(s, "emitting")
    BY DEF In
  <2> QED
    BY <2>1, <2>2, SyncGoesOn, CalmSteps, PTL DEF Calm, Onwards
<1>2. Calm /\ []AllFresh /\ SomeListing => <>HasAll
  BY <1>1 DEF SomeListing
<1>3. Undisturbed /\ AllFresh /\ HasAll => HasAll'
  BY BeliefStays
<1> QED
  BY <1>2, <1>3, ListingFollows, CalmSteps, PTL DEF Calm

MissesEnd(r, n) == <>[]~Misses(r, n)

LEMMA MissesGoOn ==
    Syncs # {} =>
      \A r \in Resources, n \in 0..Threshold : Calm /\ <>[]AllFresh => MissesEnd(r, n)
<1> SUFFICES ASSUME Syncs # {}, NEW r \in Resources, NEW n \in 0..Threshold
             PROVE  Calm /\ <>[]AllFresh => MissesEnd(r, n)
  OBVIOUS
<1>1. Undisturbed /\ AllFresh =>
        /\ Behind(r, n) => Behind(r, n)'
        /\ Misses(r, n) => Misses(r, n)' \/ Behind(r, n)'
  BY MissesMove
<1>2. ASSUME NEW s \in Syncs
      PROVE  Calm /\ []AllFresh /\ Misses(r, n) /\ In(s, "listing") => <>Behind(r, n)
  <2>1. Undisturbed /\ AllFresh /\ Misses(r, n) /\ In(s, "writing")
          => In(s, "writing")' \/ Behind(r, n)'
    BY PhaseMoves, MissesMove
  <2>2. In(s, "deleting") => ~In(s, "writing")
    BY DEF In
  <2> QED
    BY <1>1, <2>1, <2>2, SyncGoesOn, CalmSteps, PTL DEF Calm, Onwards
<1>3. Calm /\ []AllFresh /\ Misses(r, n) /\ SomeListing => <>Behind(r, n)
  BY <1>2 DEF SomeListing
<1>4. Behind(r, n) => ~Misses(r, n)
  <2>1. n \in Nat
    BY DiscoveryAssumption
  <2> QED
    BY <2>1 DEF Behind, Misses
<1> QED
  BY <1>1, <1>3, <1>4, ListingFollows, CalmSteps, PTL DEF Calm, MissesEnd

NoMisses == \A r \in Resources, n \in 0..Threshold : ~Misses(r, n)

\* A sync after the other, once nothing changes or fails, tells the consumers of
\* whatever exists and, when it was missed often enough, of whatever does not
\* (discovery.py:120, 194, 276).
THEOREM ConsumersConverge ==
    Syncs # {} =>
      (FairSpec /\ []OneAtATime /\ []DiscoveryGoesOn /\ WhatIsFinite => Converges)
<1> SUFFICES ASSUME Syncs # {}
             PROVE  FairSpec /\ []OneAtATime /\ []DiscoveryGoesOn /\ WhatIsFinite => Converges
  OBVIOUS
<1>1. FairSpec => []EveryStartIsFair /\ []EveryProceedIsFair
  <2>1. ASSUME NEW s \in Syncs
        PROVE  /\ StartIsFair(s) => []StartIsFair(s)
               /\ ProceedIsFair(s) => []ProceedIsFair(s)
    BY PTL DEF StartIsFair, ProceedIsFair
  <2>2. FairSpec => /\ \A s \in Syncs : []StartIsFair(s)
                    /\ \A s \in Syncs : []ProceedIsFair(s)
    BY <2>1 DEF FairSpec
  <2>3. (\A s \in Syncs : []StartIsFair(s)) => []EveryStartIsFair
    BY DEF EveryStartIsFair
  <2>4. (\A s \in Syncs : []ProceedIsFair(s)) => []EveryProceedIsFair
    BY DEF EveryProceedIsFair
  <2> QED
    BY <2>2, <2>3, <2>4
<1> DEFINE Premises == FairSpec /\ []OneAtATime /\ []DiscoveryGoesOn /\ WhatIsFinite
<1>2. Premises => ChangesCease /\ FaultsCease
  BY ChangesDoCease, FaultsDoCease, PTL DEF FairSpec, WhatIsFinite
<1>3. Premises /\ []Good => <>Calm
  BY <1>1, <1>2, EndsHold, PTL DEF Calm, FairSpec, Spec, ChangesCease, FaultsCease
<1>4. Premises /\ []Good => <>[]NoMisses
  <2>1. ASSUME NEW r \in Resources, NEW n \in 0..Threshold
        PROVE  <>Calm => MissesEnd(r, n)
    <3>1. Calm /\ <>[]AllFresh => MissesEnd(r, n)
      BY MissesGoOn
    <3> QED
      BY <3>1, GetsFresh, PTL DEF MissesEnd
  <2>2. <>Calm => \A r \in Resources, n \in 0..Threshold : MissesEnd(r, n)
    BY <2>1
  <2>3. MissesPassTogether /\ (\A r \in Resources, n \in 0..Threshold : MissesEnd(r, n))
          => <>[]NoMisses
    BY DEF MissesPassTogether, MissesEnd, NoMisses
  <2> QED
    BY <1>3, <2>2, <2>3 DEF WhatIsFinite
<1>5. Ends /\ NoMisses /\ Good /\ Rest => HasOnly
  BY NothingMissed, RestIsTold DEF Ends, NoMisses
<1>6. Undisturbed /\ AllFresh /\ HasOnly => HasOnly'
  BY BeliefStays
<1>7. HasAll /\ HasOnly => (account = "live" /\ faults.kinds \cap Lossy = {} => view = cloud)
  BY DEF HasAll, HasOnly
<1>8. ~Good => (account = "live" /\ faults.kinds \cap Lossy = {} => view = cloud)
  BY DEF Good
<1>9. Premises => []TypeOK /\ [][Next]_vars
  BY TypeCorrect, PTL DEF FairSpec, Spec
<1> QED
  BY <1>3, <1>4, <1>5, <1>6, <1>7, <1>8, <1>9, GoodStays, CalmSteps, GetsFresh, ComesToRest,
     EverythingIsTold, PTL DEF Calm, Converges

\* Discovery and the lock together, in the long run.
THEOREM LockedDiscoveryConverges ==
    Syncs # {} =>
      (FairSpec /\ UnderTheLock /\ []DiscoveryGoesOn /\ WhatIsFinite => Converges)
<1> SUFFICES ASSUME Syncs # {}
             PROVE  FairSpec /\ UnderTheLock /\ []DiscoveryGoesOn /\ WhatIsFinite => Converges
  OBVIOUS
<1> QED
  BY ConsumersConverge, LockSuffices, PTL
=============================================================================
