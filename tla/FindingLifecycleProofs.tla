----------------------- MODULE FindingLifecycleProofs -----------------------
(***************************************************************************)
(* The safety of a finding's row and its audit trail for any number of     *)
(* ingesting tasks and users.  HistoryFollowsRow is not inductive: it does *)
(* not say what the creation's history entry, which is committed later     *)
(* than the row, will record.  Unwritten adds that a task with a pending   *)
(* entry created the row, and that the entry still tells its status as     *)
(* long as nothing else was recorded.                                      *)
(*                                                                         *)
(* The second half is the refinement of FindingCase: what a view may claim *)
(* (Sound) makes every commit one that was decided, and FindingCase alone  *)
(* gives back what the first half proved of the row.                       *)
(*                                                                         *)
(* The last part is liveness: once faults have ceased a sighting gets      *)
(* through, so that a violation which persists is reopened and announced.  *)
(***************************************************************************)
EXTENDS FindingLifecycle, TLAPS

\* What a task is about to write: a user asks for an edge from the status the
\* request saw (findings.py:276).
Sound(k) ==
    /\ k.pc = "insert" => k.target \in {"open", "suppressed"}
    /\ k.pc = "patch" => /\ k.view.status \in Status
                         /\ k.target \in Valid[k.view.status]
    /\ k.pc = "note" \/ k.pending => k.view.status \in Status

\* Tasks in the middle of an operation on the row found it, and know what to
\* write.
Targets ==
    \A t \in Tasks :
        /\ Sound(task[t])
        /\ task[t].pc \in {"seenAgain", "patch", "note"} => row.status # "none"

Unwritten ==
    /\ row.status = "none" => history = "none"
    /\ \A t \in Tasks : task[t].pending => /\ row.status # "none"
                                           /\ task[t].pc \in Announcing
    /\ ~astray /\ history = "none" =>
         \A t \in Tasks : task[t].pending => task[t].view.status = row.status

Inv == TypeOK /\ ResolvedIsDated /\ HistoryFollowsRow /\ Targets /\ Unwritten

LEMMA NoRowType == NoRow \in Row
  BY FindingAssumption DEF NoRow, Row, MaybeStatus, Status

LEMMA IdleType == Idle \in TaskState
  BY NoRowType DEF Idle, TaskState, Steps, MaybeStatus, Status

\* The state machine's edges lead to statuses (findings.py:335).
LEMMA ValidType == \A s \in Status : Valid[s] \subseteq Status
  BY DEF Status, Valid

LEMMA InitInv == Init => Inv
<1> SUFFICES ASSUME Init PROVE Inv
  OBVIOUS
<1>1. task \in [Tasks -> TaskState]
  BY IdleType DEF Init
<1>2. TypeOK
  <2>1. faults \in 0..MaxFaults
    BY FindingAssumption DEF Init
  <2>2. \A t \in Tasks : ~task[t].pending
    BY DEF Init, Idle
  <2> QED
    BY <1>1, <2>1, <2>2, NoRowType DEF Init, TypeOK, MaybeStatus
<1>3. \A t \in Tasks : task[t].pc = "idle" /\ ~task[t].pending
  BY DEF Init, Idle
<1>4. row.status = "none" /\ history = "none"
  BY DEF Init, NoRow
<1> QED
  BY <1>2, <1>3, <1>4 DEF Inv, ResolvedIsDated, HistoryFollowsRow, Targets, Sound, Unwritten

-----------------------------------------------------------------------------
\* The steps that only move a task on: nothing it could write changes.
Moves(t) ==
    \/ Sight(t) \/ CheckSuppression(t) \/ InsertFails(t)
    \/ NotNotified(t) \/ MarkNotified(t) \/ RedisFails(t)
    \/ RequestStatus(t) \/ RequestNote(t)

\* The steps in which a session commits, at most, the creation's history entry.
Commits(t) ==
    \/ AlreadyNotified(t) \/ Send(t) \/ SendLost(t) \/ Close(t)

LEMMA NextCases ==
    ASSUME Next
    PROVE  \/ \E t \in Tasks : \/ Moves(t) \/ Commits(t) \/ Insert(t)
                               \/ SeenAgain(t) \/ CommitStatus(t) \/ CommitNote(t)
           \/ ResourceDeleted \/ KeyExpires \/ Crash
  BY DEF Next, Ingest, Request, Moves, Commits, Tasks

LEMMA FaultsType ==
    ASSUME TypeOK, faults' = faults \/ (faults < MaxFaults /\ faults' = faults + 1)
    PROVE  faults' \in 0..MaxFaults
  BY FindingAssumption DEF TypeOK

\* A recorded entry is the newest one or was overtaken (findings.py:357, 566).
LEMMA RecordType ==
    ASSUME TypeOK, NEW t \in Tasks, NEW s, Record(t, s)
    PROVE  /\ overtaken' \subseteq Tasks
           /\ t \in overtaken => history' = history
           /\ t \notin overtaken => history' = s
<1>1. Recording \subseteq Tasks /\ overtaken \subseteq Tasks
  BY DEF Recording, TypeOK
<1> QED
  BY <1>1 DEF Record

LEMMA MovesTask ==
    ASSUME Inv, NEW t \in Tasks, Moves(t)
    PROVE  /\ UNCHANGED <<row, history, astray>> /\ overtaken' \subseteq Tasks
           /\ key' \in BOOLEAN /\ told' = told /\ faults' \in 0..MaxFaults
           /\ \E r \in TaskState :
                /\ task' = [task EXCEPT ![t] = r]
                /\ r.pending => task[t].pending /\ r.view = task[t].view
                                /\ r.pc \in Announcing
                /\ Sound(r)
                /\ r.pc \in {"seenAgain", "patch", "note"} => row.status # "none"
<1>0. /\ task[t] \in TaskState /\ row \in Row
      /\ task[t].pending => task[t].pc \in Announcing
      /\ task \in [Tasks -> TaskState]
      /\ Sound(task[t])
  BY DEF Inv, Unwritten, Targets, TypeOK
<1>1. /\ UNCHANGED <<row, history, astray>> /\ overtaken' \subseteq Tasks
      /\ key' \in BOOLEAN /\ told' = told /\ faults' \in 0..MaxFaults
  <2> USE DEF Sight, CheckSuppression, InsertFails, NotNotified, MarkNotified,
              RedisFails, RequestStatus, RequestNote
  <2>1. UNCHANGED <<row, history, astray, told>>
    BY DEF Moves
  <2>2. key' = key \/ key' = TRUE
    BY DEF Moves
  <2>3. faults' = faults \/ (faults < MaxFaults /\ faults' = faults + 1)
    BY DEF Moves
  <2>4. key' \in BOOLEAN
    BY <2>2 DEF Inv, TypeOK
  <2>5. overtaken' = overtaken \/ overtaken' = overtaken \ {t}
    BY DEF Moves
  <2>6. overtaken' \subseteq Tasks
    BY <2>5 DEF Inv, TypeOK
  <2> QED
    BY <2>1, <2>3, <2>4, <2>6, FaultsType DEF Inv
<1> DEFINE Good(r) == /\ r \in TaskState
                      /\ r.pending => task[t].pending /\ r.view = task[t].view
                                      /\ r.pc \in Announcing
                      /\ Sound(r)
                      /\ r.pc \in {"seenAgain", "patch", "note"} => row.status # "none"
<1> SUFFICES \E r : task' = [task EXCEPT ![t] = r] /\ Good(r)
  BY <1>1
<1>2. CASE Sight(t)
  <2> DEFINE r == [task[t] EXCEPT !.pc = IF Exists THEN "seenAgain" ELSE "new",
                                  !.view = row]
  <2>1. Good(r)
    BY <1>0, <1>2 DEF Sound, Sight, At, TaskState, Steps, Exists, Announcing
  <2>2. task' = [task EXCEPT ![t] = r]
    BY <1>0, <1>2 DEF Sight
  <2> QED
    BY <2>1, <2>2
<1>3. CASE CheckSuppression(t)
  <2>1. PICK s \in {"open", "suppressed"} :
          task' = [task EXCEPT ![t].pc = "insert", ![t].target = s]
    BY <1>3 DEF CheckSuppression
  <2> DEFINE r == [task[t] EXCEPT !.pc = "insert", !.target = s]
  <2>2. Good(r)
    BY <1>0, <1>3 DEF Sound, CheckSuppression, At, TaskState, Steps, Announcing,
                      MaybeStatus, Status
  <2>3. task' = [task EXCEPT ![t] = r]
    BY <1>0, <2>1
  <2> QED
    BY <2>2, <2>3
<1>4. CASE InsertFails(t) \/ RedisFails(t)
  <2>1. Good(Idle)
    BY IdleType DEF Sound, Idle
  <2> QED
    BY <1>4, <2>1 DEF InsertFails, RedisFails, Done
<1>5. CASE NotNotified(t) \/ MarkNotified(t)
  <2>1. \A p \in {"unkeyed", "keyed"} : Good([task[t] EXCEPT !.pc = p])
    BY <1>0 DEF Sound, TaskState, Steps, Announcing
  <2>2. \E p \in {"unkeyed", "keyed"} :
          task' = [task EXCEPT ![t] = [task[t] EXCEPT !.pc = p]]
    BY <1>0, <1>5 DEF NotNotified, MarkNotified, Goto
  <2> QED
    BY <2>1, <2>2
<1>6. CASE RequestStatus(t)
  <2>1. PICK s \in Valid[row.status] :
          task' = [task EXCEPT ![t] = [Idle EXCEPT !.pc = "patch", !.view = row,
                                                   !.target = s]]
    BY <1>6 DEF RequestStatus
  <2>2. s \in Status
    BY <1>0, <1>6, ValidType DEF RequestStatus, Exists, Row, MaybeStatus
  <2> DEFINE r == [Idle EXCEPT !.pc = "patch", !.view = row, !.target = s]
  <2>3. Good(r)
    BY <1>0, <1>6, <2>2, IdleType DEF Sound, RequestStatus, Exists, Idle, TaskState,
                                      Steps, Row, MaybeStatus
  <2> QED
    BY <2>1, <2>3
<1>7. CASE RequestNote(t)
  <2> DEFINE r == [Idle EXCEPT !.pc = "note", !.view = row]
  <2>1. Good(r)
    BY <1>0, <1>7, IdleType DEF Sound, RequestNote, Exists, Idle, TaskState, Steps,
                                Row, MaybeStatus
  <2> QED
    BY <1>7, <2>1 DEF RequestNote
<1> QED
  BY <1>2, <1>3, <1>4, <1>5, <1>6, <1>7 DEF Moves

LEMMA MovesInv ==
    ASSUME Inv, NEW t \in Tasks, Moves(t)
    PROVE  Inv'
<1>1. /\ UNCHANGED <<row, history, astray>> /\ overtaken' \subseteq Tasks
      /\ key' \in BOOLEAN /\ told' = told /\ faults' \in 0..MaxFaults
  BY MovesTask
<1>2. PICK r \in TaskState :
        /\ task' = [task EXCEPT ![t] = r]
        /\ r.pending => task[t].pending /\ r.view = task[t].view
                        /\ r.pc \in Announcing
        /\ Sound(r)
        /\ r.pc \in {"seenAgain", "patch", "note"} => row.status # "none"
  BY MovesTask
<1>3. task \in [Tasks -> TaskState]
  BY DEF Inv, TypeOK
<1>4. /\ task' \in [Tasks -> TaskState]
      /\ task'[t] = r
      /\ \A u \in Tasks : u # t => task'[u] = task[u]
  BY <1>2, <1>3
<1>5. TypeOK'
  BY <1>1, <1>2, <1>4 DEF Inv, TypeOK
<1>6. Targets'
  BY <1>1, <1>2, <1>4 DEF Inv, Targets, Sound
<1>7. Unwritten'
  BY <1>1, <1>2, <1>4 DEF Inv, Unwritten
<1> QED
  BY <1>1, <1>5, <1>6, <1>7 DEF Inv, ResolvedIsDated, HistoryFollowsRow

\* Committing the creation's entry (findings.py:145, notifications.py:115).
LEMMA CommitsInv ==
    ASSUME Inv, NEW t \in Tasks, Commits(t)
    PROVE  Inv'
<1>0. /\ task \in [Tasks -> TaskState]
      /\ task[t].view.status \in MaybeStatus
  BY DEF Inv, TypeOK, TaskState, Row
<1>1. /\ UNCHANGED <<row, key>>
      /\ Commit(t)
      /\ task' = [task EXCEPT ![t] = Idle]
  BY DEF Commits, AlreadyNotified, Send, SendLost, Close, Done
<1>2. told' \in BOOLEAN /\ faults' \in 0..MaxFaults
  <2>1. told' = told \/ told' = TRUE
    BY DEF Commits, AlreadyNotified, Send, SendLost, Close
  <2>2. faults' = faults \/ (faults < MaxFaults /\ faults' = faults + 1)
    BY DEF Commits, AlreadyNotified, Send, SendLost, Close
  <2>3. told' \in BOOLEAN
    BY <2>1 DEF Inv, TypeOK
  <2> QED
    BY <2>2, <2>3, FaultsType DEF Inv
<1>3. /\ task' \in [Tasks -> TaskState]
      /\ task'[t] = Idle
      /\ \A u \in Tasks : u # t => task'[u] = task[u]
  BY <1>0, <1>1, IdleType
<1>4. /\ overtaken' \subseteq Tasks /\ astray' \in BOOLEAN
      /\ \/ history' = history /\ astray' = astray
         \/ /\ task[t].pending
            /\ history' = task[t].view.status
            /\ astray' = (astray \/ history # "none")
  <2>1. CASE task[t].pending
    <3>1. /\ Record(t, task[t].view.status)
          /\ astray' = (astray \/ (t \notin overtaken /\ history # "none"))
      BY <1>1, <2>1 DEF Commit
    <3> QED
      BY <2>1, <3>1, RecordType DEF Inv, TypeOK
  <2>2. CASE ~task[t].pending
    BY <1>1, <2>2 DEF Commit, Inv, TypeOK
  <2> QED
    BY <2>1, <2>2
<1>5. TypeOK'
  BY <1>0, <1>1, <1>2, <1>3, <1>4 DEF Inv, TypeOK, Idle
<1>6. HistoryFollowsRow' /\ ResolvedIsDated'
  BY <1>1, <1>4 DEF Inv, HistoryFollowsRow, ResolvedIsDated, Unwritten
<1>7. Targets'
  BY <1>1, <1>3 DEF Inv, Targets, Sound, Idle
<1>8. Unwritten'
  <2>1. row.status = "none" => history' = "none"
    BY <1>4 DEF Inv, Unwritten
  <2>2. history' = "none" => history = "none" /\ (astray' \/ astray' = astray)
    <3>1. task[t].pending => task[t].view.status # "none"
      BY DEF Inv, Targets, Sound, Status
    <3> QED
      BY <1>4, <3>1
  <2> QED
    BY <1>1, <1>3, <2>1, <2>2 DEF Inv, Unwritten, Idle
<1> QED
  BY <1>5, <1>6, <1>7, <1>8 DEF Inv

\* A row appears only where there was none, so nobody else has a pending entry
\* (findings.py:141).
LEMMA InsertInv ==
    ASSUME Inv, NEW t \in Tasks, Insert(t)
    PROVE  Inv'
<1> DEFINE s == task[t].target
           r == [pc |-> IF s = "open" THEN "notify" ELSE "close",
                 view |-> row', target |-> "none", pending |-> TRUE]
<1>0. task \in [Tasks -> TaskState] /\ s \in Status /\ row.status = "none"
  BY DEF Inv, TypeOK, Targets, Sound, Insert, At, Exists, Status
<1>1. /\ row' = [NoRow EXCEPT !.status = s] /\ row'.status = s
      /\ row' \in Row /\ row'.dated = FALSE
  BY <1>0, NoRowType DEF Insert, NoRow, Row, MaybeStatus
<1>2. s # "resolved" /\ s # "none"
  BY <1>0 DEF Inv, Targets, Sound, Insert, At, Status
<1>3. /\ task' = [task EXCEPT ![t] = r]
      /\ UNCHANGED <<history, overtaken, key, faults, astray>> /\ told' = FALSE
  BY DEF Insert
<1>4. r \in TaskState
  BY <1>1 DEF TaskState, Steps, MaybeStatus
<1>5. r.pending /\ r.pc \in Announcing /\ r.view.status = s
  BY <1>1 DEF Announcing
<1> HIDE DEF r
<1>6. /\ task' \in [Tasks -> TaskState]
      /\ task'[t] = r
      /\ \A u \in Tasks : u # t => task'[u] = task[u] /\ ~task'[u].pending
  BY <1>0, <1>3, <1>4 DEF Inv, Unwritten
<1>7. TypeOK'
  BY <1>1, <1>3, <1>5, <1>6 DEF Inv, TypeOK
<1>8. history' = "none"
  BY <1>0, <1>3 DEF Inv, Unwritten
<1>9. Targets'
  BY <1>0, <1>1, <1>2, <1>5, <1>6 DEF Inv, Targets, Sound, Announcing
<1>10. Unwritten'
  BY <1>1, <1>2, <1>5, <1>6, <1>8 DEF Unwritten
<1> QED
  BY <1>1, <1>2, <1>7, <1>8, <1>9, <1>10 DEF Inv, ResolvedIsDated, HistoryFollowsRow

\* A second sighting writes status and resolved_at together (findings.py:237).
LEMMA SeenAgainInv ==
    ASSUME Inv, NEW t \in Tasks, SeenAgain(t)
    PROVE  Inv'
<1> DEFINE v == task[t].view
           reopens == v.status = "resolved"
           d == row.dated /\ ~v.dated
<1>0. /\ task \in [Tasks -> TaskState] /\ v \in Row /\ row \in Row
      /\ row.status # "none"
  BY DEF Inv, TypeOK, TaskState, Targets, Sound, SeenAgain, At
<1>1. PICK r : /\ task' = [task EXCEPT ![t] = r]
               /\ r = Idle \/ r = [Idle EXCEPT !.pc = "notify"]
  BY DEF SeenAgain
<1>2. r \in TaskState /\ ~r.pending /\ r.pc \in {"idle", "notify"}
  <2>1. CASE r = Idle
    BY <2>1, IdleType DEF Idle
  <2>2. CASE r = [Idle EXCEPT !.pc = "notify"]
    BY <2>2, IdleType DEF Idle, TaskState, Steps
  <2> QED
    BY <1>1, <2>1, <2>2
<1>3. /\ task' \in [Tasks -> TaskState]
      /\ ~task'[t].pending /\ task'[t].pc \in {"idle", "notify"}
      /\ \A u \in Tasks : u # t => task'[u] = task[u]
  BY <1>0, <1>1, <1>2
<1>4. UNCHANGED <<key, faults>>
  BY DEF SeenAgain
<1>5. told' \in BOOLEAN /\ astray' \in BOOLEAN /\ overtaken' \subseteq Tasks
  <2>1. \/ UNCHANGED <<told, astray, overtaken>>
        \/ /\ told' = (told /\ row.status = "open")
           /\ astray' = (t \in overtaken)
           /\ Record(t, "open")
    BY DEF SeenAgain
  <2>2. told \in BOOLEAN /\ astray \in BOOLEAN /\ overtaken \subseteq Tasks
    BY DEF Inv, TypeOK
  <2>3. Record(t, "open") => overtaken' \subseteq Tasks
    BY RecordType DEF Inv
  <2>4. overtaken' \subseteq Tasks
    BY <2>1, <2>2, <2>3
  <2>5. told' \in BOOLEAN
    BY <2>1, <2>2
  <2>6. astray' = (t \in overtaken) => astray' \in BOOLEAN
    OBVIOUS
  <2> QED
    BY <2>1, <2>2, <2>4, <2>5, <2>6
<1>6. CASE ~reopens
  <2>1. row' = row /\ history' = history /\ astray' = astray
    BY <1>6 DEF SeenAgain
  <2>2. TypeOK' /\ ResolvedIsDated' /\ HistoryFollowsRow'
    BY <1>3, <1>4, <1>5, <2>1 DEF Inv, TypeOK, ResolvedIsDated, HistoryFollowsRow
  <2>3. Targets' /\ Unwritten'
    BY <1>3, <2>1 DEF Inv, Targets, Sound, Unwritten
  <2> QED
    BY <2>2, <2>3 DEF Inv
<1>7. CASE reopens
  <2>1. /\ row' = [status |-> "open", dated |-> d]
        /\ \/ history' = "open"
           \/ history' = history /\ astray'
    <3>1. /\ row' = [status |-> "open", dated |-> d] /\ Record(t, "open")
          /\ astray' = (t \in overtaken)
      BY <1>7 DEF SeenAgain
    <3> QED
      BY <3>1, RecordType DEF Inv
  <2>2. d \in BOOLEAN
    BY <1>0 DEF Row
  <2>3. row' \in Row /\ row'.status = "open"
    BY <2>1, <2>2 DEF Row, MaybeStatus, Status
  <2>4. TypeOK'
    BY <1>3, <1>4, <1>5, <2>1, <2>3 DEF Inv, TypeOK, MaybeStatus, Status
  <2>5. Targets' /\ Unwritten'
    BY <1>3, <2>1, <2>3 DEF Inv, Targets, Sound, Unwritten
  <2> QED
    BY <2>1, <2>3, <2>4, <2>5 DEF Inv, ResolvedIsDated, HistoryFollowsRow
<1> QED
  BY <1>6, <1>7

\* A user's status and its history entry are one transaction (findings.py:291).
LEMMA CommitStatusInv ==
    ASSUME Inv, NEW t \in Tasks, CommitStatus(t)
    PROVE  Inv'
<1> DEFINE s == task[t].target
<1>0. /\ task \in [Tasks -> TaskState] /\ row \in Row /\ s \in Status
      /\ row.status # "none"
  BY ValidType DEF Inv, TypeOK, Targets, Sound, CommitStatus, At
<1>1. /\ row' = [row EXCEPT !.status = s, !.dated = @ \/ s = "resolved"]
      /\ astray' \in BOOLEAN /\ overtaken' \subseteq Tasks
      /\ \/ history' = s
         \/ history' = history /\ astray'
      /\ task' = [task EXCEPT ![t] = Idle]
      /\ UNCHANGED <<key, faults>>
  <2>1. Record(t, s) /\ astray' = (t \in overtaken)
    BY DEF CommitStatus
  <2>2. astray' \in BOOLEAN
    BY <2>1
  <2>4. t \in overtaken => astray'
    BY <2>1
  <2>3. /\ overtaken' \subseteq Tasks
        /\ \/ history' = s
           \/ history' = history /\ t \in overtaken
    BY <2>1, RecordType DEF Inv
  <2> QED
    BY <2>2, <2>3, <2>4 DEF CommitStatus, Done
<1>2. told' \in BOOLEAN
  BY DEF CommitStatus
<1>3. /\ task' \in [Tasks -> TaskState]
      /\ task'[t] = Idle
      /\ \A u \in Tasks : u # t => task'[u] = task[u]
  BY <1>0, <1>1, IdleType
<1>4. row' \in Row /\ row'.status = s /\ (s = "resolved" => row'.dated)
  BY <1>0, <1>1 DEF Row, MaybeStatus
<1>5. s # "none" /\ s \in MaybeStatus
  BY <1>0 DEF Status, MaybeStatus
<1>6. TypeOK'
  BY <1>1, <1>2, <1>3, <1>4, <1>5 DEF Inv, TypeOK, Idle
<1>7. Targets' /\ Unwritten'
  BY <1>1, <1>3, <1>4, <1>5 DEF Inv, Targets, Sound, Unwritten, Idle
<1> QED
  BY <1>1, <1>4, <1>6, <1>7 DEF Inv, ResolvedIsDated, HistoryFollowsRow

LEMMA CommitNoteInv ==
    ASSUME Inv, NEW t \in Tasks, CommitNote(t)
    PROVE  Inv'
<1>0. /\ task \in [Tasks -> TaskState] /\ row.status # "none"
      /\ task[t].view.status \in MaybeStatus
  BY DEF Inv, TypeOK, TaskState, Row, Targets, Sound, CommitNote, At
<1>1. /\ astray' \in BOOLEAN /\ overtaken' \subseteq Tasks
      /\ \/ /\ history' = task[t].view.status
            /\ astray' = (row.status # task[t].view.status)
         \/ history' = history /\ astray' = astray
      /\ task' = [task EXCEPT ![t] = Idle]
      /\ UNCHANGED <<row, key, faults, told>>
  BY RecordType DEF CommitNote, Done, Inv, TypeOK
<1>5. task[t].view.status # "none"
  BY DEF Inv, Targets, Sound, CommitNote, At, Status
<1>2. /\ task' \in [Tasks -> TaskState]
      /\ task'[t] = Idle
      /\ \A u \in Tasks : u # t => task'[u] = task[u]
  BY <1>0, <1>1, IdleType
<1>3. TypeOK'
  BY <1>0, <1>1, <1>2 DEF Inv, TypeOK, Idle
<1>4. Targets' /\ Unwritten'
  BY <1>0, <1>1, <1>2, <1>5 DEF Inv, Targets, Sound, Unwritten, Idle
<1> QED
  BY <1>1, <1>3, <1>4 DEF Inv, ResolvedIsDated, HistoryFollowsRow

\* The automatic resolution sets resolved_at with the status
\* (finding_events.py:212); the clock and crashes do not touch the row.
LEMMA EnvironmentInv ==
    ASSUME Inv, ResourceDeleted \/ KeyExpires \/ Crash
    PROVE  Inv'
<1>1. CASE ResourceDeleted
  <2>1. /\ row' \in Row /\ row'.status = "resolved" /\ row'.dated
        /\ row.status # "none"
    BY <1>1 DEF ResourceDeleted, Inv, TypeOK, Row, MaybeStatus, Status
  <2>2. astray' = TRUE /\ UNCHANGED <<history, overtaken, key, task, faults, told>>
    BY <1>1 DEF ResourceDeleted
  <2>3. TypeOK'
    BY <2>1, <2>2 DEF Inv, TypeOK
  <2>4. Targets' /\ Unwritten'
    BY <2>1, <2>2 DEF Inv, Targets, Sound, Unwritten
  <2> QED
    BY <2>1, <2>2, <2>3, <2>4 DEF Inv, ResolvedIsDated, HistoryFollowsRow
<1>2. CASE KeyExpires
  BY <1>2 DEF KeyExpires, Inv, TypeOK, ResolvedIsDated, HistoryFollowsRow, Targets, Sound,
              Unwritten
<1>3. CASE Crash
  <2>1. /\ task' \in [Tasks -> TaskState]
        /\ \A u \in Tasks : task'[u] = Idle
    BY <1>3, IdleType DEF Crash
  <2>2. /\ UNCHANGED <<row, history, key, told, astray>> /\ overtaken' = {}
        /\ faults' \in 0..MaxFaults
    BY <1>3, FaultsType DEF Crash, Inv
  <2>3. TypeOK'
    BY <2>1, <2>2 DEF Inv, TypeOK, Idle
  <2>4. Targets' /\ Unwritten'
    BY <2>1, <2>2 DEF Inv, Targets, Sound, Unwritten, Idle
  <2> QED
    BY <2>2, <2>3, <2>4 DEF Inv, ResolvedIsDated, HistoryFollowsRow
<1> QED
  BY <1>1, <1>2, <1>3

-----------------------------------------------------------------------------
\* The inductive invariant holds in every reachable state.
THEOREM InvHolds == Spec => []Inv
<1>1. ASSUME Inv, [Next]_vars PROVE Inv'
  <2>1. CASE Next
    BY <1>1, <2>1, NextCases, MovesInv, CommitsInv, InsertInv, SeenAgainInv,
       CommitStatusInv, CommitNoteInv, EnvironmentInv
  <2>2. CASE UNCHANGED vars
    BY <1>1, <2>2 DEF vars, Inv, TypeOK, ResolvedIsDated, HistoryFollowsRow, Targets, Sound,
                      Unwritten
  <2> QED
    BY <1>1, <2>1, <2>2
<1> QED
  BY InitInv, <1>1, PTL DEF Spec

\* Rows, tasks and history stay in their types.
THEOREM TypeCorrect == Spec => []TypeOK
  BY InvHolds, PTL DEF Inv

\* A resolved finding has a resolved_at, whichever writers raced
\* (findings.py:237, 281, finding_events.py:212), and the entry with the latest
\* stamp (findings.py:357, 566) tells the status of the row, but for the causes
\* the property names (findings.py:291).
THEOREM RecordsFollowHolds == Spec => []RecordsFollow
  BY InvHolds, PTL DEF Inv, RecordsFollow

\* ~~~ Each step is a step of FindingCase, or none ~~~

CaseVars == <<row.status, row.dated, history, astray, Plans, overtaken>>
CaseStep == Case!Next \/ UNCHANGED CaseVars

\* A task that changes changes its own plan only.
LEMMA OnePlan ==
    ASSUME Inv, NEW t \in Tasks, NEW r, task' = [task EXCEPT ![t] = r]
    PROVE  Plans' = [Plans EXCEPT ![t] = PlanOf(r)]
<1>1. task'[t] = r /\ \A u \in Tasks : u # t => task'[u] = task[u]
  BY DEF Inv, TypeOK
<1>2. \A u \in Tasks : PlanOf(task[u])' = PlanOf(task'[u])
  BY DEF PlanOf
<1>3. Plans' = [u \in Tasks |-> PlanOf(task'[u])]
  BY <1>2 DEF Plans
<1>4. [Plans EXCEPT ![t] = PlanOf(r)]
        = [u \in Tasks |-> IF u = t THEN PlanOf(r) ELSE PlanOf(task[u])]
  BY DEF Plans
<1> QED
  BY <1>1, <1>3, <1>4

\* A task that decides nothing leaves the plans as they are.
LEMMA SamePlan ==
    ASSUME NEW t \in Tasks
    PROVE  [Plans EXCEPT ![t] = Plans[t]] = Plans
<1>1. Plans = [u \in Tasks |-> Plans[u]]
  BY DEF Plans
<1> QED
  BY <1>1

LEMMA NoPlanWhenIdle == PlanOf(Idle) = Case!NoPlan
  BY DEF PlanOf, Plan, Idle, Case!NoPlan

LEMMA PlansAre ==
    ASSUME NEW t \in Tasks
    PROVE  Plans[t] = PlanOf(task[t])
  BY DEF Plans

\* What the plans are, by where the task is.
LEMMA PlanCases ==
    ASSUME Inv, NEW t \in Tasks
    PROVE  LET k == task[t]
           IN  /\ k.pc = "patch" => PlanOf(k) = Plan(k.view.status, k.target)
               /\ k.pc = "note" => PlanOf(k) = Plan(k.view.status, k.view.status)
               /\ k.pc = "seenAgain" =>
                    PlanOf(k) = IF k.view.status = "resolved" THEN Plan("resolved", "open")
                                ELSE Case!NoPlan
               /\ k.pc \in {"idle", "new", "insert"} => PlanOf(k) = Case!NoPlan
               /\ k.pc \in Announcing =>
                    PlanOf(k) = IF k.pending THEN Plan("none", k.view.status)
                                ELSE Case!NoPlan
<1>1. task[t].pending => task[t].pc \in Announcing
  BY DEF Inv, Unwritten
<1> QED
  BY <1>1 DEF PlanOf, Plan, Case!NoPlan, Announcing

\* What is recorded is published (findings.py:566).
LEMMA RecordPublishes ==
    ASSUME NEW t \in Tasks, Record(t, Plans[t].to)
    PROVE  Case!Publish(t)
<1>1. Recording \ {t} = {v \in Tasks \ {t} : Plans[v] # Case!NoPlan}
  BY DEF Recording, Plan, Case!NoPlan
<1> QED
  BY <1>1 DEF Record, Case!Publish

\* A sighting of a resolved finding and a request decide; the rest of these
\* steps decide nothing, and a failure forgets.
LEMMA MovesCase ==
    ASSUME Inv, NEW t \in Tasks, Moves(t)
    PROVE  CaseStep
<1>0. /\ task \in [Tasks -> TaskState] /\ row \in Row
      /\ row.status # "none" => row.status \in Status
  BY DEF Inv, TypeOK, Row, MaybeStatus
<1>1. UNCHANGED <<row.status, row.dated, history, astray>>
  BY MovesTask
<1>2. ASSUME NEW r, task' = [task EXCEPT ![t] = r], PlanOf(r) = Plans[t],
             overtaken' = overtaken
      PROVE  CaseStep
  <2>1. Plans' = Plans
    BY <1>2, OnePlan, SamePlan
  <2> QED
    BY <1>1, <1>2, <2>1 DEF CaseStep, CaseVars
<1>3. ASSUME NEW to \in Valid[row.status] \cup {row.status}, NEW r,
             Plans[t] = Case!NoPlan, row.status # "none",
             task' = [task EXCEPT ![t] = r], PlanOf(r) = Plan(row.status, to),
             overtaken' = overtaken
      PROVE  CaseStep
  <2>1. Plans' = [Plans EXCEPT ![t] = [from |-> row.status, to |-> to]]
    BY <1>3, OnePlan DEF Plan
  <2>2. Case!Decide(t)
    BY <1>1, <1>3, <2>1 DEF Case!Decide
  <2> QED
    BY <2>2 DEF CaseStep, Case!Next
<1>4. CASE Sight(t)
  <2> DEFINE r == [task[t] EXCEPT !.pc = IF Exists THEN "seenAgain" ELSE "new",
                                  !.view = row]
  <2>1. task' = [task EXCEPT ![t] = r] /\ overtaken' = overtaken
    BY <1>0, <1>4 DEF Sight
  <2>2. Plans[t] = Case!NoPlan /\ ~task[t].pending
    BY <1>4, PlanCases, PlansAre DEF Sight, At, Inv, Unwritten, Announcing
  <2>3. /\ r.pc = (IF Exists THEN "seenAgain" ELSE "new")
        /\ r.view = row /\ ~r.pending
    BY <1>0, <2>2 DEF TaskState
  <2> HIDE DEF r
  <2>4. CASE row.status = "resolved"
    <3>1. PlanOf(r) = Plan("resolved", "open")
      BY <2>3, <2>4 DEF PlanOf, Exists
    <3>2. "open" \in Valid["resolved"]
      BY DEF Valid
    <3> QED
      BY <1>3, <2>1, <2>2, <2>4, <3>1, <3>2
  <2>5. CASE row.status # "resolved"
    <3>1. PlanOf(r) = Case!NoPlan
      BY <2>3, <2>5 DEF PlanOf, Plan, Case!NoPlan
    <3> QED
      BY <1>2, <2>1, <2>2, <3>1
  <2> QED
    BY <2>4, <2>5
<1>5. CASE CheckSuppression(t)
  <2>1. /\ overtaken' = overtaken
        /\ \E s : task' = [task EXCEPT ![t].pc = "insert", ![t].target = s]
    BY <1>5 DEF CheckSuppression
  <2> PICK s : task' = [task EXCEPT ![t].pc = "insert", ![t].target = s]
    BY <2>1
  <2> DEFINE r == [task[t] EXCEPT !.pc = "insert", !.target = s]
  <2>2. task' = [task EXCEPT ![t] = r]
    BY <1>0
  <2>3. Plans[t] = Case!NoPlan /\ ~task[t].pending
    BY <1>5, PlanCases, PlansAre DEF CheckSuppression, At, Inv, Unwritten, Announcing
  <2>4. r.pc = "insert" /\ ~r.pending
    BY <1>0, <2>3 DEF TaskState
  <2>5. PlanOf(r) = Case!NoPlan
    BY <2>4 DEF PlanOf, Plan, Case!NoPlan
  <2> QED
    BY <1>2, <2>1, <2>2, <2>3, <2>5
<1>6. CASE InsertFails(t)
  <2>1. Plans[t] = Case!NoPlan
    BY <1>6, PlanCases, PlansAre DEF InsertFails, At
  <2> QED
    BY <1>2, <1>6, <2>1, NoPlanWhenIdle DEF InsertFails, Done
<1>7. CASE RedisFails(t)
  <2>1. Plans' = [Plans EXCEPT ![t] = Case!NoPlan] /\ overtaken' = overtaken \ {t}
    BY <1>7, OnePlan, NoPlanWhenIdle DEF RedisFails, Done
  <2>2. Plans' = [w \in Tasks |-> IF w \in {t} THEN Case!NoPlan ELSE Plans[w]]
    BY <2>1 DEF Plans
  <2>3. Case!Fail
    BY <1>1, <2>1, <2>2 DEF Case!Fail
  <2> QED
    BY <2>3 DEF CaseStep, Case!Next
<1>8. CASE NotNotified(t) \/ MarkNotified(t)
  <2>1. PICK p \in {"unkeyed", "keyed"} :
          task' = [task EXCEPT ![t] = [task[t] EXCEPT !.pc = p]]
    BY <1>0, <1>8 DEF NotNotified, MarkNotified, Goto
  <2>2. task[t].pc \in {"notify", "unkeyed"} /\ overtaken' = overtaken
    BY <1>8 DEF NotNotified, MarkNotified, At
  <2> DEFINE r == [task[t] EXCEPT !.pc = p]
  <2>3. r.pc = p /\ r.pending = task[t].pending /\ r.view = task[t].view
    BY <1>0 DEF TaskState
  <2> HIDE DEF r
  <2>4. PlanOf(r) = PlanOf(task[t])
    BY <2>2, <2>3 DEF PlanOf
  <2> QED
    BY <1>2, <2>1, <2>2, <2>4, PlansAre DEF r
<1>9. CASE RequestStatus(t)
  <2>1. PICK s \in Valid[row.status] :
          task' = [task EXCEPT ![t] = [Idle EXCEPT !.pc = "patch", !.view = row,
                                                   !.target = s]]
    BY <1>9 DEF RequestStatus
  <2> DEFINE r == [Idle EXCEPT !.pc = "patch", !.view = row, !.target = s]
  <2>2. PlanOf(r) = Plan(row.status, s)
    BY DEF PlanOf, Idle
  <2>3. Plans[t] = Case!NoPlan /\ row.status # "none" /\ overtaken' = overtaken
    BY <1>9, PlanCases, PlansAre DEF RequestStatus, At, Exists
  <2> QED
    BY <1>3, <2>1, <2>2, <2>3
<1>10. CASE RequestNote(t)
  <2> DEFINE r == [Idle EXCEPT !.pc = "note", !.view = row]
  <2>1. PlanOf(r) = Plan(row.status, row.status)
    BY DEF PlanOf, Idle
  <2>2. Plans[t] = Case!NoPlan /\ row.status # "none" /\ overtaken' = overtaken
    BY <1>10, PlanCases, PlansAre DEF RequestNote, At, Exists
  <2> QED
    BY <1>3, <1>10, <2>1, <2>2 DEF RequestNote
<1> QED
  BY <1>4, <1>5, <1>6, <1>7, <1>8, <1>9, <1>10 DEF Moves

\* A session's commit writes the first entry, if that is what it still holds.
LEMMA CommitsCase ==
    ASSUME Inv, NEW t \in Tasks, Commits(t)
    PROVE  CaseStep
<1>1. /\ UNCHANGED <<row.status, row.dated>>
      /\ Commit(t)
      /\ task' = [task EXCEPT ![t] = Idle]
      /\ task[t].pc \in Announcing
  BY DEF Commits, AlreadyNotified, Send, SendLost, Close, Done, At, Announcing
<1>2. Plans' = [Plans EXCEPT ![t] = Case!NoPlan]
  BY <1>1, OnePlan, NoPlanWhenIdle
<1>3. CASE task[t].pending
  <2>1. Plans[t] = Plan("none", task[t].view.status) /\ task[t].view.status \in Status
    BY <1>1, <1>3, PlanCases, PlansAre DEF Inv, Targets, Sound
  <2>2. /\ Plans[t].from = "none" /\ Plans[t] # Case!NoPlan
        /\ Plans[t].to = task[t].view.status
    BY <2>1 DEF Plan, Case!NoPlan, Status
  <2>3. /\ Case!Publish(t)
        /\ astray' = (astray \/ (t \notin overtaken /\ history # "none"))
    BY <1>1, <1>3, <2>2, RecordPublishes DEF Commit
  <2>4. Case!WriteFirstEntry(t)
    BY <1>1, <1>2, <2>2, <2>3 DEF Case!WriteFirstEntry, Case!Forget
  <2> QED
    BY <2>4 DEF CaseStep, Case!Next
<1>4. CASE ~task[t].pending
  <2>1. UNCHANGED <<history, overtaken, astray>>
    BY <1>1, <1>4 DEF Commit
  <2>2. Plans[t] = Case!NoPlan
    BY <1>1, <1>4, PlanCases, PlansAre
  <2>3. Plans' = Plans
    BY <1>2, <2>2, SamePlan
  <2> QED
    BY <1>1, <2>1, <2>3 DEF CaseStep, CaseVars
<1> QED
  BY <1>3, <1>4

\* The rows' writers (findings.py:141, 237, 291).
LEMMA InsertCase ==
    ASSUME Inv, NEW t \in Tasks, Insert(t)
    PROVE  CaseStep
<1> DEFINE s == task[t].target
           r == [pc |-> IF s = "open" THEN "notify" ELSE "close",
                 view |-> row', target |-> "none", pending |-> TRUE]
<1>1. /\ task' = [task EXCEPT ![t] = r]
      /\ row' = [NoRow EXCEPT !.status = s]
      /\ UNCHANGED <<history, overtaken, astray>>
  BY DEF Insert
<1>2. s \in {"open", "suppressed"} /\ row.status = "none"
  BY DEF Inv, Targets, Sound, Insert, At, Exists
<1>3. row'.status = s /\ row'.dated = FALSE
  BY <1>1 DEF NoRow
<1>4. PlanOf(r) = [from |-> "none", to |-> row'.status]
  BY DEF PlanOf, Plan
<1> HIDE DEF r
<1>5. Plans' = [Plans EXCEPT ![t] = [from |-> "none", to |-> row'.status]]
  BY <1>1, <1>4, OnePlan
<1>6. Case!Appear(t)
  BY <1>1, <1>2, <1>3, <1>5 DEF Case!Appear
<1> QED
  BY <1>6 DEF CaseStep, Case!Next

LEMMA SeenAgainCase ==
    ASSUME Inv, NEW t \in Tasks, SeenAgain(t)
    PROVE  CaseStep
<1> DEFINE v == task[t].view
           reopens == v.status = "resolved"
<1>0. astray \in BOOLEAN /\ row.dated \in BOOLEAN /\ v.dated \in BOOLEAN
  BY DEF Inv, TypeOK, TaskState, Row
<1>1. PICK r : /\ task' = [task EXCEPT ![t] = r]
               /\ r = Idle \/ r = [Idle EXCEPT !.pc = "notify"]
  BY DEF SeenAgain
<1>2. PlanOf(r) = Case!NoPlan
  BY <1>1 DEF PlanOf, Plan, Idle, Case!NoPlan
<1>3. Plans' = [Plans EXCEPT ![t] = Case!NoPlan]
  BY <1>1, <1>2, OnePlan
<1>4. CASE reopens
  <2>1. Plans[t] = Plan("resolved", "open")
    BY <1>4, PlanCases, PlansAre DEF SeenAgain, At
  <2>2. /\ Plans[t].from \in Status /\ Plans[t].to = "open"
        /\ Plans[t].to \in Valid[Plans[t].from]
    BY <2>1 DEF Plan, Status, Valid
  <2>3. /\ row'.status = "open" /\ row'.dated \in {row.dated, FALSE}
        /\ Case!Publish(t) /\ astray' = (t \in overtaken)
    <3>1. /\ row' = [status |-> "open", dated |-> row.dated /\ ~v.dated]
          /\ Record(t, "open") /\ astray' = (t \in overtaken)
      BY <1>4 DEF SeenAgain
    <3> QED
      BY <1>0, <2>2, <3>1, RecordPublishes
  <2>4. Case!Change(t)
    BY <1>3, <2>2, <2>3 DEF Case!Change, Case!Forget
  <2> QED
    BY <2>4 DEF CaseStep, Case!Next
<1>5. CASE ~reopens
  <2>1. Plans[t] = Case!NoPlan
    BY <1>5, PlanCases, PlansAre DEF SeenAgain, At
  <2>2. Plans' = Plans
    BY <1>3, <2>1, SamePlan
  <2>3. UNCHANGED <<row, history, overtaken, astray>>
    BY <1>5 DEF SeenAgain
  <2> QED
    BY <2>2, <2>3 DEF CaseStep, CaseVars
<1> QED
  BY <1>4, <1>5

LEMMA CommitStatusCase ==
    ASSUME Inv, NEW t \in Tasks, CommitStatus(t)
    PROVE  CaseStep
<1> DEFINE k == task[t]
<1>0. row \in Row /\ k.view.status \in Status /\ k.target \in Valid[k.view.status]
  BY DEF Inv, TypeOK, Targets, Sound, CommitStatus, At
<1>1. /\ row' = [row EXCEPT !.status = k.target, !.dated = @ \/ k.target = "resolved"]
      /\ Record(t, k.target) /\ astray' = (t \in overtaken)
      /\ task' = [task EXCEPT ![t] = Idle]
  BY DEF CommitStatus, Done
<1>2. Plans' = [Plans EXCEPT ![t] = Case!NoPlan]
  BY <1>1, OnePlan, NoPlanWhenIdle
<1>6. Plans[t] = Plan(k.view.status, k.target)
  BY PlanCases, PlansAre DEF CommitStatus, At
<1>3. Plans[t].from = k.view.status /\ Plans[t].to = k.target
  BY <1>6 DEF Plan
<1>4. /\ row'.status = k.target
      /\ row'.dated \in IF k.target = "resolved" THEN {TRUE} ELSE {row.dated, FALSE}
  BY <1>0, <1>1 DEF Row
<1>7. Case!Publish(t)
  BY <1>1, <1>3, RecordPublishes
<1>5. Case!Change(t)
  BY <1>0, <1>1, <1>2, <1>3, <1>4, <1>7 DEF Case!Change, Case!Forget
<1> QED
  BY <1>5 DEF CaseStep, Case!Next

LEMMA CommitNoteCase ==
    ASSUME Inv, NEW t \in Tasks, CommitNote(t)
    PROVE  CaseStep
<1> DEFINE k == task[t]
<1>0. k.view.status \in Status
  BY DEF Inv, Targets, Sound, CommitNote, At
<1>1. /\ Record(t, k.view.status)
      /\ astray' = IF t \in overtaken THEN astray ELSE row.status # k.view.status
      /\ task' = [task EXCEPT ![t] = Idle] /\ row' = row
  BY DEF CommitNote, Done
<1>2. Plans' = [Plans EXCEPT ![t] = Case!NoPlan]
  BY <1>1, OnePlan, NoPlanWhenIdle
<1>6. Plans[t] = Plan(k.view.status, k.view.status)
  BY PlanCases, PlansAre DEF CommitNote, At
<1>3. Plans[t].from = k.view.status /\ Plans[t].to = k.view.status
  BY <1>6 DEF Plan
<1>5. Case!Publish(t)
  BY <1>1, <1>3, RecordPublishes
<1>4. Case!Note(t)
  BY <1>0, <1>1, <1>2, <1>3, <1>5 DEF Case!Note, Case!Forget
<1> QED
  BY <1>4 DEF CaseStep, Case!Next

\* The automatic resolution (finding_events.py:212), the clock and crashes.
LEMMA EnvironmentCase ==
    ASSUME Inv, ResourceDeleted \/ KeyExpires \/ Crash
    PROVE  CaseStep
<1>1. CASE ResourceDeleted
  <2>1. /\ row.status \in {"open", "in_progress"}
        /\ row'.status = "resolved" /\ row'.dated = TRUE
        /\ astray' = TRUE /\ UNCHANGED <<history, Plans, overtaken>>
    BY <1>1 DEF ResourceDeleted, Inv, TypeOK, Row, Plans
  <2>2. Case!Resolve
    BY <2>1 DEF Case!Resolve
  <2> QED
    BY <2>2 DEF CaseStep, Case!Next
<1>2. CASE KeyExpires
  BY <1>2 DEF KeyExpires, CaseStep, CaseVars, Plans
<1>3. CASE Crash
  <2>1. Plans' = [w \in Tasks |-> IF w \in Tasks THEN Case!NoPlan ELSE Plans[w]]
    BY <1>3, NoPlanWhenIdle DEF Crash, Plans
  <2>2. UNCHANGED <<row.status, row.dated, history, astray>> /\ overtaken' = {}
    BY <1>3 DEF Crash
  <2>4. overtaken' = overtaken \ Tasks
    BY <2>2 DEF Inv, TypeOK
  <2>3. Case!Fail
    BY <2>1, <2>2, <2>4 DEF Case!Fail
  <2> QED
    BY <2>3 DEF CaseStep, Case!Next
<1> QED
  BY <1>1, <1>2, <1>3

\* What sightings, users and the automatic resolution do to the row and its
\* history is what FindingCase promises (findings.py:141, 237, 276, 291,
\* finding_events.py:212).
THEOREM CaseKept == Spec => CaseIsKept
<1>1. Init => Case!Init
  <2> SUFFICES ASSUME Init PROVE Case!Init
    OBVIOUS
  <2>1. Plans = [w \in Tasks |-> Case!NoPlan]
    BY NoPlanWhenIdle DEF Init, Plans
  <2> QED
    BY <2>1 DEF Init, Case!Init, NoRow
<1>2. ASSUME Inv, [Next]_vars PROVE [Case!Next]_CaseVars
  <2>1. CASE Next
    BY <1>2, <2>1, NextCases, MovesCase, CommitsCase, InsertCase, SeenAgainCase,
       CommitStatusCase, CommitNoteCase, EnvironmentCase DEF CaseStep
  <2>2. CASE UNCHANGED vars
    BY <2>2 DEF vars, CaseVars, Plans
  <2> QED
    BY <1>2, <2>1, <2>2
<1> QED
  BY <1>1, <1>2, InvHolds, PTL DEF Spec, CaseIsKept, Case!Spec, Case!vars, CaseVars

\* ~~~ What FindingCase promises is enough for the records ~~~

\* An entry that is still to be written tells the status the case appeared with,
\* and nothing is planned for a case that does not exist.
CaseInv ==
    /\ row.status \in MaybeStatus /\ astray \in BOOLEAN
    /\ \A w \in Tasks : Plans[w].from \in MaybeStatus /\ Plans[w].to \in MaybeStatus
    /\ row.status = "none" =>
         history = "none" /\ \A w \in Tasks : Plans[w] = Case!NoPlan
    /\ ~astray /\ history = "none" =>
         \A w \in Tasks : Plans[w].from = "none" /\ Plans[w] # Case!NoPlan =>
                             Plans[w].to = row.status
    /\ RecordsFollow

LEMMA NoPlanFields == Case!NoPlan.from = "none" /\ Case!NoPlan.to = "none"
  BY DEF Case!NoPlan

\* A writer that is done has no plan, the others keep theirs.
LEMMA Forgets ==
    ASSUME NEW t \in Tasks, Case!Forget(t)
    PROVE  /\ Plans'[t] = Case!NoPlan
           /\ \A w \in Tasks : w # t => Plans'[w] = Plans[w]
<1>1. DOMAIN Plans = Tasks
  BY DEF Plans
<1> QED
  BY <1>1 DEF Case!Forget

LEMMA CaseInvStep ==
    ASSUME CaseInv, [Case!Next]_CaseVars
    PROVE  CaseInv'
<1> USE DEF RecordsFollow, ResolvedIsDated, HistoryFollowsRow
<1>1. DOMAIN Plans = Tasks
  BY DEF Plans
<1>2. ASSUME NEW w \in Tasks, Case!Appear(w) PROVE CaseInv'
  <2>1. /\ Plans'[w] = [from |-> "none", to |-> row'.status]
        /\ \A v \in Tasks : v # w => Plans'[v] = Case!NoPlan
    BY <1>1, <1>2 DEF CaseInv, Case!Appear
  <2>2. row'.status \in MaybeStatus /\ row'.status \notin {"none", "resolved"}
    BY <1>2 DEF Case!Appear, MaybeStatus, Status
  <2>3. history' = "none" /\ UNCHANGED astray
    BY <1>2 DEF CaseInv, Case!Appear
  <2> QED
    BY <2>1, <2>2, <2>3, NoPlanFields DEF CaseInv, MaybeStatus
<1>3. ASSUME NEW w \in Tasks, Case!WriteFirstEntry(w) PROVE CaseInv'
  <2>1. row.status # "none"
    BY <1>3 DEF CaseInv, Case!WriteFirstEntry
  <2>2. UNCHANGED <<row.status, row.dated>> /\ Plans[w].to # "none"
    BY <1>3 DEF Case!WriteFirstEntry, Case!NoPlan, Plans, PlanOf, Plan
  <2>3. \/ history' = history /\ astray' = astray
        \/ history' = Plans[w].to /\ astray' = (astray \/ history # "none")
    BY <1>3 DEF Case!WriteFirstEntry, Case!Publish, CaseInv
  <2>4. ~astray /\ history = "none" => Plans[w].to = row.status
    BY <1>3 DEF CaseInv, Case!WriteFirstEntry
  <2> QED
    BY <1>3, <2>1, <2>2, <2>3, <2>4, Forgets, NoPlanFields
       DEF CaseInv, Case!WriteFirstEntry, MaybeStatus
<1>4. ASSUME NEW w \in Tasks, Case!Decide(w) PROVE CaseInv'
  <2>1. PICK to \in Valid[row.status] \cup {row.status} :
          Plans' = [Plans EXCEPT ![w] = [from |-> row.status, to |-> to]]
    BY <1>4 DEF Case!Decide
  <2>2. /\ row.status \in Status /\ row.status # "none"
        /\ UNCHANGED <<row.status, row.dated, history, astray>>
    BY <1>4 DEF Case!Decide, CaseInv, MaybeStatus
  <2>3. to \in MaybeStatus
    BY <2>2, ValidType DEF MaybeStatus
  <2>4. /\ Plans'[w].from = row.status /\ Plans'[w].to = to
        /\ \A v \in Tasks : v # w => Plans'[v] = Plans[v]
    BY <1>1, <2>1
  <2> QED
    BY <2>2, <2>3, <2>4 DEF CaseInv, MaybeStatus
<1>5. ASSUME NEW w \in Tasks, Case!Change(w) \/ Case!Note(w) PROVE CaseInv'
  <2>1. Case!Forget(w) /\ Plans[w].from \in Status
    BY <1>5 DEF Case!Change, Case!Note
  <2>2. row.status # "none"
    BY <2>1, NoPlanFields DEF CaseInv, Status
  <2>3. Plans[w].to \in Status /\ Plans[w].to # "none"
    BY <1>5, <2>1, ValidType DEF Case!Change, Case!Note, Status
  <2>4. \/ /\ UNCHANGED <<row.status, row.dated>>
           /\ \/ history' = Plans[w].to /\ astray' = (row.status # history')
              \/ history' = history /\ astray' = astray
        \/ /\ row'.status = Plans[w].to
           /\ row'.status = "resolved" => row'.dated
           /\ \/ history' = Plans[w].to
              \/ history' = history /\ astray'
           /\ astray' \in BOOLEAN
    <3>1. CASE Case!Change(w)
      <4>1. /\ row'.status = Plans[w].to
            /\ row'.status = "resolved" => row'.dated
            /\ astray' = (w \in overtaken) /\ Case!Publish(w)
        BY <3>1 DEF Case!Change
      <4>2. astray' \in BOOLEAN
        BY <4>1
      <4>3. w \in overtaken => astray'
        BY <4>1
      <4> QED
        BY <4>1, <4>2, <4>3 DEF Case!Publish
    <3>2. CASE Case!Note(w)
      BY <3>2 DEF Case!Note, Case!Publish
    <3> QED
      BY <1>5, <3>1, <3>2
  <2> QED
    BY <2>1, <2>2, <2>3, <2>4, Forgets, NoPlanFields DEF CaseInv, MaybeStatus
<1>6. CASE Case!Resolve
  BY <1>6 DEF Case!Resolve, CaseInv, MaybeStatus, Status
<1>7. CASE Case!Fail
  <2>1. \A v \in Tasks : Plans'[v] \in {Case!NoPlan, Plans[v]}
    BY <1>7 DEF Case!Fail
  <2>2. UNCHANGED <<row.status, row.dated, history, astray>>
    BY <1>7 DEF Case!Fail
  <2> QED
    BY <2>1, <2>2, NoPlanFields DEF CaseInv, MaybeStatus
<1>8. CASE UNCHANGED CaseVars
  BY <1>8 DEF CaseVars, CaseInv
<1> QED
  BY <1>2, <1>3, <1>4, <1>5, <1>6, <1>7, <1>8 DEF Case!Next

\* Whoever keeps a case as FindingCase says dates its resolutions and keeps an
\* audit trail that follows the status: nothing else of the service is needed
\* for it (findings.py:237, 291).
THEOREM CaseIsEnough == CaseIsKept => []RecordsFollow
<1>1. Case!Init => CaseInv
  <2> SUFFICES ASSUME Case!Init PROVE CaseInv
    OBVIOUS
  <2>1. astray = FALSE /\ astray \in BOOLEAN
    BY DEF Case!Init
  <2>2. RecordsFollow
    BY DEF Case!Init, RecordsFollow, ResolvedIsDated, HistoryFollowsRow
  <2> QED
    BY <2>1, <2>2 DEF Case!Init, CaseInv, MaybeStatus, Case!NoPlan
<1>2. CaseInv => RecordsFollow
  BY DEF CaseInv
<1> QED
  BY <1>1, <1>2, CaseInvStep, PTL
     DEF CaseIsKept, Case!Spec, Case!vars, CaseVars

-----------------------------------------------------------------------------
(***************************************************************************)
(* Liveness.  What is true of each of finitely many things from some time  *)
(* on is true of all of them from some time on.  The proof is an induction *)
(* over the set, which is out of the provers' reach, so that the instances *)
(* of this law that are needed are stated as premises.                     *)
(***************************************************************************)
FaultsPassTogether ==
    (\A n \in 0..MaxFaults : <>[](faults # n)) => <>[](\A n \in 0..MaxFaults : faults # n)

\* A step has a fault or it has none.
LEMMA FaultsCount == [Next]_vars => faults' = faults \/ (faults < MaxFaults /\ faults' = faults + 1)
<1> SUFFICES ASSUME [Next]_vars
             PROVE  faults' = faults \/ (faults < MaxFaults /\ faults' = faults + 1)
  OBVIOUS
<1>1. ASSUME NEW i \in Ingesters, Ingest(i) PROVE faults' = faults
  BY <1>1 DEF Ingest, Sight, CheckSuppression, Insert, InsertFails, SeenAgain, AlreadyNotified,
              NotNotified, MarkNotified, Send, Close
<1>2. ASSUME NEW u \in Users, Request(u) PROVE faults' = faults
  BY <1>2 DEF Request, RequestStatus, CommitStatus, RequestNote, CommitNote
<1>3. ASSUME NEW i \in Ingesters, SendLost(i) \/ RedisFails(i)
      PROVE  faults < MaxFaults /\ faults' = faults + 1
  BY <1>3 DEF SendLost, RedisFails
<1>4. CASE Crash
  BY <1>4 DEF Crash
<1>5. CASE ResourceDeleted \/ KeyExpires \/ UNCHANGED vars
  BY <1>5 DEF ResourceDeleted, KeyExpires, vars
<1>6. QED
  BY <1>1, <1>2, <1>3, <1>4, <1>5 DEF Next

FaultsCease == <>[][faults' = faults]_vars
FaultsPass(n) == <>[](faults # n)
NoFaultCount == \A n \in 0..MaxFaults : faults # n

\* Faults are counted and bounded, so that they cease: a count that is passed
\* again and again is left for good, and there are finitely many.
LEMMA FaultsDoCease == Spec /\ FaultsPassTogether => FaultsCease
<1> DEFINE Past(n) == faults > n
<1>1. Spec => []TypeOK /\ [][Next]_vars
  BY TypeCorrect, PTL DEF Spec
<1>2. MaxFaults \in Nat /\ (TypeOK => faults \in 0..MaxFaults)
  BY FindingAssumption DEF TypeOK
<1>3. ASSUME NEW n \in 0..MaxFaults PROVE Spec /\ ~FaultsCease => FaultsPass(n)
  <2>1. TypeOK /\ ~(faults # n) /\ [Next]_vars /\ ~[faults' = faults]_vars => Past(n)'
    BY <1>2, FaultsCount
  <2>2. TypeOK /\ ~(faults # n) /\ [Next]_vars => Past(n)' \/ ~(faults # n)'
    BY <1>2, FaultsCount
  <2>3. TypeOK /\ Past(n) /\ [Next]_vars => Past(n)'
    BY <1>2, FaultsCount
  <2>4. TypeOK /\ Past(n) => faults # n
    BY <1>2
  <2>5. QED
    BY <1>1, <2>1, <2>2, <2>3, <2>4, PTL DEF FaultsCease, FaultsPass
<1>4. Spec /\ FaultsPassTogether /\ ~FaultsCease => <>[]NoFaultCount
  <2>1. FaultsPassTogether /\ (\A n \in 0..MaxFaults : FaultsPass(n)) => <>[]NoFaultCount
    BY DEF FaultsPassTogether, FaultsPass, NoFaultCount
  <2>2. QED
    BY <1>3, <2>1
<1>5. TypeOK => ~NoFaultCount
  BY <1>2 DEF NoFaultCount
<1>6. QED
  BY <1>1, <1>4, <1>5, PTL

\* Where an ingestion is: a sighting of a known finding reopens it, announces it
\* once more or passes it by.
Place(k) ==
    CASE k.pc = "seenAgain" /\ k.view.status = "resolved" -> "reopens"
      [] k.pc = "seenAgain" /\ k.view.status = "open" -> "repeats"
      [] OTHER -> k.pc

\* ... and where it goes on to while the finding exists.
Onwards ==
    [idle |-> {"reopens", "repeats", "seenAgain"}, new |-> {"insert"}, insert |-> {"idle"},
     reopens |-> {"notify"}, repeats |-> {"notify"}, seenAgain |-> {"idle"},
     notify |-> {"unkeyed", "idle"}, unkeyed |-> {"keyed"}, keyed |-> {"idle"},
     close |-> {"idle"}]

Places == DOMAIN Onwards

\* Only ingesters ingest, and no finding exists without one.
Ingesting ==
    /\ \A i \in Ingesters : task[i].pc \notin {"patch", "note"}
    /\ Exists => Ingesters # {}

LEMMA IngestingStep ==
    ASSUME Inv, Ingesting, [Next]_vars
    PROVE  Ingesting'
<1>1. task \in [Tasks -> TaskState] /\ \A i \in Ingesters : i \in Tasks /\ i \notin Users
  BY FindingAssumption DEF Inv, TypeOK, Tasks
<1>2. ASSUME NEW i \in Ingesters, Ingest(i) \/ SendLost(i) \/ RedisFails(i) PROVE Ingesting'
  <2>1. /\ task'[i].pc \notin {"patch", "note"}
        /\ \A j \in Tasks : j # i => task'[j] = task[j]
    <3>1. CASE Sight(i)
      BY <1>1, <3>1 DEF Sight, TaskState
    <3>2. CASE CheckSuppression(i)
      BY <1>1, <3>2 DEF CheckSuppression, TaskState
    <3>3. CASE Insert(i)
      BY <1>1, <3>3 DEF Insert, TaskState
    <3>4. CASE InsertFails(i) \/ AlreadyNotified(i) \/ Send(i) \/ Close(i) \/ SendLost(i)
               \/ RedisFails(i)
      BY <1>1, <3>4 DEF InsertFails, AlreadyNotified, Send, Close, SendLost, RedisFails, Done,
                        Idle
    <3>5. CASE SeenAgain(i)
      BY <1>1, <3>5 DEF SeenAgain, Idle
    <3>6. CASE NotNotified(i) \/ MarkNotified(i)
      BY <1>1, <3>6 DEF NotNotified, MarkNotified, Goto, TaskState
    <3>7. QED
      BY <1>2, <3>1, <3>2, <3>3, <3>4, <3>5, <3>6 DEF Ingest
  <2>2. QED
    BY <1>1, <2>1 DEF Ingesting
<1>3. ASSUME NEW u \in Users, Request(u) PROVE Ingesting'
  <2>1. row'.status # "none" => row.status # "none"
    BY <1>3 DEF Request, RequestStatus, CommitStatus, RequestNote, CommitNote, Inv, Targets,
                Tasks, At
  <2>2. \A i \in Ingesters : task'[i] = task[i]
    BY <1>1, <1>3 DEF Request, RequestStatus, CommitStatus, RequestNote, CommitNote, Done
  <2>3. QED
    BY <2>1, <2>2 DEF Ingesting, Exists
<1>4. CASE ResourceDeleted
  BY <1>4 DEF ResourceDeleted, Ingesting, Exists
<1>5. CASE KeyExpires \/ UNCHANGED vars
  BY <1>5 DEF KeyExpires, vars, Ingesting, Exists
<1>6. CASE Crash
  BY <1>1, <1>6 DEF Crash, Ingesting, Exists, Idle
<1>7. QED
  BY <1>2, <1>3, <1>4, <1>5, <1>6 DEF Next

LEMMA AlwaysIngesting == Spec => []Ingesting
<1>1. Init => Ingesting
  BY DEF Init, Ingesting, Idle, Exists, NoRow, Tasks
<1>2. QED
  BY <1>1, IngestingStep, InvHolds, PTL DEF Spec

\* Without a fault an ingestion is moved by itself only.
LEMMA Undisturbed ==
    ASSUME Inv, [Next]_vars, faults' = faults, NEW i \in Ingesters
    PROVE  Ingest(i) \/ task'[i] = task[i]
<1>1. task \in [Tasks -> TaskState] /\ i \in Tasks /\ i \notin Users
  BY FindingAssumption DEF Inv, TypeOK, Tasks
<1>2. faults' # faults + 1
  BY FindingAssumption DEF Inv, TypeOK
<1>3. ASSUME NEW j \in Ingesters, Ingest(j), j # i PROVE task'[i] = task[i]
  BY <1>1, <1>3
     DEF Ingest, Sight, CheckSuppression, Insert, InsertFails, SeenAgain,
         AlreadyNotified, NotNotified, MarkNotified, Send, Close, Goto, Done
<1>4. ASSUME NEW u \in Users, Request(u) PROVE task'[i] = task[i]
  BY <1>1, <1>4 DEF Request, RequestStatus, CommitStatus, RequestNote, CommitNote, Done
<1>5. QED
  BY <1>2, <1>3, <1>4
     DEF Next, SendLost, RedisFails, ResourceDeleted, KeyExpires, Crash, vars

\* An ingestion goes on from place to place.
LEMMA GoesOnwards ==
    ASSUME Inv, Ingesting, NEW i \in Ingesters, Exists, Ingest(i)
    PROVE  /\ Place(task[i]) \in Places
           /\ Place(task'[i]) \in Onwards[Place(task[i])]
           /\ Place(task'[i]) # Place(task[i])
           /\ Place(task[i]) = "idle" /\ row.status = "resolved" => Place(task'[i]) = "reopens"
           /\ Place(task[i]) = "idle" /\ row.status = "open" => Place(task'[i]) = "repeats"
           /\ Place(task[i]) = "reopens" => row'.status = "open"
           /\ Place(task[i]) = "notify" /\ ~key => Place(task'[i]) = "unkeyed"
           /\ Place(task[i]) = "keyed" => told'
<1>1. task \in [Tasks -> TaskState] /\ i \in Tasks
  BY DEF Inv, TypeOK, Tasks
<1>2. CASE Sight(i)
  <2>1. /\ task[i].pc = "idle" /\ task'[i].pc = "seenAgain" /\ task'[i].view = row
    BY <1>1, <1>2 DEF Sight, At, TaskState
  <2>2. QED
    BY <2>1 DEF Place, Places, Onwards
<1>3. CASE CheckSuppression(i)
  <2>1. task[i].pc = "new" /\ task'[i].pc = "insert"
    BY <1>1, <1>3 DEF CheckSuppression, At, TaskState
  <2>2. QED
    BY <2>1 DEF Place, Places, Onwards
<1>4. CASE Insert(i)
  BY <1>4 DEF Insert
<1>5. CASE InsertFails(i) \/ AlreadyNotified(i) \/ Send(i) \/ Close(i)
  <2>1. /\ task[i].pc \in {"insert", "notify", "keyed", "close"} /\ task'[i].pc = "idle"
        /\ task[i].pc = "notify" => key
        /\ task[i].pc = "keyed" => told'
    BY <1>1, <1>5 DEF InsertFails, AlreadyNotified, Send, Close, At, Done, Idle
  <2>2. QED
    BY <2>1 DEF Place, Places, Onwards
<1>6. CASE SeenAgain(i)
  <2>1. /\ task[i].pc = "seenAgain"
        /\ task'[i].pc = IF task[i].view.status \in {"resolved", "open"} THEN "notify" ELSE "idle"
        /\ task[i].view.status = "resolved" => row'.status = "open"
    BY <1>1, <1>6 DEF SeenAgain, At, Idle
  <2>2. QED
    BY <2>1 DEF Place, Places, Onwards
<1>7. CASE NotNotified(i)
  <2>1. task[i].pc = "notify" /\ task'[i].pc = "unkeyed"
    BY <1>1, <1>7 DEF NotNotified, At, Goto, TaskState
  <2>2. QED
    BY <2>1 DEF Place, Places, Onwards
<1>8. CASE MarkNotified(i)
  <2>1. task[i].pc = "unkeyed" /\ task'[i].pc = "keyed"
    BY <1>1, <1>8 DEF MarkNotified, At, Goto, TaskState
  <2>2. QED
    BY <2>1 DEF Place, Places, Onwards
<1>9. QED
  BY <1>2, <1>3, <1>4, <1>5, <1>6, <1>7, <1>8 DEF Ingest

-----------------------------------------------------------------------------
\* What holds from the last fault on.
Calm ==
    /\ [][Next]_vars /\ [][faults' = faults]_vars
    /\ []Inv /\ []Ingesting /\ []IngestGoesOn
    /\ WF_vars(KeyExpires)

EveryIngestIsFair == \A i \in Ingesters : IngestIsFair(i)

\* Weak fairness does not wear off.
LEMMA StaysFair == EveryIngestIsFair => []EveryIngestIsFair
<1>1. \A i \in Ingesters : IngestIsFair(i) => []IngestIsFair(i)
  <2> TAKE i \in Ingesters
  <2> QED
    BY PTL DEF IngestIsFair
<1>2. EveryIngestIsFair => \A i \in Ingesters : []IngestIsFair(i)
  BY <1>1 DEF EveryIngestIsFair
<1>3. (\A i \in Ingesters : []IngestIsFair(i)) => [](\A i \in Ingesters : IngestIsFair(i))
  OBVIOUS
<1>4. QED
  BY <1>2, <1>3 DEF EveryIngestIsFair

\* A place is left for one further on, or the finding's status changes.
Leaves(i, v, x) ==
    row.status = v /\ Place(task[i]) = x ~>
        row.status # v \/ Place(task[i]) \in Onwards[x]

LEMMA PlacesAreLeft ==
    ASSUME NEW i \in Ingesters, NEW v \in {"open", "resolved"}
    PROVE  Calm /\ IngestIsFair(i) => \A x \in Places : Leaves(i, v, x)
<1>1. ASSUME NEW x \in Places
      PROVE  Calm /\ IngestIsFair(i) => Leaves(i, v, x)
  <2>1. Inv /\ Ingesting /\ row.status = v /\ Place(task[i]) = x /\ [Next]_vars
             /\ [faults' = faults]_vars
          => (row.status = v /\ Place(task[i]) = x)'
             \/ (row.status # v \/ Place(task[i]) \in Onwards[x])'
    <3> SUFFICES ASSUME Inv, Ingesting, row.status = v, Place(task[i]) = x, [Next]_vars,
                        faults' = faults
                 PROVE  Place(task'[i]) = x \/ Place(task'[i]) \in Onwards[x]
      BY DEF vars
    <3>1. Exists
      BY DEF Exists
    <3>2. QED
      BY <3>1, Undisturbed, GoesOnwards
  <2>2. Inv /\ Ingesting /\ row.status = v /\ Place(task[i]) = x /\ <<Ingest(i)>>_vars
          => ~(row.status = v /\ Place(task[i]) = x)'
    BY GoesOnwards DEF Exists
  <2>3. IngestGoesOn => ENABLED <<Ingest(i)>>_vars
    BY DEF IngestGoesOn
  <2>4. QED
    BY <2>1, <2>2, <2>3, PTL DEF Calm, IngestIsFair, Leaves
<1>2. QED
  BY <1>1

\* Every ingestion is over in the end, or reopens the finding ...
Rests(i, v) ==
    row.status = v ~> row.status # v \/ Place(task[i]) \in {"idle", "reopens"}

LEMMA ComesBack ==
    ASSUME NEW i \in Ingesters, NEW v \in {"open", "resolved"}
    PROVE  Calm /\ IngestIsFair(i) => Rests(i, v)
<1>1. Calm /\ IngestIsFair(i) =>
        /\ Leaves(i, v, "new") /\ Leaves(i, v, "insert") /\ Leaves(i, v, "seenAgain")
        /\ Leaves(i, v, "notify") /\ Leaves(i, v, "unkeyed") /\ Leaves(i, v, "keyed")
        /\ Leaves(i, v, "close") /\ Leaves(i, v, "repeats")
  BY PlacesAreLeft DEF Places, Onwards
<1>2. /\ Place(task[i]) \in Onwards["new"] => Place(task[i]) = "insert"
      /\ Place(task[i]) \in Onwards["insert"] => Place(task[i]) = "idle"
      /\ Place(task[i]) \in Onwards["seenAgain"] => Place(task[i]) = "idle"
      /\ Place(task[i]) \in Onwards["notify"] => Place(task[i]) \in {"unkeyed", "idle"}
      /\ Place(task[i]) \in Onwards["unkeyed"] => Place(task[i]) = "keyed"
      /\ Place(task[i]) \in Onwards["keyed"] => Place(task[i]) = "idle"
      /\ Place(task[i]) \in Onwards["close"] => Place(task[i]) = "idle"
      /\ Place(task[i]) \in Onwards["repeats"] => Place(task[i]) = "notify"
  BY DEF Onwards
<1>3. /\ Place(task[i]) \in {"unkeyed", "idle"}
           => Place(task[i]) = "unkeyed" \/ Place(task[i]) \in {"idle", "reopens"}
      /\ Place(task[i]) = "idle" => Place(task[i]) \in {"idle", "reopens"}
  OBVIOUS
<1>4. Inv /\ Ingesting =>
        \/ Place(task[i]) = "new" \/ Place(task[i]) = "insert" \/ Place(task[i]) = "seenAgain"
        \/ Place(task[i]) = "notify" \/ Place(task[i]) = "unkeyed" \/ Place(task[i]) = "keyed"
        \/ Place(task[i]) = "close" \/ Place(task[i]) = "repeats" \/ Place(task[i]) \in {"idle", "reopens"}
  <2> SUFFICES ASSUME Inv, Ingesting PROVE <1>4!2
    OBVIOUS
  <2>1. task[i].pc \in Steps \ {"patch", "note"}
    BY DEF Inv, TypeOK, Tasks, TaskState, Ingesting
  <2>2. QED
    BY <2>1 DEF Steps, Place
<1>5. row.status # v <=> ~(row.status = v)
  OBVIOUS
<1>6. QED
  BY <1>1, <1>2, <1>3, <1>4, <1>5, PTL DEF Calm, Leaves, Rests

\* ... and the next sighting finds it as it is.
LEMMA SightSees ==
    ASSUME NEW i \in Ingesters
    PROVE  Calm /\ IngestIsFair(i) =>
             /\ row.status = "resolved" /\ Place(task[i]) = "idle" ~>
                    row.status # "resolved" \/ Place(task[i]) = "reopens"
             /\ row.status = "open" /\ Place(task[i]) = "idle" ~>
                    row.status # "open" \/ Place(task[i]) = "repeats"
             /\ row.status = "resolved" /\ Place(task[i]) = "reopens" ~>
                    row.status # "resolved"
             /\ row.status = "open" /\ Place(task[i]) = "reopens" ~>
                    row.status # "open" \/ Place(task[i]) = "notify"
<1> DEFINE S(v, x, y) ==
      Inv /\ Ingesting /\ row.status = v /\ Place(task[i]) = x /\ [Next]_vars
             /\ [faults' = faults]_vars
          => (row.status = v /\ Place(task[i]) = x)'
             \/ (row.status # v \/ Place(task[i]) = y)'
<1>1. ASSUME NEW v \in {"open", "resolved"}, NEW x \in Places, Inv, Ingesting,
             row.status = v, Place(task[i]) = x, [Next]_vars, [faults' = faults]_vars
      PROVE  Ingest(i) \/ Place(task'[i]) = x
  BY <1>1, Undisturbed DEF vars
<1>2. /\ S("resolved", "idle", "reopens") /\ S("open", "idle", "repeats")
      /\ S("open", "reopens", "notify")
  <2>1. {"idle", "reopens"} \subseteq Places /\ Onwards["reopens"] = {"notify"}
    BY DEF Places, Onwards
  <2>2. QED
    BY <1>1, <2>1, GoesOnwards DEF Exists
<1>3. Inv /\ Ingesting /\ row.status = "resolved" /\ Place(task[i]) = "reopens" /\ [Next]_vars
             /\ [faults' = faults]_vars
          => (row.status = "resolved" /\ Place(task[i]) = "reopens")'
             \/ (row.status # "resolved")'
  BY <1>1, GoesOnwards DEF Exists, Places, Onwards
<1>4. ASSUME NEW v \in {"open", "resolved"}, NEW x \in Places
      PROVE  Inv /\ Ingesting /\ row.status = v /\ Place(task[i]) = x /\ <<Ingest(i)>>_vars
               => ~(row.status = v /\ Place(task[i]) = x)'
  BY GoesOnwards DEF Exists
<1>5. /\ Inv /\ Ingesting /\ row.status = "resolved" /\ Place(task[i]) = "idle"
             /\ <<Ingest(i)>>_vars => ~(row.status = "resolved" /\ Place(task[i]) = "idle")'
      /\ Inv /\ Ingesting /\ row.status = "open" /\ Place(task[i]) = "idle"
             /\ <<Ingest(i)>>_vars => ~(row.status = "open" /\ Place(task[i]) = "idle")'
      /\ Inv /\ Ingesting /\ row.status = "resolved" /\ Place(task[i]) = "reopens"
             /\ <<Ingest(i)>>_vars => ~(row.status = "resolved" /\ Place(task[i]) = "reopens")'
      /\ Inv /\ Ingesting /\ row.status = "open" /\ Place(task[i]) = "reopens"
             /\ <<Ingest(i)>>_vars => ~(row.status = "open" /\ Place(task[i]) = "reopens")'
  BY <1>4 DEF Places, Onwards
<1>6. IngestGoesOn => ENABLED <<Ingest(i)>>_vars
  BY DEF IngestGoesOn
<1>7. QED
  BY <1>2, <1>3, <1>5, <1>6, PTL DEF Calm, IngestIsFair

LEMMA Reopens ==
    ASSUME NEW i \in Ingesters
    PROVE  Calm /\ IngestIsFair(i) => RegressionReopens
<1>1. Calm /\ IngestIsFair(i) => Rests(i, "resolved")
  BY ComesBack
<1>2. /\ Place(task[i]) \in {"idle", "reopens"}
           <=> Place(task[i]) = "idle" \/ Place(task[i]) = "reopens"
      /\ row.status # "resolved" <=> ~(row.status = "resolved")
  OBVIOUS
<1>3. QED
  BY <1>1, <1>2, SightSees, PTL DEF RegressionReopens, Rests

-----------------------------------------------------------------------------
\* Whoever is about to send tells the channel.
LEMMA KeyedTells ==
    ASSUME NEW i \in Ingesters
    PROVE  Calm /\ IngestIsFair(i) =>
             (row.status = "open" /\ Place(task[i]) = "keyed" ~> row.status # "open" \/ told)
<1>1. Inv /\ Ingesting /\ row.status = "open" /\ Place(task[i]) = "keyed" /\ [Next]_vars
             /\ [faults' = faults]_vars
          => (row.status = "open" /\ Place(task[i]) = "keyed")' \/ (row.status # "open" \/ told)'
  BY Undisturbed, GoesOnwards DEF vars, Exists
<1>2. Inv /\ Ingesting /\ row.status = "open" /\ Place(task[i]) = "keyed" /\ <<Ingest(i)>>_vars
          => ~(row.status = "open" /\ Place(task[i]) = "keyed")'
  BY GoesOnwards DEF Exists
<1>3. IngestGoesOn => ENABLED <<Ingest(i)>>_vars
  BY DEF IngestGoesOn
<1>4. QED
  BY <1>1, <1>2, <1>3, PTL DEF Calm, IngestIsFair

Untold == row.status = "open" /\ ~told
Keyed(i) == Place(task[i]) = "keyed"
NoneKeyed == \A i \in Ingesters : ~Keyed(i)

\* A finding that stays untold has nobody about to send ...
LEMMA UntoldUnkeyed ==
    Calm /\ EveryIngestIsFair /\ []Untold => []NoneKeyed
<1>1. \A i \in Ingesters : Calm /\ IngestIsFair(i) /\ []Untold => []~Keyed(i)
  <2> TAKE i \in Ingesters
  <2>1. Calm /\ IngestIsFair(i) =>
          (row.status = "open" /\ Place(task[i]) = "keyed" ~> row.status # "open" \/ told)
    BY KeyedTells
  <2>2. row.status # "open" <=> ~(row.status = "open")
    OBVIOUS
  <2>3. QED
    BY <2>1, <2>2, PTL DEF Untold, Keyed
<1>2. Calm /\ EveryIngestIsFair /\ []Untold => \A i \in Ingesters : []~Keyed(i)
  BY <1>1 DEF EveryIngestIsFair
<1>3. (\A i \in Ingesters : []~Keyed(i)) => [](\A i \in Ingesters : ~Keyed(i))
  OBVIOUS
<1>4. QED
  BY <1>2, <1>3 DEF NoneKeyed

\* ... so that the key expires and nobody sets it again ...
LEMMA UntoldKeyExpires ==
    Calm /\ EveryIngestIsFair /\ []Untold => <>[]~key
<1>1. Inv /\ [Next]_vars /\ NoneKeyed' /\ ~key => ~key'
  <2> SUFFICES ASSUME Inv, [Next]_vars, NoneKeyed', ~key, key'
               PROVE  FALSE
    BY DEF Inv, TypeOK
  <2>1. \E i \in Ingesters : MarkNotified(i)
    BY DEF Next, Ingest, Sight, CheckSuppression, Insert, InsertFails, SeenAgain,
           AlreadyNotified, NotNotified, Send, Close, SendLost, RedisFails, Request,
           RequestStatus, CommitStatus, RequestNote, CommitNote, ResourceDeleted,
           KeyExpires, Crash, vars
  <2>2. PICK i \in Ingesters : MarkNotified(i)
    BY <2>1
  <2>3. task'[i].pc = "keyed"
    BY <2>2 DEF MarkNotified, Goto, Inv, TypeOK, Tasks, TaskState
  <2>4. QED
    BY <2>3 DEF NoneKeyed, Keyed, Place
<1>2. <<KeyExpires>>_vars => ~key'
  BY DEF KeyExpires
<1>3. IngestGoesOn /\ key => ENABLED <<KeyExpires>>_vars
  BY DEF IngestGoesOn
<1>4. Calm => ([]NoneKeyed => <>[]~key)
  BY <1>1, <1>2, <1>3, PTL DEF Calm
<1>5. QED
  BY <1>4, UntoldUnkeyed, PTL

\* ... and the next sighting finds it missing.
LEMMA Announces ==
    ASSUME NEW i \in Ingesters
    PROVE  Calm /\ EveryIngestIsFair => (Untold ~> ~Untold)
<1>1. Calm /\ IngestIsFair(i) => Rests(i, "open")
  BY ComesBack
<1>2. Calm /\ IngestIsFair(i) => Leaves(i, "open", "repeats") /\ Leaves(i, "open", "unkeyed")
  <2>1. "repeats" \in Places /\ "unkeyed" \in Places
    BY DEF Places, Onwards
  <2>2. QED
    BY <2>1, PlacesAreLeft
<1>3. Calm /\ IngestIsFair(i) =>
        (row.status = "open" /\ Place(task[i]) = "notify" ~>
            row.status # "open" \/ key \/ Place(task[i]) = "unkeyed")
  <2>1. Inv /\ Ingesting /\ row.status = "open" /\ Place(task[i]) = "notify" /\ [Next]_vars
             /\ [faults' = faults]_vars
          => (row.status = "open" /\ Place(task[i]) = "notify")'
             \/ (row.status # "open" \/ key \/ Place(task[i]) = "unkeyed")' \/ key
    BY Undisturbed, GoesOnwards DEF vars, Exists
  <2>2. Inv /\ Ingesting /\ row.status = "open" /\ Place(task[i]) = "notify"
             /\ <<Ingest(i)>>_vars => ~(row.status = "open" /\ Place(task[i]) = "notify")'
    BY GoesOnwards DEF Exists
  <2>3. IngestGoesOn => ENABLED <<Ingest(i)>>_vars
    BY DEF IngestGoesOn
  <2>4. QED
    BY <2>1, <2>2, <2>3, PTL DEF Calm, IngestIsFair
<1>4. /\ Place(task[i]) \in {"idle", "reopens"}
           <=> Place(task[i]) = "idle" \/ Place(task[i]) = "reopens"
      /\ row.status # "open" <=> ~(row.status = "open")
      /\ Place(task[i]) \in Onwards["repeats"] <=> Place(task[i]) = "notify"
      /\ Place(task[i]) \in Onwards["unkeyed"] <=> Place(task[i]) = "keyed"
  BY DEF Onwards
<1>5. EveryIngestIsFair => IngestIsFair(i)
  BY DEF EveryIngestIsFair
<1>6. NoneKeyed => ~(Place(task[i]) = "keyed")
  BY DEF NoneKeyed, Keyed
<1>7. Calm /\ EveryIngestIsFair => [](Calm /\ EveryIngestIsFair)
  BY StaysFair, PTL DEF Calm
<1>8. QED
  BY <1>1, <1>2, <1>3, <1>4, <1>5, <1>6, <1>7, SightSees, UntoldUnkeyed, UntoldKeyExpires, PTL
     DEF Leaves, Rests, Untold

\* A resolved finding whose violation persists is reopened and an open one is
\* announced, whatever the other ingestions, the users, the automatic
\* resolution and the key's expiry do in between (findings.py, ingest_finding).
THEOREM ViolationsAreActedOn ==
    FairSpec /\ []IngestGoesOn /\ FaultsPassTogether => ViolationIsActedOn
<1>1. FairSpec /\ []IngestGoesOn => Spec /\ EveryIngestIsFair /\ []EveryIngestIsFair
  BY StaysFair, PTL DEF FairSpec, EveryIngestIsFair
<1>2. FairSpec /\ []IngestGoesOn /\ FaultsPassTogether => <>(Calm /\ EveryIngestIsFair)
  <2>1. FairSpec => WF_vars(KeyExpires)
    BY PTL DEF FairSpec
  <2>2. QED
    BY <1>1, <2>1, InvHolds, AlwaysIngesting, FaultsDoCease, PTL DEF FaultsCease, Calm, Spec
<1>3. CASE Ingesters = {}
  <2>1. Ingesting => ~(row.status = "resolved") /\ ~(row.status = "open")
    BY <1>3 DEF Ingesting, Exists
  <2>2. QED
    BY <1>1, <2>1, AlwaysIngesting, PTL
       DEF ViolationIsActedOn, RegressionReopens, OpenIsAnnounced
<1>4. CASE Ingesters # {}
  <2>1. PICK i \in Ingesters : TRUE
    BY <1>4
  <2>2. EveryIngestIsFair => IngestIsFair(i)
    BY DEF EveryIngestIsFair
  <2>3. /\ row.status # "resolved" <=> ~(row.status = "resolved")
        /\ row.status # "open" <=> ~(row.status = "open")
    OBVIOUS
  <2>4. Calm /\ EveryIngestIsFair => RegressionReopens
    BY <2>2, Reopens
  <2>5. Calm /\ EveryIngestIsFair => (Untold ~> ~Untold)
    BY Announces
  <2>6. FairSpec /\ []IngestGoesOn /\ FaultsPassTogether => RegressionReopens
    BY <1>2, <2>3, <2>4, PTL DEF RegressionReopens
  <2>7. FairSpec /\ []IngestGoesOn /\ FaultsPassTogether => OpenIsAnnounced
    BY <1>2, <2>3, <2>5, PTL DEF OpenIsAnnounced, Untold
  <2>8. QED
    BY <2>6, <2>7, PTL DEF ViolationIsActedOn
<1>5. QED
  BY <1>3, <1>4
=============================================================================
