--------------------------- MODULE FindingLifecycle ---------------------------
(***************************************************************************)
(* The life of ONE finding (one fingerprint) in the alert service: its row *)
(* and the newest entry of finding_history in PostgreSQL, the notification *)
(* deduplication key of one channel in Redis, the tasks that ingest        *)
(* sightings (the finding.raw consumer and POST /findings/submit) and the  *)
(* requests of users (services/alert/app/services/findings.py,             *)
(* services/notifications.py, consumers/finding_events.py,                 *)
(* api/routes/findings.py).                                                *)
(*                                                                         *)
(* One action per stretch of code between two awaits that matter.  A       *)
(* session reads the row once and writes back only the attributes it       *)
(* changed, so a task keeps the view of the row it read.  The dedup:<fp>   *)
(* cache holds the id of the row, which is never deleted, and the row is   *)
(* read through it: a lookup sees the committed row with or without it.    *)
(*                                                                         *)
(* The newest entry is the one with the latest timestamp, and an entry is  *)
(* stamped when it is added to the session, some awaits before the commit: *)
(* entries may be committed in another order than they were stamped in.    *)
(* No clock is needed to say so.  When a newest entry is committed, each   *)
(* entry others still hold was stamped before it or will be newer; the one *)
(* stamped before is overtaken and becomes visible as an older entry.      *)
(***************************************************************************)
EXTENDS Naturals

CONSTANTS
    Ingesters,   \* tasks that ingest sightings
    Users,       \* concurrent status requests, the bound on them
    MaxFaults    \* bound: notifications dropped or failed, Redis outages, crashes

ASSUME FindingAssumption == Ingesters \cap Users = {} /\ MaxFaults \in Nat

Tasks == Ingesters \cup Users

Status == {"open", "in_progress", "resolved", "suppressed", "accepted_risk"}
MaybeStatus == Status \cup {"none"}

\* _is_valid_transition.
Valid ==
    [open          |-> {"in_progress", "resolved", "suppressed", "accepted_risk"},
     in_progress   |-> {"open", "resolved"},
     resolved      |-> {"open"},
     suppressed    |-> {"open"},
     accepted_risk |-> {"open"}]

VARIABLES
    row,     \* the findings row: dated says that resolved_at is set
    history, \* new_status of the newest finding_history entry ("none": no entry)
    overtaken, \* tasks holding an entry that is stamped before the newest one
    key,     \* notif:<channel>:<finding> exists
    task,
    faults,
    told,    \* history: the channel got a notification since the row last opened
    astray   \* history: the newest entry came about, or the status was changed
             \* since, in one of the ways that HistoryFollowsRow names

vars == <<row, history, overtaken, key, task, faults, told, astray>>

Row == [status : MaybeStatus, dated : BOOLEAN]
NoRow == [status |-> "none", dated |-> FALSE]
Steps == {"idle", "new", "insert", "seenAgain", "notify", "unkeyed", "keyed",
          "close", "patch", "note"}

\* target: the status to write; pending: the creation's history entry is in the
\* session, not yet committed.
Idle == [pc |-> "idle", view |-> NoRow, target |-> "none", pending |-> FALSE]

TaskState == [pc : Steps, view : Row, target : MaybeStatus, pending : BOOLEAN]

\* Where a session may hold the entry of the finding it created.
Announcing == {"notify", "unkeyed", "keyed", "close"}

\* The types; and a session that is over holds no entry.
TypeOK ==
    /\ row \in Row
    /\ history \in MaybeStatus
    /\ overtaken \subseteq Tasks
    /\ key \in BOOLEAN
    /\ task \in [Tasks -> TaskState]
    /\ \A t \in Tasks : task[t].pending => task[t].pc \in Announcing
    /\ faults \in 0..MaxFaults
    /\ told \in BOOLEAN
    /\ astray \in BOOLEAN

Init ==
    /\ row = NoRow
    /\ history = "none"
    /\ overtaken = {}
    /\ key = FALSE
    /\ task = [t \in Tasks |-> Idle]
    /\ faults = 0
    /\ told = FALSE
    /\ astray = FALSE

-----------------------------------------------------------------------------
At(t, pc) == task[t].pc = pc
Goto(t, pc) == task' = [task EXCEPT ![t].pc = pc]
Done(t) == task' = [task EXCEPT ![t] = Idle]

Exists == row.status # "none"

Plan(from, to) == [from |-> from, to |-> to]

\* What a task has decided and not written: a change of status, a note, a
\* reopening, or the first entry of the finding it created.
PlanOf(k) ==
    CASE k.pc = "patch" -> Plan(k.view.status, k.target)
      [] k.pc = "note"  -> Plan(k.view.status, k.view.status)
      [] k.pc = "seenAgain" /\ k.view.status = "resolved" -> Plan("resolved", "open")
      [] k.pending -> Plan("none", k.view.status)
      [] OTHER -> Plan("none", "none")
Plans == [t \in Tasks |-> PlanOf(task[t])]

Recording == {t \in Tasks : Plans[t] # Plan("none", "none")}

\* _record_history and the commit: an entry of t that tells s.  It is the newest
\* one unless it was overtaken, and then overtakes those stamped before it.
Record(t, s) ==
    \/ /\ t \in overtaken
       /\ overtaken' = overtaken \ {t}
       /\ history' = history
    \/ /\ t \notin overtaken
       /\ \E older \in SUBSET (Recording \ {t}) : overtaken' = overtaken \cup older
       /\ history' = s

\* ~~~ Ingestion ~~~

\* Faulty: the lookup leaves resolved findings out.
SightUnresolved(i) ==
    /\ At(i, "idle")
    /\ task' = [task EXCEPT ![i].pc = IF row.status \in {"none", "resolved"} THEN "new"
                                     ELSE "seenAgain",
                            ![i].view = row]
    /\ UNCHANGED <<row, history, overtaken, key, faults, told, astray>>

\* _get_by_fingerprint.
Sight(i) ==
    /\ At(i, "idle")
    /\ task' = [task EXCEPT ![i].pc = IF Exists THEN "seenAgain" ELSE "new",
                            ![i].view = row]
    /\ UNCHANGED <<row, history, overtaken, key, faults, told, astray>>

\* The suppression rules are read before the row is written; users add and delete
\* rules at any time and rules expire, so one matches or none does.  A finding
\* that no rule suppresses is then enriched by three calls to other services.
CheckSuppression(i) ==
    /\ At(i, "new")
    /\ \E s \in {"open", "suppressed"} :
         task' = [task EXCEPT ![i].pc = "insert", ![i].target = s]
    /\ UNCHANGED <<row, history, overtaken, key, faults, told, astray>>

\* The INSERT commits on its own; the history entry is added after that commit
\* and waits for the session's next one.
Insert(i) ==
    /\ At(i, "insert")
    /\ ~Exists
    /\ row' = [NoRow EXCEPT !.status = task[i].target]
    /\ task' = [task EXCEPT ![i] =
                  [pc |-> IF @.target = "open" THEN "notify" ELSE "close",
                   view |-> row', target |-> "none", pending |-> TRUE]]
    /\ told' = FALSE
    /\ UNCHANGED <<history, overtaken, key, faults, astray>>

\* Another task inserted the fingerprint first: the unique constraint refuses
\* the row and the sighting is dropped.
InsertFails(i) ==
    /\ At(i, "insert")
    /\ Exists
    /\ Done(i)
    /\ UNCHANGED <<row, history, overtaken, key, faults, told, astray>>

\* _handle_duplicate: the caller notifies if the finding, as this task sees it,
\* is open.
SeenAgain(i) ==
    /\ At(i, "seenAgain")
    /\ LET v == task[i].view
       IN  \/ /\ v.status = "resolved"
              /\ row' = [status |-> "open", dated |-> row.dated /\ ~v.dated]
              /\ Record(i, "open")
              /\ astray' = (i \in overtaken)
              /\ told' = (told /\ row.status = "open")
              /\ task' = [task EXCEPT ![i] = [Idle EXCEPT !.pc = "notify"]]
           \/ /\ v.status # "resolved"
              /\ task' = [task EXCEPT ![i] = IF v.status = "open"
                                             THEN [Idle EXCEPT !.pc = "notify"] ELSE Idle]
              /\ UNCHANGED <<row, history, overtaken, told, astray>>
    /\ UNCHANGED <<key, faults>>

\* ~~~ Notification of one channel whose filters match ~~~

\* A commit of task i's session: the creation's entry is written, if it holds it.
Commit(i) ==
    \/ /\ task[i].pending
       /\ Record(i, task[i].view.status)
       /\ astray' = (astray \/ (i \notin overtaken /\ history # "none"))
    \/ /\ ~task[i].pending
       /\ UNCHANGED <<history, overtaken, astray>>

AlreadyNotified(i) ==
    /\ At(i, "notify")
    /\ key
    /\ Commit(i)
    /\ Done(i)
    /\ UNCHANGED <<row, key, faults, told>>

NotNotified(i) ==
    /\ At(i, "notify")
    /\ ~key
    /\ Goto(i, "unkeyed")
    /\ UNCHANGED <<row, history, overtaken, key, faults, told, astray>>

MarkNotified(i) ==
    /\ At(i, "unkeyed")
    /\ key' = TRUE
    /\ Goto(i, "keyed")
    /\ UNCHANGED <<row, history, overtaken, faults, told, astray>>

\* send_with_retry, then the log entry and its commit.
Send(i) ==
    /\ At(i, "keyed")
    /\ told' = TRUE
    /\ Commit(i)
    /\ Done(i)
    /\ UNCHANGED <<row, key, faults>>

\* Over the channel's rate limit, or three failed attempts (logged as sent):
\* nothing is delivered, and the key stays.
SendLost(i) ==
    /\ At(i, "keyed")
    /\ faults < MaxFaults
    /\ faults' = faults + 1
    /\ Commit(i)
    /\ Done(i)
    /\ UNCHANGED <<row, key, told>>

\* The final commit of the session that created a suppressed finding.
Close(i) ==
    /\ At(i, "close")
    /\ Commit(i)
    /\ Done(i)
    /\ UNCHANGED <<row, key, faults, told>>

\* Faulty: the session is not rolled back.
RedisFailsPending(i) ==
    /\ task[i].pc \in {"notify", "unkeyed"}
    /\ faults < MaxFaults
    /\ faults' = faults + 1
    /\ Goto(i, "idle")
    /\ UNCHANGED <<row, history, overtaken, key, told, astray>>

\* EXISTS or SETEX raises: the session rolls back, the pending entry with it.
RedisFails(i) ==
    /\ task[i].pc \in {"notify", "unkeyed"}
    /\ faults < MaxFaults
    /\ faults' = faults + 1
    /\ Done(i)
    /\ overtaken' = overtaken \ {i}
    /\ UNCHANGED <<row, history, key, told, astray>>

\* ~~~ Users: PATCH, suppress, accept-risk and the bulk routes ~~~

\* update_finding_status up to its validation.
RequestStatus(u) ==
    /\ At(u, "idle")
    /\ Exists
    /\ \E s \in Valid[row.status] :
         task' = [task EXCEPT ![u] = [Idle EXCEPT !.pc = "patch", !.view = row,
                                                  !.target = s]]
    /\ UNCHANGED <<row, history, overtaken, key, faults, told, astray>>

\* ... and its commit, one transaction with the history entry.
CommitStatus(u) ==
    /\ At(u, "patch")
    /\ LET s == task[u].target
       IN  /\ row' = [row EXCEPT !.status = s, !.dated = @ \/ s = "resolved"]
           /\ Record(u, s)
           /\ told' = (told /\ ~(s = "open" /\ row.status # "open"))
    /\ astray' = (u \in overtaken)
    /\ Done(u)
    /\ UNCHANGED <<key, faults>>

\* PATCH with nothing but a reason: a history entry from status to itself.
RequestNote(u) ==
    /\ At(u, "idle")
    /\ Exists
    /\ task' = [task EXCEPT ![u] = [Idle EXCEPT !.pc = "note", !.view = row]]
    /\ UNCHANGED <<row, history, overtaken, key, faults, told, astray>>

CommitNote(u) ==
    /\ At(u, "note")
    /\ Record(u, task[u].view.status)
    /\ astray' = IF u \in overtaken THEN astray ELSE row.status # task[u].view.status
    /\ Done(u)
    /\ UNCHANGED <<row, key, faults, told>>

\* ~~~ resource.deleted, the clock and crashes ~~~

\* Faulty: resolved_at is not set.
ResourceDeletedUndated ==
    /\ row.status \in {"open", "in_progress"}
    /\ row' = [row EXCEPT !.status = "resolved"]
    /\ astray' = TRUE
    /\ UNCHANGED <<history, overtaken, key, task, faults, told>>

\* Faulty: whatever is not resolved is.
ResourceDeletedResolvesAll ==
    /\ row.status \notin {"none", "resolved"}
    /\ row' = [row EXCEPT !.status = "resolved", !.dated = TRUE]
    /\ astray' = TRUE
    /\ UNCHANGED <<history, overtaken, key, task, faults, told>>

\* One UPDATE ... WHERE, without a history entry.
ResourceDeleted ==
    /\ row.status \in {"open", "in_progress"}
    /\ row' = [row EXCEPT !.status = "resolved", !.dated = TRUE]
    /\ astray' = TRUE
    /\ UNCHANGED <<history, overtaken, key, task, faults, told>>

\* The 300 seconds of SETEX are over.
KeyExpires ==
    /\ key
    /\ key' = FALSE
    /\ UNCHANGED <<row, history, overtaken, task, faults, told, astray>>

Crash ==
    /\ faults < MaxFaults
    /\ faults' = faults + 1
    /\ task' = [t \in Tasks |-> Idle]
    /\ overtaken' = {}
    /\ UNCHANGED <<row, history, key, told, astray>>

Ingest(i) ==
    \/ Sight(i) \/ CheckSuppression(i)
    \/ Insert(i) \/ InsertFails(i) \/ SeenAgain(i)
    \/ AlreadyNotified(i) \/ NotNotified(i) \/ MarkNotified(i)
    \/ Send(i) \/ Close(i)

Request(u) ==
    \/ RequestStatus(u) \/ CommitStatus(u)
    \/ RequestNote(u) \/ CommitNote(u)

Next ==
    \/ \E i \in Ingesters : Ingest(i) \/ SendLost(i) \/ RedisFails(i)
    \/ \E u \in Users : Request(u)
    \/ ResourceDeleted \/ KeyExpires \/ Crash

Spec == Init /\ [][Next]_vars

(***************************************************************************)
(* Fairness: a violation that persists is sighted again and again (the     *)
(* policy service evaluates a resource at every sync of its account and    *)
(* emits finding.raw for every violation, known or not), a started         *)
(* ingestion goes on, and Redis expires the key.  Faults are bounded: the  *)
(* notifier and the rate limit recover.                                    *)
(***************************************************************************)
IngestIsFair(i) == WF_vars(Ingest(i))

FairSpec ==
    /\ Spec
    /\ \A i \in Ingesters : IngestIsFair(i)
    /\ WF_vars(KeyExpires)

-----------------------------------------------------------------------------
(***************************************************************************)
(* Properties.                                                             *)
(***************************************************************************)

\* Resolution times and SLAs are computed from resolved_at: a resolved finding
\* has one, although writers that saw older rows set and clear the two columns
\* independently of each other.
ResolvedIsDated == row.status = "resolved" => row.dated

\* The audit trail tells the current status: the newest entry agrees with the
\* row, once there is one, unless
\*   - the automatic resolution, which leaves no entry, came since,
\*   - it is a note, or the entry of the finding's creation, and was stamped
\*     after the entry of a change it had not seen, or
\*   - the change since then was stamped before it and committed after it.
HistoryFollowsRow ==
    astray \/ history \in {"none", row.status}

\* What reports and audits read beside the status.
RecordsFollow == ResolvedIsDated /\ HistoryFollowsRow

Case == INSTANCE FindingCase
          WITH Writers <- Tasks, status <- row.status, dated <- row.dated,
               entry <- history, silent <- astray, plan <- Plans, late <- overtaken

\* Sightings, users and the automatic resolution together keep the case: what a
\* task commits over changes it has not seen was still legal where it was
\* decided, and row and history change together or are known to differ.
CaseIsKept == Case!Spec

\* While its violation persists a resolved finding is reopened, whatever crashes
\* and whoever writes in between.
RegressionReopens == row.status = "resolved" ~> row.status # "resolved"

\* An open finding is announced, or leaves that status, in spite of dropped and
\* failed notifications, Redis outages and crashes.
OpenIsAnnounced == row.status = "open" ~> told \/ row.status # "open"

\* No ingestion is stuck, nor is the key.
IngestGoesOn ==
    /\ \A i \in Ingesters : ENABLED <<Ingest(i)>>_vars
    /\ key => ENABLED <<KeyExpires>>_vars

\* A violation that persists is brought to somebody's attention.
ViolationIsActedOn == []IngestGoesOn /\ RegressionReopens /\ OpenIsAnnounced
=============================================================================
