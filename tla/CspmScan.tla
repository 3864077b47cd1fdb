------------------------------- MODULE CspmScan -------------------------------
(***************************************************************************)
(* The scans of the CSPM service (services/security/cspm: run_scan and its *)
(* two callers, update_finding_status) for one resource of one             *)
(* organization, one rule and the compliance control of that rule.  Every  *)
(* scan works in a database session of its own, nothing keeps two of them  *)
(* apart, and users change the finding's status meanwhile.                 *)
(*                                                                         *)
(* A session writes an attribute only if it differs from the value it      *)
(* loaded, so a writer keeps the view it read.  The policy service, which  *)
(* a scan asks, remembers violations for 300 seconds                       *)
(* (services/policy: evaluation.py).  Scan records and the daily posture   *)
(* snapshot are left out.                                                  *)
(***************************************************************************)
EXTENDS Naturals, Sequences, FiniteSets

CONSTANTS
    Scheduled,  \* the scan of startup and of the 24-hour loop
    Manual,     \* scans of POST /api/v1/cspm/scans
    Users,      \* status requests
    Neighbours, \* the organization has other resources in the connector's table
    Organizations, \* number of the other organizations that have some
    PickLimit,  \* organizations a round of scheduled scans takes (50)
    MaxChanges, \* bound: changes of the resource
    MaxFaults   \* bound: failed evaluations, exceptions, crashes

ASSUME CspmAssumption ==
    /\ Scheduled \notin Manual
    /\ IsFiniteSet(Manual)
    /\ Neighbours \in BOOLEAN
    /\ Organizations \in Nat /\ PickLimit \in Nat
    /\ MaxChanges \in Nat /\ MaxFaults \in Nat

Scans == Manual \cup {Scheduled}

Status == {"open", "resolved", "suppressed", "accepted_risk"}
Verdict == {"pass", "fail"}

VARIABLES
    cloud,   \* what the connector stores of the resource
    status,  \* of the cspm_findings row of the fingerprint ("none": no row)
    cached,  \* the policy service's eval:<rule>:<resource> key: a violation, 300 s
    posture, \* the resource has a cspm_resource_posture row
    results, \* cspm_compliance_results rows of the control
    scan,
    user,
    changes,
    faults

vars == <<cloud, cached, status, posture, results, scan, user, changes, faults>>

NoScan == [pc |-> "idle", fires |-> FALSE, view |-> "none", posted |-> FALSE,
           verdict |-> "pass", seen |-> <<>>]

\* A user's request: the status it will write, "same" if the row it read has it.
Requests == Status \cup {"idle", "same"}

ScanState ==
    [pc : {"idle", "listed", "evaluate", "read", "write", "findings", "result", "commit"},
     fires : BOOLEAN, view : Status \cup {"none"}, posted : BOOLEAN,
     verdict : Verdict, seen : Seq(Verdict)]

TypeOK ==
    /\ cloud \in {"firing", "clean", "gone"}
    /\ cached \in BOOLEAN
    /\ status \in Status \cup {"none"}
    /\ posture \in BOOLEAN
    /\ results \in Seq(Verdict)
    /\ scan \in [Scans -> ScanState]
    /\ user \in [Users -> Requests]
    /\ changes \in 0..MaxChanges
    /\ faults \in 0..MaxFaults

Init ==
    /\ cloud \in {"firing", "clean"}
    /\ cached = FALSE
    /\ status = "none"
    /\ posture = FALSE
    /\ results = <<>>
    /\ scan = [s \in Scans |-> NoScan]
    /\ user = [u \in Users |-> "idle"]
    /\ changes = 0
    /\ faults = 0

-----------------------------------------------------------------------------
At(s, pc) == scan[s].pc = pc
End(s) == scan' = [scan EXCEPT ![s] = NoScan]

\* The organizations that a round may scan are those with a resource.
Listed == cloud # "gone" \/ Neighbours

\* A round lists organizations, in no order and up to the limit, and scans one
\* after the other.
List ==
    /\ At(Scheduled, "idle")
    /\ Listed
    /\ scan' = [scan EXCEPT ![Scheduled].pc = "listed"]
    /\ UNCHANGED <<cloud, cached, status, posture, results, user, changes, faults>>

\* A scan starts and loads the resources; nothing looks for a scan already
\* running.  Resources marked deleted are not loaded: their findings are passed by.
Start(s) ==
    /\ At(s, IF s = Scheduled THEN "listed" ELSE "idle")
    /\ scan' = [scan EXCEPT ![s].pc = IF cloud = "gone" THEN "findings" ELSE "evaluate",
                            ![s].fires = (cloud = "firing")]
    /\ UNCHANGED <<cloud, cached, status, posture, results, user, changes, faults>>

\* _evaluate_batch: the policy service judges the state that was loaded, unless it
\* remembers a violation; it never remembers that there was none.
Evaluate(s) ==
    /\ At(s, "evaluate")
    /\ cached' = (cached \/ scan[s].fires)
    /\ scan' = [scan EXCEPT ![s].pc = "read", ![s].fires = cached']
    /\ UNCHANGED <<cloud, status, posture, results, user, changes, faults>>

CacheExpires ==
    /\ cached
    /\ cached' = FALSE
    /\ UNCHANGED <<cloud, status, posture, results, scan, user, changes, faults>>

\* ... and after three failures the answer is an empty list, as if it were clean.
EvaluationFails(s) ==
    /\ At(s, "evaluate")
    /\ faults < MaxFaults
    /\ faults' = faults + 1
    /\ scan' = [scan EXCEPT ![s].pc = "read", ![s].fires = FALSE]
    /\ UNCHANGED <<cloud, cached, status, posture, results, user, changes>>

\* The resource's posture and the finding: the SELECTs of one resource.
Read(s) ==
    /\ At(s, "read")
    /\ scan' = [scan EXCEPT ![s].pc = "write", ![s].view = status, ![s].posted = posture]
    /\ UNCHANGED <<cloud, cached, status, posture, results, user, changes, faults>>

\* Two scans insert the same posture or the same fingerprint.
Collides(s) ==
    \/ ~scan[s].posted /\ posture
    \/ scan[s].fires /\ scan[s].view = "none" /\ status # "none"

\* Faulty: whatever does not fire is resolved.
WrittenAlways(v, fires, now) ==
    IF fires THEN (IF v \in {"none", "resolved"} THEN "open" ELSE now)
             ELSE (IF v # "none" THEN "resolved" ELSE now)

\* Faulty: nothing is resolved by a scan.
WrittenUnresolved(v, fires, now) ==
    IF fires /\ v \in {"none", "resolved"} THEN "open" ELSE now

\* The status after a scan that saw v: insert, reopen or auto-resolve.
Written(v, fires, now) ==
    IF fires THEN (IF v \in {"none", "resolved"} THEN "open" ELSE now)
             ELSE (IF v = "open" THEN "resolved" ELSE now)

\* The commit of the batch.
Write(s) ==
    /\ At(s, "write")
    /\ ~Collides(s)
    /\ posture' = TRUE
    /\ status' = Written(scan[s].view, scan[s].fires, status)
    /\ scan' = [scan EXCEPT ![s] = [NoScan EXCEPT !.pc = "findings"]]
    /\ UNCHANGED <<cloud, cached, results, user, changes, faults>>

\* A unique index refuses the commit; the scan is over.
WriteFails(s) ==
    /\ At(s, "write")
    /\ Collides(s)
    /\ End(s)
    /\ UNCHANGED <<cloud, cached, status, posture, results, user, changes, faults>>

\* _update_compliance_results: the open findings, then the control's row ...
ReadFindings(s) ==
    /\ At(s, "findings")
    /\ scan' = [scan EXCEPT ![s].pc = "result",
                            ![s].verdict = IF status = "open" THEN "fail" ELSE "pass"]
    /\ UNCHANGED <<cloud, cached, status, posture, results, user, changes, faults>>

\* ... where two rows raise MultipleResultsFound, which is logged.
ReadResult(s) ==
    /\ At(s, "result")
    /\ scan' = [scan EXCEPT ![s] = IF Len(results) > 1 THEN NoScan
                                   ELSE [@ EXCEPT !.pc = "commit", !.seen = results]]
    /\ UNCHANGED <<cloud, cached, status, posture, results, user, changes, faults>>

\* Faulty: every scan inserts.
RecordedAgain(seen, verdict, now) == Append(now, verdict)

\* The rows after a scan that saw those of seen: no constraint makes them unique.
Recorded(seen, verdict, now) ==
    IF seen = <<>> THEN Append(now, verdict)
    ELSE IF verdict # seen[1] THEN [now EXCEPT ![1] = verdict]
    ELSE now

CommitResult(s) ==
    /\ At(s, "commit")
    /\ results' = Recorded(scan[s].seen, scan[s].verdict, results)
    /\ End(s)
    /\ UNCHANGED <<cloud, cached, status, posture, user, changes, faults>>

\* An exception ends the scan wherever it is, and in a round those yet to come.
Abort(s) ==
    /\ ~At(s, "idle")
    /\ faults < MaxFaults
    /\ faults' = faults + 1
    /\ End(s)
    /\ UNCHANGED <<cloud, cached, status, posture, results, user, changes>>

-----------------------------------------------------------------------------
\* update_finding_status: every status may follow every other.
Request(u) ==
    /\ user[u] = "idle"
    /\ status # "none"
    /\ \E t \in Status : user' = [user EXCEPT ![u] = IF t = status THEN "same" ELSE t]
    /\ UNCHANGED <<cloud, cached, status, posture, results, scan, changes, faults>>

Commit(u) ==
    /\ user[u] # "idle"
    /\ status' = IF user[u] = "same" THEN status ELSE user[u]
    /\ user' = [user EXCEPT ![u] = "idle"]
    /\ UNCHANGED <<cloud, cached, posture, results, scan, changes, faults>>

Change ==
    /\ changes < MaxChanges
    /\ changes' = changes + 1
    /\ cloud' \in {"firing", "clean", "gone"} \ {cloud}
    /\ UNCHANGED <<cached, status, posture, results, scan, user, faults>>

Crash ==
    /\ faults < MaxFaults
    /\ faults' = faults + 1
    /\ scan' = [s \in Scans |-> NoScan]
    /\ user' = [u \in Users |-> "idle"]
    /\ UNCHANGED <<cloud, cached, status, posture, results, changes>>

Proceed(s) ==
    \/ Evaluate(s) \/ Read(s) \/ Write(s) \/ WriteFails(s)
    \/ ReadFindings(s) \/ ReadResult(s) \/ CommitResult(s)

Next ==
    \/ \E s \in Scans : Start(s) \/ Proceed(s) \/ EvaluationFails(s) \/ Abort(s)
    \/ \E u \in Users : Request(u) \/ Commit(u)
    \/ List \/ CacheExpires \/ Change \/ Crash

Spec == Init /\ [][Next]_vars

(***************************************************************************)
(* Fairness: the 24-hour loop lists the organization again and again while *)
(* it has a resource, unless there are more than a round takes; the event  *)
(* loop runs the scans of a round to their end; Redis expires the key.     *)
(* Users and manual scans owe nothing.                                     *)
(***************************************************************************)
ProceedIsFair(s) == WF_vars(Proceed(s))
EveryoneFits == Organizations < PickLimit

FairSpec ==
    /\ Spec
    /\ EveryoneFits => WF_vars(List)
    /\ WF_vars(Start(Scheduled))
    /\ \A s \in Scans : ProceedIsFair(s)
    /\ WF_vars(CacheExpires)

-----------------------------------------------------------------------------
(***************************************************************************)
(* Properties.                                                             *)
(***************************************************************************)

\* What a scan that has read the finding is about to do to it.
Judgement(k) ==
    IF k.pc # "write" THEN "nothing"
    ELSE CASE k.fires /\ k.view = "none"     -> "report"
           [] k.fires /\ k.view = "resolved" -> "open"
           [] ~k.fires /\ k.view = "open"    -> "resolved"
           [] OTHER                          -> "nothing"
Wish(request) == IF request \in Status THEN request ELSE "nothing"

Judgements == [s \in Scans |-> Judgement(scan[s])]
Wishes == [u \in Users |-> Wish(user[u])]

Decided == INSTANCE DecidedStatus WITH judged <- Judgements, asked <- Wishes

\* However scans, retries and users overlap, a suppression or an accepted risk is
\* overwritten only by what was decided before it was made: every status written
\* follows from one that was read, and a finding is inserted once.
DecisionsKept == Decided!Spec

\* A violation that persists is an open finding, or one a user decided on, in
\* spite of collisions, failed evaluations and crashes.
FiringIsReported ==
    cloud = "firing" /\ status \in {"none", "resolved"}
        ~> cloud # "firing" \/ status \notin {"none", "resolved"}

\* An open finding whose violation is gone is resolved while its resource exists.
FixedIsResolved ==
    cloud = "clean" /\ status = "open" ~> cloud # "clean" \/ status # "open"

\* The compliance verdict of a control that has one row catches up with the
\* finding, however scans overlap, while the organization has a resource.
VerdictCatchesUp ==
    /\ results = <<"pass">> /\ status = "open"
           ~> results # <<"pass">> \/ status # "open" \/ ~Listed
    /\ results = <<"fail">> /\ status # "open"
           ~> results # <<"fail">> \/ status = "open" \/ ~Listed

\* However often scans run, a control gets at most one row per scan that was in
\* flight when it was first evaluated.
RowsBounded == Len(results) <= Cardinality(Scans)

\* Rows and tasks are of their types, and the rows do not pile up.
StateOK == TypeOK /\ RowsBounded

CanProceed(s) == ENABLED <<Proceed(s)>>_vars

\* Neither the scheduled scan nor an evaluation is stuck, nor is the policy
\* service's key.
ScansGoOn ==
    /\ At(Scheduled, "idle") /\ Listed => ENABLED <<List>>_vars
    /\ At(Scheduled, "listed") => ENABLED <<Start(Scheduled)>>_vars
    /\ ~At(Scheduled, "idle") /\ ~At(Scheduled, "listed") => CanProceed(Scheduled)
    /\ \A s \in Scans : At(s, "evaluate") => CanProceed(s)
    /\ cached => ENABLED <<CacheExpires>>_vars

\* Scans catch up with the cloud, and the verdicts with the findings, if a round
\* takes every organization.
ScansCatchUp ==
    EveryoneFits => []ScansGoOn /\ FiringIsReported /\ FixedIsResolved /\ VerdictCatchesUp

\* "Recompute compliance results for all frameworks based on open findings"
\* (scan_executor.py:421).
ComplianceFollows ==
    status = "open" ~> status # "open" \/ \E i \in DOMAIN results : results[i] = "fail"
=============================================================================
