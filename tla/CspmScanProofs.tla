---------------------------- MODULE CspmScanProofs ----------------------------
(***************************************************************************)
(* Proofs about CspmScan, for any number of manual scans and users: the    *)
(* type invariant, the bound on the rows of a control, DecisionsKept,      *)
(* which is that CspmScan implements DecidedStatus, and what would keep a  *)
(* control's row unique.                                                   *)
(* The bound is not inductive: what keeps it is that only scans that read  *)
(* the control before it had a row will insert one, and that every row has *)
(* used such a scan up.  RoomLeft counts rows and waiting insertions       *)
(* together.                                                               *)
(*                                                                         *)
(* The last part is liveness: once faults have ceased and each scan works  *)
(* on what it read since, nobody collides and what a scan sees it writes.  *)
(***************************************************************************)
EXTENDS CspmScan, FiniteSetTheorems, SequenceTheorems, TLAPS

\* Scans that read the control before it had a row and have not committed.
Inserting == {s \in Scans : scan[s].pc = "commit" /\ scan[s].seen = <<>>}

RoomLeft == Len(results) + Cardinality(Inserting) <= Cardinality(Scans)

\* A row that was read stays.
SeenStays == \A s \in Scans : scan[s].seen # <<>> => results # <<>>

Inv == TypeOK /\ SeenStays /\ RoomLeft

LEMMA ScansFinite == IsFiniteSet(Scans) /\ Cardinality(Scans) \in Nat
<1>1. IsFiniteSet(Manual \cup {Scheduled})
  BY CspmAssumption, FS_AddElement
<1>2. QED
  BY <1>1, FS_CardinalityType DEF Scans

LEMMA InsertingFinite ==
    /\ IsFiniteSet(Inserting)
    /\ Cardinality(Inserting) \in Nat
    /\ Cardinality(Inserting) <= Cardinality(Scans)
<1>1. Inserting \in SUBSET Scans
  BY DEF Inserting
<1>2. QED
  BY <1>1, ScansFinite, FS_Subset, FS_CardinalityType

\* What a commit leaves: a sequence of verdicts, longer by one only after an
\* insertion.
LEMMA RecordedRows ==
    ASSUME NEW now \in Seq(Verdict), NEW seen \in Seq(Verdict), NEW v \in Verdict,
           seen # <<>> => now # <<>>
    PROVE  /\ Recorded(seen, v, now) \in Seq(Verdict)
           /\ seen = <<>> => Len(Recorded(seen, v, now)) = Len(now) + 1
           /\ seen # <<>> => Len(Recorded(seen, v, now)) = Len(now)
           /\ Recorded(seen, v, now) # <<>>
<1>1. CASE seen = <<>>
  <2>1. Recorded(seen, v, now) = Append(now, v)
    BY <1>1 DEF Recorded
  <2>2. Append(now, v) \in Seq(Verdict) /\ Len(Append(now, v)) = Len(now) + 1
    OBVIOUS
  <2>3. Append(now, v) # <<>>
    BY <2>2, EmptySeq, LenProperties
  <2>4. QED
    BY <1>1, <2>1, <2>2, <2>3
<1>2. CASE seen # <<>> /\ v # seen[1]
  <2>1. Recorded(seen, v, now) = [now EXCEPT ![1] = v]
    BY <1>2 DEF Recorded
  <2>2. 1 \in 1..Len(now)
    BY <1>2, EmptySeq
  <2>3. [now EXCEPT ![1] = v] \in Seq(Verdict) /\ Len([now EXCEPT ![1] = v]) = Len(now)
    BY <2>2, ExceptSeq
  <2>4. [now EXCEPT ![1] = v] # <<>>
    BY <2>2, <2>3, EmptySeq
  <2>5. QED
    BY <1>2, <2>1, <2>3, <2>4
<1>3. CASE seen # <<>> /\ v = seen[1]
  BY <1>3 DEF Recorded
<1>4. QED
  BY <1>1, <1>2, <1>3

LEMMA WrittenStatus ==
    ASSUME NEW v \in Status \cup {"none"}, NEW fires \in BOOLEAN,
           NEW now \in Status \cup {"none"}
    PROVE  Written(v, fires, now) \in Status \cup {"none"}
  BY DEF Written, Status

LEMMA NoScanType == NoScan \in ScanState
<1>1. <<>> \in Seq(Verdict)
  BY EmptySeq
<1>2. QED
  BY <1>1 DEF NoScan, ScanState, Verdict

LEMMA InitInv == Init => Inv
<1> SUFFICES ASSUME Init PROVE Inv
  OBVIOUS
<1>1. TypeOK
  <2>1. scan \in [Scans -> ScanState]
    BY NoScanType DEF Init
  <2>2. user \in [Users -> Requests]
    BY DEF Init, Requests
  <2>3. results \in Seq(Verdict)
    BY EmptySeq DEF Init
  <2>4. changes \in 0..MaxChanges /\ faults \in 0..MaxFaults
    BY CspmAssumption DEF Init
  <2> QED
    BY <2>1, <2>2, <2>3, <2>4 DEF Init, TypeOK
<1>2. SeenStays
  BY DEF Init, SeenStays, NoScan
<1>3. RoomLeft
  <2>1. Len(results) = 0
    BY DEF Init
  <2>2. QED
    BY <2>1, InsertingFinite, ScansFinite DEF RoomLeft
<1> QED
  BY <1>1, <1>2, <1>3 DEF Inv

-----------------------------------------------------------------------------
\* Steps that leave the rows alone and bring no scan to its insertion keep the
\* bound.
LEMMA QuietKeepsRoom ==
    ASSUME Inv, UNCHANGED results, Inserting' \subseteq Inserting
    PROVE  RoomLeft'
<1>1. IsFiniteSet(Inserting') /\ Cardinality(Inserting') <= Cardinality(Inserting)
        /\ Cardinality(Inserting') \in Nat
  <2>1. Inserting' \in SUBSET Inserting
    OBVIOUS
  <2>2. QED
    BY <2>1, InsertingFinite, FS_Subset, FS_CardinalityType
<1>2. Len(results) \in Nat
  BY LenProperties DEF Inv, TypeOK
<1>3. QED
  BY <1>1, <1>2, InsertingFinite, ScansFinite DEF Inv, RoomLeft

\* A step of one scan that only moves it on.
LEMMA ScanMoves ==
    ASSUME Inv, NEW s \in Scans, NEW r \in ScanState,
           scan' = [scan EXCEPT ![s] = r],
           r.pc # "commit", r.seen # <<>> => results # <<>>,
           UNCHANGED results
    PROVE  scan' \in [Scans -> ScanState] /\ SeenStays' /\ RoomLeft'
<1>1. scan' \in [Scans -> ScanState]
  BY DEF Inv, TypeOK
<1>2. SeenStays'
  BY DEF Inv, TypeOK, SeenStays
<1>3. Inserting' \subseteq Inserting
  BY DEF Inv, TypeOK, Inserting
<1> QED
  BY <1>1, <1>2, <1>3, QuietKeepsRoom

\* All but the scans' own state, for the steps that leave it alone.
Rest == <<cloud, posture, user, changes>>

LEMMA TypeRest ==
    ASSUME Inv, UNCHANGED Rest, status' \in Status \cup {"none"},
           results' \in Seq(Verdict), scan' \in [Scans -> ScanState],
           faults' \in 0..MaxFaults, cached' \in BOOLEAN
    PROVE  TypeOK'
  BY DEF Inv, TypeOK, Rest

\* An idle state in place of a scan's.
LEMMA EndKeeps ==
    ASSUME Inv, NEW s \in Scans, End(s), UNCHANGED results
    PROVE  scan' \in [Scans -> ScanState] /\ SeenStays' /\ RoomLeft'
<1>1. NoScan.pc # "commit" /\ NoScan.seen = <<>>
  BY DEF NoScan
<1>2. QED
  BY <1>1, NoScanType, ScanMoves DEF End

-----------------------------------------------------------------------------
LEMMA StepInv == Inv /\ [Next]_vars => Inv'
<1> SUFFICES ASSUME Inv, [Next]_vars PROVE Inv'
  OBVIOUS
<1> USE DEF Inv
<1>0. /\ scan \in [Scans -> ScanState] /\ results \in Seq(Verdict)
      /\ status \in Status \cup {"none"} /\ faults \in 0..MaxFaults
      /\ cached \in BOOLEAN
  BY DEF TypeOK
<1>1. ASSUME NEW s \in Scans, Start(s) PROVE Inv'
  <2> DEFINE r == [scan[s] EXCEPT !.pc = IF cloud = "gone" THEN "findings" ELSE "evaluate",
                                  !.fires = (cloud = "firing")]
  <2>1. r \in ScanState /\ r.pc # "commit" /\ r.seen = scan[s].seen
    BY <1>0 DEF ScanState
  <2>2. scan' = [scan EXCEPT ![s] = r]
    BY <1>0, <1>1 DEF Start
  <2> HIDE DEF r
  <2>3. scan' \in [Scans -> ScanState] /\ SeenStays' /\ RoomLeft'
    BY <1>1, <2>1, <2>2, ScanMoves DEF Start, SeenStays
  <2>4. QED
    BY <1>0, <1>1, <2>3, TypeRest DEF Start, Rest
<1>2. ASSUME CacheExpires PROVE Inv'
  <2>1. TypeOK'
    BY <1>2 DEF CacheExpires, TypeOK
  <2>2. Inserting' = Inserting
    BY <1>2 DEF CacheExpires, Inserting
  <2>3. RoomLeft'
    BY <1>2, <2>2, QuietKeepsRoom DEF CacheExpires
  <2>4. QED
    BY <1>2, <2>1, <2>3 DEF CacheExpires, SeenStays
<1>3. ASSUME NEW s \in Scans, Evaluate(s) PROVE Inv'
  <2> DEFINE r == [scan[s] EXCEPT !.pc = "read", !.fires = cached']
  <2>1. cached' \in BOOLEAN
    BY <1>0, <1>3 DEF Evaluate, TypeOK, ScanState
  <2>2. r \in ScanState /\ r.pc # "commit" /\ r.seen = scan[s].seen
    BY <1>0, <2>1 DEF ScanState
  <2>3. scan' = [scan EXCEPT ![s] = r]
    BY <1>0, <1>3 DEF Evaluate
  <2> HIDE DEF r
  <2>4. scan' \in [Scans -> ScanState] /\ SeenStays' /\ RoomLeft'
    BY <1>3, <2>2, <2>3, ScanMoves DEF Evaluate, SeenStays
  <2>5. QED
    BY <1>0, <1>3, <2>1, <2>4, TypeRest DEF Evaluate, Rest
<1>4. ASSUME NEW s \in Scans, EvaluationFails(s) PROVE Inv'
  <2> DEFINE r == [scan[s] EXCEPT !.pc = "read", !.fires = FALSE]
  <2>1. r \in ScanState /\ r.pc # "commit" /\ r.seen = scan[s].seen
    BY <1>0 DEF ScanState
  <2>2. scan' = [scan EXCEPT ![s] = r]
    BY <1>0, <1>4 DEF EvaluationFails
  <2> HIDE DEF r
  <2>3. scan' \in [Scans -> ScanState] /\ SeenStays' /\ RoomLeft'
    BY <1>4, <2>1, <2>2, ScanMoves DEF EvaluationFails, SeenStays
  <2>4. faults' \in 0..MaxFaults
    BY <1>0, <1>4, CspmAssumption DEF EvaluationFails
  <2>5. QED
    BY <1>0, <1>4, <2>3, <2>4, TypeRest DEF EvaluationFails, Rest
<1>5. ASSUME NEW s \in Scans, Read(s) PROVE Inv'
  <2> DEFINE r == [scan[s] EXCEPT !.pc = "write", !.view = status, !.posted = posture]
  <2>1. r \in ScanState /\ r.pc # "commit" /\ r.seen = scan[s].seen
    BY <1>0 DEF ScanState, TypeOK
  <2>2. scan' = [scan EXCEPT ![s] = r]
    BY <1>0, <1>5 DEF Read
  <2> HIDE DEF r
  <2>3. scan' \in [Scans -> ScanState] /\ SeenStays' /\ RoomLeft'
    BY <1>5, <2>1, <2>2, ScanMoves DEF Read, SeenStays
  <2>4. QED
    BY <1>0, <1>5, <2>3, TypeRest DEF Read, Rest
<1>6. ASSUME NEW s \in Scans, Write(s) PROVE Inv'
  <2> DEFINE r == [NoScan EXCEPT !.pc = "findings"]
  <2>1. r \in ScanState /\ r.pc # "commit" /\ r.seen = <<>>
    BY NoScanType DEF NoScan, ScanState
  <2>2. scan' = [scan EXCEPT ![s] = r]
    BY <1>6 DEF Write
  <2> HIDE DEF r
  <2>3. scan' \in [Scans -> ScanState] /\ SeenStays' /\ RoomLeft'
    BY <1>6, <2>1, <2>2, ScanMoves DEF Write
  <2>4. status' \in Status \cup {"none"}
    <3>1. scan[s].view \in Status \cup {"none"} /\ scan[s].fires \in BOOLEAN
      BY <1>0 DEF ScanState
    <3>2. QED
      BY <1>0, <1>6, <3>1, WrittenStatus DEF Write
  <2>5. QED
    BY <1>0, <1>6, <2>3, <2>4 DEF Write, TypeOK
<1>7. ASSUME NEW s \in Scans, WriteFails(s) PROVE Inv'
  BY <1>0, <1>7, EndKeeps, TypeRest DEF WriteFails, Rest
<1>8. ASSUME NEW s \in Scans, ReadFindings(s) PROVE Inv'
  <2> DEFINE r == [scan[s] EXCEPT !.pc = "result",
                                  !.verdict = IF status = "open" THEN "fail" ELSE "pass"]
  <2>1. r \in ScanState /\ r.pc # "commit" /\ r.seen = scan[s].seen
    BY <1>0 DEF ScanState, Verdict
  <2>2. scan' = [scan EXCEPT ![s] = r]
    BY <1>0, <1>8 DEF ReadFindings
  <2> HIDE DEF r
  <2>3. scan' \in [Scans -> ScanState] /\ SeenStays' /\ RoomLeft'
    BY <1>8, <2>1, <2>2, ScanMoves DEF ReadFindings, SeenStays
  <2>4. QED
    BY <1>0, <1>8, <2>3, TypeRest DEF ReadFindings, Rest
<1>9. ASSUME NEW s \in Scans, ReadResult(s) PROVE Inv'
  <2>1. CASE Len(results) > 1
    <3>1. End(s)
      BY <1>9, <2>1 DEF ReadResult, End
    <3>2. QED
      BY <1>0, <1>9, <3>1, EndKeeps, TypeRest DEF ReadResult, Rest
  <2>2. CASE ~(Len(results) > 1)
    <3> DEFINE r == [scan[s] EXCEPT !.pc = "commit", !.seen = results]
    <3>1. r \in ScanState /\ r.seen = results
      BY <1>0 DEF ScanState
    <3>2. scan' = [scan EXCEPT ![s] = r]
      BY <1>0, <1>9, <2>2 DEF ReadResult
    <3> HIDE DEF r
    <3>3. UNCHANGED results
      BY <1>9 DEF ReadResult
    <3>4. scan' \in [Scans -> ScanState] /\ SeenStays'
      BY <1>0, <3>1, <3>2, <3>3 DEF SeenStays
    <3>5. CASE results = <<>>
      <4>1. IsFiniteSet(Inserting') /\ Cardinality(Inserting') <= Cardinality(Scans)
              /\ Cardinality(Inserting') \in Nat
        <5>1. Inserting' \in SUBSET Scans
          BY DEF Inserting
        <5>2. QED
          BY <5>1, ScansFinite, FS_Subset, FS_CardinalityType
      <4>2. Len(results') = 0
        BY <3>3, <3>5
      <4>3. QED
        BY <1>0, <1>9, <3>4, <4>1, <4>2, ScansFinite, TypeRest
           DEF ReadResult, Rest, RoomLeft
    <3>6. CASE results # <<>>
      <4>1. Inserting' \subseteq Inserting
        BY <1>0, <3>1, <3>2, <3>6 DEF Inserting
      <4>2. RoomLeft'
        BY <3>3, <4>1, QuietKeepsRoom
      <4>3. QED
        BY <1>0, <1>9, <3>4, <4>2, TypeRest DEF ReadResult, Rest
    <3>7. QED
      BY <3>5, <3>6
  <2>3. QED
    BY <2>1, <2>2
<1>10. ASSUME NEW s \in Scans, CommitResult(s) PROVE Inv'
  <2>1. scan[s] \in ScanState /\ scan[s].seen \in Seq(Verdict) /\ scan[s].verdict \in Verdict
    BY <1>0 DEF ScanState
  <2>2. scan[s].seen # <<>> => results # <<>>
    BY DEF SeenStays
  <2>3. results' = Recorded(scan[s].seen, scan[s].verdict, results)
    BY <1>10 DEF CommitResult
  <2>4. /\ results' \in Seq(Verdict) /\ results' # <<>>
        /\ scan[s].seen = <<>> => Len(results') = Len(results) + 1
        /\ scan[s].seen # <<>> => Len(results') = Len(results)
    BY <1>0, <2>1, <2>2, <2>3, RecordedRows
  <2>5. scan' = [scan EXCEPT ![s] = NoScan] /\ scan' \in [Scans -> ScanState]
    BY <1>0, <1>10, NoScanType DEF CommitResult, End
  <2>6. SeenStays'
    BY <2>4 DEF SeenStays
  <2>7. Inserting' = Inserting \ {s}
    BY <1>0, <2>5 DEF Inserting, NoScan
  <2>8. Cardinality(Inserting') = IF s \in Inserting THEN Cardinality(Inserting) - 1
                                 ELSE Cardinality(Inserting)
    BY <2>7, InsertingFinite, FS_RemoveElement
  <2>9. s \in Inserting <=> scan[s].seen = <<>>
    BY <1>10 DEF Inserting, CommitResult, At
  <2>10. Len(results) \in Nat
    BY <1>0, LenProperties
  <2>11. RoomLeft'
    <3>1. CASE scan[s].seen = <<>>
      BY <2>4, <2>8, <2>9, <2>10, <3>1, InsertingFinite, ScansFinite DEF RoomLeft
    <3>2. CASE scan[s].seen # <<>>
      BY <2>4, <2>8, <2>9, <2>10, <3>2, InsertingFinite, ScansFinite DEF RoomLeft
    <3>3. QED
      BY <3>1, <3>2
  <2>12. QED
    BY <1>0, <1>10, <2>4, <2>5, <2>6, <2>11, TypeRest DEF CommitResult, Rest
<1>11. ASSUME NEW s \in Scans, Abort(s) PROVE Inv'
  <2>1. faults' \in 0..MaxFaults
    BY <1>0, <1>11, CspmAssumption DEF Abort
  <2>2. QED
    BY <1>0, <1>11, <2>1, EndKeeps, TypeRest DEF Abort, Rest
\* What leaves the scans alone: users, the resource, stuttering.
<1>12. ASSUME UNCHANGED <<scan, results>>, TypeOK' PROVE Inv'
  <2>1. Inserting' = Inserting
    BY <1>12 DEF Inserting
  <2>2. RoomLeft'
    BY <1>12, <2>1, QuietKeepsRoom
  <2>3. QED
    BY <1>12, <2>2 DEF SeenStays
<1>13. ASSUME NEW u \in Users, Request(u) PROVE Inv'
  <2>1. PICK t \in Status : user' = [user EXCEPT ![u] = IF t = status THEN "same" ELSE t]
    BY <1>13 DEF Request
  <2>2. user' \in [Users -> Requests]
    BY <2>1 DEF TypeOK, Requests
  <2>3. QED
    BY <1>12, <1>13, <2>2 DEF Request, TypeOK
<1>14. ASSUME NEW u \in Users, Commit(u) PROVE Inv'
  <2>1. user[u] \in Requests
    BY DEF TypeOK
  <2>2. status' \in Status \cup {"none"}
    BY <1>0, <1>14, <2>1 DEF Commit, Requests
  <2>3. user' \in [Users -> Requests]
    BY <1>14 DEF Commit, TypeOK, Requests
  <2>4. QED
    BY <1>12, <1>14, <2>2, <2>3 DEF Commit, TypeOK
<1>15. ASSUME Change PROVE Inv'
  <2>1. changes' \in 0..MaxChanges
    BY <1>15, CspmAssumption DEF Change, TypeOK
  <2>2. QED
    BY <1>12, <1>15, <2>1 DEF Change, TypeOK
<1>16. ASSUME Crash PROVE Inv'
  <2>1. scan' \in [Scans -> ScanState] /\ user' \in [Users -> Requests]
    BY <1>16, NoScanType DEF Crash, Requests
  <2>2. faults' \in 0..MaxFaults
    BY <1>0, <1>16, CspmAssumption DEF Crash
  <2>3. TypeOK'
    BY <1>16, <2>1, <2>2 DEF Crash, TypeOK
  <2>4. SeenStays'
    BY <1>16 DEF Crash, SeenStays, NoScan
  <2>5. Inserting' \subseteq Inserting
    BY <1>16 DEF Crash, Inserting, NoScan
  <2>6. QED
    BY <1>16, <2>3, <2>4, <2>5, QuietKeepsRoom DEF Crash
<1>17. CASE UNCHANGED vars
  BY <1>12, <1>17 DEF vars, TypeOK
<1>18. ASSUME List PROVE Inv'
  <2> DEFINE r == [scan[Scheduled] EXCEPT !.pc = "listed"]
  <2>1. r \in ScanState /\ r.pc # "commit" /\ r.seen = scan[Scheduled].seen
    BY <1>0 DEF ScanState, Scans
  <2>2. scan' = [scan EXCEPT ![Scheduled] = r]
    BY <1>0, <1>18 DEF List, Scans
  <2> HIDE DEF r
  <2>3. scan' \in [Scans -> ScanState] /\ SeenStays' /\ RoomLeft'
    BY <1>18, <2>1, <2>2, ScanMoves DEF List, SeenStays, Scans
  <2>4. QED
    BY <1>0, <1>18, <2>3, TypeRest DEF List, Rest
<1>19. QED
  BY <1>1, <1>2, <1>3, <1>4, <1>5, <1>6, <1>7, <1>8, <1>9, <1>10, <1>11, <1>13,
     <1>14, <1>15, <1>16, <1>17, <1>18 DEF Next, Proceed

\* Every reachable state has room left for the insertions that wait.
THEOREM InvHolds == Spec => []Inv
  BY InitInv, StepInv, PTL DEF Spec

\* The state of scans, users and rows keeps its type (scan_executor.py:144,
\* routes.py:215).
LEMMA TypeCorrect == Spec => []TypeOK
<1>1. Inv => TypeOK
  BY DEF Inv
<1>2. QED
  BY <1>1, InvHolds, PTL

\* A control gets at most one row per scan, however often scans run and
\* wherever they end (scan_executor.py:438).
LEMMA RowsAreBounded == Spec => []RowsBounded
<1>1. Inv => RowsBounded
  <2> SUFFICES ASSUME Inv PROVE RowsBounded
    OBVIOUS
  <2>1. Len(results) \in Nat
    BY LenProperties DEF Inv, TypeOK
  <2>2. QED
    BY <2>1, InsertingFinite, ScansFinite DEF Inv, RoomLeft, RowsBounded
<1>2. QED
  BY <1>1, InvHolds, PTL

\* Whatever scans overlap and wherever they end, the state keeps its type and
\* a control's rows do not pile up (scan_executor.py:438).
THEOREM StateIsOK == Spec => []StateOK
<1>1. TypeOK /\ RowsBounded => StateOK
  BY DEF StateOK
<1>2. QED
  BY <1>1, TypeCorrect, RowsAreBounded, PTL

\* A scan opens what was absent or resolved and resolves what was open; only the
\* commit of a scan that read an older status, or of a user, does anything else.
OnlyStaleScansStray ==
    [][ \/ <<status, status'>> \in {<<"none", "open">>, <<"resolved", "open">>,
                                    <<"open", "resolved">>, <<status, status>>}
        \/ \E s \in Scans : /\ scan[s].pc = "write" /\ scan[s].view # status
                            /\ scan'[s] # scan[s]
        \/ \E u \in Users : user[u] # "idle" /\ user'[u] = "idle" ]_vars

\* A scan moves the status only along its three edges unless what it read is
\* stale (scan_executor.py:297, 359).
LEMMA StepKeepsDecisions ==
    ASSUME Inv, [Next]_vars
    PROVE  \/ <<status, status'>> \in {<<"none", "open">>, <<"resolved", "open">>,
                                       <<"open", "resolved">>, <<status, status>>}
           \/ \E s \in Scans : /\ scan[s].pc = "write" /\ scan[s].view # status
                               /\ scan'[s] # scan[s]
           \/ \E u \in Users : user[u] # "idle" /\ user'[u] = "idle"
<1>1. ASSUME NEW s \in Scans, Write(s)
      PROVE  \/ <<status, status'>> \in {<<"none", "open">>, <<"resolved", "open">>,
                                         <<"open", "resolved">>, <<status, status>>}
             \/ scan[s].pc = "write" /\ scan[s].view # status /\ scan'[s] # scan[s]
  <2>1. scan[s].pc = "write" /\ scan'[s].pc = "findings"
    BY <1>1 DEF Write, At, NoScan, Inv, TypeOK
  <2>2. status' = Written(scan[s].view, scan[s].fires, status)
    BY <1>1 DEF Write
  <2>3. CASE scan[s].view = status
    BY <2>2, <2>3 DEF Written
  <2>4. QED
    BY <2>1, <2>3
<1>2. ASSUME NEW u \in Users, Commit(u) PROVE user[u] # "idle" /\ user'[u] = "idle"
  BY <1>2 DEF Commit, Inv, TypeOK
<1>3. CASE UNCHANGED status
  BY <1>3
<1>4. ASSUME NEW s \in Scans,
             \/ Start(s) \/ Evaluate(s) \/ Read(s) \/ WriteFails(s)
             \/ ReadFindings(s) \/ ReadResult(s) \/ CommitResult(s)
             \/ EvaluationFails(s) \/ Abort(s)
      PROVE  UNCHANGED status
  BY <1>4 DEF Start, Evaluate, Read, WriteFails, ReadFindings, ReadResult,
              CommitResult, EvaluationFails, Abort
<1>5. ASSUME NEW u \in Users, Request(u) PROVE UNCHANGED status
  BY <1>5 DEF Request
<1>6. CASE List \/ CacheExpires \/ Change \/ Crash \/ UNCHANGED vars
  BY <1>3, <1>6 DEF List, CacheExpires, Change, Crash, vars
<1>7. QED
  BY <1>1, <1>2, <1>3, <1>4, <1>5, <1>6 DEF Next, Proceed

\* The scans' own edges, for every instance.
THEOREM OnlyStaleScansStrayHolds == Spec => OnlyStaleScansStray
<1>1. Inv /\ [Next]_vars =>
        [ \/ <<status, status'>> \in {<<"none", "open">>, <<"resolved", "open">>,
                                      <<"open", "resolved">>, <<status, status>>}
          \/ \E s \in Scans : /\ scan[s].pc = "write" /\ scan[s].view # status
                              /\ scan'[s] # scan[s]
          \/ \E u \in Users : user[u] # "idle" /\ user'[u] = "idle" ]_vars
  BY StepKeepsDecisions
<1>2. QED
  BY <1>1, InvHolds, PTL DEF Spec, OnlyStaleScansStray

-----------------------------------------------------------------------------
(***************************************************************************)
(* What the overlap of two recordings costs.  A run shows that a verdict   *)
(* freezes once a control has two rows; here is that nothing else brings   *)
(* that about: if no two scans are ever between reading the control's row  *)
(* and committing it, the row is unique, and each scan that ends its       *)
(* recording leaves its own verdict in it, whatever else overlaps, fails   *)
(* or crashes.                                                             *)
(***************************************************************************)
OneRecorder == \A r, s \in Scans : At(r, "commit") /\ At(s, "commit") => r = s

OneRow == Len(results) <= 1

\* What a recording scan has seen is what there is.
SeenIsThere == \A s \in Scans : At(s, "commit") => scan[s].seen = results

VerdictsLand ==
    [][ \A s \in Scans : CommitResult(s) => results' = <<scan[s].verdict>> ]_vars

\* A recording made on what there is leaves one row, with the new verdict.
LEMMA RecordedOne ==
    ASSUME NEW now \in Seq(Verdict), NEW v \in Verdict, Len(now) <= 1
    PROVE  Recorded(now, v, now) = <<v>>
<1>1. CASE now = <<>>
  BY <1>1 DEF Recorded
<1>2. CASE now # <<>>
  <2>1. Len(now) = 1
    <3>1. Len(now) \in Nat /\ Len(now) <= 1
      BY LenProperties
    <3>2. Len(now) # 0
      BY <1>2, EmptySeq
    <3>3. \A n \in Nat : n <= 1 /\ n # 0 => n = 1
      OBVIOUS
    <3>4. QED
      BY <3>1, <3>2, <3>3
  <2>2. ASSUME NEW q \in Seq(Verdict), Len(q) = 1, q[1] = v PROVE q = <<v>>
    <3>1. <<v>> \in Seq(Verdict) /\ Len(<<v>>) = 1 /\ <<v>>[1] = v
      OBVIOUS
    <3>2. \A i \in 1..Len(q) : q[i] = <<v>>[i]
      BY <2>2, <3>1
    <3>3. QED
      BY <2>2, <3>1, <3>2, SeqEqual
  <2>3. /\ [now EXCEPT ![1] = v] \in Seq(Verdict)
        /\ Len([now EXCEPT ![1] = v]) = 1 /\ [now EXCEPT ![1] = v][1] = v
    BY <2>1, ExceptSeq
  <2>4. QED
    BY <1>2, <2>1, <2>2, <2>3 DEF Recorded
<1>3. QED
  BY <1>1, <1>2

\* The recording of a scan, with no other between its reading and its commit.
LEMMA Lands ==
    ASSUME TypeOK, OneRow, SeenIsThere, NEW s \in Scans, CommitResult(s)
    PROVE  results' = <<scan[s].verdict>>
<1>1. scan[s] \in ScanState /\ scan[s].verdict \in Verdict
  BY DEF TypeOK, ScanState
<1>2. results' = Recorded(results, scan[s].verdict, results)
  BY DEF CommitResult, SeenIsThere
<1>3. QED
  BY <1>1, <1>2, RecordedOne DEF TypeOK, OneRow

\* A step that records nothing brings at most one scan to its recording, and that
\* one has just read the row.
LEMMA OneRowStep ==
    ASSUME TypeOK, OneRecorder, OneRow, SeenIsThere, [Next]_vars
    PROVE  OneRow' /\ SeenIsThere'
<1>1. ASSUME NEW s \in Scans, CommitResult(s) PROVE OneRow' /\ SeenIsThere'
  <2>1. results' = <<scan[s].verdict>>
    BY <1>1, Lands
  <2>2. \A r \in Scans : ~(scan'[r].pc = "commit")
    BY <1>1 DEF CommitResult, End, At, NoScan, OneRecorder, TypeOK
  <2>3. QED
    BY <2>1, <2>2 DEF OneRow, SeenIsThere, At
<1>2. ASSUME NEW s \in Scans, ReadResult(s) PROVE OneRow' /\ SeenIsThere'
  BY <1>2 DEF ReadResult, At, NoScan, OneRow, SeenIsThere, TypeOK
\* The others leave the rows, and move no scan to its recording.
<1>3. ASSUME UNCHANGED results,
             \A s \in Scans : scan'[s].pc = "commit" => scan'[s] = scan[s]
      PROVE  OneRow' /\ SeenIsThere'
  BY <1>3 DEF OneRow, SeenIsThere, At
<1>4. ASSUME NEW s \in Scans, Start(s) \/ Evaluate(s) \/ EvaluationFails(s) \/ Read(s)
      PROVE  OneRow' /\ SeenIsThere'
  <2>1. \A r \in Scans : r # s => scan'[r] = scan[r]
    BY <1>4 DEF Start, Evaluate, EvaluationFails, Read, TypeOK
  <2>2. scan'[s].pc # "commit"
    BY <1>4 DEF Start, Evaluate, EvaluationFails, Read, TypeOK, ScanState
  <2>3. UNCHANGED results
    BY <1>4 DEF Start, Evaluate, EvaluationFails, Read
  <2>4. QED
    BY <1>3, <2>1, <2>2, <2>3
<1>5. ASSUME NEW s \in Scans, Write(s) \/ WriteFails(s) \/ ReadFindings(s) \/ Abort(s)
      PROVE  OneRow' /\ SeenIsThere'
  <2>1. \A r \in Scans : r # s => scan'[r] = scan[r]
    BY <1>5 DEF Write, WriteFails, ReadFindings, Abort, End, TypeOK
  <2>2. scan'[s].pc # "commit"
    BY <1>5 DEF Write, WriteFails, ReadFindings, Abort, End, NoScan, TypeOK, ScanState
  <2>3. UNCHANGED results
    BY <1>5 DEF Write, WriteFails, ReadFindings, Abort
  <2>4. QED
    BY <1>3, <2>1, <2>2, <2>3
<1>6. CASE \E u \in Users : Request(u) \/ Commit(u)
  BY <1>3, <1>6 DEF Request, Commit
<1>7. CASE CacheExpires \/ Change \/ UNCHANGED vars
  BY <1>3, <1>7 DEF CacheExpires, Change, vars
<1>8. CASE Crash
  BY <1>3, <1>8 DEF Crash, NoScan
<1>9. CASE List
  <2>1. \A r \in Scans : r # Scheduled => scan'[r] = scan[r]
    BY <1>9 DEF List, TypeOK
  <2>2. scan'[Scheduled].pc # "commit"
    BY <1>9 DEF List, TypeOK, ScanState, Scans
  <2>3. UNCHANGED results
    BY <1>9 DEF List
  <2>4. QED
    BY <1>3, <2>1, <2>2, <2>3
<1>10. QED
  BY <1>1, <1>2, <1>4, <1>5, <1>6, <1>7, <1>8, <1>9 DEF Next, Proceed

\* Two rows, and with them a frozen verdict, need two scans in the one window
\* between the SELECT of the row and its commit (scan_executor.py:438).
THEOREM OneRowWithoutOverlap == Spec /\ []OneRecorder => [](OneRow /\ SeenIsThere)
<1>1. Init => OneRow /\ SeenIsThere
  BY DEF Init, OneRow, SeenIsThere, At, NoScan
<1>2. TypeOK /\ OneRecorder /\ (OneRow /\ SeenIsThere) /\ [Next]_vars
        => (OneRow /\ SeenIsThere)'
  BY OneRowStep
<1>3. QED
  BY <1>1, <1>2, TypeCorrect, PTL DEF Spec

\* Without that overlap, the verdict of a scan is what its commit leaves
\* (scan_executor.py:421-454), users and other scans notwithstanding.
THEOREM VerdictsLandWithoutOverlap == Spec /\ []OneRecorder => VerdictsLand
<1>1. TypeOK /\ (OneRow /\ SeenIsThere) /\ [Next]_vars
        => [ \A s \in Scans : CommitResult(s) => results' = <<scan[s].verdict>> ]_vars
  BY Lands
<1>2. QED
  BY <1>1, TypeCorrect, OneRowWithoutOverlap, PTL DEF Spec, VerdictsLand

-----------------------------------------------------------------------------
\* ~~~ Each step is a step of DecidedStatus, or none ~~~

DecidedVars == <<status, Judgements, Wishes>>
DecidedStep == Decided!Next \/ UNCHANGED DecidedVars

LEMMA OneJudgement ==
    ASSUME TypeOK, NEW s \in Scans, NEW r, scan' = [scan EXCEPT ![s] = r]
    PROVE  Judgements' = [Judgements EXCEPT ![s] = Judgement(r)]
<1>1. scan'[s] = r /\ \A x \in Scans : x # s => scan'[x] = scan[x]
  BY DEF TypeOK
<1>2. \A x \in Scans : Judgement(scan[x])' = Judgement(scan'[x])
  BY DEF Judgement
<1>3. Judgements' = [x \in Scans |-> Judgement(scan'[x])]
  BY <1>2 DEF Judgements
<1>4. [Judgements EXCEPT ![s] = Judgement(r)]
        = [x \in Scans |-> IF x = s THEN Judgement(r) ELSE Judgement(scan[x])]
  BY DEF Judgements
<1>5. QED
  BY <1>1, <1>3, <1>4

LEMMA OneWish ==
    ASSUME TypeOK, NEW u \in Users, NEW r, user' = [user EXCEPT ![u] = r]
    PROVE  Wishes' = [Wishes EXCEPT ![u] = Wish(r)]
<1>1. user'[u] = r /\ \A x \in Users : x # u => user'[x] = user[x]
  BY DEF TypeOK
<1>2. \A x \in Users : Wish(user[x])' = Wish(user'[x])
  BY DEF Wish
<1>3. Wishes' = [x \in Users |-> Wish(user'[x])]
  BY <1>2 DEF Wishes
<1>4. [Wishes EXCEPT ![u] = Wish(r)]
        = [x \in Users |-> IF x = u THEN Wish(r) ELSE Wish(user[x])]
  BY DEF Wishes
<1>5. QED
  BY <1>1, <1>3, <1>4

LEMMA JudgementOf ==
    ASSUME NEW s \in Scans
    PROVE  Judgements[s] = Judgement(scan[s])
  BY DEF Judgements

\* A scan decides only between reading the finding and the commit.
LEMMA Undecided ==
    ASSUME NEW k, k.pc # "write"
    PROVE  Judgement(k) = "nothing"
  BY DEF Judgement

LEMMA SameJudgements == UNCHANGED scan => UNCHANGED Judgements
  BY DEF Judgements

LEMMA SameWishes == UNCHANGED user => UNCHANGED Wishes
  BY DEF Wishes

\* Whoever decides nothing, and decided nothing, changes nothing.
LEMMA KeptJudgement ==
    ASSUME NEW s \in Scans, NEW what, Judgements[s] = what
    PROVE  [Judgements EXCEPT ![s] = what] = Judgements
<1>1. Judgements = [x \in Scans |-> Judgements[x]]
  BY DEF Judgements
<1>2. QED
  BY <1>1

LEMMA KeptWish ==
    ASSUME NEW u \in Users, NEW what, Wishes[u] = what
    PROVE  [Wishes EXCEPT ![u] = what] = Wishes
<1>1. Wishes = [x \in Users |-> Wishes[x]]
  BY DEF Wishes
<1>2. QED
  BY <1>1

\* A scan decides where it reads the finding (scan_executor.py:297).
LEMMA ReadDecided ==
    ASSUME Inv, NEW s \in Scans, Read(s)
    PROVE  DecidedStep
<1>1. scan[s].pc = "read" /\ scan[s] \in ScanState /\ TypeOK
  BY DEF Read, At, Inv, TypeOK
<1> DEFINE r == [scan[s] EXCEPT !.pc = "write", !.view = status, !.posted = posture]
<1>2. r.pc = "write" /\ r.view = status /\ r.fires = scan[s].fires
  BY <1>1 DEF ScanState
<1>3. scan' = [scan EXCEPT ![s] = r]
  BY <1>1 DEF Read, TypeOK
<1> HIDE DEF r
<1>4. Judgements' = [Judgements EXCEPT ![s] = Judgement(r)] /\ UNCHANGED <<status, Wishes>>
  BY <1>1, <1>3, OneJudgement, SameWishes DEF Read
<1>5. Judgements[s] = "nothing"
  BY <1>1, JudgementOf, Undecided
<1>6. CASE Judgement(r) = "nothing"
  BY <1>4, <1>5, <1>6, KeptJudgement DEF DecidedStep, DecidedVars
<1>7. CASE Judgement(r) # "nothing"
  <2>1. /\ Judgement(r) \in {"report", "open", "resolved"}
        /\ Judgement(r) = "report" => status = "none"
        /\ Judgement(r) = "open" => status = "resolved"
        /\ Judgement(r) = "resolved" => status = "open"
    BY <1>2, <1>7 DEF Judgement
  <2>2. Decided!Judge(s)
    BY <1>4, <1>5, <2>1 DEF Decided!Judge
  <2>3. QED
    BY <2>2 DEF DecidedStep, Decided!Next
<1>8. QED
  BY <1>6, <1>7

\* The commit of its batch does what was decided (scan_executor.py:359).
LEMMA WriteDecided ==
    ASSUME Inv, NEW s \in Scans, Write(s)
    PROVE  DecidedStep
<1>1. /\ scan[s].pc = "write" /\ scan[s] \in ScanState /\ TypeOK
      /\ scan[s].fires /\ scan[s].view = "none" => status = "none"
      /\ status' = Written(scan[s].view, scan[s].fires, status)
      /\ scan' = [scan EXCEPT ![s] = [NoScan EXCEPT !.pc = "findings"]]
  BY DEF Write, At, Collides, Inv, TypeOK
<1>2. Judgement([NoScan EXCEPT !.pc = "findings"]) = "nothing"
  BY DEF Judgement, NoScan
<1>3. Judgements' = [Judgements EXCEPT ![s] = "nothing"] /\ UNCHANGED Wishes
  BY <1>1, <1>2, OneJudgement, SameWishes DEF Write
<1>4. Judgements[s] = Judgement(scan[s])
  BY JudgementOf
<1>5. CASE Judgements[s] = "nothing"
  <2>1. status' = status
    BY <1>1, <1>4, <1>5 DEF Judgement, Written
  <2>2. QED
    BY <1>3, <1>5, <2>1, KeptJudgement DEF DecidedStep, DecidedVars
<1>6. CASE Judgements[s] # "nothing"
  <2>1. \/ Judgements[s] = "report" /\ status = "none" /\ status' = "open"
        \/ Judgements[s] \in {"open", "resolved"} /\ status' = Judgements[s]
    BY <1>1, <1>4, <1>6 DEF Judgement, Written
  <2>2. Decided!Apply(s)
    BY <1>3, <2>1 DEF Decided!Apply
  <2>3. QED
    BY <2>2 DEF DecidedStep, Decided!Next
<1>7. QED
  BY <1>5, <1>6

\* A scan that fails, or is over, decides nothing any more.
LEMMA DropDecided ==
    ASSUME UNCHANGED status,
           \E scans \in SUBSET Scans, users \in SUBSET Users :
             /\ Judgements' = [s \in Scans |-> IF s \in scans THEN "nothing" ELSE Judgements[s]]
             /\ Wishes' = [u \in Users |-> IF u \in users THEN "nothing" ELSE Wishes[u]]
    PROVE  DecidedStep
  BY DEF Decided!Drop, DecidedStep, Decided!Next

LEMMA EndDecided ==
    ASSUME Inv, NEW s \in Scans, End(s), UNCHANGED <<status, user>>
    PROVE  DecidedStep
<1>1. Judgement(NoScan) = "nothing"
  BY DEF Judgement, NoScan
<1>2. Judgements' = [Judgements EXCEPT ![s] = "nothing"] /\ UNCHANGED Wishes
  BY <1>1, OneJudgement, SameWishes DEF End, Inv
<1>3. Judgements' = [x \in Scans |-> IF x \in {s} THEN "nothing" ELSE Judgements[x]]
  BY <1>2 DEF Judgements
<1>4. Wishes' = [u \in Users |-> IF u \in {} THEN "nothing" ELSE Wishes[u]]
  BY <1>2 DEF Wishes
<1>5. {s} \in SUBSET Scans /\ {} \in SUBSET Users
  OBVIOUS
<1>6. QED
  BY <1>3, <1>4, <1>5, DropDecided

\* The other steps of a scan are before the reading or after the commit.
LEMMA QuietDecided ==
    ASSUME Inv, NEW s \in Scans,
           \/ Start(s) \/ Evaluate(s) \/ EvaluationFails(s)
           \/ ReadFindings(s) \/ ReadResult(s)
    PROVE  DecidedStep
<1>0. TypeOK /\ scan[s] \in ScanState
  BY DEF Inv, TypeOK
<1>1. scan[s].pc # "write" /\ UNCHANGED <<status, user>>
  BY DEF Start, Evaluate, EvaluationFails, ReadFindings, ReadResult, At
<1>2. PICK r : scan' = [scan EXCEPT ![s] = r] /\ r.pc # "write"
  <2>1. CASE Start(s)
    <3> DEFINE r == [scan[s] EXCEPT !.pc = IF cloud = "gone" THEN "findings" ELSE "evaluate",
                                    !.fires = (cloud = "firing")]
    <3>1. r.pc # "write" /\ scan' = [scan EXCEPT ![s] = r]
      BY <1>0, <2>1 DEF Start, ScanState, TypeOK
    <3>2. QED
      BY <3>1
  <2>2. CASE Evaluate(s) \/ EvaluationFails(s)
    <3>1. PICK f : scan' = [scan EXCEPT ![s] = [scan[s] EXCEPT !.pc = "read", !.fires = f]]
      BY <1>0, <2>2 DEF Evaluate, EvaluationFails, TypeOK
    <3>2. [scan[s] EXCEPT !.pc = "read", !.fires = f].pc # "write"
      BY <1>0 DEF ScanState
    <3>3. QED
      BY <3>1, <3>2
  <2>3. CASE ReadFindings(s)
    <3>1. PICK v : scan' = [scan EXCEPT ![s] = [scan[s] EXCEPT !.pc = "result", !.verdict = v]]
      BY <1>0, <2>3 DEF ReadFindings, TypeOK
    <3>2. [scan[s] EXCEPT !.pc = "result", !.verdict = v].pc # "write"
      BY <1>0 DEF ScanState
    <3>3. QED
      BY <3>1, <3>2
  <2>4. CASE ReadResult(s)
    <3>1. CASE Len(results) > 1
      <4>1. scan' = [scan EXCEPT ![s] = NoScan] /\ NoScan.pc # "write"
        BY <2>4, <3>1 DEF ReadResult, NoScan
      <4>2. QED
        BY <4>1
    <3>2. CASE ~(Len(results) > 1)
      <4> DEFINE r == [scan[s] EXCEPT !.pc = "commit", !.seen = results]
      <4>1. r.pc # "write" /\ scan' = [scan EXCEPT ![s] = r]
        BY <1>0, <2>4, <3>2 DEF ReadResult, ScanState
      <4>2. QED
        BY <4>1
    <3>3. QED
      BY <3>1, <3>2
  <2>5. QED
    BY <2>1, <2>2, <2>3, <2>4
<1>3. Judgement(r) = "nothing" /\ Judgements[s] = "nothing"
  BY <1>1, <1>2, JudgementOf, Undecided
<1>4. UNCHANGED <<Judgements, Wishes>>
  BY <1>0, <1>1, <1>2, <1>3, OneJudgement, KeptJudgement, SameWishes
<1>5. QED
  BY <1>1, <1>4 DEF DecidedStep, DecidedVars

\* Users: a request that changes nothing asks for nothing (routes.py: update_finding_status).
LEMMA UserDecided ==
    ASSUME Inv, NEW u \in Users, Request(u) \/ Commit(u)
    PROVE  DecidedStep
<1>0. /\ TypeOK /\ UNCHANGED scan /\ UNCHANGED Judgements
      /\ "idle" \notin Status /\ "same" \notin Status /\ "nothing" \notin Status
  BY SameJudgements DEF Inv, Request, Commit, Status
<1>1. Wishes[u] = Wish(user[u])
  BY DEF Wishes
<1>2. CASE Request(u)
  <2>1. PICK t \in Status :
          user' = [user EXCEPT ![u] = IF t = status THEN "same" ELSE t]
    BY <1>2 DEF Request
  <2>2. Wishes[u] = "nothing" /\ UNCHANGED status /\ status # "none"
    BY <1>0, <1>1, <1>2 DEF Request, Wish
  <2>3. CASE t = status
    <3>1. Wish("same") = "nothing"
      BY <1>0 DEF Wish
    <3>2. Wishes' = [Wishes EXCEPT ![u] = "nothing"]
      BY <1>0, <2>1, <2>3, <3>1, OneWish
    <3>3. QED
      BY <1>0, <2>2, <3>2, KeptWish DEF DecidedStep, DecidedVars
  <2>4. CASE t # status
    <3>1. Wishes' = [Wishes EXCEPT ![u] = t]
      BY <1>0, <2>1, <2>4, OneWish DEF Wish
    <3>2. Decided!Ask(u)
      BY <1>0, <2>2, <2>4, <3>1 DEF Decided!Ask
    <3>3. QED
      BY <3>2 DEF DecidedStep, Decided!Next
  <2>5. QED
    BY <2>3, <2>4
<1>3. CASE Commit(u)
  <2>1. Wish("idle") = "nothing"
    BY <1>0 DEF Wish
  <2>2. Wishes' = [Wishes EXCEPT ![u] = "nothing"]
    BY <1>0, <1>3, <2>1, OneWish DEF Commit
  <2>3. CASE user[u] = "same"
    <3>1. Wishes[u] = "nothing" /\ UNCHANGED status
      BY <1>0, <1>1, <1>3, <2>3 DEF Commit, Wish
    <3>2. QED
      BY <1>0, <2>2, <3>1, KeptWish DEF DecidedStep, DecidedVars
  <2>4. CASE user[u] # "same"
    <3>1. user[u] \in Status /\ status' = user[u]
      BY <1>0, <1>3, <2>4 DEF Commit, TypeOK, Requests
    <3>2. Wishes[u] # "nothing" /\ status' = Wishes[u]
      BY <1>0, <1>1, <3>1 DEF Wish
    <3>3. Decided!Answer(u)
      BY <1>0, <2>2, <3>2 DEF Decided!Answer
    <3>4. QED
      BY <3>3 DEF DecidedStep, Decided!Next
  <2>5. QED
    BY <2>3, <2>4
<1>4. QED
  BY <1>2, <1>3

LEMMA ListDecided == Inv /\ List => DecidedStep
<1> SUFFICES ASSUME Inv, List PROVE DecidedStep
  OBVIOUS
<1> DEFINE r == [scan[Scheduled] EXCEPT !.pc = "listed"]
<1>0. TypeOK /\ Scheduled \in Scans /\ scan[Scheduled] \in ScanState
  BY DEF Inv, TypeOK, Scans
<1>1. scan[Scheduled].pc # "write" /\ UNCHANGED <<status, user>>
  BY DEF List, At
<1>2. scan' = [scan EXCEPT ![Scheduled] = r] /\ r.pc # "write"
  BY <1>0 DEF List, ScanState, TypeOK
<1> HIDE DEF r
<1>3. Judgement(r) = "nothing" /\ Judgements[Scheduled] = "nothing"
  BY <1>0, <1>1, <1>2, JudgementOf, Undecided
<1>4. UNCHANGED <<Judgements, Wishes>>
  BY <1>0, <1>1, <1>2, <1>3, OneJudgement, KeptJudgement, SameWishes
<1>5. QED
  BY <1>1, <1>4 DEF DecidedStep, DecidedVars

LEMMA StepDecided == Inv /\ [Next]_vars => DecidedStep
<1>1. SUFFICES ASSUME Inv, [Next]_vars PROVE DecidedStep
  OBVIOUS
<1>2. ASSUME NEW s \in Scans, WriteFails(s) \/ CommitResult(s) \/ Abort(s)
      PROVE  DecidedStep
  BY <1>1, <1>2, EndDecided DEF WriteFails, CommitResult, Abort
<1>3. CASE Crash
  <2>1. Judgement(NoScan) = "nothing" /\ Wish("idle") = "nothing"
    BY DEF Judgement, NoScan, Wish, Status
  <2>2. Judgements' = [s \in Scans |-> "nothing"] /\ Wishes' = [u \in Users |-> "nothing"]
    BY <1>3, <2>1 DEF Crash, Judgements, Wishes
  <2>3. /\ Judgements' = [s \in Scans |-> IF s \in Scans THEN "nothing" ELSE Judgements[s]]
        /\ Wishes' = [u \in Users |-> IF u \in Users THEN "nothing" ELSE Wishes[u]]
    BY <2>2
  <2>4. Scans \in SUBSET Scans /\ Users \in SUBSET Users
    OBVIOUS
  <2>5. QED
    BY <1>3, <2>3, <2>4, DropDecided DEF Crash
<1>4. CASE CacheExpires \/ Change \/ UNCHANGED vars
  BY <1>4, SameJudgements, SameWishes
     DEF CacheExpires, Change, vars, DecidedStep, DecidedVars
<1>5. QED
  BY <1>1, <1>2, <1>3, <1>4, ReadDecided, WriteDecided, QuietDecided, UserDecided, ListDecided
     DEF Next, Proceed

\* However many scans and users overlap, every status written follows from one
\* that was read, and a finding is inserted once (scan_executor.py:297, 359).
THEOREM DecisionsAreKept == Spec => DecisionsKept
<1>1. Init => Decided!Init
  <2>1. Judgement(NoScan) = "nothing" /\ Wish("idle") = "nothing"
    BY DEF Judgement, NoScan, Wish, Status
  <2>2. QED
    BY <2>1 DEF Init, Decided!Init, Judgements, Wishes
<1>2. Inv /\ [Next]_vars => [Decided!Next]_DecidedVars
  BY StepDecided DEF DecidedStep
<1>3. QED
  BY <1>1, <1>2, InvHolds, PTL
     DEF Spec, DecisionsKept, Decided!Spec, Decided!vars, DecidedVars

-----------------------------------------------------------------------------
(***************************************************************************)
(* Liveness.  What is true of each of finitely many things from some time  *)
(* on is true of all of them from some time on.  The proof is an induction *)
(* over the set, which is out of the provers' reach, so that the instances *)
(* of this law that are needed are stated as premises.                     *)
(* Two scans collide only over a row that is inserted meanwhile: a         *)
(* resource gets its posture once and its finding once, so that the        *)
(* scheduled scan gets through.                                            *)
(***************************************************************************)
FaultsPassTogether ==
    (\A n \in 0..MaxFaults : <>[](faults # n)) => <>[](\A n \in 0..MaxFaults : faults # n)

\* A step has a fault or it has none.
LEMMA FaultsCount == [Next]_vars => faults' = faults \/ (faults < MaxFaults /\ faults' = faults + 1)
<1> SUFFICES ASSUME [Next]_vars
             PROVE  faults' = faults \/ (faults < MaxFaults /\ faults' = faults + 1)
  OBVIOUS
<1>1. ASSUME NEW s \in Scans, Start(s) \/ Proceed(s) PROVE faults' = faults
  BY <1>1 DEF Start, Proceed, Evaluate, Read, Write, WriteFails, ReadFindings, ReadResult,
              CommitResult
<1>2. ASSUME NEW s \in Scans, EvaluationFails(s) \/ Abort(s)
      PROVE  faults < MaxFaults /\ faults' = faults + 1
  BY <1>2 DEF EvaluationFails, Abort
<1>3. ASSUME NEW u \in Users, Request(u) \/ Commit(u) PROVE faults' = faults
  BY <1>3 DEF Request, Commit
<1>4. CASE Crash
  BY <1>4 DEF Crash
<1>5. CASE List \/ CacheExpires \/ Change \/ UNCHANGED vars
  BY <1>5 DEF List, CacheExpires, Change, vars
<1>6. QED
  BY <1>1, <1>2, <1>3, <1>4, <1>5 DEF Next

FaultsCease == <>[][faults' = faults]_vars
FaultsPass(n) == <>[](faults # n)
NoFaultCount == \A n \in 0..MaxFaults : faults # n

\* Faults are counted and bounded, so that they cease: a count that is passed
\* again and again is left for good, and there are finitely many.
LEMMA FaultsDoCease == Spec /\ FaultsPassTogether => FaultsCease
<1> DEFINE Past(n) == faults > n
<1>1. Spec => []TypeOK /\ [][Next]_vars
  BY InvHolds, PTL DEF Inv, Spec
<1>2. MaxFaults \in Nat /\ (TypeOK => faults \in 0..MaxFaults)
  BY CspmAssumption DEF TypeOK
<1>3. ASSUME NEW n \in 0..MaxFaults PROVE Spec /\ ~FaultsCease => FaultsPass(n)
  <2>1. TypeOK /\ ~(faults # n) /\ [Next]_vars /\ ~[faults' = faults]_vars => Past(n)'
    BY <1>2, FaultsCount
  <2>2. TypeOK /\ ~(faults # n) /\ [Next]_vars => Past(n)' \/ ~(faults # n)'
    BY <1>2, FaultsCount
  <2>3. TypeOK /\ Past(n) /\ [Next]_vars => Past(n)'
    BY <1>2, FaultsCount
  <2>4. TypeOK /\ Past(n) => faults # n
    BY <1>2
  <2>5. QED
    BY <1>1, <2>1, <2>2, <2>3, <2>4, PTL DEF FaultsCease, FaultsPass
<1>4. Spec /\ FaultsPassTogether /\ ~FaultsCease => <>[]NoFaultCount
  <2>1. FaultsPassTogether /\ (\A n \in 0..MaxFaults : FaultsPass(n)) => <>[]NoFaultCount
    BY DEF FaultsPassTogether, FaultsPass, NoFaultCount
  <2>2. QED
    BY <1>3, <2>1
<1>5. TypeOK => ~NoFaultCount
  BY <1>2 DEF NoFaultCount
<1>6. QED
  BY <1>1, <1>4, <1>5, PTL

\* A scan begins, the scheduled one when its round comes to the organization.
Begin(s) == Start(s) \/ (s = Scheduled /\ List)

\* The scan a step is about moves, and only that one; Scheduled moves by its own
\* steps only unless something fails.
LEMMA ScanSteps ==
    ASSUME Inv, [Next]_vars, faults' = faults, NEW s \in Scans
    PROVE  Begin(s) \/ Proceed(s) \/ scan'[s] = scan[s]
<1>0. scan \in [Scans -> ScanState] /\ faults' # faults + 1
  BY CspmAssumption DEF Inv, TypeOK
<1>1. ASSUME NEW r \in Scans, Start(r) \/ Proceed(r) PROVE r = s \/ scan'[s] = scan[s]
  BY <1>0, <1>1 DEF Start, Proceed, Evaluate, Read, Write, WriteFails, ReadFindings, ReadResult,
                    CommitResult, End
<1>2. ASSUME NEW u \in Users, Request(u) \/ Commit(u) PROVE scan' = scan
  BY <1>2 DEF Request, Commit
<1>3. CASE CacheExpires \/ Change \/ UNCHANGED vars
  BY <1>3 DEF CacheExpires, Change, vars
<1>4. CASE List
  BY <1>0, <1>4 DEF List, Begin
<1>5. QED
  BY <1>0, <1>1, <1>2, <1>3, <1>4 DEF Next, EvaluationFails, Abort, Crash, Begin

\* Rows are not taken away.
LEMMA RowsStay ==
    ASSUME Inv, [Next]_vars
    PROVE  /\ posture => posture'
           /\ status # "none" => status' # "none"
<1>1. ASSUME NEW s \in Scans, Start(s) \/ Proceed(s) \/ EvaluationFails(s) \/ Abort(s)
      PROVE  /\ posture => posture'
             /\ status # "none" => status' # "none"
  <2>1. CASE Write(s)
    BY <2>1 DEF Write, Written
  <2>2. CASE ~Write(s)
    BY <1>1, <2>2 DEF Start, Proceed, Evaluate, Read, WriteFails, ReadFindings, ReadResult,
                      CommitResult, EvaluationFails, Abort
  <2>3. QED
    BY <2>1, <2>2
<1>2. ASSUME NEW u \in Users, Request(u) \/ Commit(u)
      PROVE  posture' = posture /\ (status # "none" => status' # "none")
  BY <1>2 DEF Request, Commit, Inv, TypeOK, Requests, Status
<1>3. CASE List \/ CacheExpires \/ Change \/ Crash \/ UNCHANGED vars
  BY <1>3 DEF List, CacheExpires, Change, Crash, vars
<1>4. QED
  BY <1>1, <1>2, <1>3 DEF Next

\* Where a scan goes on to.
Onwards == [evaluate |-> {"read"}, read |-> {"write"}, write |-> {"findings", "idle"},
            findings |-> {"result"}, result |-> {"commit", "idle"}, commit |-> {"idle"}]

LEMMA ProceedGoes ==
    ASSUME Inv, NEW s \in Scans, Proceed(s)
    PROVE  /\ scan[s].pc \in DOMAIN Onwards
           /\ scan'[s].pc # scan[s].pc
           /\ scan'[s].pc \in Onwards[scan[s].pc]
           /\ scan[s].pc = "write" /\ ~Collides(s) => scan'[s].pc = "findings"
           /\ scan[s].pc = "result" /\ ~(Len(results) > 1) => scan'[s].pc = "commit"
           /\ scan[s].pc = "evaluate" => scan'[s].fires = (cached \/ scan[s].fires)
           /\ scan[s].pc = "read" => /\ scan'[s].fires = scan[s].fires
                                     /\ scan'[s].view = status /\ scan'[s].posted = posture
           /\ scan[s].pc = "write" /\ ~Collides(s) =>
                status' = Written(scan[s].view, scan[s].fires, status)
           /\ scan[s].pc = "findings" =>
                scan'[s].verdict = IF status = "open" THEN "fail" ELSE "pass"
           /\ scan[s].pc = "result" /\ ~(Len(results) > 1) =>
                scan'[s].verdict = scan[s].verdict /\ scan'[s].seen = results
           /\ scan[s].pc = "commit" =>
                results' = Recorded(scan[s].seen, scan[s].verdict, results)
<1>0. scan \in [Scans -> ScanState]
  BY DEF Inv, TypeOK
<1>1. CASE Evaluate(s)
  BY <1>0, <1>1 DEF Evaluate, At, ScanState, Onwards
<1>2. CASE Read(s)
  BY <1>0, <1>2 DEF Read, At, ScanState, Onwards
<1>3. CASE Write(s)
  BY <1>0, <1>3 DEF Write, At, NoScan, Onwards
<1>4. CASE WriteFails(s)
  BY <1>0, <1>4 DEF WriteFails, At, End, NoScan, Onwards
<1>5. CASE ReadFindings(s)
  BY <1>0, <1>5 DEF ReadFindings, At, ScanState, Onwards
<1>6. CASE ReadResult(s)
  <2>1. scan[s].pc = "result" /\ scan' = [scan EXCEPT ![s] = IF Len(results) > 1 THEN NoScan
                                   ELSE [@ EXCEPT !.pc = "commit", !.seen = results]]
    BY <1>6 DEF ReadResult, At
  <2>2. CASE Len(results) > 1
    BY <1>0, <2>1, <2>2 DEF NoScan, Onwards
  <2>3. CASE ~(Len(results) > 1)
    BY <1>0, <2>1, <2>3 DEF ScanState, Onwards
  <2>4. QED
    BY <2>2, <2>3
<1>7. CASE CommitResult(s)
  BY <1>0, <1>7 DEF CommitResult, At, End, NoScan, Onwards
<1>8. QED
  BY <1>1, <1>2, <1>3, <1>4, <1>5, <1>6, <1>7 DEF Proceed

LEMMA BeginGoes ==
    ASSUME Inv, NEW s \in Scans, Begin(s)
    PROVE  /\ scan[s].pc \in {"idle", "listed"}
           /\ scan'[s].pc \in {"listed", "evaluate", "findings"}
           /\ scan'[s].pc = "evaluate" => scan'[s].fires = (cloud = "firing")
           /\ s = Scheduled /\ scan[s].pc = "idle" => scan'[s].pc = "listed"
           /\ scan[s].pc = "listed" => scan'[s].pc \in {"evaluate", "findings"}
           /\ scan[s].pc = "listed" /\ cloud # "gone" => scan'[s].pc = "evaluate"
<1>1. CASE Start(s)
  BY <1>1 DEF Start, At, Inv, TypeOK, ScanState
<1>2. CASE s = Scheduled /\ List
  BY <1>2 DEF List, At, Inv, TypeOK, ScanState
<1>3. QED
  BY <1>1, <1>2 DEF Begin

-----------------------------------------------------------------------------
\* What holds from the last fault on.
Calm ==
    /\ [][Next]_vars /\ [][faults' = faults]_vars /\ []Inv /\ []ScansGoOn
    /\ WF_vars(List) /\ WF_vars(Start(Scheduled)) /\ ProceedIsFair(Scheduled)
    /\ WF_vars(CacheExpires)

LEMMA ScheduledScans == Scheduled \in Scans
  BY DEF Scans

\* ~~~ The scheduled scan goes on ~~~
Pc == scan[Scheduled].pc
Leaves(x) == Pc = x ~> Pc \in Onwards[x]

LEMMA PlacesAreLeft == Calm => \A x \in DOMAIN Onwards : Leaves(x)
<1>1. ASSUME NEW x \in DOMAIN Onwards PROVE Calm => Leaves(x)
  <2>1. Inv /\ Pc = x /\ [Next]_vars /\ [faults' = faults]_vars
          => (Pc = x)' \/ (Pc \in Onwards[x])'
    <3> SUFFICES ASSUME Inv, Pc = x, [Next]_vars, faults' = faults
                 PROVE  Pc' = x \/ Pc' \in Onwards[x]
      BY DEF vars
    <3>1. ~Begin(Scheduled)
      BY ScheduledScans, BeginGoes DEF Pc, Onwards
    <3>2. QED
      BY <3>1, ScheduledScans, ScanSteps, ProceedGoes DEF Pc
  <2>2. Inv /\ Pc = x /\ <<Proceed(Scheduled)>>_vars => ~(Pc = x)'
    BY ScheduledScans, ProceedGoes DEF Pc
  <2>3. ScansGoOn /\ Pc = x => CanProceed(Scheduled)
    BY DEF ScansGoOn, At, Pc, Onwards
  <2>4. QED
    BY <2>1, <2>2, <2>3, PTL DEF Calm, ProceedIsFair, CanProceed, Leaves
<1>2. QED
  BY <1>1

LEMMA IdleIsLeft == Calm => (Pc = "idle" /\ Listed ~> ~Listed \/ Pc = "listed")
<1>1. Inv /\ Pc = "idle" /\ [Next]_vars /\ [faults' = faults]_vars =>
        (Pc = "idle")' \/ (Pc = "listed")'
  <2> SUFFICES ASSUME Inv, Pc = "idle", [Next]_vars, faults' = faults
               PROVE  Pc' = "idle" \/ Pc' = "listed"
    BY DEF vars
  <2>1. ~Proceed(Scheduled)
    BY ScheduledScans, ProceedGoes DEF Pc, Onwards
  <2>2. QED
    BY <2>1, ScheduledScans, ScanSteps, BeginGoes DEF Pc
<1>2. Inv /\ <<List>>_vars => ~(Pc = "idle")'
  BY ScheduledScans, BeginGoes DEF Pc, Begin
<1>3. ScansGoOn /\ Pc = "idle" /\ Listed => ENABLED <<List>>_vars
  BY DEF ScansGoOn, At, Pc
<1>4. QED
  BY <1>1, <1>2, <1>3, PTL DEF Calm

\* The round comes to the organization, which may have lost its resources meanwhile.
LEMMA ListedIsLeft ==
    Calm => /\ Pc = "listed" ~> Pc \in {"evaluate", "findings"}
            /\ Pc = "listed" /\ cloud # "gone" ~> cloud = "gone" \/ Pc = "evaluate"
<1>1. Inv /\ Pc = "listed" /\ [Next]_vars /\ [faults' = faults]_vars =>
        /\ (Pc = "listed")' \/ (Pc \in {"evaluate", "findings"})'
        /\ cloud # "gone" => (Pc = "listed")' \/ (Pc = "evaluate")'
  <2> SUFFICES ASSUME Inv, Pc = "listed", [Next]_vars, faults' = faults
               PROVE  /\ Pc' = "listed" \/ Pc' \in {"evaluate", "findings"}
                      /\ cloud # "gone" => Pc' = "listed" \/ Pc' = "evaluate"
    BY DEF vars
  <2>1. ~Proceed(Scheduled)
    BY ScheduledScans, ProceedGoes DEF Pc, Onwards
  <2>2. QED
    BY <2>1, ScheduledScans, ScanSteps, BeginGoes DEF Pc
<1>2. Inv /\ Pc = "listed" /\ <<Start(Scheduled)>>_vars => ~(Pc = "listed")'
  BY ScheduledScans, BeginGoes DEF Pc, Begin
<1>3. ScansGoOn /\ Pc = "listed" => ENABLED <<Start(Scheduled)>>_vars
  BY DEF ScansGoOn, At, Pc
<1>4. cloud # "gone" <=> ~(cloud = "gone")
  OBVIOUS
<1>5. QED
  BY <1>1, <1>2, <1>3, <1>4, PTL DEF Calm

PlacesMeet ==
    /\ Inv => \/ Pc = "idle" \/ Pc = "listed" \/ Pc = "evaluate" \/ Pc = "read"
              \/ Pc = "write" \/ Pc = "findings" \/ Pc = "result" \/ Pc = "commit"
    /\ Pc \in Onwards["evaluate"] <=> Pc = "read"
    /\ Pc \in Onwards["read"] <=> Pc = "write"
    /\ Pc \in Onwards["write"] <=> Pc = "findings" \/ Pc = "idle"
    /\ Pc \in Onwards["findings"] <=> Pc = "result"
    /\ Pc \in Onwards["result"] <=> Pc = "commit" \/ Pc = "idle"
    /\ Pc \in Onwards["commit"] <=> Pc = "idle"
    /\ Pc \in {"evaluate", "findings"} <=> Pc = "evaluate" \/ Pc = "findings"

LEMMA PlacesDo == PlacesMeet
  BY ScheduledScans DEF PlacesMeet, Onwards, Pc, Inv, TypeOK, ScanState

Scanning ==
    /\ Leaves("evaluate") /\ Leaves("read") /\ Leaves("write")
    /\ Leaves("findings") /\ Leaves("result") /\ Leaves("commit")

LEMMA ScanGoesOn == Calm => Scanning
  BY PlacesAreLeft DEF Scanning, Onwards

LEMMA ScanComesBack == Calm => (TRUE ~> Pc = "idle")
  BY ScanGoesOn, ListedIsLeft, PlacesDo, PTL DEF Calm, Scanning, Leaves, PlacesMeet

\* ~~~ Collisions end ~~~
NoClash ==
    Pc = "write" => /\ scan[Scheduled].posted = posture
                    /\ scan[Scheduled].view = "none" <=> status = "none"

LEMMA ClashesEnd == Calm => <>[]NoClash
<1>1. Inv /\ [Next]_vars => /\ posture => posture'
                            /\ ~(status = "none") => ~(status = "none")'
  BY RowsStay
<1>2. Inv /\ NoClash /\ [Next]_vars /\ [faults' = faults]_vars /\ (posture <=> posture')
        /\ ((status = "none") <=> (status = "none")') => NoClash'
  <2> SUFFICES ASSUME Inv, NoClash, [Next]_vars, faults' = faults, posture <=> posture',
                      (status = "none") <=> (status' = "none")
               PROVE  NoClash'
    BY DEF vars
  <2>1. posture' = posture
    BY RowsStay DEF Inv, TypeOK
  <2>2. CASE Begin(Scheduled)
    BY <2>2, ScheduledScans, BeginGoes DEF NoClash, Pc
  <2>3. CASE Proceed(Scheduled)
    BY <2>1, <2>3, ScheduledScans, ProceedGoes DEF NoClash, Pc, Onwards
  <2>4. CASE scan'[Scheduled] = scan[Scheduled]
    BY <2>1, <2>4 DEF NoClash, Pc
  <2>5. QED
    BY <2>2, <2>3, <2>4, ScheduledScans, ScanSteps
<1>3. Pc = "idle" => NoClash
  BY DEF NoClash
<1>4. QED
  BY <1>1, <1>2, <1>3, ScanComesBack, PTL DEF Calm

LEMMA NoClashNoCollision ==
    ASSUME Inv, NoClash, Pc = "write"
    PROVE  ~Collides(Scheduled)
  BY DEF NoClash, Collides

\* ~~~ A violation that persists is reported ~~~
Unreported == cloud = "firing" /\ status \in {"none", "resolved"}

\* The scheduled scan has seen the violation and no decision of a user.
Reports ==
    /\ Pc \in {"evaluate", "read"} => scan[Scheduled].fires
    /\ Pc = "write" => scan[Scheduled].fires /\ scan[Scheduled].view \in {"none", "resolved"}

LEMMA ReportsStays ==
    ASSUME Inv, Unreported, Reports, [Next]_vars, faults' = faults
    PROVE  Reports'
<1>1. CASE Begin(Scheduled)
  BY <1>1, ScheduledScans, BeginGoes DEF Reports, Pc, Unreported
<1>2. CASE Proceed(Scheduled)
  <2>1. CASE Pc = "evaluate"
    <3>1. Pc' = "read" /\ scan'[Scheduled].fires = (cached \/ scan[Scheduled].fires)
      BY <1>2, <2>1, ScheduledScans, ProceedGoes DEF Pc, Onwards
    <3>2. QED
      BY <2>1, <3>1 DEF Reports
  <2>2. CASE Pc = "read"
    <3>1. /\ Pc' = "write" /\ scan'[Scheduled].fires = scan[Scheduled].fires
          /\ scan'[Scheduled].view = status
      BY <1>2, <2>2, ScheduledScans, ProceedGoes DEF Pc, Onwards
    <3>2. QED
      BY <2>2, <3>1 DEF Reports, Unreported
  <2>3. CASE Pc \notin {"evaluate", "read"}
    <3>1. Pc' \notin {"evaluate", "read", "write"}
      BY <1>2, <2>3, ScheduledScans, ProceedGoes DEF Pc, Onwards
    <3>2. QED
      BY <3>1 DEF Reports
  <2>4. QED
    BY <2>1, <2>2, <2>3
<1>3. CASE scan'[Scheduled] = scan[Scheduled]
  BY <1>3 DEF Reports, Pc
<1>4. QED
  BY <1>1, <1>2, <1>3, ScheduledScans, ScanSteps

ReportEnds == Unreported ~> ~Unreported

LEMMA FiringIsSeen == Calm => ReportEnds
<1>1. Inv /\ Unreported /\ Reports /\ [Next]_vars /\ [faults' = faults]_vars => Reports'
  BY ReportsStays DEF vars
<1>2. Pc = "idle" => Reports
  BY DEF Reports
<1>3. Inv /\ Unreported /\ Unreported' /\ Reports /\ NoClash /\ Pc = "write"
        /\ [Next]_vars /\ [faults' = faults]_vars => (Pc = "write")' /\ ~<<Proceed(Scheduled)>>_vars
  <2> SUFFICES ASSUME Inv, Unreported, Unreported', Reports, NoClash, Pc = "write",
                      [Next]_vars, faults' = faults
               PROVE  Pc' = "write" /\ ~Proceed(Scheduled)
    BY DEF vars
  <2>1. ~Collides(Scheduled)
    BY NoClashNoCollision
  <2>2. Proceed(Scheduled) => status' = "open"
    BY <2>1, ScheduledScans, ProceedGoes DEF Pc, Reports, Written
  <2>3. ~Proceed(Scheduled)
    BY <2>2 DEF Unreported
  <2>4. ~Begin(Scheduled)
    BY ScheduledScans, BeginGoes DEF Pc
  <2>5. QED
    BY <2>3, <2>4, ScheduledScans, ScanSteps DEF Pc
<1>4. ScansGoOn /\ Pc = "write" => CanProceed(Scheduled)
  BY DEF ScansGoOn, At, Pc
<1>5. Unreported => cloud # "gone" /\ ~(cloud = "gone") /\ Listed
  BY DEF Unreported, Listed
<1>6. QED
  BY <1>1, <1>2, <1>3, <1>4, <1>5, ClashesEnd, IdleIsLeft, ListedIsLeft, ScanGoesOn, ScanComesBack, PlacesDo, PTL
     DEF Calm, ProceedIsFair, CanProceed, Scanning, Leaves, PlacesMeet, ReportEnds

\* ~~~ The verdict of a control with one row catches up ~~~
Other(v) == IF v = "pass" THEN "fail" ELSE "pass"

\* The control's only row says v and the finding says the opposite.
Behind(v) == results = <<v>> /\ (status = "open" <=> v = "pass")

\* The scheduled scan has seen both.
Corrects(v) ==
    /\ Pc \in {"result", "commit"} => scan[Scheduled].verdict = Other(v)
    /\ Pc = "commit" => scan[Scheduled].seen = <<v>>

LEMMA CorrectsStays ==
    ASSUME NEW v \in Verdict, Inv, Behind(v), Corrects(v), [Next]_vars, faults' = faults
    PROVE  Corrects(v)'
<1>1. CASE Begin(Scheduled)
  BY <1>1, ScheduledScans, BeginGoes DEF Corrects, Pc
<1>2. CASE Proceed(Scheduled)
  BY <1>2, ScheduledScans, ProceedGoes DEF Corrects, Pc, Onwards, Behind, Other, Verdict
<1>3. CASE scan'[Scheduled] = scan[Scheduled]
  BY <1>3 DEF Corrects, Pc
<1>4. QED
  BY <1>1, <1>2, <1>3, ScheduledScans, ScanSteps

\* Without a resource nothing scans the organization any more.
BehindEnds(v) == Behind(v) ~> ~Behind(v) \/ ~Listed

LEMMA VerdictMoves ==
    ASSUME NEW v \in Verdict
    PROVE  Calm => BehindEnds(v)
<1>1. Inv /\ Behind(v) /\ Corrects(v) /\ [Next]_vars /\ [faults' = faults]_vars => Corrects(v)'
  BY CorrectsStays DEF vars
<1>2. Pc = "idle" => Corrects(v)
  BY DEF Corrects
<1>3. Inv /\ Behind(v) /\ Behind(v)' /\ Corrects(v) /\ Pc = "commit"
        /\ [Next]_vars /\ [faults' = faults]_vars => (Pc = "commit")' /\ ~<<Proceed(Scheduled)>>_vars
  <2> SUFFICES ASSUME Inv, Behind(v), Behind(v)', Corrects(v), Pc = "commit",
                      [Next]_vars, faults' = faults
               PROVE  Pc' = "commit" /\ ~Proceed(Scheduled)
    BY DEF vars
  <2>1. Other(v) # v /\ Recorded(<<v>>, Other(v), <<v>>) # <<v>>
    <3>1. Other(v) # v /\ <<v>> # <<>> /\ <<v>>[1] = v
      BY DEF Other, Verdict
    <3>2. Recorded(<<v>>, Other(v), <<v>>) = [<<v>> EXCEPT ![1] = Other(v)]
      BY <3>1 DEF Recorded
    <3>3. [<<v>> EXCEPT ![1] = Other(v)][1] = Other(v)
      OBVIOUS
    <3>4. QED
      BY <3>1, <3>2, <3>3
  <2>2. Proceed(Scheduled) => results' = Recorded(<<v>>, Other(v), <<v>>)
    BY ScheduledScans, ProceedGoes DEF Pc, Corrects, Behind
  <2>3. ~Proceed(Scheduled)
    BY <2>1, <2>2 DEF Behind
  <2>4. ~Begin(Scheduled)
    BY ScheduledScans, BeginGoes DEF Pc
  <2>5. QED
    BY <2>3, <2>4, ScheduledScans, ScanSteps DEF Pc
<1>4. ScansGoOn /\ ~(Pc = "idle") /\ ~(Pc = "listed") => CanProceed(Scheduled)
  BY DEF ScansGoOn, At, Pc
<1>5. Inv /\ NoClash /\ [Next]_vars /\ [faults' = faults]_vars /\ Pc = "write" =>
        (Pc = "write")' \/ (Pc = "findings")'
  <2> SUFFICES ASSUME Inv, NoClash, Pc = "write", [Next]_vars, faults' = faults
               PROVE  Pc' = "write" \/ Pc' = "findings"
    BY DEF vars
  <2>1. ~Begin(Scheduled)
    BY ScheduledScans, BeginGoes DEF Pc
  <2>2. QED
    BY <2>1, ScheduledScans, ScanSteps, ProceedGoes, NoClashNoCollision DEF Pc
<1>6. Inv /\ Behind(v) /\ [Next]_vars /\ [faults' = faults]_vars /\ Pc = "result" =>
        (Pc = "result")' \/ (Pc = "commit")'
  <2> SUFFICES ASSUME Inv, Behind(v), Pc = "result", [Next]_vars, faults' = faults
               PROVE  Pc' = "result" \/ Pc' = "commit"
    BY DEF vars
  <2>1. ~Begin(Scheduled)
    BY ScheduledScans, BeginGoes DEF Pc
  <2>2. ~(Len(results) > 1)
    BY DEF Behind
  <2>3. QED
    BY <2>1, <2>2, ScheduledScans, ScanSteps, ProceedGoes DEF Pc
<1>7. /\ Pc = "findings" => ~(Pc = "idle") /\ ~(Pc = "write") /\ ~(Pc = "listed")
      /\ Pc = "commit" => ~(Pc = "idle") /\ ~(Pc = "result") /\ ~(Pc = "listed")
      /\ Pc = "write" => ~(Pc = "idle") /\ ~(Pc = "listed")
      /\ Pc = "result" => ~(Pc = "idle") /\ ~(Pc = "listed")
  OBVIOUS
<1>8. QED
  BY <1>1, <1>2, <1>3, <1>4, <1>5, <1>6, <1>7, ClashesEnd, IdleIsLeft, ListedIsLeft, ScanGoesOn, ScanComesBack,
     PlacesDo, PTL
     DEF Calm, ProceedIsFair, CanProceed, Scanning, Leaves, PlacesMeet, BehindEnds

\* ~~~ A finding whose violation is gone is resolved ~~~
Unresolved == cloud = "clean" /\ status = "open"

\* A scan that does not judge a state from before the violation was gone.
Fresh(s) == scan[s].pc = "evaluate" => ~scan[s].fires
AllFresh == \A s \in Scans : Fresh(s)

FreshInTime(s) == <>[]Fresh(s)

ScansRefreshTogether ==
    (\A s \in Scans : <>[]Fresh(s)) => <>[](\A s \in Scans : Fresh(s))

LEMMA FreshStays ==
    ASSUME NEW s \in Scans, Inv, cloud = "clean", Fresh(s), [Next]_vars, faults' = faults
    PROVE  Fresh(s)'
<1>1. CASE Begin(s)
  BY <1>1, BeginGoes DEF Fresh
<1>2. CASE Proceed(s)
  BY <1>2, ProceedGoes DEF Fresh, Onwards
<1>3. CASE scan'[s] = scan[s]
  BY <1>3 DEF Fresh
<1>4. QED
  BY <1>1, <1>2, <1>3, ScanSteps

StaysClean == <>[](cloud = "clean")

LEMMA GetsFresh ==
    ASSUME NEW s \in Scans
    PROVE  <>Calm /\ ProceedIsFair(s) /\ StaysClean => FreshInTime(s)
<1>1. Inv /\ cloud = "clean" /\ Fresh(s) /\ [Next]_vars /\ [faults' = faults]_vars => Fresh(s)'
  BY FreshStays DEF vars
<1>2. Inv /\ <<Proceed(s)>>_vars => Fresh(s)'
  BY ProceedGoes DEF Fresh, Onwards
<1>3. ScansGoOn /\ ~Fresh(s) => CanProceed(s)
  BY DEF ScansGoOn, Fresh, At
<1>4. QED
  BY <1>1, <1>2, <1>3, PTL DEF Calm, ProceedIsFair, CanProceed, FreshInTime, StaysClean

\* The key expires, and nothing sets it again.
LEMMA CacheClears == Calm /\ []AllFresh => <>[]~cached
<1>1. AllFresh /\ ~cached /\ [Next]_vars => ~cached'
  <2> SUFFICES ASSUME AllFresh, ~cached, [Next]_vars PROVE ~cached'
    OBVIOUS
  <2>1. ASSUME NEW s \in Scans, Evaluate(s) PROVE ~cached'
    BY <2>1 DEF AllFresh, Fresh, Evaluate, At
  <2>2. ASSUME NEW s \in Scans, Proceed(s) \/ Start(s) \/ EvaluationFails(s) \/ Abort(s)
        PROVE  ~cached'
    BY <2>1, <2>2 DEF Start, Proceed, Read, Write, WriteFails, ReadFindings, ReadResult,
                      CommitResult, EvaluationFails, Abort
  <2>3. ASSUME NEW u \in Users, Request(u) \/ Commit(u) PROVE ~cached'
    BY <2>3 DEF Request, Commit
  <2>4. CASE List \/ CacheExpires \/ Change \/ Crash \/ UNCHANGED vars
    BY <2>4 DEF List, CacheExpires, Change, Crash, vars
  <2>5. QED
    BY <2>2, <2>3, <2>4 DEF Next
<1>2. <<CacheExpires>>_vars => ~cached'
  BY DEF CacheExpires
<1>3. ScansGoOn /\ cached => ENABLED <<CacheExpires>>_vars
  BY DEF ScansGoOn
<1>4. QED
  BY <1>1, <1>2, <1>3, PTL DEF Calm

\* The scheduled scan has seen that the violation is gone.
Resolves ==
    /\ Pc \in {"evaluate", "read"} => ~scan[Scheduled].fires
    /\ Pc = "write" => ~scan[Scheduled].fires /\ scan[Scheduled].view = "open"

LEMMA ResolvesStays ==
    ASSUME Inv, Unresolved, ~cached, Resolves, [Next]_vars, faults' = faults
    PROVE  Resolves'
<1>1. CASE Begin(Scheduled)
  BY <1>1, ScheduledScans, BeginGoes DEF Resolves, Pc, Unresolved
<1>2. CASE Proceed(Scheduled)
  <2>1. CASE Pc = "evaluate"
    <3>1. Pc' = "read" /\ scan'[Scheduled].fires = (cached \/ scan[Scheduled].fires)
      BY <1>2, <2>1, ScheduledScans, ProceedGoes DEF Pc, Onwards
    <3>2. QED
      BY <2>1, <3>1 DEF Resolves
  <2>2. CASE Pc = "read"
    <3>1. /\ Pc' = "write" /\ scan'[Scheduled].fires = scan[Scheduled].fires
          /\ scan'[Scheduled].view = status
      BY <1>2, <2>2, ScheduledScans, ProceedGoes DEF Pc, Onwards
    <3>2. QED
      BY <2>2, <3>1 DEF Resolves, Unresolved
  <2>3. CASE Pc \notin {"evaluate", "read"}
    <3>1. Pc' \notin {"evaluate", "read", "write"}
      BY <1>2, <2>3, ScheduledScans, ProceedGoes DEF Pc, Onwards
    <3>2. QED
      BY <3>1 DEF Resolves
  <2>4. QED
    BY <2>1, <2>2, <2>3
<1>3. CASE scan'[Scheduled] = scan[Scheduled]
  BY <1>3 DEF Resolves, Pc
<1>4. QED
  BY <1>1, <1>2, <1>3, ScheduledScans, ScanSteps

LEMMA FixedIsSeen == Calm /\ <>[]AllFresh => (Unresolved ~> ~Unresolved)
<1>1. Inv /\ Unresolved /\ ~cached /\ Resolves /\ [Next]_vars /\ [faults' = faults]_vars
        => Resolves'
  BY ResolvesStays DEF vars
<1>2. Pc = "idle" => Resolves
  BY DEF Resolves
<1>3. Inv /\ Unresolved /\ Unresolved' /\ Resolves /\ NoClash /\ Pc = "write"
        /\ [Next]_vars /\ [faults' = faults]_vars => (Pc = "write")' /\ ~<<Proceed(Scheduled)>>_vars
  <2> SUFFICES ASSUME Inv, Unresolved, Unresolved', Resolves, NoClash, Pc = "write",
                      [Next]_vars, faults' = faults
               PROVE  Pc' = "write" /\ ~Proceed(Scheduled)
    BY DEF vars
  <2>1. ~Collides(Scheduled)
    BY NoClashNoCollision
  <2>2. Proceed(Scheduled) => status' = "resolved"
    BY <2>1, ScheduledScans, ProceedGoes DEF Pc, Resolves, Written
  <2>3. ~Proceed(Scheduled)
    BY <2>2 DEF Unresolved
  <2>4. ~Begin(Scheduled)
    BY ScheduledScans, BeginGoes DEF Pc
  <2>5. QED
    BY <2>3, <2>4, ScheduledScans, ScanSteps DEF Pc
<1>4. ScansGoOn /\ Pc = "write" => CanProceed(Scheduled)
  BY DEF ScansGoOn, At, Pc
<1>5. Unresolved => cloud # "gone" /\ ~(cloud = "gone") /\ Listed
  BY DEF Unresolved, Listed
<1>6. QED
  BY <1>1, <1>2, <1>3, <1>4, <1>5, CacheClears, ClashesEnd, IdleIsLeft, ListedIsLeft, ScanGoesOn, ScanComesBack,
     PlacesDo, PTL
     DEF Calm, ProceedIsFair, CanProceed, Scanning, Leaves, PlacesMeet

EveryScanProceeds == \A s \in Scans : ProceedIsFair(s)

\* A violation that persists is reported, a finding whose violation is gone is
\* resolved and a single compliance row is corrected, however manual scans,
\* users and the cache of the policy service interfere (scan_executor.py:375,
\* scan_executor.py:451).
THEOREM ScansDoCatchUp ==
    FairSpec /\ []ScansGoOn /\ FaultsPassTogether /\ ScansRefreshTogether => ScansCatchUp
<1> DEFINE Premises ==
        /\ EveryoneFits /\ FairSpec /\ []ScansGoOn
        /\ FaultsPassTogether /\ ScansRefreshTogether
<1>1. FairSpec => EveryScanProceeds
  BY PTL DEF FairSpec, EveryScanProceeds
<1>2. EveryScanProceeds => ProceedIsFair(Scheduled)
  BY ScheduledScans DEF EveryScanProceeds
<1>3. Premises => <>Calm
  <2>1. EveryoneFits /\ FairSpec =>
          /\ Spec /\ WF_vars(List)
          /\ WF_vars(Start(Scheduled)) /\ WF_vars(CacheExpires)
    BY PTL DEF FairSpec
  <2>2. QED
    BY <1>1, <1>2, <2>1, InvHolds, FaultsDoCease, PTL DEF Calm, FaultsCease, Spec, ProceedIsFair
<1>4. Premises => FiringIsReported
  <2>1. ~Unreported => cloud # "firing" \/ status \notin {"none", "resolved"}
    BY DEF Unreported
  <2>2. QED
    BY <1>3, <2>1, FiringIsSeen, PTL DEF ReportEnds, FiringIsReported
<1>5. Premises => VerdictCatchesUp
  <2>1. "pass" \in Verdict /\ "fail" \in Verdict
    BY DEF Verdict
  <2>2. Calm => BehindEnds("pass") /\ BehindEnds("fail")
    BY <2>1, VerdictMoves
  <2>3. /\ results = <<"pass">> /\ status = "open" => Behind("pass")
        /\ results = <<"fail">> /\ status # "open" => Behind("fail")
        /\ ~Behind("pass") => results # <<"pass">> \/ status # "open"
        /\ ~Behind("fail") => results # <<"fail">> \/ status = "open"
    BY DEF Behind
  <2>4. QED
    BY <1>3, <2>2, <2>3, PTL DEF BehindEnds, VerdictCatchesUp
<1>6. Premises => FixedIsResolved
  <2>1. \A s \in Scans : Premises /\ StaysClean => FreshInTime(s)
    <3> TAKE s \in Scans
    <3>1. EveryScanProceeds => ProceedIsFair(s)
      BY DEF EveryScanProceeds
    <3>2. QED
      BY <1>1, <1>3, <3>1, GetsFresh, PTL
  <2>2. ScansRefreshTogether /\ (\A s \in Scans : FreshInTime(s)) => <>[]AllFresh
    BY DEF ScansRefreshTogether, FreshInTime, AllFresh
  <2>3. Premises /\ StaysClean => <>[]AllFresh
    BY <2>1, <2>2
  <2>4. Unresolved => cloud = "clean"
    BY DEF Unresolved
  <2>5. ~Unresolved => cloud # "clean" \/ status # "open"
    BY DEF Unresolved
  <2>6. QED
    BY <1>3, <2>3, <2>4, <2>5, FixedIsSeen, PTL DEF StaysClean, FixedIsResolved, Calm
<1>7. QED
  BY <1>4, <1>5, <1>6, PTL DEF ScansCatchUp
=============================================================================
