----------------------- MODULE WorkflowEditorProofs -----------------------
(***************************************************************************)
(* Proofs about WorkflowEditor, for any nodes, save requests and number of *)
(* edits: the type invariant, the three safety properties, and that no     *)
(* edit is undone.  None of them is inductive.  The clean mark is right    *)
(* because, while nothing has gone wrong, at most one save is in flight    *)
(* and it carries what is stored or the mark is still up, and because what *)
(* is stored has nothing that the stored form leaves out; the edits are    *)
(* all there because a form that is about to write holds the last edit of  *)
(* its node.                                                               *)
(*                                                                         *)
(* The last part is liveness: the saves come to rest, and what is read     *)
(* back after the last one is what is stored.                              *)
(***************************************************************************)
EXTENDS WorkflowEditor, TLAPS

\* Only a form has a write put off.
OnlyFormsWrite == \A n \in Nodes \ Forms : pending[n] = Nobody

\* A closed builder has no changes and no selection.
ClosedIsQuiet == ~open => ~changes /\ selected = Nobody

\* A run only waits for changes that are there.
WaitsForChanges == waiting => changes

\* Left with nothing under way, the builder finds everything as it was.
ClosedIsSettled ==
  "edits" \notin blame /\ ~open =>
    /\ doc = raw /\ raw = server
    /\ InFlight = {}
    /\ fetch.state = "read" => fetch.body = server

OneSave == "edits" \notin blame => \A s, t \in InFlight : s = t

FailureIsMarked == \A s \in Saves : saves[s].state = "failed" => "marks" \in blame

\* What a save carries, or has stored.
SaveIsKnown ==
  blame = {} =>
    \A s \in Saves :
      /\ saves[s].state = "sent" => changes \/ saves[s].body = server
      /\ saves[s].state = "ok" => saves[s].body = server

\* What the stored form leaves out is never stored.
DroppedIsAbsent ==
  \A n \in Dropped : server[n] = 0 /\ \A s \in Saves : saves[s].body[n] = 0

\* A form that is about to write for the working copy to change.
Owes(n) == pending[n] # Nobody /\ n \notin Triggers

\* The last edit of a node is the one its form is about to write, or the one
\* the working copy has.
LastEdit ==
  "edits" \notin blame =>
    \A n \in Nodes : latest[n] = IF Owes(n) THEN pending[n] ELSE doc[n]

Shape == OnlyFormsWrite /\ ClosedIsQuiet /\ WaitsForChanges

Saving == ClosedIsSettled /\ OneSave /\ FailureIsMarked /\ SaveIsKnown /\ DroppedIsAbsent

Inv == TypeOK /\ Shape /\ Saving /\ CleanMeansStored /\ LastEdit /\ RunsWhatIsShown

\* An edit that is written at once, and what it selects.
AtOnce(n) ==
  /\ n \in Triggers \/ n \notin Forms
  /\ edit(n)
  /\ selected' \in {selected, Nobody} \cup Nodes

USE NobodyAssumption, FormsAssumption, TriggersAssumption, DroppedAssumption, MaxEditsAssumption

SaveRecord  == [state : {"unsent", "sent", "ok", "failed", "ended"}, body : Content]
FetchRecord == [state : {"none", "asked", "read"}, body : Content]
RunRecord   == [by : {"none", "clean", "saved", "left"}, asShown : BOOLEAN]

LEMMA EditsAtOnce ==
    ASSUME NEW n \in Nodes,
           updateV2Properties(n) \/ \E m \in Nodes \cup {Nobody} : addOrDeleteNode(n, m)
    PROVE  AtOnce(n)
  BY DEF updateV2Properties, addOrDeleteNode, AtOnce

LEMMA NullRecords ==
    /\ [n \in Nodes |-> 0] \in Content
    /\ Unsent \in SaveRecord
    /\ [Unsent EXCEPT !.state = "ended"] \in SaveRecord
    /\ NoFetch \in FetchRecord
    /\ [NoFetch EXCEPT !.state = "asked"] \in FetchRecord
    /\ NoRun \in RunRecord
<1>1. [n \in Nodes |-> 0] \in Content
  BY DEF Content, Values
<1>2. QED
  BY <1>1 DEF SaveRecord, FetchRecord, RunRecord, Unsent, NoFetch, NoRun

LEMMA RunType ==
    ASSUME NEW by \in {"clean", "saved", "left"}, ranNow(by)
    PROVE  lastRun' \in RunRecord
<1> DEFINE same == server = Stored(shown)
<1>1. same \in BOOLEAN
  OBVIOUS
<1>2. lastRun' = [by |-> by, asShown |-> same]
  BY DEF ranNow
<1> HIDE DEF same
<1>3. QED
  BY <1>1, <1>2 DEF RunRecord

LEMMA ClearedType ==
    ASSUME TypeOK, NEW by \in {"saved", "left"}, cleared(by)
    PROVE  changes' \in BOOLEAN /\ waiting' \in BOOLEAN /\ lastRun' \in RunRecord
<1>1. CASE waiting /\ changes
  BY <1>1, RunType DEF cleared
<1>2. CASE ~(waiting /\ changes)
  BY <1>2 DEF cleared, TypeOK, RunRecord
<1>3. QED
  BY <1>1, <1>2

LEMMA StoredType ==
    ASSUME NEW d \in Content
    PROVE  Stored(d) \in Content
<1>1. 0 \in Values
  BY DEF Values
<1>2. QED
  BY <1>1 DEF Stored, Content

LEMMA SendType ==
    ASSUME TypeOK, NEW s \in Saves, send(s)
    PROVE  saves' \in [Saves -> SaveRecord] /\ blame' \in SUBSET Blames
<1>1. saves' \in [Saves -> SaveRecord]
  BY StoredType DEF TypeOK, send, SaveRecord
<1>2. blame' \in SUBSET Blames
  BY DEF TypeOK, send, Blames
<1>3. QED
  BY <1>1, <1>2

LEMMA InitInv == Init => Inv
<1>1. SUFFICES ASSUME Init PROVE Inv
  OBVIOUS
<1>3. TypeOK
  <2>1. saves \in [Saves -> SaveRecord] /\ fetch \in FetchRecord /\ lastRun \in RunRecord
    BY <1>1, NullRecords DEF Init
  <2>2. server \in Content /\ raw \in Content /\ doc \in Content /\ latest \in Content
    BY <1>1, NullRecords DEF Init
  <2>3. pending \in [Nodes -> Values \cup {Nobody}] /\ edits \in Values /\ blame \in SUBSET Blames
    BY <1>1 DEF Init, Values
  <2>4. selected \in Nodes \cup {Nobody}
    BY <1>1 DEF Init
  <2>5. open \in BOOLEAN /\ changes \in BOOLEAN /\ synced \in BOOLEAN /\ waiting \in BOOLEAN
    BY <1>1 DEF Init
  <2>6. QED
    BY <2>1, <2>2, <2>3, <2>4, <2>5 DEF TypeOK, SaveRecord, FetchRecord, RunRecord
<1>4. InFlight = {}
  BY <1>1 DEF Init, InFlight, Unsent
<1>5. DroppedIsAbsent /\ Stored(doc) = server
  BY <1>1 DEF Init, DroppedIsAbsent, Stored, Unsent
<1>6. Shape /\ Saving /\ CleanMeansStored /\ LastEdit /\ RunsWhatIsShown
  BY <1>1, <1>4, <1>5
     DEF Init, Owes, Shape, OnlyFormsWrite, ClosedIsQuiet, WaitsForChanges, Saving,
         ClosedIsSettled, OneSave, FailureIsMarked, SaveIsKnown, CleanMeansStored,
         LastEdit, RunsWhatIsShown, Unsent, NoRun
<1>7. QED
  BY <1>3, <1>6 DEF Inv

LEMMA TypeStep == TypeOK /\ [Next]_vars => TypeOK'
<1>1. SUFFICES ASSUME TypeOK, [Next]_vars PROVE TypeOK'
  OBVIOUS
<1>2. QED
  <2>1. ASSUME NEW n \in Nodes \cup {Nobody}, Select(n) PROVE TypeOK'
    BY <1>1, <2>1 DEF TypeOK, Select
  <2>2. CASE Type
    <3>1. edits' \in Values /\ selected \in Nodes
      BY <1>1, <2>2 DEF TypeOK, Type, Values
    <3>2. pending' \in [Nodes -> Values \cup {Nobody}] /\ latest' \in Content
      BY <1>1, <2>2, <3>1 DEF TypeOK, Type, Content
    <3>3. doc' \in Content
      BY <1>1, <2>2, <3>1 DEF TypeOK, Type, Content
    <3>4. changes' \in BOOLEAN /\ synced' \in BOOLEAN
      BY <1>1, <2>2 DEF TypeOK, Type
    <3>5. QED
      BY <1>1, <2>2, <3>1, <3>2, <3>3, <3>4 DEF TypeOK, Type
  <2>3. ASSUME NEW n \in Nodes, updateSelectedNodeData(n) PROVE TypeOK'
    BY <1>1, NullRecords, <2>3
       DEF TypeOK, store, Content, Values, Blames, updateSelectedNodeData
  <2>4. ASSUME NEW n \in Nodes, AtOnce(n) PROVE TypeOK'
    BY <1>1, <2>4 DEF TypeOK, Content, Values, AtOnce, edit
  <2>5. ASSUME NEW n \in Nodes, Foreign(n) PROVE TypeOK'
    BY <1>1, <2>5 DEF TypeOK, store, Content, Values, Blames, Foreign
  <2>6. ASSUME NEW s \in Saves, saveWorkflow(s) PROVE TypeOK'
    <3>1. saves' \in [Saves -> SaveRecord] /\ blame' \in SUBSET Blames
      BY <1>1, <2>6, SendType DEF saveWorkflow
    <3>2. QED
      BY <1>1, <2>6, <3>1 DEF TypeOK, store, saveWorkflow, SaveRecord
  <2>7. ASSUME NEW s \in Saves, NEW answer \in {"ok", "failed"}, Store(s, answer)
        PROVE TypeOK'
    BY <1>1, <2>7 DEF TypeOK, store, Blames, Store
  <2>8. ASSUME NEW s \in Saves, Reject(s) PROVE TypeOK'
    BY <1>1, <2>8 DEF TypeOK, store, Blames, Reject
  <2>9. ASSUME NEW s \in Saves, setLastDeployedAt(s) PROVE TypeOK'
    <3>1. saves' \in [Saves -> SaveRecord]
      BY <1>1, <2>9, NullRecords DEF TypeOK, setLastDeployedAt, SaveRecord
    <3>2. fetch' \in FetchRecord
      BY <1>1, <2>9, NullRecords DEF TypeOK, setLastDeployedAt, FetchRecord
    <3>3. blame' \in SUBSET Blames
      BY <1>1, <2>9 DEF TypeOK, setLastDeployedAt, Blames
    <3>4. changes' \in BOOLEAN /\ waiting' \in BOOLEAN /\ lastRun' \in RunRecord
      BY <1>1, <2>9, ClearedType DEF setLastDeployedAt
    <3>5. /\ server' \in Content /\ raw' \in Content /\ doc' \in Content
          /\ latest' \in Content
          /\ selected' \in Nodes \cup {Nobody} /\ edits' \in Values
          /\ pending' \in [Nodes -> Values \cup {Nobody}]
      BY <1>1, <2>9 DEF TypeOK, setLastDeployedAt
    <3>6. open' \in BOOLEAN /\ synced' \in BOOLEAN
      BY <1>1, <2>9 DEF TypeOK, setLastDeployedAt
    <3>7. QED
      BY <3>1, <3>2, <3>3, <3>4, <3>5, <3>6 DEF TypeOK, SaveRecord, FetchRecord, RunRecord
  <2>10. CASE Focus
    <3>1. fetch' \in FetchRecord
      BY <2>10, NullRecords DEF Focus
    <3>2. QED
      BY <1>1, <2>10, <3>1 DEF TypeOK, store, Focus, FetchRecord
  <2>11. CASE Read
    BY <1>1, <2>11 DEF TypeOK, store, Read
  <2>12. CASE updateDefinitionFromInput
    <3>1. fetch' \in FetchRecord
      BY <2>12, NullRecords DEF updateDefinitionFromInput
    <3>2. raw' \in Content /\ doc' \in Content
      BY <1>1, <2>12 DEF TypeOK, updateDefinitionFromInput
    <3>3. synced' \in BOOLEAN
      BY <1>1, <2>12 DEF TypeOK, updateDefinitionFromInput
    <3>4. blame' \in SUBSET Blames
      BY <1>1, <2>12 DEF TypeOK, updateDefinitionFromInput, Blames
    <3>5. QED
      BY <1>1, <2>12, <3>1, <3>2, <3>3, <3>4
         DEF TypeOK, updateDefinitionFromInput, FetchRecord
  <2>13. CASE reset
    <3>1. changes' \in BOOLEAN /\ waiting' \in BOOLEAN /\ lastRun' \in RunRecord
      BY <1>1, <2>13, ClearedType DEF reset
    <3>2. blame' \in SUBSET Blames
      BY <1>1, <2>13 DEF TypeOK, reset, Blames
    <3>3. /\ server' \in Content /\ raw' \in Content /\ doc' \in Content
          /\ latest' \in Content
          /\ selected' \in Nodes \cup {Nobody} /\ edits' \in Values
          /\ pending' \in [Nodes -> Values \cup {Nobody}]
          /\ saves' \in [Saves -> SaveRecord] /\ fetch' \in FetchRecord
      BY <1>1, <2>13 DEF TypeOK, reset, SaveRecord, FetchRecord
    <3>4. open' \in BOOLEAN /\ synced' \in BOOLEAN
      BY <1>1, <2>13 DEF TypeOK, reset
    <3>5. QED
      BY <3>1, <3>2, <3>3, <3>4 DEF TypeOK, SaveRecord, FetchRecord, RunRecord
  <2>14. CASE initializeWorkflow
    BY <1>1, <2>14 DEF TypeOK, initializeWorkflow
  <2>15. CASE runClean
    <3>1. lastRun' \in RunRecord
      BY <2>15, RunType DEF runClean
    <3>2. QED
      BY <1>1, <2>15, <3>1 DEF TypeOK, store, runClean, RunRecord
  <2>16. CASE runAnyway
    BY <1>1, <2>16, NullRecords DEF TypeOK, store, runAnyway, RunRecord
  <2>17. CASE saveAndRun
    <3>1. saves' \in [Saves -> SaveRecord] /\ blame' \in SUBSET Blames
      <4>1. CASE savable
        BY <1>1, <2>17, <4>1, SendType DEF saveAndRun
      <4>2. CASE ~savable
        BY <1>1, <2>17, <4>2 DEF TypeOK, saveAndRun, SaveRecord
      <4>3. QED
        BY <4>1, <4>2
    <3>2. QED
      BY <1>1, <2>17, <3>1 DEF TypeOK, store, saveAndRun, SaveRecord
  <2>18. CASE UNCHANGED vars
    BY <1>1, <2>18 DEF TypeOK, store, vars
  <2>19. QED
    BY <1>1, <2>1, <2>2, <2>3, <2>4, <2>5, <2>6, <2>7, <2>8, <2>9, <2>10, <2>11, <2>12,
       <2>13, <2>14, <2>15, <2>16, <2>17, <2>18, EditsAtOnce DEF Next, Request

LEMMA ShapeStep == Inv /\ TypeOK' /\ [Next]_vars => Shape'
<1>1. SUFFICES ASSUME Inv, TypeOK', [Next]_vars PROVE Shape'
  OBVIOUS
<1>2. QED
  <2>1. ASSUME NEW n \in Nodes \cup {Nobody}, Select(n) PROVE Shape'
    BY <1>1, <2>1 DEF Inv, Shape, OnlyFormsWrite, ClosedIsQuiet, WaitsForChanges, Select
  <2>2. CASE Type
    BY <1>1, <2>2 DEF Inv, Shape, OnlyFormsWrite, ClosedIsQuiet, WaitsForChanges, Type
  <2>3. ASSUME NEW n \in Nodes, updateSelectedNodeData(n) PROVE Shape'
    BY <1>1, <2>3
       DEF Inv, Shape, OnlyFormsWrite, ClosedIsQuiet, WaitsForChanges,
           updateSelectedNodeData
  <2>4. ASSUME NEW n \in Nodes, AtOnce(n) PROVE Shape'
    BY <1>1, <2>4
       DEF Inv, Shape, OnlyFormsWrite, ClosedIsQuiet, WaitsForChanges, AtOnce, edit
  <2>5. ASSUME NEW n \in Nodes, Foreign(n) PROVE Shape'
    BY <1>1, <2>5
       DEF Inv, Shape, OnlyFormsWrite, ClosedIsQuiet, WaitsForChanges, store, Foreign
  <2>6. ASSUME NEW s \in Saves, saveWorkflow(s) PROVE Shape'
    BY <1>1, <2>6
       DEF Inv, Shape, OnlyFormsWrite, ClosedIsQuiet, WaitsForChanges, store, saveWorkflow
  <2>7. ASSUME NEW s \in Saves, NEW answer \in {"ok", "failed"}, Store(s, answer)
        PROVE Shape'
    BY <1>1, <2>7
       DEF Inv, Shape, OnlyFormsWrite, ClosedIsQuiet, WaitsForChanges, store, Store
  <2>8. ASSUME NEW s \in Saves, Reject(s) PROVE Shape'
    BY <1>1, <2>8
       DEF Inv, Shape, OnlyFormsWrite, ClosedIsQuiet, WaitsForChanges, store, Reject
  <2>9. ASSUME NEW s \in Saves, setLastDeployedAt(s) PROVE Shape'
    BY <1>1, <2>9
       DEF Inv, Shape, OnlyFormsWrite, ClosedIsQuiet, WaitsForChanges, setLastDeployedAt,
           cleared
  <2>10. CASE Focus
    BY <1>1, <2>10
       DEF Inv, Shape, OnlyFormsWrite, ClosedIsQuiet, WaitsForChanges, store, Focus
  <2>11. CASE Read
    BY <1>1, <2>11
       DEF Inv, Shape, OnlyFormsWrite, ClosedIsQuiet, WaitsForChanges, store, Read
  <2>12. CASE updateDefinitionFromInput
    BY <1>1, <2>12
       DEF Inv, Shape, OnlyFormsWrite, ClosedIsQuiet, WaitsForChanges,
           updateDefinitionFromInput
  <2>13. CASE reset
    BY <1>1, <2>13
       DEF Inv, Shape, OnlyFormsWrite, ClosedIsQuiet, WaitsForChanges, reset, cleared
  <2>14. CASE initializeWorkflow
    BY <1>1, <2>14
       DEF Inv, Shape, OnlyFormsWrite, ClosedIsQuiet, WaitsForChanges, initializeWorkflow
  <2>15. CASE runClean
    BY <1>1, <2>15
       DEF Inv, Shape, OnlyFormsWrite, ClosedIsQuiet, WaitsForChanges, store, runClean
  <2>16. CASE runAnyway
    BY <1>1, <2>16
       DEF Inv, Shape, OnlyFormsWrite, ClosedIsQuiet, WaitsForChanges, store, runAnyway
  <2>17. CASE saveAndRun
    BY <1>1, <2>17
       DEF Inv, Shape, OnlyFormsWrite, ClosedIsQuiet, WaitsForChanges, store, saveAndRun
  <2>18. CASE UNCHANGED vars
    BY <1>1, <2>18
       DEF Inv, Shape, OnlyFormsWrite, ClosedIsQuiet, WaitsForChanges, store, vars
  <2>19. QED
    BY <1>1, <2>1, <2>2, <2>3, <2>4, <2>5, <2>6, <2>7, <2>8, <2>9, <2>10, <2>11, <2>12,
       <2>13, <2>14, <2>15, <2>16, <2>17, <2>18, EditsAtOnce DEF Next, Request

LEMMA FailureStep == Inv /\ TypeOK' /\ [Next]_vars => FailureIsMarked'
<1>1. SUFFICES ASSUME Inv, TypeOK', [Next]_vars PROVE FailureIsMarked'
  OBVIOUS
<1>2. QED
  <2>1. CASE \/ \E n \in Nodes \cup {Nobody} : Select(n)
             \/ \E n \in Nodes : updateSelectedNodeData(n) \/ AtOnce(n) \/ Foreign(n)
             \/ \E s \in Saves : saveWorkflow(s) \/ setLastDeployedAt(s)
             \/ \E s \in Saves, answer \in {"ok", "failed"} : Store(s, answer)
             \/ Type \/ Focus \/ Read \/ updateDefinitionFromInput \/ reset
             \/ initializeWorkflow \/ runClean \/ runAnyway \/ saveAndRun
             \/ UNCHANGED vars
    BY <1>1, <2>1
       DEF Select, Type, updateSelectedNodeData, AtOnce, edit, Foreign,
           saveWorkflow, Store, setLastDeployedAt, Focus, Read, updateDefinitionFromInput,
           reset, initializeWorkflow, runClean, runAnyway, saveAndRun, Inv, Saving,
           FailureIsMarked, send, TypeOK, vars
  <2>2. ASSUME NEW s \in Saves, Reject(s) PROVE FailureIsMarked'
    BY <2>2 DEF Inv, FailureIsMarked, Reject
  <2>3. QED
    BY <1>1, <2>1, <2>2, EditsAtOnce DEF Next, Request

LEMMA OneSaveStep == Inv /\ TypeOK' /\ [Next]_vars => OneSave'
<1>1. SUFFICES ASSUME Inv, TypeOK', [Next]_vars PROVE OneSave'
  OBVIOUS
<1>2. QED
  <2>1. CASE \/ \E n \in Nodes \cup {Nobody} : Select(n)
             \/ \E n \in Nodes : updateSelectedNodeData(n) \/ AtOnce(n)
             \/ \E s \in Saves, answer \in {"ok", "failed"} : Store(s, answer)
             \/ \E s \in Saves : Reject(s) \/ setLastDeployedAt(s)
             \/ Type \/ Focus \/ Read \/ updateDefinitionFromInput \/ initializeWorkflow
             \/ runClean \/ runAnyway \/ saveAndRun \/ UNCHANGED vars
    BY <1>1, <2>1
       DEF Select, Type, updateSelectedNodeData, AtOnce, edit, Store, Reject,
           setLastDeployedAt, Focus, Read, updateDefinitionFromInput, initializeWorkflow,
           runClean, runAnyway, saveAndRun, Inv, Saving, OneSave, InFlight, TypeOK, send,
           vars
  <2>2. ASSUME NEW n \in Nodes, Foreign(n) PROVE OneSave'
    BY <2>2 DEF Inv, OneSave, Foreign
  <2>3. ASSUME NEW s \in Saves, saveWorkflow(s) PROVE OneSave'
    BY <2>3 DEF Inv, OneSave, InFlight, saveWorkflow, send
  <2>4. CASE reset
    BY <2>4 DEF Inv, OneSave, InFlight, reset, UnderWay
  <2>5. QED
    BY <1>1, <2>1, <2>2, <2>3, <2>4, EditsAtOnce DEF Next, Request

LEMMA SaveIsKnownStep == Inv /\ TypeOK' /\ [Next]_vars => SaveIsKnown'
<1>1. SUFFICES ASSUME Inv, TypeOK', [Next]_vars PROVE SaveIsKnown'
  OBVIOUS
<1>2. QED
  <2>1. CASE \/ \E n \in Nodes \cup {Nobody} : Select(n)
             \/ \E n \in Nodes : updateSelectedNodeData(n) \/ AtOnce(n)
             \/ Type \/ Focus \/ Read \/ updateDefinitionFromInput \/ initializeWorkflow
             \/ runClean \/ runAnyway \/ saveAndRun \/ UNCHANGED vars
    BY <1>1, <2>1
       DEF Select, Type, updateSelectedNodeData, AtOnce, edit, Focus, Read,
           updateDefinitionFromInput, initializeWorkflow, runClean, runAnyway, saveAndRun,
           Inv, Saving, SaveIsKnown, store, TypeOK, send, vars
  <2>2. ASSUME NEW n \in Nodes, Foreign(n) PROVE SaveIsKnown'
    BY <2>2 DEF Inv, SaveIsKnown, Foreign
  <2>3. ASSUME NEW s \in Saves, saveWorkflow(s) PROVE SaveIsKnown'
    <3>1. SUFFICES ASSUME blame' = {} PROVE SaveIsKnown'
      BY DEF SaveIsKnown
    <3>2. blame = {} /\ InFlight = {} /\ open
      BY <2>3, <3>1 DEF saveWorkflow, send, savable
    <3>3. changes \/ Stored(doc) = server
      BY <1>1, <3>2 DEF Inv, CleanMeansStored
    <3>4. QED
      BY <1>1, <2>3, <3>2, <3>3
         DEF Inv, TypeOK, Saving, SaveIsKnown, InFlight, store, saveWorkflow, send
  <2>4. ASSUME NEW s \in Saves, NEW answer \in {"ok", "failed"}, Store(s, answer)
        PROVE SaveIsKnown'
    BY <1>1, <2>4 DEF Inv, Saving, SaveIsKnown, OneSave, InFlight, Store
  <2>5. ASSUME NEW s \in Saves, Reject(s) PROVE SaveIsKnown'
    BY <2>5 DEF Inv, SaveIsKnown, Reject
  <2>6. ASSUME NEW s \in Saves, setLastDeployedAt(s) PROVE SaveIsKnown'
    BY <1>1, <2>6 DEF Inv, Saving, SaveIsKnown, OneSave, InFlight, setLastDeployedAt
  <2>7. CASE reset
    BY <2>7 DEF Inv, SaveIsKnown, InFlight, reset, UnderWay
  <2>8. QED
    BY <1>1, <2>1, <2>2, <2>3, <2>4, <2>5, <2>6, <2>7, EditsAtOnce DEF Next, Request

LEMMA AbsentStep == Inv /\ [Next]_vars => DroppedIsAbsent'
<1>1. SUFFICES ASSUME Inv, [Next]_vars PROVE DroppedIsAbsent'
  OBVIOUS
<1>2. DroppedIsAbsent /\ TypeOK
  BY <1>1 DEF Inv, Saving
<1>3. ASSUME NEW s \in Saves, send(s), server' = server PROVE DroppedIsAbsent'
  BY <1>2, <1>3 DEF send, Stored, DroppedIsAbsent, TypeOK
<1>4. ASSUME NEW s \in Saves, Request(s) PROVE DroppedIsAbsent'
  <2>1. CASE saveWorkflow(s)
    BY <1>3, <2>1 DEF saveWorkflow
  <2>2. ASSUME NEW answer \in {"ok", "failed"}, Store(s, answer) PROVE DroppedIsAbsent'
    BY <1>2, <2>2 DEF Store, DroppedIsAbsent, TypeOK
  <2>3. CASE Reject(s)
    BY <1>2, <2>3 DEF Reject, DroppedIsAbsent, TypeOK
  <2>4. CASE setLastDeployedAt(s)
    BY <1>2, <2>4 DEF setLastDeployedAt, Unsent, DroppedIsAbsent, TypeOK
  <2>5. QED
    BY <1>4, <2>1, <2>2, <2>3, <2>4 DEF Request
<1>5. CASE saveAndRun
  BY <1>2, <1>3, <1>5 DEF saveAndRun, DroppedIsAbsent
<1>6. ASSUME NEW n \in Nodes, Foreign(n) PROVE DroppedIsAbsent'
  BY <1>2, <1>6 DEF Foreign, DroppedIsAbsent, TypeOK, Content
<1>7. CASE \/ \E n \in Nodes \cup {Nobody} : Select(n)
           \/ \E n \in Nodes : updateSelectedNodeData(n) \/ AtOnce(n)
           \/ Type \/ Focus \/ Read \/ updateDefinitionFromInput \/ reset
           \/ initializeWorkflow \/ runClean \/ runAnyway \/ UNCHANGED vars
  <2>1. UNCHANGED <<server, saves>>
    BY <1>7
       DEF Select, updateSelectedNodeData, AtOnce, edit, Type, Focus, Read,
           updateDefinitionFromInput, reset, initializeWorkflow, runClean, runAnyway, vars
  <2>2. QED
    BY <1>2, <2>1 DEF DroppedIsAbsent
<1>8. QED
  BY <1>1, <1>4, <1>5, <1>6, <1>7, EditsAtOnce DEF Next

LEMMA SettledStep == Inv /\ TypeOK' /\ [Next]_vars => ClosedIsSettled'
<1>1. SUFFICES ASSUME Inv, TypeOK', [Next]_vars PROVE ClosedIsSettled'
  OBVIOUS
<1>2. QED
  <2>1. CASE \/ \E n \in Nodes \cup {Nobody} : Select(n)
             \/ \E n \in Nodes : AtOnce(n) \/ Foreign(n)
             \/ \E s \in Saves : saveWorkflow(s)
             \/ Type \/ initializeWorkflow
    BY <2>1
       DEF Select, Type, AtOnce, edit, Foreign, saveWorkflow, initializeWorkflow,
           Inv, ClosedIsSettled, store, savable
  <2>2. CASE \/ \E n \in Nodes : updateSelectedNodeData(n)
             \/ runAnyway \/ saveAndRun
    BY <1>1, <2>2
       DEF updateSelectedNodeData, runAnyway, saveAndRun, Inv, ClosedIsSettled, Shape,
           ClosedIsQuiet, store
  <2>3. ASSUME NEW s \in Saves, NEW answer \in {"ok", "failed"}, Store(s, answer)
        PROVE ClosedIsSettled'
    BY <1>1, <2>3 DEF Inv, Saving, ClosedIsSettled, InFlight, store, Store
  <2>4. CASE \E s \in Saves : Reject(s) \/ setLastDeployedAt(s)
    BY <1>1, <2>4
       DEF Reject, setLastDeployedAt, Inv, Saving, ClosedIsSettled, InFlight, store
  <2>5. CASE Focus
    BY <1>1, <2>5 DEF Inv, Saving, ClosedIsSettled, InFlight, store, Focus
  <2>6. CASE Read
    BY <1>1, <2>6 DEF Inv, Saving, ClosedIsSettled, InFlight, store, Read
  <2>7. CASE updateDefinitionFromInput
    BY <1>1, <2>7
       DEF Inv, Saving, ClosedIsSettled, InFlight, NoFetch, updateDefinitionFromInput
  <2>8. CASE reset
    BY <2>8 DEF Inv, ClosedIsSettled, InFlight, reset, UnderWay
  <2>9. CASE runClean
    BY <1>1, <2>9 DEF Inv, Saving, ClosedIsSettled, InFlight, store, runClean
  <2>10. CASE UNCHANGED vars
    BY <1>1, <2>10 DEF Inv, Saving, ClosedIsSettled, InFlight, store, vars
  <2>11. QED
    BY <1>1, <2>1, <2>2, <2>3, <2>4, <2>5, <2>6, <2>7, <2>8, <2>9, <2>10, EditsAtOnce DEF Next, Request

\* What is stored is its own stored form.
LEMMA StoredAgain == TypeOK /\ DroppedIsAbsent => Stored(server) = server
  BY DEF TypeOK, DroppedIsAbsent, Stored, Content

\* A save that ends with nothing gone wrong has stored the working copy.
LEMMA EndedSave ==
    ASSUME TypeOK, Saving, NEW s \in Saves, setLastDeployedAt(s), blame' = {}
    PROVE  blame = {} /\ Stored(doc) = server
<1>1. blame = {} /\ Stored(doc) = saves[s].body
  BY DEF setLastDeployedAt
<1>2. saves[s].state = "ok"
  BY DEF setLastDeployedAt, Saving, FailureIsMarked
<1>3. QED
  BY <1>1, <1>2 DEF Saving, SaveIsKnown

LEMMA CleanStep == Inv /\ TypeOK' /\ [Next]_vars => CleanMeansStored'
<1>1. SUFFICES ASSUME Inv, TypeOK', [Next]_vars PROVE CleanMeansStored'
  OBVIOUS
<1>2. QED
  <2>1. CASE \/ \E n \in Nodes \cup {Nobody} : Select(n)
             \/ \E s \in Saves : saveWorkflow(s)
             \/ Type \/ Focus \/ Read \/ runClean \/ UNCHANGED vars
    BY <1>1, <2>1
       DEF Select, Type, saveWorkflow, Focus, Read, runClean, Inv, CleanMeansStored,
           store, send, vars
  <2>2. CASE \E n \in Nodes : updateSelectedNodeData(n) \/ AtOnce(n)
    BY <2>2 DEF updateSelectedNodeData, AtOnce, edit, Inv, CleanMeansStored
  <2>3. ASSUME NEW n \in Nodes, Foreign(n) PROVE CleanMeansStored'
    BY <1>1, <2>3
       DEF Inv, TypeOK, Saving, ClosedIsSettled, SaveIsKnown, FailureIsMarked,
           CleanMeansStored, Shape, ClosedIsQuiet, InFlight, Unsent, NoFetch, store,
           Foreign
  <2>4. ASSUME NEW s \in Saves, NEW answer \in {"ok", "failed"}, Store(s, answer)
        PROVE CleanMeansStored'
    BY <1>1, <2>4 DEF Inv, Saving, SaveIsKnown, CleanMeansStored, store, Store
  <2>5. ASSUME NEW s \in Saves, Reject(s) PROVE CleanMeansStored'
    BY <2>5 DEF Inv, CleanMeansStored, Reject
  <2>6. ASSUME NEW s \in Saves, setLastDeployedAt(s) PROVE CleanMeansStored'
    <3>1. SUFFICES ASSUME blame' = {} PROVE Stored(doc) = server
      BY <2>6 DEF CleanMeansStored, Stored, setLastDeployedAt
    <3>2. QED
      BY <1>1, <2>6, <3>1, EndedSave DEF Inv
  <2>7. CASE updateDefinitionFromInput
    BY <1>1, <2>7
       DEF Inv, TypeOK, Saving, ClosedIsSettled, SaveIsKnown, FailureIsMarked,
           CleanMeansStored, Shape, ClosedIsQuiet, InFlight, Unsent, NoFetch, store,
           updateDefinitionFromInput
  <2>8. CASE reset
    BY <2>8 DEF Inv, CleanMeansStored, reset
  <2>9. CASE initializeWorkflow
    <3>1. SUFFICES ASSUME blame' = {} PROVE Stored(doc') = server'
      BY DEF CleanMeansStored, Stored
    <3>2. doc' = server /\ server' = server
      BY <1>1, <2>9, <3>1 DEF Inv, Saving, ClosedIsSettled, initializeWorkflow
    <3>3. QED
      BY <1>1, <3>2, StoredAgain DEF Inv, Saving
  <2>10. CASE runAnyway
    BY <2>10 DEF Inv, CleanMeansStored, store, runAnyway
  <2>11. CASE saveAndRun
    BY <2>11 DEF Inv, CleanMeansStored, store, saveAndRun
  <2>12. QED
    BY <1>1, <2>1, <2>2, <2>3, <2>4, <2>5, <2>6, <2>7, <2>8, <2>9, <2>10, <2>11,
       EditsAtOnce DEF Next, Request

LEMMA LastEditStep == Inv /\ TypeOK' /\ [Next]_vars => LastEdit'
<1>1. SUFFICES ASSUME Inv, TypeOK', [Next]_vars PROVE LastEdit'
  OBVIOUS
<1>2. QED
  <2>1. CASE \/ \E n \in Nodes \cup {Nobody} : Select(n)
             \/ \E s \in Saves : saveWorkflow(s) \/ Reject(s) \/ setLastDeployedAt(s)
             \/ \E s \in Saves, answer \in {"ok", "failed"} : Store(s, answer)
             \/ Focus \/ Read \/ updateDefinitionFromInput \/ reset \/ runClean
             \/ runAnyway \/ saveAndRun \/ UNCHANGED vars
    <3>1. /\ "edits" \notin blame' => "edits" \notin blame
          /\ UNCHANGED <<latest, pending>>
          /\ "edits" \notin blame' => doc' = doc
      BY <1>1, <2>1
         DEF Select, saveWorkflow, Store, Reject, setLastDeployedAt, Focus, Read,
             updateDefinitionFromInput, reset, runClean, runAnyway, saveAndRun,
             store, send, vars
    <3>2. QED
      BY <1>1, <3>1 DEF Inv, LastEdit, Owes
  <2>2. CASE Type
    <3>1. edits' \in Values /\ edits' # Nobody
      BY <1>1, <2>2 DEF TypeOK, Values
    <3>2. QED
      BY <1>1, <2>2, <3>1 DEF Inv, TypeOK, LastEdit, Owes, Type, Content
  <2>3. ASSUME NEW n \in Nodes, updateSelectedNodeData(n) PROVE LastEdit'
    <3>1. SUFFICES ASSUME "edits" \notin blame'
                   PROVE  \A m \in Nodes : latest'[m] =
                            IF Owes(m)' THEN pending'[m] ELSE doc'[m]
      BY DEF LastEdit
    <3>2. selected = n /\ "edits" \notin blame
      BY <2>3, <3>1 DEF updateSelectedNodeData
    <3>3. open /\ selected # Nobody
      BY <1>1, <3>2 DEF Inv, Shape, ClosedIsQuiet
    <3>4. doc' = IF n \in Triggers THEN doc ELSE [doc EXCEPT ![n] = pending[n]]
      BY <2>3, <3>2, <3>3 DEF updateSelectedNodeData
    <3>5. pending[n] # Nobody /\ pending' = [pending EXCEPT ![n] = Nobody] /\ latest' = latest
      BY <2>3 DEF updateSelectedNodeData
    <3>6. QED
      BY <1>1, <3>2, <3>4, <3>5 DEF Inv, TypeOK, LastEdit, Owes, Content
  <2>4. ASSUME NEW n \in Nodes, AtOnce(n) PROVE LastEdit'
    BY <1>1, <2>4
       DEF Inv, TypeOK, LastEdit, Owes, Shape, OnlyFormsWrite, Content, AtOnce, edit
  <2>5. ASSUME NEW n \in Nodes, Foreign(n) PROVE LastEdit'
    BY <2>5 DEF Inv, LastEdit, Foreign
  <2>6. CASE initializeWorkflow
    BY <1>1, <2>6 DEF Inv, LastEdit, Owes, Saving, ClosedIsSettled, initializeWorkflow
  <2>7. QED
    BY <1>1, <2>1, <2>2, <2>3, <2>4, <2>5, <2>6, EditsAtOnce DEF Next, Request

LEMMA RunsStep == Inv /\ TypeOK' /\ [Next]_vars => RunsWhatIsShown'
<1>1. SUFFICES ASSUME Inv, TypeOK', [Next]_vars PROVE RunsWhatIsShown'
  OBVIOUS
<1>2. QED
  <2>1. CASE \/ \E n \in Nodes \cup {Nobody} : Select(n)
             \/ \E n \in Nodes : updateSelectedNodeData(n) \/ AtOnce(n)
             \/ \E s \in Saves : saveWorkflow(s)
             \/ \E s \in Saves, answer \in {"ok", "failed"} : Store(s, answer)
             \/ Type \/ Focus \/ Read \/ updateDefinitionFromInput \/ reset
             \/ initializeWorkflow \/ saveAndRun \/ UNCHANGED vars
    BY <1>1, <2>1
       DEF Select, Type, updateSelectedNodeData, AtOnce, edit, saveWorkflow, Store,
           Focus, Read, updateDefinitionFromInput, reset, initializeWorkflow, saveAndRun,
           Inv, RunsWhatIsShown, send, cleared, UnderWay, vars
  <2>2. ASSUME NEW n \in Nodes, Foreign(n) PROVE RunsWhatIsShown'
    BY <2>2 DEF Inv, RunsWhatIsShown, Foreign
  <2>3. ASSUME NEW s \in Saves, Reject(s) PROVE RunsWhatIsShown'
    BY <2>3 DEF Inv, RunsWhatIsShown, Reject
  <2>4. ASSUME NEW s \in Saves, setLastDeployedAt(s) PROVE RunsWhatIsShown'
    <3>1. SUFFICES ASSUME blame' = {} PROVE lastRun'.asShown
      BY DEF RunsWhatIsShown
    <3>2. Stored(doc) = server /\ blame = {}
      BY <1>1, <2>4, <3>1, EndedSave DEF Inv
    <3>3. CASE waiting /\ changes
      <4>1. open
        BY <1>1, <3>3 DEF Inv, Shape, ClosedIsQuiet
      <4>2. ranNow("saved")
        BY <2>4, <3>3 DEF setLastDeployedAt, cleared
      <4>3. QED
        BY <3>2, <4>1, <4>2 DEF ranNow, shown
    <3>4. CASE ~(waiting /\ changes)
      BY <1>1, <2>4, <3>2, <3>4 DEF Inv, RunsWhatIsShown, setLastDeployedAt, cleared
    <3>5. QED
      BY <3>3, <3>4
  <2>5. CASE runClean
    BY <1>1, <2>5, StoredAgain
       DEF Inv, Saving, ClosedIsSettled, CleanMeansStored, RunsWhatIsShown,
           runClean, ranNow, shown
  <2>6. CASE runAnyway
    BY <2>6 DEF Inv, RunsWhatIsShown, NoRun, runAnyway
  <2>7. QED
    BY <1>1, <2>1, <2>2, <2>3, <2>4, <2>5, <2>6, EditsAtOnce DEF Next, Request

----------------------------------------------------------------------------
LEMMA InvStep == Inv /\ [Next]_vars => Inv'
<1>1. SUFFICES ASSUME Inv, [Next]_vars PROVE Inv'
  OBVIOUS
<1>2. TypeOK'
  BY <1>1, TypeStep DEF Inv
<1>3. Saving'
  BY <1>1, <1>2, FailureStep, OneSaveStep, SaveIsKnownStep, SettledStep, AbsentStep DEF Saving
<1>4. QED
  BY <1>1, <1>2, <1>3, ShapeStep, CleanStep, LastEditStep, RunsStep DEF Inv

THEOREM AlwaysInv == Spec => []Inv
<1>1. QED
  BY InitInv, InvStep, PTL DEF Spec

\* The state of the page keeps its types, whatever is typed, saved and read.
THEOREM TypeCorrect == Spec => []TypeOK
<1>1. Inv => TypeOK
  BY DEF Inv
<1>2. QED
  BY <1>1, AlwaysInv, PTL

\* With nothing gone wrong, no changes mark means that the server has the stored
\* form of what is on screen (useUIBuilderUnsavedChanges, setLastDeployedAt,
\* getYamlWorkflowDefinition).
THEOREM CleanIsStored == Spec => []CleanMeansStored
<1>1. Inv => CleanMeansStored
  BY DEF Inv
<1>2. QED
  BY <1>1, AlwaysInv, PTL

\* A save that is refused, fails or is overtaken loses no edit by itself: the
\* last edit of a node is on screen or about to be written to the store.
THEOREM EditsAreKept == Spec => []EditsAccounted
<1>1. Inv => EditsAccounted
  BY DEF Inv, LastEdit, Owes, EditsAccounted
<1>2. QED
  BY <1>1, AlwaysInv, PTL

\* With nothing gone wrong, a run executes the stored form of what the page shows
\* (handleRunClick).
THEOREM RunsAreShown == Spec => []RunsWhatIsShown
<1>1. Inv => RunsWhatIsShown
  BY DEF Inv
<1>2. QED
  BY <1>1, AlwaysInv, PTL

----------------------------------------------------------------------------
(***************************************************************************)
(* No edit is undone.  What is stored is no newer than what a save in      *)
(* flight carries, that no newer than the working copy, and that no newer  *)
(* than what a form is about to write: edits move forward along this line  *)
(* and nothing moves them back.                                            *)
(***************************************************************************)
Forward ==
  "edits" \notin blame =>
    \A n \in Nodes :
      /\ server[n] <= doc[n] /\ doc[n] <= edits
      /\ \A s \in InFlight : server[n] <= saves[s].body[n] /\ saves[s].body[n] <= doc[n]
      /\ Owes(n) => doc[n] <= pending[n] /\ pending[n] <= edits

GoesOn ==
  "edits" \notin blame' =>
    \A n \in Nodes : doc'[n] >= doc[n] /\ server'[n] >= server[n]

LEMMA EditsAreNumbers ==
    ASSUME TypeOK, NEW n \in Nodes
    PROVE  /\ doc[n] \in Nat /\ server[n] \in Nat /\ edits \in Nat
           /\ pending[n] # Nobody => pending[n] \in Nat
           /\ \A s \in Saves : saves[s].body[n] \in Nat
  BY DEF TypeOK, Content, Values

\* Nothing was edited or stored.
LEMMA StaysForward ==
    ASSUME TypeOK, Forward, UNCHANGED <<server, doc, pending, edits>>, blame \subseteq blame',
           \A s \in InFlight' : s \in InFlight /\ saves'[s].body = saves[s].body
    PROVE  Forward' /\ GoesOn
<1>1. GoesOn
  BY EditsAreNumbers DEF GoesOn
<1>2. Forward'
  BY DEF Forward, Owes
<1>3. QED
  BY <1>1, <1>2

\* A key in a form, or an edit written at once, is the newest edit there is.
LEMMA EditForward ==
    ASSUME Inv, Forward, Type \/ \E n \in Nodes : AtOnce(n)
    PROVE  Forward' /\ GoesOn
<1>0. TypeOK
  BY DEF Inv
<1>1. CASE Type
  <2>1. /\ UNCHANGED <<server, saves, blame>> /\ edits' = edits + 1
        /\ \A n \in Nodes : pending'[n] = pending[n] \/ pending'[n] = edits + 1
    BY <1>1 DEF Type
  <2>2. \A n \in Nodes : doc'[n] = doc[n] \/ (n \in Triggers /\ doc'[n] = edits + 1)
    BY <1>0, <1>1 DEF Type, TypeOK, Content
  <2>3. QED
    BY <1>0, <2>1, <2>2, EditsAreNumbers DEF Forward, Owes, GoesOn, InFlight
<1>2. ASSUME NEW n \in Nodes, AtOnce(n) PROVE Forward' /\ GoesOn
  <2>1. /\ UNCHANGED <<server, pending, saves, blame>> /\ edits' = edits + 1
        /\ ~Owes(n) /\ doc'[n] = edits + 1
        /\ \A m \in Nodes : m # n => doc'[m] = doc[m]
    BY <1>2 DEF AtOnce, edit, Owes, TypeOK, Content, Inv, Shape, OnlyFormsWrite
  <2>2. InFlight' = InFlight /\ \A m \in Nodes : Owes(m)' <=> Owes(m)
    BY <2>1 DEF Owes, InFlight
  <2>3. SUFFICES ASSUME "edits" \notin blame PROVE Forward' /\ GoesOn
    BY <2>1 DEF Forward, GoesOn
  <2>4. ASSUME NEW m \in Nodes
        PROVE  /\ server'[m] <= doc'[m] /\ doc'[m] <= edits' /\ doc[m] <= doc'[m]
               /\ \A s \in InFlight : server[m] <= saves[s].body[m] /\ saves[s].body[m] <= doc'[m]
               /\ Owes(m)' => doc'[m] <= pending'[m] /\ pending'[m] <= edits'
    <3>1. CASE m = n
      BY <1>0, <2>1, <2>2, <2>3, <3>1, EditsAreNumbers DEF Forward, InFlight
    <3>2. CASE m # n
      BY <1>0, <2>1, <2>2, <2>3, <3>2, EditsAreNumbers DEF Forward, Owes, InFlight
    <3>3. QED
      BY <3>1, <3>2
  <2>5. QED
    BY <1>0, <2>1, <2>2, <2>4, EditsAreNumbers DEF Forward, GoesOn
<1>3. QED
  BY <1>1, <1>2

\* A form writes to its own node, or that is an accident.
LEMMA FormForward ==
    ASSUME Inv, Forward, NEW n \in Nodes, updateSelectedNodeData(n)
    PROVE  Forward' /\ GoesOn
<1>0. TypeOK
  BY DEF Inv
<1>1. SUFFICES ASSUME "edits" \notin blame' PROVE Forward' /\ GoesOn
  BY DEF Forward, GoesOn
<1>2. selected = n /\ "edits" \notin blame
  BY <1>1 DEF updateSelectedNodeData
<1>3. open /\ selected # Nobody
  BY <1>2 DEF Inv, Shape, ClosedIsQuiet
<1>4. /\ UNCHANGED <<server, edits, saves>>
      /\ doc'[n] = (IF Owes(n) THEN pending[n] ELSE doc[n])
      /\ pending'[n] = Nobody
      /\ \A m \in Nodes : m # n => doc'[m] = doc[m] /\ pending'[m] = pending[m]
  BY <1>0, <1>2, <1>3 DEF updateSelectedNodeData, Owes, TypeOK, Content
<1>5. QED
  BY <1>0, <1>2, <1>4, EditsAreNumbers DEF Forward, Owes, GoesOn, InFlight

\* A save carries the working copy, or nothing for a node that is not stored, and
\* crosses no other.
LEMMA SendForward ==
    ASSUME Inv, Forward, NEW s \in Saves, send(s), UNCHANGED <<server, doc, pending, edits>>
    PROVE  Forward' /\ GoesOn
<1>0. TypeOK
  BY DEF Inv
<1>1. SUFFICES ASSUME "edits" \notin blame' PROVE Forward' /\ GoesOn
  BY DEF Forward, GoesOn
<1>2. InFlight = {} /\ "edits" \notin blame
  BY <1>1 DEF send
<1>3. saves'[s].body = Stored(doc) /\ \A r \in InFlight' : r = s
  BY <1>0, <1>2 DEF send, TypeOK, InFlight
<1>4. \A n \in Nodes : server[n] <= Stored(doc)[n] /\ Stored(doc)[n] <= doc[n]
  BY <1>0, <1>2, EditsAreNumbers DEF Forward, Stored, Inv, Saving, DroppedIsAbsent
<1>5. QED
  BY <1>0, <1>2, <1>3, <1>4, EditsAreNumbers DEF Forward, Owes, GoesOn

\* What is stored is what the one save in flight carries.
LEMMA StoreForward ==
    ASSUME Inv, Forward, NEW s \in Saves, NEW answer \in {"ok", "failed"}, Store(s, answer)
    PROVE  Forward' /\ GoesOn
<1>0. TypeOK
  BY DEF Inv
<1>1. SUFFICES ASSUME "edits" \notin blame' PROVE Forward' /\ GoesOn
  BY DEF Forward, GoesOn
<1>2. "edits" \notin blame /\ s \in InFlight
  BY <1>1 DEF Store, InFlight
<1>3. /\ UNCHANGED <<doc, pending, edits>> /\ server' = saves[s].body
      /\ \A r \in InFlight' : r \in InFlight /\ saves'[r].body = saves[r].body
  BY DEF Store, store, InFlight
<1>4. \A r \in InFlight : r = s
  BY <1>2 DEF Inv, Saving, OneSave
<1>5. QED
  BY <1>0, <1>2, <1>3, <1>4, EditsAreNumbers DEF Forward, Owes, GoesOn

\* What is read replaces the working copy only if that is what it holds, or that
\* is an accident; a builder that is opened again finds what it was left with.
LEMMA ReadForward ==
    ASSUME Inv, Forward, updateDefinitionFromInput \/ initializeWorkflow
    PROVE  Forward' /\ GoesOn
<1>1. SUFFICES ASSUME "edits" \notin blame' PROVE Forward' /\ GoesOn
  BY DEF Forward, GoesOn
<1>2. UNCHANGED <<server, pending, edits, saves>> /\ blame \subseteq blame'
  BY DEF updateDefinitionFromInput, initializeWorkflow
<1>3. doc' = doc
  <2>1. CASE updateDefinitionFromInput
    BY <1>1, <2>1 DEF updateDefinitionFromInput
  <2>2. CASE initializeWorkflow
    BY <1>1, <2>2 DEF initializeWorkflow, Inv, Saving, ClosedIsSettled
  <2>3. QED
    BY <2>1, <2>2
<1>4. QED
  BY <1>2, <1>3, StaysForward DEF Inv, InFlight

LEMMA ForwardStep == Inv /\ Forward /\ [Next]_vars => Forward' /\ GoesOn
<1>1. SUFFICES ASSUME Inv, Forward, [Next]_vars PROVE Forward' /\ GoesOn
  OBVIOUS
<1>2. ASSUME NEW n \in Nodes \cup {Nobody}, Select(n) PROVE Forward' /\ GoesOn
  BY <1>1, <1>2, StaysForward DEF Inv, InFlight, Select
<1>3. CASE Focus \/ Read \/ reset \/ runClean \/ runAnyway \/ UNCHANGED vars
  BY <1>1, <1>3, StaysForward
     DEF Inv, InFlight, Focus, Read, reset, runClean, runAnyway, vars, store
<1>4. ASSUME NEW s \in Saves, Reject(s) \/ setLastDeployedAt(s) PROVE Forward' /\ GoesOn
  <2>1. UNCHANGED <<server, doc, pending, edits>> /\ blame \subseteq blame'
    BY <1>4 DEF Reject, setLastDeployedAt, store
  <2>2. \A r \in InFlight' : r \in InFlight /\ saves'[r].body = saves[r].body
    BY <1>1, <1>4 DEF Reject, setLastDeployedAt, Inv, TypeOK, InFlight, Unsent
  <2>3. QED
    BY <1>1, <2>1, <2>2, StaysForward DEF Inv
<1>5. ASSUME NEW n \in Nodes, Foreign(n) PROVE Forward' /\ GoesOn
  BY <1>5 DEF Foreign, Forward, GoesOn
<1>6. ASSUME NEW s \in Saves, saveWorkflow(s) PROVE Forward' /\ GoesOn
  BY <1>1, <1>6, SendForward DEF saveWorkflow, store
<1>7. CASE saveAndRun
  <2>1. CASE savable
    BY <1>1, <1>7, <2>1, SendForward DEF saveAndRun, store
  <2>2. CASE ~savable
    BY <1>1, <1>7, <2>2, StaysForward DEF saveAndRun, store, Inv, InFlight
  <2>3. QED
    BY <2>1, <2>2
<1>8. QED
  BY <1>1, <1>2, <1>3, <1>4, <1>5, <1>6, <1>7, EditForward, FormForward, StoreForward,
     ReadForward, EditsAtOnce DEF Next, Request

\* No save, reading, refusal or return to the builder undoes an edit, unless the
\* user or another one interfered (workflow-builder.tsx:94, 177).
THEOREM NoEditIsUndone == Spec => NothingGoesBack
<1>1. Init => Forward
  <2>1. SUFFICES ASSUME Init PROVE Forward
    OBVIOUS
  <2>2. InFlight = {} /\ edits = 0
    BY <2>1 DEF Init, InFlight, Unsent
  <2>3. \A n \in Nodes : server[n] = 0 /\ doc[n] = 0 /\ pending[n] = Nobody
    BY <2>1 DEF Init
  <2>4. \A n \in Nodes : server[n] <= doc[n] /\ doc[n] <= edits
    <3>1. 0 <= 0
      OBVIOUS
    <3>2. QED
      BY <3>1, <2>2, <2>3, Zenon
  <2>5. QED
    BY <2>2, <2>3, <2>4 DEF Forward, Owes
<1>2. Inv /\ Forward /\ [Next]_vars => Forward' /\ [GoesOn]_vars
  BY ForwardStep
<1>3. QED
  BY <1>1, <1>2, AlwaysInv, PTL DEF Spec, NothingGoesBack, GoesOn

-----------------------------------------------------------------------------
(***************************************************************************)
(* The page settles on what is stored.  What is true of each save from     *)
(* some time on is true of all of them from some time on, if they are      *)
(* finitely many: a law of temporal logic whose proof is an induction over *)
(* the set, which is out of the provers' reach and stated as a premise.    *)
(***************************************************************************)
Resting(s) == saves[s].state \in {"unsent", "ended"}

SavesRestTogether ==
  (\A s \in Saves : <>[]Resting(s)) => <>[](\A s \in Saves : Resting(s))

Answered(s) == saves[s].state \in {"ok", "failed"}

LEMMA SaveMoves ==
  ASSUME TypeOK, [Next]_vars, NEW s \in Saves
  PROVE  \/ saves'[s] = saves[s]
         \/ saves[s].state = "unsent" /\ saves'[s].state = "sent"
         \/ saves[s].state = "sent" /\ Answered(s)'
         \/ Answered(s) /\ saves'[s].state = "ended"
<1> DEFINE Moves == \/ saves'[s] = saves[s]
                    \/ saves[s].state = "unsent" /\ saves'[s].state = "sent"
                    \/ saves[s].state = "sent" /\ Answered(s)'
                    \/ Answered(s) /\ saves'[s].state = "ended"
<1>1. saves \in [Saves -> SaveRecord]
  BY DEF TypeOK, SaveRecord
<1>2. ASSUME NEW r \in Saves, send(r) PROVE Moves
  BY <1>1, <1>2 DEF send
<1>3. ASSUME NEW r \in Saves, Request(r) PROVE Moves
  <2>1. CASE saveWorkflow(r)
    BY <1>2, <2>1 DEF saveWorkflow
  <2>2. ASSUME NEW answer \in {"ok", "failed"}, Store(r, answer) PROVE Moves
    BY <1>1, <2>2 DEF Store, SaveRecord, Answered
  <2>3. CASE Reject(r)
    BY <1>1, <2>3 DEF Reject, SaveRecord, Answered
  <2>4. CASE setLastDeployedAt(r)
    BY <1>1, <2>4 DEF setLastDeployedAt, SaveRecord, Answered, Unsent
  <2>5. QED
    BY <1>3, <2>1, <2>2, <2>3, <2>4 DEF Request
<1>4. CASE saveAndRun
  BY <1>2, <1>4 DEF saveAndRun
<1>5. ASSUME NEW n \in Nodes \cup {Nobody},
             Select(n) \/ (n \in Nodes /\ (updateSelectedNodeData(n) \/ AtOnce(n) \/ Foreign(n)))
      PROVE  Moves
  BY <1>5 DEF Select, updateSelectedNodeData, AtOnce, edit, Foreign
<1>6. CASE Type \/ Focus \/ Read \/ updateDefinitionFromInput \/ reset \/ initializeWorkflow
             \/ runClean \/ runAnyway \/ UNCHANGED vars
  BY <1>6 DEF Type, Focus, Read, updateDefinitionFromInput, reset, initializeWorkflow, runClean,
              runAnyway, vars
<1>7. QED
  BY <1>3, <1>4, <1>5, <1>6, EditsAtOnce DEF Next

Under == [][Next]_vars /\ []Inv /\ []EditorGoesOn

ComesToRest(s) == <>[]Resting(s)

LEMMA SaveRests ==
  ASSUME NEW s \in Saves
  PROVE  Under /\ AnswerIsFair(s) /\ EndIsFair(s) => ComesToRest(s)
<1> DEFINE At(x) == saves[s].state = x
<1>1. Inv => At("unsent") \/ At("sent") \/ Answered(s) \/ At("ended")
  BY DEF Inv, TypeOK, Answered
<1>2. Inv /\ At("unsent") /\ [Next]_vars => At("unsent")' \/ At("sent")'
  BY SaveMoves DEF Inv, Answered
<1>3. Inv /\ At("sent") /\ [Next]_vars => At("sent")' \/ Answered(s)'
  BY SaveMoves DEF Inv, Answered
<1>4. Inv /\ Answered(s) /\ [Next]_vars => Answered(s)' \/ At("ended")'
  BY SaveMoves DEF Inv, Answered
<1>5. Inv /\ At("ended") /\ [Next]_vars => At("ended")'
  BY SaveMoves DEF Inv, Answered
<1>6. Inv /\ At("sent") /\ <<Store(s, "ok") \/ Reject(s)>>_vars => Answered(s)'
  BY DEF Inv, TypeOK, Store, Reject, Answered
<1>7. Inv /\ Answered(s) /\ <<setLastDeployedAt(s)>>_vars => At("ended")'
  BY DEF Inv, TypeOK, setLastDeployedAt, Unsent
<1>8. EditorGoesOn /\ At("sent") => CanAnswer(s)
  BY DEF EditorGoesOn
<1>9. EditorGoesOn /\ Answered(s) => CanEnd(s)
  BY DEF EditorGoesOn, Answered
<1>10. At("unsent") \/ At("ended") <=> Resting(s)
  BY DEF Resting
<1>11. At("ended") => ~At("sent") /\ ~Answered(s) /\ ~At("unsent")
  BY DEF Answered
<1>12. QED
  BY <1>1, <1>2, <1>3, <1>4, <1>5, <1>6, <1>7, <1>8, <1>9, <1>10, PTL
     DEF Under, AnswerIsFair, EndIsFair, CanAnswer, CanEnd, ComesToRest

\* What was read is what is stored.
IsFresh == fetch.state = "read" => fetch.body = server

\* With no save in flight the page has what is stored, or is about to read it.
Follows ==
  blame = {} /\ InFlight = {} => IsFresh /\ (fetch.state = "none" => raw = server)

LEMMA BlameStays == [Next]_vars /\ blame' = {} => blame = {}
<1> SUFFICES ASSUME [Next]_vars, blame' = {} PROVE blame = {}
  OBVIOUS
<1>1. ASSUME NEW s \in Saves, send(s) PROVE blame = {}
  BY <1>1 DEF send
<1>2. ASSUME NEW s \in Saves, Request(s) PROVE blame = {}
  BY <1>1, <1>2 DEF Request, saveWorkflow, Store, Reject, setLastDeployedAt
<1>3. CASE saveAndRun
  BY <1>1, <1>3 DEF saveAndRun
<1>4. ASSUME NEW n \in Nodes \cup {Nobody},
             Select(n) \/ (n \in Nodes /\ (updateSelectedNodeData(n) \/ AtOnce(n) \/ Foreign(n)))
      PROVE  blame = {}
  BY <1>4 DEF Select, updateSelectedNodeData, AtOnce, edit, Foreign
<1>5. CASE Type \/ Focus \/ Read \/ updateDefinitionFromInput \/ reset \/ initializeWorkflow
             \/ runClean \/ runAnyway \/ UNCHANGED vars
  BY <1>5 DEF Type, Focus, Read, updateDefinitionFromInput, reset, initializeWorkflow, runClean,
              runAnyway, vars
<1>6. QED
  BY <1>2, <1>3, <1>4, <1>5, EditsAtOnce DEF Next

\* What changes what is stored, what was read and what the page has.
LEMMA ReadingMoves ==
  ASSUME Inv, [Next]_vars, blame' = {}, InFlight' = {}
  PROVE  /\ server' = server
         /\ \/ UNCHANGED <<raw, fetch>> /\ InFlight = {}
            \/ raw' = raw /\ fetch'.state = "asked" /\ (InFlight = {} => fetch.state = "none")
            \/ Read /\ raw' = raw /\ fetch'.state = "read" /\ fetch'.body = server /\ InFlight = {}
            \/ updateDefinitionFromInput /\ raw' = fetch.body /\ fetch'.state = "none" /\ InFlight = {}
<1> DEFINE Moves == /\ server' = server
                    /\ \/ UNCHANGED <<raw, fetch>> /\ InFlight = {}
                       \/ raw' = raw /\ fetch'.state = "asked" /\ (InFlight = {} => fetch.state = "none")
                       \/ Read /\ raw' = raw /\ fetch'.state = "read" /\ fetch'.body = server
                            /\ InFlight = {}
                       \/ updateDefinitionFromInput /\ raw' = fetch.body /\ fetch'.state = "none"
                            /\ InFlight = {}
<1>1. saves \in [Saves -> SaveRecord] /\ fetch \in FetchRecord
  BY DEF Inv, TypeOK, SaveRecord, FetchRecord
<1>2. saves' = saves => InFlight = {}
  BY DEF InFlight
<1>3. ASSUME NEW s \in Saves, send(s) PROVE FALSE
  <2>1. saves'[s].state = "sent"
    BY <1>1, <1>3 DEF send
  <2>2. QED
    BY <2>1 DEF InFlight
<1>4. ASSUME NEW s \in Saves, Request(s) PROVE Moves
  <2>1. CASE saveWorkflow(s)
    BY <1>3, <2>1 DEF saveWorkflow
  <2>2. ASSUME NEW answer \in {"ok", "failed"}, Store(s, answer) PROVE FALSE
    <3>1. saves'[s].state = answer
      BY <1>1, <2>2 DEF Store, SaveRecord
    <3>2. QED
      BY <3>1 DEF InFlight
  <2>3. CASE Reject(s)
    BY <2>3 DEF Reject
  <2>4. CASE setLastDeployedAt(s)
    <3>1. saves[s].state = "ok"
      BY <2>4, BlameStays DEF setLastDeployedAt, Inv, Saving, FailureIsMarked
    <3>2. server' = server /\ raw' = raw /\ fetch'.state = "asked"
      BY <2>4, <3>1 DEF setLastDeployedAt, NoFetch
    <3>3. s \in InFlight
      BY <3>1 DEF InFlight
    <3>4. QED
      BY <3>2, <3>3
  <2>5. QED
    BY <1>4, <2>1, <2>2, <2>3, <2>4 DEF Request
<1>5. CASE saveAndRun
  BY <1>2, <1>3, <1>5 DEF saveAndRun
<1>6. ASSUME NEW n \in Nodes \cup {Nobody},
             Select(n) \/ (n \in Nodes /\ (updateSelectedNodeData(n) \/ AtOnce(n)))
      PROVE  Moves
  BY <1>2, <1>6 DEF Select, updateSelectedNodeData, AtOnce, edit
<1>7. ASSUME NEW n \in Nodes, Foreign(n) PROVE FALSE
  BY <1>7 DEF Foreign
<1>8. CASE Focus
  BY <1>8 DEF Focus, NoFetch
<1>9. CASE Read
  BY <1>2, <1>9 DEF Read
<1>10. CASE updateDefinitionFromInput
  BY <1>2, <1>10 DEF updateDefinitionFromInput, NoFetch
<1>11. CASE Type \/ reset \/ initializeWorkflow \/ runClean \/ runAnyway \/ UNCHANGED vars
  BY <1>2, <1>11 DEF Type, reset, initializeWorkflow, runClean, runAnyway, vars
<1>12. QED
  BY <1>4, <1>5, <1>6, <1>7, <1>8, <1>9, <1>10, <1>11, EditsAtOnce DEF Next

LEMMA FollowsStep == Inv /\ Follows /\ [Next]_vars => Follows'
<1> SUFFICES ASSUME Inv, Follows, [Next]_vars, blame' = {}, InFlight' = {}
             PROVE  IsFresh' /\ (fetch'.state = "none" => raw' = server')
  BY DEF Follows
<1>1. blame = {}
  BY BlameStays
<1>2. CASE UNCHANGED <<raw, fetch>> /\ InFlight = {}
  BY <1>1, <1>2, ReadingMoves DEF Follows, IsFresh
<1>3. CASE fetch'.state = "asked"
  BY <1>3 DEF IsFresh
<1>4. CASE fetch'.state = "read" /\ fetch'.body = server
  BY <1>4, ReadingMoves DEF IsFresh
<1>5. CASE updateDefinitionFromInput /\ raw' = fetch.body /\ fetch'.state = "none" /\ InFlight = {}
  <2>1. fetch.state = "read"
    BY <1>5 DEF updateDefinitionFromInput
  <2>2. fetch.body = server
    BY <1>1, <1>5, <2>1 DEF Follows, IsFresh
  <2>3. QED
    BY <1>5, <2>2, ReadingMoves DEF IsFresh
<1>6. QED
  BY <1>2, <1>3, <1>4, <1>5, ReadingMoves

LEMMA AlwaysFollows == Spec => []Follows
<1>1. Init => Follows
  BY DEF Init, Follows, IsFresh, NoFetch
<1>2. QED
  BY <1>1, FollowsStep, AlwaysInv, PTL DEF Spec

Clean  == blame = {}
Idle   == InFlight = {}
Caught == raw = server /\ IsFresh

LEMMA CatchesUp ==
  Under /\ []Follows /\ []Clean /\ []Idle /\ WF_vars(Read) /\ WF_vars(updateDefinitionFromInput)
    => <>[]Caught
<1> DEFINE At(x) == fetch.state = x
<1> USE DEF Clean, Idle
<1>1. Inv /\ Follows /\ Clean /\ Idle => Caught \/ At("asked") \/ At("read")
  <2>1. Inv => fetch.state \in {"none", "asked", "read"}
    BY DEF Inv, TypeOK
  <2>2. QED
    BY <2>1 DEF Follows, Caught
<1>2. Inv /\ Caught /\ [Next]_vars /\ Idle /\ Clean' /\ Idle' => Caught'
  <2> SUFFICES ASSUME Inv, Caught, [Next]_vars, Idle, Clean', Idle' PROVE Caught'
    OBVIOUS
  <2>1. CASE updateDefinitionFromInput /\ raw' = fetch.body /\ fetch'.state = "none"
    <3>1. fetch.state = "read"
      BY <2>1 DEF updateDefinitionFromInput
    <3>2. QED
      BY <2>1, <3>1, ReadingMoves DEF Caught, IsFresh
  <2>2. CASE UNCHANGED <<raw, fetch>>
    BY <2>2, ReadingMoves DEF Caught, IsFresh
  <2>3. CASE raw' = raw /\ (fetch'.state = "asked" \/ fetch'.body = server)
    BY <2>3, ReadingMoves DEF Caught, IsFresh
  <2>4. QED
    BY <2>1, <2>2, <2>3, ReadingMoves
<1>3. Inv /\ At("asked") /\ [Next]_vars /\ Idle /\ Clean' /\ Idle' => At("asked")' \/ At("read")'
  <2> SUFFICES ASSUME Inv, At("asked"), [Next]_vars, Idle, Clean', Idle'
               PROVE  At("asked")' \/ At("read")'
    OBVIOUS
  <2>1. ~updateDefinitionFromInput
    BY DEF updateDefinitionFromInput
  <2>2. QED
    BY <2>1, ReadingMoves
<1>4. At("asked") /\ <<Read>>_vars => At("read")'
  BY DEF Read
<1>5. Inv /\ Follows /\ At("read") /\ [Next]_vars /\ Clean /\ Idle /\ Clean' /\ Idle'
        => At("read")' \/ Caught'
  <2> SUFFICES ASSUME Inv, Follows, At("read"), [Next]_vars, Clean, Idle, Clean', Idle'
               PROVE  At("read")' \/ Caught'
    OBVIOUS
  <2>1. fetch.body = server
    BY DEF Follows, IsFresh
  <2>2. QED
    BY <2>1, ReadingMoves DEF Caught, IsFresh
<1>6. Inv /\ Follows /\ At("read") /\ <<updateDefinitionFromInput>>_vars /\ Clean /\ Idle => Caught'
  <2> SUFFICES ASSUME Follows, At("read"), updateDefinitionFromInput, Clean, Idle PROVE Caught'
    OBVIOUS
  <2>1. fetch.body = server
    BY DEF Follows, IsFresh
  <2>2. QED
    BY <2>1 DEF Caught, IsFresh, updateDefinitionFromInput, NoFetch
<1>7. EditorGoesOn /\ At("asked") => ENABLED <<Read>>_vars
  BY DEF EditorGoesOn
<1>8. EditorGoesOn /\ At("read") => ENABLED <<updateDefinitionFromInput>>_vars
  BY DEF EditorGoesOn
<1>9. QED
  BY <1>1, <1>2, <1>3, <1>4, <1>5, <1>6, <1>7, <1>8, PTL DEF Under

EverySaveIsFair == \A s \in Saves : AnswerIsFair(s) /\ EndIsFair(s)
AllRest == \A s \in Saves : Resting(s)

\* Saves that fail or are answered late, edits, readings and visits of other tabs
\* come to an end or to nothing: while nothing has gone wrong the page has what is
\* stored, or says that it has unsaved changes (workflow-store.ts, useWorkflow).
THEOREM PageSettles ==
  Spec /\ []EditorGoesOn /\ SavesRestTogether => SettlesOnServer
<1>1. Spec => EverySaveIsFair /\ WF_vars(Read) /\ WF_vars(updateDefinitionFromInput)
  BY PTL DEF Spec, Fairness, EverySaveIsFair
<1>2. Spec /\ []EditorGoesOn => Under
  BY AlwaysInv, PTL DEF Spec, Under
<1>3. Spec /\ []EditorGoesOn => \A s \in Saves : ComesToRest(s)
  <2>1. Spec => EverySaveIsFair
    BY <1>1, PTL
  <2>2. ASSUME NEW s \in Saves PROVE Under /\ EverySaveIsFair => ComesToRest(s)
    <3>1. EverySaveIsFair => AnswerIsFair(s) /\ EndIsFair(s)
      BY DEF EverySaveIsFair
    <3>2. QED
      BY <3>1, SaveRests
  <2>3. QED
    BY <1>2, <2>1, <2>2
<1>4. SavesRestTogether /\ (\A s \in Saves : ComesToRest(s)) => <>[]AllRest
  BY DEF SavesRestTogether, ComesToRest, AllRest
<1>5. Spec /\ []EditorGoesOn /\ SavesRestTogether => <>[]AllRest
  BY <1>3, <1>4
<1>6. AllRest => Idle
  BY DEF AllRest, Resting, Idle, InFlight
<1>7. [Next]_vars /\ Clean' => Clean
  BY BlameStays DEF Clean
<1>8. Inv /\ (Clean => Caught)
        => (blame = {} => raw = server /\ (changes \/ ~open \/ Stored(doc) = server))
  BY DEF Inv, CleanMeansStored, Clean, Caught
<1>9. QED
  BY <1>1, <1>2, <1>5, <1>6, <1>7, <1>8, AlwaysFollows, CatchesUp, PTL DEF Under, SettlesOnServer
=============================================================================
