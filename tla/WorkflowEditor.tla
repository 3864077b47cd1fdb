-------------------------- MODULE WorkflowEditor --------------------------
(***************************************************************************)
(* Editing, saving and running a workflow from the web application:        *)
(* apps/web, entities/workflows, widgets/workflow-builder, features/       *)
(* workflows.  The builder keeps a working copy of the stored workflow, a  *)
(* mark for unsaved changes and a mark for a form that is not written back *)
(* yet.  A form writes 300 ms after the last key, to whatever node is      *)
(* selected then.  A save is a request that carries the stored form of the *)
(* workflow; when it ends the workflow is read again, and what is read     *)
(* replaces the working copy if it is new.  A run executes what the server *)
(* stores.                                                                 *)
(*                                                                         *)
(* A workflow is abstracted to one value per node, and every edit makes a  *)
(* value of its own, so that an edit can be followed.  The stored form has *)
(* no place for some nodes, such as the tasks of a false branch: they are  *)
(* stored as nothing.  Module WorkflowGraph has the shape of the workflow, *)
(* and what its stored form can say.                                       *)
(***************************************************************************)
EXTENDS Naturals

CONSTANTS
  Nodes,      \* the nodes of the workflow
  Forms,      \* those of them with a form: steps, conditions, loops and triggers
  Triggers,   \* the forms that write at once, and once more when they pause
  Dropped,    \* the nodes the stored form leaves out; at first there is none of them
  Saves,      \* bound: the save requests the user makes, each once
  MaxEdits,   \* bound: edits made in the builder and elsewhere
  Broken,     \* the edits that leave a field invalid
  Nobody      \* no node is selected, nothing is pending

ASSUME FormsAssumption == Forms \subseteq Nodes
ASSUME TriggersAssumption == Triggers \subseteq Forms
ASSUME DroppedAssumption == Dropped \subseteq Nodes
ASSUME MaxEditsAssumption == MaxEdits \in Nat
ASSUME BrokenAssumption == Broken \subseteq 1..MaxEdits
ASSUME NobodyAssumption == Nobody \notin Nodes /\ Nobody \notin Nat

Values  == 0..MaxEdits
Content == [Nodes -> Values]

VARIABLES
  server,     \* the stored workflow
  raw,        \* workflow_raw, as the page last read it
  doc,        \* the working copy in the store
  open,       \* the builder is on the page
  changes,    \* the store's changes # 0
  synced,     \* isEditorSyncedWithNodes
  selected,   \* selectedNode
  pending,    \* node -> the value its form is about to write
  saves,      \* the save requests
  fetch,      \* the reading of the workflow after a save
  waiting,    \* a run waits for changes to become 0
  edits,      \* edits so far
  latest,     \* history: node -> the last edit made to it in the builder
  blame,      \* history: what has gone wrong since the page was opened
  lastRun     \* history: how the last run began, and if it ran what was on screen

store == <<open, changes, synced, selected, pending>>
vars  == <<server, raw, doc, store, saves, fetch, waiting, edits, latest, blame, lastRun>>

\* What is stored of a workflow (getYamlWorkflowDefinition).
Stored(d) == [n \in Nodes |-> IF n \in Dropped THEN 0 ELSE d[n]]

Unsent  == [state |-> "unsent", body |-> [n \in Nodes |-> 0]]
NoFetch == [state |-> "none", body |-> [n \in Nodes |-> 0]]
NoRun   == [by |-> "none", asShown |-> TRUE]

\* What may go wrong.  The marks lie: a save failed, or the copy changed while
\* one was in flight.  Edits are lost: two saves crossed, somebody else changed
\* the workflow, a form wrote after the selection moved, edits that are not
\* stored were replaced by what was read, or the builder was left with something
\* under way.
Blames == {"marks", "edits"}

TypeOK ==
  /\ server \in Content /\ raw \in Content /\ doc \in Content
  /\ open \in BOOLEAN /\ changes \in BOOLEAN /\ synced \in BOOLEAN /\ waiting \in BOOLEAN
  /\ selected \in Nodes \cup {Nobody}
  /\ pending \in [Nodes -> Values \cup {Nobody}]
  /\ saves \in [Saves -> [state : {"unsent", "sent", "ok", "failed", "ended"}, body : Content]]
  /\ fetch \in [state : {"none", "asked", "read"}, body : Content]
  /\ edits \in Values
  /\ latest \in Content
  /\ blame \in SUBSET Blames
  /\ lastRun \in [by : {"none", "clean", "saved", "left"}, asShown : BOOLEAN]

InFlight == {s \in Saves : saves[s].state \in {"sent", "ok", "failed"}}
canDeploy == \A n \in Nodes : doc[n] \notin Broken

----------------------------------------------------------------------------
Init ==
  /\ server = [n \in Nodes |-> 0]
  /\ raw = server /\ doc = server /\ latest = server
  /\ open = TRUE
  /\ changes = FALSE
  /\ synced = TRUE
  /\ selected = Nobody
  /\ pending = [n \in Nodes |-> Nobody]
  /\ saves = [s \in Saves |-> Unsent]
  /\ fetch = NoFetch
  /\ waiting = FALSE
  /\ edits = 0
  /\ blame = {}
  /\ lastRun = NoRun

\* A slip for EditsAccounted: the form cancels its write when it goes.
SelectCancelling(n) ==
  /\ open
  /\ selected' = n
  /\ pending' = [m \in Nodes |-> Nobody]
  /\ UNCHANGED <<server, raw, doc, open, changes, synced, saves, fetch, waiting, edits,
                 latest, blame, lastRun>>

\* A node is selected, or none; each selection mounts a form of its own.
Select(n) ==
  /\ open
  /\ selected' = n
  /\ UNCHANGED <<server, raw, doc, open, changes, synced, pending, saves, fetch, waiting,
                 edits, latest, blame, lastRun>>

\* A key in the form of the selected node: the write is put off.  The form of a
\* trigger writes the properties of the workflow at once, and the node later.
Type ==
  /\ open /\ selected \in Forms /\ edits < MaxEdits
  /\ edits' = edits + 1
  /\ pending' = [pending EXCEPT ![selected] = edits']
  /\ latest' = [latest EXCEPT ![selected] = edits']
  /\ IF selected \in Triggers
     THEN /\ doc' = [doc EXCEPT ![selected] = edits']
          /\ changes' = TRUE
          /\ synced' = TRUE
     ELSE /\ synced' = FALSE
          /\ UNCHANGED <<doc, changes>>
  /\ UNCHANGED <<server, raw, open, selected, saves, fetch, waiting, blame, lastRun>>

\* A slip for TypeOK: the timer fires again after the write.
updateSelectedNodeDataTwice(n) ==
  /\ open /\ selected = n /\ n \in Nodes
  /\ doc' = [doc EXCEPT ![n] = pending[n]]
  /\ pending' = [pending EXCEPT ![n] = Nobody]
  /\ changes' = TRUE
  /\ synced' = TRUE
  /\ UNCHANGED <<server, raw, open, selected, saves, fetch, waiting, edits, latest, blame, lastRun>>

\* The put-off write of a form, to the node selected now.  A trigger is made
\* from the properties of the workflow, and not from its node.
updateSelectedNodeData(n) ==
  /\ pending[n] # Nobody
  /\ pending' = [pending EXCEPT ![n] = Nobody]
  /\ blame' = IF selected = n THEN blame ELSE blame \cup {"edits"}
  /\ IF open /\ selected # Nobody
     THEN /\ doc' = IF selected \in Triggers THEN doc
                    ELSE [doc EXCEPT ![selected] = pending[n]]
          /\ changes' = TRUE
          /\ synced' = TRUE
     ELSE UNCHANGED <<doc, changes, synced>>
  /\ UNCHANGED <<server, raw, open, selected, saves, fetch, waiting, edits, latest, lastRun>>

\* An edit written at once.
edit(n) ==
  /\ open /\ edits < MaxEdits
  /\ edits' = edits + 1
  /\ doc' = [doc EXCEPT ![n] = edits']
  /\ latest' = [latest EXCEPT ![n] = edits']
  /\ changes' = TRUE
  /\ synced' = TRUE
  /\ UNCHANGED <<server, raw, open, pending, saves, fetch, waiting, blame, lastRun>>

\* A property of the workflow, or one of a trigger that is written once.
updateV2Properties(n) ==
  /\ n \in Triggers \/ n \notin Forms
  /\ edit(n)
  /\ selected' = selected

\* A node is added, and selected, or deleted, and none is selected.
addOrDeleteNode(n, m) ==
  /\ n \in Triggers \/ n \notin Forms
  /\ edit(n)
  /\ selected' = m

----------------------------------------------------------------------------
\* A save is refused while a form is not written back or a field is invalid.
\* Nothing refuses it while another is in flight: only buttons are disabled.
savable == open /\ synced /\ canDeploy

send(s) ==
  /\ saves[s].state = "unsent"
  /\ saves' = [saves EXCEPT ![s] = [state |-> "sent", body |-> Stored(doc)]]
  /\ blame' = IF InFlight = {} THEN blame ELSE blame \cup {"edits"}

\* A slip for CleanMeansStored: the mark is cleared when the save is sent.
saveWorkflowOptimistic(s) ==
  /\ savable
  /\ send(s)
  /\ changes' = FALSE
  /\ UNCHANGED <<server, raw, doc, open, synced, selected, pending, fetch, waiting, edits,
                 latest, lastRun>>

saveWorkflow(s) ==
  /\ savable
  /\ send(s)
  /\ UNCHANGED <<server, raw, doc, store, fetch, waiting, edits, latest, lastRun>>

\* The server's side: the workflow is stored, and the answer may be lost.
Store(s, answer) ==
  /\ saves[s].state = "sent"
  /\ answer \in {"ok", "failed"}
  /\ server' = saves[s].body
  /\ saves' = [saves EXCEPT ![s].state = answer]
  /\ blame' = IF answer = "ok" THEN blame ELSE blame \cup {"marks"}
  /\ UNCHANGED <<raw, doc, store, fetch, waiting, edits, latest, lastRun>>

Reject(s) ==
  /\ saves[s].state = "sent"
  /\ saves' = [saves EXCEPT ![s].state = "failed"]
  /\ blame' = blame \cup {"marks"}
  /\ UNCHANGED <<server, raw, doc, store, fetch, waiting, edits, latest, lastRun>>

\* A run executes what is stored; the page shows the working copy, or what it
\* read when the builder is closed.
shown == IF open THEN doc ELSE raw

ranNow(by) ==
  lastRun' = [by |-> by, asShown |-> server = Stored(shown)]

\* The store says that nothing is unsaved, after a save or because the builder
\* was left; a run that waited for it starts.
cleared(by) ==
  /\ changes' = FALSE
  /\ IF waiting /\ changes
     THEN ranNow(by) /\ waiting' = FALSE
     ELSE UNCHANGED <<lastRun, waiting>>

\* A slip for SettlesOnServer: the workflow is not read again.
setLastDeployedAtOnly(s) ==
  /\ saves[s].state \in {"ok", "failed"}
  /\ saves' = [saves EXCEPT ![s] = [Unsent EXCEPT !.state = "ended"]]
  /\ blame' = IF Stored(doc) = saves[s].body THEN blame ELSE blame \cup {"marks"}
  /\ cleared("saved")
  /\ UNCHANGED <<server, raw, doc, open, synced, selected, pending, fetch, edits, latest>>

\* The end of a save.  updateWorkflow answers null for an error and does not
\* throw, so that the changes are cleared either way; after a success the
\* workflow is read again, and an earlier reading is dropped.
setLastDeployedAt(s) ==
  /\ saves[s].state \in {"ok", "failed"}
  /\ saves' = [saves EXCEPT ![s] = [Unsent EXCEPT !.state = "ended"]]
  /\ fetch' = IF saves[s].state = "ok" THEN [NoFetch EXCEPT !.state = "asked"] ELSE fetch
  /\ blame' = IF Stored(doc) = saves[s].body THEN blame ELSE blame \cup {"marks"}
  /\ cleared("saved")
  /\ UNCHANGED <<server, raw, doc, open, synced, selected, pending, edits, latest>>

----------------------------------------------------------------------------
\* The page reads the workflow again when it gets the focus back.
Focus ==
  /\ fetch.state = "none"
  /\ fetch' = [NoFetch EXCEPT !.state = "asked"]
  /\ UNCHANGED <<server, raw, doc, store, saves, waiting, edits, latest, blame, lastRun>>

Read ==
  /\ fetch.state = "asked"
  /\ fetch' = [state |-> "read", body |-> server]
  /\ UNCHANGED <<server, raw, doc, store, saves, waiting, edits, latest, blame, lastRun>>

\* A slip for NothingGoesBack: the builder starts over from the reading before.
updateDefinitionFromBefore ==
  /\ fetch.state = "read"
  /\ fetch' = NoFetch
  /\ raw' = fetch.body
  /\ IF open /\ fetch.body # raw
     THEN /\ doc' = raw
          /\ synced' = TRUE
          /\ blame' = IF doc = fetch.body THEN blame ELSE blame \cup {"edits"}
     ELSE UNCHANGED <<doc, synced, blame>>
  /\ UNCHANGED <<server, open, changes, selected, pending, saves, waiting, edits, latest, lastRun>>

\* What was read arrives.  If it is new, the builder starts over from it,
\* whatever the working copy holds; the changes mark stays as it is.
updateDefinitionFromInput ==
  /\ fetch.state = "read"
  /\ fetch' = NoFetch
  /\ raw' = fetch.body
  /\ IF open /\ fetch.body # raw
     THEN /\ doc' = fetch.body
          /\ synced' = TRUE
          /\ blame' = IF doc = fetch.body THEN blame ELSE blame \cup {"edits"}
     ELSE UNCHANGED <<doc, synced, blame>>
  /\ UNCHANGED <<server, open, changes, selected, pending, saves, waiting, edits, latest, lastRun>>

\* Another user stores the workflow, in the same form.
Foreign(n) ==
  /\ n \notin Dropped
  /\ edits < MaxEdits
  /\ edits' = edits + 1
  /\ server' = [server EXCEPT ![n] = edits']
  /\ blame' = blame \cup {"edits"}
  /\ UNCHANGED <<raw, doc, store, saves, fetch, waiting, latest, lastRun>>

\* The user leaves the builder for another tab of the page: the store is
\* reset, and a form's put-off write stays put off.
UnderWay ==
  \/ changes \/ doc # raw \/ raw # server \/ InFlight # {} \/ fetch.state # "none"
  \/ \E n \in Nodes : pending[n] # Nobody

reset ==
  /\ open
  /\ open' = FALSE
  /\ synced' = TRUE
  /\ selected' = Nobody
  /\ blame' = IF UnderWay THEN blame \cup {"edits"} ELSE blame
  /\ cleared("left")
  /\ UNCHANGED <<server, raw, doc, pending, saves, fetch, edits, latest>>

\* The user comes back: the working copy is made from what was last read.
initializeWorkflow ==
  /\ ~open
  /\ open' = TRUE
  /\ doc' = raw
  /\ UNCHANGED <<server, raw, changes, synced, selected, pending, saves, fetch, waiting, edits,
                 latest, blame, lastRun>>

----------------------------------------------------------------------------
\* The run button.  With unsaved changes the user is asked: save and run, or
\* run what is stored, knowing it.  The run waits for the changes to be cleared
\* even when the save is refused.
runClean ==
  /\ ~changes
  /\ ranNow("clean")
  /\ UNCHANGED <<server, raw, doc, store, saves, fetch, waiting, edits, latest, blame>>

runAnyway ==
  /\ changes
  /\ lastRun' = NoRun
  /\ UNCHANGED <<server, raw, doc, store, saves, fetch, waiting, edits, latest, blame>>

\* A slip for RunsWhatIsShown: the run does not wait for the save.
saveAndRunAtOnce ==
  /\ changes
  /\ ranNow("saved")
  /\ IF savable THEN \E s \in Saves : send(s) ELSE UNCHANGED <<saves, blame>>
  /\ UNCHANGED <<server, raw, doc, store, fetch, waiting, edits, latest>>

saveAndRun ==
  /\ changes
  /\ waiting' = TRUE
  /\ IF savable THEN \E s \in Saves : send(s) ELSE UNCHANGED <<saves, blame>>
  /\ UNCHANGED <<server, raw, doc, store, fetch, edits, latest, lastRun>>

----------------------------------------------------------------------------
Request(s) ==
  \/ saveWorkflow(s)
  \/ \E answer \in {"ok", "failed"} : Store(s, answer)
  \/ Reject(s)
  \/ setLastDeployedAt(s)

Next ==
  \/ \E n \in Nodes \cup {Nobody} : Select(n)
  \/ Type
  \/ \E n \in Nodes : updateSelectedNodeData(n) \/ updateV2Properties(n) \/ Foreign(n)
  \/ \E n \in Nodes, m \in Nodes \cup {Nobody} : addOrDeleteNode(n, m)
  \/ \E s \in Saves : Request(s)
  \/ Focus \/ Read \/ updateDefinitionFromInput
  \/ reset \/ initializeWorkflow
  \/ runClean \/ runAnyway \/ saveAndRun

\* Timers fire, requests are answered and answers arrive; the user owes nothing.
AnswerIsFair(s) == WF_vars(Store(s, "ok") \/ Reject(s))
EndIsFair(s)    == WF_vars(setLastDeployedAt(s))

Fairness ==
  /\ \A n \in Nodes : WF_vars(updateSelectedNodeData(n))
  /\ \A s \in Saves : AnswerIsFair(s) /\ EndIsFair(s)
  /\ WF_vars(Read) /\ WF_vars(updateDefinitionFromInput)

Spec == Init /\ [][Next]_vars /\ Fairness

----------------------------------------------------------------------------
(* Properties.                                                             *)

\* Nothing unsaved on screen means that the stored form of the working copy is
\* what the server has, unless something has gone wrong: the yellow mark, the
\* leave-page guard and the run button all trust it (useUIBuilderUnsavedChanges).
\* It means no more: what the stored form leaves out is on screen, not marked
\* and not stored.
CleanMeansStored == blame = {} /\ open /\ ~changes => Stored(doc) = server

\* The last edit of each node is in the working copy or about to be written to
\* it, unless the selection moved under a form, the builder was left, two saves
\* crossed, what was read replaced it, or somebody else edited too: a save that
\* is refused, fails or is overtaken by an edit loses nothing by itself.
EditsAccounted ==
  "edits" \notin blame =>
    \A n \in Nodes : latest[n] \in {doc[n], pending[n]}

\* Edits are numbered as they are made.  Neither the working copy nor the stored
\* workflow ever goes back to an older edit of a node, whatever is saved, lost,
\* refused, read again or left, short of the same accidents.
NothingGoesBack ==
  [][ "edits" \notin blame' =>
        \A n \in Nodes : doc'[n] >= doc[n] /\ server'[n] >= server[n] ]_vars

\* A run that needs no save, or that waited for the save it asked for, executes
\* the stored form of what the page shows, and no older one, unless something has
\* gone wrong (handleRunClick).
RunsWhatIsShown ==
  blame = {} => lastRun.asShown

\* Requests and readings that are under way can always go on.
CanAnswer(s) == ENABLED <<Store(s, "ok") \/ Reject(s)>>_vars
CanEnd(s)    == ENABLED <<setLastDeployedAt(s)>>_vars

EditorGoesOn ==
  /\ \A s \in Saves : /\ saves[s].state = "sent" => CanAnswer(s)
                      /\ saves[s].state \in {"ok", "failed"} => CanEnd(s)
  /\ fetch.state = "asked" => ENABLED <<Read>>_vars
  /\ fetch.state = "read" => ENABLED <<updateDefinitionFromInput>>_vars

\* When the edits are over and nothing has gone wrong, the page ends up with
\* what is stored, or with changes it says are unsaved, and with nothing else
\* but what the stored form leaves out.
SettlesOnServer ==
  /\ []EditorGoesOn
  /\ <>[](blame = {} => raw = server /\ (changes \/ ~open \/ Stored(doc) = server))

\* The claim of useWorkflowRun.ts, "Ensures all changes are saved to prevent
\* data loss": a run released by the end of its save runs what the user saved.
\* It is violated: a failed save clears the changes as a successful one does.
SavedBeforeRun == lastRun.by = "saved" => lastRun.asShown
============================================================================
