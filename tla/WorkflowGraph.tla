--------------------------- MODULE WorkflowGraph ---------------------------
(***************************************************************************)
(* The workflow builder's store (apps/web: workflow-store.ts, reactFlow.ts,*)
(* parser.ts).  The canvas shows a flat list of nodes and a list of edges; *)
(* every edit changes those two lists, and the definition that is saved is *)
(* rebuilt from the node list alone.  A workflow that is opened goes the   *)
(* other way: parsed from its stored form into a definition, and the       *)
(* definition drawn as nodes and edges.                                    *)
(*                                                                         *)
(* A node's identifier tells its role and the step it belongs to, as in    *)
(* the source ("<type>__end__<id>", "<type>__<id>__empty_true").  Of a     *)
(* step's data only "if" is kept, which decides how the stored form is     *)
(* read back; the rest (provider, parameters, the expression of a          *)
(* condition) is abstracted to its identity, and names are distinct.  The  *)
(* lists can also be changed by hand on the canvas, which leaves the       *)
(* definition alone.  The module uses RECURSIVE operators, as the source   *)
(* does, and is model-checked only.                                        *)
(***************************************************************************)
EXTENDS Naturals, FiniteSets, SequencesExt

CONSTANTS
  MaxSteps,   \* bound: steps in a workflow at once
  Triggers,   \* trigger kinds offered, a subset of those of the toolbox
  Palette,    \* the roles of the steps the user adds
  MaxTyped,   \* bound: tasks whose "if" the user has typed, at once
  MaxByHand,  \* bound: changes by hand on the canvas between two loads
  HandSteps   \* bound: steps in a workflow that is changed by hand

ASSUME MaxStepsAssumption == MaxSteps \in Nat \ {0}
ASSUME TriggersAssumption == Triggers \subseteq {"manual", "interval", "alert", "incident"}
ASSUME PaletteAssumption == Palette \subseteq {"step", "action", "cond", "foreach"}
ASSUME BoundsAssumption == MaxTyped \in Nat /\ MaxByHand \in Nat /\ HandSteps \in Nat

VARIABLES
  nodes,        \* the drawn nodes, in order
  edges,        \* the drawn edges
  properties,   \* the triggers among v2Properties
  ifs,          \* the "if" in the data of each drawn task
  definition,   \* what a save would store: kids, ifs, aliases and triggers
  deployable,   \* the store's canDeploy
  rebuilt,      \* what updateDefinition last rebuilt, whether or not it stood
  byHand        \* how often the lists were changed by hand since they were drawn

vars == <<nodes, edges, properties, ifs, definition, deployable, rebuilt, byHand>>

Tree == INSTANCE WorkflowTree WITH kids <- rebuilt.kids, triggers <- rebuilt.triggers
Held == INSTANCE WorkflowTree WITH kids <- definition.kids, triggers <- definition.triggers

Root    == Tree!Root
Items(seq) == Tree!Items(seq)

Start         == <<"start", 0>>
TriggerStart  == <<"trigger_start", 0>>
TriggerEnd    == <<"trigger_end", 0>>
End           == <<"end", 0>>
TriggerNode(t) == <<t, 0>>
Protected == {Start, TriggerStart, TriggerEnd, End}

Empty(n, branch) == <<CASE branch = "true"  -> "empty_true"
                        [] branch = "false" -> "empty_false"
                        [] branch = "body"  -> "empty_foreach", n[2]>>
Ending(n) == <<IF n[1] = "cond" THEN "cond_end" ELSE "foreach_end", n[2]>>

IsTask(n) == n[1] \in {"step", "action"}
IsCond(n) == n[1] = "cond"
IsLoop(n) == n[1] = "foreach"
IsEmpty(n) == n[1] \in {"empty_true", "empty_false", "empty_foreach"}
IsTrigger(n) == n[1] \in {"manual", "interval", "alert", "incident"}

\* An "if" is absent, a text without variables, or names a condition.
None == <<"", 0>>
Text == <<"text", 0>>

----------------------------------------------------------------------------
(* Drawing: from a definition to nodes and edges.                          *)

\* An element of the sequence that is drawn.  A temp element stands for a
\* node drawn elsewhere: it only contributes its outgoing edge, if any.
Elem(n)        == [id |-> n, drawn |-> TRUE, edge |-> TRUE, label |-> "", to |-> <<>>]
Temp(n)        == [Elem(n) EXCEPT !.drawn = FALSE]
TempNoEdge(n)  == [Temp(n) EXCEPT !.edge = FALSE]
Elems(seq)     == [i \in DOMAIN seq |-> Elem(seq[i])]
Nowhere        == <<"", 0>>

Drawing(ns, es) == [nodes |-> ns, edges |-> es]

createCustomEdgeMeta(source, target, label) == [src |-> source, dst |-> target, label |-> label]

handleDefaultNode(e, next) ==
  Drawing(IF e.drawn THEN <<e.id>> ELSE <<>>,
          IF e.id = End \/ ~e.edge THEN <<>>
          ELSE LET to == IF e.to = <<>> THEN <<next>> ELSE e.to
               IN  [i \in DOMAIN to |-> createCustomEdgeMeta(e.id, to[i], e.label)])

RECURSIVE processWorkflowV2(_, _)

\* One branch of a condition: its first edge leaves the condition and carries
\* the branch's label, and the edge after the condition's end is dropped.
branchOf(kids, n, branch) ==
  LET sub == processWorkflowV2(kids,
               <<Temp(n)>> \o Elems(kids[<<n, branch>>])
               \o <<Elem(Empty(n, branch)), Temp(Ending(n))>>)
  IN  Drawing(sub.nodes, Front([sub.edges EXCEPT ![1].label = branch]))

handleSwitchNode(kids, e, next) ==
  LET no  == branchOf(kids, e.id, "false")
      yes == branchOf(kids, e.id, "true")
  IN  Drawing(<<e.id>> \o no.nodes \o yes.nodes \o <<Ending(e.id)>>,
              no.edges \o yes.edges \o <<createCustomEdgeMeta(Ending(e.id), next, "")>>)

handleForeachNode(kids, e, prev, next) ==
  LET sub == processWorkflowV2(kids,
               <<TempNoEdge(prev), Temp(e.id)>> \o Elems(kids[<<e.id, "body">>])
               \o <<Elem(Empty(e.id, "body")), Temp(Ending(e.id)), TempNoEdge(next)>>)
  IN  Drawing(<<e.id>> \o sub.nodes \o <<Ending(e.id)>>, sub.edges)

processStepV2(kids, e, prev, next) ==
  CASE e.drawn /\ IsCond(e.id) -> handleSwitchNode(kids, e, next)
    [] e.drawn /\ IsLoop(e.id) -> handleForeachNode(kids, e, prev, next)
    [] OTHER                   -> handleDefaultNode(e, next)

processWorkflowV2(kids, seq) ==
  LET at(i) == IF i \in DOMAIN seq THEN seq[i].id ELSE Nowhere
      done == [i \in DOMAIN seq |-> processStepV2(kids, seq[i], at(i - 1), at(i + 1))]
  IN  Drawing(FlattenSeq([i \in DOMAIN seq |-> done[i].nodes]),
              FlattenSeq([i \in DOMAIN seq |-> done[i].edges]))

\* Triggers are drawn between two fixed nodes, each from the first to the second.
getTriggerSteps(order) ==
  LET ids == [i \in DOMAIN order |-> TriggerNode(order[i])]
  IN  <<[Elem(TriggerStart) EXCEPT !.to = ids]>>
      \o [i \in DOMAIN order |-> [Elem(ids[i]) EXCEPT !.to = <<TriggerEnd>>]]
      \o <<Elem(TriggerEnd)>>

drawn(kids, order) ==
  processWorkflowV2(kids,
    <<Elem(Start)>> \o getTriggerSteps(order) \o Elems(kids[<<Root, "body">>]) \o <<Elem(End)>>)

\* The order in which the stored form lists the triggers.
yamlOrder(ts) == SelectSeq(<<"manual", "alert", "interval", "incident">>, LAMBDA t : t \in ts)

----------------------------------------------------------------------------
(* Rebuilding: from the nodes back to a definition.                        *)

RECURSIVE processForeach(_, _, _, _, _), processCondition(_, _, _, _, _, _)

\* A container's scan starts after its node; a task is only itself.  "at" is
\* the position the enclosing loop continues after.
scanInside(ns, i, kids) ==
  CASE IsCond(ns[i]) -> processCondition(ns, i + 1, ns[i], <<>>, {}, kids)
    [] IsLoop(ns[i]) -> processForeach(ns, i + 1, ns[i], <<>>, kids)
    [] OTHER         -> [at |-> i, kids |-> kids]

\* A slip for EditsTheTree: the scan returns the empty node, not the one after.
processForeachOneShort(ns, i, n, temp, kids) ==
  IF i > Len(ns) THEN [at |-> i, kids |-> kids]
  ELSE IF ns[i] = Empty(n, "body")
  THEN [at |-> i, kids |-> [kids EXCEPT ![<<n, "body">>] = temp]]
  ELSE LET inside == scanInside(ns, i, kids)
       IN  processForeach(ns, inside.at + 1, n, Append(temp, ns[i]), inside.kids)

processForeach(ns, i, n, temp, kids) ==
  IF i > Len(ns) THEN [at |-> i, kids |-> kids]
  ELSE IF ns[i] = Empty(n, "body")
  THEN [at |-> i + 1, kids |-> [kids EXCEPT ![<<n, "body">>] = temp]]
  ELSE LET inside == scanInside(ns, i, kids)
       IN  processForeach(ns, inside.at + 1, n, Append(temp, ns[i]), inside.kids)

processCondition(ns, i, n, temp, done, kids) ==
  IF i > Len(ns) \/ done = {"true", "false"} THEN [at |-> i, kids |-> kids]
  ELSE IF \E b \in {"true", "false"} : ns[i] = Empty(n, b)
  THEN LET b == CHOOSE b \in {"true", "false"} : ns[i] = Empty(n, b)
       IN  processCondition(ns, i + 1, n, <<>>, done \cup {b}, [kids EXCEPT ![<<n, b>>] = temp])
  ELSE LET inside == scanInside(ns, i, kids)
       IN  processCondition(ns, inside.at + 1, n, Append(temp, ns[i]), done, inside.kids)

RECURSIVE buildWorkflowDefinition(_, _, _, _)
buildWorkflowDefinition(ns, i, temp, kids) ==
  IF i > Len(ns) THEN [kids EXCEPT ![<<Root, "body">>] = temp]
  ELSE LET inside == scanInside(ns, i, kids)
       IN  buildWorkflowDefinition(ns, inside.at + 1, Append(temp, ns[i]), inside.kids)

\* The first and the last node are left out, and so are the triggers.
reConstructWorklowToDefinition(ns) ==
  buildWorkflowDefinition(
    SelectSeq(SubSeq(ns, 2, Len(ns) - 1),
              LAMBDA n : ~IsTrigger(n) /\ n \notin {TriggerStart, TriggerEnd}),
    1, <<>>, Tree!NoKids)

\* A drawn condition has lost the alias it was stored with.
Rebuilt(ns, props, data) ==
  [kids     |-> reConstructWorklowToDefinition(ns),
   ifs      |-> data,
   aliases  |-> {},
   triggers |-> props]

----------------------------------------------------------------------------
(* Storing: the definition as a list of steps and a list of actions, and   *)
(* the definition read back from them.                                     *)

\* What a stored step or action says: its task, its "if", the loop it repeats
\* over, the condition it carries and whether under an alias.
Entry(task, if, loop, cond, aliased) ==
  [task |-> task, if |-> if, loop |-> loop, cond |-> cond, aliased |-> aliased]

\* A container in the place of a task is stored as if it were one: under a
\* condition as an action, in a foreach as a step.
asTask(n, kind) == IF IsTask(n) THEN n ELSE <<kind, n[2]>>

\* The true branch of a condition.  Under an alias, which a condition with
\* several tasks gets, the first task of each kind carries the condition and
\* its own "if", and the "if" of the others names the alias.
getActionsFromCondition(def, n, loop) ==
  LET tasks   == def.kids[<<n, "true">>]
      branch  == [i \in DOMAIN tasks |-> asTask(tasks[i], "action")]
      aliased == n \in def.aliases \/ Len(branch) > 1
      carries(i) == ~aliased \/ \A j \in 1..(i - 1) : branch[j][1] # branch[i][1]
  IN  [i \in DOMAIN branch |->
         IF carries(i) THEN Entry(branch[i], def.ifs[branch[i]], loop, n, aliased)
         ELSE Entry(branch[i], n, loop, None, FALSE)]

entriesOf(def, n) ==
  CASE IsTask(n) -> <<Entry(n, def.ifs[n], None, None, FALSE)>>
    [] IsCond(n) -> getActionsFromCondition(def, n, None)
    [] IsLoop(n) ->
         LET body  == def.kids[<<n, "body">>]
             conds == SelectSeq(body, IsCond)
         IN  IF conds # <<>> THEN getActionsFromCondition(def, conds[1], n)
             ELSE IF body = <<>> THEN <<>>
             ELSE LET task == asTask(body[1], "step")
                  IN  <<Entry(task, def.ifs[task], n, None, FALSE)>>
    [] OTHER     -> <<>>

getYamlWorkflowDefinition(def) ==
  LET root == def.kids[<<Root, "body">>]
      all  == FlattenSeq([i \in DOMAIN root |-> entriesOf(def, root[i])])
  IN  [steps    |-> SelectSeq(all, LAMBDA e : e.task[1] = "step"),
       actions  |-> SelectSeq(all, LAMBDA e : e.task[1] = "action"),
       triggers |-> def.triggers]

\* The parsed pieces: containers with their tasks, in two lists.
Piece(n, tasks) == [node |-> n, tasks |-> tasks, alias |-> None]
Conditional(e)  == [Piece(e.cond, <<e.task>>) EXCEPT !.alias = IF e.aliased THEN e.cond ELSE None]

\* A slip for SavesAreFaithful: an alias is never resolved.
parseEntryWithoutAlias(acc, e) ==
  IF e.if = None /\ e.loop = None /\ e.cond # None
  THEN [acc EXCEPT !.conditions = Append(@, Conditional(e))]
  ELSE [acc EXCEPT !.steps = Append(@, Piece(e.task, <<>>))]

\* An entry with an "if" goes under the condition of that alias met before it.
\* Where there is none, a condition of its own is not read.
parseEntry(acc, e) ==
  LET known == SelectInSeq(acc.conditions, LAMBDA c : e.if # None /\ c.alias = e.if)
      alone == IF e.loop = None THEN Piece(e.task, <<>>) ELSE Piece(e.loop, <<e.task>>)
  IN  CASE known # 0 ->
             [acc EXCEPT !.conditions[known].tasks = Append(@, e.task)]
        [] e.if = None /\ e.loop = None /\ e.cond # None ->
             [acc EXCEPT !.conditions = Append(@, Conditional(e))]
        [] OTHER -> [acc EXCEPT !.steps = Append(@, alone)]

entries(yaml) == yaml.steps \o yaml.actions

parsedPieces(yaml) ==
  LET acc == FoldLeft(parseEntry, [steps |-> <<>>, conditions |-> <<>>], entries(yaml))
  IN  acc.steps \o acc.conditions

\* A foreach over several tasks of a condition comes back once per task, and
\* so does a condition over a step and an action.
Distinct(pieces) == \A i, j \in DOMAIN pieces : pieces[i].node = pieces[j].node => i = j

parseWorkflow(yaml) ==
  LET pieces == parsedPieces(yaml)
      slot(n) == <<n, IF IsCond(n) THEN "true" ELSE "body">>
  IN  [kids |-> [s \in Tree!Slots |->
                   IF s[1] = Root THEN [i \in DOMAIN pieces |-> pieces[i].node]
                   ELSE IF \E i \in DOMAIN pieces : slot(pieces[i].node) = s
                   THEN pieces[CHOOSE i \in DOMAIN pieces : slot(pieces[i].node) = s].tasks
                   ELSE <<>>],
       ifs      |-> [t \in Tree!Tasks |->
                      LET i == SelectInSeq(entries(yaml), LAMBDA e : e.task = t)
                      IN  IF i = 0 THEN None ELSE entries(yaml)[i].if],
       aliases  |-> {c.alias : c \in Items(pieces)} \ {None},
       triggers |-> yaml.triggers]

Saved(def) == parseWorkflow(getYamlWorkflowDefinition(def))
Duplicates(def) == ~Distinct(parsedPieces(getYamlWorkflowDefinition(def)))

\* Nodes removed by hand can leave the ends of a container among the steps.
Whole(def) == Held!Present(def.kids) \subseteq Tree!Steps

----------------------------------------------------------------------------
(* Editing.                                                                *)

Top(def)      == Items(def.kids[<<Root, "body">>])
In(def, n)    == UNION {Items(def.kids[s]) : s \in {s \in Tree!Slots : s[1] = n}}
Beneath(def)  == UNION {In(def, n) : n \in Top(def)}

\* The variable in the "if" of a task under a condition at the top is looked
\* up from the task, which is searched for at the top and in foreach only:
\* validateDefinition throws.
Unreadable(def) ==
  \E n \in Top(def) : IsCond(n) /\ \E t \in In(def, n) : IsTask(t) /\ IsCond(def.ifs[t])

\* What keeps a workflow from being saved, as far as structure and "if" go.
\* Conditions are looked at on the top and one level below it, and the alias
\* of a condition is not a variable that a task can name.
canDeploy(def) ==
  /\ def.triggers # {}
  /\ Top(def) # {}
  /\ \A n \in Top(def) \cup Beneath(def) : IsCond(n) => def.kids[<<n, "true">>] # <<>>
  /\ \A t \in Top(def) \cup Beneath(def) : IsTask(t) => ~IsCond(def.ifs[t])

\* The definition is rebuilt from the lists and validated.  When that throws,
\* the lists stay as they are and so do the old definition and its verdict.
updateDefinition(kept, verdict) ==
  LET again == Rebuilt(nodes', properties', ifs')
  IN  /\ rebuilt' = again
      /\ definition' = IF Unreadable(again) THEN kept ELSE again
      /\ deployable' = IF Unreadable(again) THEN verdict ELSE canDeploy(again)

Shown(ns, es, props) ==
  /\ nodes' = ns
  /\ edges' = es
  /\ properties' = props
  /\ ifs' = [t \in Tree!Tasks |-> IF t \in Items(ns) THEN ifs[t] ELSE None]
  /\ updateDefinition(definition, deployable)
  /\ UNCHANGED byHand

\* The store is handed a definition and draws it.  Its verdict is the page's
\* last one, or none where the page was left and entered again.
initializeWorkflow(def) ==
  LET d == drawn(def.kids, yamlOrder(def.triggers))
  IN  /\ nodes' = d.nodes
      /\ edges' = Items(d.edges)
      /\ properties' = def.triggers
      /\ ifs' = def.ifs
      /\ \E verdict \in {deployable, FALSE} : updateDefinition(def, verdict)
      /\ byHand' = 0

indexOf(n) == SelectInSeq(nodes, LAMBDA m : m = n)

canAddStepBeforeEdge(source, target) ==
  ~IsEmpty(source) /\ target # TriggerEnd /\ source # Start
canAddConditionBeforeEdge(target) == target[1] \notin {"empty_true", "empty_false"}
canAddForeachBeforeEdge(target) == target[1] # "empty_foreach"

IsStep(n) == IsTask(n) \/ IsCond(n) \/ IsLoop(n)
Used == {n[2] : n \in {m \in Items(nodes) : IsStep(m)}} \cup Held!Numbers(definition.kids)

\* A slip for GraphAgrees: the edge into the new node loses the branch label.
insertedUnlabelled(edge, target, n) ==
  LET sub == processWorkflowV2(Tree!NoKids, <<Temp(edge.src), Elem(n), TempNoEdge(target)>>)
      at  == indexOf(target)
  IN  Drawing(SubSeq(nodes, 1, at - 1) \o sub.nodes \o SubSeq(nodes, at, Len(nodes)),
              Items(sub.edges) \cup {e \in edges : ~(e.src = edge.src /\ e.dst = target)})

\* The new node is drawn between the ends of an edge, which it replaces.
inserted(edge, target, n) ==
  LET sub == processWorkflowV2(Tree!NoKids,
               <<[Temp(edge.src) EXCEPT !.label = edge.label], Elem(n), TempNoEdge(target)>>)
      at  == indexOf(target)
  IN  Drawing(SubSeq(nodes, 1, at - 1) \o sub.nodes \o SubSeq(nodes, at, Len(nodes)),
              Items(sub.edges) \cup {e \in edges : ~(e.src = edge.src /\ e.dst = target)})

addNodeBetween(edge, n) ==
  /\ edge.src # TriggerStart
  /\ canAddStepBeforeEdge(edge.src, edge.dst)
  /\ IsCond(n) => canAddConditionBeforeEdge(edge.dst)
  /\ IsLoop(n) => canAddForeachBeforeEdge(edge.dst)
  /\ indexOf(edge.dst) # 0
  /\ LET d == inserted(edge, edge.dst, n)
     IN  Shown(d.nodes, d.edges, properties)

addTriggerBetween(edge, t) ==
  /\ edge.src = TriggerStart
  /\ TriggerNode(t) \notin Items(nodes)
  /\ indexOf(TriggerEnd) # 0
  /\ LET d == inserted(edge, TriggerEnd, TriggerNode(t))
     IN  Shown(d.nodes, d.edges, properties \cup {t})

\* The nodes from a step's own to its end node go; every edge into the first
\* is joined to every edge out of the last.
deleteNodes(n) ==
  LET from   == indexOf(n)
      ending == IF IsCond(n) \/ IsLoop(n) THEN indexOf(Ending(n)) ELSE 0
      to     == IF ending = 0 THEN from ELSE ending
      gone   == Items(SubSeq(nodes, from, to))
      kept   == {e \in edges : e.src \notin gone /\ e.dst \notin gone}
      sole   == ~\E e \in edges : e.src = TriggerStart /\ e.dst # n
      seen   == IF IsTrigger(n) /\ ~sole THEN {e \in edges : e.src \notin gone} ELSE edges
      sources == {e \in seen : e.dst = n}
      targets == {e \in seen : e.src = nodes[to]}
  IN  /\ from # 0 /\ to < Len(nodes)
      /\ n \notin Protected
      /\ Shown(SubSeq(nodes, 1, from - 1) \o SubSeq(nodes, to + 1, Len(nodes)),
               kept \cup {createCustomEdgeMeta(s.src, t.dst, s.label) : s \in sources, t \in targets},
               IF IsTrigger(n) THEN properties \ {n[1]} ELSE properties)

----------------------------------------------------------------------------
(* By hand: the canvas removes what is selected when a key is pressed, and *)
(* draws an edge between two handles.  The lists change and nothing else.  *)

Drawn(ns, es) ==
  /\ byHand < MaxByHand
  /\ Cardinality(Used) <= HandSteps
  /\ nodes' = ns
  /\ edges' = es
  /\ byHand' = byHand + 1
  /\ UNCHANGED <<properties, ifs, definition, deployable, rebuilt>>

onNodesChange ==
  \E n \in Items(nodes) :
    Drawn(SelectSeq(nodes, LAMBDA m : m # n), {e \in edges : n \notin {e.src, e.dst}})

onEdgesChange ==
  \E e \in edges : Drawn(nodes, edges \ {e})

canConnect(source) ==
  LET out == Cardinality({e \in edges : e.src = source})
  IN  CASE IsCond(source) -> out < 2
        [] IsLoop(source) -> TRUE
        [] OTHER          -> out = 0

onConnect ==
  \E source \in Items(nodes) \ {End}, target \in Items(nodes) \ {Start, TriggerStart} :
    /\ canConnect(source)
    /\ ~\E e \in edges : e.src = source /\ e.dst = target
    /\ Drawn(nodes, edges \cup {createCustomEdgeMeta(source, target, "")})

----------------------------------------------------------------------------
Fresh == CHOOSE i \in (1..MaxSteps) \ Used : \A j \in (1..MaxSteps) \ Used : i <= j

NewWorkflow(ts) ==
  [kids |-> Tree!NoKids, ifs |-> [t \in Tree!Tasks |-> None], aliases |-> {}, triggers |-> ts]

\* A new workflow, opened with some of the triggers.
Init ==
  \E ts \in SUBSET Triggers :
    LET d == drawn(NewWorkflow(ts).kids, yamlOrder(ts))
    IN  /\ nodes = d.nodes
        /\ edges = Items(d.edges)
        /\ properties = ts
        /\ ifs = NewWorkflow(ts).ifs
        /\ rebuilt = Rebuilt(nodes, properties, ifs)
        /\ definition = rebuilt
        /\ deployable = canDeploy(definition)
        /\ byHand = 0

AddStep ==
  /\ Cardinality(Used) < IF byHand = 0 THEN MaxSteps ELSE HandSteps
  /\ \E e \in edges, role \in Palette : addNodeBetween(e, <<role, Fresh>>)

AddTrigger ==
  \E e \in edges, t \in Triggers : addTriggerBetween(e, t)

\* The menu that deletes is offered on steps and triggers only.
Delete ==
  \E n \in Items(nodes) :
    /\ IsStep(n) \/ IsTrigger(n)
    /\ deleteNodes(n)

\* The form of a task writes its "if", or clears it.
updateSelectedNodeData ==
  \E t \in Items(nodes), if \in {None, Text} :
    /\ IsTask(t)
    /\ ifs' = [ifs EXCEPT ![t] = if]
    /\ Cardinality({u \in Tree!Tasks : ifs'[u] = Text}) <= MaxTyped
    /\ UNCHANGED <<nodes, edges, properties, byHand>>
    /\ updateDefinition(definition, deployable)

\* Saved, and opened again.  Two stored forms are not followed: one that
\* repeats a condition or a foreach, whose copies share a name that identities
\* here do not carry, and one made of the ends of a container whose other
\* nodes were removed by hand.
Reload ==
  /\ deployable
  /\ ~Duplicates(definition)
  /\ Whole(definition)
  /\ initializeWorkflow(Saved(definition))

\* The page is left without a save, and a new workflow begun.
BeginAgain == initializeWorkflow(NewWorkflow({}))

Next ==
  \/ AddStep \/ AddTrigger \/ Delete \/ updateSelectedNodeData \/ Reload \/ BeginAgain
  \/ onNodesChange \/ onEdgesChange \/ onConnect

Spec == Init /\ [][Next]_vars

----------------------------------------------------------------------------
(* Properties.                                                             *)

\* Until something is changed by hand, the lists show one tree: drawing it
\* again gives the same nodes (triggers in the order they were added), and the
\* same edges whatever order the edits left them in; and that tree is the
\* definition unless validating it throws.  The definition is rebuilt from the
\* node list alone, so a wrong edge or a misplaced node would be seen by the
\* user and saved as something else, or the other way round.  After a change
\* by hand it holds again once the workflow is loaded.
GraphAgrees ==
  byHand = 0 =>
    LET order == SelectSeq(nodes, IsTrigger)
        d == drawn(rebuilt.kids, [i \in DOMAIN order |-> order[i][1]])
    IN  /\ d.nodes = nodes
        /\ Items(d.edges) = edges
        /\ properties = {n[1] : n \in Items(order)}
        /\ rebuilt = Rebuilt(nodes, properties, ifs)
        /\ ~Unreadable(rebuilt) => definition = rebuilt

\* Every edit of the two lists is an edit of the tree the user sees: an
\* insertion of one node in one slot, or the removal of one node with all that
\* is under it; and a reload shows what the stored form kept of that tree
\* (addNodeBetween, deleteNodes, initializeWorkflow).  Two accidents are
\* named: lists changed by hand, and a reload of a definition that stayed
\* behind the lists, which shows what is kept of the definition.
ReloadsWhatIsHeld ==
  /\ Unreadable(rebuilt)
  /\ Held!Reload
  /\ definition'.kids = rebuilt'.kids /\ definition'.triggers = rebuilt'.triggers

EditsTheTree ==
  /\ Tree!Init
  /\ [][byHand # 0 \/ Tree!Next \/ ReloadsWhatIsHeld]_<<rebuilt.kids, rebuilt.triggers>>

\* What the stored form can say: no task in a false branch, containers at the
\* top only, one task in a foreach, no condition over both kinds of task, no
\* "if" on the task that carries a condition, and no other "if" that names one.
Storable(def) ==
  LET here == Held!Present(def.kids)
      branch(n) == def.kids[<<n, "true">>]
  IN  /\ Held!StoredForm(def.kids)
      /\ \A n \in Tree!Loops \cap here : def.kids[<<n, "body">>] # <<>>
      /\ \A n \in Tree!Conds \cap here :
           /\ Cardinality({t[1] : t \in Items(branch(n))}) = 1
           /\ def.ifs[branch(n)[1]] = None
      /\ \A t \in Tree!Tasks \cap here :
           IsCond(def.ifs[t]) => t \in Items(branch(def.ifs[t]))

Order(def, kind) ==
  LET rank(n) == IF IsLoop(n) THEN def.kids[<<n, "body">>][1][1] ELSE n[1]
  IN  SelectSeq(def.kids[<<Root, "body">>], LAMBDA n : rank(n) = kind)

\* A workflow within the stored form survives a save and a reload: every
\* container keeps its tasks in order, at the top the steps, the actions and
\* the loops over them keep theirs, and so does every "if" outside conditions.
StorableSurvives ==
  Storable(definition) =>
    LET back == Saved(definition)
        conditional == UNION {Items(definition.kids[<<n, "true">>]) : n \in Tree!Conds}
    IN  /\ \A s \in Tree!Slots : s[1] # Root => back.kids[s] = definition.kids[s]
        /\ Top(back) = Top(definition)
        /\ \A kind \in {"step", "action"} : Order(back, kind) = Order(definition, kind)
        /\ \A t \in (Tree!Tasks \cap Held!Present(definition.kids)) \ conditional : back.ifs[t] = definition.ifs[t]

\* One save settles it: what is read back from a stored workflow is stored as
\* the same workflow again.
SaveIsStable ==
  ~Duplicates(definition) =>
    LET back == Saved(definition) IN ~Duplicates(back) /\ Saved(back) = back

\* What is stored can be worked on: it comes back as it was, or stays what the
\* first save made of it.
SavesAreFaithful == Whole(definition) => StorableSurvives /\ SaveIsStable

\* The claim of parser.ts that the conversion preserves "all workflow
\* properties, conditions, and relationships": a workflow that may be saved is
\* stored with all its tasks.  It is violated.
SavePreservesTasks ==
  deployable =>
    \A n \in Tree!Tasks \cap Held!Present(definition.kids) :
      LET yaml == getYamlWorkflowDefinition(definition)
      IN  \E e \in Items(yaml.steps \o yaml.actions) : e.task = n
============================================================================
