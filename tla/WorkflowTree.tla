--------------------------- MODULE WorkflowTree ---------------------------
(***************************************************************************)
(* What the workflow builder of the web application promises: the user     *)
(* edits an ordered tree.  A workflow is a sequence of nodes; a condition  *)
(* has a true and a false branch, a foreach has a body, and each of these  *)
(* slots holds a sequence of nodes of its own.  Triggers are a set beside  *)
(* the tree.  The screen, and the store behind it, hold a flat list of     *)
(* drawn nodes and a list of edges instead: module WorkflowGraph, which    *)
(* implements this one.                                                    *)
(***************************************************************************)
EXTENDS Naturals, FiniteSets, SequencesExt

CONSTANTS
  MaxSteps,   \* bound: how many steps a workflow holds at once, at least 1
  Triggers    \* the kinds of trigger, each usable once per workflow

VARIABLES
  kids,       \* slot -> the sequence of nodes in it
  triggers    \* the triggers the workflow has

vars == <<kids, triggers>>

Root == <<"root", 0>>

\* A node is a pair of its kind and its identity.
Tasks   == {"step", "action"} \X (1..MaxSteps)
Conds   == {"cond"} \X (1..MaxSteps)
Loops   == {"foreach"} \X (1..MaxSteps)
Steps   == Tasks \cup Conds \cup Loops

Slots == {<<Root, "body">>} \cup (Conds \X {"true", "false"}) \cup (Loops \X {"body"})

NoKids == [s \in Slots |-> <<>>]

Items(seq) == {seq[i] : i \in DOMAIN seq}

Present(k) == UNION {Items(k[s]) : s \in Slots}

Numbers(k) == {n[2] : n \in Present(k)}

\* The nodes that may come in, and the slots there are to put them.
Unused(k) == LET used == Numbers(k) IN {n \in Steps : n[2] \notin used}
Open(k)   == LET here == Present(k) IN {s \in Slots : s[1] \in here \cup {Root}}

\* The slots a node owns, and the nodes under it.
Own(n) == {s \in Slots : s[1] = n}

Under(k, n) ==
  LET level[d \in 0..MaxSteps] ==
        IF d = 0 THEN {n}
        ELSE level[d - 1] \cup UNION {Items(k[s]) : s \in UNION {Own(m) : m \in level[d - 1]}}
  IN  level[MaxSteps]

\* The definition without the nodes of a set, their slots emptied.
Without(k, gone) ==
  [s \in Slots |-> IF s[1] \in gone THEN <<>>
                   ELSE SelectSeq(k[s], LAMBDA n : n \notin gone)]

----------------------------------------------------------------------------
Init ==
  /\ kids = NoKids
  /\ triggers \in SUBSET Triggers

\* A node is put anywhere in the tree, except that a condition is not put at
\* the end of a branch and a foreach is not put at the end of a foreach.
Allowed(n, slot, atEnd) ==
  /\ n \in Conds /\ atEnd => slot[1] \notin Conds
  /\ n \in Loops /\ atEnd => slot[1] \notin Loops

Add ==
  /\ \E n \in Unused(kids), slot \in Open(kids) :
       \E i \in 1..(Len(kids[slot]) + 1) :
         /\ Allowed(n, slot, i = Len(kids[slot]) + 1)
         /\ kids' = [kids EXCEPT ![slot] = InsertAt(@, i, n)]
  /\ UNCHANGED triggers

\* A node goes with everything under it, and nothing else goes.
Delete ==
  \E n \in Present(kids) :
    /\ kids' = Without(kids, Under(kids, n))
    /\ UNCHANGED triggers

AddTrigger ==
  \E t \in Triggers \ triggers :
    /\ triggers' = triggers \cup {t}
    /\ UNCHANGED kids

DeleteTrigger ==
  \E t \in triggers :
    /\ triggers' = triggers \ {t}
    /\ UNCHANGED kids

\* Stored and read back, a workflow has lost whatever nests deeper than the
\* stored form can say: containers stand at the top, a branch or a body holds
\* tasks, the false branch is empty and a body has one task.  Nothing is
\* invented: every node carries the identity of one that was there.
StoredForm(k) ==
  \A s \in Slots : s[1] # Root =>
    /\ Items(k[s]) \subseteq Tasks
    /\ s[2] = "false" => k[s] = <<>>
    /\ s[2] = "body" => Len(k[s]) <= 1

Reload ==
  /\ StoredForm(kids')
  /\ {n[2] : n \in Present(kids') \cap Tasks} \subseteq Numbers(kids)
  /\ triggers' \subseteq triggers

Next == Add \/ Delete \/ AddTrigger \/ DeleteTrigger \/ Reload

Spec == Init /\ [][Next]_vars
============================================================================
