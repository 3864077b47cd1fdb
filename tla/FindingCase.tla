---------------------------- MODULE FindingCase ----------------------------
(***************************************************************************)
(* What the alert service promises about the case of ONE finding: its      *)
(* status, whether it carries a date of resolution, and the newest entry   *)
(* of its audit trail.  Writers decide first and write later, and others   *)
(* may write in between; still, every status written was decided along an  *)
(* edge of the state machine from a status the case really had, status,    *)
(* date and entry are written at once, and where the newest entry may tell *)
(* another status than the case has, that is known (silent).  An entry is  *)
(* the newest unless one that was dated later is written before it.        *)
(*                                                                         *)
(* FindingLifecycle implements this module with sightings, requests, notes *)
(* and a bulk update.                                                      *)
(***************************************************************************)

CONSTANTS
    Writers,
    Status,
    Valid      \* the edges of the state machine: status -> set of statuses

VARIABLES
    status,    \* "none" before the case exists
    dated,     \* it carries a date of resolution
    entry,     \* the status the newest entry tells, "none" if there is none
    silent,    \* the newest entry need not tell the status
    plan,      \* per writer: what it decided and has not written
    late       \* writers whose entry will be older than the newest one

vars == <<status, dated, entry, silent, plan, late>>

NoPlan == [from |-> "none", to |-> "none"]

Init ==
    /\ status = "none"
    /\ dated = FALSE
    /\ entry = "none"
    /\ silent = FALSE
    /\ plan = [w \in Writers |-> NoPlan]
    /\ late = {}

-----------------------------------------------------------------------------
Forget(w) == plan' = [plan EXCEPT ![w] = NoPlan]

\* The entry that w planned becomes the newest one, or is written behind it.
Publish(w) ==
    \/ /\ w \notin late
       /\ entry' = plan[w].to
       /\ \E older \in SUBSET {v \in Writers \ {w} : plan[v] # NoPlan} :
            late' = late \cup older
    \/ /\ w \in late
       /\ late' = late \ {w}
       /\ entry' = entry

\* A case appears; its first entry is still to be written.
Appear(w) ==
    /\ status = "none"
    /\ status' \in {"open", "suppressed"}
    /\ dated' = FALSE
    /\ plan' = [plan EXCEPT ![w] = [from |-> "none", to |-> status']]
    /\ UNCHANGED <<entry, silent, late>>

\* If others wrote first, the entry of the appearance comes after theirs.
WriteFirstEntry(w) ==
    /\ plan[w].from = "none" /\ plan[w] # NoPlan
    /\ Publish(w)
    /\ silent' = (silent \/ (w \notin late /\ entry # "none"))
    /\ Forget(w)
    /\ UNCHANGED <<status, dated>>

\* A decision on the status the case has: a change of it, or a note.
Decide(w) ==
    /\ status # "none"
    /\ plan[w] = NoPlan
    /\ \E to \in Valid[status] \cup {status} :
         plan' = [plan EXCEPT ![w] = [from |-> status, to |-> to]]
    /\ UNCHANGED <<status, dated, entry, silent, late>>

\* The date is set with the resolution and goes only with another status.
Change(w) ==
    /\ plan[w].from \in Status
    /\ plan[w].to \in Valid[plan[w].from]
    /\ status' = plan[w].to
    /\ dated' \in IF status' = "resolved" THEN {TRUE} ELSE {dated, FALSE}
    /\ Publish(w)
    /\ silent' = (w \in late)
    /\ Forget(w)

Note(w) ==
    /\ plan[w].from \in Status
    /\ plan[w].to = plan[w].from
    /\ Publish(w)
    /\ silent' = IF w \in late THEN silent ELSE status # plan[w].to
    /\ Forget(w)
    /\ UNCHANGED <<status, dated>>

\* The resource is gone.
Resolve ==
    /\ status \in {"open", "in_progress"}
    /\ status' = "resolved"
    /\ dated' = TRUE
    /\ silent' = TRUE
    /\ UNCHANGED <<entry, plan, late>>

\* A refused, failed or crashed writer writes nothing.
Fail ==
    /\ \E failed \in SUBSET Writers :
         /\ plan' = [w \in Writers |-> IF w \in failed THEN NoPlan ELSE plan[w]]
         /\ late' = late \ failed
    /\ UNCHANGED <<status, dated, entry, silent>>

Next ==
    \/ \E w \in Writers :
         Appear(w) \/ WriteFirstEntry(w) \/ Decide(w) \/ Change(w) \/ Note(w)
    \/ Resolve \/ Fail

Spec == Init /\ [][Next]_vars
=============================================================================
