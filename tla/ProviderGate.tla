---------------------------- MODULE ProviderGate ----------------------------
(***************************************************************************)
(* What a circuit breaker promises to those who share it: a gate in front  *)
(* of a provider.  It shuts only when a failure was seen since the slate   *)
(* was last wiped, a shut gate lets nobody in until it has rested, then    *)
(* one caller opens it on trial with a clean slate, and the first outcome  *)
(* of the trial decides.  Who is inside may leave at any time, with an     *)
(* outcome or without one, and an operator may open the gate and wipe the  *)
(* slate.                                                                  *)
(*                                                                         *)
(* CircuitBreaker implements this module with counters, a threshold and a  *)
(* clock.                                                                  *)
(***************************************************************************)

CONSTANT Callers

VARIABLES
    gate,     \* "open", "shut" or "trial"
    inside,   \* the callers that wait for the provider
    seen,     \* the kinds of outcome seen since the slate was wiped
    rested    \* the gate has been where it is for the recovery timeout

vars == <<gate, inside, seen, rested>>

Outcomes == {"success", "failure"}

Init ==
    /\ gate = "open"
    /\ inside = {}
    /\ seen = {}
    /\ rested = FALSE

-----------------------------------------------------------------------------
MoveTo(g) ==
    /\ gate' = g
    /\ rested' = FALSE

Enter(c) ==
    /\ gate # "shut"
    /\ c \notin inside
    /\ inside' = inside \cup {c}
    /\ UNCHANGED <<gate, seen, rested>>

Shut ==
    /\ gate = "open"
    /\ "failure" \in seen
    /\ MoveTo("shut")
    /\ UNCHANGED <<inside, seen>>

Try(c) ==
    /\ gate = "shut" /\ rested
    /\ c \notin inside
    /\ MoveTo("trial")
    /\ inside' = inside \cup {c}
    /\ seen' = {}

\* An outcome moves the gate only during a trial, whoever brings it.
Leave(c, outcome) ==
    /\ c \in inside
    /\ inside' = inside \ {c}
    /\ seen' = seen \cup {outcome}
    /\ IF gate = "trial"
       THEN MoveTo(IF outcome = "success" THEN "open" ELSE "shut")
       ELSE UNCHANGED <<gate, rested>>

\* Who gives up brings no outcome, and a trial goes on without it.
Abandon(c) ==
    /\ c \in inside
    /\ inside' = inside \ {c}
    /\ UNCHANGED <<gate, seen, rested>>

Rest ==
    /\ rested' = TRUE
    /\ UNCHANGED <<gate, inside, seen>>

Reset ==
    /\ MoveTo("open")
    /\ seen' = {}
    /\ UNCHANGED inside

Next ==
    \/ \E c \in Callers : \/ Enter(c) \/ Try(c) \/ Abandon(c)
                         \/ \E o \in Outcomes : Leave(c, o)
    \/ Shut \/ Rest \/ Reset

Spec == Init /\ [][Next]_vars

-----------------------------------------------------------------------------
\* The slate says what the gate rests on.
Grounds ==
    /\ gate = "trial" => seen = {}
    /\ gate = "shut" => "failure" \in seen
=============================================================================
