--------------------------- MODULE DecidedStatus ---------------------------
(***************************************************************************)
(* What the scans of a finding and the users who triage it promise to each *)
(* other.  Nobody writes a status unseen: a scan reads it, and then only   *)
(* reports what is absent, reopens what is resolved or resolves what is    *)
(* open; a user asks for a change of a finding that exists.  They write    *)
(* later, and the last one to write wins, but a finding is inserted once.  *)
(*                                                                         *)
(* CspmScan implements this module with batches, an evaluation and its     *)
(* cache.                                                                  *)
(***************************************************************************)

CONSTANTS
    Scans,
    Users,
    Status

VARIABLES
    status,    \* "none" while there is no finding
    judged,    \* scan -> what it is about to do to the finding
    asked      \* user -> the status asked for, "nothing" if none is

vars == <<status, judged, asked>>

Init ==
    /\ status = "none"
    /\ judged = [s \in Scans |-> "nothing"]
    /\ asked = [u \in Users |-> "nothing"]

-----------------------------------------------------------------------------
\* A scan may decide to leave the finding as it is: that is not a step.
Judge(s) ==
    /\ judged[s] = "nothing"
    /\ \E what \in {"report", "open", "resolved"} :
         /\ what = "report"   => status = "none"
         /\ what = "open"     => status = "resolved"
         /\ what = "resolved" => status = "open"
         /\ judged' = [judged EXCEPT ![s] = what]
    /\ UNCHANGED <<status, asked>>

Apply(s) ==
    /\ \/ judged[s] = "report" /\ status = "none" /\ status' = "open"
       \/ judged[s] \in {"open", "resolved"} /\ status' = judged[s]
    /\ judged' = [judged EXCEPT ![s] = "nothing"]
    /\ UNCHANGED asked

Ask(u) ==
    /\ status # "none"
    /\ asked[u] = "nothing"
    /\ \E to \in Status \ {status} : asked' = [asked EXCEPT ![u] = to]
    /\ UNCHANGED <<status, judged>>

Answer(u) ==
    /\ asked[u] # "nothing"
    /\ status' = asked[u]
    /\ asked' = [asked EXCEPT ![u] = "nothing"]
    /\ UNCHANGED judged

\* A collision, an exception or a crash.
Drop ==
    /\ \E scans \in SUBSET Scans, users \in SUBSET Users :
         /\ judged' = [s \in Scans |-> IF s \in scans THEN "nothing" ELSE judged[s]]
         /\ asked' = [u \in Users |-> IF u \in users THEN "nothing" ELSE asked[u]]
    /\ UNCHANGED status

Next ==
    \/ \E s \in Scans : Judge(s) \/ Apply(s)
    \/ \E u \in Users : Ask(u) \/ Answer(u)
    \/ Drop

Spec == Init /\ [][Next]_vars
=============================================================================
