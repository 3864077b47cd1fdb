------------------------ MODULE CircuitBreakerProofs ------------------------
(***************************************************************************)
(* What the runs of CircuitBreaker check for three callers and a handful   *)
(* of requests, proved for any set of callers and any parameters allowed   *)
(* by BreakerAssumption.  The conjunction Inv is inductive and no part of  *)
(* it is on its own: a circuit opens with a failure on record because the  *)
(* threshold is positive and, by TypeOK, no more calls failed than were    *)
(* counted.  It is also what the refinement of ProviderGate needs.         *)
(*                                                                         *)
(* The last part is liveness: an open circuit is left again.  While it     *)
(* stays OPEN time passes until the timeout, callers come back, and the    *)
(* next call probes.                                                       *)
(***************************************************************************)
EXTENDS CircuitBreaker, TLAPS

\* No outcome has been counted while the circuit is HALF_OPEN: the very first
\* one, of whichever call, decides between CLOSED and OPEN
\* (_record_success/_record_failure under the lock).
HalfOpenIsUndecided == state = "HALF_OPEN" => total = 0

\* An OPEN circuit rests on evidence: at least one failure was recorded since
\* the counters were last reset, even though late successes of calls admitted
\* earlier keep being counted while it is OPEN.
OpenHasEvidence == state = "OPEN" => failed >= 1

\* The counters a state rests on are those of that state.
CountersFit == HalfOpenIsUndecided /\ OpenHasEvidence

Inv == TypeOK /\ HalfOpenIsUndecided /\ OpenHasEvidence

\* A circuit at the threshold has recorded a failure: the threshold is
\* positive and at least one request has been counted (circuit_breaker.py:139).
LEMMA ThresholdNeedsFailure ==
    ASSUME TypeOK, MustOpen
    PROVE  failed >= 1
<1>1. total \in Nat /\ total >= 1
  BY BreakerAssumption DEF TypeOK, MustOpen
<1>2. ThresholdNum * total >= 1
  <2>1. \A n, t \in Nat : n >= 1 /\ t >= 1 => n * t >= 1
    OBVIOUS
  <2> QED
    BY <1>1, <2>1, BreakerAssumption
<1>3. CASE failed = 0
  <2>1. failed * ThresholdDen = 0
    BY <1>3, BreakerAssumption
  <2>2. failed * ThresholdDen >= ThresholdNum * total
    BY DEF MustOpen, RateAtThreshold
  <2> QED
    BY <1>1, <1>2, <2>1, <2>2, BreakerAssumption
<1> QED
  BY <1>1, <1>3 DEF TypeOK

LEMMA InitInv == Init => Inv
  BY BreakerAssumption
     DEF Init, Inv, TypeOK, HalfOpenIsUndecided, OpenHasEvidence

LEMMA StepInv == Inv /\ [Next]_vars => Inv'
<1> SUFFICES ASSUME Inv, [Next]_vars PROVE Inv'
  OBVIOUS
<1> USE DEF Inv, TypeOK, HalfOpenIsUndecided, OpenHasEvidence
<1>1. ASSUME NEW c \in Callers, OpenAndReject(c) PROVE Inv'
  <2>1. failed >= 1
    BY <1>1, ThresholdNeedsFailure DEF OpenAndReject
  <2> QED
    BY <1>1, <2>1, BreakerAssumption DEF OpenAndReject, CountRejection
<1>2. ASSUME NEW c \in Callers, Reject(c) PROVE Inv'
  BY <1>2, BreakerAssumption DEF Reject, CountRejection
<1>3. ASSUME NEW c \in Callers, Probe(c) PROVE Inv'
  BY <1>3, BreakerAssumption DEF Probe, Start
<1>4. ASSUME NEW c \in Callers, Admit(c) PROVE Inv'
  BY <1>4, BreakerAssumption DEF Admit, Start
<1>5. ASSUME NEW c \in Callers, Retry(c) PROVE Inv'
  BY <1>5, BreakerAssumption DEF Retry
<1>6. ASSUME NEW c \in Callers, RecordSuccess(c) PROVE Inv'
  BY <1>6, BreakerAssumption DEF RecordSuccess, Return
<1>7. ASSUME NEW c \in Callers, RecordFailure(c) PROVE Inv'
  BY <1>7, BreakerAssumption DEF RecordFailure, Return
<1>8. CASE Reset
  BY <1>8, BreakerAssumption DEF Reset
<1>9. CASE Tick
  BY <1>9, BreakerAssumption DEF Tick
<1>10. ASSUME NEW c \in Callers, Cancel(c) PROVE Inv'
  BY <1>10, BreakerAssumption DEF Cancel, Return
<1>11. CASE UNCHANGED vars
  BY <1>11 DEF vars
<1> QED
  BY <1>1, <1>2, <1>3, <1>4, <1>5, <1>6, <1>7, <1>8, <1>9, <1>10, <1>11
     DEF Next, Call, Finish

THEOREM InvHolds == Spec => []Inv
  BY InitInv, StepInv, PTL DEF Spec

\* The type invariant, with failed_requests <= total_requests, for every
\* number of concurrent callers (circuit_breaker.py:30).
THEOREM TypeCorrect == Spec => []TypeOK
  BY InvHolds, PTL DEF Inv

\* The first outcome of a half-open circuit decides (circuit_breaker.py:180),
\* and no circuit is open without a counted failure (circuit_breaker.py:137).
THEOREM CountersFitHolds == Spec => []CountersFit
  BY InvHolds, PTL DEF Inv, CountersFit

\* ~~~ The gate ~~~

StepOfGate == [Gate!Next]_(Gate!vars)

\* What a caller's step makes of those inside.
LEMMA Enters ==
    ASSUME TypeOK, NEW c \in Callers, Start(c), pc[c] = "idle"
    PROVE  c \notin InFlight /\ InFlight' = InFlight \cup {c}
  BY DEF TypeOK, Start, InFlight

LEMMA Leaves ==
    ASSUME TypeOK, NEW c \in Callers, Return(c)
    PROVE  c \in InFlight /\ InFlight' = InFlight \ {c}
  BY DEF TypeOK, Return, InFlight

LEMMA SameInside ==
    ASSUME pc' = pc
    PROVE  InFlight' = InFlight
  BY DEF InFlight

LEMMA SameOutcomes ==
    ASSUME UNCHANGED <<total, failed>>
    PROVE  Outcomes' = Outcomes
  BY DEF Outcomes

LEMMA WipedOutcomes ==
    ASSUME total' = 0, failed' = 0
    PROVE  Outcomes' = {}
  BY DEF Outcomes

\* An outcome is counted once, as what it is.
LEMMA CountedOutcome ==
    ASSUME TypeOK, total' = total + 1
    PROVE  /\ failed' = failed => Outcomes' = Outcomes \cup {"success"}
           /\ failed' = failed + 1 => Outcomes' = Outcomes \cup {"failure"}
<1>1. total \in Nat /\ failed \in Nat /\ failed <= total
  BY DEF TypeOK
<1>2. ASSUME failed' = failed PROVE Outcomes' = Outcomes \cup {"success"}
  <2>1. total' > failed' /\ (failed' > 0 <=> failed > 0)
    BY <1>1, <1>2
  <2>2. \A o : o \in Outcomes' <=> o \in Outcomes \cup {"success"}
    BY <2>1 DEF Outcomes
  <2> QED
    BY <2>2
<1>3. ASSUME failed' = failed + 1 PROVE Outcomes' = Outcomes \cup {"failure"}
  <2>1. failed' > 0 /\ (total' > failed' <=> total > failed)
    BY <1>1, <1>3
  <2>2. \A o : o \in Outcomes' <=> o \in Outcomes \cup {"failure"}
    BY <2>1 DEF Outcomes
  <2> QED
    BY <2>2
<1> QED
  BY <1>2, <1>3

LEMMA GateStutters ==
    ASSUME UNCHANGED <<state, total, failed, age, pc>>
    PROVE  StepOfGate
  BY SameInside, SameOutcomes DEF StepOfGate, Gate!vars

LEMMA CallGated ==
    ASSUME Inv, NEW c \in Callers, Call(c)
    PROVE  StepOfGate
<1> USE BreakerAssumption DEF GateOf
<1>1. CASE OpenAndReject(c)
  <2>1. "failure" \in Outcomes
    BY <1>1, ThresholdNeedsFailure DEF OpenAndReject, Outcomes, Inv, TypeOK
  <2>2. InFlight' = InFlight /\ Outcomes' = Outcomes
    BY <1>1, SameInside, SameOutcomes DEF OpenAndReject
  <2>3. Gate!Shut
    BY <1>1, <2>1, <2>2 DEF OpenAndReject, MustOpen, Gate!Shut, Gate!MoveTo
  <2> QED
    BY <2>3 DEF StepOfGate, Gate!Next
<1>2. CASE Reject(c)
  BY <1>2, GateStutters DEF Reject
<1>3. CASE Probe(c)
  <2>1. c \notin InFlight /\ InFlight' = InFlight \cup {c}
    BY <1>3, Enters DEF Probe, Inv
  <2>2. Outcomes' = {}
    BY <1>3, WipedOutcomes DEF Probe
  <2>3. Gate!Try(c)
    BY <1>3, <2>1, <2>2 DEF Probe, MayProbe, Gate!Try, Gate!MoveTo
  <2> QED
    BY <2>3 DEF StepOfGate, Gate!Next
<1>4. CASE Admit(c)
  <2>1. c \notin InFlight /\ InFlight' = InFlight \cup {c}
    BY <1>4, Enters DEF Admit, Inv
  <2>2. Outcomes' = Outcomes
    BY <1>4, SameOutcomes DEF Admit
  <2>3. Gate!Enter(c)
    BY <1>4, <2>1, <2>2 DEF Admit, Gate!Enter
  <2> QED
    BY <2>3 DEF StepOfGate, Gate!Next
<1> QED
  BY <1>1, <1>2, <1>3, <1>4 DEF Call

LEMMA FinishGated ==
    ASSUME Inv, NEW c \in Callers, Finish(c)
    PROVE  StepOfGate
<1> USE BreakerAssumption DEF GateOf
<1>1. c \in InFlight /\ InFlight' = InFlight \ {c}
  BY Leaves DEF Finish, RecordSuccess, RecordFailure, Inv
<1>2. state \in {"CLOSED", "OPEN", "HALF_OPEN"}
  BY DEF Inv, TypeOK
<1>3. CASE RecordSuccess(c)
  <2>1. Outcomes' = Outcomes \cup {"success"}
    BY <1>3, CountedOutcome DEF RecordSuccess, Inv
  <2>2. Gate!Leave(c, "success")
    BY <1>1, <1>2, <1>3, <2>1 DEF RecordSuccess, Gate!Leave, Gate!MoveTo
  <2> QED
    BY <2>2 DEF StepOfGate, Gate!Next, Gate!Outcomes
<1>4. CASE RecordFailure(c)
  <2>1. Outcomes' = Outcomes \cup {"failure"}
    BY <1>4, CountedOutcome DEF RecordFailure, Inv
  <2>2. Gate!Leave(c, "failure")
    BY <1>1, <1>2, <1>4, <2>1 DEF RecordFailure, Gate!Leave, Gate!MoveTo
  <2> QED
    BY <2>2 DEF StepOfGate, Gate!Next, Gate!Outcomes
<1> QED
  BY <1>3, <1>4 DEF Finish

LEMMA CancelGated ==
    ASSUME Inv, NEW c \in Callers, Cancel(c)
    PROVE  StepOfGate
<1>1. c \in InFlight /\ InFlight' = InFlight \ {c}
  BY Leaves DEF Cancel, Inv
<1>2. Outcomes' = Outcomes
  BY SameOutcomes DEF Cancel
<1>3. Gate!Abandon(c)
  BY <1>1, <1>2 DEF Cancel, Gate!Abandon
<1> QED
  BY <1>3 DEF StepOfGate, Gate!Next

LEMMA StepGated == Inv /\ [Next]_vars => StepOfGate
<1> SUFFICES ASSUME Inv, [Next]_vars PROVE StepOfGate
  OBVIOUS
<1>1. ASSUME NEW c \in Callers, Retry(c) PROVE StepOfGate
  BY <1>1, GateStutters DEF Retry
<1>2. CASE Reset
  <2>1. InFlight' = InFlight /\ Outcomes' = {}
    BY <1>2, SameInside, WipedOutcomes DEF Reset
  <2>2. Gate!Reset
    BY <1>2, <2>1, BreakerAssumption DEF Reset, GateOf, Gate!Reset, Gate!MoveTo
  <2> QED
    BY <2>2 DEF StepOfGate, Gate!Next
<1>3. CASE Tick
  <2>1. InFlight' = InFlight /\ Outcomes' = Outcomes /\ state' = state
    BY <1>3, SameInside, SameOutcomes DEF Tick
  <2>2. (age >= RecoveryTimeout)' = (age >= RecoveryTimeout)
          \/ (age >= RecoveryTimeout)' = TRUE
    BY <1>3, BreakerAssumption DEF Tick, Inv, TypeOK
  <2>3. CASE (age >= RecoveryTimeout)' = (age >= RecoveryTimeout)
    BY <2>1, <2>3 DEF StepOfGate, Gate!vars
  <2>4. CASE (age >= RecoveryTimeout)' = TRUE
    <3>1. Gate!Rest
      BY <2>1, <2>4 DEF Gate!Rest
    <3> QED
      BY <3>1 DEF StepOfGate, Gate!Next
  <2> QED
    BY <2>2, <2>3, <2>4
<1>4. CASE UNCHANGED vars
  BY <1>4, GateStutters DEF vars
<1> QED
  BY <1>1, <1>2, <1>3, <1>4, CallGated, FinishGated, CancelGated DEF Next

\* The circuit breaker implements ProviderGate, for any callers, thresholds,
\* timeouts and bounds (circuit_breaker.py:113, 137, 150, 180).
THEOREM OpenProtectsHolds == Spec => OpenProtects
<1>1. Init => Gate!Init
  <2> SUFFICES ASSUME Init PROVE Gate!Init
    OBVIOUS
  <2>1. InFlight = {} /\ Outcomes = {}
    BY DEF Init, InFlight, Outcomes
  <2> QED
    BY <2>1, BreakerAssumption DEF Init, GateOf, Gate!Init
<1>2. Inv /\ [Next]_vars => [Gate!Next]_(Gate!vars)
  BY StepGated DEF StepOfGate
<1> QED
  BY InvHolds, <1>1, <1>2, PTL DEF Spec, OpenProtects, Gate!Spec

\* Whoever is such a gate shuts on evidence and decides a trial on its first
\* outcome: CountersFit is what the promise comes to (circuit_breaker.py:150,
\* 180).
THEOREM GateHasGrounds == OpenProtects => []Gate!Grounds
<1>1. Gate!Init => Gate!Grounds
  BY DEF Gate!Init, Gate!Grounds
<1>2. Gate!Grounds /\ [Gate!Next]_(Gate!vars) => Gate!Grounds'
  <2> SUFFICES ASSUME Gate!Grounds, [Gate!Next]_(Gate!vars) PROVE Gate!Grounds'
    OBVIOUS
  <2>1. ASSUME NEW c \in Callers,
               \/ Gate!Enter(c) \/ Gate!Try(c) \/ Gate!Abandon(c)
               \/ \E o \in Gate!Outcomes : Gate!Leave(c, o)
        PROVE  Gate!Grounds'
    BY <2>1 DEF Gate!Enter, Gate!Try, Gate!Abandon, Gate!Leave, Gate!MoveTo,
                Gate!Outcomes, Gate!Grounds
  <2>2. CASE Gate!Shut \/ Gate!Rest \/ Gate!Reset
    BY <2>2 DEF Gate!Shut, Gate!Rest, Gate!Reset, Gate!MoveTo, Gate!Grounds
  <2>3. CASE UNCHANGED Gate!vars
    BY <2>3 DEF Gate!vars, Gate!Grounds
  <2> QED
    BY <2>1, <2>2, <2>3 DEF Gate!Next
<1> QED
  BY <1>1, <1>2, PTL DEF OpenProtects, Gate!Spec

-----------------------------------------------------------------------------
(***************************************************************************)
(* An OPEN circuit is left.  What is true of each of finitely many numbers *)
(* from some time on is true of all of them from some time on.  The proof  *)
(* is an induction over the set, which is out of the provers' reach, so    *)
(* that the instances of this law that are needed are stated as premises.  *)
(***************************************************************************)
AgesPassTogether ==
    (\A n \in 0..RecoveryTimeout - 1 : <>[](age # n))
      => <>[](\A n \in 0..RecoveryTimeout - 1 : age # n)

AtAttempt(c, n) == pc[c] # "idle" /\ attempt[c] = n

AttemptsPassTogether(c) ==
    (\A n \in 0..MaxRetries : <>[]~AtAttempt(c, n))
      => <>[](\A n \in 0..MaxRetries : ~AtAttempt(c, n))

WhatIsFinite == AgesPassTogether /\ \A c \in Callers : AttemptsPassTogether(c)

StuckOpen == [][Next]_vars /\ []Inv /\ []BreakerGoesOn /\ [](state = "OPEN")
EverStuck == <>StuckOpen

\* While the circuit stays OPEN, time passes and callers only come back.
LEMMA OpenSteps ==
    ASSUME TypeOK, [Next]_vars, state = "OPEN", state' = "OPEN", NEW c \in Callers
    PROVE  /\ age' = age \/ (age < RecoveryTimeout /\ age' = age + 1)
           /\ \/ pc'[c] = pc[c] /\ attempt'[c] = attempt[c]
              \/ pc[c] # "idle" /\ pc'[c] = pc[c] /\ attempt'[c] = attempt[c] + 1
              \/ pc'[c] = "idle"
<1> USE BreakerAssumption DEF TypeOK
<1>1. ASSUME NEW d \in Callers, Call(d)
      PROVE  UNCHANGED <<age, pc, attempt>>
  BY <1>1 DEF Call, OpenAndReject, MustOpen, Reject, Probe, Admit
<1>2. ASSUME NEW d \in Callers, Retry(d)
      PROVE  /\ age' = age /\ pc' = pc
             /\ d # c => attempt'[c] = attempt[c]
             /\ d = c => pc[c] # "idle" /\ attempt'[c] = attempt[c] + 1
  BY <1>2 DEF Retry
<1>3. ASSUME NEW d \in Callers, Finish(d) \/ Cancel(d)
      PROVE  /\ age' = age
             /\ d # c => pc'[c] = pc[c] /\ attempt'[c] = attempt[c]
             /\ d = c => pc'[c] = "idle"
  BY <1>3 DEF Finish, RecordSuccess, RecordFailure, Cancel, Return
<1>4. CASE Reset
  BY <1>4 DEF Reset
<1>5. CASE Tick
  BY <1>5 DEF Tick
<1>6. CASE UNCHANGED vars
  BY <1>6 DEF vars
<1>7. QED
  BY <1>1, <1>2, <1>3, <1>4, <1>5, <1>6 DEF Next

AgePasses(n) == <>[](age # n)
NoAgeLeft == \A n \in 0..RecoveryTimeout - 1 : age # n

Rested == <>[](age = RecoveryTimeout)

\* The recovery timeout passes.
LEMMA TimePasses ==
    ASSUME NEW c \in Callers
    PROVE  EverStuck /\ TickIsFair /\ AgesPassTogether => Rested
<1> DEFINE Past(n) == age > n
<1>1. ASSUME NEW n \in 0..RecoveryTimeout - 1
      PROVE  EverStuck /\ TickIsFair => AgePasses(n)
  <2> USE BreakerAssumption
  <2>1. Inv /\ ~(age # n) /\ [Next]_vars /\ state = "OPEN" /\ (state = "OPEN")'
          => ~(age # n)' \/ Past(n)'
    BY OpenSteps DEF Inv
  <2>2. Inv /\ ~(age # n) /\ <<Tick>>_vars => Past(n)'
    BY DEF Tick, Inv, TypeOK
  <2>3. BreakerGoesOn /\ ~(age # n) => ENABLED <<Tick>>_vars
    BY DEF BreakerGoesOn
  <2>4. Inv /\ Past(n) /\ [Next]_vars /\ state = "OPEN" /\ (state = "OPEN")' => Past(n)'
    BY OpenSteps DEF Inv, TypeOK
  <2>5. Past(n) => age # n
    OBVIOUS
  <2>6. QED
    BY <2>1, <2>2, <2>3, <2>4, <2>5, PTL DEF EverStuck, StuckOpen, TickIsFair, AgePasses
<1>2. EverStuck /\ TickIsFair => \A n \in 0..RecoveryTimeout - 1 : AgePasses(n)
  BY <1>1
<1>3. AgesPassTogether /\ (\A n \in 0..RecoveryTimeout - 1 : AgePasses(n)) => <>[]NoAgeLeft
  BY DEF AgesPassTogether, AgePasses, NoAgeLeft
<1>4. Inv /\ NoAgeLeft => age = RecoveryTimeout
  BY BreakerAssumption DEF Inv, TypeOK, NoAgeLeft
<1>5. EverStuck => <>[]Inv
  BY PTL DEF EverStuck, StuckOpen
<1>6. EverStuck /\ TickIsFair /\ AgesPassTogether => <>[]NoAgeLeft
  BY <1>2, <1>3
<1>7. QED
  BY <1>4, <1>5, <1>6, PTL DEF Rested

AttemptPasses(c, n) == <>[]~AtAttempt(c, n)
NoAttemptLeft(c) == \A n \in 0..MaxRetries : ~AtAttempt(c, n)

ComesBack(c) == <>[](pc[c] = "idle")

\* A call in flight comes back: the retry loop is bounded.
LEMMA CallsComeBack ==
    ASSUME NEW c \in Callers
    PROVE  EverStuck /\ WorkIsFair(c) /\ AttemptsPassTogether(c) => ComesBack(c)
<1> DEFINE Past(n) == pc[c] = "idle" \/ attempt[c] > n
<1>1. ASSUME NEW n \in 0..MaxRetries
      PROVE  EverStuck /\ WorkIsFair(c) => AttemptPasses(c, n)
  <2> USE BreakerAssumption
  <2>1. Inv /\ AtAttempt(c, n) /\ [Next]_vars /\ state = "OPEN" /\ (state = "OPEN")'
          => AtAttempt(c, n)' \/ Past(n)'
    BY OpenSteps DEF Inv, AtAttempt
  <2>2. Inv /\ AtAttempt(c, n) /\ <<Retry(c) \/ Finish(c)>>_vars => Past(n)'
    BY DEF Retry, Finish, RecordSuccess, RecordFailure, Return, Inv, TypeOK, AtAttempt
  <2>3. BreakerGoesOn /\ AtAttempt(c, n) => CanWork(c)
    BY DEF BreakerGoesOn, AtAttempt
  <2>4. Inv /\ Past(n) /\ [Next]_vars /\ state = "OPEN" /\ (state = "OPEN")' => Past(n)'
    BY OpenSteps DEF Inv, TypeOK
  <2>5. Past(n) => ~AtAttempt(c, n)
    BY DEF AtAttempt
  <2>6. QED
    BY <2>1, <2>2, <2>3, <2>4, <2>5, PTL DEF EverStuck, StuckOpen, WorkIsFair, CanWork, AttemptPasses
<1>2. EverStuck /\ WorkIsFair(c) => \A n \in 0..MaxRetries : AttemptPasses(c, n)
  BY <1>1
<1>3. AttemptsPassTogether(c) /\ (\A n \in 0..MaxRetries : AttemptPasses(c, n)) => <>[]NoAttemptLeft(c)
  BY DEF AttemptsPassTogether, AttemptPasses, NoAttemptLeft
<1>4. Inv /\ NoAttemptLeft(c) => pc[c] = "idle"
  BY BreakerAssumption DEF Inv, TypeOK, AtAttempt, NoAttemptLeft
<1>5. EverStuck => <>[]Inv
  BY PTL DEF EverStuck, StuckOpen
<1>6. EverStuck /\ WorkIsFair(c) /\ AttemptsPassTogether(c) => <>[]NoAttemptLeft(c)
  BY <1>2, <1>3
<1>7. QED
  BY <1>4, <1>5, <1>6, PTL DEF ComesBack

AllFair == TickIsFair /\ \A c \in Callers : CallIsFair(c) /\ WorkIsFair(c)

\* Somebody probes: an OPEN circuit is left, if anybody calls at all
\* (circuit_breaker.py:150).
THEOREM OpenIsLeftInTime ==
    Callers # {} => (FairSpec /\ []BreakerGoesOn /\ WhatIsFinite => OpenIsLeft)
<1> SUFFICES ASSUME NEW c \in Callers
             PROVE  FairSpec /\ []BreakerGoesOn /\ WhatIsFinite => OpenIsLeft
  OBVIOUS
<1>1. FairSpec => Spec /\ AllFair
  BY PTL DEF FairSpec, AllFair, TickIsFair
<1>2. AllFair => TickIsFair /\ CallIsFair(c) /\ WorkIsFair(c)
  BY DEF AllFair
<1>3. Inv /\ age = RecoveryTimeout /\ state = "OPEN" => MayProbe
  BY BreakerAssumption DEF MayProbe
<1>4. MayProbe /\ <<Call(c)>>_vars => ~(state = "OPEN")'
  BY DEF Call, OpenAndReject, MustOpen, Reject, Probe, Admit, MayProbe
<1>5. BreakerGoesOn /\ pc[c] = "idle" /\ MayProbe => CanCall(c)
  BY DEF BreakerGoesOn
<1>6. state # "OPEN" <=> ~(state = "OPEN")
  OBVIOUS
<1>7. EverStuck /\ AllFair /\ WhatIsFinite => Rested /\ ComesBack(c)
  BY <1>2, TimePasses, CallsComeBack DEF WhatIsFinite
<1>8. EverStuck /\ Rested /\ ComesBack(c) /\ CallIsFair(c) => FALSE
  BY <1>3, <1>4, <1>5, PTL DEF EverStuck, StuckOpen, Rested, ComesBack, CallIsFair, CanCall
<1>9. EverStuck /\ AllFair /\ WhatIsFinite => FALSE
  BY <1>2, <1>7, <1>8
<1>10. QED
  BY <1>1, <1>6, <1>9, InvHolds, PTL DEF Spec, EverStuck, StuckOpen, OpenIsLeft
=============================================================================
