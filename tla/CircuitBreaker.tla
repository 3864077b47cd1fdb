--------------------------- MODULE CircuitBreaker ---------------------------
(***************************************************************************)
(* The circuit breaker in front of every cloud API of the connector        *)
(* (services/connector/app/services/circuit_breaker.py) together with the  *)
(* retry loop it wraps (retry.py, resilience.py): resilient_call runs the  *)
(* whole retry loop as ONE request of the breaker.                         *)
(*                                                                         *)
(* Concurrency: `call` checks and updates the state under an asyncio lock, *)
(* awaits the wrapped function outside it, and records the outcome under   *)
(* the lock again.  No lock region awaits, so each region is one action    *)
(* and any number of calls may be between their two regions.               *)
(***************************************************************************)
EXTENDS Integers

CONSTANTS
    Callers,          \* tasks that call the provider through the breaker
    MinRequests,      \* min_requests_for_threshold
    ThresholdNum,     \* failure_threshold = ThresholdNum / ThresholdDen
    ThresholdDen,
    RecoveryTimeout,  \* recovery_timeout_seconds, in clock ticks
    MaxRetries,       \* RetryConfig.max_retries
    MaxRequests,      \* bound: requests admitted while CLOSED per counting era
    MaxRejected       \* bound: rejected_requests saturates here

ASSUME BreakerAssumption ==
    /\ MinRequests \in Nat \ {0}
    /\ ThresholdNum \in Nat \ {0}
    /\ ThresholdDen \in Nat \ {0}
    /\ RecoveryTimeout \in Nat \ {0}
    /\ MaxRetries \in Nat
    /\ MaxRequests \in Nat
    /\ MaxRejected \in Nat \ {0}

VARIABLES
    state,        \* _state
    total,        \* _metrics.total_requests
    failed,       \* _metrics.failed_requests (successful = total - failed)
    rejected,     \* _metrics.rejected_requests
    age,          \* now - state_changed_at, saturating at RecoveryTimeout
    pc,           \* per caller: outside the breaker, or awaiting the provider
                  \* ("probing" if it was admitted by a half-open circuit;
                  \* the code does not remember which, `call` records alike)
    attempt       \* per caller: index of the retry loop's current attempt

vars == <<state, total, failed, rejected, age, pc, attempt>>

TypeOK ==
    /\ state \in {"CLOSED", "OPEN", "HALF_OPEN"}
    /\ total \in Nat
    /\ failed \in 0..total
    /\ rejected \in 0..MaxRejected
    /\ age \in 0..RecoveryTimeout
    /\ pc \in [Callers -> {"idle", "calling", "probing"}]
    /\ attempt \in [Callers -> 0..MaxRetries]

Init ==
    /\ state = "CLOSED"
    /\ total = 0
    /\ failed = 0
    /\ rejected = 0
    /\ age = 0
    /\ pc = [c \in Callers |-> "idle"]
    /\ attempt = [c \in Callers |-> 0]

-----------------------------------------------------------------------------
InFlight == {c \in Callers : pc[c] # "idle"}

\* error_rate >= failure_threshold, without division.
RateAtThreshold == failed * ThresholdDen >= ThresholdNum * total

\* _check_state_transition, CLOSED branch.
MustOpen ==
    /\ state = "CLOSED"
    /\ total >= MinRequests
    /\ RateAtThreshold

\* _check_state_transition, OPEN branch.
MayProbe ==
    /\ state = "OPEN"
    /\ age >= RecoveryTimeout

CountRejection ==
    rejected' = IF rejected < MaxRejected THEN rejected + 1 ELSE rejected

Start(c) ==
    /\ pc' = [pc EXCEPT ![c] = IF state = "CLOSED" THEN "calling" ELSE "probing"]
    /\ attempt' = [attempt EXCEPT ![c] = 0]

\* The call that finds the error rate at the threshold opens the circuit and
\* is itself rejected.
OpenAndReject(c) ==
    /\ pc[c] = "idle"
    /\ MustOpen
    /\ state' = "OPEN"
    /\ age' = 0
    /\ CountRejection
    /\ UNCHANGED <<total, failed, pc, attempt>>

\* Faulty: a rejected call restarts the recovery timeout.
RejectAndRestart(c) ==
    /\ pc[c] = "idle"
    /\ state = "OPEN"
    /\ ~MayProbe
    /\ CountRejection
    /\ age' = 0
    /\ UNCHANGED <<state, total, failed, pc, attempt>>

Reject(c) ==
    /\ pc[c] = "idle"
    /\ state = "OPEN"
    /\ ~MayProbe
    /\ CountRejection
    /\ UNCHANGED <<state, total, failed, age, pc, attempt>>

\* The first call after the recovery timeout half-opens the circuit, which
\* resets the counters, and goes through.
Probe(c) ==
    /\ pc[c] = "idle"
    /\ MayProbe
    /\ state' = "HALF_OPEN"
    /\ age' = 0
    /\ total' = 0
    /\ failed' = 0
    /\ rejected' = 0
    /\ Start(c)

\* CLOSED below the threshold, or HALF_OPEN: the call goes through.  HALF_OPEN
\* puts no limit on the number of probes.
Admit(c) ==
    /\ pc[c] = "idle"
    /\ \/ state = "HALF_OPEN"
       \/ state = "CLOSED" /\ ~MustOpen /\ total < MaxRequests
    /\ Start(c)
    /\ UNCHANGED <<state, total, failed, rejected, age>>

\* Faulty: one attempt too many.
RetryOnceMore(c) ==
    /\ pc[c] # "idle"
    /\ attempt[c] <= MaxRetries
    /\ attempt' = [attempt EXCEPT ![c] = @ + 1]
    /\ UNCHANGED <<state, total, failed, rejected, age, pc>>

\* retry_async: a rate limit or a temporary error with attempts left is
\* retried after a delay, inside the same breaker request.
Retry(c) ==
    /\ pc[c] # "idle"
    /\ attempt[c] < MaxRetries
    /\ attempt' = [attempt EXCEPT ![c] = @ + 1]
    /\ UNCHANGED <<state, total, failed, rejected, age, pc>>

Return(c) ==
    /\ pc[c] # "idle"
    /\ pc' = [pc EXCEPT ![c] = "idle"]
    /\ attempt' = [attempt EXCEPT ![c] = 0]

\* Faulty: a late success closes an open circuit.
RecordSuccessAlwaysCloses(c) ==
    /\ Return(c)
    /\ total' = total + 1
    /\ state' = "CLOSED"
    /\ age' = 0
    /\ UNCHANGED <<failed, rejected>>

\* _record_success: any success closes a half-open circuit, whenever the call
\* that succeeded was admitted.
RecordSuccess(c) ==
    /\ Return(c)
    /\ total' = total + 1
    /\ \/ /\ state = "HALF_OPEN"
          /\ state' = "CLOSED"
          /\ age' = 0
       \/ /\ state # "HALF_OPEN"
          /\ UNCHANGED <<state, age>>
    /\ UNCHANGED <<failed, rejected>>

\* _record_failure: non-retryable, or the last attempt failed.
RecordFailure(c) ==
    /\ Return(c)
    /\ total' = total + 1
    /\ failed' = failed + 1
    /\ \/ /\ state = "HALF_OPEN"
          /\ state' = "OPEN"
          /\ age' = 0
       \/ /\ state # "HALF_OPEN"
          /\ UNCHANGED <<state, age>>
    /\ UNCHANGED rejected

\* The task is cancelled while it waits for the provider: CancelledError is no
\* Exception, so `call` is left without an outcome on record.
Cancel(c) ==
    /\ Return(c)
    /\ UNCHANGED <<state, total, failed, rejected, age>>

\* The admin endpoint's reset: fresh metrics, calls in flight stay in flight.
Reset ==
    /\ state' = "CLOSED"
    /\ total' = 0
    /\ failed' = 0
    /\ rejected' = 0
    /\ age' = 0
    /\ UNCHANGED <<pc, attempt>>

\* The passage of time, which the code reads only through its comparison of
\* time_in_state with the recovery timeout.
Tick ==
    /\ age' = IF age < RecoveryTimeout THEN age + 1 ELSE age
    /\ UNCHANGED <<state, total, failed, rejected, pc, attempt>>

Call(c) == OpenAndReject(c) \/ Reject(c) \/ Probe(c) \/ Admit(c)

Finish(c) == RecordSuccess(c) \/ RecordFailure(c)

Next ==
    \/ \E c \in Callers : Call(c) \/ Retry(c) \/ Finish(c) \/ Cancel(c)
    \/ Reset
    \/ Tick

Spec == Init /\ [][Next]_vars

(***************************************************************************)
(* Fairness: the clock advances; a provider call returns, because every    *)
(* SDK call has a timeout and the retry loop is bounded; the scheduler     *)
(* calls the provider again on each polling interval.  A call may be       *)
(* cancelled, which nothing is assumed of.                                 *)
(***************************************************************************)
TickIsFair == WF_vars(Tick)
CallIsFair(c) == WF_vars(Call(c))
WorkIsFair(c) == WF_vars(Retry(c) \/ Finish(c))

FairSpec ==
    /\ Spec
    /\ TickIsFair
    /\ \A c \in Callers : CallIsFair(c) /\ WorkIsFair(c)

-----------------------------------------------------------------------------
(***************************************************************************)
(* Properties.                                                             *)
(***************************************************************************)

\* The circuit seen as a gate: CLOSED lets callers in, OPEN does not.
GateOf == [CLOSED |-> "open", OPEN |-> "shut", HALF_OPEN |-> "trial"]
Outcomes == {o \in {"success", "failure"} :
               IF o = "failure" THEN failed > 0 ELSE total > failed}

Gate == INSTANCE ProviderGate
          WITH gate <- GateOf[state], inside <- InFlight, seen <- Outcomes,
               rested <- age >= RecoveryTimeout

\* What an open circuit is for: however many callers race for it and whichever
\* late outcomes are counted, it protects the provider for the whole period, is
\* left only by a probe with clean counters or by the manual reset, and opens on
\* nothing but a failure counted in its own era.
OpenProtects == Gate!Spec

\* Nothing is stuck: what fairness is assumed of can be done when it is due.
CanCall(c) == ENABLED <<Call(c)>>_vars
CanWork(c) == ENABLED <<Retry(c) \/ Finish(c)>>_vars

BreakerGoesOn ==
    /\ age < RecoveryTimeout => ENABLED <<Tick>>_vars
    /\ \A c \in Callers : /\ pc[c] # "idle" => CanWork(c)
                          /\ pc[c] = "idle" /\ MayProbe => CanCall(c)

\* An OPEN circuit does not stay OPEN, whichever late outcomes are counted and
\* whoever is rejected: after the recovery timeout the next call probes.
OpenIsLeft == []BreakerGoesOn /\ (state = "OPEN" ~> state # "OPEN")
=============================================================================
