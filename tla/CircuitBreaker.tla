--------------------------- MODULE CircuitBreaker ---------------------------
(***************************************************************************)
(* The thread-safe circuit breaker of                                      *)
(* src/src/chen/observability/circuit_breaker.py, used by a set of callers *)
(* that each run `with breaker: backend.generate(...)`.                    *)
(*                                                                         *)
(* __enter__, __exit__, reset and the two readers hold breaker._lock for   *)
(* their whole body, so each is one action.  The lock is NOT held between  *)
(* __enter__ and __exit__: any number of calls may be in flight, and their *)
(* results arrive in any order, in whatever state the breaker has reached  *)
(* meanwhile.                                                              *)
(*                                                                         *)
(* The clock: the code only ever compares time.time()-_last_failure_time   *)
(* with cooldown_seconds, so the model keeps that difference, `elapsed`,   *)
(* saturated at cooldown_seconds.                                          *)
(***************************************************************************)
EXTENDS Naturals, FiniteSets

CONSTANTS
    Calls,              \* the callers that may be in flight at once
    threshold,          \* failures before opening
    cooldown_seconds,   \* ticks before OPEN may become HALF_OPEN
    success_threshold   \* successes in HALF_OPEN before closing

ASSUME BreakerAssumption ==
    /\ threshold \in Nat \ {0}
    /\ cooldown_seconds \in Nat
    /\ success_threshold \in Nat \ {0}

VARIABLES
    state,          \* _state
    failure_count,  \* _failure_count
    success_count,  \* _success_count
    elapsed,        \* time.time() - _last_failure_time, saturated
    running,        \* the calls between __enter__ and __exit__
    backend,        \* whether the protected backend is "up" or "down"
    evidence,       \* history: successes reported to a half-open breaker since
                    \* it last opened, saturated at success_threshold
    quiet           \* history: time since any call last failed, saturated

vars == <<state, failure_count, success_count, elapsed, running, backend,
          evidence, quiet>>

CircuitState == {"closed", "open", "half_open"}

Init ==
    /\ state = "closed"
    /\ failure_count = 0
    /\ success_count = 0
    /\ elapsed = cooldown_seconds     \* _last_failure_time = 0.0, the epoch
    /\ running = {}
    /\ backend \in {"up", "down"}
    /\ evidence = 0
    /\ quiet = cooldown_seconds

-----------------------------------------------------------------------------
(* _maybe_transition: OPEN -> HALF_OPEN once the cooldown has elapsed.     *)
CooledDown == state = "open" /\ elapsed >= cooldown_seconds

(* Mutant: the successes of an earlier half-open period are kept. *)
MaybeTransition_KeepsCredit ==
    /\ state' = IF CooledDown THEN "half_open" ELSE state
    /\ UNCHANGED success_count

MaybeTransition ==
    /\ state' = IF CooledDown THEN "half_open" ELSE state
    /\ success_count' = IF CooledDown THEN 0 ELSE success_count

(* Mutant: __enter__ looks at the state without moving it on. *)
Enter_NoTransition(c) ==
    /\ c \notin running
    /\ state # "open"
    /\ running' = running \cup {c}
    /\ UNCHANGED <<state, failure_count, success_count, elapsed, backend,
                   evidence, quiet>>

(* __enter__ when the breaker lets the call through. *)
Enter(c) ==
    /\ c \notin running
    /\ MaybeTransition
    /\ state' # "open"
    /\ running' = running \cup {c}
    /\ UNCHANGED <<failure_count, elapsed, backend, evidence, quiet>>

(* __enter__ when it raises CircuitBreakerOpenError: nothing changes. *)
Reject(c) ==
    /\ c \notin running
    /\ MaybeTransition
    /\ state' = "open"
    /\ UNCHANGED <<failure_count, elapsed, running, backend, evidence, quiet>>

(* The `state` property and to_dict, called by pollers of the registry. *)
ReadState ==
    /\ MaybeTransition
    /\ UNCHANGED <<failure_count, elapsed, running, backend, evidence, quiet>>

-----------------------------------------------------------------------------
(* A finished call leaves the set of calls in flight. *)
Leave(c) ==
    /\ c \in running
    /\ running' = running \ {c}

Evidence ==
    IF state = "half_open" /\ evidence < success_threshold
    THEN evidence + 1
    ELSE evidence

(* Mutants: closing leaves the failure budget spent; successes are only     *)
(* counted in the closed state.                                             *)
OnSuccess_KeepsFailures ==
    \/ /\ state = "half_open"
       /\ success_count' = success_count + 1
       /\ state' = IF success_count + 1 >= success_threshold
                   THEN "closed"
                   ELSE state
       /\ UNCHANGED failure_count
    \/ /\ state = "closed"
       /\ failure_count' = 0
       /\ UNCHANGED <<state, success_count>>
    \/ /\ state = "open"
       /\ UNCHANGED <<state, failure_count, success_count>>

OnSuccess_ClosedOnly ==
    /\ failure_count' = IF state = "closed" THEN 0 ELSE failure_count
    /\ UNCHANGED <<state, success_count>>

(* _on_success, by the state the breaker is in when the result arrives. *)
OnSuccess ==
    \/ /\ state = "half_open"
       /\ success_count' = success_count + 1
       /\ IF success_count + 1 >= success_threshold
          THEN state' = "closed" /\ failure_count' = 0
          ELSE UNCHANGED <<state, failure_count>>
    \/ /\ state = "closed"
       /\ failure_count' = 0
       /\ UNCHANGED <<state, success_count>>
    \/ /\ state = "open"
       /\ UNCHANGED <<state, failure_count, success_count>>

(* __exit__ without an exception. *)
ExitSuccess(c) ==
    /\ Leave(c)
    /\ OnSuccess
    /\ evidence' = Evidence
    /\ UNCHANGED <<elapsed, backend, quiet>>

(* Mutant: a failure reported to an open breaker is ignored. *)
OnFailure_IgnoresLate ==
    \/ /\ state = "half_open"
       /\ elapsed' = 0
       /\ state' = "open"
       /\ UNCHANGED failure_count
    \/ /\ state = "closed"
       /\ elapsed' = 0
       /\ failure_count' = failure_count + 1
       /\ state' = IF failure_count + 1 >= threshold THEN "open" ELSE state
    \/ /\ state = "open"
       /\ UNCHANGED <<state, failure_count, elapsed>>

(* _on_failure: the failure time is recorded in every state, so a late      *)
(* failure extends the cooldown of a breaker that is already open.          *)
OnFailure ==
    /\ elapsed' = 0
    /\ \/ /\ state = "half_open"
          /\ state' = "open"
          /\ UNCHANGED failure_count
       \/ /\ state = "closed"
          /\ failure_count' = failure_count + 1
          /\ state' = IF failure_count + 1 >= threshold THEN "open" ELSE state
       \/ /\ state = "open"
          /\ UNCHANGED <<state, failure_count>>

(* __exit__ with an exception; only a backend that is down raises one. *)
ExitFailure(c) ==
    /\ backend = "down"
    /\ Leave(c)
    /\ OnFailure
    /\ IF state # "open" /\ state' = "open" THEN evidence' = 0
                                             ELSE UNCHANGED evidence
    /\ quiet' = 0
    /\ UNCHANGED <<success_count, backend>>

(* reset(): an operator closes the breaker by hand. *)
Reset ==
    /\ state' = "closed"
    /\ failure_count' = 0
    /\ success_count' = 0
    /\ UNCHANGED <<elapsed, running, backend, evidence, quiet>>

-----------------------------------------------------------------------------
(* The environment: time passes, the backend goes down and comes back. *)
Later(t) == IF t < cooldown_seconds THEN t + 1 ELSE t

Tick ==
    /\ elapsed < cooldown_seconds \/ quiet < cooldown_seconds
    /\ elapsed' = Later(elapsed)
    /\ quiet' = Later(quiet)
    /\ UNCHANGED <<state, failure_count, success_count, running, backend,
                   evidence>>

Flip ==
    /\ backend' = IF backend = "up" THEN "down" ELSE "up"
    /\ UNCHANGED <<state, failure_count, success_count, elapsed, running,
                   evidence, quiet>>

Next ==
    \/ \E c \in Calls : \/ Enter(c)
                        \/ Reject(c)
                        \/ ExitSuccess(c)
                        \/ ExitFailure(c)
    \/ ReadState
    \/ Reset
    \/ Tick
    \/ Flip

(* Time passes, a caller that is let in is eventually admitted, and a call  *)
(* in flight eventually returns or raises.  Nobody has to poll the breaker, *)
(* reset it by hand, or change the backend.                                 *)
Fairness ==
    /\ WF_vars(Tick)
    /\ \A c \in Calls : /\ WF_vars(Enter(c))
                        /\ WF_vars(ExitSuccess(c) \/ ExitFailure(c))

Spec == Init /\ [][Next]_vars /\ Fairness

-----------------------------------------------------------------------------
TypeOK ==
    /\ state \in CircuitState
    /\ failure_count \in 0..threshold
    /\ success_count \in 0..success_threshold
    /\ elapsed \in 0..cooldown_seconds
    /\ running \in SUBSET Calls
    /\ backend \in {"up", "down"}
    /\ evidence \in 0..success_threshold
    /\ quiet \in 0..cooldown_seconds

(***************************************************************************)
(* The counters and the state never disagree, whatever order the results   *)
(* of concurrent calls arrive in: a closed breaker has budget left, one    *)
(* that is open or probing has spent exactly its budget, and a probing one *)
(* still lacks a success (_on_success, _on_failure, reset).                *)
(***************************************************************************)
CountersAgreeWithState ==
    /\ state = "closed" => failure_count < threshold
    /\ state # "closed" => failure_count = threshold
    /\ state = "half_open" => success_count < success_threshold

(***************************************************************************)
(* An open breaker admits no call before cooldown_seconds have passed      *)
(* since any call last FAILED, late failures of calls admitted before it   *)
(* opened included: a call enters, or the state becomes half-open, only    *)
(* after the full cooldown (__enter__, _maybe_transition, _on_failure).    *)
(***************************************************************************)
CooldownRespected ==
    [][state = "open" /\ quiet < cooldown_seconds
       => running' \subseteq running /\ state' # "half_open"]_vars

(***************************************************************************)
(* A breaker that opened closes again by itself only after                 *)
(* success_threshold successes reported to the half-open breaker since     *)
(* that opening: credit from an earlier half-open period never counts      *)
(* (_maybe_transition zeroes _success_count, _on_success compares it).     *)
(***************************************************************************)
NoLeftoverCredit ==
    [][state = "half_open" /\ state' = "closed"
       => Reset \/ evidence' >= success_threshold]_vars

(***************************************************************************)
(* An open breaker does not stay open: calls admitted before it opened may *)
(* extend the cooldown by failing late, but only so often, and then the    *)
(* next caller turns the breaker half-open (__enter__).                    *)
(***************************************************************************)
OpenIsTemporary == state = "open" ~> state # "open"

(***************************************************************************)
(* If the backend stays up from some time on, the breaker ends up closed   *)
(* for good, with nobody resetting it.                                     *)
(***************************************************************************)
Recovery == <>[](backend = "up") => <>[](state = "closed")
=============================================================================
