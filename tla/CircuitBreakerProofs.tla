------------------------ MODULE CircuitBreakerProofs ------------------------
(***************************************************************************)
(* Safety of the circuit breaker for any set of callers, any thresholds    *)
(* and any cooldown.                                                       *)
(*                                                                         *)
(* The inductive invariant is the type invariant, the agreement of the     *)
(* counters with the state, and two facts about the history variables: the *)
(* recorded failure time is the time of the last failure, and the success  *)
(* counter of a half-open breaker counts the successes since it opened     *)
(* (none while it is still open).                                          *)
(***************************************************************************)
EXTENDS CircuitBreaker, TLAPS

CreditIsEvidence ==
    /\ state = "open" => evidence = 0
    /\ state = "half_open" => success_count = evidence

FailureTimeIsCurrent == elapsed = quiet

IInv ==
    /\ TypeOK
    /\ CountersAgreeWithState
    /\ CreditIsEvidence
    /\ FailureTimeIsCurrent

USE BreakerAssumption

(* Type correctness is preserved by every step of the breaker, given that  *)
(* its counters agree with its state before the step.                      *)
LEMMA TypeStep == TypeOK /\ CountersAgreeWithState /\ [Next]_vars => TypeOK'
<1> SUFFICES ASSUME TypeOK, CountersAgreeWithState, [Next]_vars
             PROVE  TypeOK'
  OBVIOUS
<1> USE DEF TypeOK, CountersAgreeWithState, CircuitState
<1>1. ASSUME NEW c \in Calls, Enter(c) PROVE TypeOK'
  BY <1>1 DEF Enter, MaybeTransition, CooledDown
<1>2. ASSUME NEW c \in Calls, Reject(c) PROVE TypeOK'
  BY <1>2 DEF Reject, MaybeTransition, CooledDown
<1>3. ASSUME NEW c \in Calls, ExitSuccess(c) PROVE TypeOK'
  BY <1>3 DEF ExitSuccess, Leave, OnSuccess, Evidence
<1>4. ASSUME NEW c \in Calls, ExitFailure(c) PROVE TypeOK'
  BY <1>4 DEF ExitFailure, Leave, OnFailure
<1>5. CASE ReadState
  BY <1>5 DEF ReadState, MaybeTransition, CooledDown
<1>6. CASE Reset
  BY <1>6 DEF Reset
<1>7. CASE Tick
  BY <1>7 DEF Tick, Later
<1>8. CASE Flip
  BY <1>8 DEF Flip
<1>9. CASE UNCHANGED vars
  BY <1>9 DEF vars
<1> QED
  BY <1>1, <1>2, <1>3, <1>4, <1>5, <1>6, <1>7, <1>8, <1>9 DEF Next

(* A step keeps the counters in agreement with the state: a breaker opens  *)
(* exactly when its failure budget is spent, and both ways of closing it,  *)
(* _on_success and reset, give the whole budget back.                      *)
LEMMA CountersStep == IInv /\ [Next]_vars => CountersAgreeWithState'
<1> SUFFICES ASSUME IInv, [Next]_vars
             PROVE  CountersAgreeWithState'
  OBVIOUS
<1> USE DEF IInv, TypeOK, CountersAgreeWithState, CircuitState
<1>1. ASSUME NEW c \in Calls, Enter(c) PROVE CountersAgreeWithState'
  BY <1>1 DEF Enter, MaybeTransition, CooledDown
<1>2. ASSUME NEW c \in Calls, Reject(c) PROVE CountersAgreeWithState'
  BY <1>2 DEF Reject, MaybeTransition, CooledDown
<1>3. ASSUME NEW c \in Calls, ExitSuccess(c) PROVE CountersAgreeWithState'
  BY <1>3 DEF ExitSuccess, OnSuccess
<1>4. ASSUME NEW c \in Calls, ExitFailure(c) PROVE CountersAgreeWithState'
  BY <1>4 DEF ExitFailure, OnFailure
<1>5. CASE ReadState
  BY <1>5 DEF ReadState, MaybeTransition, CooledDown
<1>6. CASE Reset
  BY <1>6 DEF Reset
<1>7. CASE Tick
  BY <1>7 DEF Tick
<1>8. CASE Flip
  BY <1>8 DEF Flip
<1>9. CASE UNCHANGED vars
  BY <1>9 DEF vars
<1> QED
  BY <1>1, <1>2, <1>3, <1>4, <1>5, <1>6, <1>7, <1>8, <1>9 DEF Next

(* The history facts: every failure restarts the cooldown, in every state, *)
(* and a breaker that turns half-open starts from no credit.               *)
LEMMA HistoryStep ==
    IInv /\ [Next]_vars => CreditIsEvidence' /\ FailureTimeIsCurrent'
<1> SUFFICES ASSUME IInv, [Next]_vars
             PROVE  CreditIsEvidence' /\ FailureTimeIsCurrent'
  OBVIOUS
<1> DEFINE Goal == CreditIsEvidence' /\ FailureTimeIsCurrent'
<1> USE DEF IInv, TypeOK, CountersAgreeWithState, CircuitState,
            CreditIsEvidence, FailureTimeIsCurrent
<1>1. ASSUME NEW c \in Calls, Enter(c) PROVE Goal
  BY <1>1 DEF Enter, MaybeTransition, CooledDown
<1>2. ASSUME NEW c \in Calls, Reject(c) PROVE Goal
  BY <1>2 DEF Reject, MaybeTransition, CooledDown
<1>3. ASSUME NEW c \in Calls, ExitSuccess(c) PROVE Goal
  BY <1>3 DEF ExitSuccess, OnSuccess, Evidence
<1>4. ASSUME NEW c \in Calls, ExitFailure(c) PROVE Goal
  BY <1>4 DEF ExitFailure, OnFailure
<1>5. CASE ReadState
  BY <1>5 DEF ReadState, MaybeTransition, CooledDown
<1>6. CASE Reset
  BY <1>6 DEF Reset
<1>7. CASE Tick
  BY <1>7 DEF Tick, Later
<1>8. CASE Flip
  BY <1>8 DEF Flip
<1>9. CASE UNCHANGED vars
  BY <1>9 DEF vars
<1> QED
  BY <1>1, <1>2, <1>3, <1>4, <1>5, <1>6, <1>7, <1>8, <1>9 DEF Next

(* IInv holds in every reachable state of the breaker. *)
THEOREM Inductive == Spec => []IInv
<1>1. Init => IInv
  BY DEF Init, IInv, TypeOK, CountersAgreeWithState, CreditIsEvidence,
         FailureTimeIsCurrent, CircuitState
<1>2. IInv /\ [Next]_vars => IInv'
  BY TypeStep, CountersStep, HistoryStep DEF IInv
<1> QED
  BY <1>1, <1>2, PTL DEF Spec

(* For any number of concurrent callers the counters stay within their     *)
(* thresholds and every call reported is one that was admitted.            *)
THEOREM TypeCorrect == Spec => []TypeOK
<1>1. IInv => TypeOK
  BY DEF IInv
<1> QED
  BY Inductive, <1>1, PTL

(* The state and the two counters agree, in whatever order the results of  *)
(* concurrent calls reach _on_success and _on_failure.                     *)
THEOREM CountersCorrect == Spec => []CountersAgreeWithState
<1>1. IInv => CountersAgreeWithState
  BY DEF IInv
<1> QED
  BY Inductive, <1>1, PTL

(* __enter__ and _maybe_transition let nobody through an open breaker      *)
(* before a full cooldown without a failure.                               *)
THEOREM CooldownCorrect == Spec => CooldownRespected
<1>1. IInv /\ [Next]_vars
      => [state = "open" /\ quiet < cooldown_seconds
          => running' \subseteq running /\ state' # "half_open"]_vars
  <2> SUFFICES ASSUME IInv, Next, state = "open", quiet < cooldown_seconds
               PROVE  running' \subseteq running /\ state' # "half_open"
    OBVIOUS
  <2> USE DEF IInv, TypeOK, FailureTimeIsCurrent
  <2>0. ~CooledDown
    BY DEF CooledDown
  <2>1. ASSUME NEW c \in Calls, Enter(c) PROVE FALSE
    BY <2>0, <2>1 DEF Enter, MaybeTransition
  <2>2. ASSUME NEW c \in Calls, Reject(c)
        PROVE  running' \subseteq running /\ state' # "half_open"
    BY <2>0, <2>2 DEF Reject, MaybeTransition
  <2>3. ASSUME NEW c \in Calls, ExitSuccess(c)
        PROVE  running' \subseteq running /\ state' # "half_open"
    BY <2>3 DEF ExitSuccess, Leave, OnSuccess
  <2>4. ASSUME NEW c \in Calls, ExitFailure(c)
        PROVE  running' \subseteq running /\ state' # "half_open"
    BY <2>4 DEF ExitFailure, Leave, OnFailure
  <2>5. CASE ReadState
    BY <2>0, <2>5 DEF ReadState, MaybeTransition
  <2>6. CASE Reset
    BY <2>6 DEF Reset
  <2>7. CASE Tick
    BY <2>7 DEF Tick
  <2>8. CASE Flip
    BY <2>8 DEF Flip
  <2> QED
    BY <2>1, <2>2, <2>3, <2>4, <2>5, <2>6, <2>7, <2>8 DEF Next
<1> QED
  BY Inductive, <1>1, PTL DEF Spec, CooldownRespected

(* Only success_threshold successes reported since it opened close a       *)
(* half-open breaker, unless an operator resets it.                        *)
THEOREM CreditCorrect == Spec => NoLeftoverCredit
<1>1. IInv /\ [Next]_vars
      => [state = "half_open" /\ state' = "closed"
          => Reset \/ evidence' >= success_threshold]_vars
  <2> SUFFICES ASSUME IInv, Next, state = "half_open", state' = "closed",
                      ~Reset
               PROVE  evidence' >= success_threshold
    OBVIOUS
  <2> USE DEF IInv, TypeOK, CreditIsEvidence, CountersAgreeWithState
  <2>1. ASSUME NEW c \in Calls, Enter(c) PROVE FALSE
    BY <2>1 DEF Enter, MaybeTransition, CooledDown
  <2>2. ASSUME NEW c \in Calls, Reject(c) PROVE FALSE
    BY <2>2 DEF Reject, MaybeTransition, CooledDown
  <2>3. ASSUME NEW c \in Calls, ExitSuccess(c)
        PROVE  evidence' >= success_threshold
    BY <2>3 DEF ExitSuccess, OnSuccess, Evidence
  <2>4. ASSUME NEW c \in Calls, ExitFailure(c) PROVE FALSE
    BY <2>4 DEF ExitFailure, OnFailure
  <2>5. CASE ReadState
    BY <2>5 DEF ReadState, MaybeTransition, CooledDown
  <2>6. CASE Tick
    BY <2>6 DEF Tick
  <2>7. CASE Flip
    BY <2>7 DEF Flip
  <2> QED
    BY <2>1, <2>2, <2>3, <2>4, <2>5, <2>6, <2>7 DEF Next
<1> QED
  BY Inductive, <1>1, PTL DEF Spec, NoLeftoverCredit
=============================================================================
