---------------------------- MODULE ServerProofs ----------------------------
(***************************************************************************)
(* The run store, the counters and the rate limiter of the server, for any *)
(* requests and commands, however many run at once, any chains and any     *)
(* limits.                                                                 *)
(***************************************************************************)
EXTENDS Server, FiniteSetTheorems, SequenceTheorems, WellFoundedInduction,
        TLAPS

USE ServerAssumption

Records == {Store!NoRow} \cup {Store!Record(r) : r \in Runs}

Whereabouts ==
    Over \cup {"new", "handler", "executing", "streaming", "saved", "opened"}

Types ==
    /\ phase \in Phases
    /\ pc \in [Runs -> Whereabouts]
    /\ path \in [Requests -> Paths]
    /\ save_run \in [Requests -> BOOLEAN]
    /\ rows \in [RunIds -> Records]
    /\ saved \in Seq(Runs)

(* Under the id of every run that was saved there is the record of the last *)
(* one saved under that id.                                                 *)
Filed ==
    \A j \in DOMAIN saved :
        \E k \in DOMAIN saved :
            /\ IsLast(k)
            /\ RunId(saved[k]) = RunId(saved[j])
            /\ rows[RunId(saved[j])] = Store!Record(saved[k])

(* What the whereabouts of a run say about its save: it is over, or about   *)
(* to send its last event; who gets there was saved if it was to be; and    *)
(* only requests that run a pipeline are to be saved.                       *)
Tracked ==
    /\ \A r \in Range(saved) : pc[r] \in {"saved", "answered", "cancelled"}
    /\ \A r \in Requests : pc[r] \in {"saved", "answered"} /\ save_run[r]
                           => r \in Range(saved)
    /\ \A c \in Commands : pc[c] = "answered" => c \in Range(saved)
    /\ \A r \in Requests : save_run[r] => ~IsGet(path[r])

(* The strengthening of the two invariants to one that every step keeps. *)
IInv == Types /\ Filed /\ Tracked /\ CountersAgree

-----------------------------------------------------------------------------
(* A save appends to the history. *)
LEMMA Appending ==
    ASSUME saved \in Seq(Runs), NEW r \in Runs, saved' = Append(saved, r)
    PROVE  /\ saved' \in Seq(Runs)
           /\ Len(saved) \in Nat
           /\ DOMAIN saved = 1..Len(saved)
           /\ DOMAIN saved' = 1..(Len(saved) + 1)
           /\ saved'[Len(saved) + 1] = r
           /\ \A k \in 1..Len(saved) : saved'[k] = saved[k]
           /\ Range(saved') = Range(saved) \cup {r}
<1>1. /\ saved' \in Seq(Runs)
      /\ Len(saved) \in Nat
      /\ DOMAIN saved = 1..Len(saved)
      /\ DOMAIN saved' = 1..(Len(saved) + 1)
      /\ saved'[Len(saved) + 1] = r
      /\ \A k \in 1..Len(saved) : saved'[k] = saved[k]
  OBVIOUS
<1>2. Range(saved') = Range(saved) \cup {r}
  BY <1>1 DEF Range
<1> QED
  BY <1>1, <1>2

(* Every run has an id in the table. *)
LEMMA HasId == ASSUME Types, NEW r \in Runs PROVE RunId(r) \in RunIds
  BY DEF Types, RunId, RunIds

(* A save files the run and leaves the records under other ids alone. *)
LEMMA SaveFiles ==
    ASSUME Types, Filed, NEW r \in Runs, phase' = phase,
           Store!save(RunId(r), r), saved' = Append(saved, r)
    PROVE  /\ Filed'
           /\ rows' \in [RunIds -> Records]
<1>1. RunId(r) \in RunIds
  BY HasId
<1>2. \A q : RunId(q)' = RunId(q)
  BY DEF RunId
<1>3. rows' = [rows EXCEPT ![RunId(r)] = Store!Record(r)]
  BY DEF Store!save
<1>4. rows' \in [RunIds -> Records]
  BY <1>1, <1>3 DEF Types, Records
<1>5. /\ DOMAIN saved = 1..Len(saved)
      /\ Len(saved) \in Nat
      /\ DOMAIN saved' = 1..(Len(saved) + 1)
      /\ saved'[Len(saved) + 1] = r
      /\ \A k \in 1..Len(saved) : saved'[k] = saved[k] /\ saved[k] \in Runs
  BY Appending DEF Types
<1>6. ASSUME NEW j \in DOMAIN saved'
      PROVE  \E k \in DOMAIN saved' :
                 /\ IsLast(k)'
                 /\ RunId(saved'[k]) = RunId(saved'[j])
                 /\ rows'[RunId(saved'[j])] = Store!Record(saved'[k])
  <2>1. CASE RunId(saved'[j]) = RunId(r)
    <3>1. PICK n \in DOMAIN saved' : n = Len(saved) + 1
      BY <1>5
    <3>2. IsLast(n)'
      BY <1>5, <3>1 DEF IsLast
    <3>3. rows'[RunId(r)] = Store!Record(r)
      BY <1>1, <1>3 DEF Types
    <3> QED
      BY <1>5, <2>1, <3>1, <3>2, <3>3
  <2>2. CASE RunId(saved'[j]) # RunId(r)
    <3>1. j \in 1..Len(saved) /\ saved'[j] = saved[j]
      BY <1>5, <2>2
    <3>2. PICK k \in DOMAIN saved :
              /\ IsLast(k)
              /\ RunId(saved[k]) = RunId(saved[j])
              /\ rows[RunId(saved[j])] = Store!Record(saved[k])
      BY <1>5, <3>1 DEF Filed
    <3>3. k \in DOMAIN saved' /\ saved'[k] = saved[k]
      BY <1>5, <3>2
    <3>4. IsLast(k)'
      <4> SUFFICES ASSUME NEW i \in DOMAIN saved', i > k
                   PROVE  RunId(saved'[i]) # RunId(saved'[k])
        BY <1>2 DEF IsLast
      <4>1. CASE i = Len(saved) + 1
        BY <1>5, <2>2, <3>1, <3>2, <3>3, <4>1
      <4>2. CASE i \in 1..Len(saved)
        BY <1>5, <3>2, <3>3, <4>2 DEF IsLast
      <4> QED
        BY <1>5, <4>1, <4>2
    <3>5. rows'[RunId(saved[j])] = rows[RunId(saved[j])]
      <4>1. RunId(saved[j]) \in RunIds
        BY <1>5, <3>1, HasId
      <4> QED
        BY <1>3, <2>2, <3>1, <4>1 DEF Types
    <3> QED
      BY <3>1, <3>2, <3>3, <3>4, <3>5
  <2> QED
    BY <2>1, <2>2
<1>7. Filed'
  BY <1>2, <1>6 DEF Filed
<1> QED
  BY <1>4, <1>7

(* Without a save, the files stay in order. *)
LEMMA NothingFiled ==
    ASSUME Filed, UNCHANGED <<phase, rows, saved>>
    PROVE  Filed'
  BY DEF Filed, IsLast, RunId

(* A request moves on without a save: from where it could not have been     *)
(* saved, or after its save and on to its end, or to its end with nothing   *)
(* to save.                                                                 *)
MovesOn(r, to) ==
    /\ pc' = [pc EXCEPT ![r] = to]
    /\ UNCHANGED <<phase, path, save_run, rows, saved>>
    /\ \/ pc[r] = "saved" /\ to \in {"answered", "cancelled"}
       \/ /\ pc[r] \in {"handler", "executing", "streaming", "new"}
          /\ to \in {"saved", "answered"} => ~save_run[r]
    /\ runs \subseteq runs'
    /\ runs' \ counted' \subseteq runs \ counted

(* Moving on keeps the invariant. *)
LEMMA MovingOn ==
    ASSUME IInv, NEW r \in Requests, NEW to \in Whereabouts, MovesOn(r, to)
    PROVE  IInv'
<1> USE DEF MovesOn
<1>1. Types'
  BY DEF IInv, Types, Runs
<1>2. Filed'
  BY NothingFiled DEF IInv
<1>3. Tracked'
  BY DEF IInv, Types, Tracked, Runs, Range
<1>4. CountersAgree'
  BY DEF IInv, Types, Tracked, CountersAgree, Runs
<1> QED
  BY <1>1, <1>2, <1>3, <1>4 DEF IInv

(* A run that could not have been saved before is saved and moves on.  A    *)
(* request is counted on the way, unless it streams.                        *)
Saves(r, to) ==
    /\ pc[r] \in {"handler", "streaming", "opened"}
    /\ pc' = [pc EXCEPT ![r] = to]
    /\ UNCHANGED <<phase, path, save_run>>
    /\ Store!save(RunId(r), r)
    /\ saved' = Append(saved, r)
    /\ r \in Requests => r \in runs' \/ path[r] = "stream"
    /\ runs \subseteq runs'
    /\ runs' \ counted' \subseteq runs \ counted

(* So does a save. *)
LEMMA Saving ==
    ASSUME IInv, NEW r \in Runs, NEW to \in {"saved", "answered"}, Saves(r, to)
    PROVE  IInv'
<1> USE DEF Saves
<1>1. saved' \in Seq(Runs) /\ Range(saved') = Range(saved) \cup {r}
  BY Appending DEF IInv, Types
<1>2. Filed' /\ rows' \in [RunIds -> Records]
  BY SaveFiles DEF IInv
<1>3. Types'
  BY <1>1, <1>2 DEF IInv, Types, Whereabouts, Over
<1>4. Tracked'
  BY <1>1 DEF IInv, Types, Tracked, Runs
<1>5. CountersAgree'
  BY <1>1 DEF IInv, Types, Tracked, CountersAgree, Runs
<1> QED
  BY <1>2, <1>3, <1>4, <1>5 DEF IInv

(* A step that concerns neither the runs' whereabouts nor their records. *)
LEMMA Elsewhere ==
    ASSUME IInv, UNCHANGED <<pc, phase, path, save_run, rows, saved, metrics>>
    PROVE  IInv'
<1> USE DEF metrics
<1>1. Types' /\ Tracked' /\ CountersAgree'
  BY DEF IInv, Types, Tracked, CountersAgree
<1>2. Filed'
  BY NothingFiled DEF IInv
<1> QED
  BY <1>1, <1>2 DEF IInv

-----------------------------------------------------------------------------
(* It holds when the server starts. *)
LEMMA Initially == Init => IInv
<1> SUFFICES ASSUME Init PROVE IInv
  OBVIOUS
<1>1. Types
  BY DEF Init, Types, Runs, Whereabouts, Paths, Records, Store!EmptyTable
<1>2. saved = <<>> /\ Range(saved) = {}
  BY DEF Init, Range
<1>3. Filed /\ Tracked /\ CountersAgree
  BY <1>2 DEF Init, Filed, Tracked, CountersAgree, Runs
<1> QED
  BY <1>1, <1>3 DEF IInv

(* Every step keeps the strengthened invariant. *)
LEMMA Step == IInv /\ [Next]_vars => IInv'
<1> SUFFICES ASSUME IInv, [Next]_vars PROVE IInv'
  OBVIOUS
<1> USE DEF At, In, New, store, metrics, request
<1>1. CASE create_app
  BY <1>1, Elsewhere DEF create_app, Store!opened, Store!open_raises
<1>2. CASE Tick
  BY <1>2, Elsewhere DEF Tick
<1>3. CASE UNCHANGED vars
  BY <1>3, Elsewhere DEF vars
<1>4. ASSUME NEW r \in Requests, NEW p \in Paths, NEW k,
             TurnedAway(r, p, k) \/ unprocessable(r, p, k)
      PROVE  IInv'
  <2>1. \E to \in {"unauthorized", "limited", "rejected"} : MovesOn(r, to)
    BY <1>4 DEF TurnedAway, unprocessable, MovesOn
  <2> QED
    BY <2>1, MovingOn DEF Whereabouts, Over
<1>5. ASSUME NEW r \in Requests, NEW p \in Paths, NEW k, Arrive(r, p, k)
      PROVE  IInv'
  <2>0. /\ pc[r] = "new" /\ pc' = [pc EXCEPT ![r] = "handler"]
        /\ path' = [path EXCEPT ![r] = p]
        /\ \E b \in BOOLEAN : /\ save_run' = [save_run EXCEPT ![r] = b]
                              /\ b => ~IsGet(p)
        /\ UNCHANGED <<phase, rows, saved, runs, counted>>
    BY <1>5 DEF Arrive
  <2>1. Types'
    BY <2>0 DEF IInv, Types, Runs, Whereabouts
  <2>2. Filed'
    BY <2>0, NothingFiled DEF IInv
  <2>3. Tracked'
    BY <2>0 DEF IInv, Types, Tracked, Runs
  <2>4. CountersAgree'
    BY <2>0 DEF IInv, Types, Tracked, CountersAgree, Runs
  <2> QED
    BY <2>1, <2>2, <2>3, <2>4 DEF IInv
<1>6. ASSUME NEW r \in Requests, health(r) \/ ReadRuns(r) PROVE IInv'
  <2>1. ~save_run[r]
    BY <1>6 DEF health, ReadRuns, IInv, Tracked, IsGet
  <2>2. \E to \in {"answered", "rejected"} : MovesOn(r, to)
    BY <1>6, <2>1 DEF health, ReadRuns, MovesOn
  <2> QED
    BY <2>2, MovingOn DEF Whereabouts, Over
<1>7. ASSUME NEW r \in Requests, infer(r) PROVE IInv'
  <2>1. CASE save_run[r]
    <3>1. Saves(r, "answered")
      BY <1>7, <2>1 DEF infer, SaveRun, Saves
    <3> QED
      BY <3>1, Saving DEF Runs
  <2>2. CASE ~save_run[r]
    <3>1. MovesOn(r, "answered")
      BY <1>7, <2>2 DEF infer, SaveRun, MovesOn
    <3> QED
      BY <3>1, MovingOn DEF Whereabouts, Over
  <2> QED
    BY <2>1, <2>2
<1>8. ASSUME NEW r \in Requests, InferSaveRaises(r) PROVE IInv'
  <2>1. Types' /\ Tracked'
    BY <1>8 DEF InferSaveRaises, IInv, Types, Tracked, Runs, Whereabouts, Over
  <2>2. Filed'
    BY <1>8, NothingFiled DEF InferSaveRaises, IInv
  <2>3. CountersAgree'
    BY <1>8 DEF InferSaveRaises, IInv, Types, Tracked, CountersAgree, Runs
  <2> QED
    BY <2>1, <2>2, <2>3 DEF IInv
<1>9. ASSUME NEW r \in Requests,
             \/ InferRaises(r)
             \/ StreamStarts(r) \/ PipelineReturns(r) \/ StreamRaises(r)
      PROVE  IInv'
  <2>1. \E to \in {"error", "executing", "streaming"} : MovesOn(r, to)
    BY <1>9 DEF InferRaises, StreamStarts, PipelineReturns, StreamRaises, MovesOn
  <2> QED
    BY <2>1, MovingOn DEF Whereabouts, Over
<1>10. ASSUME NEW r \in Requests, SendEvent(r) PROVE IInv'
  BY <1>10, Elsewhere DEF SendEvent
<1>11. ASSUME NEW r \in Requests, SaveStream(r) PROVE IInv'
  <2>1. CASE save_run[r]
    <3>1. Saves(r, "saved")
      BY <1>11, <2>1 DEF SaveStream, SaveRun, Saves
    <3> QED
      BY <3>1, Saving DEF Runs
  <2>2. CASE ~save_run[r]
    <3>1. MovesOn(r, "saved")
      BY <1>11, <2>2 DEF SaveStream, SaveRun, MovesOn
    <3> QED
      BY <3>1, MovingOn DEF Whereabouts
  <2> QED
    BY <2>1, <2>2
<1>12. ASSUME NEW r \in Requests, SendDone(r) \/ Disconnect(r) PROVE IInv'
  <2>1. MovesOn(r, "answered") \/ MovesOn(r, "cancelled")
    BY <1>12 DEF SendDone, Disconnect, MovesOn
  <2> QED
    BY <2>1, MovingOn DEF Whereabouts, Over
<1>13. ASSUME NEW c \in Commands,
              pc[c] \in {"new", "opened"},
              \E to \in {"opened", "error"} : pc' = [pc EXCEPT ![c] = to],
              UNCHANGED <<request, rows, saved, metrics>>
       PROVE  IInv'
  <2>1. Types' /\ Tracked'
    BY <1>13 DEF IInv, Types, Tracked, Runs, Whereabouts, Over
  <2>2. Filed'
    BY <1>13, NothingFiled DEF IInv
  <2>3. CountersAgree'
    BY <1>13 DEF IInv, Types, Tracked, CountersAgree, Runs
  <2> QED
    BY <2>1, <2>2, <2>3 DEF IInv
<1>14. ASSUME NEW c \in Commands, run_command(c) PROVE IInv'
  BY <1>13, <1>14 DEF run_command, Store!opened, Store!open_raises
<1>15. ASSUME NEW c \in Commands, SaveCommand(c) PROVE IInv'
  <2>1. CASE UNCHANGED store
    BY <1>13, <1>15, <2>1 DEF SaveCommand
  <2>2. CASE ~UNCHANGED store
    <3>1. Saves(c, "answered")
      BY <1>15, <2>2 DEF SaveCommand, Saves
    <3> QED
      BY <3>1, Saving DEF Runs
  <2> QED
    BY <2>1, <2>2
<1>16. \A r \in Requests : Asks[r] \subseteq Paths
  OBVIOUS
<1> QED
  BY <1>1, <1>2, <1>3, <1>4, <1>5, <1>6, <1>7, <1>8, <1>9, <1>10, <1>11,
     <1>12, <1>14, <1>15, <1>16 DEF Next, Handler

(* Two runs with one id have the same chain, as it is part of the hash. *)
LEMMA SameChain ==
    ASSUME NEW r, NEW q, RunId(r) = RunId(q)
    PROVE  Sequence(r, phase) = Sequence(q, phase)
  BY DEF RunId, RunIdIn

(* Promised runs were saved, and what was saved is filed. *)
LEMMA Retrievable == IInv => AnsweredIsRetrievable
<1> SUFFICES ASSUME IInv, NEW r \in Promised
             PROVE  /\ r \in Range(saved)
                    /\ \E j \in DOMAIN saved :
                           /\ IsLast(j)
                           /\ Store!get(RunId(r)) = Store!Record(saved[j])
                           /\ Sequence(saved[j], phase) = Sequence(r, phase)
  BY DEF AnsweredIsRetrievable
<1>1. r \in Range(saved)
  BY DEF Promised, Runs, IInv, Tracked
<1>2. PICK i \in DOMAIN saved : saved[i] = r
  BY <1>1 DEF Range
<1>3. PICK j \in DOMAIN saved :
          /\ IsLast(j)
          /\ RunId(saved[j]) = RunId(r)
          /\ rows[RunId(r)] = Store!Record(saved[j])
  BY <1>2 DEF IInv, Filed
<1>4. Sequence(saved[j], phase) = Sequence(r, phase)
  BY <1>3, SameChain
<1> QED
  BY <1>1, <1>3, <1>4 DEF Store!get

-----------------------------------------------------------------------------
(***************************************************************************)
(* However many requests and commands save runs in whatever order: who was *)
(* told the id of a saved run finds a whole record of a run of the same    *)
(* chain, the last one saved under that id (infer, infer_stream,           *)
(* run_command, RunStore.save).                                            *)
(***************************************************************************)
THEOREM RetrievableCorrect == Spec => []AnsweredIsRetrievable
<1>1. IInv => AnsweredIsRetrievable
  BY Retrievable
<1> QED
  BY <1>1, Initially, Step, PTL DEF Spec

(***************************************************************************)
(* For any number of requests, the pipeline counter and the run store      *)
(* disagree only over streams, and the two counters only over a run whose  *)
(* save raised (infer, infer_stream, _metrics_middleware).                 *)
(***************************************************************************)
THEOREM CountersCorrect == Spec => []CountersAgree
<1>1. IInv => CountersAgree
  BY DEF IInv
<1> QED
  BY <1>1, Initially, Step, PTL DEF Spec
-----------------------------------------------------------------------------
(* The rate limiter: w is what is left of all the ages a.  What was popped  *)
(* is out of the window for good.                                           *)
IsTail(w, a) ==
    \E d \in Nat :
        /\ Len(a) = d + Len(w)
        /\ \A i \in 1..Len(w) : w[i] = a[d + i]
        /\ \A i \in 1..d : a[i] > Window

(* Requests are appended as they come. *)
OldestFirst(a) == \A i, j \in 1..Len(a) : i <= j => a[j] <= a[i]

(* The least of a set of natural numbers is one of them. *)
LEMMA Smallest ==
    ASSUME NEW S \in SUBSET Nat, S # {}
    PROVE  Min(S) \in S /\ \A y \in S : Min(S) <= y
<1>1. OpToRel(<, Nat) = {ss \in Nat \X Nat : ss[1] < ss[2]}
  BY DEF OpToRel
<1>2. PICK x \in S : \A y \in S : ~(<<y, x>> \in OpToRel(<, Nat))
  BY WFMin, NatLessThanWellFounded
<1>3. \A y \in S : x <= y
  <2> TAKE y \in S
  <2>1. y \in Nat /\ x \in Nat
    OBVIOUS
  <2>2. ~(<<y, x>> \in {ss \in Nat \X Nat : ss[1] < ss[2]})
    BY <1>1, <1>2
  <2> QED
    BY <2>1, <2>2
<1> QED
  BY <1>3 DEF Min

(* Popping leaves a tail that begins within the window, or nothing. *)
LEMMA Popping ==
    ASSUME NEW w \in Seq(Nat)
    PROVE  \E n \in 0..Len(w) :
               /\ PopLeft(w, Alive(w)) \in Seq(Nat)
               /\ Len(w) = n + Len(PopLeft(w, Alive(w)))
               /\ \A i \in 1..Len(PopLeft(w, Alive(w))) :
                      PopLeft(w, Alive(w))[i] = w[n + i]
               /\ \A i \in 1..n : w[i] > Window
               /\ n < Len(w) => w[n + 1] <= Window
<1> DEFINE S == Alive(w)
<1>0. Window \in Nat /\ Len(w) \in Nat /\ w \in [1..Len(w) -> Nat]
  BY AccessAssumption, LenProperties
<1>a. \A i \in 1..Len(w) : i \notin S => w[i] > Window
  BY <1>0 DEF Alive
<1>1. CASE S = {}
  <2>1. PopLeft(w, S) = <<>>
    BY <1>1 DEF PopLeft
  <2>2. \A i \in 1..Len(w) : w[i] > Window
    BY <1>1, <1>a
  <2> QED
    BY <2>1, <2>2
<1>2. CASE S # {}
  <2>0. S \in SUBSET Nat
    BY <1>0 DEF Alive
  <2>1. Min(S) \in S /\ \A y \in S : Min(S) <= y
    <3> HIDE DEF S
    <3> QED
      BY <1>2, <2>0, Smallest
  <2>2. PICK m : m = Min(S)
    OBVIOUS
  <2>3. m \in 1..Len(w) /\ w[m] <= Window
    BY <2>1, <2>2 DEF Alive
  <2> HIDE DEF S
  <2>4. \A i \in 1..(m - 1) : w[i] > Window
    <3> TAKE i \in 1..(m - 1)
    <3>1. i \in 1..Len(w) /\ ~(m <= i)
      BY <1>0, <2>3
    <3> QED
      BY <1>a, <2>1, <2>2, <3>1
  <2>5. PopLeft(w, Alive(w)) = SubSeq(w, m, Len(w))
    BY <1>2, <2>2 DEF PopLeft, S
  <2>6. /\ SubSeq(w, m, Len(w)) \in Seq(Nat)
        /\ Len(SubSeq(w, m, Len(w))) = Len(w) - (m - 1)
        /\ \A i \in 1..(Len(w) - (m - 1)) :
               SubSeq(w, m, Len(w))[i] = w[(m - 1) + i]
    BY <2>3
  <2>7. PICK p \in Seq(Nat) : p = PopLeft(w, Alive(w))
    BY <2>5, <2>6
  <2>8. PICK n \in 0..Len(w) : n = m - 1
    BY <2>3, <1>0
  <2>9. /\ Len(w) = n + Len(p)
        /\ \A i \in 1..Len(p) : p[i] = w[n + i]
    BY <2>5, <2>6, <2>7, <2>8, <1>0, <2>3
  <2>10. n + 1 = m /\ \A i \in 1..n : w[i] > Window
    BY <2>3, <2>4, <2>8, <1>0
  <2> QED
    BY <2>3, <2>7, <2>8, <2>9, <2>10
<1> QED
  BY <1>1, <1>2

(* After popping, what is left are exactly the requests in the window. *)
LEMMA PoppedTail ==
    ASSUME NEW w \in Seq(Nat), NEW a \in Seq(Nat), IsTail(w, a), OldestFirst(a),
           NEW p, p = PopLeft(w, Alive(w))
    PROVE  /\ p \in Seq(Nat)
           /\ IsTail(p, a)
           /\ IsFiniteSet(Alive(a))
           /\ Cardinality(Alive(a)) = Len(p)
<1>0. Window \in Nat
  BY AccessAssumption
<1>1. PICK n \in 0..Len(w) :
          /\ p \in Seq(Nat)
          /\ Len(w) = n + Len(p)
          /\ \A i \in 1..Len(p) : p[i] = w[n + i]
          /\ \A i \in 1..n : w[i] > Window
          /\ n < Len(w) => w[n + 1] <= Window
  BY Popping
<1>2. PICK d \in Nat :
          /\ Len(a) = d + Len(w)
          /\ \A i \in 1..Len(w) : w[i] = a[d + i]
          /\ \A i \in 1..d : a[i] > Window
  BY DEF IsTail
<1>3. /\ Len(p) \in Nat /\ Len(w) \in Nat /\ Len(a) \in Nat /\ n \in Nat
      /\ a \in [1..Len(a) -> Nat] /\ DOMAIN a = 1..Len(a)
  BY <1>1, LenProperties
<1>4. PICK e \in Nat : e = d + n
  BY <1>2, <1>3
<1>5. Len(a) = e + Len(p)
  BY <1>1, <1>2, <1>3, <1>4
<1>6. \A i \in 1..e : a[i] > Window
  <2> TAKE i \in 1..e
  <2>1. CASE i \in 1..d
    BY <1>2, <2>1
  <2>2. CASE i \notin 1..d
    <3>1. PICK j \in 1..n : i = d + j
      <4>1. i - d \in 1..n /\ i = d + (i - d)
        BY <1>2, <1>3, <1>4, <2>2
      <4> QED
        BY <4>1
    <3>2. j \in 1..Len(w)
      BY <1>1, <1>3
    <3> QED
      BY <1>1, <1>2, <3>1, <3>2
  <2> QED
    BY <2>1, <2>2
<1>7. \A i \in 1..Len(p) : p[i] = a[e + i]
  <2> TAKE i \in 1..Len(p)
  <2>1. n + i \in 1..Len(w) /\ d + (n + i) = e + i
    BY <1>1, <1>2, <1>3, <1>4
  <2> QED
    BY <1>1, <1>2, <2>1
<1>8. IsTail(p, a)
  BY <1>5, <1>6, <1>7 DEF IsTail
<1>9. \A i \in (e + 1)..Len(a) : a[i] <= Window
  <2> TAKE i \in (e + 1)..Len(a)
  <2>0. Len(a) = d + Len(w) /\ e = d + n
    BY <1>2, <1>4
  <2>1. n < Len(w) /\ n + 1 \in 1..Len(w) /\ d + (n + 1) = e + 1
    BY <1>3, <2>0
  <2>2. a[e + 1] <= Window
    <3>1. w[n + 1] <= Window
      BY <1>1, <2>1
    <3>2. w[n + 1] = a[d + (n + 1)]
      BY <1>2, <2>1
    <3> QED
      BY <2>1, <3>1, <3>2
  <2>3. i \in 1..Len(a) /\ e + 1 \in 1..Len(a) /\ e + 1 <= i
    BY <1>3
  <2>4. a[i] <= a[e + 1]
    BY <2>3 DEF OldestFirst
  <2>5. a[i] \in Nat /\ a[e + 1] \in Nat
    BY <1>3, <2>3
  <2> QED
    BY <1>0, <2>2, <2>4, <2>5
<1>10. Alive(a) = (e + 1)..Len(a)
  <2>1. ASSUME NEW i \in 1..Len(a)
        PROVE  \/ i \in 1..e /\ a[i] > Window
               \/ i \in (e + 1)..Len(a) /\ a[i] <= Window
    <3>1. i \in 1..e \/ i \in (e + 1)..Len(a)
      BY <1>3
    <3> QED
      BY <1>6, <1>9, <3>1
  <2>2. ASSUME NEW i \in 1..Len(a)
        PROVE  a[i] <= Window <=> i \in (e + 1)..Len(a)
    <3>1. a[i] \in Nat
      BY <1>3
    <3> QED
      BY <1>0, <2>1, <3>1
  <2> QED
    BY <1>3, <2>2 DEF Alive
<1>11. /\ IsFiniteSet((e + 1)..Len(a))
       /\ Cardinality((e + 1)..Len(a))
             = IF e + 1 > Len(a) THEN 0 ELSE Len(a) - (e + 1) + 1
  <2>1. e + 1 \in Int /\ Len(a) \in Int
    BY <1>3
  <2> QED
    BY <2>1, FS_Interval
<1>12. Cardinality(Alive(a)) = Len(p)
  BY <1>3, <1>5, <1>10, <1>11
<1> QED
  BY <1>1, <1>8, <1>10, <1>11, <1>12

(* Append, element by element. *)
LEMMA Longer ==
    ASSUME NEW s \in Seq(Nat)
    PROVE  /\ Append(s, 0) \in Seq(Nat) /\ Len(Append(s, 0)) = Len(s) + 1
           /\ DOMAIN Append(s, 0) = 1..(Len(s) + 1)
           /\ \A i \in 1..Len(s) : Append(s, 0)[i] = s[i]
           /\ Append(s, 0)[Len(s) + 1] = 0
  OBVIOUS

(* A request joins the tail, the ages, and those within the window. *)
LEMMA Joining ==
    ASSUME NEW p \in Seq(Nat), NEW a \in Seq(Nat), IsTail(p, a), OldestFirst(a),
           IsFiniteSet(Alive(a))
    PROVE  /\ IsTail(Append(p, 0), Append(a, 0))
           /\ OldestFirst(Append(a, 0))
           /\ IsFiniteSet(Alive(Append(a, 0)))
           /\ Cardinality(Alive(Append(a, 0))) = Cardinality(Alive(a)) + 1
<1>0. /\ Window \in Nat /\ Len(p) \in Nat /\ Len(a) \in Nat
      /\ a \in [1..Len(a) -> Nat] /\ DOMAIN a = 1..Len(a)
  BY AccessAssumption, LenProperties
<1>1. PICK b \in Seq(Nat) :
          /\ b = Append(a, 0) /\ Len(b) = Len(a) + 1 /\ DOMAIN b = 1..(Len(a) + 1)
          /\ \A i \in 1..Len(a) : b[i] = a[i]
          /\ b[Len(a) + 1] = 0
  BY Longer
<1>2. PICK q \in Seq(Nat) :
          /\ q = Append(p, 0) /\ Len(q) = Len(p) + 1
          /\ \A i \in 1..Len(p) : q[i] = p[i]
          /\ q[Len(p) + 1] = 0
  BY Longer
<1>3. PICK d \in Nat :
          /\ Len(a) = d + Len(p)
          /\ \A i \in 1..Len(p) : p[i] = a[d + i]
          /\ \A i \in 1..d : a[i] > Window
  BY DEF IsTail
<1>4. IsTail(q, b)
  <2>1. Len(b) = d + Len(q)
    BY <1>0, <1>1, <1>2, <1>3
  <2>2. ASSUME NEW i \in 1..Len(q) PROVE q[i] = b[d + i]
    <3>1. CASE i \in 1..Len(p)
      <4>1. d + i \in 1..Len(a)
        BY <1>0, <1>3, <3>1
      <4> QED
        BY <1>1, <1>2, <1>3, <3>1, <4>1
    <3>2. CASE i = Len(p) + 1
      <4>1. d + i = Len(a) + 1
        BY <1>0, <1>3, <3>2
      <4> QED
        BY <1>1, <1>2, <3>2, <4>1
    <3> QED
      BY <1>0, <1>2, <3>1, <3>2
  <2>3. ASSUME NEW i \in 1..d PROVE b[i] > Window
    <3>1. i \in 1..Len(a)
      BY <1>0, <1>3
    <3> QED
      BY <1>1, <1>3, <3>1
  <2> QED
    BY <2>1, <2>2, <2>3 DEF IsTail
<1>5. OldestFirst(b)
  <2> SUFFICES ASSUME NEW i \in 1..Len(b), NEW j \in 1..Len(b), i <= j
               PROVE  b[j] <= b[i]
    BY DEF OldestFirst
  <2>0. Len(b) = Len(a) + 1 /\ b[i] \in Nat
    BY <1>1
  <2>1. CASE j = Len(a) + 1
    <3>1. b[j] = 0
      BY <1>1, <2>1
    <3> QED
      BY <2>0, <3>1
  <2>2. CASE j \in 1..Len(a)
    <3>1. i \in 1..Len(a)
      BY <1>0, <2>2
    <3> QED
      BY <1>1, <2>2, <3>1 DEF OldestFirst
  <2>3. j = Len(a) + 1 \/ j \in 1..Len(a)
    BY <1>0, <2>0
  <2> QED
    BY <2>1, <2>2, <2>3
<1>6. Alive(b) = Alive(a) \cup {Len(a) + 1} /\ Len(a) + 1 \notin Alive(a)
  BY <1>0, <1>1 DEF Alive
<1> QED
  BY <1>1, <1>2, <1>4, <1>5, <1>6, FS_AddElement

(* Ageing keeps the order of two ages. *)
LEMMA KeepsOrder ==
    ASSUME NEW x \in Nat, NEW y \in Nat, NEW W \in Nat, y <= x
    PROVE  (IF y <= W THEN y + 1 ELSE y) <= (IF x <= W THEN x + 1 ELSE x)
  OBVIOUS

(* A function on 1..n is a sequence of length n. *)
LEMMA IsSequence ==
    ASSUME NEW n \in Nat, NEW t \in [1..n -> Nat]
    PROVE  t \in Seq(Nat) /\ Len(t) = n
  OBVIOUS

(* Time keeps the tail a tail, and takes requests out of the window only. *)
LEMMA Ageing ==
    ASSUME NEW w \in Seq(Nat), NEW a \in Seq(Nat), IsTail(w, a), OldestFirst(a),
           IsFiniteSet(Alive(a))
    PROVE  /\ Older(w) \in Seq(Nat) /\ Older(a) \in Seq(Nat)
           /\ IsTail(Older(w), Older(a))
           /\ OldestFirst(Older(a))
           /\ IsFiniteSet(Alive(Older(a)))
           /\ Cardinality(Alive(Older(a))) <= Cardinality(Alive(a))
<1>0. Window \in Nat
  BY AccessAssumption
<1>1. ASSUME NEW s \in Seq(Nat)
      PROVE  /\ Older(s) \in Seq(Nat) /\ Len(Older(s)) = Len(s)
             /\ Len(s) \in Nat /\ DOMAIN s = 1..Len(s) /\ s \in [1..Len(s) -> Nat]
             /\ \A i \in 1..Len(s) :
                    Older(s)[i] = IF s[i] <= Window THEN s[i] + 1 ELSE s[i]
  <2>1. Len(s) \in Nat /\ DOMAIN s = 1..Len(s) /\ s \in [1..Len(s) -> Nat]
    BY LenProperties
  <2>2. Older(s) \in [1..Len(s) -> Nat]
    BY <1>0, <2>1 DEF Older
  <2>3. Older(s) \in Seq(Nat) /\ Len(Older(s)) = Len(s)
    <3>1. PICK t \in [1..Len(s) -> Nat] : t = Older(s)
      BY <2>2
    <3>2. t \in Seq(Nat) /\ Len(t) = Len(s)
      BY <2>1, IsSequence
    <3> QED
      BY <3>1, <3>2
  <2> QED
    BY <2>1, <2>3 DEF Older
<1>2. PICK b \in Seq(Nat) :
          /\ b = Older(a) /\ Len(b) = Len(a)
          /\ \A i \in 1..Len(a) : b[i] = IF a[i] <= Window THEN a[i] + 1 ELSE a[i]
  BY <1>1
<1>3. PICK v \in Seq(Nat) :
          /\ v = Older(w) /\ Len(v) = Len(w)
          /\ \A i \in 1..Len(w) : v[i] = IF w[i] <= Window THEN w[i] + 1 ELSE w[i]
  BY <1>1
<1>4. /\ Len(a) \in Nat /\ a \in [1..Len(a) -> Nat] /\ DOMAIN a = 1..Len(a)
      /\ Len(w) \in Nat /\ DOMAIN b = 1..Len(b)
  BY <1>1
<1>5. IsTail(v, b)
  <2>1. PICK d \in Nat :
            /\ Len(a) = d + Len(w)
            /\ \A i \in 1..Len(w) : w[i] = a[d + i]
            /\ \A i \in 1..d : a[i] > Window
    BY DEF IsTail
  <2>2. ASSUME NEW i \in 1..Len(w) PROVE v[i] = b[d + i]
    <3>1. d + i \in 1..Len(a)
      BY <1>4, <2>1
    <3> QED
      BY <1>2, <1>3, <2>1, <3>1
  <2>3. ASSUME NEW i \in 1..d PROVE b[i] > Window
    <3>1. i \in 1..Len(a) /\ a[i] > Window
      BY <1>4, <2>1
    <3>2. a[i] \in Nat
      BY <1>4, <3>1
    <3>3. b[i] = a[i]
      BY <1>0, <1>2, <3>1, <3>2
    <3> QED
      BY <3>1, <3>3
  <2> QED
    BY <1>2, <1>3, <2>1, <2>2, <2>3 DEF IsTail
<1>6. OldestFirst(b)
  <2> SUFFICES ASSUME NEW i \in 1..Len(b), NEW j \in 1..Len(b), i <= j
               PROVE  b[j] <= b[i]
    BY DEF OldestFirst
  <2>1. a[j] <= a[i] /\ a[i] \in Nat /\ a[j] \in Nat
    BY <1>2, <1>4 DEF OldestFirst
  <2>2. PICK x \in Nat, y \in Nat : x = a[i] /\ y = a[j] /\ y <= x
    BY <2>1
  <2>3. /\ b[i] = IF x <= Window THEN x + 1 ELSE x
        /\ b[j] = IF y <= Window THEN y + 1 ELSE y
    BY <1>2, <2>2
  <2>4. (IF y <= Window THEN y + 1 ELSE y) <= (IF x <= Window THEN x + 1 ELSE x)
    BY <1>0, <2>2, KeepsOrder
  <2> QED
    BY <2>3, <2>4, Zenon
<1>7. Alive(b) \subseteq Alive(a)
  <2> SUFFICES ASSUME NEW i \in Alive(b) PROVE i \in Alive(a)
    OBVIOUS
  <2>1. i \in 1..Len(a) /\ b[i] <= Window
    BY <1>2, <1>4 DEF Alive
  <2>2. a[i] \in Nat
    BY <1>4, <2>1
  <2>3. a[i] <= Window
    BY <1>0, <1>2, <2>1, <2>2
  <2> QED
    BY <1>4, <2>1, <2>3 DEF Alive
<1>8. IsFiniteSet(Alive(b)) /\ Cardinality(Alive(b)) <= Cardinality(Alive(a))
  BY <1>7, FS_Subset
<1> QED
  BY <1>2, <1>3, <1>5, <1>6, <1>8

(***************************************************************************)
(* What the rate limiter keeps: every caller's window is a tail of all its *)
(* requests, oldest first, and the limit holds.                            *)
(***************************************************************************)
RateInv ==
    /\ window \in [Callers -> Seq(Nat)]
    /\ admitted \in [Callers -> Seq(Nat)]
    /\ \A c \in Callers :
           /\ IsTail(window[c], admitted[c])
           /\ OldestFirst(admitted[c])
           /\ IsFiniteSet(Alive(admitted[c]))
           /\ Recent(c) <= Limit(c)

(* Every caller has a limit; a limit of 0 means the server's. *)
LEMMA HasLimit == ASSUME NEW c \in Callers PROVE Limit(c) \in Nat
  BY AccessAssumption DEF Callers, Limit

(* Who gets past the authentication is a caller. *)
LEMMA IsCaller ==
    ASSUME NEW p, NEW k, AuthStatus(p, k) = 0
    PROVE  Caller(p, k) \in Callers
  BY DEF AuthStatus, Caller, Callers

(* For every caller, the pruned window is what it used of its limit. *)
LEMMA PrunedIsRecent ==
    ASSUME RateInv, NEW c \in Callers
    PROVE  /\ Pruned(c) \in Seq(Nat)
           /\ IsTail(Pruned(c), admitted[c])
           /\ Recent(c) = Len(Pruned(c))
<1>1. /\ window[c] \in Seq(Nat) /\ admitted[c] \in Seq(Nat)
      /\ IsTail(window[c], admitted[c]) /\ OldestFirst(admitted[c])
  BY DEF RateInv
<1> QED
  BY <1>1, PoppedTail DEF Pruned, Recent

(* A refused request leaves the pruned window. *)
LEMMA LimitedKeeps ==
    ASSUME RateInv, NEW c \in Callers, Limited(c)
    PROVE  RateInv'
<1>1. PICK q \in Seq(Nat) : q = Pruned(c) /\ IsTail(q, admitted[c])
  BY PrunedIsRecent
<1>2. window' = [window EXCEPT ![c] = q] /\ admitted' = admitted
  BY <1>1 DEF Limited
<1> QED
  BY <1>1, <1>2 DEF RateInv, Recent

(* A request that is let through is the last one within the limit at most. *)
LEMMA LetThroughKeeps ==
    ASSUME RateInv, NEW c \in Callers, LetThrough(c)
    PROVE  RateInv'
<1>1. PICK q \in Seq(Nat) :
          q = Pruned(c) /\ IsTail(q, admitted[c]) /\ Recent(c) = Len(q)
  BY PrunedIsRecent
<1>2. PICK a \in Seq(Nat) :
          a = admitted[c] /\ OldestFirst(a) /\ IsFiniteSet(Alive(a))
  BY DEF RateInv
<1>3. PICK v \in Seq(Nat) : v = Append(q, 0)
  BY Longer
<1>4. PICK b \in Seq(Nat) : b = Append(a, 0)
  BY Longer
<1>5. /\ IsTail(v, b) /\ OldestFirst(b) /\ IsFiniteSet(Alive(b))
      /\ Cardinality(Alive(b)) = Cardinality(Alive(a)) + 1
  BY <1>1, <1>2, <1>3, <1>4, Joining
<1>6. /\ window' = [window EXCEPT ![c] = v]
      /\ admitted' = [admitted EXCEPT ![c] = b]
      /\ Len(q) < Limit(c)
  BY <1>1, <1>2, <1>3, <1>4 DEF LetThrough
<1>7. Cardinality(Alive(b)) <= Limit(c)
  <2>1. Len(q) \in Nat /\ Limit(c) \in Nat
    BY HasLimit, LenProperties
  <2>2. Cardinality(Alive(b)) = Len(q) + 1
    BY <1>1, <1>2, <1>5 DEF Recent
  <2> QED
    BY <1>6, <2>1, <2>2
<1>8. window' \in [Callers -> Seq(Nat)] /\ admitted' \in [Callers -> Seq(Nat)]
  BY <1>6 DEF RateInv
<1>9. ASSUME NEW x \in Callers
      PROVE  /\ IsTail(window'[x], admitted'[x])
             /\ OldestFirst(admitted'[x])
             /\ IsFiniteSet(Alive(admitted'[x]))
             /\ Cardinality(Alive(admitted'[x])) <= Limit(x)
  <2>1. CASE x = c
    <3>1. window'[x] = v /\ admitted'[x] = b
      BY <1>6, <2>1 DEF RateInv
    <3> QED
      BY <1>5, <1>7, <2>1, <3>1
  <2>2. CASE x # c
    <3>1. window'[x] = window[x] /\ admitted'[x] = admitted[x]
      BY <1>6, <2>2 DEF RateInv
    <3> QED
      BY <3>1 DEF RateInv, Recent
  <2> QED
    BY <2>1, <2>2
<1> QED
  BY <1>8, <1>9 DEF RateInv, Recent

(* Time only takes requests out of the window. *)
LEMMA TimeKeeps ==
    ASSUME RateInv, TimePasses
    PROVE  RateInv'
<1>1. ASSUME NEW c \in Callers
      PROVE  /\ Older(window[c]) \in Seq(Nat) /\ Older(admitted[c]) \in Seq(Nat)
             /\ IsTail(Older(window[c]), Older(admitted[c]))
             /\ OldestFirst(Older(admitted[c]))
             /\ IsFiniteSet(Alive(Older(admitted[c])))
             /\ Cardinality(Alive(Older(admitted[c]))) <= Limit(c)
  <2>1. /\ window[c] \in Seq(Nat) /\ admitted[c] \in Seq(Nat)
        /\ IsTail(window[c], admitted[c]) /\ OldestFirst(admitted[c])
        /\ IsFiniteSet(Alive(admitted[c]))
        /\ Cardinality(Alive(admitted[c])) <= Limit(c)
    BY DEF RateInv, Recent
  <2>2. /\ Older(window[c]) \in Seq(Nat) /\ Older(admitted[c]) \in Seq(Nat)
        /\ IsTail(Older(window[c]), Older(admitted[c]))
        /\ OldestFirst(Older(admitted[c]))
        /\ IsFiniteSet(Alive(Older(admitted[c])))
        /\ Cardinality(Alive(Older(admitted[c])))
               <= Cardinality(Alive(admitted[c]))
    BY <2>1, Ageing
  <2>3. /\ Limit(c) \in Nat /\ Cardinality(Alive(admitted[c])) \in Nat
        /\ Cardinality(Alive(Older(admitted[c]))) \in Nat
    BY <2>1, <2>2, HasLimit, FS_CardinalityType
  <2> QED
    BY <2>1, <2>2, <2>3
<1>2. /\ window' = [c \in Callers |-> Older(window[c])]
      /\ admitted' = [c \in Callers |-> Older(admitted[c])]
  BY DEF TimePasses
<1>3. window' \in [Callers -> Seq(Nat)] /\ admitted' \in [Callers -> Seq(Nat)]
  BY <1>1, <1>2
<1>4. ASSUME NEW c \in Callers
      PROVE  window'[c] = Older(window[c]) /\ admitted'[c] = Older(admitted[c])
  BY <1>2
<1> QED
  BY <1>1, <1>3, <1>4 DEF RateInv, Recent

(* Nobody has sent a request yet. *)
LEMMA RateInitially == Init => RateInv
<1> SUFFICES ASSUME Init PROVE RateInv
  OBVIOUS
<1>1. /\ window = [c \in Callers |-> <<>>]
      /\ admitted = [c \in Callers |-> <<>>]
  BY DEF Init, AccessInit
<1>2. PICK e \in Seq(Nat) : e = <<>> /\ Len(e) = 0 /\ DOMAIN e = {}
  <2>1. <<>> \in Seq(Nat) /\ Len(<<>>) = 0
    BY EmptySeq
  <2>2. DOMAIN <<>> = {}
    OBVIOUS
  <2> QED
    BY <2>1, <2>2
<1>3. IsTail(e, e) /\ OldestFirst(e) /\ Alive(e) = {}
  BY <1>2 DEF IsTail, OldestFirst, Alive
<1>4. IsFiniteSet(Alive(e)) /\ Cardinality(Alive(e)) = 0
  BY <1>3, FS_EmptySet
<1>5. \A c \in Callers : 0 <= Limit(c)
  BY HasLimit
<1> QED
  BY <1>1, <1>2, <1>3, <1>4, <1>5 DEF RateInv, Recent

(* Only the middlewares and time change what the rate limiter keeps. *)
LEMMA RateStep == RateInv /\ [Next]_vars => RateInv'
<1> SUFFICES ASSUME RateInv, [Next]_vars PROVE RateInv'
  OBVIOUS
<1>1. CASE UNCHANGED accessVars
  BY <1>1 DEF RateInv, Recent, accessVars
<1>2. ASSUME NEW r, NEW p, NEW k, TurnedAway(r, p, k) PROVE RateInv'
  <2>1. CASE Refused
    BY <1>1, <2>1 DEF Refused
  <2>2. CASE AuthStatus(p, k) = 0 /\ Limited(Caller(p, k))
    BY <2>2, IsCaller, LimitedKeeps
  <2> QED
    BY <1>2, <2>1, <2>2 DEF TurnedAway
<1>3. ASSUME NEW r, NEW p, NEW k, unprocessable(r, p, k) \/ Arrive(r, p, k)
      PROVE  RateInv'
  BY <1>3, IsCaller, LetThroughKeeps DEF unprocessable, Arrive
<1>4. CASE Tick
  BY <1>4, TimeKeeps DEF Tick
<1>5. ASSUME NEW r \in Requests, Handler(r) \/ Disconnect(r) PROVE RateInv'
  <2>1. UNCHANGED accessVars
    BY <1>5
    DEF Handler, Disconnect, In, health, ReadRuns, infer, InferRaises,
        InferSaveRaises, StreamStarts, PipelineReturns, StreamRaises, SendEvent,
        SaveStream, SendDone
  <2> QED
    BY <1>1, <2>1
<1>6. ASSUME NEW c \in Commands, run_command(c) \/ SaveCommand(c) PROVE RateInv'
  BY <1>1, <1>6 DEF run_command, SaveCommand
<1>7. CASE create_app
  BY <1>1, <1>7 DEF create_app
<1>8. CASE UNCHANGED vars
  BY <1>1, <1>8 DEF vars
<1> QED
  BY <1>2, <1>3, <1>4, <1>5, <1>6, <1>7, <1>8 DEF Next

(***************************************************************************)
(* For any limits, any window and any number of requests, no caller gets   *)
(* more requests through within a window than its limit, although old      *)
(* entries are pruned only when the caller comes back                      *)
(* (RateLimitMiddleware).                                                  *)
(***************************************************************************)
THEOREM RateCorrect == Spec => []RateBound
<1>1. RateInv => RateBound
  BY DEF RateInv, RateBound
<1> QED
  BY <1>1, RateInitially, RateStep, PTL DEF Spec

(***************************************************************************)
(* Conversely, no request is refused with 429 while its caller has budget  *)
(* left: refused requests and requests older than the window use up none   *)
(* (RateLimitMiddleware).                                                  *)
(***************************************************************************)
THEOREM RefusalCorrect == Spec => RefusedOnlyWhenSpent
<1>1. IInv /\ RateInv /\ [Next]_vars =>
          [\A r \in Requests :
               pc[r] = "new" /\ pc'[r] = "limited"
               => \A p \in Paths, k \in ApiKeys \cup {BadKey} :
                      TurnedAway(r, p, k)
                      => Recent(Caller(p, k)) = Limit(Caller(p, k))]_vars
  <2> SUFFICES ASSUME IInv, RateInv, NEW r \in Requests, pc'[r] = "limited",
                      NEW p \in Paths, NEW k \in ApiKeys \cup {BadKey},
                      TurnedAway(r, p, k)
               PROVE  Recent(Caller(p, k)) = Limit(Caller(p, k))
    OBVIOUS
  <2>1. pc' # [pc EXCEPT ![r] = "unauthorized"]
    BY DEF IInv, Types, Runs
  <2>2. AuthStatus(p, k) = 0 /\ Limited(Caller(p, k))
    BY <2>1 DEF TurnedAway, At
  <2>3. PICK c \in Callers : c = Caller(p, k)
    BY <2>2, IsCaller
  <2>4. /\ Len(Pruned(c)) >= Limit(c) /\ Recent(c) = Len(Pruned(c))
        /\ Pruned(c) \in Seq(Nat) /\ Recent(c) <= Limit(c)
    BY <2>2, <2>3, PrunedIsRecent DEF Limited, RateInv
  <2>5. Len(Pruned(c)) \in Nat /\ Limit(c) \in Nat
    BY <2>4, HasLimit, LenProperties
  <2>6. Recent(c) = Limit(c)
    BY <2>4, <2>5
  <2> QED
    BY <2>3, <2>6
<1> QED
  BY <1>1, Initially, Step, RateInitially, RateStep, PTL
  DEF Spec, RefusedOnlyWhenSpent
-----------------------------------------------------------------------------
(***************************************************************************)
(* No run is saved twice, however its request ends: neither infer, nor a   *)
(* stream that its client abandons, nor `chen run` saves a run again that  *)
(* is in the store (infer, infer_stream, run_command).                     *)
(***************************************************************************)
SavedOnce == \A i, j \in DOMAIN saved : saved[i] = saved[j] => i = j

(* Where a run can go from where it is. *)
After(from) ==
    CASE from = "new"       -> {"handler", "opened"} \cup Over
      [] from = "handler"   -> {"executing"} \cup Over
      [] from = "executing" -> {"streaming"} \cup Over
      [] from = "streaming" -> {"saved"} \cup Over
      [] from = "saved"     -> Over
      [] from = "opened"    -> Over
      [] OTHER              -> {}

GoesOn(r) ==
    /\ \E to \in After(pc[r]) :
           /\ pc' = [pc EXCEPT ![r] = to]
           /\ r \in Commands => to \in {"opened"} \cup Over
    /\ sent' = sent
    /\ \/ saved' = saved
       \/ saved' = Append(saved, r) /\ pc[r] \in {"handler", "streaming", "opened"}

(* Every step takes one run on, sends one event, or is none of the runs'. *)
LEMMA Course ==
    ASSUME IInv, [Next]_vars
    PROVE  \/ UNCHANGED <<pc, sent, saved>>
           \/ \E r \in Requests : SendEvent(r)
           \/ \E r \in Runs : GoesOn(r)
<1> USE DEF At, In, New, store, metrics, request
<1>1. CASE create_app \/ Tick \/ UNCHANGED vars
  BY <1>1 DEF create_app, Tick, vars
<1>2. ASSUME NEW r \in Requests, NEW p, NEW k,
             TurnedAway(r, p, k) \/ unprocessable(r, p, k) \/ Arrive(r, p, k)
      PROVE  GoesOn(r)
  <2>1. /\ pc[r] = "new"
        /\ \E to \in {"unauthorized", "limited", "rejected", "handler"} :
               pc' = [pc EXCEPT ![r] = to]
        /\ UNCHANGED <<sent, saved>>
    BY <1>2 DEF TurnedAway, unprocessable, Arrive
  <2> QED
    BY <2>1 DEF GoesOn, After, Over
<1>3. ASSUME NEW r \in Requests,
             \/ health(r) \/ ReadRuns(r) \/ infer(r) \/ InferRaises(r)
             \/ InferSaveRaises(r) \/ StreamStarts(r)
      PROVE  GoesOn(r)
  <2>1. /\ pc[r] = "handler"
        /\ \E to \in {"answered", "rejected", "error", "executing"} :
               pc' = [pc EXCEPT ![r] = to]
        /\ saved' \in {saved, Append(saved, r)}
        /\ sent' = sent
    BY <1>3 DEF health, ReadRuns, infer, SaveRun, InferRaises, InferSaveRaises,
                StreamStarts
  <2> QED
    BY <2>1 DEF GoesOn, After, Over
<1>4. ASSUME NEW r \in Requests,
             \/ PipelineReturns(r) \/ StreamRaises(r) \/ SendDone(r)
             \/ Disconnect(r)
      PROVE  GoesOn(r)
  <2>1. /\ pc[r] \in {"executing", "streaming", "saved"}
        /\ \/ \E to \in {"error", "answered", "cancelled"} :
                  pc' = [pc EXCEPT ![r] = to]
           \/ pc[r] = "executing" /\ pc' = [pc EXCEPT ![r] = "streaming"]
        /\ UNCHANGED <<sent, saved>>
    BY <1>4 DEF PipelineReturns, StreamRaises, SendDone, Disconnect
  <2> QED
    BY <2>1 DEF GoesOn, After, Over
<1>5. ASSUME NEW r \in Requests, SaveStream(r) PROVE GoesOn(r)
  <2>1. /\ pc[r] = "streaming" /\ pc' = [pc EXCEPT ![r] = "saved"]
        /\ saved' \in {saved, Append(saved, r)}
        /\ sent' = sent
    BY <1>5 DEF SaveStream, SaveRun
  <2> QED
    BY <2>1 DEF GoesOn, After, Over
<1>6. ASSUME NEW c \in Commands, run_command(c) \/ SaveCommand(c)
      PROVE  GoesOn(c)
  <2>1. \/ pc[c] = "new" /\ saved' = saved
           /\ \E to \in {"opened", "error"} : pc' = [pc EXCEPT ![c] = to]
        \/ pc[c] = "opened" /\ saved' \in {saved, Append(saved, c)}
           /\ \E to \in {"answered", "error"} : pc' = [pc EXCEPT ![c] = to]
    BY <1>6 DEF run_command, SaveCommand
  <2>2. sent' = sent
    BY <1>6 DEF run_command, SaveCommand
  <2> QED
    BY <2>1, <2>2 DEF GoesOn, After, Over
<1> QED
  BY <1>1, <1>2, <1>3, <1>4, <1>5, <1>6 DEF Next, Handler, Runs

(* The events of a stream are at most one per expert, and a command streams *)
(* none.                                                                    *)
CourseInv ==
    /\ SavedOnce
    /\ sent \in [Requests -> 0..Events]
    /\ \A c \in Commands : pc[c] \in {"new", "opened"} \cup Over

(* Who is saved has not been saved before: it was not where saved runs are. *)
LEMMA CourseStep == IInv /\ CourseInv /\ [Next]_vars => CourseInv'
<1> SUFFICES ASSUME IInv, CourseInv, [Next]_vars PROVE CourseInv'
  OBVIOUS
<1>1. CASE UNCHANGED <<pc, sent, saved>>
  BY <1>1 DEF CourseInv, SavedOnce
<1>2. ASSUME NEW r \in Requests, SendEvent(r) PROVE CourseInv'
  BY <1>2 DEF SendEvent, store, CourseInv, SavedOnce
<1>3. ASSUME NEW r \in Runs, GoesOn(r) PROVE CourseInv'
  <2>1. sent' = sent
    BY <1>3 DEF GoesOn
  <2>2. \A c \in Commands : pc'[c] \in {"new", "opened"} \cup Over
    BY <1>3 DEF GoesOn, CourseInv, IInv, Types, Runs
  <2>3. CASE saved' = saved
    BY <2>1, <2>2, <2>3 DEF CourseInv, SavedOnce
  <2>4. CASE /\ saved' = Append(saved, r)
             /\ pc[r] \in {"handler", "streaming", "opened"}
    <3>1. r \notin Range(saved)
      BY <2>4 DEF IInv, Tracked
    <3>2. /\ Len(saved) \in Nat
          /\ DOMAIN saved = 1..Len(saved)
          /\ DOMAIN saved' = 1..(Len(saved) + 1)
          /\ saved'[Len(saved) + 1] = r
          /\ \A k \in 1..Len(saved) : saved'[k] = saved[k]
      BY <2>4, Appending DEF IInv, Types
    <3>3. \A k \in 1..Len(saved) : saved[k] # r
      BY <3>1, <3>2 DEF Range
    <3>4. \A i, j \in 1..Len(saved) : saved[i] = saved[j] => i = j
      BY <3>2 DEF CourseInv, SavedOnce
    <3>5. SavedOnce'
      BY <3>2, <3>3, <3>4 DEF SavedOnce
    <3> QED
      BY <2>1, <2>2, <3>5 DEF CourseInv
  <2> QED
    BY <1>3, <2>3, <2>4 DEF GoesOn
<1> QED
  BY <1>1, <1>2, <1>3, Course

LEMMA CourseAlways == Spec => [](IInv /\ CourseInv)
<1>1. Init => CourseInv
  BY DEF Init, CourseInv, SavedOnce, Runs
<1> QED
  BY <1>1, Initially, Step, CourseStep, PTL DEF Spec

(* However requests, streams and commands interleave and fail, each run is  *)
(* saved at most once: a row is only ever replaced by that of another run.  *)
THEOREM SavedOnceCorrect == Spec => []SavedOnce
<1>1. CourseInv => SavedOnce
  BY DEF CourseInv
<1> QED
  BY <1>1, CourseAlways, PTL

-----------------------------------------------------------------------------
(* How many steps of its own a run has at most before it. *)
Left(r) ==
    CASE pc[r] = "new"       -> Events + 5
      [] pc[r] = "handler"   -> Events + 4
      [] pc[r] = "executing" -> Events + 3
      [] pc[r] = "streaming" -> Events - sent[r] + 2
      [] pc[r] \in {"saved", "opened"} -> 1
      [] OTHER               -> 0

(***************************************************************************)
(* No request, stream or command goes round in circles: a step of the      *)
(* server takes no run back, and one that changes where runs are or what a *)
(* stream has sent takes one on, until it is over (the handlers).          *)
(***************************************************************************)
EveryStepIsProgress ==
    [][/\ \A r \in Runs : /\ Left(r) \in Nat /\ Left(r)' \in Nat
                          /\ Left(r)' <= Left(r)
       /\ <<pc, sent>>' # <<pc, sent>> => \E r \in Runs : Left(r)' < Left(r)]_vars

LEMMA LeftIsNat ==
    ASSUME IInv, CourseInv, NEW r \in Runs
    PROVE  /\ Left(r) \in Nat
           /\ pc[r] = "streaming" => Left(r) \in 2..(Events + 2)
<1>1. pc[r] = "streaming" => r \in Requests
  BY DEF CourseInv, Over, Runs
<1>2. pc[r] = "streaming" => sent[r] \in 0..Events
  BY <1>1 DEF CourseInv
<1> QED
  BY <1>2 DEF Left

(* The part of EveryRequestEnds that needs no fairness: a request takes at  *)
(* most Events + 5 steps of its own.                                        *)
THEOREM RequestsAreFinite == Spec => EveryStepIsProgress
<1> DEFINE A == /\ \A r \in Runs : /\ Left(r) \in Nat /\ Left(r)' \in Nat
                                   /\ Left(r)' <= Left(r)
                /\ <<pc, sent>>' # <<pc, sent>>
                   => \E r \in Runs : Left(r)' < Left(r)
<1>1. IInv /\ CourseInv /\ [Next]_vars => [A]_vars
  <2> SUFFICES ASSUME IInv, CourseInv, [Next]_vars PROVE A
    OBVIOUS
  <2>1. IInv' /\ CourseInv'
    BY Step, CourseStep
  <2>2. \A r \in Runs : Left(r) \in Nat
    BY LeftIsNat
  <2>3. ASSUME NEW r \in Runs PROVE Left(r)' \in Nat
    <3>1. pc'[r] = "streaming" => r \in Requests
      BY <2>1 DEF CourseInv, Over, Runs
    <3>2. pc'[r] = "streaming" => sent'[r] \in 0..Events
      BY <2>1, <3>1 DEF CourseInv
    <3> QED
      BY <3>2 DEF Left
  <2>4. ASSUME NEW r \in Runs, pc'[r] = pc[r], sent' = sent
        PROVE  Left(r)' = Left(r)
    BY <2>4 DEF Left
  <2>5. CASE UNCHANGED <<pc, sent, saved>>
    BY <2>2, <2>3, <2>4, <2>5
  <2>6. ASSUME NEW r \in Requests, SendEvent(r) PROVE A
    <3>1. /\ pc[r] = "streaming" /\ pc' = pc
          /\ sent' = [sent EXCEPT ![r] = @ + 1]
          /\ sent[r] \in 0..Events
      BY <2>6 DEF SendEvent, In, CourseInv
    <3>2. r \in Runs /\ Left(r)' < Left(r)
      BY <3>1 DEF Left, CourseInv, Runs
    <3>3. ASSUME NEW q \in Runs, q # r PROVE Left(q)' = Left(q)
      BY <3>1, <3>3 DEF Left, CourseInv
    <3> QED
      BY <2>2, <2>3, <3>2, <3>3
  <2>7. ASSUME NEW r \in Runs, GoesOn(r) PROVE A
    <3>1. PICK to \in After(pc[r]) :
              pc' = [pc EXCEPT ![r] = to] /\ sent' = sent
      BY <2>7 DEF GoesOn
    <3>2. pc'[r] = to /\ \A q \in Runs : q # r => pc'[q] = pc[q]
      BY <3>1 DEF IInv, Types
    <3>3. Left(r)' < Left(r)
      <4>1. /\ pc[r] \in {"new", "handler", "executing", "streaming", "saved",
                          "opened"}
            /\ to = "streaming" => pc[r] = "executing"
        BY <3>1 DEF After, Over
      <4>2. CASE to = "streaming"
        <5>1. r \in Requests /\ sent'[r] \in 0..Events
          BY <2>1, <3>2, <4>2 DEF CourseInv, Over, Runs
        <5> QED
          BY <3>2, <4>1, <4>2, <5>1 DEF Left
      <4>3. CASE to # "streaming"
        <5>1. Left(r) \in Nat /\ (pc[r] = "streaming" => Left(r) \in 2..(Events + 2))
          BY LeftIsNat
        <5>2. Left(r)' = IF to = "handler" THEN Events + 4
                         ELSE IF to = "executing" THEN Events + 3
                         ELSE IF to \in {"saved", "opened"} THEN 1 ELSE 0
          BY <3>1, <3>2, <4>3 DEF Left, After, Over
        <5>3. CASE pc[r] = "streaming"
          BY <3>1, <5>1, <5>2, <5>3 DEF After, Over
        <5>4. CASE pc[r] # "streaming"
          BY <3>1, <4>1, <5>2, <5>4 DEF After, Over, Left
        <5> QED
          BY <5>3, <5>4
      <4> QED
        BY <4>2, <4>3
    <3>4. \A q \in Runs : q # r => Left(q)' = Left(q)
      BY <2>4, <3>1, <3>2
    <3> QED
      BY <2>2, <2>3, <3>3, <3>4
  <2> QED
    BY <2>5, <2>6, <2>7, Course
<1>2. Spec => [][A]_vars
  BY <1>1, CourseAlways, PTL DEF Spec
<1> QED
  BY <1>2 DEF EveryStepIsProgress
=============================================================================
