------------------------------- MODULE Server -------------------------------
(***************************************************************************)
(* The HTTP server: the middlewares of module Access, the handlers of      *)
(* src/src/chen/server/routes.py and the run store, on one event loop.     *)
(*                                                                         *)
(* infer never awaits, so it is one action, and the pipeline it runs holds *)
(* up everything else.  infer_stream runs its pipeline in an executor and  *)
(* awaits after every event, so other requests interleave with it and the  *)
(* client may disconnect, which cancels the generator where it awaits.     *)
(*                                                                         *)
(* `chen run` (src/src/chen/cli/commands/run.py) is another process on the *)
(* same SQLite file: it runs its pipeline, then opens the store and saves. *)
(*                                                                         *)
(* The run id is a hash of phase, backend, router, max_tokens and chain,   *)
(* not of the prompt: runs with the same settings share one, whichever     *)
(* process they belong to.  The runs considered ask for the same settings. *)
(***************************************************************************)
EXTENDS Access

CONSTANTS
    Requests,   \* the requests considered; a prompt is its request
    Commands,   \* the invocations of `chen run` considered
    Asks,       \* the routes each request may be for
    Phases,     \* the phases that may be asked for
    Routed,     \* the chain the router selects for a run's prompt, in phase 3
    Events      \* the number of experts, each with one event in a stream

ASSUME ServerAssumption ==
    /\ Events \in Nat
    /\ Requests \cap Commands = {}
    /\ Asks \in [Requests -> SUBSET Paths]
    /\ Phases \subseteq 1..3

VARIABLES
    phase,      \* the phase the runs ask for
    server,     \* "starting", "up" or, when it failed to start, "down"
    pc,         \* where each request or command is, or how it ended
    path,       \* the route of each request
    save_run,   \* its save_run field
    sent,       \* the events its stream has sent
    table,      \* the table in the SQLite file
    rows,       \* its rows
    counted,    \* the requests record_request has counted
    runs,       \* the pipeline runs record_pipeline_run has counted
    saved       \* history: the runs saved, in order

request == <<phase, path, save_run>>
metrics == <<counted, runs>>
store == <<table, rows, saved>>
vars == <<accessVars, server, pc, request, sent, store, metrics>>

Runs == Requests \cup Commands

(* The chain of a request, and that of `chen run`, whose cascades have one  *)
(* expert more.  In phase 3 a router selects it.                            *)
make_pipeline(r, ph) ==
    IF ph = 3 THEN Routed[r] ELSE <<"analyst", "synthesizer">>

build_pipeline(c, ph) ==
    IF ph = 3 THEN Routed[c] ELSE <<"analyst", "reasoner", "synthesizer">>

(* selected_experts of the result *)
Sequence(r, ph) ==
    IF r \in Requests THEN make_pipeline(r, ph) ELSE build_pipeline(r, ph)

(* Mutant: the chain is not part of what is hashed. *)
RunIdIn_NoSequence(r, ph) == [phase |-> ph, sequence |-> <<>>]

(* hash_config, which tells different configurations apart. *)
RunIdIn(r, ph) == [phase |-> ph, sequence |-> Sequence(r, ph)]

RunIds == {RunIdIn(r, ph) : r \in Runs, ph \in Phases}

RunId(r) == RunIdIn(r, phase)

Store == INSTANCE RunStore

Init ==
    /\ AccessInit
    /\ phase \in Phases
    /\ server = "starting"
    /\ pc = [r \in Runs |-> "new"]
    /\ path = [r \in Requests |-> "health"]
    /\ save_run = [r \in Requests |-> FALSE]
    /\ sent = [r \in Requests |-> 0]
    /\ Store!EmptyTable
    /\ counted = {}
    /\ runs = {}
    /\ saved = <<>>

At(r, where) == pc' = [pc EXCEPT ![r] = where]

-----------------------------------------------------------------------------
(* create_app opens the run store; the server starts or it does not. *)
create_app ==
    /\ server = "starting"
    /\ \/ Store!opened /\ server' = "up"
       \/ Store!open_raises /\ server' = "down"
    /\ UNCHANGED <<accessVars, pc, request, sent, saved, metrics>>

(* A request arrives, with some key or none, ... *)
New(r) ==
    /\ server = "up"
    /\ pc[r] = "new"
    /\ UNCHANGED <<server, sent, store, runs>>

(* ... and is turned away by one of the middlewares; the metrics middleware *)
(* around them counts it, ...                                               *)
TurnedAway(r, p, k) ==
    /\ New(r)
    /\ \/ /\ AuthStatus(p, k) # 0
          /\ Refused
          /\ At(r, "unauthorized")
       \/ /\ AuthStatus(p, k) = 0
          /\ Limited(Caller(p, k))
          /\ At(r, "limited")
    /\ counted' = counted \cup {r}
    /\ UNCHANGED request

(* ... it is let through with a body that is not an InferRequest, ... *)
unprocessable(r, p, k) ==
    /\ New(r) /\ ~IsGet(p)
    /\ AuthStatus(p, k) = 0
    /\ LetThrough(Caller(p, k))
    /\ At(r, "rejected")
    /\ counted' = counted \cup {r}
    /\ UNCHANGED request

(* ... or it reaches its handler. *)
Arrive(r, p, k) ==
    /\ New(r)
    /\ path' = [path EXCEPT ![r] = p]
    /\ AuthStatus(p, k) = 0
    /\ LetThrough(Caller(p, k))
    /\ At(r, "handler")
    /\ \E b \in IF IsGet(p) THEN {FALSE} ELSE BOOLEAN :
           save_run' = [save_run EXCEPT ![r] = b]
    /\ UNCHANGED <<phase, counted>>

(* A handler of a request takes a step. *)
In(r, where, p) ==
    /\ pc[r] = where /\ path[r] = p
    /\ UNCHANGED <<accessVars, server, request>>

(* health and metrics answer from memory. *)
health(r) ==
    /\ In(r, "handler", "health")
    /\ At(r, "answered")
    /\ counted' = counted \cup {r}
    /\ UNCHANGED <<sent, store, runs>>

(* list_runs, and get_run for some id: the record or a 404. *)
ReadRuns(r) ==
    /\ In(r, "handler", "run")
    /\ \/ At(r, "answered")
       \/ \E id \in RunIds \ Store!list : At(r, "rejected")
    /\ counted' = counted \cup {r}
    /\ UNCHANGED <<sent, store, runs>>

(* The run is saved if the request asked for it. *)
SaveRun(r) ==
    IF save_run[r]
    THEN Store!save(RunId(r), r) /\ saved' = Append(saved, r)
    ELSE UNCHANGED store

(* Mutant: the run is saved and answered, and the metrics are left out. *)
infer_NoMetrics(r) ==
    /\ In(r, "handler", "infer")
    /\ SaveRun(r)
    /\ counted' = counted \cup {r}
    /\ At(r, "answered")
    /\ UNCHANGED <<sent, runs>>

(* infer: the pipeline, the metrics, the run store, the response. *)
infer(r) ==
    /\ In(r, "handler", "infer")
    /\ SaveRun(r)
    /\ runs' = runs \cup {r}
    /\ counted' = counted \cup {r}
    /\ At(r, "answered")
    /\ UNCHANGED sent

(* infer raises: a 500 from outside the metrics middleware, which records   *)
(* nothing.  It is raised by an unknown backend, by an expert, ...          *)
InferRaises(r) ==
    /\ In(r, "handler", "infer")
    /\ At(r, "error")
    /\ UNCHANGED <<sent, store, metrics>>

(* ... or by the store, whose file is locked, after the metrics were        *)
(* recorded.                                                                *)
InferSaveRaises(r) ==
    /\ In(r, "handler", "infer") /\ save_run[r]
    /\ runs' = runs \cup {r}
    /\ At(r, "error")
    /\ UNCHANGED <<sent, store, counted>>

-----------------------------------------------------------------------------
(* infer_stream answers 200 and starts its generator, which hands the       *)
(* pipeline to an executor.                                                 *)
StreamStarts(r) ==
    /\ In(r, "handler", "stream")
    /\ At(r, "executing")
    /\ counted' = counted \cup {r}
    /\ UNCHANGED <<sent, store, runs>>

PipelineReturns(r) ==
    /\ In(r, "executing", "stream")
    /\ At(r, "streaming")
    /\ UNCHANGED <<sent, store, metrics>>

(* Mutant: the executor's exception is not awaited. *)
StreamRaises_Unseen(r) ==
    /\ In(r, "executing", "stream")
    /\ At(r, "waiting")
    /\ UNCHANGED <<sent, store, metrics>>

(* The stream breaks off when building or running the pipeline raises, or   *)
(* saving the run.                                                          *)
StreamRaises(r) ==
    /\ \/ In(r, "executing", "stream")
       \/ In(r, "streaming", "stream") /\ sent[r] = Events /\ save_run[r]
    /\ At(r, "error")
    /\ UNCHANGED <<sent, store, metrics>>

SendEvent(r) ==
    /\ In(r, "streaming", "stream") /\ sent[r] < Events
    /\ sent' = [sent EXCEPT ![r] = @ + 1]
    /\ UNCHANGED <<pc, store, metrics>>

(* Mutant: the stream goes on to its `done` event without saving. *)
SaveStream_Forgets(r) ==
    /\ In(r, "streaming", "stream") /\ sent[r] = Events
    /\ At(r, "saved")
    /\ UNCHANGED <<sent, store, metrics>>

(* After the last event the run is saved ... *)
SaveStream(r) ==
    /\ In(r, "streaming", "stream") /\ sent[r] = Events
    /\ SaveRun(r)
    /\ At(r, "saved")
    /\ UNCHANGED <<sent, metrics>>

(* ... and the `done` event is sent. *)
SendDone(r) ==
    /\ In(r, "saved", "stream")
    /\ At(r, "answered")
    /\ UNCHANGED <<sent, store, metrics>>

(* The client goes away; the generator is cancelled where it awaits. *)
Disconnect(r) ==
    /\ \E where \in {"executing", "streaming", "saved"} : In(r, where, "stream")
    /\ At(r, "cancelled")
    /\ UNCHANGED <<sent, store, metrics>>

Handler(r) ==
    \/ health(r) \/ ReadRuns(r)
    \/ infer(r) \/ InferRaises(r) \/ InferSaveRaises(r)
    \/ StreamStarts(r) \/ PipelineReturns(r) \/ StreamRaises(r)
    \/ SendEvent(r) \/ SaveStream(r) \/ SendDone(r)

Tick ==
    /\ TimePasses
    /\ UNCHANGED <<server, pc, request, sent, store, metrics>>

-----------------------------------------------------------------------------
(* `chen run --save-run`: the pipeline, or whatever builds it, raises; or   *)
(* it runs, and the store is opened, which may raise on an old file.        *)
run_command(c) ==
    /\ pc[c] = "new"
    /\ \/ Store!opened /\ At(c, "opened")
       \/ Store!open_raises /\ At(c, "error")
       \/ At(c, "error") /\ UNCHANGED <<table, rows>>
    /\ UNCHANGED <<accessVars, server, request, sent, saved, metrics>>

(* The run is saved and its id printed; or the file is locked. *)
SaveCommand(c) ==
    /\ pc[c] = "opened"
    /\ \/ /\ Store!save(RunId(c), c)
          /\ saved' = Append(saved, c)
          /\ At(c, "answered")
       \/ At(c, "error") /\ UNCHANGED store
    /\ UNCHANGED <<accessVars, server, request, sent, metrics>>

Next ==
    \/ create_app
    \/ \E r \in Requests :
           \/ \E p \in Asks[r], k \in ApiKeys \cup {BadKey} :
                  \/ TurnedAway(r, p, k) \/ unprocessable(r, p, k)
                  \/ Arrive(r, p, k)
           \/ Handler(r)
           \/ Disconnect(r)
    \/ \E c \in Commands : run_command(c) \/ SaveCommand(c)
    \/ Tick

(* The event loop does not idle while a handler can go on or an executor    *)
(* has its pipeline's result, and a command in progress is not abandoned.   *)
Fairness ==
    /\ WF_vars(\E r \in Requests : Handler(r))
    /\ WF_vars(\E c \in Commands : SaveCommand(c))

Spec == Init /\ [][Next]_vars /\ Fairness

-----------------------------------------------------------------------------
(***************************************************************************)
(* A request is refused with 429 only when its caller's budget is really   *)
(* spent: neither refused requests nor those older than the window count   *)
(* (RateLimitMiddleware).                                                  *)
(***************************************************************************)
RefusedOnlyWhenSpent ==
    [][\A r \in Requests :
           pc[r] = "new" /\ pc'[r] = "limited"
           => \A p \in Paths, k \in ApiKeys \cup {BadKey} :
                  TurnedAway(r, p, k)
                  => Recent(Caller(p, k)) = Limit(Caller(p, k))]_vars

(* The j-th save is the last one under its run id. *)
IsLast(j) == \A k \in DOMAIN saved : k > j => RunId(saved[k]) # RunId(saved[j])

(* The runs whose client was told a run id to look for. *)
Promised ==
    {r \in Runs : pc[r] = "answered" /\ (r \in Commands \/ save_run[r])}

(***************************************************************************)
(* Who was told the id of a saved run, by a response, by the `done` event  *)
(* of a stream or by `chen run`, finds a run of the same chain under it:   *)
(* its own, or the last one saved since by any process, prompt and output  *)
(* of one run, however streams interleave and break off, saves fail and    *)
(* commands write to the same file (infer, infer_stream, run_command,      *)
(* RunStore.save).                                                         *)
(***************************************************************************)
AnsweredIsRetrievable ==
    \A r \in Promised :
        /\ r \in Range(saved)
        /\ \E j \in DOMAIN saved :
               /\ IsLast(j)
               /\ Store!get(RunId(r)) = Store!Record(saved[j])
               /\ Sequence(saved[j], phase) = Sequence(r, phase)

(***************************************************************************)
(* Metrics and run store agree as far as they can: every run the server    *)
(* saved was counted, unless it was streamed, which is never counted; and  *)
(* a run is counted without its request only if saving it failed (infer,   *)
(* infer_stream, _metrics_middleware).                                     *)
(***************************************************************************)
CountersAgree ==
    /\ \A r \in Range(saved) \cap Requests : r \in runs \/ path[r] = "stream"
    /\ \A r \in runs \ counted :
           pc[r] = "error" /\ save_run[r] /\ r \notin Range(saved)

Over ==
    {"unauthorized", "limited", "rejected", "answered", "error", "cancelled"}

(***************************************************************************)
(* Every request and every command that started comes to an end: it is     *)
(* refused, answered, answered with an error, or cancelled by its client.  *)
(* Time and again, until the last one has come, nothing is pending.        *)
(***************************************************************************)
EveryRequestEnds == []<>(\A r \in Runs : pc[r] \in Over \cup {"new"})
=============================================================================
