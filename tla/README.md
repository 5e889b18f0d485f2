# CHEN in TLA+

This directory specifies the core of CHEN (Cascaded Hybrid Expert Network, under
`src/`) in TLA+: its pipelines and backends, the state it keeps, and the server in
front of it. TLC checks the specifications on small instances; TLAPS proves the safety
properties that hold, all of them, for every size of the system (section 4).

Run a check with `tlc -config MCRouter.cfg MCRouter`, a proof with
`tlapm CircuitBreakerProofs.tla`. `PROJECT.json` lists every run, the source lines each
definition stands for, the hazards the properties are aimed at, and, for every
property, a mutation of the code's behaviour that violates it. The mutated forms are
the definitions marked "Mutant" in the modules; no specification uses them.

## 1. Inventory

Paths are relative to `src/src/chen/`.

| Component | State | Operations | What is hard | Modules |
|---|---|---|---|---|
| Circuit breaker, `observability/circuit_breaker.py` | state, two counters, time of the last failure, under one lock | `__enter__`, `__exit__`, `reset`, readers | results of concurrent calls arrive late and in any order; recovery | `CircuitBreaker` |
| Expert, `core/expert.py` | none of its own | `invoke` | each of its four backend calls may fail | `Expert`, `Relay` |
| Pipelines, `core/pipeline.py`, `phases/` | current text, cache, mode, metrics, shared memory | `run` of phases 1, 2, 3 | fallbacks at every expert, switching between cache and text | `Pipeline`, `Handoff`, `CascadePipeline`, `KVPassPipeline`, `RoutingPipeline`, `Phases` |
| Routers, `core/router.py` | none during a call | `route` of three routers | two caps and a forced last role, a router that asks two others | `Router` |
| Tenant memory, `persistence/tenant_memory.py` (on `core/memory.py`) | entries and their times per tenant | `write`, `retrieve`, `count`, `clear` | TTL, quota and `clear` keep two tables | `TenantMemory` |
| Backends, `backends/`, `core/kv_cache.py` | loaded model | `_ensure_loaded`, `encode`, `transfer_cache`, `decode`, `generate` | shapes differ, loads fail half-way, tensors go into the wrong model | `Backends`, `Relay` |
| Encryption, `security/crypto.py`, `config.py`, `backends.py` | configs by key id, cached session keys | encrypt, decrypt, `add_key`, the wrapper's calls | failed decryption is silent, the cache outlives the config it was filled from | `Crypto`, `EncryptedBackend`, `Relay` |
| Encrypted stream, `security/stream.py` | none | cut, serialize, put together | reordered, lost, repeated, truncated blocks; keys that change between streams | `CrypticStream` |
| Keystore, `security/keys.py` | a directory of key files and `active.json` | `generate_key`, `activate`, `rotate`, `revoke`, `get_active_config` | processes without a lock, crashes between and inside writes | `KeyStore` |
| Audit log, `observability/audit.py` | a JSON Lines file | `record`, `verify` | racing writers, torn lines, edits | `AuditLog` |
| Access, `server/auth.py` | a window of times per caller | authentication, permission, rate limit | lazy pruning, boundaries | `Access` |
| Server, `server/app.py`, `server/routes.py`; `cli/commands/run.py` | requests in progress, metrics | `create_app`, `infer`, `infer_stream`, reads; `chen run` | streams interleave and break off, pipelines and saves fail, another process saves under the same ids | `Server` |
| Run stores, `persistence/run_store.py`, `pg_store.py` | one table, one row per run id | open and migrate, `save`, `get`, `list`, `count`, `close` | shared run ids, old tables, a pool made by the first caller and closed by another | `RunStore`, `PostgresRunStore` |

How they interact: the **server** authenticates and rate-limits a request, builds a
**pipeline** of experts, runs it (on the event loop, or in an executor for a stream),
counts it and saves it in the **run store**; `chen run` does the same, uncounted, in a
process of its own on the same file. A pipeline asks a **router** (phase 3)
for a chain, reads and writes the **shared memory**, and calls each **expert**, which
calls its **backend**, wrapped by the **encrypted backend** or not, and hands a text
or a KV-cache to the next. Breaker, tenant memory, audit log and keystore are
libraries that callers use on their own; nothing in the server calls the first three
yet, and `chen keys` calls the last.

**Not modelled**: logging and tracing, the Prometheus exposition, the CLI other than
`chen run`, the configuration classes and the backend registry (sequential look-ups,
formatting and output); the features and embeddings behind a router's scores, KPIs and
costs (floating-point arithmetic); the carbon scheduler and the registry of breakers,
which nothing in the package calls, so that there is nothing for them to interact with;
seeding of random numbers; tensors as numbers, SQL, HTTP, HKDF and AES-GCM (external).
`PROJECT.json` gives the reason for each part.

## 2. Modules

Sizes, sets of callers, limits and bounds are `CONSTANTS`; every assumption on them
is a named `ASSUME`. Names follow the source.

**CircuitBreaker.** Every method that holds `_lock` is one action. `running` is the set
of calls between `__enter__` and `__exit__`, where the lock is not held. The clock is the
difference the code computes, `elapsed`, saturated at the cooldown. `evidence` and
`quiet` are history variables.

**Chain** is the abstract specification of a run: a chain is fixed, its experts contribute
once each, in order, and the run ends. **Expert** gives the set of results of
`Expert.invoke`, with a text abstracted to the sequence of its authors. **Pipeline** holds
the state of a `run()` and the common steps, **Handoff** the loop body that phases 2 and 3
share, and **CascadePipeline**, **KVPassPipeline** and **RoutingPipeline** the three loops,
one action per outcome of an iteration. **Phases** puts them together and states their
properties, among them that they implement `Chain`.

**Router.** A pool of experts with arbitrary roles and sizes, a prompt with an arbitrary
score per role and similarity per expert, and the selection of `LogisticRouter` (a role's
score less a penalty for size, the best of each role), `CosineRouter` (all experts) and
`HybridRouter` (the union of both, asked with their default caps) as operators on them. Its
specification is `RouteSpec`, so that the proofs can use the module next to `Phases`.

**TenantMemory.** `entries` and `times` are the two tables; `timed` tells which tenants
have a time table at all. `age` is the true age of an entry (history).

**Backends** has one operator per method and kind of backend, on texts that are the words
said, the ciphertext they begin with, if any, and whether they decode to it; **Crypto** is
ideal cryptography; **EncryptedBackend** wraps the operators of `Backends`. **Relay** is
`Expert.invoke` on them, one action per backend call, along a chain of experts, and
`InvokeConforms` ties it to module `Expert`: the abstraction on which `Phases` rests is
checked, not assumed.

**CrypticStream.** Data is cut by `stream_iter`, travels as block objects or as bytes
that may be cut off anywhere, and is put together by `deserialize_stream` and
`decrypt_stream`. A byte is its position, so order and loss are visible. The receiver's
`Decryptor` stays for the next stream: `keys` and `session_keys` are its two dictionaries,
`given` and `opened` its history.

**KeyStore.** One action per file access; `Path.write_text` is two (the open empties the
file). Processes crash between any two.

**AuditLog.** `record` is a read and an append. A crash leaves a torn line. `Tamper` is
an edit by hand: a line is changed, removed or moved, or gets a hash computed anew, to fit
what is changed in it or in its predecessor. SHA-256 is injective and has no key. `forged`
is the history of such hashes.

**Access** has the middlewares of `auth.py`, with the window that `popleft` prunes and all
requests ever admitted as its history, **RunStore** the SQLite table, from opening a
missing, old or current file on, and **Server** the handlers: `infer` is one action, as it
never awaits (with its failures, before and after the metrics, as actions of their own),
and `infer_stream` one action per await. `run_command` and `SaveCommand` are `chen run`. A
run id is the record of what is hashed, phase and chain; the other settings are the same
for all runs considered. **PostgresRunStore** has the coroutines of `pg_store.py` on the
table of `RunStore`, one action per await; pools are numbered, as a call may hold on to one
that `close` is closing.

## 3. What TLC checks

| Run | Instance | States | Properties |
|---|---|---|---|
| `breaker` | 4 callers, threshold 3, cooldown 2, 2 successes to close | 1,486 | counters agree with the state; the cooldown is waited for; no credit from before; open is temporary; recovery |
| `phases` | 3 experts, chains of 1 to 3, every configuration and every failure | 674,288 | unbroken context; lossless KV chain; reported fallbacks; one lost invocation at most; memory reaches the first expert; text mode is final; implements `Chain` |
| `router` | pools of 3, 3 roles, 2 sizes, scores 0 to 2, every cap, inner cap 2 | 378,126 | a proper chain within the cap; a synthesizer is last; the best expert is in |
| `tenant_memory` | 2 tenants, 3 ids, quota 2, TTL 1 | 25,209 | quota; the tables agree; refusals count live entries only |
| `keystore` | 3 keys, 2 processes, 1 crash | 6,707,384 | cost of a crash; exclusive activation; usable configuration; revocation sticks; some key stays active |
| `audit` | 2 writers, 5 records, 1 crash, 2 edits | 1,156,052 | a log that verifies vouches for the past of a hash; sequential logs verify; no entry is lost; breaks are permanent |
| `server` | 3 requests and 1 `chen run`, phases 1 and 3, 2 keys and callers without one, limits 1 and 2, 3 kinds of files | 732,864 | exact rate limit; answered runs are retrievable; counters agree; refused only when spent; every request ends |
| `relay` | 8 backends of 4 kinds and 3 sessions, two of them with models of one file name, chains of 1 to 3 | 148,994 | conforms to `Expert`; no late rejection; injected tensors come from a model of that name; nothing is lost |
| `stream` | 2 streams of up to 5 bytes, blocks of 1, 2, 3, 6, up to 3 arrivals, every cut, 3 configs with 2 key ids | 1,050,647 | the three ways of cutting agree; what arrives is faithful |

The comments on the properties state them in full and say which code they are about.

**Why these bounds.** The breaker needs two late results besides the call that opens or
closes it. In a chain of three there is an expert that is neither first nor last, and
two hand-offs, so a fallback can be followed by a step that should not undo it. A
pool of three has two synthesizers and another role, or one role twice. Three keys
are the pointed one, one being activated and a bystander. Five records give two racing
writers a common past and a future. With `relay`'s chain of three a ciphertext is made,
passed through and opened again, and a cache of one llama.cpp model passes through another
backend to a model of the same name or of another. Two edits change a line and link the
next one to it anew. A stream of five bytes has none, one or several
blocks with the last full or not, for every block size relative to the length; the
header of a block is given two bytes, as a cut is the same anywhere inside it. Two streams
and three configs are a rotation, a replaced config, and either followed by a stream of the
first key. In `server`, the runs have one id in phase 3, and the command another one than
the requests in phase 1; two requests may stream at once while the third reads. The inner
cap of the hybrid router is below the size of the pool, so that both lists it joins are cut.
Ages and clocks are saturated one step above the last value the code tells apart.

**Deadlock** is checked for `breaker`, `phases` and `tenant_memory`. `router`, `relay` and
`stream` describe one call, which ends; `keystore`, `audit` and `server` have a bounded
number of keys, records or requests and stop when they are used up.

**Symmetry** is used for tenants, ids, processes, writers and sessions, which are only compared
for equality, and only in runs without liveness properties.

**Fairness.** *Breaker*: time passes, a call in flight returns or raises, and callers come
back: a breaker nobody calls stays open, as its transition happens in `__enter__`. Nobody
needs to reset it. *Phases*: `run()` is one thread that takes its next step; that a backend
call returns or raises is part of a step. *Server*: the event loop does not idle while some
handler can go on or the executor has the outcome of a pipeline, and a command that has
opened the store goes on (requests being finite in number, weak fairness of all handlers
together is enough). Clients need not do anything, and may disconnect at any await. The
other specifications have no fairness and only safety properties.

**Three runs end in a violation** of what the repository says of itself:

- `phases_budget`: `max_tokens` given to `run()` applies to the first expert only, as
  `kwargs.pop` is inside the loop; `BenchmarkRunner.run_task` documents it as
  "Per-expert token budget".
- `tenant_memory_ttl`: `clear` removes a tenant's time table and keeps its memory, so the
  next write stores its entry, raises `KeyError` and leaves an entry without a time, which
  is returned long after its TTL.
- `postgres_replace`: a second run with the same run id replaces the output and keeps the
  prompt of the first one.

## 4. What TLAPS proves

`CircuitBreakerProofs`, for any set of callers (finite or not), any positive thresholds
and any cooldown:

- `TypeCorrect`, `CountersCorrect` (`[]CountersAgreeWithState`), `CooldownCorrect`
  (`CooldownRespected`) and `CreditCorrect` (`NoLeftoverCredit`).
- The inductive invariant `IInv` adds to the types and the agreement of the counters that
  `elapsed = quiet` (the recorded failure time is that of the last failure) and that a
  half-open breaker's success counter equals the successes since it opened. Without
  the first, an open breaker could have cooled down too early; without the second,
  closing says nothing about when the successes happened. The types alone are not
  inductive: `failure_count <= threshold` needs that a closed breaker has budget left.

`PersistenceProofs`, in two parts. *Tenant memory*, for any tenants, any finite set of ids,
any quota and any TTL, zero (that is, off) included:

- `TypeCorrect`, `QuotaCorrect` (`[]QuotaHolds`), `TimesCorrect` (`[]TimesFollowEntries`)
  and `RefusalCorrect` (`[]RefusedByLiveEntriesOnly`).
- The quota rests on `KeptIsSmaller`: a collection never grows a memory. The agreement of
  the tables needs `TablesComplete` besides: which tenants have a time table, and that
  a tenant without one has been cleared.
- `RetrievedCorrect`: from a memory that was never cleared, `retrieve` returns live entries
  only. So `clear` is the whole reason for the violation of `RetrievedAreLive`.

*Postgres run store*, for any number of calls and pools, on an instance of its module:

- `PoolsCorrect`: a pool that is neither `_pool` nor closed is there only if two calls of
  `close` have closed the same earlier pool, the later one forgetting a pool that was made
  in between. `PublishedOnce`: calls that come first together share one pool.
- `ClosersBehind` carries the argument: a `close` whose pool is no longer `_pool` has been
  overtaken by another one of the same pool.

`ServerProofs`, for any requests and commands, any phases, routed chains, keys and limits:

- `RetrievableCorrect` (`[]AnsweredIsRetrievable`) and `CountersCorrect` (`[]CountersAgree`).
- The inductive invariant `IInv` adds to the types that every id under which something was
  saved holds the record of the last run saved under it (`Filed`; stated for each save, so
  that the last one need not be found by induction over the history), and what the
  whereabouts of a run say about its save (`Tracked`): without it, the answer of a request
  says nothing about its record, and a failed save nothing about the counters. The steps
  are of three kinds, `MovesOn`, `Saves` and `Elsewhere`, with a lemma for each.
- `RateCorrect` (`[]RateBound`) and `RefusalCorrect` (`[]RefusedOnlyWhenSpent`). The window
  a caller is judged by is what `popleft` has left over at some earlier time, while the
  properties are about all requests ever admitted. `RateInv` ties them together: the
  window is a tail of the admitted requests, and these are in order of their age, so that
  whatever a prefix has lost is too old to count. Without the order, `popleft` could stop at
  a young entry in front of an old one.
- `SavedOnceCorrect`: no run is saved twice. `RequestsAreFinite`: no step takes a request, a
  stream or a command back, and each takes at most `Events + 5` steps of its own. Both go
  by the kinds of steps that `Course` tells apart.

`PhasesProofs`, in two parts. *Routers*, for any pool, roles, scores, sizes and caps:

- `AnswerCorrect` (`[]AnswerIsAChain`), `SynthesizerCorrect` (`[]SelectedSynthesizerIsLast`),
  `BestCorrect` (`[]BestExpertIsSelected`) and `HybridCorrect` (`[]HybridEndsWithSynthesizer`).
- The argument is about operators on lists, one lemma for each: `Sortable` (a finite set has
  a sequence in every strict total order: an element's place is the number of those before
  it, and an injection into a set of the same size is onto), `AmongIs` (what a filter
  keeps), `Taken`, `Appended`, `Moved`. `Finished` joins them: either the selection had a
  synthesizer, then nothing is appended and the second cap cuts nothing off; or the one that
  was appended is the only one, and the cap may cut it off but leave none in the middle.
- `AnswersAreRoutes` closes the gap between two modules: what `RoutingPipeline` lets a
  router answer includes everything that a router of `Router` does answer.

*Pipelines*, for any experts, chains of any length and any pattern of failures:

- `TypeCorrect`, `ContextCorrect` (`[]ContextIsUnbroken`), `LosslessCorrect`
  (`[]KVChainIsLossless`), `ReportCorrect` (`[]UnreportedFallbacks`), `InvocationsCorrect`
  (`[]AtMostOneLostInvocation`), `MemoryCorrect` (`[]MemoryReachesFirstExpert`),
  `TextModeCorrect` (the action property `TextModeIsFinal`).
- `ChainRefined`: the initial states are initial states of `Chain`, and every step of the
  three loops is one of its steps or a stutter. This is the safety part of `ImplementsChain`.
- `RunsAreFinite`: `StepsLeft`, at most `MaxChain + 2` at first, goes down with every step.
- The properties speak of the metrics at the end, the steps of the texts and caches at
  hand. `IInv` adds what the last expert left for the next one (`HandedOver`), which stretch
  of the conversation each cache covers (`InOrder`), and how many invocations the metrics
  stand for (`Counted`).

`KeyStoreProofs`, for any number of keys, processes and crashes:

- `TypeCorrect`, `CrashCorrect` (`[]CrashLosesAtMostOneKey`), `RevocationCorrect`
  (`[]RevocationSticks`), `ActiveCorrect` (`[]SomeKeyStaysActive`), `ActivationCorrect`
  (`ActivationIsExclusive`) and `ConfigCorrect` (`ConfigIsUsable`).
- An activation is a row of file accesses, and the properties are about its end. `Shape`
  says what a process has still to save at each step, `Alone` what holds of the files at
  each step while calls do not overlap, `RevokedByName` (of overlapping calls, too) that a
  file says "revoked" only if `revoke` was called for it and no activation of it came
  later, which `ConfigCorrect` needs to tell revoked keys from others, `Lost` how many
  files cannot be read, and `Kept`, which needs no such proviso, that a stored key is
  active, revoked or garbled, or about to be saved as one: this is why overlapping
  activations never leave no active key.

`AuditLogProofs`, for any writers, any number of records, crashes and edits:

- `NothingLost` (`[]NoEntryLost`), `SequentialCorrect` (`[]SequentialLogVerifies`),
  `VouchingCorrect` (`[]HashVouchesForPast`) and `BreakCorrect` (the action property
  `BreakIsPermanent`).
- `ForgeryPasses` shows that `VouchingCorrect` cannot be stronger: whatever the last entry of
  a log that verifies is replaced with, the log verifies if its hash is computed anew.
- The invariant says where each line comes from, unless hashes were forged (`KnownLines`),
  that a torn line belongs to a call that never returns (`TornLine`), that lost entries are
  no more than cut appends (`FewMissing`), and that without races the chain is sound at
  every length (`Orderly`). What a hash vouches for is the audit trail's own argument:
  `SameChain` shows that equal hashes have equal pasts, from the last line back to the
  first.

`RelayProofs`, for any fleet of backends with any shapes, sessions and chains:

- `InvokeCorrect` (`[]InvokeConforms`), `CompatibilityCorrect` (`[]NoLateIncompatibility`),
  `InjectionCorrect` (`[]InjectedFromNamesake`) and `WordsCorrect` (`[]NothingIsLost`).
- `OwnLayersCorrect` says what the guard of llama.cpp's `decode` achieves where a file name
  belongs to one model of the chain: the injected layers are the model's own, all of them.
- `IInv` says which text and which cache an invocation has in hand (`InHand`: as some
  backend's `encode` made it, or as a transfer fitted it) and what the results so far say.
  `CompatibilityCorrect` needs that what is in hand went through the check of
  `transfer_cache`; `InvokeCorrect` is the licence for `Expert`, on which `Phases` rests.

`CrypticStreamProofs`, for data and blocks of any length, any configs and sessions, any
number of streams:

- `IteratorCorrect` (`[]IteratorAgrees`): the blocks so far are the first ones of the list,
  and there are as many as the length divided by the block size, rounded up (`RoundedUp`).
- `ReceivedCorrect` (`[]ReceivedIsFaithful`), with its first two parts by themselves in
  `RaisesCorrect` (`[]RaisesRightly`) and `PrefixCorrect` (`[]ReadsAPrefix`). The first
  needs that a cached session key is one of a config that was given under its id, though it
  may have been replaced since (`CacheFits`, `OpenedIsCached`); the second that reading
  stands at the end of a block, where `WireEnds` says.
- The third part is about the bytes that sorted blocks add up to. `Sorting` says what
  `sorted` does: the place of a block is the number of those up to it, equal indices in the
  order of arrival, and no two blocks share one. `Ascending` and `FirstBlocks` say what the
  join of blocks in order is: increasing, and for the first blocks a prefix of the data.
  `FromBlocks` (whatever arrives was sent) and `Joined` (what was joined) carry this
  through the steps.

**Recursion and induction.** The library's induction theorems take an operator, which no
installed prover can instantiate. Induction goes over the members of a set instead
(`UpwardsTo`: a set that holds 0, and with each number below m the next, holds all of them),
and follows from the least counterexample, from `WFMin`, as do `AmongIs` and `SameChain`
directly. `Recursion` gives the function that a recursive definition describes, from
which `WireEndsAdd` and `JoinsAdd` follow. For this, `Among`, `WireEnds` and `Joins` are
recursive functions in place of `SelectSeq` and folds, and sorting is a function from places
(`InOrder`) or a choice from `SetToSeqs` (`Sorted` of `Router`), as the prover can expand
neither `SelectSeq` nor `SortSeq`.

**Assumptions.** Only the `ASSUME`s of the modules, which TLC evaluates in every run. They
give the types of constants; `StreamAssumption` also states that a config is its id and its
key.

**Only model-checked:**

- Liveness: `OpenIsTemporary`, `Recovery`, `EveryRequestEnds` and the termination in
  `ImplementsChain` need fairness and `ENABLED`, which are out of the prover's reach. Of the
  last two it proves the part without them, that nothing goes on for ever
  (`RequestsAreFinite`, `RunsAreFinite`); that nothing gets stuck is left to TLC.
- The three properties that are violated: their runs show how the code differs from its
  documentation.

## 5. Where code and documentation differ

Met while modelling, besides the three violations above. The models do what the code
does; the properties are stated so that they hold for it.

- *Breaker*: a half-open breaker admits every caller (`circuit_breaker.py:105`), while its
  docstring says "One probe request is allowed"; a success of a call admitted before the
  outage counts as a probe's.
- *Routers*: the hybrid router joins two lists and computes no weighted score, whatever
  `alpha` is (docstring, `router.py:454`); `from_experts` passes its limits on to neither
  inner router and drops them itself (`:475`). The second cap of the logistic and the
  cosine router may cut off the synthesizer that was forced in (`router.py:297`, `:444`), and
  `min_activation` above 1 is not honoured (`:268`, `:422`). The hybrid router does not have
  the first problem.
- *Phase 2*: a start in text mode skips the memory (`phase2_kv_pass.py:126`); a transfer
  that fails inside the first `invoke` is not reported as a fallback and not stopped by strict
  mode, where a bare `raise` (`:164`) outside of an `except` raises `RuntimeError`; the first
  of two invocations after a failed transfer is missing from the metrics (`:166`).
- *Metrics*: `epu` is always 1, as `finalize` adds an expert up as often as it occurs in
  the chain and lost invocations are not counted either; `kv_cache_failures` stays 0, as a
  failed transfer has `used_kv_cache` false (`pipeline.py:54`), and `latent_nuance_score`
  is 0 or 1.
- *Server*: the rate limiter runs after authentication, while a comment says before
  (`app.py:79`); a `rate_limit_per_minute` of 0 means the default (`auth.py:237`); run ids
  ignore the prompt (`routes.py:274`), so "one row per run" does not hold; streamed runs are
  missing from the pipeline counters; requests that raise are missing from the request
  counters. The `router` of a request is part of its id but phase 3 always uses the logistic
  one (`routes.py:228`); phases 1 and 2 have two experts on the server and three in `chen run`.
- *Keystore*: `generate_key` stores a key it does not activate with status "active";
  `revoke` leaves `active.json`, and `activate` un-revokes a key. So `get_active_config`
  returns a revoked key as long as active.json names it, and what is encrypted with that
  key no later process can decrypt, as `get_decryptor_keys` leaves it out (`keys.py:196`),
  while the docstring of `revoke` speaks of decryption only: "Revoked keys cannot decrypt
  new data". `ConfigIsUsable` names the case. Overlapping calls may leave a garbled key
  file, two active keys, a pointer to a retired one, or lose a revocation.
- *Audit log*: the log is called "tamper-proof" (`audit.py:1`), "any tampering with an
  entry breaks the chain" (`:12`), and `verify` "Returns False if any tampering is
  detected" (`:177`). The hash has no key (`:70`): a changed last entry, or a changed tail
  of the log, verifies once its hashes are computed anew (`ForgeryPasses`), and so does a
  log that is cut off at its end. A hash that is kept elsewhere vouches for everything up
  to its entry (`HashVouchesForPast`). Two racing writers, or an append that was cut short,
  make `verify` return False from then on.
- *SQLite*: on a table without `trace_id` and `tenant_id` the schema script raises at its
  indexes before `_migrate` could add the columns (`run_store.py:120`), while the changelog
  says existing databases are migrated automatically: neither server nor `chen run` can
  open it.
- *Postgres*: the schema indexes a column its table does not have (`pg_store.py:61`), and the
  pool is kept when that fails, so later calls proceed without it; `close` forgets a pool
  without the lock, and finds none while one is being made.
- *Encrypted backend*: the default session id is random per instance, so the next expert's
  decryption fails silently and its model gets ciphertext; with one session ciphertexts nest.
  Behind an unencrypted backend between two encrypted ones, that backend's output is lost, as
  `b64decode` stops at the padding of the ciphertext it was appended to; `NothingIsLost`
  excludes this case.
- *Backends*: llama.cpp knows a model by the base name of its file (`llama_cpp.py:129`),
  and puts the tensors of another file of that name into its model where a comment says
  "Same model" (`:305`), filled up with zeros if they have fewer layers.
  `InjectedFromNamesake` says what holds nevertheless, and the instance of `relay` has two
  such files. HuggingFace and vLLM `decode` use the text of a cache and never its tensors.
  A load that fails half-way counts as loaded afterwards.
- *Stream*: `is_last` is never checked, so lost blocks and truncation go unnoticed;
  a serialized stream loses the indices and is read in the order of arrival.

## 6. Plan

Done: the components of the inventory, in the order of section 2, with the core
(breaker, pipelines, backends) first; then the server with its run stores and `chen run`,
the routers down to the scores, and decryptors that live across rotations; the proofs of
section 4.

Next: compose `Server` with `Phases`, so that a request's run is a run of the pipelines, and
`KeyStore` with `CrypticStream`, so that the keys given are those of a key directory.
