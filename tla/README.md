# A TLA+ verification of the DADI runtime

DADI is a set of Python services around one PostgreSQL database: an
orchestrator that runs document pipelines stage by stage over a
content-addressed artifact store, a gateway that turns finished runs into
signed deliverables, and planners, adapters and verifiers around them. This
directory holds TLA+ modules that model the parts whose correctness depends on
the order of transactions, messages or clock readings, the TLC configurations
that check them, and proofs of their main properties for TLAPS.

    tlc -workers 2 -config MCOrchestrator.cfg MCOrchestrator
    tlapm OrchestratorProofs.tla

`PROJECT.json` lists the components, the runs, the source lines of every
definition, the hazards and the theorems.

## 1. The system

Paths are relative to `src/`. "Properties" are what makes the component
correct; section 3 says how each is stated and checked.

| Component | State | Operations | Hard behaviour | Properties |
|---|---|---|---|---|
| **Orchestrator** `services/orchestrator/dadi_orchestrator/orchestrator.py` | per call of `run()`: the stage, outputs so far; otherwise none | `run()`: per stage build, validate and put the input, look up the cache, insert the stage_run, call the handler, validate and put the output, record edges, memoize, finalize | a dozen separate transactions per stage; several workers, also on one pipeline run; death between any two transactions; retries; handlers that fail or return nonsense | whatever is memoized has its lineage; a hit is what the input determines; rows have one owner and are final once finalized; every call ends |
| **Store adapter and tables** `.../store_adapter.py`, `sql/schema.sql` | `artifacts`, `artifact_edges`, `stage_cache`, `stage_runs` | one function per statement | read-then-insert in READ COMMITTED; keys and foreign keys as the only locks | no reference dangles, the cache keeps its first entry |
| **Audit log** `services/gateway/dadi_gateway/audit.py`, `compliance_health.py` | `audit_events`, hash-chained | `emit_event`, `/audit`, `/audit/verify-chain`, the compliance health check | concurrent emits; transaction time as the order; swallowed failures; filters and limits | serial emits verify; forks never loop; the answer of a verification means something |
| **Deliverables** `deliverables_routes.py` | `deliverables` | create, finalize, mark_sent, supersede | several transactions per handler, no preconditions on the status | record and status agree; a finalize is answered truthfully; supersession has a successor |
| **Idempotency keys** `idempotency.py` | `idempotency_keys` | lookup, store | the operation runs between two transactions | a retry returns the first answer and acts once |
| **Bundles, evidence, revocation, download** `bundles_routes.py`, `evidence_routes.py`, `revocation_routes.py`, `bundle_download_routes.py`, `closure_verify.py` | `deliverable_bundles`, `deliverable_evidence` | create, revoke, download, verify closure | checks and use in different transactions | a download after a revocation is refused; a bundle closes over its run; evidence is complete and of one deliverable |
| **Planners** `services/regen-planner/dadi_regen/planner.py`, gateway `planner.py` | `regeneration_plans` | plan, explain, mark executed | reads the tables the orchestrator is writing, run by run; positional SQL parameters | a plan stays true of finished stages and reuses nothing that is replaced |
| **LLM adapter** `services/llm-adapter/dadi_llm_adapter/adapter.py` | `llm_calls`, artifacts | live, replay, drift | a failure between provider call, puts and ledger | the ledger pairs a request with its response, and both can be read back |
| **Artifact store service** `services/artifact-store/dadi_store`, gateway `store.py` | the tables of the store, per tenant in the gateway | put, metadata, content, edge, cache, lineage over HTTP | read then write or read again in another transaction; edge ids drawn before the commit | what a client was told stays true |
| **Rate limiters** `rate_limit.py`, `rate_limit_redis.py` | token buckets in memory or Redis | allow | clocks that differ and go back; retry loop over WATCH/MULTI; Redis lost | no more than capacity plus refill; one decision is atomic; only the success of others delays a request |
| **Signing** `bundle_utils.py`, `signing/*`, `kms_public_key_cache.py`, `aws_kms_signing.py` | key sets, per-process cache, `signing_public_keys` | sign, verify, get, put | rotation; restarts; deactivation against cached keys in several processes | what was signed keeps verifying while its key is known; retired keys fade |
| **Authentication, tenancy** `jwt_auth.py`, `auth_oidc.py`, `sql/enable_rls.sql` | JWKS cache, session variable | authenticate, set the tenant | cache refresh | requests see their tenant's rows only |
| **Run diff, schema check** `diff_routes.py`, `schema_check.py` | none | reports | two reads while the runs go on | what is said of finished stages stays true |
| **Bundle verifier** `tools/bundle-verify`, `closure_verify.py` | none | compare zip, manifest, signature and closure | the run goes on after the bundle was made | an undamaged bundle verifies, a damaged one does not |
| **Renderer** `services/renderer` | artifacts | the stage-6 handler | none of its own | deterministic bytes |
| **Tools and scripts** `tools/*`, `scripts/*` | files | record, diff, verify, release, retention | stale directories | verification agrees with what was signed |
| **Reference deployment** `deploy/reference` | - | an older copy of the gateway | - | - |

**Interaction.** Everything meets in the database. The orchestrator writes
`artifacts`, `artifact_edges`, `stage_cache` and `stage_runs`; the planners,
deliverables, bundles and the closure check read `stage_runs`; deliverables,
revocations and downloads call `emit_event`, most of them ignoring its
failures; the idempotency table wraps some handlers. There are no messages or
callbacks between services apart from HTTP requests and the stage handlers
that `run()` calls. A service keeps no lock across transactions: whatever
exclusion there is comes from primary keys and UNIQUE constraints.

**State of the code.** `bundles_routes.py`, `evidence_routes.py` (whose
indentation is lost from line 155 on), `security_startup_check.py` and
`seed_demo.py` do not parse at this commit. The gateway's `app.py` imports a
module that is not there (`run_routes`, line 21) and names the middlewares of
the rate limiters without importing them (line 33). `db.py:20` binds a
parameter in `SET app.tenant_id = %s`, which psycopg 3 sends to the server as
`$1`, where SET takes none. The models are of the handlers' own statements, as
written, and assume that connections open with their tenant set;
`create_bundle` and `create_evidence` are read past their misplaced backslashes
and indentation.

## 2. The modules

| Module | What it is |
|---|---|
| `Store` | the four tables, the effect of each statement of `store_adapter.py` |
| `Orchestrator` | `run()` by several workers over `Store`; extends it |
| `MemoPipeline` | abstract: what memoized execution promises |
| `MCOrchestrator` | instances of `Orchestrator` for TLC |
| `OrchestratorProofs` | the inductive invariant and its consequences, the refinement of `MemoPipeline`, and what runs build on |
| `AuditChain` | `emit_event` by several requests, and the verifications |
| `MCAuditChain` | instances of `AuditChain` for TLC |
| `AuditChainProofs` | the inductive invariant of the log and its consequences |
| `Release` | deliverables, idempotency keys, bundles, revocation and download, by several requests |
| `MCRelease` | instances of `Release` for TLC |
| `ReleaseProofs` | the inductive invariant of the release handlers and its consequences |
| `Evidence` | evidence packs, their revocation and the retention sweep, beside the handlers of `Release`, which it extends |
| `Closure` | what a bundle collects of a deliverable and of a run while workers go on, and the three checks of it, over the tables of `Orchestrator`, which it extends |
| `Planner` | plans and run diffs, beside the workers of `Orchestrator` and the bundles of `Closure`, which it extends |
| `TokenBucket` | abstract: what a rate limiter promises |
| `RateLimit` | both limiters and the authentication, as the gateway stacks them |
| `Signing` | key sets, the development provider and KMS with its cache and ledger |
| `ArtifactService` | the artifact routes of the store service and of the gateway |
| `LlmAdapter` | `LLMAdapter.run`, beside the routes of `ArtifactService`, which it extends |
| `MCEvidence`, `MCPlanner`, `MCRateLimit`, `MCSigning`, `MCLlmAdapter` | their instances for TLC |
| `EvidenceProofs` | the invariant of evidence beside that of `ReleaseProofs`, and its consequences |
| `ReaderProofs` | what bundles, plans and diffs say of `stage_runs` while workers go on, and where plans start |
| `LlmAdapterProofs` | the invariant of artifact clients and adapters, and its consequences |
| `RateLimitProofs` | the refinement of `TokenBucket`, and what the limiter in memory lets pass |
| `SigningProofs` | the invariant of caches, ledger and threads; rotation of key sets |

### 2.1 Store and Orchestrator

*State.* A table is a set of rows; `stage_runs` is a function from the columns
of its UNIQUE constraint. A sha256 is represented by the artifact it names, so a
stage input is the record of what it is made of and contains, through
`prior_outputs`, everything upstream. A worker has the label of its next store
call (`pc`), the arguments of `run()` (`job`), the loop's position and list
(`stage`, `outputs`), the artifact in its hands (`obj`), where `put_artifact`
returns to (`ret`) and how far the loop over `prior_outputs` has come
(`cursor`).

*Steps.* One action is one transaction and the local computation up to the
next. The only function that is two actions is `put_artifact`: under READ
COMMITTED its SELECT and its INSERT see different states (`PutSelect`,
`PutInsert`). The rest, in the order of the code:

| Lines of `orchestrator.py` | Action |
|---|---|
| 49-82, building, validating and putting the input | `Start`, `EnterStage`, then `PutSelect`, `PutInsert` |
| 84 | `Lookup` |
| 85-89 | `HitEdge` |
| 91-99 | `InsertRun` |
| 101-116, 120-129, 133-140 | `Handle`, then `PutSelect`, `PutInsert` |
| 117, 130 | `FailClosed` |
| 142-144 | `Consumes`, once per edge |
| 145, 147, 148-151 | `Produces`, `Record`, `Finalize` |

A statement that the database refuses, for a primary key, the UNIQUE constraint
or a foreign key, raises outside every `try`: the worker is `aborted`. `Crash`
is the death of the process at any label. A terminal worker may be started again
with any call: that is the retry.

*Abstractions.* The handler is a parameter: `Handler(in)` is what it may return,
and it may always raise. Its result is a valid output, an object that fails its
schema (an error record is put), or no JSON object at all (validation itself
raises). One tenant. Connections open and commit. `pipeline_runs` rows exist;
nothing in the orchestrator writes them. The handler does not mutate the list it
is given, although line 57 hands it the live one. `stage_cache` is written by
orchestrators only: the HTTP routes that also write it are not included.

### 2.2 MemoPipeline

Clients build chains of outputs; the next input is a function of the job and
of the chain; the memo keeps for ever one derived output of each input it
knows; a chain grows only by an output derived from exactly its next input,
and only when that input is known. `Orchestrator` maps to it by: memo =
`stage_cache`, derived = the 'produces' edges, chain = `outputs`. A chain may
grow by a derived output other than the memoized one: line 147 is ON CONFLICT
DO NOTHING and the worker goes on with its own.

### 2.3 AuditChain

*State.* The committed rows, and for each request whether it has begun its
transaction, has read the newest hash, or is idle; the row it is making; a
clock; and the history variable `overlapped`, which no action reads.

*Steps.* `Begin` fixes `created_at` (the transaction's start) and the uuid4;
`Select` reads the newest committed event; `Insert` inserts and commits;
`RollBack` is a failure anywhere, which most callers swallow. The event hash is
represented by the event's id: a fresh id is in the hashed bytes, so hashes are
equal exactly when ids are. The order is `created_at, event_id`, as in the
queries. Overlapping transactions may begin in the same microsecond; one that
begins after another's commit begins later.

`exact` says that hashing the columns gives back the hashed bytes: ids come from
the URL and the database returns them in its own spelling, so an emitted id in
another accepted spelling of a UUID does not verify.

`Verifies` is the walk of `verify_chain`, `About` its filter (by deliverable;
the filter by pipeline run works the same way), `Oldest` the ascending LIMIT of
the health check.

### 2.4 Release

*State.* The tables `deliverables`, `deliverable_bundles` and
`idempotency_keys`; `artifacts`, as far as these handlers put documents there;
the events they log. A request has the label of its next transaction (`pc`), the
call it serves, and in `hand` the record or manifest it is carrying from one
transaction to the next. `reply` is the answer that the last step gave. Two
history variables: `late` says that when the call arrived its key already had a
stored answer, or the bundle it wants was already revoked; `sent` are the
deliverables that were ever sent.

*Steps.* A request arrives (`Receive`), goes from transaction to transaction and
answers, or ends at any label without an answer (`Lose`: the process dies, or a
statement fails). The client may then call again, with the same key: `Calls`
holds every call that may be made, any number of times.

| Handler | Actions in order |
|---|---|
| `create_deliverable` | `Create`; with a key it raises at line 41, before `tenant` is assigned |
| `finalize_deliverable` | `Lookup` (with a key), `MarkFinal`, `PutRecord`, `Point`, `StoreResponse` (with a key), `Raise` (line 193) |
| `mark_sent` | `MarkSent` |
| `supersede` | `MarkSuperseded`, then as `create_deliverable` |
| `create_bundle` | `Lookup` (with a key), `ReadForBundle`, `PutManifest`, `PutZip`, `InsertBundle` |
| `revoke_bundle` | `Revoke`, `Emit` |
| `download_bundle` | `ReadStatus`, `ReadBundle`, `Fetch`, `Emit` |

A document stands for its sha256: a record is made of its deliverable, the
spelling of its id and the status that RETURNING gave, a manifest of the
deliverable, the spelling, the status and the record it lists, a zip of its
manifest.

PostgreSQL reads several spellings of a uuid (capitals, braces, no hyphens) as
the same one, so a call carries the deliverable it means and, apart from that,
the `spelling` of the id in its URL. The columns are of type UUID and compare
values: `WHERE deliverable_id=%s` does not see the spelling. Texts keep it: the
path that is part of the idempotency key (`StoredFor`), and the record and the
manifest, which are made of the URL's id.

*Abstractions.* One tenant, and runs are not deleted (the foreign keys cascade).
Whether a deliverable has a document is a choice of `Create`: it depends on what
stage 6 left. The other artifacts of a run are not in the manifest's model, so
a bundle that lacks one is `Lose`. Building the same manifest twice gives the
same bytes, as with the local keys; a signature that differs each time would
only avoid the UNIQUE constraint. `put_artifact` is one step: the SELECT and
INSERT of section 2.1 differ only in the unique violation of the slower of two
puts, which is again `Lose`. Events of denied downloads are left out; whether
`emit_event` succeeds is a choice, how it chains is `AuditChain`.

### 2.5 Evidence

*State.* `deliverable_evidence`, the artifacts that packs consist of, the audit
events about evidence, and `created`: the ids of bundles and evidence in the
order of `created_at`, which `create_evidence` and the sweep sort by. A request
has a label (`at`), its call, the pack in its hands and, as history, what was
revoked when it arrived (`withdrawn`).

*Steps.* `create_evidence` is `ReadSent`, `ReadNewest`, `CheckBundle`,
`ReadReceipts`, `ReadBundleStatus`, `PutEvidence`, `PutPack`, `InsertEvidence`,
one transaction each; `download_evidence` is `ReadSent`, `ReadEvidence`,
`FetchPack`, `EmitEvidence`; `revoke_evidence` is `RevokeEvidence`,
`EmitEvidence`. `Drop` ends a request anywhere. `Sweep` is the single
transaction of `scripts/retention_sweep.py`, with a cutoff for each table and
without audit events. All of it interleaves with every action of `Release`.

*Abstractions.* A pack stands for the evidence manifest's content. Where the
code catches a failed read and goes on without the datum (receipts, the
bundle's status), `None` is an outcome. Like a record, a pack keeps the spelling
of the id that its request came with. Chain excerpt and metrics, which are
optional in the same way, are left out.

### 2.6 Closure

*State.* The tables of `Orchestrator`, the deliverables that pass the gates of
`create_bundle`, as constants, and one `bundle`, in the making or made: what it
lists and, as history, which rows were final when they were collected.

*Steps.* `CollectBundle` reads the deliverable and the run's rows: `References`
are the five columns of a row that name artifacts, `Collect` is
`_collect_run_artifacts`, and `Own` are the documents of the deliverable that
lines 86 to 91 add, its stage 6 output, docx and record. `FetchArtifacts` is the
loop over the artifacts, which answers 404 when one is missing. Workers take
steps before, between and after. The checks are operators over the tables of any
moment: `Expected` is the query of `closure_verify.py`, `VerifyBundle` the result
that `verify_bundle` computes (it does not return it: line 277), `VerifyZip` the
offline tool. Rows do not refer to the docx and the record, so the closure check
reports them as extra in every bundle, which is no error to it.

*Abstractions.* The metadata that is copied into the manifest, and its
signature, which is section 2.9's. The offline tool asks
`GET /runs/{run_id}/artifacts` for the expected artifacts; the routes that would
answer are not there, so its closure check is skipped, which is
`gateway = None`.

### 2.7 Planner

*State.* The planner's request and its position, the runs found and still to be
read, the items so far, the row of `regeneration_plans`; the two reads of a run
diff. The history variable `shared` holds the runs that two callers were ever in
at once; no action's guard reads it.

*Steps.* `SelectAffected` is the first SELECT of `plan_regeneration` and of the
gateway's `create_plan`, `ReadRun` the second, once per run on a connection of
its own, `InsertPlan` the INSERT. `ReadRowsA` and `ReadRowsB` are the two
statements of the run diff.

The statement is built from two lists: match clauses and filters. The text
names the match clauses first, the parameters are appended filters first, and
psycopg binds by position. `Comparisons` therefore pairs every placeholder's
column with the argument that really arrives there. Without a filter that is
harmless; with one a uuid or timestamp column meets a text and the statement
raises (`Malformed`), and in the gateway, whose tenant filter is always there,
the hash is compared with the tenant and matches nothing.

*Abstractions.* A stage answered from the cache has no row, so a run that was
answered from it completely is in no plan: that is in the model, as it is in the
code. Two rows without an output count as having the same one.

### 2.8 TokenBucket and RateLimit

`TokenBucket` is the promise: requests are decided one after another, each at
some instant, against a level refilled for the time since the last decision, and
a decision is told to at most one request, which has not been told another.

*State.* Per gateway the clock and the buckets in memory; the buckets in Redis;
per slot for requests the label, the `now` it took, the bucket it read, whether
the watched key was written since (`dirty`) and, as history, what it was told
(`verdict`). A slot serves one request after another, without end.

*Steps.* `Receive`; the Redis limiter's `Watch` (WATCH and HGETALL) and
`Execute` (MULTI, HSET, EXPIRE, EXEC), `BreakOff` and `LoseReply` for a Redis
that goes away before or after EXEC; `MemoryAllow`; `Authenticate`. Clocks
advance (`Tick`) and are adjusted backwards (`SetBack`); buckets expire
(`Expire`), gateways restart (`Restart`).

Three things follow from how the middlewares are stacked, and the model has
them. Starlette runs the one added last first, so both limiters run, Redis
before memory, and both before the authentication: at that time no request has
a tenant, and all share the key "anonymous", although the buckets are meant to
be per tenant. `allow()` is not a coroutine, so a gateway that talks to Redis
serves nothing else (`LoopFree`). The retry loop swallows every exception, so
the 503 of `dispatch` cannot happen. A reply that is lost after EXEC charges the
request again.

### 2.9 Signing

*State.* Each gateway's environment and how often it was started; the signed
manifests; the cache of every process; the table `signing_public_keys`; which
keys KMS still gives out; the verifying threads.

*Steps.* `Sign` by the gateway's provider. `Begin` is a verification up to its
first wait: key sets, the development key and a cache hit answer at once.
Otherwise `ReadLedger` (`get()`: a missing row and a failed query both give
None), `FetchKey` (KMS), `PutKey` and `UpsertKey` (`put()`). `Tick` ages the
entries; `Deactivate` and `Disable` are the operators' ways of taking a key out
of use; `Restart` gives a gateway its next environment, an empty cache and a new
development key.

*Abstractions.* A signature is the key that made it. An entry carries its age,
which stops counting once it is expired, so no clock is needed. The provider
that verifies is the verifier's own, not the one named in the envelope, and
`put()` makes a deactivated row active again: both are in the model, as they are
in the code. A KMS alias that is pointed at another key is not.

### 2.10 ArtifactService and LlmAdapter

*State.* The tables `artifacts`, `artifact_edges`, `stage_cache` and
`llm_calls`, with every row's space: a tenant of the gateway, whose schema is
migrated, or the whole of the store service's. Per call the label, what it has
read and the answer. A run starts with one of the sets of calls in `Scenarios`;
each call is made once.

*Steps.* `PutSelect`, `PutInsert`; `GetMeta`; `ServiceContent` in the service,
`GatewayContentType` and `GatewayContentBytes` in the gateway, which reads the
type in one transaction and the bytes in the next; `EdgeInsert` and
`EdgeCommit`, because an edge id is drawn before the row can be seen;
`GetLineage`, `GetCache`, `PostCache`; `Refuse` for a request without tenant,
scope or decodable content. The service's handlers are coroutines over a
synchronous store and are served one at a time (`ServiceIsFree`); the gateway's
run in threads.

`LLMAdapter.run` is its puts (`AdapterSelect`, `AdapterInsert`, for request,
response and drift document), `Complete` (the provider), `Replay`,
`RecordLedger` and `LoadBody`; `Die` ends it between any two.

*Abstractions.* A sha256 is the document it names. `OldKeyDropped` says whether
the migration found the first UNIQUE constraint of `stage_cache` under the name
it expects; if it did not, a key of one tenant refuses another's
(`OldKeyTaken`).

## 3. The runs

| Run | Instance | Question |
|---|---|---|
| `orchestrator` | 2 workers, 2 pipeline runs of the same inputs, 2 stages, 2 outputs of the first stage, crashes and reruns; symmetry | the safety properties and the refinement |
| `orchestrator_fair` | 2 workers on 1 pipeline run, calls with and without a prompt; no symmetry | the invariant of the proofs; every call ends |
| `audit_chain` | 3 requests, 3 events, 2 deliverables, exact or not, 4 clock values | the chain's properties |
| `life_cycle` | 2 requests, 2 deliverables, 1 key, one of them under 2 spellings: create, finalize and supersede with and without the key, mark_sent; symmetry | records, stored answers, retries |
| `release` | 2 requests, 1 deliverable, 1 bundle: from create over finalize under 2 spellings to download and revoke; symmetry | bundles, revocation, the log |
| `evidence` | 1 deliverable, 2 bundles, 1 pack; 1 request of `Release`, 1 about evidence, sweeps | packs and revocations |
| `planner` | 1 worker, 2 runs, 2 stages, two toolchains; three requests to the service: toolchain, prompt and toolchain, toolchain with a filter; two deliverables, one without its docx | plans, diffs and bundles beside the worker |
| `gateway_plans` | the same, the gateway's request | the gateway finds no affected run (section 5) |
| `rate_limit` | 3 slots, 2 in use at a time, 2 gateways; in memory, over Redis of one and of two gateways, disabled | both limiters |
| `signing` | 2 gateways, 2 verifying threads, 2 manifests, 2 KMS keys of one kid, 8 environments | rotation, cache and ledger |
| `artifact_service` | 37 sets of 3 to 7 calls, 2 tenants and the service | routes and adapters on the same tables |
| `audit_verifiable` | as `audit_chain` | overlapping emits fork the chain (section 5) |

**Orchestrator.**

- `CacheHasLineage`: a cache entry's artifacts are stored and one stage_run
  recorded all its edges; a crash leaves edges without an entry, never the
  reverse.
- `SuccessIsMemoized`: a successful row has its lineage and its input is
  memoized.
- `FailClosedEmitsNothing`: a fail-closed row names a stored error, and no edge
  carries its id.
- `OneOwner`: the UNIQUE constraint excludes workers from each other's rows.
- `OutputsFollow`: every output a run builds on is derived from exactly its
  input, is in the lineage and is memoized: no hit ever hands over something
  computed from something else.
- `MissingIsCallerSupplied`: a foreign key refuses only what the caller never
  stored.
- `FinalRowsStay`: no retry, second worker or crash changes a finalized row.
- `ImplementsPipeline`: refinement of `MemoPipeline`.
- `RunsEnd`: every call returns, raises or dies.

**Audit log.**

- `SerialChainVerifies`: events emitted one at a time verify, whatever was
  rolled back in between.
- `ChainsDescend`: forks never close a loop, and no committed event continues
  one that is not committed.
- `BrokenStaysBroken`: once the whole log fails to verify it fails for ever.
  (With the LIMIT this is not so: an event inserted later with an earlier
  `created_at` may push a fork out of the window.)
- `FilteredChainNeedsPrefix`: on a sound log the verification of one
  deliverable succeeds exactly when no other event was logged before its last
  one. The filtered answer says nothing about integrity, while
  `tests/test_policy_binding_revocation.py:63` expects it to be ok.

**Deliverables and keys.**

- `RecordsSayFinal`: the record a deliverable points to is stored and says
  'final', although any request may change the status between the two UPDATEs
  of finalize.
- `StoredAnswersHold`: wherever the request that stored it ended, a stored
  answer promises the record that its own path names; that record is stored, and
  the deliverable points to one. It points to this one only if nobody writes the
  id in another way (`OneSpelling`).
- `OkAnswersAreTrue`: finalize answers 'ok' with the record of its own
  deliverable and path, from the key table or not. Under several spellings a
  retry may be answered with a record that is not the deliverable's any more.
- `LateRetriesAreSilent`: a retry that arrives after the answer was stored does
  not finalize again. A retry that arrives earlier does: lookup and answer are
  different transactions. It is harmless because the second finalize through the
  same path writes the same record.

**Release.**

- `BundlesAreWhole`: a bundle's deliverable has a document and is no draft; its
  manifest, its zip and the record it lists are stored. (A bundle built between
  the two UPDATEs of finalize lists no record.)
- `RevokedStaysOut`: a download that arrives after the revocation was committed
  is refused. One that is under way may finish.
- `OneRevocation`: of several revocations of a bundle one passes the condition.
- `LogIsTrue`: a logged revocation is in force; a logged download was of that
  deliverable's bundle, and the deliverable had been sent.
- `ReleasesStay`: no handler takes back a revocation, a manifest, a document or a
  predecessor; a record is replaced at most by one of the same deliverable that
  writes the id in another way.

**Evidence.**

- `EvidenceIsWhole`: whatever happened between its seven transactions, a pack's
  documents are stored, belong to one deliverable that was sent, carry a final
  record of it, list only downloads that are logged, and report only revocations
  that are in force. The deliverable's own record is the same up to the spelling
  of the id, then and later.
- `RevocationsAreRespected`: a request that arrives after a revocation or a
  sweep neither delivers that evidence nor makes new evidence for that bundle.
  (Evidence made before its bundle was revoked stays downloadable: nothing
  revokes it along.)

**Planner.**

- `ReportsStayTrue`: outputs, reused stages and comparisons of finished rows in a
  plan or a diff stay what they are, whatever workers do between and after the
  reads.
- `ReuseIsUnaffected`: although affected runs and their rows are read in
  different transactions, no reused stage was computed with what is replaced.
- `ExplainAgrees`: the explanation, computed from later rows, names the stage
  that the plan starts from.
- `ClosuresHold`: a bundle of a run is collected at any moment, and only a
  document of the deliverable itself can keep it from being made. From then on,
  after every further step of the worker: what it lists is stored; the documents
  of the deliverable are its only extras; what verification reports as missing
  comes from rows that were not final when it was collected; offline it verifies,
  and no more when an entry of the zip is lost, changed or added. (So a bundle of
  a run that is executed again may miss something, and no bundle of a finished
  run does.)

`ReuseIsUnaffected` and `ExplainAgrees` are about runs that are `Orderly`: their callers came one after
another, and only one call of the run meets what the request replaces. That is
how the planner's own plans are meant to be carried out, and both parts are
needed. A stage in front of the first match was answered from the cache when the
affected call passed it, and is answered from the cache ever after; but a second
caller that looked before the entry was there, or a call with another prompt
which the request replaces as well, still inserts a row there, between the
planner's two reads or after them. `NothingReplacedIsReused` is the same promise
for every run, and does not hold (section 5).

**Rate limiters.**

- `ImplementsBucket`: the read-modify-write over WATCH, MULTI and EXEC is one
  decision of `TokenBucket`, whatever gateways, clocks, expiry and lost replies
  do: no update is lost and no token is spent twice. It is about atomicity: where
  clocks differ, the instants of the decisions need not be in order.
- `GrantsAreEarned`: what the limiter in memory lets pass is paid for by its
  capacity and by the time its clock really moved forward, also when the clock is
  set back and passes the same time again.
- `OnlySuccessDelays`: once Redis stays reachable, a request that never leaves the
  middlewares is overtaken for ever by decisions that other gateways take. That
  it leaves is not guaranteed: under endless traffic of another gateway the loop
  of `allow()` may lose every EXEC, and the requests behind it in its gateway
  wait as long.

**Signing.**

- `LedgerSuffices`: a manifest signed by KMS is not refused while the ledger has
  its key, whatever KMS does and whichever threads fill the cache.
- `KeySetsVerify`: a signature is accepted as long as its kid is in the
  verifier's key set, whichever kid it signs with now; the offline verifier
  agrees when it has the same key sets.
- `RetiredKeysFade`: a key that is and stays out of use in the ledger and in KMS
  is some day in nobody's cache any more, however often it is asked for.

**Artifacts and adapters.**

- `AnswersStayTrue`: the type answered to a put or a read is the stored row's, a
  cache hit is what every later lookup answers, and a list of edges is found
  again, in its order, in every later one.
- `LedgerIsEvidence`: wherever a process died, what a ledger row names can be
  read back, a response answers the request beside it unless it was replayed, and
  a drift that was found has its document.

Every property is violated by at least one plausible change of the code; the
changes are the definitions marked "Variant" in the modules.

**Bounds.** Two workers are enough for every race of `run()`: a store call
interferes with another worker's only through one row or one artifact. Two
stages are the least with a prior output, so with a second `consumes` edge and a
cache key that depends on what came before; the second stage returns one of the
first stage's outputs, so that one artifact has several origins. Two pipeline
runs let one run hit what another memoized; the two outputs let them disagree.
Tables only grow and are bounded by the constants, so no state constraint is
needed. Three audit requests allow a fork whose second branch is continued by a
third event that began before both. `MaxClock` bounds the clock; event ids run
out, so the audit runs do not check deadlock. In the orchestrator's runs
deadlock is checked: some worker can always be started or killed.

For `Release` two requests are every race between a step and another request's
step; the second deliverable is needed for successors and for a key used on two
paths. One bundle is enough for the races of revocation and download;
`InsertBundle` meets the UNIQUE constraint with one. Two spellings are one more
than the handlers expect; only the ids of finalize calls are written in both,
because only the record and the path of finalize keep a spelling that something
else depends on. `MCBounds` of `release` allows one manifest at a time that is
stored without a bundle of its own. The tables are finite, so there is no other
bound; an idle slot can always receive a call, so deadlock is checked.

`evidence` has one slot of `Release` and one for evidence, which is every race
between a step of either and a step of the other; two bundles make "the newest
valid one" change. `MaxOrphans = 0` allows a request to die after a put once,
not again and again. `MCBounds` leaves out of `Release` what evidence cannot
see: a call that nothing can come of, events other than downloads, and a second
finalize except where it matters, in the other spelling while a pack is being
made. `planner` has one worker, because with two the instance is too large; one
worker repeats a run with another toolchain, fails and dies at any moment between
the planner's reads, but is never in a run that somebody else is in. What two add
is excluded from two of the properties (`shared`) and is covered by the proofs,
which hold for any number of workers. `MCSpec` lets a
behaviour have a plan, a diff or a bundle, which do not read each other, and lets
workers die only where `stage_runs` and `stage_cache` differ. Calls of one run differ in
the toolchain only.

In `rate_limit` a token is two parts and the capacity one token, so that a tick
earns half a token and the boundary is met exactly. `MaxForward` bounds how often
a clock advances, not how often it is set back. The gateway `g2` has a clock that
stands still, which is the largest difference the bound allows. Two slots in use
are every race between a step and a step of another request: of the same gateway
in memory, of the same gateway waiting for Redis, and of two gateways at one
bucket. `signing` has a
`Ttl` of one tick: entries are fresh twice and then expired. `MaxStarts` bounds
restarts. `artifact_service` makes each call once; a second call of the same
kind is a second element of its scenario. In these runs calls, ids or restarts
run out, so they do not check deadlock.

**Fairness.** `FairSpec` is weak fairness of each worker's steps: `run()`
contains no wait, no lock and no retry loop, so a process that is not killed
makes its next call. Handlers are assumed to return or raise. Nothing is assumed
of `Start` and `Crash`.

In `RateLimit` it is weak fairness of the steps inside `allow()` over Redis: the
gateway does nothing else, so it goes on with the call. The limiter in memory and
the authentication wait for the event loop, which is free and taken again and
again; it serves callbacks in the order in which they became ready, which is
strong fairness. That Redis answers is not assumed but is the premise of
`OnlySuccessDelays`, because the retry loop has no other way out. Nothing is
assumed of clocks, restarts and new requests. In `Signing` it
is weak fairness of `Tick`, because time passes, and of the steps of a
verification, whose calls return or raise; nothing makes operators, KMS or new
requests act.

## 4. The proofs

All of them hold for any number of workers, runs, stages, parameters and
outputs, any handler, any set of calls (assumption `OrchestratorAssumption`:
the shapes of the constants, and that NULL, errors and outputs are distinct);
for the audit log for any number of requests, events and clock values
(`AuditAssumption`). The assumptions of the other modules are again the shapes
of the constants and that NULL is none of the values: `ReleaseAssumption`,
`EvidenceAssumption` (besides, uuids of bundles and of evidence differ),
`PlannerAssumption`, `RateLimitAssumption` (besides, a bucket is full again
before Redis expires it, as with the default settings), `SigningAssumption`,
`ServiceAssumption` (besides, what was in `artifacts` before has one row for
each hash) and `AdapterAssumption` (no document of an adapter was there in
another backend, whose bytes nothing here can read).

**Orchestrator.** `IndInv` is the inductive invariant. The checked
properties do not carry themselves: that a memoized output has its lineage needs
that the worker about to memoize has recorded it (`LineageSoFar`, by label);
that the edges it recorded carry its row's id and that nobody else's do needs
that the row is its own (`OwnsItsRow`, `Exclusive`); that a fail-closed row has
no edges needs that a row had none when it was inserted (`AbsentEmitsNothing`);
that the artifact in its hands is the right one, through the two steps of
`put_artifact`, is `InHand`. There is one lemma per action; `RunningTypes`,
`OthersInd` and `WorkersInd` reduce a step of one worker to that worker, because
other workers' conjuncts only mention tables that grow and rows that are not
touched. From `Inductive` follow `TypeCorrect`, `CacheLineage`,
`SuccessMemoized`, `FailedEmitNothing`, `RowsHaveOneOwner`, and
`HistoryStays` for the action property.

**Pipeline.** `OrchestratorProofs` classifies the steps (`Steps`): a step is
`Hidden` (it changes nothing the abstraction sees), `Restarts` a worker,
`Derives` (a 'produces' edge), `Memoizes` or `Advances` a chain; `Refinement` maps
each kind to an action of `MemoPipeline` or a stutter. The case that needs
thought is a hit: it too adds a 'produces' edge (line 86), but `IndInv` says the
entry's lineage is already there, so nothing new is derived. `RunsFollow` goes
by prefixes: the input of a stage depends on the outputs before it only, so what
held of an output when it was appended still holds when the list is longer.
`RefusalsAreTheCallers` rests on `EdgesHold`, the referential integrity of what
the workers write themselves.

**Audit log.** `ChainInv` adds to the types that a request under way has a new
id and has read a committed one (`UnderWay`), and that while nothing overlapped
the one active request began after every commit and has read the head
(`Serial`). The row that `Insert` adds is therefore continued by nothing yet
(`NobodyContinues`); taking it away keeps a verifiable log verifiable
(`VerifiesWithout`), which is `ForksAreForEver` read backwards.
`FilterIsPositional` needs an induction along the chain; it is obtained from the
absence of loops: the rows of the filter with a foreign predecessor would all be
continued from such rows.

**Release.** For any number of requests, deliverables, bundles and keys and any
set of calls (`ReleaseAssumption`). `RelInv` has three parts. `Tables` is what
the tables say at rest; to the checked properties it adds that keys are stored
by finalize only, that a deliverable that is sent is in `sent`, and that logged
bundles exist. `Holds` is what a request may rely on at its label: that after
`MarkFinal` the deliverable never returns to draft and the record in hand says
'final' (`Finalizing`), that the document and the record which the bundle
handler saw are still there (`Bundling`), that a download under way was not late
(`Releasing`), and that being late means that the key is stored or the bundle
revoked (`Lateness`). `RepliesHold` is about the answer just given. A request's
part survives the steps of others because the tables only `Grow`: statuses never
return to draft, documents and manifests do not change, a record gives way only
to another of `FinalRecords`, the records that the calls can make of the
deliverable, and revocations stay. Where `OneSpelling` holds, `FinalRecords` has
one element, and so the pointer does not move. Growth is also all that `ReleasesPersist` needs. One lemma per action;
`GoOn` and `Finish` carry what all actions share.

**Evidence.** `EvInv` contains `RelInv` unchanged: a step about evidence leaves
the tables of `Release` alone, and the sweep revokes only bundles that exist,
which is what `CreatedExist` is for. A request puts its pack together in seven
transactions, so `Doing` says for each label what is known by then and still
true: what was read (`ReadsAreTrue`, `FindingsAreTrue`), what was put
(`PutsAreKept`), which gate was passed (`PassedTheGate`). None of it can be taken
back by other requests (`EvidenceGrows`, which includes the `Grows` of
`ReleaseProofs`); `RowsAreWhole` is what is left of it when the row is inserted.
From `EvidenceInductive` follow `EvidenceStaysWhole`, `RevokedEvidenceStaysOut`
and, as the other half of the composition, `ReleaseSurvivesSweeps`: bundles,
revocations, records and log keep the promises of section 2.4 beside evidence
and sweeps.

**Readers.** Bundles, plans and diffs all rest on one fact about `stage_runs`:
a row goes from absent to open to final, keeps its input, and names stored
artifacts only (`RowsInv`, which strengthens `IndInv`, and `RowMoves`). So what a
bundle has collected stays stored and expected (`ExpectedGrows`), and what is
missing later was not final (`BundleInv`, `BundleIsClosed`, hence
`ClosuresStay`); and what the planner and the diff have
read of a final row is what the row says after every step of any worker
(`PlanInv`, `ReportsAreKept`). The planner's own steps change no row.

Where a plan starts is a matter of what can still happen in front of it.
`CallsInv` says that every row is the input of some call (`RowsAreCalls`); that
each stage in front of a call's row has a row of that call, too, or an entry in
the cache for the input which the call builds there (`RowsPassed`, and
`WorkerPassed` for a caller under way); that an input has one entry
(`CacheIsFunction`); that two callers which are in one run have been seen
(`SharedSeen`); and that a caller which has its run to itself and comes again to
the stages in front of its call's first row finds exactly those entries, and so
builds the same inputs (`InFront`). So in an orderly run the
affected call never inserts a row in front of its first one, and as inputs and
rows are kept, the least stage of `Matches` stays what it is (`MatchStays`) while
rows behind it come and go. The planner's statement selects the same stages
(`SelectedIsMatches`), provided that the request has no filter: with a filter the
first placeholder, a match column, meets a filter's argument, and so on along the
list, until the last filter column meets a match argument and either no row fits
or the database refuses. `FiltersDecide` says which runs are found. From
`StartsInductive` follow `ReuseIsSafe` and `ExplanationsAgree`.

**Artifacts and adapters.** `AdapterInv` speaks of three tables that only grow.
`TablesOK` and `DocumentsAreReadable` are what they say at rest: an artifact has
one row, and a document of an adapter can be read wherever a row for it exists,
which matters because `put_artifact` asks for the row only. `ClientOK` says that
what a client of the routes was told is true now; it stays so because artifacts,
cache entries and committed edges stay, and because an edge that commits later
was drawn with its own id and does not change the order of those already read.
`AdapterOK` says by label what an adapter has put and what it holds, which is
what makes `RowIsEvidence` true of the row that `RecordLedger` writes. There is
one lemma for each kind of step on what it does to the tables, one on what that
does to everybody else's part of the invariant, and one on the part of the call
that made the step. `AnswersAreKept` and `LedgerHolds` follow.

**Rate limiters.** `LimitInv` adds to the types that a bucket read under WATCH is
the one in Redis unless the key was written since (`WatchesHold`), and that who
is still in the call has been told nothing (`Untold`), so an EXEC that succeeds decides from the current level: with that, each step is a decision
of `TokenBucket` or a stutter (`RedisIsABucket`). For the limiter in memory
`Earned` is a potential: what was let pass, what is in the bucket, and what the
bucket is still owed up to its gateway's time never exceed the capacity and the
refill of the time the clock moved forward. Setting the clock back only lowers
it, so `MemoryIsEarned` holds however often that happens.

**Signing.** `SignInv`: caches and ledger hold what KMS gives out for the
key_ref (`KeysAreTrue`), a thread at work has a signed manifest
(`AskedIsSigned`), and a request that the ledger covered all along has not gone
on to KMS and, when it is done, has been answered yes (`CoverIsTrue`). That is
`LedgerIsEnough`. `RotationIsSafe` needs of it only that the key of a signature
is not null and its kid known.

**Only model-checked.** `RunsEnd`, `OnlySuccessDelays` and `RetiredKeysFade`, because
they are liveness under fairness, which is out of the provers' reach. Every
other property of a passing run is also a theorem.

## 5. Where the code and its documents disagree

Two runs expect a violation:

| Run | The document | The code |
|---|---|---|
| `audit_verifiable` | `STABILITY_POLICY.md:48`: hash-chained and verifiable | overlapping emits fork the chain |
| `gateway_plans` | regen-planner `README.md:18`: which pipeline runs are affected | the tenant is bound where the hash is compared; no run is affected (`FiltersDecide` proves it of every request) |

Further properties that a document states and the code does not have are
definitions of the modules that no run checks. Naming one as INVARIANT (as
PROPERTY where it is an action property) in the configuration given shows the
counterexample.

| Definition, configuration | The document | The code |
|---|---|---|
| `PromptlessStagesRun`, `MCOrchestratorFair.cfg` with `UsesPrompt <- LastHasNoPrompt` | `seed_demo.py:235` runs a stage with `uses_prompt=False` and expects a cache hit | line 58 writes a null prompt, which `stage_input-v1` refuses |
| `PutIsIdempotent`, `MCOrchestrator.cfg` | artifact-store `README.md:14`: re-putting is a no-op | concurrent puts: the second INSERT violates the primary key |
| `EndedRunsAreMarked`, `MCOrchestrator.cfg` | orchestrator `README.md:54`: marks stage_run success/fail_closed | exceptions outside the `try` leave the row unmarked; the UNIQUE constraint then refuses every retry of that stage that misses the cache |
| `HealthSeesNewest`, `MCAuditChain.cfg` | `compliance_health.py:43`: last N tenant events | the oldest 500 |
| `FinalizeSucceeds`, `MCLifeCycle.cfg` | `tests/test_deliverable_bundle_invariant.py:56`: finalize answers 200 or 201 | line 193 hands a `uuid.UUID` to `json.dumps`: a finalize of an existing deliverable commits everything and answers 500, unless its key has a stored answer |
| `NothingReplacedIsReused`, `MCPlanner.cfg` | regen-planner `README.md:21`: what can be reused (stages before start index) | of a run that is called again while it is planned, with another call that the request affects, or by two callers at once, a stage before the start may have been computed with what is replaced |
| `SupersededHasSuccessor`, `MCLifeCycle.cfg` | `deliverables_routes.py:211`: creates a deliverable that supersedes the given one | the old row is committed as superseded first; with an Idempotency-Key the creation always raises |

Found while reading, and part of the models without a property of their own:

- A finalize through another spelling of the deliverable's uuid has another path.
  It gets past the idempotency key, acts again and stores a record that differs
  in `deliverable_id` (`deliverables_routes.py:157`); line 185 moves the pointer
  to it. The answer stored under the first path then names a record that the
  deliverable no longer points to.
- Every manifest lists artifacts that the closure check counts as extra: the docx
  and the record are in no row of `stage_runs`.
- With Redis, a request is not sure to end while other gateways keep deciding
  (`OnlySuccessDelays`).
- The limiters run before the authentication, so their "tenant" is always
  "anonymous"; with Redis both of them apply; the fail-closed answer 503 is
  unreachable; the download of evidence counts as "meta".
- `docs/compliance/KMS_ROTATION_AND_CACHE.md` describes deactivation in the
  ledger; a deactivated row is active again after the next `put()` as long as
  KMS gives out the key.
- The offline verifier uses a single HMAC secret for every kid, does not use a
  single Ed25519 key, and knows none of the providers' algorithms.
- `bundle_verify --bundle-sha` downloads through `/artifacts/{sha}/content`,
  which refuses the type of bundles with 403; `verify_bundle` returns nothing.
- `docs/compliance/THREAT_MODEL.md:163` says that revoked bundles and evidence
  cannot be downloaded: that holds for each of them, but evidence of a bundle
  that is revoked later stays valid, and the sweep revokes without an event.
- A put answers with the metadata of whoever stored the bytes first, and takes a
  row of another backend for stored although its bytes cannot be read.
- `LLMAdapter` notices a missing argument of drift mode after the provider has
  been called, skips the ledger silently without a `stage_run_id`, and with an
  unknown one raises after everything was stored.

## 6. Not modelled, and the plan

Not modelled, and why:

- *OIDC and its JWKS cache*: `PyJWKClient` decides what it fetches and when; the
  code around it is one call. The tenant that a token yields is a value.
- *Renderer, identity provider stub, user interfaces, schemas*: formatting and
  pages; no state that outlives a request.
- *Regression fixtures, validator, release verifiers, release and operations
  scripts*: one process each, over files, with hashing and signing. Their
  hazards are those of files that are rewritten in the wrong order. What reading
  them showed: `verify_release.py:119-126` stands at module level and raises
  NameError, so step 6 of `audit_verify` fails; `check_key_revocations_authority`
  is never called; `generate_provenance` takes the digest of
  `RELEASE_STATUS.json`, which `revoke_release` rewrites, so that the provenance
  check fails after a revocation.
- *Reference deployment*: an older copy of the gateway.
- Everywhere: cryptography, schema validation's details, HTTP, token parsing.

The plan, most important first:

1. An abstract life cycle of a deliverable (draft, final, sent, superseded) that
   `Release` implements, and the transitions of `AUTHZ_MATRIX.md` that it does
   not.
2. `Release` composed with `Orchestrator`: a stage 6 answered from the cache has
   no `stage_runs` row, so a deliverable made of it finds no document.
3. The release scripts as operations over a directory: publish, revoke, sign the
   feed again, verify.
