# Harbor AgentOps: verification of the durable agent runtime

Harbor AgentOps takes an incident, lets a model propose a remediation plan,
has people approve it, executes it through a tool boundary and verifies the
outcome. What makes it hard is not the model: it is that a *run* is carried
from node to node by worker processes that crash, lose leases and are retried,
while API requests vote, cancel and retry the same record. This directory
holds TLA+ specifications of that part, the TLC runs that check them and the
TLAPS proofs about them. Paths below are relative to `src/`.

## 1. Inventory

| Component | State | Operations | Talks to |
|---|---|---|---|
| Store, jobs (`backend/app/store.py`) | `agent_jobs`: status, owner, lease, fencing token, attempts, available_at | enqueue, claim, heartbeat, finish, requeue | workers, API |
| Store, runs (`store.py`) | `agent_runs`: JSON payload and version | save_run (compare version), save_run_with_lease (fence, then compare), get_run | engine, API |
| Worker (`worker.py`, `worker_main.py`) | locals of `run_once`, the `lease_lost` event, a heartbeat thread | claim, process, finish / requeue / fail | store, engine |
| Agent engine (`agent.py`) | the worker's copy of a run | start, decide, cancel, retry_failed, process and its ten nodes | store, tools, model, policy |
| API (`main.py`) | none between requests | the four run-changing requests, reading endpoints, login | engine, store |
| Tool executor and boundary (`tools.py`, `ops_sandbox/app.py`) | idempotency records, capability uses, laboratory state | execute, invoke | engine |
| Policy compiler (`policy.py`) | none | compile a plan to an executable one and a decision | engine |
| Identity and capabilities (`security.py`) | none | sign, verify, role checks | API, tools |
| Model adapter (`model_adapter.py`) | a circuit breaker per process; the inference slot (an advisory lock in the database) | propose: wait, ask, repair, materialise the draft | engine, store, model gateway |
| Model gateway (`local_model_service/server.py`) | one lock, a queue of requests | generate | model adapter |
| Retrieval (`retrieval.py`) | in-memory index, embedding cache | search: fuse, route, pin | engine |
| Console (`frontend/src/App.tsx`, `api.ts`) | token, user, runs, jobs by run, selected run, requests in flight | login, logout, poll, start, decide, retry, cancel | API |
| Evaluation, metrics, embedding server, scripts | -- | -- | -- |

### What each part must guarantee

* **Jobs.** One owner at a time; a worker that lost its job cannot write after
  the one that recovered it; a job is ended, and is not recovered for ever.
* **Run records.** A save is an atomic change of the latest record.
* **Run lifecycle.** No write before the quorum of people other than the
  requester; ended runs stay as they are; an accepted cancellation wins; no
  vote is lost; a run reported as completed made its write; a run never waits
  for a job that does not exist.
* **Tool boundary.** A step takes effect once, in plan order; a reading that
  decides about success is newer than what it judges; a rollback undoes what
  acted and nothing else.
* **Retrieval.** The planner is shown the runbooks of the service and the rules
  of verification, whatever the ranking says.
* **Model adapter.** A draft becomes the plan the model meant: its steps, wired
  as it wired them, with criteria that a change without effect does not meet.
  One inference at a time; every call ends; time-outs do not breed time-outs.
* **Policy compiler.** The accepted dependency graph is one execution can
  order; what runs without approval is what the system identity may do.
* **Console.** What is done on the page is done in the name on the page; jobs
  are shown under their run; one identity's data does not stay for the next.

### What is hard here

Interleavings of workers with each other and with API requests (every read,
save and enqueue is its own transaction); lease expiry at any point between
two statements; crashes between two transactions; exceptions that are caught
in one place and counted in another; tool answers that are lost after the tool
acted; a nested checkpoint that publishes a state its handler has not finished
with; requests to the model that outlive their client; answers to the console
that arrive after the user or the run has changed; ids that a normalisation
makes equal. `PROJECT.json` lists each under `hazards`, at its line.

## 2. Modules

```
JobTable        the rows and the SQL statements, as operators on records
   |
WorkerLoop      run_once on every worker: claim, heartbeat, finish, requeue, fail, crash
   |        \
LeasedStore  AgentRun     who writes runs  /  what a run goes through
   |            |
MCLeasedStore  MCAgentRun

AtomicRun                 what LeasedStore implements
WorkerLoopProofs          lemmas about the loop, for both
LeasedStoreProofs, AgentRunProofs   theorems

ToolBoundary    idempotency records, the laboratory, late requests
   |
PlanExecution   execute, verify, compensate, step by step
   |
MCPlanExecution

PlanEffects               what PlanExecution implements
PlanExecutionProofs       theorems

Toolbox         the registry, the input schemas, readings and checks
   |         \
PlanDraft   PolicyCompiler   Retrieval     pure functions
        \        |           /
             Planning          the nodes from retrieve to policy
                |
            MCPlanning

RetrievalProofs           lemmas about folds and induction, fusion, sources
PlanningProofs            theorems, with them

ModelAccess     callers, the slot, the breakers, the gateway      MCModelAccess
ModelAccessProofs         theorems

Console         the page, its requests, the server it meets       MCConsole
ConsoleProofs             theorems
```

**JobTable** translates the statements of `agent_jobs` one by one. Time is
counted down: `lease` is for how many more ticks `lease_until > now` holds,
`delay` how many ticks until `available_at <= now`. `Owns` is the fence of
`finish_job` and `requeue_job` (status, owner, token), `Leased` adds the
running lease, as `heartbeat_job` and `save_run_with_lease` do.

**WorkerLoop** is `run_once`, with a program counter per worker. The heartbeat
thread is an action that may happen whenever the loop is not idle; it sets
`lost`, which the loop reads once, after `engine.process` returned. `EndClaim`
is both updates at the end: a row that no longer matches the fence is left
alone and the worker forgets its job. `Crash` loses the locals; the worker comes
back under the same name, because `resolve_worker_id` derives it from the host.
`StoreError` stands for any exception out of the store. `Tick` ages every row.

**LeasedStore** adds the run records and everybody who saves them. A record is
its version and the set of saves its payload contains, so that a lost update is
visible as a missing save. An API request reads (`BeginRequest`), saves
(`SaveRun`) and enqueues (`RequestJob`) in three steps and may stop after each.
A worker loads the run, checkpoints it any number of times, and meets a lost
lease or a conflict.

**AtomicRun** is the abstract promise: a save extends the latest record, a job
is granted to one epoch after another, a save under a job is made by the newest
epoch, and a closed job is neither granted nor written under.

**AgentRun** is one run from request to end: the API operations, `process` with
all its nodes, and the write the approved plan makes. The worker's `copy` and
the stored `run` are different variables; `CheckpointTo` is the only way from
one to the other and has the three outcomes of `save_run_with_lease`. An API
operation is a single step, because LeasedStore shows that a save is one. The
enqueue is a second step. Everything the code does between two checkpoints and
that nobody else can see is one step; where a handler stores the run in the
middle of its work (after a tool call, after a compensation), it is several.

**ToolBoundary** is the other end of a call. `answers` is the table
`tool_idempotency`, `Serve` the transaction of `invoke_tool`: look the key up,
act, store the answer. The laboratory is the set of steps whose change is in
force and the set of steps that lift the injected fault (`cures`, any subset).
Every verification reads the metrics of the one experiment; undoing a scaling
restores the number of replicas. A request whose sender gave up is in `late`
and may arrive at any time: `httpx` times out whatever the server is doing.

**PlanExecution** is execute, verify and finalize on a plan of several steps,
with the record each worker keeps in memory (`copy`), the stored run, and who
may still store his copy (`current`: only equality of versions matters, so the
number is left out). `Call` is `ToolExecutor.execute`: a success on record is
taken as it is, otherwise the call is answered, lost, or refused before it is
sent. Each loop of a handler is a place: execute/acted, verify/read,
compensate/undone/confirm/confirmed, with one checkpoint per turn as in the
code. Which worker may take the run up, and when, is left open (`Begin`, `Crash`
at any time): AgentRun says how that comes about, and what holds here holds
under any schedule. `Topological` is `_topological`, batches in id order.

**PlanEffects** is the abstract promise: steps happen once, after those they
depend on, and are undone once, after they happened.

**Toolbox**, **Retrieval**, **PlanDraft** and **PolicyCompiler** are the pure
parts of planning as operators: `Search` is `Retriever.search` with `_rrf`,
`Materialize` is `_materialize` with `_change_checks`, `Compile` is
`PolicyCompiler.compile`. `Materialize` has three outcomes: a plan, "refused"
(pydantic rejects a step or the whole proposal, which opens the breaker), and
"stuck" (the loop at model_adapter.py:726 has no way out). `HasCycle` is the
depth-first search itself, not its meaning: `visit` and its loops are one
recursion over what a loop still has to do. The meaning is in `Sortable`, the
topological sort of the engine, and a property compares the two.

**Planning** composes them: the handlers `_node_retrieve` to `_node_policy` on
one run, where everything that comes from outside -- the rankings, the readings,
the model's answer -- is the run's *case*. AgentRun says when these nodes run
and what may interrupt them; Planning says what they compute.

**ModelAccess** is everybody who asks the model. `Call`, `Enter` and `Leave`
are `model_inference_slot`, with the line for the advisory lock (for each caller
who waits before it); a crash releases a
process's locks, a lost database session releases the lock under a caller that
does not know (`LoseSlot`). `Ask`, `Repair` and `TimeOut` are the client,
`Fail`, `FallBack` and `Cool` the breaker of its process. The gateway answers
one request a tick, in any order, orphaned ones included.

**Console** is one page. `flights` is the set of requests on their way, each
with what its closure remembers (session, run, whether it resets `busy` or
`loading`); `...Answered` are the continuations, `Turn` the effect React runs
when the user or the selected run has changed. A request is served by the
server (`Serve`) and handled by the page (`Receive`) in two steps, so that
answers overtake each other and what is handled is old. Of a run the page knows
the version, of the jobs kept for a run whose they are.

Correspondence, for a reader with the code open: `LoadRun` is `_require_run`
in `process`; `ProcessFinal`, `ProcessCancelled`, `ProcessBegin` its first
three branches; `Intake` ... `Finalize` the `_node_*` handlers; `EndNode` the
checkpoint in `_run_node`'s `finally`; `NodeFails` its `except`;
`LastCheckpoint` the one at the end of `process`; `Start`, `Approve`, `Deny`,
`Cancel`, `Retry` the API operations, `Enqueue` and `ApiCrash` what follows.
`PROJECT.json` maps every definition to its lines.

### Abstractions worth knowing

* Among the jobs that may be claimed, lapsed claims come first, as in the code;
  within a class the code takes the oldest, the model any.
* In AgentRun the plan is one write (`write`, `effect`). Observing and verifying reads are
  free choices of the handler's outcome; their nested checkpoints are part of
  the node's step, except those of execute and of the compensation.
* AgentRun takes for granted that a repeated tool call takes effect at most
  once; PlanExecution shows it (`EffectOnce`).
* In PlanExecution a result is "good" or "bad": of a reading, whether its
  criteria are met. The steps that scale workers are the ones with an automatic
  rollback, the only ones the policy admits. Cancelling does not appear: to a
  worker it is a version that is gone, which is `Crash`, and it ends the run.
* The steps of a plan that reaches verify have all succeeded, so the branches
  for a missing action result (agent.py:877 and 737) are never taken.
* The 24-transition limit of `process` is left out: a run has ten nodes and
  no cycle, it cannot be reached.
* `process` looks at `cancellation_requested` in its loop too, but on its own
  copy, which nothing sets after it was loaded; only the look at the beginning
  can find it, and only that one is modelled.
* Separation of duties is on, as it is by default.
* A commit whose acknowledgement is lost counts as a failed one.
* The documentation says a checkpoint is saved at the start and at the end of
  each node; the code saves at the end, and so does the model.

* In the planning modules rates and ratios are in tenths and a check against
  half of a reading is the operator "half", so that all numbers are integers.
  Texts are model values: an id is what the normalisation leaves of it, in
  parts, and which of several spellings it had. Issues are a set: their order and
  wording decide nothing. Only the patterns of other fields are folded into
  `wellFormed`. Splitting, embedding and BM25 are left out; their rankings are
  inputs, and in the runs every permutation of the chunks is one.
* The limits on sources, steps and evidence are constants; the configuration has
  3 instead of 6, 12 and 12, so that the cases reach them.
* The adapter of a system without a model always hands over: it is the answer
  "none" of a case.
* ModelAccess takes for granted that naming ends. Where it does not
  (`NamingEnds` says exactly when it may not), the caller would keep the slot
  for ever, and its job's heartbeat would go on.
* A tick of ModelAccess is one generation, whatever its length.
* The console keeps metrics, documents, drills and the evaluation like the
  runs, in the same handlers; one of them is enough. Texts of errors and
  toasts, and which buttons a role sees, are left out: more clicks are possible
  than on the page. A token may expire at any time.

## 3. Runs

| Run | Configuration | What it shows |
|---|---|---|
| leased_store | 2 workers, 2 clients, 1 run, 2 jobs, 2 faults, 3 saves | the safety properties of the store and the refinement |
| leased_store_live | the same with 1 client, 1 fault, 1 store error, fair | every queued job is ended |
| agent_run | 2 workers, 2 jobs, a low- and a high-risk plan, 3 people, one each of cancel, API crash, crash, store error | the safety properties of the lifecycle |
| agent_run_live | the same without further faults, fair | a queued run settles |
| awaits_decision | violation | a run awaiting approval is failed by a recovered job |
| cancel_carried_out | violation | a cancelled run is left RUNNING with no job |
| queued_has_job | violation | a queued run is left without a job |
| plan_execution | 2 workers, 2 steps, 2 plans, every set of cures, the run taken up twice, any loss and delay | the safety properties of execution and the refinement |
| completed_repaired | violation | a run completes on a reading older than its rollback |
| planning | 6 chunks of 5 documents in every dense ranking, 5 lexical ones, 3 weights; all drafts of 3 steps over 6 ids; every tool on every reading; 275 plans of another adapter | what the planner sees, what is accepted, what the checks can tell |
| model_access | 3 callers in 2 processes, 5 calls, patience of 2 generations, 2 crashes, 1 lost session, fair | one inside, backlog and time-outs explained, every call ends |
| console | 2 users, 2 runs of one, 2 log-ins, 1 click, 1 lost request, 1 step of a worker, fair | identity, jobs and tenants are not mixed up; the page settles |

The properties, in the order of the hazards they answer:

* `NoLostUpdate`: the stored record contains every accepted save. It needs the
  version check of both statements *and* the versions to advance with the copy.
* `FencingOrder`: saves under one job never go back to an older token.
* `ImplementsAtomicRun`: LeasedStore refines AtomicRun; `closed` is the ended
  jobs, so it also says that an ended job is not granted or written under again.
* `RecoveryBounded`: claims of a job are bounded by the attempts plus the
  faults, although the code compares attempts only where an exception is caught.
* `JobsEnd`, `RunSettles`: something eventually happens.
* `WriteApproved`: an effect at the tool boundary implies that the *stored* run
  carries its quorum, although the call is made on a copy.
* `FinalStays`, `CancelWins`, `VotesKept`, `CompletedWrote`: stated on the
  stored run, whatever interleaves.
* `EffectOnce`, `ImplementsPlanEffects`: on the laboratory, not on what the run
  believes. They need the stable key *and* that an unknown result stops the run.
* `DependenciesRecorded`: what happened builds only on what is stored; it needs
  the checkpoint after each step.
* `NoPseudoSuccess`: no answer of a tool makes a run complete whose plan does
  not lift the fault; it needs the independent reading.
* `RolledBackIsRestored`: the error code VERIFICATION_FAILED_ROLLED_BACK means
  that nothing of the plan is in force, although requests may still be on their
  way; it needs the record of answers at the boundary too.

* `FusionRespectsBoth`: a chunk both rankings prefer is fused before the other.
* `PlannerInformed`: exactly the service's runbooks and the verification rules
  reach the planner, and both control documents stay in the run, although
  pinning replaces hits in a full list.
* `NamingEnds`: the naming loop spins only for drafts in which the model itself
  numbered an earlier step with the position of a later one of the same name.
* `WiringKept`: the accepted steps and dependencies are the draft's, through
  normalisation and renaming.
* `AcceptedIffSortable`: two algorithms in two files agree.
* `UnapprovedIsSystems`: no approval, no privileged tool, compensations included.
* `UnchangedFails`: the criteria of a write fail on the readings they were made
  from. One exception is stated in the property, see below.
* `PreconditionsNeverStop`: the preconditions of a draft's plan hold on the
  observations they are checked against; they are no protection, and the
  property says so.
* `ScalingCovers`: division, rounding and the cut at 30 still give enough
  workers, and the compensation restores the number that was read.
* `OneInside`, `GatewayLoad`, `TimeoutsExplained`: they count what faults may
  cost, so that without faults they say "one", "one" and "none".
* `CallsEnd`, `Settles`: every caller gets out, the page comes to rest right.
* `IdentityMatches`, `JobsOwn`, `ForeignExplained`: stated on the page, whatever
  is in flight.

### Bounds

Two workers are enough for an old and a new owner; two jobs of one run are
needed because an approval enqueues one while the other may be requeued; a
third job or worker adds no pair of roles that two do not have. The lease lasts
one tick: an expiry can then fall between any two steps. `MaxAttempts = 2`
keeps "requeue" and "fail" apart with one attempt less than the code's three
(the liveness run and the theorems use three and any number). `MaxVersion`,
`MaxFaults`, `MaxErrors`, `MaxCancels` and `MaxApiCrashes` bound histories; they
are the only guards the code does not have, besides `Retry`, which waits for a
free job id.

The lifecycle runs start at "diagnose" after one disturbance has already
happened: a store error that requeued the job, or a crash and a lapsed lease.
Before that node a run asks nobody and writes nothing; from it on both a fresh
and a recovered worker are in play. The liveness run starts from the beginning
as well. Backoff is zero ticks in the lifecycle runs and one in the store runs.

Plan execution: the second plan lists the reversible step first although it
depends on the other one, so listed and topological order differ, and one step
has an automatic rollback while the other has none. `MaxBegins = 2` allows one
recovery or retry, at any point; the theorems need no bound.

Planning: three steps are the least with a cycle longer than two and with a
third step that takes the name of a renamed second one. Three sources with a
route of up to two documents make pinning meet a full list. ModelAccess: two
threads in one process and one in another, so that a breaker and a crash strike
two callers, or one; two crashes against a patience of two are the least that
make a request time out without a lost session. Console: one identity has both
runs and the other none, so that every run one of them leaves behind is foreign
to the other; a second log-in is needed for that, and a poll and the refresh that
follows a decision overlap.

Symmetry (workers, clients, jobs, the two approvers) is used in the safety runs
only. Deadlock is not an error: a system whose jobs have all ended stops.

### Fairness

`TickStep`: the clock runs. `ClaimStep`, `ProcessStep` and `EndStep` of each
worker: `worker_main` polls for ever, `docker-compose.yml` restarts it when it
dies (`unless-stopped`), and every call `process` makes has a timeout.
`EnqueueStep`: an API process that does not crash goes on to the next statement.
Nothing is assumed of people, of heartbeats, of store errors or of crashes. Weak
fairness suffices: no action has to be repeatedly enabled to happen.

In ModelAccess a caller that can go on does, and the gateway generates
(`Proceed`, `Tick`): threads run, `httpx` has a time-out, PostgreSQL hands an
advisory lock to the first waiter. In Console the timer ticks
(`RefreshOperations`: `setInterval`) and requests are answered, or refused, and
handled (`Conclude`), of each of three sorts some: a page in a browser has as
many connections as that needs.

### Disagreements

The four violation runs each refute one sentence of the repository, quoted in
`PROJECT.json` under `findings`:

1. A first vote between the gate's checkpoint and the last one fails the run.
   The conflict requeues the job; the next claim finds AWAITING_APPROVAL, which
   is not among the states `process` returns for, sets RUNNING and finds no
   handler for "approval".
2. A cancellation of a RUNNING run is noticed only by the next attempt, because
   the worker's copy has become stale. If there is none, the run stays RUNNING.
3. Save and enqueue are two transactions.
4. A verification reading has the same idempotency key in every attempt. If its
   answer is lost, the plan is rolled back; the next attempt is given the
   reading recorded before the rollback, passes, and completes the run. No crash
   is needed: a retry by the lead does it.

Met while modelling, and stated in the properties that hold rather than in runs
of their own:

* `docs/architecture.md:250` says `finish_job` checks the lease. It compares
  status, owner and token only; owner and token suffice for
  `ImplementsAtomicRun`.
* A restart may be planned, accepted and verified where none of its metrics were
  observed: `instances` is always observed, which counts as support
  (policy.py:48), and then no criterion compares anything with the baseline
  (model_adapter.py:698). The exception in `UnchangedFails` is this case.
* The console's "never render one tenant's cached protected state under another
  identity" (App.tsx:179) is true of what is on the page at the log-in. An
  answer of the earlier session that arrives later is rendered; the next poll
  replaces the list (`Settles`), but a load that arrives last may leave a run of
  the other tenant selected, whose jobs then give an error at every poll until
  a run is opened. `ForeignExplained` says that only such an answer does it. In
  the same way an earlier session's late refusal logs out the one after it.
* A one-character id passes the draft's schema with two characters ("-a"),
  becomes "step-a", and is refused by the plan's (schemas.py:117): the model's
  whole answer is lost and the breaker opens.

## 4. Proofs

`WorkerLoopProofs` has what the proofs about the store and about the lifecycle
share: each statement of JobTable and each step of the loop keeps the types.

The store, for every number of workers, clients, runs and jobs and any bounds:

* `StoreTypes`: `TypeOK`.
* `StoreLosesNothing`: `NoLostUpdate`. The invariant is not inductive alone: a
  writer whose copy has the stored version must also have the stored content.
  `Coherent` says so, together with `edits = 1..saves` and `version = saves`;
  an older copy cannot be saved, because its version is smaller.
* `StoreFences`: `FencingOrder`, from `Fenced`: `written[j]` is at most the
  token of the row, and a claim in memory never has a token above its row's.
  A checkpoint writes the row's own token (its guard says so), hence at least
  `written[j]`.
* `StoreImplementsAtomicRun`: every step maps to a step of AtomicRun or a
  stutter. It uses `Coherent` (a save extends the *latest* record) and `Fenced`.
* `StoreBoundsRecovery`: `RecoveryBounded`. The count is not visible in one
  state: a lapsed claim costs a fault that happened earlier. `Attended(j)` says
  that some worker at work holds the job under a running lease. `Counted` says
  that claims in memory carry the row's attempts, that absent and queued jobs
  have fewer than `MaxAttempts`, and that a claimed but unattended job has fewer
  than `MaxAttempts + faults`: that it is unattended has already cost a fault.

The lifecycle of a run, for every set of plans and approvers, every quorum and
any number of workers and jobs:

* `RunTypes`, `RunWritesApproved`, `RunCompletedWrote`: `TypeOK`,
  `WriteApproved`, `CompletedWrote`.
* `RunStaysFinal`, `RunCancelWins`, `RunKeepsVotes`: `FinalStays`, `CancelWins`,
  `VotesKept`.

They have one invariant (`RunInvariant`), because none is inductive alone: what
is stored next is what some worker holds in memory now. `Shape` says what holds
of a record anywhere, stored or copied: which nodes a decision, a write or a
vote goes with. `Sound` relates a copy to the stored run: it is not of a later
version; its decision, if it has one, is the stored one; and if it is of the
*stored* version, it differs only by the tool result or the failed verdict the
handler has not stored yet (`Follows`). A copy of an older version cannot be stored, so nothing more is
needed of it. The action properties follow from `Lawful`, which the
same case analysis proves of every step. The write itself is the delicate case:
it is made by a copy that may be stale, and `WriteApproved` speaks of the stored
run. `Sound` carries it over, since a decision made is never taken back.

Executing a plan, for every set of plans, any number of workers and any bounds:

* `PlanTypes`: `TypeOK` of PlanExecution.
* `PlanActsOnce`: `EffectOnce`, from `LabInv`: a worker knows a result only when
  the boundary has given that answer (`Sound`), a change has happened exactly
  when it has been answered (`Counts`), and a request on its way is based on
  answers (`LateBased`), which stays true since answers are never withdrawn.
* `PlanImplementsEffects`: every step maps to a step of PlanEffects or a
  stutter, from `LabInv`: what is served is based on answers, and by `Counts`
  an answer is an effect.
* `PlanRecordsDependencies`: `DependenciesRecorded`, from `RecordInv`: a worker
  about to act knows no more than the stored run (`Modest`), one that may store
  its copy knows no less (`UpToDate`), so the stored results only grow.
* `PlanNoPseudoSuccess`, `PlanRolledBackIsRestored`: `NoPseudoSuccess`,
  `RolledBackIsRestored`. Both are about what the laboratory is like *after* an
  answer, when requests nobody waits for may still arrive. `VerdictInv` has the
  two facts that no such request can undo. A compensation is asked for only
  when every step of the plan has been answered (`Allowed`), so once something
  has been undone a late request for a step is a repetition and changes
  nothing (`Settled`). And while no step of the plan lifts the fault, no reading
  has been answered "good", at any time, so no record holds one (`Honest`) and
  no worker is past a verification that passed (`Placed`).

Planning, for every set of cases, every knowledge base and table of routes, and
any limits:

* `PlanningTypes`, `PlanningNamingEnds`, `PlanningWiringKept`,
  `PlanningUnapprovedIsSystems`, `PlanningUnchangedFails`,
  `PlanningPreconditionsNeverStop`, `PlanningScalingCovers`: `TypeOK` and the
  properties of these names, from `PlanInv`: what `policy` compiles is the
  proposal made from this case's readings, and a run at the gate carries the
  compiler's decision about it. The rest is about the functions. Naming the
  steps of a draft is a fold, and `Named` says what holds after the first m
  steps: the names in use are those given, no two steps share one, and the loop
  is stuck only if an earlier id collides in the one form the loop tries. What
  the compiler accepts has no issue, hence every step has its tool, its
  compensation and its evidence, and is as written but for the risk (`Clean`).
  `UnchangedFails` then needs, tool by tool, that one of the fields a tool must
  have observed is compared with the baseline, or that the fixture's threshold
  is not met by the fault's own readings.
* `PlanningPlannerInformed`: `PlannerInformed`, from `SourcesInv`. `Sourced`
  describes the sources between two turns of the three loops of `search`: the
  routed documents first, at most `SourceLimit` sources, one per document, and
  whatever is not there for its rank is routed or pinned. That pinning into a
  full list always finds a ranked hit to put out is a pigeonhole argument
  (`Room`); it is where the proof needs `RouteAssumption`.
* `PlanningFusionRespectsBoth`: `FusionRespectsBoth`. Scores are fractions;
  `FractionSum` and `FractionTransitive` compare them without division,
  `BeforeIsOrder` shows that "a higher score, or the same and an earlier chunk"
  is a strict order, and `Places` that in a finite set with such an order the
  places "one more than there are before me" are exactly 1 to its size, so that
  sorting is what the code's `sorted` does.
* `PlanningAcceptedIffSortable`: `AcceptedIffSortable`, for graphs of any size.
  Both algorithms are compared with one notion, a *core*: steps of which each
  waits for another of them. `SearchSound` says that the depth-first search
  finds something exactly if there is a core. A step that comes up again closes
  the path to it into one (`Path`); what has been searched in vain contains its
  own dependencies and no core, and keeps doing so when a step is added whose
  dependencies are in it (`Searched`, `SearchedGrows`). `SortSound` says that
  sorting gets through exactly if there is none. The rest is that the decision
  and the plan in the record belong together also when a plan is refused
  (`IssuesInv`), and that a plan without another blocking issue has distinct
  ids and depends on its own steps only (`CodesTell`, `FaultlessPlan`); without
  that the two algorithms do differ.

These functions compute with loops over data, which are folds in the modules.
Their proofs use induction in the form of a set: a set of numbers with 0 and
with the successor of each member has them all (`SetInduction`). A fold over a
sequence is the last link of a chain of intermediate values (`FoldExists`), and
each loop has one lemma that names its chain (`RoutedChain`, `RankedChain`,
`PinnedChain` and those of PlanningProofs). The two recursions over the
dependencies are shown to have a solution first, by induction on the length of
the path and on what is left to do (`Weight`, `SearchExists`, `SortExists`): a
recursive function denotes nothing in particular until that is known.

Asking the model, for any finite set of callers in any processes and every
patience:

* `SlotKeepsOneInside`, `SlotBoundsGatewayLoad`, `SlotExplainsTimeouts`:
  `OneInside`, `GatewayLoad`, `TimeoutsExplained`. `Charged` counts callers past
  the lock without holding it and abandoned requests together: a crash turns the
  ones of its process into the others, which leaves the sum as it is, and adds
  at most the holder's request, for which it is charged itself. `Patient` says,
  while no session was lost and nobody has timed out, that what a client has
  already waited in vain plus what it may still have to wait for is at most the
  number of crashes; a client out of patience has therefore seen `Patience` of
  them.
* `SlotTypes`: `TypeOK`, from `LineInv`: those who wait for the lock are ordered
  by who came first, whoever joins, is served, crashes or loses a session in
  between; and how often a caller has asked goes with where it is, so that it
  never asks a third time.

The console, for every set of users and runs:

* `PageTypes`: `TypeOK`, which also says that a page that is busy or loading
  has the request in flight whose handler ends that. `Waits` is the stronger
  fact that is inductive: the buttons are disabled exactly as long as one
  request that enables them is in flight, and there is one such request only;
  hence also at most one unanswered log-in or decision, which is what
  `Counted` needs to bound sessions and versions by what users and workers did.
* `PageIsOnePersons`, `PageKeepsJobsApart`, `PageExplainsForeign`:
  `IdentityMatches`, `JobsOwn`, `ForeignExplained`. The invariant says what the
  requests in flight may bring: an answer is about what its sender may see
  (`Honest`), whoever is logged in when it is handled. `Opening` says that while
  a page that found a token in storage asks whose it is, nothing else is in
  flight: that is why the name it then shows is that token's.

All proofs use only the named assumptions of the modules (constants have the
types their comments give, `None` is none of them, a worker is not a client).
They do not depend on the bounds being small. The assumptions that say more than
a type, and why the code meets them:

* `ListAssumption`: an approved plan has a step; the compiler rejects an empty
  one (EMPTY_PLAN, policy.py:32).
* `CasesAssumption`: a case is what may come in. Rankings list chunks, each
  once; a draft has at most as many steps as the schema admits (model_adapter.py:49),
  a plan proposed whole has legal steps (the schema rejects others), and the
  fixture answers about the laboratory, so on its readings.
* `ChunksAssumption`: chunk ids are distinct and have a document.
* `RouteAssumption`: no service is routed to the rules about approval (SEC-07),
  and a service's documents fit into the sources together with the two control
  documents, as do the control documents alone. `SERVICE_RUNBOOK_ROUTE`
  (agent.py:43) has at most two documents a service, and the limit is six. That the
  control documents alone must fit came out of the proof: a service without a
  route gets nothing but ranked hits, and with room for one source the second
  pin would put out the first.
* `ConsoleAssumption`: at least one log-in is counted, since a token in a page's
  storage is the token of a log-in.
* `TextAssumption`, `OneCharacterAssumption`: the words the server writes into
  plans are texts, and digits are single characters.

`PreconditionsNeverStop` speaks of readings that are not negative: "at least
half of what was observed" is not met by a negative reading itself. Counts, ages
and rates are not negative.

Model-checked only are liveness (`JobsEnd`, `RunSettles`, `CallsEnd`, `Settles`),
which is out of the prover's reach, and the four disagreements, which are
counterexamples.

## 5. What is left

* **Larger compositions.** Planning, AgentRun and PlanExecution meet at the
  plan: AgentRun takes any plan that is accepted, PlanExecution any plan whose
  steps can be ordered, and `AcceptedIffSortable` and `WiringKept` say that this
  is what planning delivers. One module with all three has more states than it
  would have news.
* **Embedded worker.** The thread that does not come back after a store error.
* **Capabilities.** Their expiry and the limit on their uses.

### Not modelled

Signing and parsing of tokens are cryptography and encoding. Splitting of
texts, embeddings and BM25 are arithmetic on text without a reference to check
them against. `evaluation.py` scores finished runs and keeps no state a run
depends on; the metrics count. `quickstart.py`, the other scripts and the
compose file start processes: the compose file's restart policy is the ground of
a fairness assumption. The views of the console only render.
