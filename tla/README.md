# A verification project for agent-proof

agent-proof evaluates customer-support agents: a queue hands evaluation jobs to
workers, a worker runs an agent version against a seeded benchmark task, stores the
trace of everything that happened, scores the run against the task's contract, has
judges give verdicts, and two runs can be compared to find the first event at which
a regressed candidate left its baseline. This directory models that system in TLA+,
checks it with TLC on small instances, and proves with TLAPS, for all sizes, that the
components keep their safety properties and that two detailed specifications, the pipeline
and the Postgres store, implement their abstract ones.

    tlc -config pipeline_serve.cfg MCPipeline       # model-check one run
    tlapm EvaluationPipelineProofs.tla              # check the proofs of one component

`PROJECT.json` lists the runs, the theorems, for every definition the source lines
it stands for, and for every property a mutant of the code that breaks it. The
modules with proofs are those whose names end in `Proofs`, and `SequenceLemmas`.

## 1. The system

| Component | State | Operations | Interacts by |
|---|---|---|---|
| Job queue (`backend/app/queue.py`) | Redis stream, consumer group's pending list, dead-letter stream | enqueue, claim, ack, retry_or_deadletter | called by scripts (enqueue) and workers |
| Worker (`runner/worker.py`) | one job in hand, its attempt's locals | claim_and_process_one, run_worker_loop, serve_forever | awaits Redis, the store, the model and the judges |
| Store (`backend/app/store.py`, `postgres_store.py`, `models.py`) | five tables: versions, runs, executions, trace events, verdicts | create, get, record_result, append, list | called concurrently by workers and API requests |
| Platform API (`backend/app/main.py`, `schemas.py`) | none | one store call per route | HTTP |
| Agent runner and trace (`runner/runner.py`, `tool_proxy.py`, `backend/app/trace.py`) | conversation, step and attempt counters, trace in memory | run_task, invoke, append, to/from_storage | calls the model client and the tools |
| Support tools (`tool_environment/`) | orders, refunds, replacements, tickets of one run | ten operations in five services | called through the traced proxy |
| Contract scoring (`judges/contracts.py`, `execution_scoring.py`) | none | score_run, score_execution | reads trace and final state |
| Judges (`judges/`) | none | select_judges, run_judges, parse answers, agreement, gold comparison | call a model; the worker stores their verdicts |
| Comparison (`backend/app/comparison.py`, `redaction.py`) | none | compare_runs, _first_divergence | four kinds of store reads |
| Mutations, validators (`benchmark/`) | none | compose_mutations, validators | build task variants |
| Frontend (`frontend/src`) | the tab and its request, per-page React state | follow a link, fetch, show | API |
| Load test (`scripts/load_test.py`) | executions not seen finished, a stop event | seed, poll, stop, gather | runs workers in its own process |
| Demo (`scripts/_demo_scenario.py`, `run_demo_task.py`) | none | scripted agents on three seed tasks | runner, scoring, store |
| Migrations, serialization | - | schema, JSON | - |

What is hard about it:

* A job is handed over between Redis, a worker's memory and Redis again in separate
  calls; a worker may die between any two of them.
* A trace is stored event by event, each in a transaction of its own, before the
  result; attempts that fail half way leave rows, and the same execution may have
  several jobs.
* Only the unique key `(execution, sequence_no)` keeps two attempts apart, and the
  status check of `record_result` holds no lock.
* A commit may succeed and its answer be lost.
* A comparison reads runs and traces in separate transactions while workers write.
* The three ends of `run_task` (answer, step limit, exception) and the numbering of
  retries are easy to get wrong, and everything later trusts the trace.
* Several services guard one order separately.
* A panel of judges answers, is parsed, validated and stored in separate steps, any of
  which may fail, and what is left is read by others as the panel's opinion.
* A page of the frontend asks, and the answer comes when it comes; meanwhile tabs
  change and links are followed.
* A refused call counts as an attempt of what a contract expects; only the final state tells it
  from a successful one.

What makes each component correct, in one line: a job is in exactly one place and
ends done or dead-lettered after at most `max_attempts` attempts (queue); what is
stored of an execution belongs to one attempt and a result has its whole trace
(worker); every call behaves as one atomic step (store); a trace accounts for the
run and replays to the final state (runner, tools); passed means that the trace shows
it (scoring); a regression is always attributed, to complete traces and to something
the agent did (comparison), and its link leads to the event (frontend); a composed
variant can still be passed, and only by the right amount (mutations); a verdict is
what the judge's model said, and disagreement is never averaged away (judges); what the
load test counts is stored for good.

`PROJECT.json` lists the hazards one by one, at their lines, with the properties
that watch them.

Two places where the code does not do what the repository says, though no run is about them: the
PostgreSQL adapter is to replace the in-memory store "without changing API contracts" (`store.py:3-5`),
but refuses an event whose id was used before, at another place of a trace or for another execution, with
the 409 of a duplicate sequence number (`postgres_store.py:116-122`); and the removal of a customer is to force
"inference from the order" (`benchmark/mutations.py:155`), but two seed tasks expect a customer to be
looked up who owns no order that the request names: `support_order_customer_mismatch_001`, whose order is
another customer's, and `support_ticket_escalation_001`, which has none.

Also worth knowing, though nothing in the repository says how it should be, so that no property
is stated: a refund of zero or less passes (`services.py:136`) and blocks the real one; an
empty dict in `expected_final_state` compares nothing (`contracts.py:98`); a run that ends in a
ModelError leaves no trace in the store (`runner.py:128`); a queue entry that cannot be parsed
raises out of the worker's loop and stays pending (`worker.py:81`); a conflicting amount may meet
the total that a boundary shift produced (`mutations.py:90`); `get_judge_verdicts` has no
ORDER BY (`postgres_store.py:167`), while the in-memory store keeps the order of insertion - every
reader counts labels or shows a list.

## 2. The modules

```
 EvalQueue ---- EvaluationPipeline ---- MCPipeline
                  |      \-- LoadTest ---- MCLoadTest
                  |              \---- EvaluationPipelineProofs
                  \-- implements JobLifecycle
 StoreSchema -- PlatformStore (one step per call)
       \------- PostgresStore (sessions) -- implements PlatformStore -- MCStore
                       \---- PostgresStoreProofs
 JudgePanel ---- MCJudges
       \---- JudgePanelProofs
 SupportTools -- TaskContract -- AgentRunner -- MCRunner
                                  |  \-- PairedRuns -- TraceReplay -- MCPaired
                                  |         |             \---- PairedRunsProofs
                                  \-- AgentRunnerProofs -----------/
                       Divergence ----------/
                          |  \-- Comparison -- MCComparison
                          |            \---- ComparisonProofs
 SeedTasks -- Mutations --+-- DemoScenario -- MCMutations
 TaskContract --/                   \---- MutationsProofs
 (instantiated for each task)
 SequenceLemmas (used by AgentRunnerProofs and JudgePanelProofs)
```

**EvalQueue** - the stream as a sequence of messages (a message's id is its place),
`delivered` as the group's cursor, the pending set and the dead-letter stream.
`Claim` is XREADGROUP `>`: only new entries, so a pending message is never read
again. `Exhausted`, `Retried` and `DeadLetter` are the parts of
`retry_or_deadletter`.

**EvaluationPipeline** - composes queue, workers and what they see of the store.
Each await of `claim_and_process_one` is one action per worker: `ClaimJob`, `RunTask`,
`AppendEvent` (or `RejectEvent`, the 409), `ReadStatus` and `CommitResult` (the two
statements of `record_result`), `RunJudges`, `AppendVerdict`, `AckSuccess`, and after an
exception `AckFailure`, then `GiveUp` or the sleep and `Retry`. `Raise` is any
exception on the way. A commit may take effect and still make the worker fail (the
answer was lost). `Crash` ends a process at any point, `Restart` brings one
back. Rows and results carry the id of the message whose attempt wrote them; that
stands for their contents, and is what makes a mix of two attempts visible. `done`, `lost` and `crashes` are history variables.

**LoadTest** - how the processes around the workers start and stop: either some caller
runs `run_worker_loop` in each (`RunLoop`, and `StopLoop` when a claim found nothing),
or the load test's driver seeds, starts workers, polls (`Poll`), sets the stop event when every execution was seen finished or its deadline
passed (`AllFinished`, `Deadline`), and gathers. Its workers look at the stop event
between claims and survive an exception (`Fail`, which is the pipeline's `Crash`
followed by its `Restart`). Every step of it is one of the pipeline or leaves the
pipeline's variables alone, so the pipeline's invariant carries over.

**JobLifecycle** - the promise to each job: queued, running, between attempts, then
done, or dead after attempts 1..max.

**StoreSchema / PlatformStore / PostgresStore** - tables and calls; the abstract
store in which a call is one step (which is also the code of the in-memory
`PlatformStore`); and `PostgresStore`, in which each method is a session of SELECT,
INSERT or UPDATE, COMMIT under READ COMMITTED. A statement that collides with an
uncommitted unique key or row waits; a conflict with a committed one is an
IntegrityError; a connection may break before a commit or after it (`Faults`).

**JudgePanel** - one execution after another is judged: `Evaluate` is a judge's answer
and `parse_judge_response` (an answer is a sequence of lines of the kinds its three patterns
tell apart), `StoreVerdict` the validation and the insert, `Interrupt` a store that fails.
`Consensus`, `Disagreement`, `Pairs`, `GoldAgrees` and `Banner` are the readers: agreement.py,
gold.py and the judge results page. In the pipeline the same steps appear as
`RunJudges` and `AppendVerdict`, without the contents.

**SupportTools** - the services as functions of (state, call): `Outcome` (ok or the
class of the error), `Effect`, `After`, `Returned`. An argument is a field of the call; a
call whose fields are not what the method takes does not bind (`Binds`) and ends in TypeError.

**TaskContract** - `score_actions` and `score_execution`. The nested
`expected_final_state` is the set of its leaves, so that containment is inclusion.

**AgentRunner** - `run_task`: `Request`, `Retry`, `ModelDown` and `ModelFails` (the two
ways an exception gets out), `Answer`, `AskForTools`, `Invoke` (one call through the
proxy), `StepLimit`, `ScoreRun`. The model is any choice of answers and calls from
small sets, so every scripted or reference agent over them is covered. The
environment, the conversation and the full trace are state.

**Divergence / Comparison / PairedRuns** - `Divergence` holds the pairing and
attribution operators over redacted traces. `Comparison` is `compare_runs` read by
read, interleaved with workers that create executions, store events and record
results. `PairedRuns` runs `AgentRunner` twice on one task, stores both, and compares:
it relates tools, scoring, redaction and attribution.

**TraceReplay** - what follows an attribution: the comparison page's links (`View`), the
tab bar (`OpenTab`, `LeaveTab`; a page that is shown again mounts anew and asks again),
the page of events that the route returns (`Page`), the replay page's form, its answers and
failures (`Submit`, `Arrive`, `Fail`). And `Trace.from_storage` over the stored rows.

**SeedTasks / Mutations** - the ten seed tasks as records (the words of the request
that mutations look for, in order; the seeded state; the contract), and
`compose_mutations` over them. A mutation is the set of tasks it can produce, one for each
draw of its random generator; the empty set is its refusal. `Named`, `Anonymous` and `Settled`
are their parts: whom the request names, the request without the name, the final state at another
amount. `Run(t)` instantiates
`TaskContract`, and with it the services, for a task: that is how a variant is solved, and
`States(t, calls)` is the support state after each of a sequence of calls.
`ValidVariant` is `validate_variant`.

**DemoScenario** - the demo's scripted agents as sequences of calls, played with the
services on the seed tasks and on every variant of them, scored, and compared as
`GET /comparisons` would; and the reference agent, which makes a task's expected calls
with the contract's arguments only.

## 3. The runs

Passing runs:

| Run | Instance | States | Shows |
|---|---|---|---|
| `pipeline_serve` | 2 workers, 2 jobs for one execution, 2 attempts, traces of 1-2 events, judges, 1 death | 219,396 | safety of the pipeline, refinement of `JobLifecycle`, settling |
| `pipeline_loops` | 2 workers, 2 executions with a job each, 2 attempts, 2 exceptions | 743,727 | `run_worker_loop` ends, and when all have ended nothing is left; in the load test an exception strands no job but its own, the driver reports, and what it counted is stored |
| `postgres_store` | 3 requests, 2 contents, 2 places in a trace, 3 event ids, 3 results, faults; symmetry in the requests | 741,300 | `PostgresStore` implements `PlatformStore` with a key on event ids, and sessions never wait in a circle |
| `judge_panel` | 2 executions, every answer of up to 3 lines out of 8, the requested answer with any fourth line | 214,583 | parsing, panels cut off, agreement |
| `runner_task` | 2 steps of up to 2 calls out of 14, 1 retry | 876,946 | trace, conversation, retries, exits, status, and the services over sequences of calls |
| `comparison_live` | 2 tasks in both runs, a duplicate execution | 772,510 | reads that interleave with workers |
| `paired_runs` | 2 steps of one call out of 5, 1 retry, for both runs; pages of 5 events | 257,076 | attribution over all pairs of runs, the way to the blamed event, traces read back |
| `mutations_compose` | all 10 seed tasks, up to 4 mutations out of 7, draws 1 and 200 | 65,465 | variants stay solvable and guarded, validation, the reference agent on them |

Why the bounds are enough. Two workers and two jobs for one execution give every
race for a trace's first row; a third would only repeat it, and the proofs cover any
number. Two attempts distinguish first, retried and last; two events distinguish the
first, the last and a partial trace; one death is enough to lose a job, and the
proofs cover any number. Three requests to the store allow two that race and one that
has committed; each unique key has two values. In the runner, two steps distinguish
the last step from an earlier one, and one retry the last attempt from an earlier
one; four calls allow a refund, its repetition, and a change before and after. Of the
fourteen calls each is wrong in its own way or legal. In the comparison two tasks make
the loop continue after a regression, and two events make a trace incomplete. Four mutations
allow any pair with another before and after; the draws are the smallest, which makes
an old forbidden amount the new total, and one that two mutations can share. A page of
five events is shorter than most traces of the paired runs, so that attributions fall on and
beyond it. Three lines allow every order of the three fields, a repeated and a missing one;
the fourth line of a well-formed answer is whatever a rationale may go on to say; two
executions give a task up to four verdicts, with ties and pluralities. An exception in the load
test strands a message at a claim or an ack, or loses a job at a retry: with one, the other job must
still be finished, and two can hit both jobs or the two ends of one.

`CHECK_DEADLOCK FALSE` is set where the system may stop: all requests answered, a run
scored, a composition finished, all executions judged, all workers dead or returned, the load test's
report printed. What deadlock checking would show is stated instead: by the liveness properties of
the pipeline, and for the store by `SomeCallProceeds`.

Runs that find a violation, each a disagreement between the code and what the
repository says of it:

* `pipeline_lost` - `queue.py:3-6` says that a worker that dies mid-job does not
  silently lose it. `retry_or_deadletter` acks first and writes the retry or dead
  letter later, up to 30 s later: a death in between loses the job.
* `postgres_finalize` - `docs/data-model-invariants.md:23` says finalisation is one-way
  and enforced. Two overlapping `record_result` calls both pass the check and the
  second overwrites the first. (Workers cannot do this to each other, see the theorem
  `FinalMeansFinal`; two API callers can.)
* `replay_beyond_page` - `docs/roadmap-issues-gaurav.md:144-146` says of the trace replay that it
  highlights the first divergence: "a regressed run can be replayed and the first divergence is
  visually highlighted". The page asks for the default 200 events (`main.py:112`), so the link to
  a divergence beyond them silently selects the first event (`TraceReplayPage.tsx:78-79`). A
  response may ask for any number of tools, so 20 steps can leave a longer trace.
* `paired_blame` - `README.md:17` says that a regression is attributed to a changed tool
  choice, an invalid argument, a tool failure, a policy violation or early termination.
  Any difference of event types is called `wrong_tool`: a candidate that answers
  early, since a finished trace ends in an answer or an error and is never a prefix
  of another, and a retry after a transient model failure, which shifts the events.

Some consequences of the code that contradict nothing but are worth knowing, all
visible as checked properties. Once an attempt has failed with an event stored, no
retry can finish the execution, for each is refused at event 0 until the job is
dead-lettered (`AbandonedTraceNeverFinishes`). Since the tools are deterministic and
seeded, a divergence is never the outcome of a tool (`OnlyTheAgentDiverges`), so
of two runs of one task by the same tools `tool_error` only ever names the step limit.
The early stop of `run_worker_loop` that `load_test.py:4-8` works around loses no work:
a worker in its back-off enqueues the retry itself and goes on to claim it
(`DrainedOnReturn`); what is lost by the early stop is only parallelism. An
execution may be counted as completed by the load test whose job is still to be retried and
in the end dead-lettered, but its stored result and trace no longer change
(`CompletedIsStored`). Of the seed tasks the reference agent fails exactly those
that refund, cancel, replace or escalate, as its docstring says
(`ReferenceAgentFailsByState`).

### Fairness

* `EvaluationPipeline`: weak fairness of each worker's `Step`. Every await of a live
  worker returns or raises (Redis and Postgres clients, a model call; `run_task` is bounded by
  its step limit), and the back-off sleeps are at most 30 s. There is no fairness
  of `Restart`: `docker-compose.yml` sets no restart policy, and nothing reclaims a
  dead worker's message, so liveness promises nothing to a job whose worker died.
* `LoadTest`: the same, for each worker's step in either program, here with `Restart`, for
  the worker's own loop goes on after an exception; and weak fairness of the driver, whose loop
  polls, sleeps and polls again. There is none of `Deadline`: that the driver reports is shown without
  its help, unless some job cannot be finished.
* The other modules state safety only.

### Assumptions of the models

* Workers are the only writers of the executions whose jobs are in the queue; that is
  how the scripts and the compose file use the system. What other callers can do is
  `postgres_finalize`.
* That `PostgresStore` implements `PlatformStore` is claimed of callers that do not overlap two
  `record_result` calls on one execution (`SerialResults`), which the worker's trace writes ensure;
  `postgres_finalize` does not assume it. The id of a trace event is the caller's choice
  (`schemas.py:149`) and a primary key of Postgres (`models.py:93`); the two stores differ there, and
  `KeyedEvents` says which of them the abstract store is. With it, as in `postgres_store`, an id that
  is already stored is refused, whatever the callers send. Without it, the abstract store is
  the in-memory one, and Postgres implements it for callers that send no id twice
  (`FreshEventIds`), which is proved (section 4). Workers are such callers: every event of a `Trace`
  has a new uuid4 (`trace.py:84`).
* What only a real Postgres refuses is left out: integers of more than 32 bits, text with a NUL.
* A Redis error leaves the handler (nothing catches it) and ends the process: `Crash`. Under
  the load test it ends only the turn of the worker's loop.
* An execution's panel is judged once: a retry of its job is refused at event 0, before judging
  (`OneAttemptPerTrace`, `VerdictsJudgeTheResult`).
* In `TraceReplay` the runs of a comparison are complete when its links are followed; the
  form is asked for one of the two executions, which have traces.
* The tasks' data is well formed: orders have their fields, so no service raises
  KeyError, as in all seed tasks; arguments that are present have the type that the services'
  signatures give them (`IsCall`, in `RunnerAssumption`; only the amount of a refund matters). A
  seeded ticket may have any status of `TicketStatus`.
* In `PairedRuns` the contract names no redacted argument (`ContractIsVisible`), which
  holds of every seed task.
* A run's trace and a judge's answer are finite sequences, and a run has at least one event
  (`ComparisonAssumption`, `PanelAssumption`). The made-up customers of a mutation are none of the
  tasks' own (`MutationAssumption`): CUST-900 to CUST-999 against CUST-001 to CUST-011.

## 4. What is proved

Each module of proofs holds for every value of the constants that satisfies the named assumptions
of the modules it extends: any number of workers, jobs, executions, requests, calls, steps, events,
judges, answers, mutations and crashes. The theorems without a property of a run are the inductive
invariants and results of their own, among them `DemoRegresses`, about the demo's scripts, which no run
repeats.

**EvaluationPipelineProofs** (`QueueAssumption`, `PipelineAssumption`)

| Theorem | Statement |
|---|---|
| `TypeCorrect` | `Spec => []TypeOK` |
| `Inductive` | `Spec => []IInv` |
| `TraceOfOneAttempt` | `Spec => []OneAttemptPerTrace` |
| `ResultHasItsTrace` | `Spec => []ResultBacksTrace` |
| `VerdictsAreOnTheResult` | `Spec => []VerdictsJudgeTheResult` |
| `FinalMeansFinal` | `Spec => FinalExecutionFrozen` |
| `AbandonedStaysUnfinished` | `Spec => AbandonedTraceNeverFinishes` |
| `PlaceInductive` | `Spec => [](QueueShape /\ PlaceInv)` |
| `OnePlace` | `Spec => []JobInOnePlace` |
| `PipelineImplementsLifecycle` | `Spec => ImplementsLifecycle` |
| `CompletedForGood` | `LoadSpec => []CompletedIsStored` |
| `LoopDrains` | `LoadSpec => DrainedOnReturn` |

None of these properties is inductive. `ResultBacksTrace`, for instance, is kept by
`CommitResult` only because the committing worker has stored a whole trace which
nobody else has added to. The inductive invariant of the store's side has three parts:

* `QueueShape` - types, each busy worker holds a delivered message within its bounds
  (`HeldInv`), and no two hold the same one (`ExclusiveInv`): a claim delivers a new id,
  and a retry is a new message.
* `AttemptInv` - what the store holds of an attempt, by the worker's place: before its
  first append no row is its own; after k appends the trace is exactly its first k
  rows and there is no result; after the commit the result is its own, and the
  verdicts are as many as its counter says.
* `StoredInv` - for each execution: a trace is a prefix by one message, a result has
  its whole trace, without a result there is no verdict, and verdicts are the judges
  in order, on the recorded attempt.

The heart is `SoleWriter`: two workers that have both stored rows for one execution
would both own its row 0, so they hold the same message, so they are one. That is the
unique key acting as a lock, and what `OthersAttempt` uses to show that no step of a
worker disturbs another's attempt. `FinalMeansFinal` and `AbandonedStaysUnfinished` are action
properties and follow from `IInv` by cases on the step.

The queue's side is `PlaceInv`. A message is in one place: undelivered, pending, with the worker
that hands it over, acked after success, or lost (`Apart`). Of a job's messages only the latest is in
any of these, and it is in one unless the job has a dead letter (`LiveInv`), of which there
is at most one (`DeadInv`). The attempts of a job are numbered from 1 without gaps (`AttemptsInv`), and
a worker that works on a message has it pending (`HolderInv`). From it follow `OnePlace` and the
refinement: each action is a step of `JobLifecycle` of one job, or leaves every job where it is.

A step of the load test is a step of the pipeline or leaves its variables alone (`LoadStep`), so
both invariants carry over. An execution leaves the driver's list only when it has a result,
which `FinalFrozen` keeps (`StepSeen`). For `run_worker_loop`, `LoopInv` says that nothing is lost
and that every pending message is held by a worker whose loop still runs: so when all have
returned nothing is pending, and as the last to return did so on an empty claim nothing is
undelivered either.

**PostgresStoreProofs** (`SchemaAssumption`)

| Theorem | Statement |
|---|---|
| `SessionTypes` | `Spec => []SessionTypeOK` |
| `OneIdPerContent` | `Spec => []OneVersionPerContent` |
| `ResultsStay` | `SerialResults => (Spec => FinalizationIsOneWay)` |
| `SessionsImplementStore` | `SerialResults /\ (FreshEventIds \/ KeyedEvents) => (Spec => ImplementsPlatformStore)` |

`IInv` is `Shape`, `SessionInv` (what a session knows at each of its points: the row it has checked,
the reply it has read), `ExclusiveInv` (two flushed statements never collide, since the second
waits) and `UniqueContent`. The checks that a session made before its statement still hold when
it commits: rows are never deleted, and what could collide is locked by the flushed statement. A
COMMIT is therefore the abstract call, and every other statement a stutter. The one check that
nothing protects is that of `record_result`: `SerialInv`, which keeps `~Finalized` true between the
check and the commit, needs the callers of `SerialResults`. Where the abstract store
has no key on event ids, `FreshInv` says that the events stored and the events on their way have
different ids, so that only the key of a trace's places can refuse an INSERT. The hypotheses are not idle:
without `SerialResults` `FinalizationIsOneWay` is false (`postgres_finalize`), and without the other,
`ImplementsPlatformStore`: an append with the id of a stored event is refused. The first is what `FinalMeansFinal` and
`TraceOfOneAttempt` say that the workers do.

**ComparisonProofs** (`ComparisonAssumption`)

| Theorem | Statement |
|---|---|
| `ComparisonTypes` | `Spec => []TypeOK` |
| `WholeTraces` | `Spec => []AttributionOnWholeTraces` |
| `VerdictForGood` | `Spec => []VerdictStands` |

`IInv` is `WorkersInv` (what is stored is a redacted prefix of the run's trace, all of it once a
result is there), `SeenInv` (what was read is older than what is stored, and differs from it only
where there was no result yet), `PhaseInv` and `VerdictInv`. A regression has read two results, so
the traces that are read afterwards, in other transactions, are whole and no longer change.

**AgentRunnerProofs** (`ToolsAssumption`, `RunnerAssumption`)

| Theorem | Statement |
|---|---|
| `RunTypes` | `Spec => []TypeOK` |
| `EveryEventHasItsCause` | `Spec => []EvidenceChain` |
| `TraceSaysHowItEnded` | `Spec => []EndOfTrace` |
| `RefundedOnce` | `Spec => []MoneyMovesOnce` |
| `TraceIsCompleteRecord` | `Spec => []ReplayReproducesState` |
| `PassIsEarned` | `Spec => []PassedByItsTrace` |
| `RequestsAreInformed` | `Spec => []InformedRequests` |

The invariant `RunInv` has eight parts: `ShapeInv`, `AskedInv` (while the model is asked the
trace ends in a request and its retries), `ChainInv`, `EndInv`, `RefundInv` (a refund in the trace is the
only one of its order and on the books, for no more than the total of an order that is delivered), `ReplayInv` and `TalkInv` (the replay of the trace is the
environment; the conversation told by the trace is the one in memory), `ScoredInv`. Replay and
conversation are recursive functions on the length of the trace. That one more event continues the
replay, and that it agrees with the old one on every prefix, is shown with `SequenceLemmas`:
two recursive functions that step alike are equal, for their least difference would have a
predecessor.

**JudgePanelProofs** (`PanelAssumption`)

| Theorem | Statement |
|---|---|
| `Inductive` | `Spec => []PanelInv` |
| `PanelsInOrder` | `Spec => []PanelIsStoredInOrder` |
| `VerdictsAreTheModels` | `Spec => []VerdictIsTheModels` |
| `ReadersAgree` | `Spec => []DisagreementSurfaces` |

`PanelInv` is the panel's shape by phase, what is stored of each execution, and from which answer.
That the parser takes the label, the confidence and the rationale from a well-formed answer whatever follows
it is proved for answers of any length. `ReadersAgree` is about any number of verdicts: the numbers of
verdicts per label add up to the panel's, so that agreement is 1, no pair disagrees and the banner
stays away exactly when one label has them all (cardinalities of disjoint sets).

**PairedRunsProofs** (in addition `ContractIsVisible`, `PageAssumption`)

| Theorem | Statement |
|---|---|
| `PairInductive` | `PairSpec => []PairInv` |
| `RegressionsAreAttributed` | `PairSpec => []EveryRegressionIsAttributed` |
| `BlameIsTheAgents` | `PairSpec => []OnlyTheAgentDiverges` |
| `ReplayInductive` | `ReplaySpec => [](PairInv /\ PageInv)` |
| `LastQuestionAnswered` | `ReplaySpec => []ShownAnswersLastQuestion` |
| `StoredTraceReadsBack` | `ReplaySpec => []StorageRoundTrip` |
| `ReplayLeavesThePair` | `ReplaySpec => PairSpec` |
| `LinksLandOnDivergence` | `ReplaySpec => []LinkLandsOnDivergence` |

The argument is lockstep: of two runs, each satisfying `RunInv`, whose redacted traces agree up to
some event, the replayed states agree there too, because no service looks at an argument
that is redacted, so the next outcome of a tool is the same. Hence a difference is first in
something that the agent or its model did, and two traces without a difference end in the same
state and are scored alike, which makes a regression without attribution impossible.

**MutationsProofs** (`MutationAssumption`)

| Theorem | Statement |
|---|---|
| `ComposedInductive` | `Spec => []ComposedInv` |
| `MutationTypesOK` | `Spec => []TypeOK` |
| `RefundsAreGuarded` | `Spec => []RefundGuardedAtItsLimit` |
| `CompositionsAreValid` | `Spec => []ComposedVariantsAreValid` |
| `VariantsAreSolvable` | `Spec => []StillSolvable` |
| `RefusedAttemptsShow` | `Spec => []ReferenceAgentFailsByState` |
| `DemoInductive` | `Spec => []DemoInv` |
| `DemoRegresses` | `Spec => []DemoRegressionIsReal` |

A composition may be of any length. `ComposedInv` says what it cannot leave: the seed's contract
with the total of a fully refunded order moved, wherever that total occurs, and some made-up customers
whose look-up is forbidden (`FormInv`); and what words the request is made of, what names the
mutations have, and what they preserved (`TextInv`, `NameInv`, `PreservedInv`). There are then ten
forms of tasks with a total and a set of customers as parameters, and `VariantsAreSolvable` follows the
expected calls through the services: reads leave the seeded state (`ReadsFirst`), then one call
acts and the ticket is closed (`ActsAndResolves`), and the last state meets the contract.
`RefusedAttemptsShow` follows the reference agent the same way: each task whose contract leaves an
argument out has a leaf of the final state that only the refused call writes (`Undone`), which
therefore stays unwritten (`StaysUndone`), although the call counts as an attempt (`AttemptsCount`).

`DemoRegresses` adds `MovedInv`: the total of the demo's order is 4200 unless the boundary mutation
was applied, and more if it was. With 4200 the correct script is the solution and passes; with more
it refunds the wrong amount (`MovedRefundFails`); the regressed script never looks the order up and fails
either way (`RegressedFails`). A flattened trace begins with the turns of its first two calls
(`TraceBegins`), so the two stored traces agree up to their sixth event, the tool calls at the seventh
are of different operations, which are not redacted, and that is where the blame falls
(`BlamedOnTheSecondCall`).

## 5. Only model-checked

* Liveness (`JobSettlesUnlessItsWorkerDies`, `EveryJobIsFinished`, `LoopsTerminate`) and `SomeCallProceeds`, which
  is about ENABLED: out of the prover's reach.
* The properties of the four violation runs, which are false; `FinalizationIsOneWay` is proved
  under the hypothesis that makes it true.

## 6. Not modelled

* Token counts, latencies, costs, timestamps, wording of messages.
* The wording of the judges' prompts, rubric versions, and the gold file (one JSON read or write that
  refuses a second label for a task).
* The load test's percentiles and throughput, what the scripts print, HTTP transport.
* That a variant is a function of its seed (a test's matter), and the wording of requests
  beyond the words that mutations look for.
* Of the frontend: how things are displayed, stepping through a trace by hand, and the forms of the
  comparison, task and judge pages, which fetch as the trace page does.
* The API's filters, `limit` and `offset` other than the default, and the validation of requests other
  than verdicts and results: they select from what is stored or refuse before anything is.
* `versioning.py`: a content hash is equality of content; that SHA-256 and a canonical JSON make it so is
  not a matter of states.
* Serialization (field-by-field JSON), migrations (generated, run once), `stop_after` of the
  worker loops (tests only).

## 7. Plan

Done: the queue and the pipeline, the store, the runner with tools and contract, comparison and
paired runs, seed tasks and mutations, the load test, the judge panel, the trace replay, the
demo and the reference agent; the proofs of every safety property of section 4 and of both refinements.

Next:

* The pipeline over `PostgresStore`'s sessions in place of its own view of the store, to justify
  that view by refinement; for TLC the state space is the obstacle, and
  `SessionsImplementStore` already is half of the proof.
