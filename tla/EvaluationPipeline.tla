-------------------------- MODULE EvaluationPipeline --------------------------
(***************************************************************************)
(* Workers (runner/worker.py) that claim jobs, run the agent, persist its  *)
(* trace, result and verdicts through the store, and ack or retry the job. *)
(* Every await of claim_and_process_one is a step, so the workers          *)
(* interleave at Redis and Postgres calls and may die between any two.     *)
(*                                                                         *)
(* The store is what the workers see of PostgresStore: a trace row is      *)
(* UNIQUE (execution, sequence_no), record_result reads the status in one  *)
(* step and commits in another.  A row or a result is identified by the    *)
(* message whose attempt produced it, which stands for its contents.       *)
(***************************************************************************)
EXTENDS EvalQueue

CONSTANTS Workers,
          Executions,
          ExecutionOf,   \* job -> the execution it was enqueued for
          MaxTrace,      \* bound: events in one run's trace
          Judging,       \* is process_job given a judge_model_caller?
          MaxCrashes     \* bound: deaths of workers

ASSUME PipelineAssumption ==
  /\ ExecutionOf \in [Jobs -> Executions]
  /\ MaxTrace \in Nat \ {0}
  /\ Judging \in BOOLEAN
  /\ MaxCrashes \in Nat

VARIABLES pc, msg,       \* per worker: its place in the handler, its message id
          next, len,     \* per worker: events stored so far, events to store
          trace,         \* per execution: trace_events rows
          result,        \* per execution: the recorded result, or NoResult
          verdicts,      \* per execution: judge_verdicts rows, in order
          done, lost,    \* history: ids acked after success; ids that only a
                         \* dead worker's memory held
          crashes

workerVars == <<pc, msg, next, len>>
storeVars == <<trace, result, verdicts>>
historyVars == <<done, lost, crashes>>
vars == <<queueVars, workerVars, storeVars, historyVars>>

PC == {"idle", "run", "append", "record", "commit", "judge", "verdict", "ack",
       "failed", "deadletter", "backoff", "down"}
Handling == PC \ {"idle", "down"}   \* between claim and the last call
Handover == {"deadletter", "backoff"}           \* acked, not yet written again
JudgeNames == <<"policy", "response_quality">>   \* select_judges, in its order

NoResult == [by |-> 0, len |-> 0]
Rows(id, n) == [seq : 0..(n - 1), by : {id}]
Exec(id) == ExecutionOf[stream[id].job]

WorkerTypeOK ==
  /\ pc \in [Workers -> PC]
  /\ msg \in [Workers -> 0..delivered]
  /\ next \in [Workers -> Nat]
  /\ len \in [Workers -> Nat]

StoreTypeOK ==
  /\ trace \in [Executions -> SUBSET [seq : 0..(MaxTrace - 1), by : Nat]]
  /\ result \in [Executions -> [by : Nat, len : 0..MaxTrace]]
  /\ verdicts \in [Executions -> Seq([judge : {"policy", "response_quality"}, by : Nat])]

HistoryTypeOK ==
  /\ done \in SUBSET (1..delivered)
  /\ lost \in SUBSET (1..delivered)
  /\ crashes \in 0..MaxCrashes

TypeOK == QueueTypeOK /\ WorkerTypeOK /\ StoreTypeOK /\ HistoryTypeOK

Init ==
  /\ QueueInit
  /\ pc = [w \in Workers |-> "idle"]
  /\ msg = [w \in Workers |-> 0]
  /\ next = [w \in Workers |-> 0]
  /\ len = [w \in Workers |-> 0]
  /\ trace = [e \in Executions |-> {}]
  /\ result = [e \in Executions |-> NoResult]
  /\ verdicts = [e \in Executions |-> <<>>]
  /\ done = {} /\ lost = {} /\ crashes = 0

At(w, label) == pc[w] = label
Goto(w, label) == pc' = [pc EXCEPT ![w] = label]

\* The end of claim_and_process_one: the loop calls it again, its locals are gone.
Return(w) ==
  /\ Goto(w, "idle")
  /\ msg' = [msg EXCEPT ![w] = 0]
  /\ next' = [next EXCEPT ![w] = 0]
  /\ len' = [len EXCEPT ![w] = 0]

\* A script creates an execution and enqueues its job, once per member of Jobs;
\* nothing stops two scripts from enqueueing the same execution.
Submit(j) ==
  /\ ~Submitted(j)
  /\ Enqueue([job |-> j, attempt |-> 1])
  /\ UNCHANGED <<workerVars, storeVars, historyVars>>

\* An empty claim (block_ms elapsed) is a stuttering step of serve_forever.
ClaimJob(w) ==
  /\ At(w, "idle")
  /\ Claim
  /\ Goto(w, "run")
  /\ msg' = [msg EXCEPT ![w] = delivered']
  /\ UNCHANGED <<next, len, storeVars, historyVars>>

\* get_agent_version and run_task: the whole trace is in memory when it returns.
RunTask(w) ==
  /\ At(w, "run")
  /\ Goto(w, "append")
  /\ \E n \in 1..MaxTrace : len' = [len EXCEPT ![w] = n]
  /\ UNCHANGED <<queueVars, msg, next, storeVars, historyVars>>

\* process_job raises: unknown task or version, an agent or judge error, a
\* database call that failed without committing.
Raise(w) ==
  /\ pc[w] \in {"run", "append", "record", "commit", "judge", "verdict"}
  /\ Goto(w, "failed")
  /\ UNCHANGED <<queueVars, msg, next, len, storeVars, historyVars>>

\* Mutant: trace_events without its UNIQUE constraint.
NoDuplicateRow(e, seq) == FALSE

DuplicateRow(e, seq) == \E row \in trace[e] : row.seq = seq

\* Mutant: a 409 is taken for "already stored", as an idempotent retry would.
RejectEventTolerated(w) ==
  /\ At(w, "append")
  /\ DuplicateRow(Exec(msg[w]), next[w])
  /\ next' = [next EXCEPT ![w] = @ + 1]
  /\ IF next[w] + 1 < len[w] THEN UNCHANGED pc ELSE Goto(w, "record")
  /\ UNCHANGED <<queueVars, msg, len, storeVars, historyVars>>

\* append_trace_event, 409: the row would break UNIQUE (execution, sequence_no).
RejectEvent(w) ==
  /\ At(w, "append")
  /\ DuplicateRow(Exec(msg[w]), next[w])
  /\ Goto(w, "failed")
  /\ UNCHANGED <<queueVars, msg, next, len, storeVars, historyVars>>

\* append_trace_event commits; the answer may be lost with the connection, which
\* the worker sees as a failure.
AppendEvent(w) ==
  /\ At(w, "append")
  /\ ~DuplicateRow(Exec(msg[w]), next[w])
  /\ trace' = [trace EXCEPT ![Exec(msg[w])] =
                 @ \cup {[seq |-> next[w], by |-> msg[w]]}]
  /\ \/ /\ next' = [next EXCEPT ![w] = @ + 1]
        /\ IF next[w] + 1 < len[w] THEN UNCHANGED pc ELSE Goto(w, "record")
     \/ Goto(w, "failed") /\ UNCHANGED next
  /\ UNCHANGED <<queueVars, msg, len, result, verdicts, historyVars>>

Finalized(e) == result[e] # NoResult

\* record_result: the status is read in one step, ...
ReadStatus(w) ==
  /\ At(w, "record")
  /\ Goto(w, IF Finalized(Exec(msg[w])) THEN "failed" ELSE "commit")
  /\ UNCHANGED <<queueVars, msg, next, len, storeVars, historyVars>>

\* ... and the row written in another, whatever it holds by then.
CommitResult(w) ==
  /\ At(w, "commit")
  /\ result' = [result EXCEPT ![Exec(msg[w])] = [by |-> msg[w], len |-> len[w]]]
  /\ \/ Goto(w, IF Judging THEN "judge" ELSE "ack")
     \/ Goto(w, "failed")
  /\ UNCHANGED <<queueVars, msg, next, len, trace, verdicts, historyVars>>

\* run_judges: every selected judge has answered when it returns; a run with no
\* final output gets the policy judge only.
RunJudges(w) ==
  /\ At(w, "judge")
  /\ Goto(w, "verdict")
  /\ next' = [next EXCEPT ![w] = 0]
  /\ \E n \in DOMAIN JudgeNames : len' = [len EXCEPT ![w] = n]
  /\ UNCHANGED <<queueVars, msg, storeVars, historyVars>>

\* Mutant: a verdict whose answer was lost is sent again.
AppendVerdictAgain(w) ==
  /\ At(w, "verdict")
  /\ verdicts' = [verdicts EXCEPT ![Exec(msg[w])] =
                    Append(@, [judge |-> JudgeNames[next[w] + 1], by |-> msg[w]])]
  /\ \/ /\ next' = [next EXCEPT ![w] = @ + 1]
        /\ IF next[w] + 1 < len[w] THEN UNCHANGED pc ELSE Goto(w, "ack")
     \/ UNCHANGED <<pc, next>> /\ Len(verdicts[Exec(msg[w])]) < 3
  /\ UNCHANGED <<queueVars, msg, len, trace, result, historyVars>>

\* append_judge_verdict: no uniqueness constraint.
AppendVerdict(w) ==
  /\ At(w, "verdict")
  /\ verdicts' = [verdicts EXCEPT ![Exec(msg[w])] =
                    Append(@, [judge |-> JudgeNames[next[w] + 1], by |-> msg[w]])]
  /\ \/ /\ next' = [next EXCEPT ![w] = @ + 1]
        /\ IF next[w] + 1 < len[w] THEN UNCHANGED pc ELSE Goto(w, "ack")
     \/ Goto(w, "failed") /\ UNCHANGED next
  /\ UNCHANGED <<queueVars, msg, len, trace, result, historyVars>>

AckSuccess(w) ==
  /\ At(w, "ack")
  /\ Ack(msg[w])
  /\ done' = done \cup {msg[w]}
  /\ Return(w)
  /\ UNCHANGED <<storeVars, lost, crashes>>

\* Mutant: the failed message is not acked before its retry is enqueued.
AckFailureMissing(w) ==
  /\ At(w, "failed")
  /\ Goto(w, IF Exhausted(stream[msg[w]]) THEN "deadletter" ELSE "backoff")
  /\ UNCHANGED <<queueVars, msg, next, len, storeVars, historyVars>>

\* retry_or_deadletter acks first, ...
AckFailure(w) ==
  /\ At(w, "failed")
  /\ Ack(msg[w])
  /\ Goto(w, IF Exhausted(stream[msg[w]]) THEN "deadletter" ELSE "backoff")
  /\ UNCHANGED <<msg, next, len, storeVars, historyVars>>

\* Mutant: an exhausted job is only dropped.
GiveUpSilently(w) ==
  /\ At(w, "deadletter")
  /\ Return(w)
  /\ UNCHANGED <<queueVars, storeVars, historyVars>>

\* ... then writes the job to the dead-letter stream ...
GiveUp(w) ==
  /\ At(w, "deadletter")
  /\ DeadLetter(stream[msg[w]])
  /\ Return(w)
  /\ UNCHANGED <<storeVars, historyVars>>

\* Mutant: after the back-off the job is not written back.
RetryForgotten(w) ==
  /\ At(w, "backoff")
  /\ Return(w)
  /\ UNCHANGED <<queueVars, storeVars, historyVars>>

\* Mutant: after the back-off the worker runs the job again itself.
RetryInPlace(w) ==
  /\ At(w, "backoff")
  /\ Goto(w, "run")
  /\ next' = [next EXCEPT ![w] = 0]
  /\ UNCHANGED <<queueVars, msg, len, storeVars, historyVars>>

\* ... or sleeps min(2^(attempt-1), 30) seconds and enqueues it again.
Retry(w) ==
  /\ At(w, "backoff")
  /\ Enqueue(Retried(stream[msg[w]]))
  /\ Return(w)
  /\ UNCHANGED <<storeVars, historyVars>>

\* The process dies: killed, or by a Redis call that raises out of the handler.
Crash(w) ==
  /\ crashes < MaxCrashes
  /\ pc[w] \in Handling \cup {"idle"}
  /\ crashes' = crashes + 1
  /\ lost' = IF pc[w] \in Handover THEN lost \cup {msg[w]} ELSE lost
  /\ pc' = [pc EXCEPT ![w] = "down"]
  /\ msg' = [msg EXCEPT ![w] = 0]
  /\ next' = [next EXCEPT ![w] = 0]
  /\ len' = [len EXCEPT ![w] = 0]
  /\ UNCHANGED <<queueVars, storeVars, done>>

\* A new process, same or new consumer name; ensure_group finds the group.
Restart(w) ==
  /\ At(w, "down")
  /\ Goto(w, "idle")
  /\ UNCHANGED <<queueVars, msg, next, len, storeVars, historyVars>>

\* process_job, and how its message is settled.
Handle(w) ==
  \/ RunTask(w) \/ Raise(w)
  \/ RejectEvent(w) \/ AppendEvent(w) \/ ReadStatus(w) \/ CommitResult(w)
  \/ RunJudges(w) \/ AppendVerdict(w)
  \/ AckSuccess(w) \/ AckFailure(w) \/ GiveUp(w) \/ Retry(w)

Step(w) == ClaimJob(w) \/ Handle(w)

Next ==
  \/ \E j \in Jobs : Submit(j)
  \/ \E w \in Workers : Step(w) \/ Crash(w) \/ Restart(w)

\* A live worker keeps going: every call it awaits returns or raises, a run has
\* a step limit, the back-off sleeps are at most 30 s.  Nothing restarts a dead
\* one (docker-compose.yml sets no restart policy).
Fairness == \A w \in Workers : WF_vars(Step(w))

Spec == Init /\ [][Next]_vars /\ Fairness

-----------------------------------------------------------------------------
\* Properties.

\* Where copies of job j are: in the stream and not yet delivered, in the pending
\* list, in the memory of a worker handing it over, or in one of the final places.
Places(j) ==
  {<<"stream", i>> : i \in {i \in Undelivered : stream[i].job = j}}
    \cup {<<"pending", i>> : i \in {i \in pending : stream[i].job = j}}
    \cup {<<"worker", msg[w]>> : w \in {w \in Workers :
             pc[w] \in Handover /\ stream[msg[w]].job = j}}
    \cup {<<"dead", i>> : i \in {i \in DOMAIN dead : dead[i].job = j}}
    \cup {<<"done", i>> : i \in {i \in done : stream[i].job = j}}
    \cup {<<"lost", i>> : i \in {i \in lost : stream[i].job = j}}

\* A job is never duplicated and never vanishes: from its enqueue on it is in
\* exactly one place, through every claim, ack, retry, dead-letter and crash.
JobInOnePlace ==
  \A j \in Jobs : Submitted(j) => \E p \in Places(j) : Places(j) = {p}

\* The rows stored for an execution are a gap-free prefix of the trace of a single
\* attempt, whatever the retries, duplicate jobs and lost answers.
OneAttemptPerTrace ==
  \A e \in Executions : trace[e] # {} =>
    \E row \in trace[e], n \in 1..MaxTrace : trace[e] = Rows(row.by, n)

\* A recorded result rests on the complete stored trace of the very attempt that
\* was scored, never on a partial trace or one mixed from two attempts.
ResultBacksTrace ==
  \A e \in Executions : Finalized(e) => trace[e] = Rows(result[e].by, result[e].len)

\* Verdicts judge the attempt whose result was recorded, each judge once and in
\* select_judges' order, although no constraint of the database says so.
VerdictsJudgeTheResult ==
  \A e \in Executions : verdicts[e] # <<>> =>
    /\ Len(verdicts[e]) <= Len(JudgeNames)
    /\ \A i \in DOMAIN verdicts[e] :
         verdicts[e][i] = [judge |-> JudgeNames[i], by |-> result[e].by]

\* Workers never change the result or the trace of an execution once it has a
\* result: record_result's unlocked status check and a late append cannot bite,
\* because the attempt that stored event 0 excludes every other.
FinalExecutionFrozen ==
  [][\A e \in Executions : Finalized(e) =>
       result'[e] = result[e] /\ trace'[e] = trace[e]]_vars

Attempting(e) ==
  \E w \in Workers : /\ pc[w] \in {"append", "record", "commit"}
                     /\ \E row \in trace[e] : row.by = msg[w]

\* Once an attempt fails with events stored, no later attempt finishes the
\* execution: each one is refused at event 0 until the job is dead-lettered.
AbandonedTraceNeverFinishes ==
  [][\A e \in Executions :
       trace[e] # {} /\ ~Finalized(e) /\ ~Attempting(e) => result'[e] = NoResult]_vars

Settled(j) ==
  \/ \E i \in done : stream[i].job = j
  \/ \E i \in DOMAIN dead : dead[i].job = j

\* A message whose worker died: no claim returns it again.
Stranded(j) ==
  \E i \in pending : stream[i].job = j /\ \A w \in Workers : msg[w] # i

\* Every enqueued job is eventually acked after success or dead-lettered, unless a
\* worker dies holding it; the death of one worker delays no other job for ever.
JobSettlesUnlessItsWorkerDies ==
  \A j \in Jobs :
    Submitted(j) ~> Settled(j) \/ Stranded(j) \/ \E i \in lost : stream[i].job = j

\* What queue.py's docstring promises of a worker that dies: the job it was
\* processing is still in the stream or in the pending entries list (or settled).
DyingWorkerDoesNotLoseJob ==
  \A j \in Jobs : Submitted(j) =>
    \/ Settled(j)
    \/ \E i \in Undelivered \cup pending : stream[i].job = j
    \/ \E w \in Workers : pc[w] \in Handover /\ stream[msg[w]].job = j

PhaseOf(j) ==
  CASE ~Submitted(j) -> "new"
    [] \E i \in Undelivered : stream[i].job = j -> "queued"
    [] \E i \in pending : stream[i].job = j -> "running"
    [] \E i \in done : stream[i].job = j -> "done"
    [] \E i \in DOMAIN dead : dead[i].job = j -> "dead"
    [] OTHER -> "between"

\* The pipeline implements the life of each job (JobLifecycle): attempts one at a
\* time, numbered without gaps, and a dead letter only after the last of them.
Lifecycle == INSTANCE JobLifecycle WITH
  phase <- [j \in Jobs |-> PhaseOf(j)],
  tries <- [j \in Jobs |-> {stream[i].attempt : i \in {i \in Ids : stream[i].job = j}}]
ImplementsLifecycle == Lifecycle!Spec
=============================================================================
