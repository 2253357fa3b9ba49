------------------------------ MODULE LoadTest ------------------------------
(***************************************************************************)
(* How the processes that run the workers start and stop: run_worker_loop  *)
(* (runner/worker.py), which ends when a claim finds nothing, and the load *)
(* test (scripts/load_test.py), whose driver seeds jobs, starts workers,   *)
(* polls the executions and then sets a stop event.  Its workers survive   *)
(* an exception that leaves claim_and_process_one: Crash is then its way   *)
(* out of the handler and Restart the next turn of the worker's loop.      *)
(*                                                                         *)
(*   seeding --> polling --AllFinished or Deadline--> stopped --> reported *)
(***************************************************************************)
EXTENDS EvaluationPipeline

VARIABLES driver,      \* the load test's main, "none" for run_worker_loop
          remaining,   \* executions it has not seen finished
          claiming,    \* workers that saw no stop event and are in a claim
          gone         \* workers whose loop has ended

loadVars == <<driver, remaining, claiming, gone>>

LoadInit ==
  /\ Init
  /\ driver \in {"none", "seeding"}
  /\ remaining = Executions /\ claiming = {} /\ gone = {}

Free(w) == At(w, "idle") /\ w \notin claiming \cup gone

-----------------------------------------------------------------------------
\* run_worker_loop in every worker, while some caller enqueues jobs

EnqueueJob(j) == driver = "none" /\ Submit(j) /\ UNCHANGED loadVars

RunLoop(w) == driver = "none" /\ w \notin gone /\ Step(w) /\ UNCHANGED loadVars

\* A claim found nothing.
StopLoop(w) ==
  /\ driver = "none" /\ Free(w) /\ Undelivered = {}
  /\ gone' = gone \cup {w}
  /\ UNCHANGED <<vars, driver, remaining, claiming>>

-----------------------------------------------------------------------------
\* The driver

Seed(j) == driver = "seeding" /\ Submit(j) /\ UNCHANGED loadVars

StartWorkers ==
  /\ driver = "seeding" /\ \A j \in Jobs : Submitted(j)
  /\ driver' = "polling"
  /\ UNCHANGED <<vars, remaining, claiming, gone>>

\* Mutant: a read that raises takes the execution off the list as well.
PollCarelessly(e) ==
  /\ driver = "polling" /\ e \in remaining
  /\ remaining' = remaining \ {e}
  /\ UNCHANGED <<vars, driver, claiming, gone>>

\* get_execution says that e is no longer pending; a read that says otherwise, or
\* raises, changes nothing.
Poll(e) ==
  /\ driver = "polling" /\ e \in remaining /\ Finalized(e)
  /\ remaining' = remaining \ {e}
  /\ UNCHANGED <<vars, driver, claiming, gone>>

Stop == driver = "polling" /\ driver' = "stopped" /\ UNCHANGED <<vars, remaining, claiming, gone>>
AllFinished == remaining = {} /\ Stop
Deadline == remaining # {} /\ Stop

Gather ==
  /\ driver = "stopped" /\ gone = Workers
  /\ driver' = "reported"
  /\ UNCHANGED <<vars, remaining, claiming, gone>>

Driver == (\E j \in Jobs : Seed(j)) \/ StartWorkers \/ (\E e \in Executions : Poll(e)) \/ AllFinished \/ Gather

-----------------------------------------------------------------------------
\* Its workers

Claimed(w) == claiming' = claiming \ {w} /\ UNCHANGED <<driver, remaining, gone>>

BeginClaim(w) ==
  /\ driver = "polling" /\ Free(w)
  /\ claiming' = claiming \cup {w}
  /\ UNCHANGED <<vars, driver, remaining, gone>>

\* block_ms elapsed: the stop event is looked at again.
EmptyClaim(w) == w \in claiming /\ Undelivered = {} /\ Claimed(w) /\ UNCHANGED vars

Leave(w) ==
  /\ driver = "stopped" /\ Free(w)
  /\ gone' = gone \cup {w}
  /\ UNCHANGED <<vars, driver, remaining, claiming>>

\* Mutant: an exception ends the worker's loop.
LoadWorkerDies(w) ==
  \/ BeginClaim(w) \/ EmptyClaim(w) \/ Leave(w)
  \/ w \in claiming /\ ClaimJob(w) /\ Claimed(w)
  \/ driver # "none" /\ Handle(w) /\ UNCHANGED loadVars

LoadWorker(w) ==
  \/ BeginClaim(w) \/ EmptyClaim(w) \/ Leave(w)
  \/ w \in claiming /\ ClaimJob(w) /\ Claimed(w)
  \/ driver # "none" /\ (Handle(w) \/ Restart(w)) /\ UNCHANGED loadVars

\* A Redis call raises; in a claim, before or after the group delivered a message.
Fail(w) == ~Free(w) /\ driver # "none" /\ Crash(w) /\ Claimed(w)

LoadNext ==
  \/ \E j \in Jobs : EnqueueJob(j)
  \/ Driver \/ Deadline
  \/ \E w \in Workers : RunLoop(w) \/ StopLoop(w) \/ LoadWorker(w) \/ Fail(w)

loadAll == <<vars, loadVars>>

\* As in EvaluationPipeline, and a worker that survived goes on.  Nothing is assumed
\* of the deadline: what is promised does not rest on it.
LoadFairness ==
  /\ WF_loadAll(Driver)
  /\ \A w \in Workers : WF_loadAll(RunLoop(w) \/ StopLoop(w)) /\ WF_loadAll(LoadWorker(w))

LoadSpec == LoadInit /\ [][LoadNext]_loadAll /\ LoadFairness

-----------------------------------------------------------------------------
\* Properties

\* run_worker_loop drains the queue: when the last worker returns, every enqueued
\* job is settled, although a retry was not in the stream during its back-off.
AllReturned == driver = "none" /\ gone = Workers
DrainedOnReturn ==
  [][~AllReturned /\ AllReturned' => \A j \in Jobs : Submitted(j) => Settled(j)]_loadAll

\* An execution that the load test counts as completed has a result resting on its
\* whole trace, and keeps it, whatever still becomes of the job: its worker may have
\* lost the answer to record_result and hand the job back after the stop.
CompletedIsStored ==
  \A e \in Executions \ remaining :
    Finalized(e) /\ trace[e] = Rows(result[e].by, result[e].len)

\* A job that no worker will finish: dead-lettered, or held by an exception.
Unfinishable(j) ==
  /\ ~Finalized(ExecutionOf[j])
  /\ (\E i \in DOMAIN dead : dead[i].job = j) \/ Stranded(j) \/ (\E i \in lost : stream[i].job = j)

\* Nobody is left to work: the driver has given up, or every loop has returned.
Over == driver \in {"stopped", "reported"} \/ gone = Workers

\* Each job by itself: once enqueued it is finished, or it is a job that no worker will
\* finish, unless the loops end first.  A call to Redis that raises in one worker, or a
\* job that it strands, delays no other job for ever.
EveryJobIsFinished ==
  \A j \in Jobs : Submitted(j) ~> Finalized(ExecutionOf[j]) \/ Unfinishable(j) \/ Over

\* run_worker_loop returns in every worker: no job keeps failing and coming back for
\* ever.  The load test reports without waiting for its deadline, unless some job
\* cannot be finished.
LoopsTerminate ==
  <>IF driver = "none" THEN AllReturned ELSE driver = "reported" \/ \E j \in Jobs : Unfinishable(j)
=============================================================================
