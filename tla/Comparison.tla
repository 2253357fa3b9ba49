----------------------------- MODULE Comparison -----------------------------
(***************************************************************************)
(* GET /comparisons/{baseline}/{candidate}: compare_runs reads two runs,   *)
(* then the two traces of every regression, each in a transaction of its   *)
(* own, while workers are still storing traces and recording results.      *)
(***************************************************************************)
EXTENDS Divergence, FiniteSets

CONSTANTS Executions, RunOf, TaskOf,   \* executions of the runs "baseline" and "candidate"
          Enqueued,                    \* bound: the executions that get a job
          Behaviours                   \* what an agent run can yield: [trace, passed]

VARIABLES created,      \* executions that exist
          running,      \* execution -> the behaviour its worker is storing, or Queued
          stored,       \* execution -> its stored trace
          passed,       \* execution -> "none", or the recorded result
          phase,        \* of the request
          seen,         \* execution -> passed, as the request read it
          pending,      \* the shared tasks still to be paired
          left,         \* the baseline trace of the task being attributed
          results       \* PairedTaskComparison of each task so far

workers == <<created, running, stored, passed>>
reader == <<phase, seen, pending, left, results>>
vars == <<workers, reader>>

Tasks == {TaskOf[e] : e \in Executions}
Queued == [trace |-> <<>>, passed |-> "none"]

ASSUME ComparisonAssumption ==
  /\ RunOf \in [Executions -> {"baseline", "candidate"}]
  /\ \A e \in Executions : TaskOf[e] \in Nat
  /\ Enqueued \subseteq Executions
  /\ \A b \in Behaviours : /\ b.trace \in Seq(Range(b.trace)) \ {<<>>}
                           /\ b.passed \in {"true", "false"}

Init ==
  /\ created = {} /\ running = [e \in Executions |-> Queued]
  /\ stored = [e \in Executions |-> <<>>] /\ passed = [e \in Executions |-> "none"]
  /\ phase = "idle" /\ seen = [e \in {} |-> "none"] /\ pending = {} /\ left = <<>>
  /\ results = [t \in {} |-> NoAttribution]

-----------------------------------------------------------------------------
\* The workers

CreateExecution(e) ==
  /\ e \notin created
  /\ created' = created \cup {e}
  /\ UNCHANGED <<running, stored, passed, reader>>

\* Mutant: a second job runs the agent again for the same execution.
RunTaskAgain(e, b) ==
  /\ e \in created \cap Enqueued
  /\ running' = [running EXCEPT ![e] = b]
  /\ UNCHANGED <<created, stored, passed, reader>>

RunTask(e, b) ==
  /\ e \in created \cap Enqueued /\ running[e] = Queued
  /\ running' = [running EXCEPT ![e] = b]
  /\ UNCHANGED <<created, stored, passed, reader>>

AppendEvent(e) ==
  /\ Len(stored[e]) < Len(running[e].trace)
  /\ stored' = [stored EXCEPT ![e] = Append(@, Redacted(running[e].trace[Len(@) + 1]))]
  /\ UNCHANGED <<created, running, passed, reader>>

\* Mutant: the result is recorded while the trace is still being stored.
RecordResultEarly(e) ==
  /\ running[e] # Queued /\ passed[e] = "none"
  /\ passed' = [passed EXCEPT ![e] = running[e].passed]
  /\ UNCHANGED <<created, running, stored, reader>>

RecordResult(e) ==
  /\ running[e] # Queued /\ passed[e] = "none" /\ Len(stored[e]) = Len(running[e].trace)
  /\ passed' = [passed EXCEPT ![e] = running[e].passed]
  /\ UNCHANGED <<created, running, stored, reader>>

-----------------------------------------------------------------------------
\* The request

Of(run) == {e \in DOMAIN seen : RunOf[e] = run}
Read(run) == {e \in created : RunOf[e] = run}
Ambiguous(S) == \E d, e \in S : d # e /\ TaskOf[d] = TaskOf[e]
Answer(p) == phase' = p /\ UNCHANGED <<workers, seen, pending, left, results>>

\* get_run_executions and _by_task for the baseline: 422 if a task is there twice.
ReadBaseline ==
  /\ phase = "idle"
  /\ IF Ambiguous(Read("baseline")) THEN Answer("refused")
     ELSE /\ phase' = "baseline_read"
          /\ seen' = [e \in Read("baseline") |-> passed[e]]
          /\ UNCHANGED <<workers, pending, left, results>>

\* The same for the candidate: 422 as well if the two share no task.
ReadCandidate ==
  /\ phase = "baseline_read"
  /\ LET candidate == Read("candidate")
         shared == {TaskOf[e] : e \in candidate} \cap {TaskOf[e] : e \in DOMAIN seen}
     IN IF Ambiguous(candidate) \/ shared = {} THEN Answer("refused")
        ELSE /\ phase' = "pairing" /\ pending' = shared
             /\ seen' = [e \in DOMAIN seen \cup candidate |->
                           IF e \in candidate THEN passed[e] ELSE seen[e]]
             /\ UNCHANGED <<workers, left, results>>

Task == CHOOSE t \in pending : \A u \in pending : t <= u
LeftOf(t) == CHOOSE e \in Of("baseline") : TaskOf[e] = t
RightOf(t) == CHOOSE e \in Of("candidate") : TaskOf[e] = t
DispositionOf(t) == Disposition(seen[LeftOf(t)], seen[RightOf(t)])

Conclude(attribution) ==
  /\ results' = [t \in DOMAIN results \cup {Task} |->
                   IF t = Task THEN [disposition |-> DispositionOf(t), attribution |-> attribution]
                   ELSE results[t]]
  /\ pending' = pending \ {Task}
  /\ phase' = IF pending = {Task} THEN "answered" ELSE "pairing"
  /\ UNCHANGED <<workers, seen>>

Pair ==
  /\ phase = "pairing" /\ DispositionOf(Task) # "regression"
  /\ Conclude(NoAttribution) /\ UNCHANGED left

ReadBaselineTrace ==
  /\ phase = "pairing" /\ DispositionOf(Task) = "regression"
  /\ phase' = "attributing" /\ left' = stored[LeftOf(Task)]
  /\ UNCHANGED <<workers, seen, pending, results>>

ReadCandidateTrace ==
  /\ phase = "attributing"
  /\ Conclude(FirstDivergence(left, stored[RightOf(Task)])) /\ left' = <<>>

Work == \E e \in Executions :
  CreateExecution(e) \/ (\E b \in Behaviours : RunTask(e, b)) \/ AppendEvent(e) \/ RecordResult(e)

Next == Work \/ ReadBaseline \/ ReadCandidate \/ Pair \/ ReadBaselineTrace \/ ReadCandidateTrace

Spec == Init /\ [][Next]_vars

-----------------------------------------------------------------------------
\* Properties

TypeOK ==
  /\ created \subseteq Executions /\ DOMAIN seen \subseteq created
  /\ \A e \in Executions : running[e] \in Behaviours \cup {Queued}
                           /\ stored[e] = SubSeq(StoredTrace(running[e].trace), 1, Len(stored[e]))
  /\ phase \in {"idle", "baseline_read", "pairing", "attributing", "answered", "refused"}
  /\ pending \cap DOMAIN results = {} /\ pending \cup DOMAIN results \subseteq Tasks

\* However the reads fall between the workers' writes, an attribution compares the
\* two whole traces: a regression is only seen once both results are recorded, and
\* a worker records a result after the last event (worker.py:52-56).
AttributionOnWholeTraces ==
  \A t \in DOMAIN results :
    results[t].disposition = "regression" =>
      results[t].attribution = FirstDivergence(StoredTrace(running[LeftOf(t)].trace),
                                               StoredTrace(running[RightOf(t)].trace))

\* A verdict on a task is never taken back: whatever the runs go on to record, a
\* disposition other than indeterminate is the one the recorded results give.
VerdictStands ==
  \A t \in DOMAIN results :
    results[t].disposition # "indeterminate" =>
      results[t].disposition = Disposition(passed[LeftOf(t)], passed[RightOf(t)])
=============================================================================
