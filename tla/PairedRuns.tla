----------------------------- MODULE PairedRuns -----------------------------
(***************************************************************************)
(* A baseline and a candidate run of one task, each a run_task of          *)
(* AgentRunner followed by the storing of its trace and result, and the    *)
(* attribution of the regression between them.  The versions differ in     *)
(* nothing but their agents: the task, the tools and the limits are shared.*)
(***************************************************************************)
EXTENDS AgentRunner, Divergence

VARIABLES baseline, attribution

pairVars == <<vars, baseline, attribution>>

\* The contract does not depend on a value that is redacted before it is stored.
ASSUME ContractIsVisible ==
  \A p \in ExpectedActions \cup ForbiddenActions : DOMAIN p \cap SENSITIVE_KEYS = {}

NotRun == [trace |-> <<>>, passed |-> "none"]
Passed(r) == IF r.passed THEN "true" ELSE "false"

PairInit == Init /\ baseline = NotRun /\ attribution = NoAttribution

\* Mutant: the candidate starts from the state that the baseline left
\* (initial_state used without a copy).
StartCandidateDirty ==
  /\ pc = "scored" /\ baseline = NotRun
  /\ baseline' = [trace |-> StoredTrace(trace), passed |-> Passed(report)]
  /\ pc' = "asking" /\ step' = 0 /\ attempt' = 1 /\ messages' = Opening
  /\ todo' = <<>> /\ trace' = <<>> /\ report' = NoReport
  /\ UNCHANGED <<env, attribution>>

\* The baseline is stored and the candidate's run_task begins, from the seed.
StartCandidate ==
  /\ pc = "scored" /\ baseline = NotRun
  /\ baseline' = [trace |-> StoredTrace(trace), passed |-> Passed(report)]
  /\ pc' = "asking" /\ step' = 0 /\ attempt' = 1 /\ messages' = Opening
  /\ todo' = <<>> /\ trace' = <<>> /\ report' = NoReport
  /\ env' = SeedEnvironment
  /\ UNCHANGED attribution

\* compare_runs for this task, once both results are stored.
Compare ==
  /\ pc = "scored" /\ baseline # NotRun
  /\ pc' = "compared"
  /\ attribution' = IF Disposition(baseline.passed, Passed(report)) = "regression"
                      THEN FirstDivergence(baseline.trace, StoredTrace(trace))
                      ELSE NoAttribution
  /\ UNCHANGED <<step, attempt, messages, todo, trace, env, report, baseline>>

PairNext == (Next /\ UNCHANGED <<baseline, attribution>>) \/ StartCandidate \/ Compare

PairSpec == PairInit /\ [][PairNext]_pairVars

-----------------------------------------------------------------------------
\* Properties

Compared == pc = "compared"
Attributed == Compared /\ attribution # NoAttribution
Regressed == Compared /\ baseline.passed = "true" /\ ~report.passed
Left == baseline.trace[attribution.baseline]
Right == trace[attribution.candidate]

\* A task that the baseline passed and the candidate failed always gets an
\* attribution: the services are deterministic, so two runs whose recorded events
\* look the same, redaction included, cannot be scored differently.
EveryRegressionIsAttributed == Regressed => attribution # NoAttribution

\* What is blamed is always something the agent or its model did, never the outcome
\* of a tool: up to the blamed events the two runs made the same calls from the same
\* seeded state and got the same outcomes (runner.py: every run starts from
\* identical state).
OnlyTheAgentDiverges ==
  Attributed =>
    /\ attribution.baseline # 0 /\ attribution.candidate # 0
    /\ ~IsCallOutcome(Left) /\ ~IsCallOutcome(Right)
    /\ \A i \in 1..(attribution.baseline - 1) :
         /\ baseline.trace[i].type = trace[i].type
         /\ IsCallOutcome(trace[i]) => baseline.trace[i].payload = Redacted(trace[i]).payload

\* README: a regression is attributed to a changed tool choice, an invalid argument, a
\* tool failure, a policy violation or early termination.  What is called wrong_tool
\* is a changed tool choice: both agents called a tool, and not the same one.
WrongToolIsAToolChoice ==
  Attributed /\ attribution.type = "wrong_tool" => Left.type = "tool_call" /\ Right.type = "tool_call"
=============================================================================
