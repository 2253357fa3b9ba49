---------------------------- MODULE DemoScenario ----------------------------
(***************************************************************************)
(* The demo's scripted agents (scripts/_demo_scenario.py, run_demo_task.py)*)
(* on the tasks they were written for and on what compose_mutations makes  *)
(* of those: one tool call in each reply, then an answer; the services of  *)
(* SupportTools, the scoring of TaskContract and the attribution of        *)
(* Divergence are those of a real run.  And the reference agent, which the *)
(* worker runs (runner/reference_agent.py): the expected actions in order, *)
(* with no arguments but the contract's.                                   *)
(***************************************************************************)
EXTENDS Mutations, Divergence

TASKS == {CUSTOMER_REFUND_WITHIN_POLICY, CUSTOMER_REFUND_OUTSIDE_POLICY, ORDER_CANCELLATION_DENIED_AFTER_DELIVERY}

Script(calls, answer) == [calls |-> calls, answer |-> answer]
FullRefund == [op |-> "create_refund", order |-> "ORD-1001", customer |-> "CUST-001", amount |-> 4200]

CorrectModelFor(seed) ==
  CASE seed = CUSTOMER_REFUND_WITHIN_POLICY ->
         Script(<<GetCustomer("CUST-001"), GetOrder("ORD-1001"), CheckRefund("ORD-1001"), FullRefund,
                  Resolve("TICK-9001")>>, "issued")
    [] seed = CUSTOMER_REFUND_OUTSIDE_POLICY ->
         Script(<<GetCustomer("CUST-002"), GetOrder("ORD-2001"), CheckRefund("ORD-2001"), Resolve("TICK-9002")>>, "outside")
    [] seed = ORDER_CANCELLATION_DENIED_AFTER_DELIVERY ->
         Script(<<GetCustomer("CUST-009"), GetOrder("ORD-9001"), Resolve("TICK-9009")>>, "delivered")

\* The refund step is skipped.
RegressedModel == Script(<<GetCustomer("CUST-001"), Resolve("TICK-9001")>>, "resolved")
CandidateModelFor(seed) == IF seed = CUSTOMER_REFUND_WITHIN_POLICY THEN RegressedModel ELSE CorrectModelFor(seed)

DemoEvent(type, payload) == [type |-> type, payload |-> payload]
Asked == <<DemoEvent("model_request", Empty), DemoEvent("model_response", Empty)>>

\* The trace of run_task on task t with a ScriptedModelClient.
Turn(t, calls, i) ==
  LET outcome == Run(t)!Outcome(States(t, calls)[i - 1], calls[i]) IN
  Asked \o <<DemoEvent("tool_call", calls[i]),
             IF outcome = "ok" THEN DemoEvent("tool_result", Empty) ELSE DemoEvent("error", [error_type |-> outcome])>>
DemoTrace(t, script) ==
  FlattenSeq([i \in DOMAIN script.calls |-> Turn(t, script.calls, i)])
    \o Asked \o <<DemoEvent("final_answer", [content |-> script.answer])>>

DemoPassed(t, script) ==
  IF Run(t)!MeetsContract(Run(t)!Score(ToSet(script.calls), StateAfter(t, script.calls))) THEN "true" ELSE "false"

\* The demo's two runs of a task, and what GET /comparisons says of them.
DemoDisposition(t, seed) ==
  Disposition(DemoPassed(t, CorrectModelFor(seed)), DemoPassed(t, CandidateModelFor(seed)))
DemoAttribution(t, seed) ==
  FirstDivergence(StoredTrace(DemoTrace(t, CorrectModelFor(seed))), StoredTrace(DemoTrace(t, CandidateModelFor(seed))))

\* The services that demand a reason, which no expected action gives: without it the
\* call is one that lacks a mandatory argument (TypeError).
DemandReason == {"replace_item", "create_refund", "escalate_ticket"}
Given(a) == IF a.op \in DemandReason THEN [op |-> a.op] ELSE a
Callable(t, a) == Run(t)!Required[a.op] \subseteq DOMAIN Given(a)
ReferenceCalls(t) == [i \in DOMAIN t.expected |-> Given(t.expected[i])]
ReferenceScore(t) == Run(t)!Score(ToSet(t.expected), StateAfter(t, ReferenceCalls(t)))

-----------------------------------------------------------------------------
\* Properties

\* Tasks whose actions need more than the contract records fail the reference agent
\* with a real contract mismatch, all others pass.  No refused attempt goes unnoticed:
\* though it counts as an attempt of the expected action, the final state that the
\* task asks for is not reached, on no variant of the task; and no variant forbids
\* what its own contract expects.
ReferenceAgentFailsByState ==
  LET score == ReferenceScore(task) IN
  /\ score.missing = {} /\ score.forbidden = {}
  /\ Run(task)!MeetsContract(score) <=> \A a \in ToSet(task.expected) : Callable(task, a)

\* "A real regression on real seed tasks": the candidate regresses on the refund, which
\* is attributed to the call after get_customer, a wrong tool, and on nothing else; and
\* so on every variant of the three tasks whose mutations claim to preserve the contract.
\* A moved boundary fails both runs of the refund, and only that.
DemoRegressionIsReal ==
  parent \in TASKS =>
    IF parent # CUSTOMER_REFUND_WITHIN_POLICY THEN DemoDisposition(task, parent) = "stable_pass"
    ELSE IF ToSet(task.id) \cap (MutationTypes \ CONTRACT_PRESERVING_MUTATIONS) \subseteq {"missing_customer_information"}
      THEN /\ DemoDisposition(task, parent) = "regression"
           /\ DemoAttribution(task, parent) = Attribution("wrong_tool", 7, 7)
           /\ DemoTrace(task, RegressedModel)[7].payload = Resolve("TICK-9001")
      ELSE DemoDisposition(task, parent) = "stable_failure"
=============================================================================
