--------------------------- MODULE PairedRunsProofs ---------------------------
(***************************************************************************)
(* Why a regression is blamed on the agent, for every task and every pair  *)
(* of agents: the services are deterministic and look at nothing that is   *)
(* redacted, so two runs stay in lockstep up to the first event at which   *)
(* their stored traces differ.                                             *)
(***************************************************************************)
EXTENDS TraceReplay, AgentRunnerProofs

-----------------------------------------------------------------------------
\* Redaction

Veil(p) == [f \in DOMAIN p |-> IF f \in SENSITIVE_KEYS THEN "[REDACTED]" ELSE p[f]]

IsEvent(e) ==
  /\ e = Event(e.type, e.parent, e.payload)
  /\ e.type = "error" => e.payload = [error_type |-> e.payload.error_type]

LEMMA RedactedEvent ==
  ASSUME NEW e, IsEvent(e)
  PROVE  /\ Redacted(e).type = e.type /\ Redacted(e).parent = e.parent /\ Redacted(e).payload = Veil(e.payload)
         /\ e.type = "error" => Veil(e.payload) = e.payload
  <1>1. DOMAIN e = {"type", "parent", "payload"}
    BY DEF IsEvent, Event
  <1>2. Redacted(e) = [e EXCEPT !.payload = Veil(e.payload)]
    BY DEF Redacted, Veil
  <1>3. ASSUME e.type = "error" PROVE Veil(e.payload) = e.payload
    <2>1. PICK class : e.payload = [error_type |-> class]
      BY <1>3 DEF IsEvent
    <2>2. QED BY <2>1 DEF Veil, SENSITIVE_KEYS
  <1>4. QED BY <1>1, <1>2, <1>3

\* What it means that a comparison sees no difference between two events.
LEMMA AlikeMeans ==
  ASSUME NEW l, IsEvent(l), NEW r, IsEvent(r)
  PROVE  EventDivergence(Redacted(l), Redacted(r)) = "none" =>
           /\ l.type = r.type
           /\ l.type = "error" => l.payload = r.payload
           /\ l.type = "tool_call" => Veil(l.payload) = Veil(r.payload)
  BY RedactedEvent DEF EventDivergence

\* The services see through no veil: calls that differ in what is redacted end alike.
LEMMA VeiledArguments ==
  ASSUME NEW c, IsCall(c), NEW d, IsCall(d), Veil(c) = Veil(d)
  PROVE  DOMAIN c = DOMAIN d /\ \A f \in DOMAIN c : f \notin SENSITIVE_KEYS => c[f] = d[f]
  BY DEF Veil

Plain == {"op", "order", "customer", "sku", "amount", "ticket", "status"}

LEMMA SameOutcome ==
  ASSUME NEW s, NEW c, IsCall(c), NEW d, IsCall(d), Veil(c) = Veil(d)
  PROVE  Outcome(s, c) = Outcome(s, d) /\ After(s, c) = After(s, d)
  <1>1. DOMAIN c = DOMAIN d /\ \A f \in Plain : f \in DOMAIN c => c[f] = d[f]
    BY VeiledArguments DEF Plain, SENSITIVE_KEYS
  <1>2. c.op = d.op
    BY <1>1 DEF IsCall, Plain
  <1>3. CASE c.op \notin DOMAIN Required
    BY <1>2, <1>3 DEF Outcome, After
  <1>binds. c.op \in DOMAIN Required => (Binds(c) <=> Binds(d))
    BY <1>1, <1>2 DEF Binds
  <1>4. CASE c.op \in DOMAIN Required /\ ~Binds(c)
    BY <1>2, <1>4, <1>binds DEF Outcome, After
  <1>5. CASE c.op \in DOMAIN Required /\ Binds(c)
    <2>0. Required[c.op] \subseteq DOMAIN c
      BY <1>5 DEF Binds
    <2>1. Required[c.op] \subseteq Plain
      BY <1>5 DEF Required, Plain
    <2>2. \A f \in Required[c.op] : c[f] = d[f]
      BY <1>1, <2>0, <2>1
    <2>3. /\ c.op \in {"get_order", "check_refund_policy", "check_replacement_policy", "cancel_order",
                       "replace_item", "create_refund"} => c.order = d.order
          /\ c.op \in {"get_customer", "cancel_order", "replace_item", "create_refund"} => c.customer = d.customer
          /\ c.op \in {"update_ticket", "escalate_ticket"} => c.ticket = d.ticket
          /\ c.op = "replace_item" => c.sku = d.sku
          /\ c.op = "create_refund" => c.amount = d.amount
          /\ "status" \in DOMAIN c => c.status = d.status
      BY <1>1, <2>2 DEF Required, Plain
    <2>4. c.op \in {"get_customer", "get_order", "check_refund_policy", "check_replacement_policy", "cancel_order",
                    "replace_item", "create_refund", "update_ticket", "escalate_ticket"}
      BY <1>5 DEF Required
    <2>5. Found(c) <=> Found(d)
      BY <1>2, <2>3, <2>4 DEF Found, OwnerCalls
    <2>6. Allowed(s, c) <=> Allowed(s, d)
      BY <1>2, <2>3, <2>4 DEF Allowed, RefundAllowed, CancelAllowed, ReplaceAllowed, OwnerCalls
    <2>7. Effect(s, c) = Effect(s, d)
      BY <1>1, <1>2, <2>3, <2>4 DEF Effect
    <2>8. QED BY <1>2, <1>5, <1>binds, <2>5, <2>6, <2>7 DEF Outcome, After
  <1>6. QED BY <1>3, <1>4, <1>5

\* What a call hands back, as it is stored.
LEMMA SameReturn ==
  ASSUME NEW s, NEW c, IsCall(c), NEW d, IsCall(d), Veil(c) = Veil(d), NEW q, Outcome(q, c) = "ok"
  PROVE  Veil(Returned(s, c)) = Veil(Returned(s, d))
  <1>1. DOMAIN c = DOMAIN d /\ \A f \in Plain : f \in DOMAIN c => c[f] = d[f]
    BY VeiledArguments DEF Plain, SENSITIVE_KEYS
  <1>2. c.op = d.op /\ c.op \in DOMAIN Required /\ Required[c.op] \subseteq DOMAIN c
    BY <1>1 DEF IsCall, Plain, Outcome, Binds
  <1>3. CASE c.op \in {"create_refund", "replace_item"}
    BY <1>2, <1>3 DEF Returned
  <1>4. CASE c.op \notin {"create_refund", "replace_item"}
    <2>1. /\ c.op \in {"get_order", "check_refund_policy", "check_replacement_policy", "cancel_order"} => c.order = d.order
          /\ c.op = "get_customer" => c.customer = d.customer
          /\ c.op \in {"update_ticket", "escalate_ticket"} => c.ticket = d.ticket
      BY <1>1, <1>2 DEF Required, Plain
    <2>2. c.op \in {"get_customer", "get_order", "check_refund_policy", "check_replacement_policy", "cancel_order",
                    "update_ticket", "escalate_ticket"}
      BY <1>2, <1>4 DEF Required
    <2>3. Returned(s, c) = Returned(s, d)
      BY <1>2, <2>1, <2>2 DEF Returned
    <2>4. QED BY <2>3
  <1>5. QED BY <1>3, <1>4

-----------------------------------------------------------------------------
\* The trace of a run: what is known of it without the run.

OutcomeOf(s, parent, call) ==
  IF Outcome(s, call) = "ok" THEN Event("tool_result", parent, Returned(After(s, call), call))
                             ELSE ErrorEvent(parent, Outcome(s, call))

\* Every call is followed by its outcome, which its place and the state before it determine.
Answered(t) ==
  \A i \in 1..Len(t) : t[i].type = "tool_call" =>
    /\ i < Len(t) /\ t[i].payload \in AgentCalls
    /\ t[i + 1] = OutcomeOf(States(t)[i - 1], i, t[i].payload)

\* Every outcome follows a call.
Preceded(t) == \A i \in 1..Len(t) : IsCallOutcome(t[i]) => i > 1 /\ t[i - 1].type = "tool_call"

RunTrace(t) == Sequence(t) /\ (\A i \in 1..Len(t) : IsEvent(t[i])) /\ Answered(t) /\ Preceded(t)

Ended(t) ==
  /\ Len(t) > 0 /\ (t[Len(t)].type = "final_answer" \/ IsError(t[Len(t)], "MaxStepsExceeded"))
  /\ \A i \in 1..Len(t) : IsClosing(t[i]) => i = Len(t)

Finished(t, passed) ==
  /\ RunTrace(t) /\ Ended(t)
  /\ passed <=> /\ t[Len(t)].type = "final_answer"
                /\ MeetsContract(Score(AttemptedCalls(t), States(t)[Len(t)]))

LEMMA OutcomeShape ==
  ASSUME NEW s, NEW parent, NEW call, NEW e, e = OutcomeOf(s, parent, call)
  PROVE  /\ IsCallOutcome(e) /\ IsEvent(e) /\ e.parent = parent
         /\ e.type \in {"tool_result", "error"}
         /\ e.type = "tool_result" <=> Outcome(s, call) = "ok"
         /\ Outcome(s, call) = "ok" => e.payload = Returned(After(s, call), call)
         /\ Outcome(s, call) # "ok" => e.type = "error" /\ e.payload = [error_type |-> Outcome(s, call)]
  <1>1. Outcome(s, call) \notin {"ModelError", "MaxStepsExceeded"}
    BY DEF Outcome
  <1>2. QED BY <1>1 DEF OutcomeOf, ErrorEvent, Event, IsCallOutcome, IsEvent

\* The state moves with the calls that the services accept.
LEMMA StateMoves ==
  ASSUME NEW t, RunTrace(t), NEW i \in 1..Len(t)
  PROVE  /\ States(t)[0] = SeedEnvironment
         /\ t[i].type = "tool_call" => States(t)[i] = After(States(t)[i - 1], t[i].payload)
         /\ t[i].type # "tool_call" => States(t)[i] = States(t)[i - 1]
  <1>1. Len(t) \in Nat /\ DOMAIN t = 1..Len(t)
    BY Lengths DEF RunTrace
  <1>2. /\ States(t)[0] = SeedEnvironment
        /\ i \in Succeeded(t) => States(t)[i] = Effect(States(t)[i - 1], t[i].payload)
        /\ i \notin Succeeded(t) => States(t)[i] = States(t)[i - 1]
    <2>1. IsReplay(t, Len(t), States(t))
      BY <1>1, StatesReplay
    <2>2. QED BY <1>1, <2>1, ReplaySteps
  <1>3. CASE t[i].type = "tool_call"
    <2>1. i < Len(t) /\ t[i + 1] = OutcomeOf(States(t)[i - 1], i, t[i].payload)
      BY <1>3 DEF RunTrace, Answered
    <2>2. t[i + 1].type = "tool_result" <=> Outcome(States(t)[i - 1], t[i].payload) = "ok"
      <3>1. PICK s, c, e : s = States(t)[i - 1] /\ c = t[i].payload /\ e = t[i + 1]
        OBVIOUS
      <3>2. e = OutcomeOf(s, i, c)
        BY <2>1, <3>1
      <3>3. e.type = "tool_result" <=> Outcome(s, c) = "ok"
        BY <3>2 DEF OutcomeOf, ErrorEvent, Event
      <3>4. QED BY <3>1, <3>3
    <2>3. i \in Succeeded(t) <=> t[i + 1].type = "tool_result"
      BY <1>1, <1>3, <2>1 DEF Succeeded, Places
    <2>4. QED BY <1>2, <1>3, <2>2, <2>3 DEF After
  <1>4. CASE t[i].type # "tool_call"
    BY <1>2, <1>4 DEF Succeeded, Places
  <1>5. QED BY <1>2, <1>3, <1>4

-----------------------------------------------------------------------------
\* Lockstep

Alike(t, u, i) == EventDivergence(Redacted(t[i]), Redacted(u[i])) = "none"
InStep(t, u, n) == n \in Nat /\ n <= Len(t) /\ n <= Len(u) /\ \A i \in 1..n : Alike(t, u, i)

LEMMA AlikeAt ==
  ASSUME NEW t, RunTrace(t), NEW u, RunTrace(u), NEW n, InStep(t, u, n), NEW i \in 1..n
  PROVE  /\ i \in 1..Len(t) /\ i \in 1..Len(u) /\ t[i].type = u[i].type
         /\ t[i].type = "error" => t[i].payload = u[i].payload
         /\ t[i].type = "tool_call" => Veil(t[i].payload) = Veil(u[i].payload)
  <1>1. i \in 1..Len(t) /\ i \in 1..Len(u)
    BY Lengths DEF RunTrace, InStep
  <1>2. IsEvent(t[i]) /\ IsEvent(u[i]) /\ Alike(t, u, i)
    BY <1>1 DEF RunTrace, InStep
  <1>3. QED BY <1>1, <1>2, AlikeMeans DEF Alike

LEMMA Lockstep ==
  ASSUME NEW t, RunTrace(t), NEW u, RunTrace(u), NEW n, InStep(t, u, n)
  PROVE  \A i \in 0..n : States(t)[i] = States(u)[i]
  <1> DEFINE Bad == {i \in 0..n : States(t)[i] # States(u)[i]}
  <1>1. SUFFICES ASSUME Bad # {} PROVE FALSE
    OBVIOUS
  <1>2. PICK i \in Bad : \A k \in Bad : i <= k
    <2>1. Bad \subseteq Nat
      BY DEF InStep
    <2>2. QED BY <1>1, <2>1, LeastNatural
  <1>3. i # 0
    <2>1. /\ IsReplay(t, Len(t), States(t)) /\ Len(t) \in Nat
          /\ IsReplay(u, Len(u), States(u)) /\ Len(u) \in Nat
      BY Lengths, StatesReplay DEF RunTrace
    <2>2. States(t)[0] = States(u)[0]
      BY <2>1, ReplaySteps
    <2>3. QED BY <1>2, <2>2
  <1>4. i \in 1..n /\ i - 1 \in 0..n /\ i - 1 < i
    BY <1>2, <1>3 DEF InStep
  <1>5. States(t)[i - 1] = States(u)[i - 1]
    BY <1>2, <1>4
  <1>6. /\ i \in 1..Len(t) /\ i \in 1..Len(u) /\ t[i].type = u[i].type
        /\ t[i].type = "tool_call" => Veil(t[i].payload) = Veil(u[i].payload)
    BY <1>4, AlikeAt
  <1>7. CASE t[i].type # "tool_call"
    BY <1>2, <1>5, <1>6, <1>7, StateMoves
  <1>8. CASE t[i].type = "tool_call"
    <2>1. IsCall(t[i].payload) /\ IsCall(u[i].payload)
      BY <1>6, <1>8, RunnerAssumption DEF RunnerAssumption, RunTrace, Answered
    <2>2. After(States(t)[i - 1], t[i].payload) = After(States(t)[i - 1], u[i].payload)
      BY <1>6, <1>8, <2>1, SameOutcome
    <2>3. QED BY <1>2, <1>5, <1>6, <1>8, <2>2, StateMoves
  <1>9. QED BY <1>7, <1>8

\* A call and its outcome differ together: in lockstep up to a call, also in its outcome.
LEMMA OutcomesAlike ==
  ASSUME NEW t, RunTrace(t), NEW u, RunTrace(u), NEW n, InStep(t, u, n),
         NEW i \in 1..n, t[i].type = "tool_call"
  PROVE  /\ i < Len(t) /\ i < Len(u) /\ Alike(t, u, i + 1)
         /\ Veil(t[i + 1].payload) = Veil(u[i + 1].payload)
  <1>1. /\ i \in 1..Len(t) /\ i \in 1..Len(u) /\ u[i].type = "tool_call"
        /\ Veil(t[i].payload) = Veil(u[i].payload)
    BY AlikeAt
  <1>2. States(t)[i - 1] = States(u)[i - 1]
    <2>1. i - 1 \in 0..n
      BY DEF InStep
    <2>2. QED BY <2>1, Lockstep
  <1>3. PICK s : s = States(t)[i - 1]
    OBVIOUS
  <1>4. PICK c, d : c = t[i].payload /\ d = u[i].payload
    OBVIOUS
  <1>5. /\ i < Len(t) /\ c \in AgentCalls /\ t[i + 1] = OutcomeOf(s, i, c)
        /\ i < Len(u) /\ d \in AgentCalls /\ u[i + 1] = OutcomeOf(s, i, d)
    BY <1>1, <1>2, <1>3, <1>4 DEF RunTrace, Answered
  <1>6. IsCall(c) /\ IsCall(d) /\ Veil(c) = Veil(d)
    BY <1>1, <1>4, <1>5, RunnerAssumption DEF RunnerAssumption
  <1>7. Outcome(s, c) = Outcome(s, d) /\ After(s, c) = After(s, d)
    BY <1>6, SameOutcome
  <1>8. PICK l, r : l = OutcomeOf(s, i, c) /\ r = OutcomeOf(s, i, d)
    OBVIOUS
  <1>9. /\ IsEvent(l) /\ IsEvent(r) /\ l.type \in {"tool_result", "error"} /\ r.type \in {"tool_result", "error"}
        /\ l.type = "tool_result" <=> Outcome(s, c) = "ok"
        /\ r.type = "tool_result" <=> Outcome(s, d) = "ok"
        /\ Outcome(s, c) = "ok" => l.payload = Returned(After(s, c), c)
        /\ Outcome(s, d) = "ok" => r.payload = Returned(After(s, d), d)
        /\ Outcome(s, c) # "ok" => l.payload = [error_type |-> Outcome(s, c)]
        /\ Outcome(s, d) # "ok" => r.payload = [error_type |-> Outcome(s, d)]
    BY <1>8, OutcomeShape
  <1>10. Veil(l.payload) = Veil(r.payload)
    <2>1. CASE Outcome(s, c) = "ok"
      BY <1>6, <1>7, <1>9, <2>1, SameReturn
    <2>2. CASE Outcome(s, c) # "ok"
      BY <1>7, <1>9, <2>2
    <2>3. QED BY <2>1, <2>2
  <1>11. EventDivergence(Redacted(l), Redacted(r)) = "none"
    <2>1. l.type = r.type /\ (l.type = "error" => l.payload = r.payload)
      BY <1>7, <1>9
    <2>2. QED BY <1>9, <2>1, RedactedEvent DEF EventDivergence
  <1>12. QED BY <1>5, <1>8, <1>10, <1>11 DEF Alike

\* A run's end is no other run's middle.
LEMMA EndTogether ==
  ASSUME NEW t, RunTrace(t), Ended(t), NEW u, RunTrace(u), Ended(u), NEW n, InStep(t, u, n),
         n = Len(t) \/ n = Len(u)
  PROVE  Len(t) = Len(u) /\ n \in 1..n /\ t[n].type = u[n].type
  <1>1. n \in 1..n
    BY DEF InStep, Ended
  <1>2. /\ n \in 1..Len(t) /\ n \in 1..Len(u) /\ t[n].type = u[n].type
        /\ t[n].type = "error" => t[n].payload = u[n].payload
    BY <1>1, AlikeAt
  <1>3. IsClosing(t[n]) <=> IsClosing(u[n])
    BY <1>2 DEF IsClosing, IsError
  <1>4. IsClosing(t[Len(t)]) /\ IsClosing(u[Len(u)])
    BY DEF Ended, IsClosing
  <1>5. Len(t) = Len(u)
    BY <1>2, <1>3, <1>4 DEF Ended
  <1>6. QED BY <1>1, <1>2, <1>5

\* What a contract can see of a call is not redacted.
LEMMA SameMatch ==
  ASSUME NEW c, IsCall(c), NEW d, IsCall(d), Veil(c) = Veil(d), NEW p \in ExpectedActions \cup ForbiddenActions
  PROVE  Matches(p, c) <=> Matches(p, d)
  <1>1. DOMAIN c = DOMAIN d /\ \A f \in DOMAIN c : f \notin SENSITIVE_KEYS => c[f] = d[f]
    BY VeiledArguments
  <1>2. DOMAIN p \cap SENSITIVE_KEYS = {}
    BY ContractIsVisible DEF ContractIsVisible
  <1>3. QED BY <1>1, <1>2 DEF Matches

\* Runs in lockstep to the end are scored alike.
LEMMA SameVerdict ==
  ASSUME NEW t, NEW passed, Finished(t, passed), NEW u, NEW upassed, Finished(u, upassed),
         Len(t) = Len(u), InStep(t, u, Len(t))
  PROVE  passed <=> upassed
  <1> DEFINE n == Len(t)
  <1>1. RunTrace(t) /\ RunTrace(u) /\ Ended(t) /\ Ended(u) /\ n \in Nat /\ DOMAIN t = 1..n /\ DOMAIN u = 1..n
    BY Lengths DEF Finished, RunTrace
  <1>2. t[n].type = u[n].type /\ n \in 1..n
    BY <1>1, EndTogether
  <1>3. States(t)[n] = States(u)[n]
    <2>1. n \in 0..n
      BY <1>1
    <2>2. QED BY <1>1, <2>1, Lockstep
  <1>4. ASSUME NEW i \in 1..n
        PROVE  /\ t[i].type = "tool_call" <=> u[i].type = "tool_call"
               /\ t[i].type = "tool_call" => /\ IsCall(t[i].payload) /\ IsCall(u[i].payload)
                                             /\ Veil(t[i].payload) = Veil(u[i].payload)
    <2>1. /\ t[i].type = u[i].type
          /\ t[i].type = "tool_call" => Veil(t[i].payload) = Veil(u[i].payload)
      BY <1>1, AlikeAt
    <2>2. t[i].type = "tool_call" => t[i].payload \in AgentCalls /\ u[i].payload \in AgentCalls
      BY <1>1, <2>1 DEF RunTrace, Answered
    <2>3. QED BY <2>1, <2>2, RunnerAssumption DEF RunnerAssumption
  <1>5. ASSUME NEW p \in ExpectedActions \cup ForbiddenActions
        PROVE  (\E c \in AttemptedCalls(t) : Matches(p, c)) <=> (\E c \in AttemptedCalls(u) : Matches(p, c))
    <2>1. \A i \in 1..n : t[i].type = "tool_call" => (Matches(p, t[i].payload) <=> Matches(p, u[i].payload))
      BY <1>4, SameMatch
    <2>2. (\E c \in AttemptedCalls(t) : Matches(p, c)) <=>
            \E i \in 1..n : t[i].type = "tool_call" /\ Matches(p, t[i].payload)
      BY <1>1 DEF AttemptedCalls, Places
    <2>3. (\E c \in AttemptedCalls(u) : Matches(p, c)) <=>
            \E i \in 1..n : u[i].type = "tool_call" /\ Matches(p, u[i].payload)
      BY <1>1 DEF AttemptedCalls, Places
    <2>4. QED BY <1>4, <2>1, <2>2, <2>3
  <1>6. PICK env1 : env1 = States(t)[n]
    OBVIOUS
  <1>7. Score(AttemptedCalls(t), env1) = Score(AttemptedCalls(u), env1)
    <2>1. {p \in ExpectedActions : ~\E c \in AttemptedCalls(t) : Matches(p, c)} =
            {p \in ExpectedActions : ~\E c \in AttemptedCalls(u) : Matches(p, c)}
      BY <1>5
    <2>2. {p \in ForbiddenActions : \E c \in AttemptedCalls(t) : Matches(p, c)} =
            {p \in ForbiddenActions : \E c \in AttemptedCalls(u) : Matches(p, c)}
      BY <1>5
    <2>3. QED BY <2>1, <2>2 DEF Score
  <1>8. QED BY <1>2, <1>3, <1>6, <1>7 DEF Finished

\* Up to the first difference the runs are in lockstep, so it is no outcome of a call.
LEMMA BlameNoOutcome ==
  ASSUME NEW t, RunTrace(t), NEW u, RunTrace(u), NEW n \in Nat, InStep(t, u, n - 1),
         n \in 1..Len(t), n \in 1..Len(u), ~Alike(t, u, n)
  PROVE  ~IsCallOutcome(t[n]) /\ ~IsCallOutcome(u[n])
  <1>1. SUFFICES ASSUME IsCallOutcome(t[n]) \/ IsCallOutcome(u[n]) PROVE FALSE
    OBVIOUS
  <1>2. n > 1 /\ n - 1 \in 1..(n - 1)
    BY <1>1 DEF RunTrace, Preceded
  <1>3. t[n - 1].type = u[n - 1].type
    BY <1>2, AlikeAt
  <1>4. t[n - 1].type = "tool_call"
    BY <1>1, <1>3 DEF RunTrace, Preceded
  <1>5. Alike(t, u, (n - 1) + 1)
    BY <1>2, <1>4, OutcomesAlike
  <1>6. QED BY <1>5

\* Outcomes before the first difference are the same, as they are stored.
LEMMA SameOutcomesBefore ==
  ASSUME NEW t, RunTrace(t), NEW u, RunTrace(u), NEW n, InStep(t, u, n), NEW i \in 1..n
  PROVE  IsCallOutcome(u[i]) => Veil(t[i].payload) = Veil(u[i].payload)
  <1>1. SUFFICES ASSUME IsCallOutcome(u[i]) PROVE Veil(t[i].payload) = Veil(u[i].payload)
    OBVIOUS
  <1>2. i \in 1..Len(u) /\ n \in Nat
    BY AlikeAt DEF InStep
  <1>3. i > 1 /\ u[i - 1].type = "tool_call" /\ i - 1 \in 1..n /\ (i - 1) + 1 = i
    BY <1>1, <1>2 DEF RunTrace, Preceded
  <1>4. t[i - 1].type = "tool_call"
    BY <1>3, AlikeAt
  <1>5. Veil(t[(i - 1) + 1].payload) = Veil(u[(i - 1) + 1].payload)
    BY <1>3, <1>4, OutcomesAlike
  <1>6. QED BY <1>3, <1>5

-----------------------------------------------------------------------------
\* First divergence

LEMMA StoredShape ==
  ASSUME NEW t, Sequence(t)
  PROVE  /\ Sequence(StoredTrace(t)) /\ Len(StoredTrace(t)) = Len(t) /\ DOMAIN StoredTrace(t) = DOMAIN t
         /\ \A i \in DOMAIN t : StoredTrace(t)[i] = Redacted(t[i])
  <1>1. PICK n \in Nat : n = Len(t) /\ DOMAIN t = 1..n
    BY Lengths
  <1>2. PICK R : R = {Redacted(t[i]) : i \in DOMAIN t}
    OBVIOUS
  <1>3. StoredTrace(t) \in [1..n -> R] /\ \A i \in DOMAIN t : StoredTrace(t)[i] = Redacted(t[i])
    BY <1>1, <1>2 DEF StoredTrace
  <1>4. StoredTrace(t) \in Seq(R) /\ Len(StoredTrace(t)) = n
    BY <1>3
  <1>5. QED BY <1>1, <1>3, <1>4, SequenceOf

LEMMA Divergences ==
  ASSUME NEW t, Sequence(t), NEW u, Sequence(u), NEW a, a = FirstDivergence(StoredTrace(t), StoredTrace(u))
  PROVE  \/ a = NoAttribution /\ Len(t) = Len(u) /\ InStep(t, u, Len(t))
         \/ \E n \in 1..Len(t) : /\ n \in 1..Len(u) /\ InStep(t, u, n - 1) /\ ~Alike(t, u, n)
                                 /\ a.baseline = n /\ a.candidate = n
         \/ Len(u) < Len(t) /\ InStep(t, u, Len(u)) /\ a.baseline = Len(u) + 1 /\ a.candidate = 0
         \/ Len(t) < Len(u) /\ InStep(t, u, Len(t)) /\ a.baseline = 0 /\ a.candidate = Len(t) + 1
  <1> DEFINE l == StoredTrace(t)   r == StoredTrace(u)
             shared == {i \in DOMAIN l : i \in DOMAIN r}
             differing == {i \in shared : EventDivergence(l[i], r[i]) # "none"}
             first == CHOOSE i \in differing : \A j \in differing : i <= j
  <1>1. /\ Len(t) \in Nat /\ DOMAIN l = 1..Len(t) /\ Len(l) = Len(t)
        /\ Len(u) \in Nat /\ DOMAIN r = 1..Len(u) /\ Len(r) = Len(u)
        /\ \A i \in 1..Len(t) : l[i] = Redacted(t[i])
        /\ \A i \in 1..Len(u) : r[i] = Redacted(u[i])
    BY Lengths, StoredShape
  <1>2. /\ \A i : i \in shared <=> i \in 1..Len(t) /\ i \in 1..Len(u)
        /\ \A i \in shared : i \in differing <=> ~Alike(t, u, i)
        /\ differing \subseteq shared
    BY <1>1 DEF Alike
  <1>3. a = IF differing # {} THEN Attribution(EventDivergence(l[first], r[first]), first, first)
            ELSE IF Len(r) < Len(l) THEN Attribution("premature_termination", Len(r) + 1, 0)
            ELSE IF Len(l) < Len(r) THEN Attribution("premature_termination", 0, Len(l) + 1)
            ELSE NoAttribution
    BY DEF FirstDivergence
  <1>4. CASE differing # {}
    <2>1. differing \subseteq Nat
      BY <1>2
    <2>2. \E i \in differing : \A j \in differing : i <= j
      BY <1>4, <2>1, LeastNatural
    <2>3. first \in differing /\ \A j \in differing : first <= j
      BY <2>2
    <2> HIDE DEF first
    <2>4. first \in 1..Len(t) /\ first \in 1..Len(u) /\ ~Alike(t, u, first)
      BY <1>2, <2>3
    <2>5. InStep(t, u, first - 1)
      <3>1. \A i \in 1..(first - 1) : i \in shared /\ i \notin differing
        BY <1>1, <1>2, <2>3, <2>4
      <3>2. \A i \in 1..(first - 1) : Alike(t, u, i)
        BY <1>2, <3>1
      <3>3. QED BY <1>1, <2>4, <3>2 DEF InStep
    <2>6. a.baseline = first /\ a.candidate = first
      BY <1>3, <1>4 DEF Attribution
    <2>7. QED BY <2>4, <2>5, <2>6
  <1>5. CASE differing = {}
    <2>1. ASSUME NEW n \in Nat, n <= Len(t), n <= Len(u) PROVE InStep(t, u, n)
      <3>1. \A i \in 1..n : i \in shared
        BY <1>1, <1>2, <2>1
      <3>2. \A i \in 1..n : Alike(t, u, i)
        BY <1>2, <1>5, <3>1
      <3>3. QED BY <2>1, <3>2 DEF InStep
    <2>2. a = IF Len(u) < Len(t) THEN Attribution("premature_termination", Len(u) + 1, 0)
              ELSE IF Len(t) < Len(u) THEN Attribution("premature_termination", 0, Len(t) + 1)
              ELSE NoAttribution
      BY <1>1, <1>3, <1>5
    <2> HIDE DEF l, r, shared, differing, first
    <2>3. CASE Len(u) < Len(t)
      <3>1. InStep(t, u, Len(u))
        BY <1>1, <2>1, <2>3
      <3>2. a.baseline = Len(u) + 1 /\ a.candidate = 0
        BY <2>2, <2>3 DEF Attribution
      <3>3. QED BY <2>3, <3>1, <3>2
    <2>4. CASE Len(t) < Len(u)
      <3>1. InStep(t, u, Len(t)) /\ ~(Len(u) < Len(t))
        BY <1>1, <2>1, <2>4
      <3>2. a.baseline = 0 /\ a.candidate = Len(t) + 1
        BY <2>2, <2>4, <3>1 DEF Attribution
      <3>3. QED BY <2>4, <3>1, <3>2
    <2>5. CASE Len(t) = Len(u)
      <3>1. InStep(t, u, Len(t)) /\ ~(Len(u) < Len(t)) /\ ~(Len(t) < Len(u))
        BY <1>1, <2>1, <2>5
      <3>2. QED BY <2>2, <2>5, <3>1
    <2>6. Len(u) < Len(t) \/ Len(t) < Len(u) \/ Len(t) = Len(u)
      <3>1. Len(t) \in Nat /\ Len(u) \in Nat
        BY Lengths
      <3>2. \A m, n \in Nat : n < m \/ m < n \/ m = n
        OBVIOUS
      <3>3. QED BY <3>1, <3>2
    <2>7. QED BY <2>3, <2>4, <2>5, <2>6, Zenon
  <1>6. QED BY <1>4, <1>5

-----------------------------------------------------------------------------
\* A run leaves such a trace.

EventsInv == (\A i \in 1..Len(trace) : IsEvent(trace[i])) /\ Answered(trace)

LEMMA StepStates ==
  ASSUME ShapeInv, Next
  PROVE  \A i \in 0..Len(trace) : States(trace')[i] = States(trace)[i]
  <1>1. PICK u : u = trace'
    OBVIOUS
  <1>2. PICK n : n = Len(trace)
    OBVIOUS
  <1>3. n \in Nat /\ Len(u) \in Nat /\ n <= Len(u) /\ n <= Len(trace) /\ n + 1 \notin 1..n
    BY <1>1, <1>2, StepCalls
  <1>4. \A i \in 1..n : i \in Succeeded(trace) <=> i \in Succeeded(u)
    BY <1>1, <1>2, <1>3, StepCalls
  <1>5. \A i \in 1..n : i \in Succeeded(trace) => trace[i].payload = u[i].payload
    BY <1>1, StepCalls
  <1>6. \A i \in 0..n : States(trace)[i] = States(u)[i]
    BY <1>2, <1>3, <1>4, <1>5, SameStates
  <1>7. QED BY <1>1, <1>2, <1>6

LEMMA MadeEvents ==
  ASSUME NEW parent, NEW payload, NEW class
  PROVE  /\ \A type : type # "error" => IsEvent(Event(type, parent, payload)) /\ Event(type, parent, payload).type = type
         /\ IsEvent(ErrorEvent(parent, class)) /\ ErrorEvent(parent, class).type = "error"
  BY DEF IsEvent, ErrorEvent, Event

LEMMA StepEvents == ASSUME ShapeInv, EventsInv, ReplayInv, Next PROVE EventsInv'
  <1>1. PICK n \in Nat : n = Len(trace)
    BY Lengths DEF ShapeInv
  <1>2. PICK t, u : t = trace /\ u = trace'
    OBVIOUS
  <1>3. \A i \in 0..n : States(u)[i] = States(t)[i]
    BY <1>1, <1>2, StepStates
  <1>4. /\ \A i \in 1..n : IsEvent(t[i])
        /\ \A i \in 1..n : t[i].type = "tool_call" => /\ i + 1 \in 1..n /\ t[i].payload \in AgentCalls
                                                      /\ t[i + 1] = OutcomeOf(States(t)[i - 1], i, t[i].payload)
    <2>1. \A i \in 1..n : i < n => i + 1 \in 1..n
      OBVIOUS
    <2>2. QED BY <1>1, <1>2, <2>1 DEF EventsInv, Answered
  <1>5. ASSUME n <= Len(u), \A i \in 1..n : u[i] = t[i]
        PROVE  \A i \in 1..n : /\ IsEvent(u[i])
                               /\ u[i].type = "tool_call" =>
                                    /\ i < Len(u) /\ u[i].payload \in AgentCalls
                                    /\ u[i + 1] = OutcomeOf(States(u)[i - 1], i, u[i].payload)
    <2>1. SUFFICES ASSUME NEW i \in 1..n
                   PROVE  /\ IsEvent(u[i])
                          /\ u[i].type = "tool_call" => /\ i < Len(u) /\ u[i].payload \in AgentCalls
                                                        /\ u[i + 1] = OutcomeOf(States(u)[i - 1], i, u[i].payload)
      OBVIOUS
    <2>2. CASE t[i].type # "tool_call"
      BY <1>4, <1>5, <2>2
    <2>3. CASE t[i].type = "tool_call"
      <3>1. i + 1 \in 1..n /\ t[i].payload \in AgentCalls /\ t[i + 1] = OutcomeOf(States(t)[i - 1], i, t[i].payload)
        BY <1>4, <2>3
      <3>2. i - 1 \in 0..n /\ u[i] = t[i] /\ u[i + 1] = t[i + 1]
        BY <1>5, <3>1
      <3>3. States(u)[i - 1] = States(t)[i - 1]
        BY <1>3, <3>2
      <3>4. i < Len(u)
        <4>1. Len(u) \in Nat
          BY <1>2, StepCalls
        <4>2. QED BY <1>5, <3>1, <4>1
      <3>5. QED BY <1>4, <3>1, <3>2, <3>3, <3>4
    <2>4. QED BY <2>2, <2>3
  <1>6. ASSUME NEW x, Adds1(x), IsEvent(x), x.type # "tool_call"
        PROVE  EventsInv'
    <2>1. Len(u) = n + 1 /\ u[n + 1] = x /\ \A i \in 1..n : u[i] = t[i]
      BY <1>1, <1>2, <1>6 DEF Adds1, Extends1
    <2>2. \A i \in 1..Len(u) : i \in 1..n \/ i = n + 1
      BY <2>1
    <2>3. n <= Len(u)
      BY <2>1
    <2>4. (\A i \in 1..Len(u) : IsEvent(u[i])) /\ Answered(u)
      BY <1>5, <1>6, <2>1, <2>2, <2>3 DEF Answered
    <2>5. QED BY <1>2, <2>4 DEF EventsInv
  <1>7. CASE trace' = trace /\ (ModelFails \/ ScoreRun)
    BY <1>7 DEF EventsInv
  <1>8. CASE Request /\ Adds1(Event("model_request", NoParent, [messages |-> messages]))
    BY <1>6, <1>8, MadeEvents
  <1>9. CASE StepLimit /\ Adds1(ErrorEvent(NoParent, "MaxStepsExceeded"))
    BY <1>6, <1>9, MadeEvents
  <1>10. CASE Retry /\ Adds1(Event("retry", LatestRequest(trace), [attempt |-> attempt]))
    BY <1>6, <1>10, MadeEvents
  <1>11. CASE ModelDown /\ Adds1(ErrorEvent(LatestRequest(trace), "ModelError"))
    BY <1>6, <1>11, MadeEvents
  <1>12. ASSUME NEW content, NEW calls, AskForTools, Adds1(Response(content, calls))
         PROVE  EventsInv'
    BY <1>6, <1>12, MadeEvents DEF Response
  <1>13. ASSUME NEW content, Answer,
                Adds2(Response(content, <<>>), Event("final_answer", NoParent, [content |-> content]))
         PROVE  EventsInv'
    <2>1. PICK x : x = Response(content, <<>>)
      OBVIOUS
    <2>2. PICK y : y = Event("final_answer", NoParent, [content |-> content])
      OBVIOUS
    <2>3. IsEvent(x) /\ IsEvent(y) /\ x.type # "tool_call" /\ y.type # "tool_call"
      BY <2>1, <2>2, MadeEvents DEF Response
    <2>4. Len(u) = n + 2 /\ u[n + 1] = x /\ u[n + 2] = y /\ \A i \in 1..n : u[i] = t[i]
      BY <1>1, <1>2, <1>13, <2>1, <2>2 DEF Adds2, Extends2
    <2>5. n <= Len(u) /\ \A i \in 1..Len(u) : i \in 1..n \/ i = n + 1 \/ i = n + 2
      BY <2>4
    <2>6. (\A i \in 1..Len(u) : IsEvent(u[i])) /\ Answered(u)
      BY <1>5, <2>3, <2>4, <2>5 DEF Answered
    <2>7. QED BY <1>2, <2>6 DEF EventsInv
  <1>14. ASSUME NEW call \in AgentCalls,
                Adds2(Event("tool_call", NoParent, call), OutcomeEvent(Len(trace) + 1, call))
         PROVE  EventsInv'
    <2>1. PICK x : x = Event("tool_call", NoParent, call)
      OBVIOUS
    <2>2. PICK y : y = OutcomeOf(env, n + 1, call)
      OBVIOUS
    <2>3. y = OutcomeEvent(Len(trace) + 1, call)
      BY <1>1, <2>2 DEF OutcomeOf, OutcomeEvent
    <2>4. IsEvent(x) /\ x.type = "tool_call" /\ x.payload = call
      BY <2>1, MadeEvents DEF Event
    <2>5. IsEvent(y) /\ y.type # "tool_call"
      BY <2>2, OutcomeShape
    <2>6. Len(u) = n + 2 /\ u[n + 1] = x /\ u[n + 2] = y /\ \A i \in 1..n : u[i] = t[i]
      BY <1>1, <1>2, <1>14, <2>1, <2>3 DEF Adds2, Extends2
    <2>7. n <= Len(u) /\ \A i \in 1..Len(u) : i \in 1..n \/ i = n + 1 \/ i = n + 2
      BY <2>6
    <2>8. States(u)[n] = env
      BY <1>1, <1>2, <1>3 DEF ReplayInv
    <2>9. (n + 1) + 1 = n + 2 /\ (n + 1) - 1 = n /\ n + 1 < Len(u)
      BY <2>6
    <2>10. u[(n + 1) + 1] = OutcomeOf(States(u)[(n + 1) - 1], n + 1, u[n + 1].payload)
      BY <2>2, <2>4, <2>6, <2>8, <2>9
    <2>11. \A i \in 1..Len(u) : IsEvent(u[i])
      BY <1>5, <2>4, <2>5, <2>6, <2>7
    <2>12. ASSUME NEW i \in 1..Len(u), u[i].type = "tool_call"
           PROVE  /\ i < Len(u) /\ u[i].payload \in AgentCalls
                  /\ u[i + 1] = OutcomeOf(States(u)[i - 1], i, u[i].payload)
      <3>1. CASE i \in 1..n
        BY <1>5, <2>6, <2>7, <2>12, <3>1
      <3>2. CASE i = n + 1
        BY <2>4, <2>6, <2>9, <2>10, <3>2
      <3>3. CASE i = n + 2
        BY <2>5, <2>6, <2>12, <3>3
      <3>4. QED BY <2>7, <3>1, <3>2, <3>3
    <2>13. QED BY <1>2, <2>11, <2>12 DEF EventsInv, Answered
  <1>15. QED BY <1>7, <1>8, <1>9, <1>10, <1>11, <1>12, <1>13, <1>14, StepTrace

-----------------------------------------------------------------------------
\* The pair

BaselineInv ==
  baseline # NotRun =>
    /\ baseline.passed \in {"true", "false"}
    /\ \E t : baseline.trace = StoredTrace(t) /\ Finished(t, baseline.passed = "true")

ComparedInv ==
  pc = "compared" =>
    /\ baseline # NotRun /\ Finished(trace, report.passed)
    /\ attribution = IF baseline.passed = "true" /\ ~report.passed
                       THEN FirstDivergence(baseline.trace, StoredTrace(trace))
                       ELSE NoAttribution

PairInv == RunInv /\ EventsInv /\ BaselineInv /\ ComparedInv

LEMMA ScoredIsFinished ==
  ASSUME RunInv, EventsInv, pc = "scored"
  PROVE  Finished(trace, report.passed)
  <1>1. Sequence(trace) /\ Len(trace) \in Nat
    BY Lengths DEF RunInv, ShapeInv
  <1>2. Preceded(trace)
    <2>1. \A i \in 1..Len(trace) : i - 1 > 0 => i > 1
      BY <1>1
    <2>2. QED BY <2>1 DEF RunInv, ChainInv, Caused, Preceded
  <1>3. Ended(trace)
    BY <1>1 DEF RunInv, EndInv, ClosedLast, EndsInAnswer, EndsAtLimit, Ended
  <1>4. report.passed <=> /\ trace[Len(trace)].type = "final_answer"
                          /\ MeetsContract(Score(AttemptedCalls(trace), States(trace)[Len(trace)]))
    BY DEF RunInv, ScoredInv, ReplayInv
  <1>5. QED BY <1>1, <1>2, <1>3, <1>4 DEF EventsInv, Finished, RunTrace

LEMMA InitEvents == Init => EventsInv
  BY DEF Init, EventsInv, Answered

LEMMA InitPair == PairInit => PairInv
  <1>1. PairInit => BaselineInv /\ ComparedInv
    BY DEF PairInit, Init, BaselineInv, ComparedInv
  <1>2. QED BY <1>1, InitRun, InitEvents DEF PairInit, PairInv

LEMMA StepPair == ASSUME PairInv, [PairNext]_pairVars PROVE PairInv'
  <1>0. report.passed \in BOOLEAN
    BY DEF PairInv, RunInv, ShapeInv
  <1>1. CASE Next /\ UNCHANGED <<baseline, attribution>>
    <2>1. RunInv' /\ EventsInv'
      BY <1>1, StepRun, StepEvents DEF PairInv, RunInv
    <2>2. pc' # "compared"
      BY <1>1 DEF Next, Request, StepLimit, Retry, ModelDown, ModelFails, Answer, AskForTools, Invoke, ScoreRun
    <2>3. QED BY <1>1, <2>1, <2>2 DEF PairInv, BaselineInv, ComparedInv
  <1>2. CASE StartCandidate
    <2>1. Init'
      BY <1>2 DEF StartCandidate, Init
    <2>2. Init' => RunInv' /\ EventsInv'
      BY InitRun, InitEvents, PTL
    <2>3. Finished(trace, report.passed)
      BY <1>2, ScoredIsFinished DEF StartCandidate, PairInv
    <2>4. /\ baseline'.trace = StoredTrace(trace) /\ baseline'.passed \in {"true", "false"}
          /\ (baseline'.passed = "true") = report.passed
      BY <1>0, <1>2 DEF StartCandidate, Passed
    <2>5. BaselineInv'
      BY <2>3, <2>4 DEF BaselineInv
    <2>6. ComparedInv'
      BY <2>1 DEF ComparedInv, Init
    <2>7. QED BY <2>1, <2>2, <2>5, <2>6 DEF PairInv
  <1>3. CASE Compare
    <2>1. /\ pc = "scored" /\ pc' = "compared" /\ baseline # NotRun /\ baseline' = baseline
          /\ UNCHANGED <<step, attempt, messages, todo, trace, env, report>>
      BY <1>3 DEF Compare
    <2>2. RunInv' /\ EventsInv'
      BY <2>1 DEF PairInv, RunInv, ShapeInv, AskedInv, ChainInv, EndInv, ClosedLast, RefundInv, Refunded, Refunds,
         ReplayInv, ScoredInv, TalkInv, EventsInv
    <2>3. Finished(trace, report.passed)
      BY <2>1, ScoredIsFinished DEF PairInv
    <2>4. BaselineInv'
      BY <2>1 DEF PairInv, BaselineInv
    <2>5. baseline.passed \in {"true", "false"}
      BY <2>1 DEF PairInv, BaselineInv
    <2>6. Disposition(baseline.passed, Passed(report)) = "regression" <=> baseline.passed = "true" /\ ~report.passed
      BY <1>0, <2>5 DEF Disposition, Passed
    <2>7. attribution' = IF baseline.passed = "true" /\ ~report.passed
                           THEN FirstDivergence(baseline.trace, StoredTrace(trace))
                           ELSE NoAttribution
      BY <1>3, <2>6 DEF Compare
    <2>8. ComparedInv'
      BY <2>1, <2>3, <2>7 DEF ComparedInv
    <2>9. QED BY <2>2, <2>4, <2>8 DEF PairInv
  <1>4. CASE UNCHANGED pairVars
    <2>1. UNCHANGED vars /\ UNCHANGED <<baseline, attribution>>
      BY <1>4 DEF pairVars
    <2>2. RunInv'
      BY <2>1, StepRun DEF PairInv
    <2>3. EventsInv' /\ BaselineInv' /\ ComparedInv'
      BY <2>1 DEF vars, PairInv, EventsInv, BaselineInv, ComparedInv
    <2>4. QED BY <2>2, <2>3 DEF PairInv
  <1>5. QED BY <1>1, <1>2, <1>3, <1>4 DEF PairNext

THEOREM PairInductive == PairSpec => []PairInv
  BY InitPair, StepPair, PTL DEF PairSpec

\* What is known of a pair once a regression has been attributed: two finished runs
\* and their first difference, or two that differ nowhere.
LEMMA ComparedPair ==
  ASSUME PairInv, Compared
  PROVE  \E t : /\ baseline.trace = StoredTrace(t) /\ Finished(t, baseline.passed = "true")
                /\ Finished(trace, report.passed)
                /\ Regressed => attribution = FirstDivergence(StoredTrace(t), StoredTrace(trace))
                /\ Attributed => Regressed
  BY DEF PairInv, BaselineInv, ComparedInv, Compared, Regressed, Attributed

\* A finished pair differs at an event that both runs have, or nowhere.
LEMMA PairDivergence ==
  ASSUME NEW t, NEW passed, Finished(t, passed), NEW u, NEW upassed, Finished(u, upassed),
         NEW a, a = FirstDivergence(StoredTrace(t), StoredTrace(u))
  PROVE  \/ a = NoAttribution /\ Len(t) = Len(u) /\ InStep(t, u, Len(t))
         \/ \E n \in 1..Len(t) : /\ n \in 1..Len(u) /\ InStep(t, u, n - 1) /\ ~Alike(t, u, n)
                                 /\ a.baseline = n /\ a.candidate = n
  <1>1. RunTrace(t) /\ Ended(t) /\ RunTrace(u) /\ Ended(u) /\ Sequence(t) /\ Sequence(u)
    BY DEF Finished, RunTrace
  <1>2. Len(t) \in Nat /\ Len(u) \in Nat
    BY <1>1, Lengths
  <1>3. ~(Len(u) < Len(t) /\ InStep(t, u, Len(u))) /\ ~(Len(t) < Len(u) /\ InStep(t, u, Len(t)))
    <2>1. \A n : InStep(t, u, n) /\ (n = Len(t) \/ n = Len(u)) => Len(t) = Len(u)
      BY <1>1, EndTogether
    <2>2. \A m, n \in Nat : m < n => m # n
      OBVIOUS
    <2>3. QED BY <1>2, <2>1, <2>2
  <1>4. QED BY <1>1, <1>3, Divergences

\* A task that the baseline passed and the candidate failed always gets an attribution:
\* runs whose stored events look the same are scored the same.
THEOREM RegressionsAreAttributed == PairSpec => []EveryRegressionIsAttributed
  <1>1. ASSUME PairInv, Regressed, attribution = NoAttribution PROVE FALSE
    <2>1. PICK t : /\ Finished(t, baseline.passed = "true") /\ Finished(trace, report.passed)
                   /\ attribution = FirstDivergence(StoredTrace(t), StoredTrace(trace))
      BY <1>1, ComparedPair DEF Regressed
    <2>2. PICK a, u : a = attribution /\ u = trace
      OBVIOUS
    <2>3. \A n \in 1..Len(t) : ~(a.baseline = n)
      <3>1. a.baseline = 0
        BY <1>1, <2>2 DEF NoAttribution, Attribution
      <3>2. QED BY <3>1
    <2>4. Len(t) = Len(u) /\ InStep(t, u, Len(t))
      BY <2>1, <2>2, <2>3, PairDivergence
    <2>5. baseline.passed = "true" <=> report.passed
      <3>1. PICK p, q : p = (baseline.passed = "true") /\ q = report.passed
        OBVIOUS
      <3>2. Finished(t, p) /\ Finished(u, q)
        BY <2>1, <2>2, <3>1
      <3>3. p <=> q
        BY <2>4, <3>2, SameVerdict
      <3>4. QED BY <3>1, <3>3
    <2>6. QED BY <1>1, <2>5 DEF Regressed
  <1>2. PairInv => EveryRegressionIsAttributed
    BY <1>1 DEF EveryRegressionIsAttributed
  <1>3. QED BY <1>2, PairInductive, PTL

\* What is blamed is something that the agent or its model did, never the outcome of a
\* tool: up to the blamed events the runs made the same calls and got the same outcomes.
THEOREM BlameIsTheAgents == PairSpec => []OnlyTheAgentDiverges
  <1>1. ASSUME PairInv, Attributed
        PROVE  /\ attribution.baseline # 0 /\ attribution.candidate # 0
               /\ ~IsCallOutcome(Left) /\ ~IsCallOutcome(Right)
               /\ \A i \in 1..(attribution.baseline - 1) :
                    /\ baseline.trace[i].type = trace[i].type
                    /\ IsCallOutcome(trace[i]) => baseline.trace[i].payload = Redacted(trace[i]).payload
    <2>1. PICK t : /\ baseline.trace = StoredTrace(t)
                   /\ Finished(t, baseline.passed = "true") /\ Finished(trace, report.passed)
                   /\ attribution = FirstDivergence(StoredTrace(t), StoredTrace(trace))
      BY <1>1, ComparedPair DEF Attributed
    <2>2. PICK a, u : a = attribution /\ u = trace
      OBVIOUS
    <2>3. RunTrace(t) /\ RunTrace(u) /\ Sequence(t) /\ Sequence(u)
      BY <2>1, <2>2 DEF Finished, RunTrace
    <2>4. a # NoAttribution
      BY <1>1, <2>2 DEF Attributed
    <2>5. PICK n \in 1..Len(t) : /\ n \in 1..Len(u) /\ InStep(t, u, n - 1) /\ ~Alike(t, u, n)
                                 /\ a.baseline = n /\ a.candidate = n
      BY <2>1, <2>2, <2>4, PairDivergence
    <2>6. n \in Nat /\ n # 0 /\ Len(t) \in Nat /\ DOMAIN t = 1..Len(t)
      BY <2>3, Lengths
    <2>7. ~IsCallOutcome(t[n]) /\ ~IsCallOutcome(u[n])
      BY <2>3, <2>5, <2>6, BlameNoOutcome
    <2>8. \A i \in 1..Len(t) : /\ StoredTrace(t)[i] = Redacted(t[i]) /\ Redacted(t[i]).type = t[i].type
                               /\ Redacted(t[i]).payload = Veil(t[i].payload)
                               /\ IsEvent(t[i]) /\ (t[i].type = "error" => Veil(t[i].payload) = t[i].payload)
      BY <2>3, <2>6, StoredShape, RedactedEvent DEF RunTrace
    <2>9. ~IsCallOutcome(Left) /\ ~IsCallOutcome(Right)
      <3>1. Left = Redacted(t[n]) /\ Right = u[n]
        BY <2>1, <2>2, <2>5, <2>8 DEF Left, Right
      <3>2. IsCallOutcome(Redacted(t[n])) <=> IsCallOutcome(t[n])
        BY <2>5, <2>8 DEF IsCallOutcome
      <3>3. QED BY <2>7, <3>1, <3>2
    <2>10. ASSUME NEW i \in 1..(n - 1)
           PROVE  /\ baseline.trace[i].type = u[i].type
                  /\ IsCallOutcome(u[i]) => baseline.trace[i].payload = Redacted(u[i]).payload
      <3>1. i \in 1..Len(t) /\ i \in 1..Len(u) /\ t[i].type = u[i].type
        BY <2>3, <2>5, AlikeAt
      <3>2. IsCallOutcome(u[i]) => Veil(t[i].payload) = Veil(u[i].payload)
        BY <2>3, <2>5, SameOutcomesBefore
      <3>3. Redacted(u[i]).payload = Veil(u[i].payload)
        BY <2>3, <3>1, RedactedEvent DEF RunTrace
      <3>4. QED BY <2>1, <2>8, <3>1, <3>2, <3>3
    <2>11. QED BY <2>2, <2>5, <2>6, <2>9, <2>10
  <1>2. PairInv => OnlyTheAgentDiverges
    BY <1>1 DEF OnlyTheAgentDiverges
  <1>3. QED BY <1>2, PairInductive, PTL

-----------------------------------------------------------------------------
\* Storing a trace and reading it back

Row(t, i) == [seq |-> i - 1, id |-> i, parent |-> t[i].parent, event |-> Redacted(t[i])]

LEMMA Rows ==
  ASSUME NEW t, Sequence(t), NEW n \in Nat, n = Len(t)
  PROVE  /\ \A row : row \in StorageRows(t) <=> \E i \in 1..n : row = Row(t, i)
         /\ \A i \in 1..n : Row(t, i) \in StorageRows(t)
         /\ \A i, j \in 1..n : Row(t, i) = Row(t, j) => i = j
         /\ IsFiniteSet(StorageRows(t)) /\ Cardinality(StorageRows(t)) = n
  <1>1. DOMAIN t = 1..n
    BY Lengths
  <1>2. \A row : row \in StorageRows(t) <=> \E i \in 1..n : row = Row(t, i)
    BY <1>1 DEF StorageRows, Row
  <1>3. \A i \in 1..n : Row(t, i) \in StorageRows(t)
    BY <1>2
  <1>4. \A i, j \in 1..n : Row(t, i) = Row(t, j) => i = j
    BY DEF Row
  <1>5. PICK f : f = [i \in 1..n |-> Row(t, i)]
    OBVIOUS
  <1>6. f \in [1..n -> StorageRows(t)] /\ \A i \in 1..n : f[i] = Row(t, i)
    BY <1>3, <1>5
  <1>7. f \in Surjection(1..n, StorageRows(t))
    BY <1>2, <1>6 DEF Surjection
  <1>8. f \in Injection(1..n, StorageRows(t))
    BY <1>4, <1>6 DEF Injection, IsInjective
  <1>9. IsFiniteSet(1..n) /\ Cardinality(1..n) = n
    <2>1. 1 \in Int /\ n \in Int
      OBVIOUS
    <2>2. IsFiniteSet(1..n) /\ Cardinality(1..n) = IF 1 > n THEN 0 ELSE n - 1 + 1
      BY <2>1, FS_Interval
    <2>3. QED BY <2>2
  <1>10. IsFiniteSet(StorageRows(t)) /\ Cardinality(StorageRows(t)) = n
    BY <1>7, <1>8, <1>9, FS_Surjection
  <1>11. QED BY <1>2, <1>3, <1>4, <1>10

\* The rows that the first k events leave, all read back; a gap is refused.
LEMMA RoundTrip ==
  ASSUME NEW t, Sequence(t), NEW n \in Nat, n = Len(t), \A i \in 1..n : t[i].parent \in 0..(i - 1)
  PROVE  /\ Readable(StorageRows(t)) /\ FromStorage(StorageRows(t)) = StoredTrace(t)
         /\ \A row \in StorageRows(t) : Readable(StorageRows(t) \ {row}) <=> row.id = n
  <1> DEFINE rows == StorageRows(t)
  <1>0. DOMAIN t = 1..n /\ rows = StorageRows(t)
    BY Lengths
  <1>1. /\ \A row : row \in rows <=> \E i \in 1..n : row = Row(t, i)
        /\ \A i \in 1..n : Row(t, i) \in rows
        /\ \A i, j \in 1..n : Row(t, i) = Row(t, j) => i = j
        /\ IsFiniteSet(rows) /\ Cardinality(rows) = n
    BY Rows
  <1> HIDE DEF rows
  <1>2. \A i \in 1..n : Row(t, i).seq = i - 1 /\ Row(t, i).id = i /\ Row(t, i).parent = t[i].parent
                        /\ Row(t, i).event = Redacted(t[i])
    BY DEF Row
  <1>3. GapFree(rows)
    <2>1. ASSUME NEW k \in 0..(n - 1) PROVE k \in {row.seq : row \in rows}
      <3>1. k + 1 \in 1..n /\ (k + 1) - 1 = k
        OBVIOUS
      <3>2. QED BY <1>1, <1>2, <3>1
    <2>2. \A row \in rows : row.seq \in 0..(n - 1)
      <3>1. \A i \in 1..n : i - 1 \in 0..(n - 1)
        OBVIOUS
      <3>2. QED BY <1>1, <1>2, <3>1
    <2>3. {row.seq : row \in rows} = 0..(n - 1)
      BY <2>1, <2>2
    <2>4. QED BY <1>1, <2>3 DEF GapFree
  <1>4. ASSUME NEW S, NEW m \in 0..n, \A row : row \in S <=> \E i \in 1..m : row = Row(t, i)
        PROVE  ParentsKnown(S)
    <2>1. SUFFICES ASSUME NEW i \in 1..m, Row(t, i).parent # NoParent
                   PROVE  \E p \in S : p.id = Row(t, i).parent /\ p.seq < Row(t, i).seq
      BY <1>4 DEF ParentsKnown
    <2>2. PICK q : q = t[i].parent
      OBVIOUS
    <2>3. i \in 1..n /\ q \in 1..m /\ q \in 1..n /\ q - 1 < i - 1
      BY <1>2, <2>1, <2>2 DEF NoParent
    <2>4. Row(t, q) \in S /\ Row(t, q).id = q /\ Row(t, q).seq = q - 1 /\ Row(t, i).seq = i - 1
      BY <1>2, <1>4, <2>3
    <2>5. QED BY <1>2, <2>2, <2>3, <2>4
  <1>5. ParentsKnown(rows)
    BY <1>1, <1>4
  <1>6. FromStorage(rows) = StoredTrace(t)
    <2>1. ASSUME NEW i \in 1..n
          PROVE  (CHOOSE row \in rows : row.seq = i - 1).event = Redacted(t[i])
      <3>1. \A row \in rows : row.seq = i - 1 => row = Row(t, i)
        <4>1. \A j \in 1..n : j - 1 = i - 1 => j = i
          OBVIOUS
        <4>2. QED BY <1>1, <1>2, <4>1
      <3>2. Row(t, i) \in rows /\ Row(t, i).seq = i - 1
        BY <1>1, <1>2
      <3>3. (CHOOSE row \in rows : row.seq = i - 1) = Row(t, i)
        BY <3>1, <3>2
      <3>4. QED BY <1>2, <3>3
    <2>2. QED BY <1>0, <1>1, <2>1 DEF FromStorage, StoredTrace
  <1>7. ASSUME NEW k \in 1..n
        PROVE  Readable(rows \ {Row(t, k)}) <=> k = n
    <2>1. PICK S : S = rows \ {Row(t, k)}
      OBVIOUS
    <2>2. Cardinality(S) = n - 1 /\ n - 1 \in Nat
      <3>1. PICK x : x = Row(t, k)
        OBVIOUS
      <3>2. x \in rows /\ IsFiniteSet(rows) /\ S = rows \ {x}
        BY <1>1, <2>1, <3>1
      <3>3. Cardinality(S) = IF x \in rows THEN Cardinality(rows) - 1 ELSE Cardinality(rows)
        BY <3>2, FS_RemoveElement
      <3>4. QED BY <1>1, <3>2, <3>3
    <2>3. \A row : row \in S <=> \E i \in 1..n : i # k /\ row = Row(t, i)
      BY <1>1, <2>1
    <2>4. CASE k = n
      <3>1. \A i : i \in 1..n /\ i # k <=> i \in 1..(n - 1)
        BY <2>4
      <3>2. \A row : row \in S <=> \E i \in 1..(n - 1) : row = Row(t, i)
        BY <2>3, <3>1
      <3>3. ParentsKnown(S)
        BY <1>4, <2>2, <3>2
      <3>4. GapFree(S)
        <4>1. ASSUME NEW j \in 0..((n - 1) - 1) PROVE j \in {row.seq : row \in S}
          <5>1. j + 1 \in 1..(n - 1) /\ j + 1 \in 1..n /\ (j + 1) - 1 = j
            BY <2>2
          <5>2. QED BY <1>2, <3>2, <5>1
        <4>2. \A row \in S : row.seq \in 0..((n - 1) - 1)
          <5>1. \A i \in 1..(n - 1) : i \in 1..n /\ i - 1 \in 0..((n - 1) - 1)
            BY <2>2
          <5>2. QED BY <1>2, <3>2, <5>1
        <4>3. {row.seq : row \in S} = 0..((n - 1) - 1)
          BY <4>1, <4>2
        <4>4. QED BY <2>2, <4>3 DEF GapFree
      <3>5. QED BY <2>1, <2>4, <3>3, <3>4 DEF Readable
    <2>5. CASE k # n
      <3>1. n \in 1..n /\ n - 1 \notin 0..((n - 1) - 1)
        BY <2>2
      <3>2. Row(t, n) \in S /\ Row(t, n).seq = n - 1
        BY <1>2, <2>3, <2>5, <3>1
      <3>3. ~GapFree(S)
        BY <2>2, <3>1, <3>2 DEF GapFree
      <3>4. QED BY <2>1, <2>5, <3>3 DEF Readable
    <2>6. QED BY <2>4, <2>5
  <1>8. ASSUME NEW row \in rows PROVE Readable(rows \ {row}) <=> row.id = n
    <2>1. PICK k \in 1..n : row = Row(t, k)
      BY <1>1
    <2>2. row.id = k
      BY <1>2, <2>1
    <2>3. QED BY <1>7, <2>1, <2>2
  <1>9. QED BY <1>0, <1>3, <1>5, <1>6, <1>8 DEF Readable

-----------------------------------------------------------------------------
\* The page: what is shown answers what was asked, and nothing else is under way.

PageInv ==
  /\ page = [flights |-> page.flights, asked |-> page.asked, shown |-> page.shown]
  /\ page # Closed => Attributed
  /\ page.flights \subseteq {page.asked}
  /\ page.flights = {} /\ page.shown # Nothing =>
       page.shown = [execution |-> page.asked.execution, selected |-> Landing(page.asked)]

LEMMA ReplayIsPair == [ReplayNext]_<<pairVars, replayVars>> => [PairNext]_pairVars
  BY DEF ReplayNext, Replay, View, OpenTab, LeaveTab, Submit, Arrive, Fail

LEMMA StepPage == ASSUME PageInv, [ReplayNext]_<<pairVars, replayVars>> PROVE PageInv'
  <1>1. CASE PairNext /\ UNCHANGED replayVars
    <2>1. page' = page
      BY <1>1 DEF replayVars
    <2>2. CASE page = Closed
      BY <2>1, <2>2 DEF PageInv, Closed, Mounted
    <2>3. CASE page # Closed
      <3>1. pc = "compared"
        BY <2>3 DEF PageInv, Attributed, Compared
      <3>2. FALSE
        BY <1>1, <3>1 DEF PairNext, StartCandidate, Compare, Next, Request, StepLimit, Retry, ModelDown, ModelFails,
           Answer, AskForTools, Invoke, ScoreRun
      <3>3. QED BY <3>2
    <2>4. QED BY <2>2, <2>3
  <1>2. CASE UNCHANGED <<pairVars, replayVars>>
    BY <1>2 DEF pairVars, replayVars, vars, PageInv, Attributed, Compared, Landing, Page, Stored
  <1>3. ASSUME Attributed, UNCHANGED pairVars,
               page'.flights \subseteq {page'.asked},
               page' = [flights |-> page'.flights, asked |-> page'.asked, shown |-> page'.shown],
               page'.flights = {} /\ page'.shown # Nothing =>
                 page'.shown = [execution |-> page'.asked.execution, selected |-> Landing(page'.asked)]
        PROVE  PageInv'
    <2>1. Attributed'
      BY <1>3 DEF pairVars, vars, Attributed, Compared
    <2>2. \A q : Landing(q)' = Landing(q)
      BY <1>3 DEF pairVars, vars, Landing, Page, Stored
    <2>3. PICK p : p = page'
      OBVIOUS
    <2>4. p.flights = {} /\ p.shown # Nothing => p.shown = [execution |-> p.asked.execution, selected |-> Landing(p.asked)']
      BY <1>3, <2>2, <2>3
    <2>5. QED BY <1>3, <2>1, <2>3, <2>4 DEF PageInv
  <1>4. ASSUME Replay PROVE PageInv'
    <2>0. Attributed
      BY <1>4 DEF Replay
    <2>1. ASSUME NEW q, View(q) PROVE PageInv'
      BY <1>3, <2>0, <2>1 DEF View, Mounted
    <2>2. CASE OpenTab
      BY <1>3, <2>0, <2>2 DEF OpenTab, Mounted
    <2>3. CASE LeaveTab
      BY <1>3, <2>0, <2>3 DEF LeaveTab, Closed, Mounted
    <2>4. ASSUME NEW q, Submit(q) PROVE PageInv'
      <3>1. page.flights = {} /\ page' = [page EXCEPT !.flights = {q}, !.asked = q]
        BY <2>4 DEF Submit, Ready
      <3>2. page' = [flights |-> {q}, asked |-> q, shown |-> page.shown]
        BY <3>1 DEF PageInv
      <3>3. /\ page'.flights = {q} /\ page'.asked = q /\ page'.shown = page.shown
            /\ page' = [flights |-> page'.flights, asked |-> page'.asked, shown |-> page'.shown]
        BY <3>2
      <3>4. UNCHANGED pairVars
        BY <2>4 DEF Submit
      <3>5. QED BY <1>3, <2>0, <3>1, <3>3, <3>4
    <2>5. ASSUME NEW q, Arrive(q) PROVE PageInv'
      <3>1. q = page.asked /\ page.flights = {q}
        BY <2>5 DEF Arrive, PageInv
      <3>2. page' = [flights |-> {}, asked |-> q, shown |-> [execution |-> q.execution, selected |-> Landing(q)]]
        BY <2>5, <3>1 DEF Arrive, PageInv
      <3>3. /\ page'.flights = {} /\ page'.asked = q /\ page'.shown = [execution |-> q.execution, selected |-> Landing(q)]
            /\ page' = [flights |-> page'.flights, asked |-> page'.asked, shown |-> page'.shown]
        BY <3>2
      <3>4. UNCHANGED pairVars
        BY <2>5 DEF Arrive
      <3>5. QED BY <1>3, <2>0, <3>1, <3>3, <3>4
    <2>6. ASSUME NEW q, Fail(q) PROVE PageInv'
      <3>1. q = page.asked /\ page.flights = {q}
        BY <2>6 DEF Fail, PageInv
      <3>2. page' = [flights |-> {}, asked |-> q, shown |-> Nothing]
        BY <2>6, <3>1 DEF Fail, PageInv
      <3>3. /\ page'.flights = {} /\ page'.asked = q /\ page'.shown = Nothing
            /\ page' = [flights |-> page'.flights, asked |-> page'.asked, shown |-> page'.shown]
        BY <3>2
      <3>4. UNCHANGED pairVars
        BY <2>6 DEF Fail
      <3>5. QED BY <1>3, <2>0, <3>1, <3>3, <3>4
    <2>7. QED BY <1>4, <2>1, <2>2, <2>3, <2>4, <2>5, <2>6 DEF Replay
  <1>5. QED BY <1>1, <1>2, <1>4 DEF ReplayNext

THEOREM ReplayInductive == ReplaySpec => [](PairInv /\ PageInv)
  <1>1. ReplayInit => PairInv /\ PageInv
    BY InitPair DEF ReplayInit, PageInv, Closed, Mounted
  <1>2. PairInv /\ PageInv /\ [ReplayNext]_<<pairVars, replayVars>> => PairInv' /\ PageInv'
    BY ReplayIsPair, StepPair, StepPage
  <1>3. QED BY <1>1, <1>2, PTL DEF ReplaySpec

\* The page shows the answer to the last question it was asked, whenever answers come
\* and tabs change.
THEOREM LastQuestionAnswered == ReplaySpec => []ShownAnswersLastQuestion
  <1>1. PageInv => ShownAnswersLastQuestion
    BY DEF PageInv, ShownAnswersLastQuestion, Ready
  <1>2. QED BY <1>1, ReplayInductive, PTL

\* A stored trace reads back as what was recorded; with an event missing it is refused,
\* unless the missing event is the last.
THEOREM StoredTraceReadsBack == ReplaySpec => []StorageRoundTrip
  <1>1. ASSUME PairInv PROVE StorageRoundTrip
    <2>1. PICK n \in Nat : n = Len(trace) /\ Sequence(trace)
      BY <1>1, Lengths DEF PairInv, RunInv, ShapeInv
    <2>2. \A i \in 1..n : trace[i].parent \in 0..(i - 1)
      BY <1>1, <2>1 DEF PairInv, RunInv, ShapeInv
    <2>3. QED BY <2>1, <2>2, RoundTrip DEF StorageRoundTrip
  <1>2. QED BY <1>1, ReplayInductive, PTL

\* Replaying changes nothing that is replayed: what holds of every pair holds while it is shown.
THEOREM ReplayLeavesThePair == ReplaySpec => PairSpec
  <1>1. ReplayInit => PairInit
    BY DEF ReplayInit
  <1>2. QED BY <1>1, ReplayIsPair, PTL DEF ReplaySpec, PairSpec

-----------------------------------------------------------------------------
\* From the attribution to the row that is selected

\* An attribution's link to an event that is on the page selects the first row at which
\* the two stored traces differ.
THEOREM LinksLandOnDivergence == ReplaySpec => []LinkLandsOnDivergence
  <1>1. ASSUME PairInv, PageInv, LinkFollowed, page.asked.event \in DOMAIN Page(page.shown.execution)
        PROVE  FirstDifference(page.shown.selected)
    <2>1. Attributed /\ Compared
      BY <1>1 DEF PageInv, LinkFollowed, Ready, Attributed
    <2>2. PICK t : /\ baseline.trace = StoredTrace(t)
                   /\ Finished(t, baseline.passed = "true") /\ Finished(trace, report.passed)
                   /\ attribution = FirstDivergence(StoredTrace(t), StoredTrace(trace))
      BY <1>1, <2>1, ComparedPair
    <2>3. PICK a, u : a = attribution /\ u = trace
      OBVIOUS
    <2>4. /\ Sequence(t) /\ Len(t) \in Nat /\ DOMAIN t = 1..Len(t)
          /\ Sequence(u) /\ Len(u) \in Nat /\ DOMAIN u = 1..Len(u)
      BY <2>2, <2>3, Lengths DEF Finished, RunTrace
    <2>5. PICK n \in 1..Len(t) : /\ n \in 1..Len(u) /\ InStep(t, u, n - 1) /\ ~Alike(t, u, n)
                                 /\ a.baseline = n /\ a.candidate = n
      <3>1. a # NoAttribution
        BY <2>1, <2>3 DEF Attributed
      <3>2. QED BY <2>2, <2>3, <3>1, PairDivergence
    <2>6. Stored("baseline") = StoredTrace(t) /\ \A side : Stored(side) = StoredTrace(t) \/ Stored(side) = StoredTrace(u)
      BY <2>2, <2>3 DEF Stored
    <2>7. Stored("candidate") = StoredTrace(u)
      BY <2>3 DEF Stored
    <2>8. \A i : Differ(i) <=> ~(i \in 1..Len(t) /\ i \in 1..Len(u) /\ Alike(t, u, i))
      <3>1. /\ DOMAIN StoredTrace(t) = 1..Len(t) /\ DOMAIN StoredTrace(u) = 1..Len(u)
            /\ \A i \in 1..Len(t) : StoredTrace(t)[i] = Redacted(t[i])
            /\ \A i \in 1..Len(u) : StoredTrace(u)[i] = Redacted(u[i])
        BY <2>4, StoredShape
      <3>2. QED BY <2>6, <2>7, <3>1 DEF Differ, Alike
    <2>9. Differ(n) /\ \A i \in 1..(n - 1) : ~Differ(i)
      <3>1. \A i \in 1..(n - 1) : i \in 1..Len(t) /\ i \in 1..Len(u) /\ Alike(t, u, i)
        BY <2>4, <2>5 DEF InStep
      <3>2. QED BY <2>5, <2>8, <3>1
    <2>10. PICK side : side = page.shown.execution
      OBVIOUS
    <2>11. page.asked.execution = side /\ page.asked.event = n
      BY <1>1, <2>3, <2>5, <2>10 DEF LinkFollowed, Link, Question
    <2>12. page.shown.selected = n
      <3>1. page.shown = [execution |-> page.asked.execution, selected |-> Landing(page.asked)]
        BY <1>1 DEF PageInv, LinkFollowed, Ready
      <3>2. page.shown.selected = Landing(page.asked)
        BY <3>1
      <3>3. QED BY <1>1, <2>10, <2>11, <3>2 DEF Landing
    <2>13. QED BY <2>9, <2>12 DEF FirstDifference
  <1>2. PairInv /\ PageInv => LinkLandsOnDivergence
    BY <1>1 DEF LinkLandsOnDivergence
  <1>3. QED BY <1>2, ReplayInductive, PTL
=============================================================================
