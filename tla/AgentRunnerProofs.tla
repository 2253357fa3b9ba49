-------------------------- MODULE AgentRunnerProofs --------------------------
(***************************************************************************)
(* What a run of an agent leaves behind, for every task, agent and limit:  *)
(* each event hangs from its cause, a request carries the conversation so  *)
(* far, replaying the trace gives the state that is scored, a pass shows   *)
(* in the trace, and an order is refunded at most once.                    *)
(***************************************************************************)
EXTENDS AgentRunner, SequenceLemmas, FiniteSetTheorems

-----------------------------------------------------------------------------
\* The services

Fields == {"status", "refunds", "replacements", "ticket"}
IsTicket(t) == t \in [status : {t.status}, escalations : Nat]
IsState(s) ==
  /\ IsEnvironment(s)
  /\ s.ticket = [t \in Tickets |-> s.ticket[t]] /\ \A t \in Tickets : IsTicket(s.ticket[t])
  /\ s = [status |-> s.status, refunds |-> s.refunds, replacements |-> s.replacements, ticket |-> s.ticket]

LEMMA SeedState == IsState(SeedEnvironment)
  <1>1. \A t \in Tickets : IsTicket([status |-> SeedTickets[t], escalations |-> 0])
    BY DEF IsTicket
  <1>2. PICK f : f = [t \in Tickets |-> [status |-> SeedTickets[t], escalations |-> 0]]
    OBVIOUS
  <1>3. f = [t \in Tickets |-> f[t]] /\ \A t \in Tickets : IsTicket(f[t]) /\ f[t].escalations \in Nat
    BY <1>1, <1>2
  <1>4. SeedEnvironment = [status |-> SeedStatus, refunds |-> SeedRefunds,
                           replacements |-> [o \in {} |-> {}], ticket |-> f]
    BY <1>2 DEF SeedEnvironment
  <1>5. QED BY <1>3, <1>4, ToolsAssumption DEF ToolsAssumption, IsState, IsEnvironment

LEMMA AfterState ==
  ASSUME NEW s, IsState(s), NEW c, IsCall(c)
  PROVE  IsState(After(s, c))
  <1>1. SUFFICES ASSUME Outcome(s, c) = "ok" PROVE IsState(Effect(s, c))
    BY DEF After
  <1>2. c.op \in DOMAIN Required /\ Required[c.op] \subseteq DOMAIN c /\ Found(c) /\ Allowed(s, c)
    BY <1>1 DEF Outcome, Binds
  <1>3. CASE c.op = "create_refund"
    <2>1. c.order \in Orders /\ c.amount \in Int
      BY <1>2, <1>3 DEF Found, Required, IsCall
    <2>2. QED BY <1>3, <2>1 DEF Effect, With, IsState, IsEnvironment
  <1>4. CASE c.op = "replace_item"
    <2>1. c.order \in Orders /\ c.sku \in Skus
      BY <1>2, <1>4, ToolsAssumption DEF ToolsAssumption, Found, Allowed, ReplaceAllowed
    <2>2. QED BY <1>4, <2>1 DEF Effect, With, IsState, IsEnvironment
  <1>5. CASE c.op = "cancel_order"
    BY <1>5 DEF Effect, IsState, IsEnvironment, OrderStatus
  <1>6. ASSUME NEW f, \A t \in Tickets : IsTicket(f[t]),
               f = [t \in Tickets |-> f[t]], Effect(s, c) = [s EXCEPT !.ticket = f]
        PROVE  IsState(Effect(s, c))
    <2>1. \A t \in Tickets : f[t].escalations \in Nat
      BY <1>6 DEF IsTicket
    <2>2. QED BY <1>6, <2>1 DEF IsState, IsEnvironment
  <1>7. CASE (c.op = "update_ticket" /\ "status" \in DOMAIN c) \/ c.op = "escalate_ticket"
    <2>1. PICK k : k = c.ticket
      OBVIOUS
    <2>2. PICK v : /\ Effect(s, c) = [s EXCEPT !.ticket = [s.ticket EXCEPT ![k] = v]]
                   /\ k \in Tickets => IsTicket(v)
      <3>1. CASE c.op = "escalate_ticket"
        <4>1. Effect(s, c) = [s EXCEPT !.ticket = [s.ticket EXCEPT ![k] =
                                [status |-> "escalated", escalations |-> s.ticket[k].escalations + 1]]]
          BY <2>1, <3>1 DEF Effect
        <4>2. k \in Tickets => IsTicket([status |-> "escalated", escalations |-> s.ticket[k].escalations + 1])
          BY DEF IsTicket, IsState, IsEnvironment
        <4>3. QED BY <4>1, <4>2
      <3>2. CASE c.op = "update_ticket" /\ "status" \in DOMAIN c
        <4>1. Effect(s, c) = [s EXCEPT !.ticket = [s.ticket EXCEPT ![k] = [s.ticket[k] EXCEPT !.status = c.status]]]
          BY <2>1, <3>2 DEF Effect
        <4>2. k \in Tickets => s.ticket[k] \in [status : {s.ticket[k].status}, escalations : Nat]
          BY DEF IsTicket, IsState
        <4>3. k \in Tickets => IsTicket([s.ticket[k] EXCEPT !.status = c.status])
          BY <4>2 DEF IsTicket
        <4>4. QED BY <4>1, <4>3
      <3>3. QED BY <1>7, <3>1, <3>2
    <2>3. PICK f : f = [s.ticket EXCEPT ![k] = v]
      OBVIOUS
    <2>4. /\ f = [t \in Tickets |-> f[t]]
          /\ \A t \in Tickets : IsTicket(f[t])
      BY <2>2, <2>3 DEF IsState, IsEnvironment
    <2>5. QED BY <1>6, <2>2, <2>3, <2>4
  <1>8. CASE /\ c.op \notin {"create_refund", "replace_item", "cancel_order", "escalate_ticket"}
             /\ ~(c.op = "update_ticket" /\ "status" \in DOMAIN c)
    BY <1>8 DEF Effect
  <1>9. QED BY <1>3, <1>4, <1>5, <1>7, <1>8

\* Money: an order that holds a refund keeps that very refund and its status, if delivered.
LEMMA AfterRefunds ==
  ASSUME NEW s, IsState(s), NEW c, IsCall(c), NEW o \in Orders
  PROVE  /\ o \in DOMAIN s.refunds => /\ o \in DOMAIN After(s, c).refunds
                                      /\ After(s, c).refunds[o] = s.refunds[o]
         /\ s.status[o] = "delivered" => After(s, c).status[o] = "delivered"
         /\ Outcome(s, c) = "ok" /\ c.op = "create_refund" /\ c.order = o =>
              /\ o \notin DOMAIN s.refunds /\ o \in DOMAIN After(s, c).refunds
              /\ After(s, c).refunds[o] <= Total[o] /\ After(s, c).status[o] = "delivered"
  <1>1. CASE Outcome(s, c) # "ok"
    BY <1>1 DEF After
  <1>2. CASE Outcome(s, c) = "ok"
    <2>0. Allowed(s, c) /\ After(s, c) = Effect(s, c)
      BY <1>2 DEF Outcome, After
    <2>1. CASE c.op = "create_refund"
      <3>1. RefundAllowed(s, c)
        BY <2>0, <2>1 DEF Allowed
      <3>2. Effect(s, c) = [s EXCEPT !.refunds = With(@, c.order, c.amount)]
        BY <2>1 DEF Effect
      <3>3. QED BY <2>0, <3>1, <3>2 DEF RefundAllowed, RefundEligible, With, IsState
    <2>2. CASE c.op = "cancel_order"
      <3>1. s.status[c.order] \in Cancellable
        BY <2>0, <2>2 DEF Allowed, CancelAllowed
      <3>2. Effect(s, c) = [s EXCEPT !.status[c.order] = "cancelled"]
        BY <2>2 DEF Effect
      <3>3. QED BY <2>0, <2>2, <3>1, <3>2 DEF IsState, IsEnvironment, Cancellable
    <2>3. CASE c.op \notin {"create_refund", "cancel_order"}
      <3>1. Effect(s, c).refunds = s.refunds /\ Effect(s, c).status = s.status
        BY <2>3 DEF Effect, IsState
      <3>2. QED BY <2>0, <2>3, <3>1
    <2>4. QED BY <2>1, <2>2, <2>3
  <1>3. QED BY <1>1, <1>2

-----------------------------------------------------------------------------
\* The invariant

ShapeInv ==
  /\ step \in 0..MaxSteps /\ attempt \in 1..(MaxModelRetries + 1)
  /\ Sequence(messages)
  /\ \A i \in 1..Len(messages) : messages[i].role \in {"system", "user", "assistant", "tool"}
  /\ todo \in Seq(AgentCalls) /\ (pc = "calling" => todo # <<>>)
  /\ Sequence(trace)
  /\ \A i \in 1..Len(trace) : trace[i].type \in EventTypes /\ trace[i].parent \in 0..(i - 1)
  /\ IsState(env)
  /\ report.status \in {"pending", "passed", "failed", "errored"}
  /\ report.passed = (report.status = "passed")

\* While the model is asked, the trace ends in a request and its retries.
Asked(p) ==
  /\ p \in 1..Len(trace) /\ trace[p].type = "model_request" /\ Len(trace) = p + attempt - 1
  /\ \A j \in (p + 1)..Len(trace) : trace[j].type = "retry" /\ trace[j].payload.attempt = j - p
AskedInv == pc = "waiting" => \E p \in 1..Len(trace) : Asked(p)

\* The cause of event i of a trace t, and what lies between the two.
Caused(t, i) ==
  LET e == t[i]   p == t[i].parent IN
  IF IsCallOutcome(e) THEN p = i - 1 /\ p > 0 /\ t[p].type = "tool_call"
  ELSE IF e.type \in {"model_response", "retry"} \/ IsError(e, "ModelError")
    THEN /\ p # NoParent /\ t[p].type = "model_request"
         /\ \A j \in (p + 1)..(i - 1) : t[j].type = "retry" /\ t[j].payload.attempt = j - p
         /\ e.type = "retry" => e.payload.attempt = i - p /\ i - p <= MaxModelRetries
         /\ IsError(e, "ModelError") => i - p = MaxModelRetries + 1
    ELSE p = NoParent
ChainInv == \A i \in 1..Len(trace) : Caused(trace, i)

\* How a trace ends.
Open == \A i \in 1..Len(trace) : ~IsClosing(trace[i])
ClosedLast == \A i \in 1..Len(trace) : IsClosing(trace[i]) => i = Len(trace)
EndsInAnswer ==
  /\ Len(trace) > 1
  /\ LET end == trace[Len(trace)]   before == trace[Len(trace) - 1] IN
     /\ end.type = "final_answer" /\ before.type = "model_response"
     /\ before.payload = [content |-> end.payload.content, tool_calls |-> <<>>]
EndsAtLimit == Len(trace) > 0 /\ IsError(trace[Len(trace)], "MaxStepsExceeded") /\ step = MaxSteps
EndInv ==
  /\ IsFiniteSet(Places(trace, "model_request")) /\ Cardinality(Places(trace, "model_request")) = step
  /\ ClosedLast
  /\ pc \in {"asking", "waiting", "calling"} => Open
  /\ pc = "answered" => EndsInAnswer
  /\ pc = "exceeded" => EndsAtLimit
  /\ pc = "scored" => EndsInAnswer \/ EndsAtLimit
  /\ pc = "raised" /\ Len(trace) > 0 =>
       ~(trace[Len(trace)].type = "final_answer" \/ IsError(trace[Len(trace)], "MaxStepsExceeded"))

\* A refund that the trace records is on the books, and the only one of its order.
Refunded(o) ==
  /\ \A i, j \in Refunds(o) : i = j
  /\ Refunds(o) # {} => /\ o \in DOMAIN env.refunds /\ env.refunds[o] <= Total[o]
                        /\ env.status[o] = "delivered"
  /\ o \in DOMAIN SeedRefunds => o \in DOMAIN env.refunds /\ Refunds(o) = {}
RefundInv == \A o \in Orders : Refunded(o)

-----------------------------------------------------------------------------

LEMMA InitInv == Init => ShapeInv /\ AskedInv /\ ChainInv /\ EndInv /\ RefundInv
  <1> SUFFICES ASSUME Init PROVE ShapeInv /\ AskedInv /\ ChainInv /\ EndInv /\ RefundInv
    OBVIOUS
  <1>1. Len(trace) = 0 /\ trace = <<>> /\ Sequence(trace) /\ DOMAIN trace = {}
    BY EmptySeq DEF Init, Sequence
  <1>2. ShapeInv
    <2>1. messages \in Seq([role : {"system", "user"}])
      BY DEF Init, Opening
    <2>2. \A i \in 1..Len(messages) : messages[i] \in [role : {"system", "user"}]
      BY <2>1, ElementOfSeq
    <2>3. Sequence(messages) /\ \A i \in 1..Len(messages) : messages[i].role \in {"system", "user"}
      BY <2>1, <2>2, SequenceOf
    <2>4. /\ report.status \in {"pending", "passed", "failed", "errored"}
          /\ report.passed = (report.status = "passed")
      BY DEF Init, NoReport
    <2>5. step \in 0..MaxSteps /\ attempt \in 1..(MaxModelRetries + 1)
      BY RunnerAssumption DEF RunnerAssumption, Init
    <2>6. todo \in Seq(AgentCalls) /\ pc = "asking" /\ IsState(env)
      BY SeedState DEF Init
    <2>7. QED BY <1>1, <2>3, <2>4, <2>5, <2>6 DEF ShapeInv
  <1>3. Places(trace, "model_request") = {} /\ Succeeded(trace) = {}
    BY <1>1 DEF Places, Succeeded
  <1>4. EndInv
    BY <1>1, <1>3, FS_EmptySet DEF Init, EndInv, ClosedLast, Open
  <1>5. RefundInv
    BY <1>3 DEF Init, RefundInv, Refunded, Refunds, SeedEnvironment
  <1>6. QED BY <1>1, <1>2, <1>4, <1>5 DEF Init, AskedInv, ChainInv

LEMMA Latest ==
  ASSUME ShapeInv, NEW p, Asked(p)
  PROVE  LatestRequest(trace) = p /\ p \in Nat \ {0} /\ Len(trace) \in Nat
  <1>1. Len(trace) \in Nat /\ DOMAIN trace = 1..Len(trace)
    BY Lengths DEF ShapeInv
  <1>2. p \in Places(trace, "model_request") /\ \A i \in Places(trace, "model_request") : i <= p
    BY <1>1 DEF Places, Asked
  <1>3. \A i \in Places(trace, "model_request") : i \in Nat
    BY <1>1 DEF Places
  <1>4. LatestRequest(trace) = p
    BY <1>2, <1>3 DEF LatestRequest
  <1>5. QED BY <1>1, <1>4 DEF Asked

\* What each step appends to the trace.
Adds1(x) == Extends1(trace', trace, x)
Adds2(x, y) == Extends2(trace', trace, x, y)

LEMMA StepTrace ==
  ASSUME ShapeInv, Next
  PROVE  \/ /\ ModelFails \/ ScoreRun
            /\ trace' = trace
         \/ Request /\ Adds1(Event("model_request", NoParent, [messages |-> messages]))
         \/ StepLimit /\ Adds1(ErrorEvent(NoParent, "MaxStepsExceeded"))
         \/ Retry /\ Adds1(Event("retry", LatestRequest(trace), [attempt |-> attempt]))
         \/ ModelDown /\ Adds1(ErrorEvent(LatestRequest(trace), "ModelError"))
         \/ \E content \in AgentAnswers :
              /\ Answer
              /\ Adds2(Response(content, <<>>), Event("final_answer", NoParent, [content |-> content]))
         \/ \E content : \E calls \in Replies :
              /\ AskForTools /\ Adds1(Response(content, calls)) /\ todo' = calls
              /\ messages' = Append(messages, [role |-> "assistant", tool_calls |-> calls])
         \/ \E call \in AgentCalls :
              /\ Invoke /\ call = Head(todo) /\ env' = After(env, call)
              /\ Adds2(Event("tool_call", NoParent, call), OutcomeEvent(Len(trace) + 1, call))
  <1>1. Sequence(trace)
    BY DEF ShapeInv
  <1>2. CASE ModelFails \/ ScoreRun BY <1>2 DEF ModelFails, ScoreRun
  <1>3. CASE Request BY <1>1, <1>3, Appended1 DEF Request, Adds1
  <1>4. CASE StepLimit BY <1>1, <1>4, Appended1 DEF StepLimit, Adds1
  <1>5. CASE Retry BY <1>1, <1>5, Appended1 DEF Retry, Adds1
  <1>6. CASE ModelDown BY <1>1, <1>6, Appended1 DEF ModelDown, Adds1
  <1>7. CASE Answer BY <1>1, <1>7, Appended2 DEF Answer, Adds2
  <1>8. CASE AskForTools BY <1>1, <1>8, Appended1 DEF AskForTools, Adds1
  <1>9. CASE Invoke
    <2>1. PICK call : call = Head(todo)
      OBVIOUS
    <2>2. todo \in Seq(AgentCalls) /\ todo # <<>>
      BY <1>9 DEF ShapeInv, Invoke
    <2>3. call \in AgentCalls
      BY <2>1, <2>2, HeadTailProperties
    <2>4. /\ trace' = trace \o <<Event("tool_call", NoParent, call), OutcomeEvent(Len(trace) + 1, call)>>
          /\ env' = After(env, call)
      BY <1>9, <2>1 DEF Invoke
    <2>5. QED BY <1>1, <1>9, <2>1, <2>3, <2>4, Appended2 DEF Adds2
  <1>10. QED BY <1>2, <1>3, <1>4, <1>5, <1>6, <1>7, <1>8, <1>9 DEF Next

LEMMA Responses ==
  ASSUME NEW content, NEW calls
  PROVE  LET r == Response(content, calls) IN
         /\ r.type = "model_response" /\ r.parent = LatestRequest(trace)
         /\ r.payload = [content |-> content, tool_calls |-> calls]
  BY DEF Response, Event

LEMMA StepShape == ASSUME ShapeInv, AskedInv, Next PROVE ShapeInv'
  <1>0. Len(trace) \in Nat /\ Len(messages) \in Nat /\ Sequence(messages) /\ Sequence(trace)
    BY Lengths DEF ShapeInv
  <1>1. ASSUME NEW x, Adds1(x), x.type \in EventTypes, x.parent \in 0..Len(trace)
        PROVE  Sequence(trace') /\ \A i \in 1..Len(trace') : trace'[i].type \in EventTypes /\ trace'[i].parent \in 0..(i - 1)
    BY <1>0, <1>1 DEF Adds1, Extends1, ShapeInv
  <1>2. ASSUME NEW x, NEW y, Adds2(x, y), x.type \in EventTypes, x.parent \in 0..Len(trace),
               y.type \in EventTypes, y.parent \in 0..(Len(trace) + 1)
        PROVE  Sequence(trace') /\ \A i \in 1..Len(trace') : trace'[i].type \in EventTypes /\ trace'[i].parent \in 0..(i - 1)
    <2>1. Sequence(trace') /\ Len(trace') = Len(trace) + 2
      BY <1>2 DEF Adds2, Extends2
    <2>2. ASSUME NEW i \in 1..Len(trace') PROVE trace'[i].type \in EventTypes /\ trace'[i].parent \in 0..(i - 1)
      <3>1. CASE i \in 1..Len(trace) BY <1>2, <3>1 DEF Adds2, Extends2, ShapeInv
      <3>2. CASE i = Len(trace) + 1 BY <1>0, <1>2, <3>2 DEF Adds2, Extends2
      <3>3. CASE i = Len(trace) + 2 BY <1>0, <1>2, <3>3 DEF Adds2, Extends2
      <3>4. QED BY <1>0, <2>1, <2>2, <3>1, <3>2, <3>3
    <2>3. QED BY <2>1, <2>2
  <1>3. ASSUME NEW m, m.role \in {"assistant", "tool"}, messages' = Append(messages, m)
        PROVE  /\ Sequence(messages')
               /\ \A i \in 1..Len(messages') : messages'[i].role \in {"system", "user", "assistant", "tool"}
    BY <1>0, <1>3, Appended1 DEF Extends1, ShapeInv
  <1>4. pc = "waiting" => LatestRequest(trace) \in 1..Len(trace)
    BY Latest DEF AskedInv, Asked
  <1>5. CASE trace' = trace /\ (ModelFails \/ ScoreRun)
    <2>1. CASE ModelFails BY <1>5, <2>1 DEF ModelFails, ShapeInv
    <2>2. CASE ScoreRun
      <3>1. report'.status \in {"errored", "passed", "failed"} /\ report'.passed = (report'.status = "passed")
        BY <2>2 DEF ScoreRun, StatusOf
      <3>2. QED BY <2>2, <3>1 DEF ScoreRun, ShapeInv
    <2>3. QED BY <1>5, <2>1, <2>2
  <1>6. CASE Request /\ Adds1(Event("model_request", NoParent, [messages |-> messages]))
    <2>1. step' \in 0..MaxSteps /\ attempt' \in 1..(MaxModelRetries + 1)
      BY <1>6, RunnerAssumption DEF RunnerAssumption, Request, ShapeInv
    <2>2. QED BY <1>0, <1>1, <1>6, <2>1 DEF Request, ShapeInv, Event, EventTypes, NoParent
  <1>7. CASE StepLimit /\ Adds1(ErrorEvent(NoParent, "MaxStepsExceeded"))
    BY <1>0, <1>1, <1>7 DEF StepLimit, ShapeInv, ErrorEvent, Event, EventTypes, NoParent
  <1>8. CASE Retry /\ Adds1(Event("retry", LatestRequest(trace), [attempt |-> attempt]))
    <2>1. attempt' \in 1..(MaxModelRetries + 1)
      BY <1>8, RunnerAssumption DEF RunnerAssumption, Retry, RetriesSpent, ShapeInv
    <2>2. QED BY <1>0, <1>1, <1>4, <1>8, <2>1 DEF Retry, ShapeInv, Event, EventTypes
  <1>9. CASE ModelDown /\ Adds1(ErrorEvent(LatestRequest(trace), "ModelError"))
    BY <1>0, <1>1, <1>4, <1>9 DEF ModelDown, ShapeInv, ErrorEvent, Event, EventTypes
  <1>10. ASSUME NEW content, Answer,
                Adds2(Response(content, <<>>), Event("final_answer", NoParent, [content |-> content]))
         PROVE  ShapeInv'
    <2>1. PICK x : x = Response(content, <<>>)
      OBVIOUS
    <2>2. PICK y : y = Event("final_answer", NoParent, [content |-> content])
      OBVIOUS
    <2>3. /\ pc = "waiting" /\ x.type = "model_response" /\ x.parent \in 0..Len(trace)
          /\ y.type = "final_answer" /\ y.parent = 0
      BY <1>4, <1>10, <2>1, <2>2 DEF Answer, Response, Event, NoParent
    <2>4. Sequence(trace') /\ \A i \in 1..Len(trace') : trace'[i].type \in EventTypes /\ trace'[i].parent \in 0..(i - 1)
      BY <1>0, <1>2, <1>10, <2>1, <2>2, <2>3 DEF EventTypes
    <2>5. QED BY <1>10, <2>4 DEF Answer, ShapeInv
  <1>11. ASSUME NEW content, NEW calls \in Replies, AskForTools, Adds1(Response(content, calls)), todo' = calls,
                messages' = Append(messages, [role |-> "assistant", tool_calls |-> calls])
         PROVE  ShapeInv'
    <2>1. calls \in Seq(AgentCalls) /\ calls # <<>>
      <3>1. PICK n \in 1..MaxCalls : calls \in [1..n -> AgentCalls]
        BY DEF Replies
      <3>2. n \in Nat \ {0}
        BY RunnerAssumption DEF RunnerAssumption
      <3>3. calls \in Seq(AgentCalls) /\ Len(calls) = n
        BY <3>1, <3>2
      <3>4. QED BY <3>2, <3>3
    <2>2. pc = "waiting" /\ pc' = "calling" /\ step' = step /\ attempt' = attempt /\ env' = env /\ report' = report
      BY <1>11 DEF AskForTools
    <2>3. Sequence(trace') /\ \A i \in 1..Len(trace') : trace'[i].type \in EventTypes /\ trace'[i].parent \in 0..(i - 1)
      <3>1. PICK x : x = Response(content, calls)
        OBVIOUS
      <3>2. LatestRequest(trace) \in 1..Len(trace)
        BY <1>4, <2>2
      <3>3. x.type = "model_response" /\ x.parent = LatestRequest(trace)
        BY <3>1, Responses
      <3>4. x.type = "model_response" /\ x.parent \in 0..Len(trace)
        BY <1>0, <3>2, <3>3
      <3>5. QED BY <1>1, <1>11, <3>1, <3>4 DEF EventTypes
    <2>4. /\ Sequence(messages')
          /\ \A i \in 1..Len(messages') : messages'[i].role \in {"system", "user", "assistant", "tool"}
      <3>1. PICK m : m = [role |-> "assistant", tool_calls |-> calls]
        OBVIOUS
      <3>2. m.role = "assistant"
        BY <3>1
      <3>3. m.role \in {"assistant", "tool"} /\ messages' = Append(messages, m)
        BY <1>11, <3>1, <3>2
      <3>4. QED BY <1>3, <3>3
    <2>5. QED BY <1>11, <2>1, <2>2, <2>3, <2>4 DEF ShapeInv
  <1>12. ASSUME NEW call \in AgentCalls, Invoke, env' = After(env, call),
                Adds2(Event("tool_call", NoParent, call), OutcomeEvent(Len(trace) + 1, call))
         PROVE  ShapeInv'
    <2>1. PICK x : x = Event("tool_call", NoParent, call)
      OBVIOUS
    <2>2. PICK y : y = OutcomeEvent(Len(trace) + 1, call)
      OBVIOUS
    <2>3. /\ x.type = "tool_call" /\ x.parent = 0
          /\ y.type \in {"tool_result", "error"} /\ y.parent = Len(trace) + 1
      BY <2>1, <2>2 DEF OutcomeEvent, ErrorEvent, Event, NoParent
    <2>4. Sequence(trace') /\ \A i \in 1..Len(trace') : trace'[i].type \in EventTypes /\ trace'[i].parent \in 0..(i - 1)
      BY <1>0, <1>2, <1>12, <2>1, <2>2, <2>3 DEF EventTypes
    <2>5. IsState(env')
      BY <1>12, AfterState, RunnerAssumption DEF RunnerAssumption, ShapeInv
    <2>6. /\ Sequence(messages')
          /\ \A i \in 1..Len(messages') : messages'[i].role \in {"system", "user", "assistant", "tool"}
      <3>1. PICK m : m.role = "tool" /\ messages' = Append(messages, m)
        BY <1>12 DEF Invoke, Hear
      <3>2. QED BY <1>3, <3>1
    <2>7. todo' \in Seq(AgentCalls) /\ (pc' = "calling" => todo' # <<>>)
      <3>1. todo \in Seq(AgentCalls) /\ todo # <<>>
        BY <1>12 DEF ShapeInv, Invoke
      <3>2. todo' \in Seq(AgentCalls) /\ Len(todo') = Len(todo) - 1 /\ Len(todo) \in Nat \ {0}
        BY <1>12, <3>1, HeadTailProperties, EmptySeq DEF Invoke
      <3>3. pc' = "calling" => Len(todo) # 1
        BY <1>12 DEF Invoke
      <3>4. QED BY <3>2, <3>3
    <2>8. QED BY <1>12, <2>4, <2>5, <2>6, <2>7 DEF Invoke, ShapeInv
  <1>13. QED BY <1>5, <1>6, <1>7, <1>8, <1>9, <1>10, <1>11, <1>12, StepTrace

LEMMA StepAsked == ASSUME ShapeInv, AskedInv, Next PROVE AskedInv'
  <1>0. Len(trace) \in Nat
    BY Lengths DEF ShapeInv
  <1>1. CASE Request /\ Adds1(Event("model_request", NoParent, [messages |-> messages]))
    <2>1. /\ Len(trace') = Len(trace) + 1 /\ trace'[Len(trace) + 1].type = "model_request" /\ attempt' = 1
      BY <1>1 DEF Adds1, Extends1, Event, Request
    <2>2. PICK p : p = Len(trace) + 1
      OBVIOUS
    <2>3. Asked(p)'
      BY <1>0, <2>1, <2>2 DEF Asked
    <2>4. QED BY <2>3 DEF AskedInv, Asked
  <1>2. CASE Retry /\ Adds1(Event("retry", LatestRequest(trace), [attempt |-> attempt]))
    <2>1. PICK p \in 1..Len(trace) : Asked(p)
      BY <1>2 DEF AskedInv, Retry
    <2>2. /\ Len(trace') = Len(trace) + 1 /\ \A i \in 1..Len(trace) : trace'[i] = trace[i]
          /\ trace'[Len(trace) + 1].type = "retry" /\ trace'[Len(trace) + 1].payload.attempt = attempt
          /\ attempt' = attempt + 1 /\ attempt \in Nat
      BY <1>2, RunnerAssumption DEF RunnerAssumption, Adds1, Extends1, Event, Retry, ShapeInv
    <2>3. /\ trace[p].type = "model_request" /\ Len(trace) = p + attempt - 1
          /\ \A j \in (p + 1)..Len(trace) : trace[j].type = "retry" /\ trace[j].payload.attempt = j - p
      BY <2>1 DEF Asked
    <2>4. p \in 1..Len(trace') /\ trace'[p].type = "model_request" /\ Len(trace') = p + attempt' - 1
      BY <1>0, <2>2, <2>3
    <2>5. ASSUME NEW j \in (p + 1)..Len(trace')
          PROVE  trace'[j].type = "retry" /\ trace'[j].payload.attempt = j - p
      <3>1. CASE j \in (p + 1)..Len(trace)
        BY <1>0, <2>2, <2>3, <3>1
      <3>2. CASE j = Len(trace) + 1
        BY <1>0, <2>2, <2>3, <3>2
      <3>3. QED BY <1>0, <2>2, <2>5, <3>1, <3>2
    <2>6. Asked(p)'
      BY <2>4, <2>5 DEF Asked
    <2>7. QED BY <2>4, <2>6 DEF AskedInv
  <1>3. CASE ~Request /\ ~Retry
    <2>1. pc' # "waiting"
      BY <1>3 DEF Next, StepLimit, ModelDown, ModelFails, Answer, AskForTools, Invoke, ScoreRun
    <2>2. QED BY <2>1 DEF AskedInv
  <1>4. QED BY <1>1, <1>2, <1>3, StepTrace DEF Next, Request, Retry, StepLimit, ModelDown, ModelFails, Answer,
               AskForTools, Invoke, ScoreRun

LEMMA CausedBefore ==
  ASSUME NEW s, NEW t, NEW i \in Nat \ {0}, \A j \in 1..i : t[j] = s[j], s[i].parent \in 0..(i - 1), Caused(s, i)
  PROVE  Caused(t, i)
  <1>1. t[i] = s[i]
    OBVIOUS
  <1>2. s[i].parent > 0 => t[s[i].parent] = s[s[i].parent]
    OBVIOUS
  <1>3. \A j \in (s[i].parent + 1)..(i - 1) : t[j] = s[j]
    OBVIOUS
  <1>4. CASE IsCallOutcome(s[i])
    BY <1>1, <1>2, <1>4 DEF Caused
  <1>5. CASE ~IsCallOutcome(s[i]) /\ (s[i].type \in {"model_response", "retry"} \/ IsError(s[i], "ModelError"))
    BY <1>1, <1>2, <1>3, <1>5 DEF Caused, NoParent
  <1>6. CASE ~IsCallOutcome(s[i]) /\ ~(s[i].type \in {"model_response", "retry"} \/ IsError(s[i], "ModelError"))
    BY <1>1, <1>6 DEF Caused
  <1>7. QED BY <1>4, <1>5, <1>6

\* The classes of errors the tools raise are not those of the runner.
LEMMA Outcomes ==
  ASSUME NEW s, NEW c, NEW p
  PROVE  Outcome(s, c) \in {"ok", "UnknownToolError", "TypeError", "NotFoundError", "PolicyViolationError"}
  BY DEF Outcome

LEMMA CallOutcome ==
  ASSUME NEW p, NEW c
  PROVE  LET e == OutcomeEvent(p, c) IN
         /\ IsCallOutcome(e) /\ ~IsClosing(e) /\ e.parent = p /\ e.type \in {"tool_result", "error"}
         /\ e.type = "tool_result" <=> Outcome(env, c) = "ok"
  BY Outcomes DEF OutcomeEvent, ErrorEvent, Event, IsCallOutcome, IsClosing, IsError

LEMMA StepChain == ASSUME ShapeInv, AskedInv, ChainInv, Next PROVE ChainInv'
  <1>0. Len(trace) \in Nat
    BY Lengths DEF ShapeInv
  <1>1. ASSUME NEW t, \A j \in 1..Len(trace) : t[j] = trace[j], NEW i \in 1..Len(trace)
        PROVE  Caused(t, i)
    BY <1>0, <1>1, CausedBefore DEF ChainInv, ShapeInv
  <1>2. ASSUME NEW x, Adds1(x), \A t : t[Len(trace) + 1] = x /\ (\A j \in 1..Len(trace) : t[j] = trace[j])
                                       => Caused(t, Len(trace) + 1)
        PROVE  ChainInv'
    <2>1. \A i \in 1..Len(trace') : i \in 1..Len(trace) \/ i = Len(trace) + 1
      BY <1>0, <1>2 DEF Adds1, Extends1
    <2>2. QED BY <1>1, <1>2, <2>1 DEF ChainInv, Adds1, Extends1
  <1>3. ASSUME NEW p, Asked(p), NEW e, NEW t, t[Len(trace) + 1] = e, \A j \in 1..Len(trace) : t[j] = trace[j],
               e.parent = LatestRequest(trace), ~IsCallOutcome(e),
               e.type \in {"model_response", "retry"} \/ IsError(e, "ModelError"),
               e.type = "retry" => e.payload.attempt = attempt /\ attempt <= MaxModelRetries,
               IsError(e, "ModelError") => attempt > MaxModelRetries
        PROVE  Caused(t, Len(trace) + 1)
    <2>1. e.parent = p /\ p \in 1..Len(trace)
      BY <1>3, Latest DEF Asked
    <2>2. attempt \in 1..(MaxModelRetries + 1) /\ MaxModelRetries \in Nat
      BY RunnerAssumption DEF RunnerAssumption, ShapeInv
    <2>3. /\ t[p].type = "model_request" /\ Len(trace) = p + attempt - 1
          /\ \A j \in (p + 1)..Len(trace) : t[j].type = "retry" /\ t[j].payload.attempt = j - p
      BY <1>0, <1>3, <2>1 DEF Asked
    <2>4. PICK n : n = Len(trace) + 1
      OBVIOUS
    <2>5. n - 1 = Len(trace) /\ n - p = attempt
      BY <1>0, <2>1, <2>2, <2>3, <2>4
    <2>6. attempt > MaxModelRetries => attempt = MaxModelRetries + 1
      BY <2>2
    <2>7. Caused(t, n)
      BY <1>3, <2>1, <2>2, <2>3, <2>4, <2>5, <2>6 DEF Caused, NoParent
    <2>8. QED BY <2>4, <2>7
  <1>4. CASE trace' = trace
    BY <1>4 DEF ChainInv
  <1>5. CASE Request /\ Adds1(Event("model_request", NoParent, [messages |-> messages]))
    BY <1>2, <1>5 DEF Caused, Event, IsCallOutcome, IsError
  <1>6. CASE StepLimit /\ Adds1(ErrorEvent(NoParent, "MaxStepsExceeded"))
    BY <1>2, <1>6 DEF Caused, ErrorEvent, Event, IsCallOutcome, IsError
  <1>7. CASE Retry /\ Adds1(Event("retry", LatestRequest(trace), [attempt |-> attempt]))
    <2>1. PICK p : Asked(p)
      BY <1>7 DEF AskedInv, Retry
    <2>2. attempt <= MaxModelRetries
      BY <1>7, RunnerAssumption DEF RunnerAssumption, ShapeInv, Retry, RetriesSpent
    <2>3. PICK e : e = Event("retry", LatestRequest(trace), [attempt |-> attempt])
      OBVIOUS
    <2>4. e.type = "retry" /\ e.parent = LatestRequest(trace) /\ e.payload.attempt = attempt
      BY <2>3 DEF Event
    <2>5. ~IsCallOutcome(e) /\ ~IsError(e, "ModelError")
      BY <2>4 DEF IsCallOutcome, IsError
    <2>6. QED BY <1>2, <1>3, <1>7, <2>1, <2>2, <2>3, <2>4, <2>5
  <1>8. CASE ModelDown /\ Adds1(ErrorEvent(LatestRequest(trace), "ModelError"))
    <2>1. PICK p : Asked(p)
      BY <1>8 DEF AskedInv, ModelDown
    <2>2. attempt > MaxModelRetries
      BY <1>8 DEF ModelDown, RetriesSpent
    <2>3. PICK e : e = ErrorEvent(LatestRequest(trace), "ModelError")
      OBVIOUS
    <2>4. e.type = "error" /\ e.parent = LatestRequest(trace) /\ e.payload.error_type = "ModelError"
      BY <2>3 DEF ErrorEvent, Event
    <2>5. ~IsCallOutcome(e) /\ IsError(e, "ModelError")
      BY <2>4 DEF IsCallOutcome, IsError
    <2>6. QED BY <1>2, <1>3, <1>8, <2>1, <2>2, <2>3, <2>4, <2>5
  <1>9. ASSUME NEW content, NEW calls, AskForTools, Adds1(Response(content, calls))
        PROVE  ChainInv'
    <2>1. PICK p : Asked(p)
      BY <1>9 DEF AskedInv, AskForTools
    <2>2. PICK e : e = Response(content, calls)
      OBVIOUS
    <2>3. e.type = "model_response" /\ e.parent = LatestRequest(trace)
      BY <2>2, Responses
    <2>4. ~IsCallOutcome(e) /\ ~IsError(e, "ModelError")
      BY <2>3 DEF IsCallOutcome, IsError
    <2>5. QED BY <1>2, <1>3, <1>9, <2>1, <2>2, <2>3, <2>4
  <1>10. ASSUME NEW x, NEW y, Adds2(x, y),
                Caused(trace', Len(trace) + 1), Caused(trace', Len(trace) + 2)
         PROVE  ChainInv'
    <2>1. \A i \in 1..Len(trace') : i \in 1..Len(trace) \/ i = Len(trace) + 1 \/ i = Len(trace) + 2
      BY <1>0, <1>10 DEF Adds2, Extends2
    <2>2. QED BY <1>1, <1>10, <2>1 DEF ChainInv, Adds2, Extends2
  <1>11. ASSUME NEW content, Answer,
                Adds2(Response(content, <<>>), Event("final_answer", NoParent, [content |-> content]))
         PROVE  ChainInv'
    <2>1. PICK p : Asked(p)
      BY <1>11 DEF AskedInv, Answer
    <2>2. PICK x : x = Response(content, <<>>)
      OBVIOUS
    <2>3. PICK y : y = Event("final_answer", NoParent, [content |-> content])
      OBVIOUS
    <2>4. PICK t : t = trace'
      OBVIOUS
    <2>5. /\ t[Len(trace) + 1] = x /\ t[Len(trace) + 2] = y
          /\ \A j \in 1..Len(trace) : t[j] = trace[j]
      BY <1>11, <2>2, <2>3, <2>4 DEF Adds2, Extends2
    <2>6. x.type = "model_response" /\ x.parent = LatestRequest(trace)
      BY <2>2, Responses
    <2>7. ~IsCallOutcome(x) /\ ~IsError(x, "ModelError")
      BY <2>6 DEF IsCallOutcome, IsError
    <2>8. Caused(t, Len(trace) + 1)
      BY <1>3, <2>1, <2>5, <2>6, <2>7
    <2>9. y.type = "final_answer" /\ y.parent = NoParent
      BY <2>3 DEF Event
    <2>10. Caused(t, Len(trace) + 2)
      BY <2>5, <2>9 DEF Caused, IsCallOutcome, IsError
    <2>11. QED BY <1>10, <1>11, <2>4, <2>8, <2>10
  <1>12. ASSUME NEW call,
                Adds2(Event("tool_call", NoParent, call), OutcomeEvent(Len(trace) + 1, call))
         PROVE  ChainInv'
    <2>1. PICK x : x = Event("tool_call", NoParent, call)
      OBVIOUS
    <2>2. PICK y : y = OutcomeEvent(Len(trace) + 1, call)
      OBVIOUS
    <2>3. PICK t : t = trace'
      OBVIOUS
    <2>4. t[Len(trace) + 1] = x /\ t[Len(trace) + 2] = y
      BY <1>12, <2>1, <2>2, <2>3 DEF Adds2, Extends2
    <2>5. x.type = "tool_call" /\ x.parent = NoParent
      BY <2>1 DEF Event
    <2>6. IsCallOutcome(y) /\ y.parent = Len(trace) + 1
      BY <2>2, CallOutcome
    <2>7. Caused(t, Len(trace) + 1)
      BY <2>4, <2>5 DEF Caused, IsCallOutcome, IsError
    <2>8. Caused(t, Len(trace) + 2)
      <3>1. PICK n : n = Len(trace) + 2
        OBVIOUS
      <3>2. n - 1 = Len(trace) + 1 /\ n - 1 > 0
        BY <1>0, <3>1
      <3>3. Caused(t, n)
        BY <2>4, <2>5, <2>6, <3>1, <3>2 DEF Caused
      <3>4. QED BY <3>1, <3>3
    <2>9. QED BY <1>10, <1>12, <2>3, <2>7, <2>8
  <1>13. QED BY <1>4, <1>5, <1>6, <1>7, <1>8, <1>9, <1>11, <1>12, StepTrace

\* The requests of a trace, and the calls that succeeded, as it grows.
LEMMA GrownBy1 ==
  ASSUME ShapeInv, NEW x, Adds1(x)
  PROVE  /\ Places(trace', "model_request") =
              Places(trace, "model_request") \cup (IF x.type = "model_request" THEN {Len(trace) + 1} ELSE {})
         /\ x.type # "tool_result" => Succeeded(trace') = Succeeded(trace)
  <1>1. /\ Len(trace) \in Nat /\ Len(trace') = Len(trace) + 1
        /\ DOMAIN trace = 1..Len(trace) /\ DOMAIN trace' = 1..(Len(trace) + 1)
        /\ \A i \in 1..Len(trace) : trace'[i] = trace[i]
        /\ trace'[Len(trace) + 1] = x
    BY Lengths DEF ShapeInv, Adds1, Extends1
  <1>2. QED BY <1>1 DEF Places, Succeeded

LEMMA GrownBy2 ==
  ASSUME ShapeInv, NEW x, NEW y, Adds2(x, y), x.type # "model_request", y.type # "model_request"
  PROVE  /\ Places(trace', "model_request") = Places(trace, "model_request")
         /\ x.type # "tool_result" =>
              Succeeded(trace') = Succeeded(trace) \cup (IF x.type = "tool_call" /\ y.type = "tool_result"
                                                           THEN {Len(trace) + 1} ELSE {})
  <1>1. /\ Len(trace) \in Nat /\ Len(trace') = Len(trace) + 2
        /\ DOMAIN trace = 1..Len(trace) /\ DOMAIN trace' = 1..(Len(trace) + 2)
        /\ \A i \in 1..Len(trace) : trace'[i] = trace[i]
        /\ trace'[Len(trace) + 1] = x /\ trace'[Len(trace) + 2] = y
    BY Lengths DEF ShapeInv, Adds2, Extends2
  <1>2. \A i \in DOMAIN trace' : i \in DOMAIN trace \/ i = Len(trace) + 1 \/ i = Len(trace) + 2
    BY <1>1
  <1>3. Places(trace', "model_request") = Places(trace, "model_request")
    BY <1>1, <1>2 DEF Places
  <1>4. ASSUME x.type # "tool_result", NEW i
        PROVE  i \in Succeeded(trace') <=>
                 i \in Succeeded(trace) \/ (i = Len(trace) + 1 /\ x.type = "tool_call" /\ y.type = "tool_result")
    <2>1. i \in Succeeded(trace') <=> /\ i \in 1..(Len(trace) + 1) /\ trace'[i].type = "tool_call"
                                      /\ trace'[i + 1].type = "tool_result"
      BY <1>1 DEF Succeeded, Places
    <2>2. i \in Succeeded(trace) <=> /\ i \in 1..(Len(trace) - 1) /\ trace[i].type = "tool_call"
                                     /\ trace[i + 1].type = "tool_result"
      BY <1>1 DEF Succeeded, Places
    <2>3. CASE i \in 1..(Len(trace) - 1)
      BY <1>1, <2>1, <2>2, <2>3
    <2>4. CASE i = Len(trace)
      <3>1. trace'[i + 1] = x
        BY <1>1, <2>4
      <3>2. i \notin 1..(Len(trace) - 1) /\ i # Len(trace) + 1
        <4>1. PICK n \in Nat : n = Len(trace)
          BY <1>1
        <4>2. n \notin 1..(n - 1) /\ n # n + 1
          BY <4>1
        <4>3. QED BY <2>4, <4>1, <4>2
      <3>3. QED BY <1>4, <2>1, <2>2, <3>1, <3>2
    <2>5. CASE i = Len(trace) + 1
      <3>1. i + 1 = Len(trace) + 2
        BY <1>1, <2>5
      <3>2. QED BY <1>1, <2>1, <2>2, <2>5, <3>1
    <2>6. QED BY <1>1, <2>1, <2>2, <2>3, <2>4, <2>5
  <1>5. QED BY <1>3, <1>4

\* A trace that nothing closes, closed by x or not.
LEMMA Closes1 ==
  ASSUME ShapeInv, Open, NEW x, Adds1(x)
  PROVE  ClosedLast' /\ (~IsClosing(x) => Open')
  <1>1. /\ Len(trace) \in Nat /\ Len(trace') = Len(trace) + 1
        /\ \A i \in 1..Len(trace) : trace'[i] = trace[i]
        /\ trace'[Len(trace) + 1] = x
    BY Lengths DEF ShapeInv, Adds1, Extends1
  <1>2. \A i \in 1..Len(trace') : i = Len(trace') \/ i \in 1..Len(trace)
    BY <1>1
  <1>3. QED BY <1>1, <1>2 DEF Open, ClosedLast

LEMMA Closes2 ==
  ASSUME ShapeInv, Open, NEW x, NEW y, Adds2(x, y), ~IsClosing(x)
  PROVE  ClosedLast' /\ (~IsClosing(y) => Open')
  <1>1. /\ Len(trace) \in Nat /\ Len(trace') = Len(trace) + 2
        /\ \A i \in 1..Len(trace) : trace'[i] = trace[i]
        /\ trace'[Len(trace) + 1] = x /\ trace'[Len(trace) + 2] = y
    BY Lengths DEF ShapeInv, Adds2, Extends2
  <1>2. \A i \in 1..Len(trace') : i = Len(trace') \/ i = Len(trace) + 1 \/ i \in 1..Len(trace)
    BY <1>1
  <1>3. QED BY <1>1, <1>2 DEF Open, ClosedLast

LEMMA StepEnd == ASSUME ShapeInv, EndInv, Next PROVE EndInv'
  <1>0. Len(trace) \in Nat
    BY Lengths DEF ShapeInv
  <1>1. CASE ModelFails /\ trace' = trace
    <2>1. Open /\ pc' = "raised" /\ step' = step
      BY <1>1 DEF ModelFails, EndInv
    <2>2. Len(trace) > 0 => ~IsClosing(trace[Len(trace)])
      BY <1>0, <2>1 DEF Open
    <2>3. QED BY <1>1, <2>1, <2>2 DEF EndInv, ClosedLast, IsClosing
  <1>2. CASE ScoreRun /\ trace' = trace
    BY <1>2 DEF ScoreRun, EndInv, ClosedLast, EndsInAnswer, EndsAtLimit
  <1>3. CASE Request /\ Adds1(Event("model_request", NoParent, [messages |-> messages]))
    <2>1. PICK x : x = Event("model_request", NoParent, [messages |-> messages])
      OBVIOUS
    <2>2. x.type = "model_request" /\ ~IsClosing(x)
      BY <2>1 DEF Event, IsClosing, IsError
    <2>3. Open /\ pc' = "waiting" /\ step' = step + 1
      BY <1>3 DEF Request, EndInv
    <2>4. ClosedLast' /\ Open'
      BY <1>3, <2>1, <2>2, <2>3, Closes1
    <2>5. Places(trace', "model_request") = Places(trace, "model_request") \cup {Len(trace) + 1}
      BY <1>3, <2>1, <2>2, GrownBy1
    <2>6. Len(trace) + 1 \notin Places(trace, "model_request")
      BY <1>0, Lengths DEF ShapeInv, Places
    <2>7. IsFiniteSet(Places(trace', "model_request")) /\ Cardinality(Places(trace', "model_request")) = step + 1
      BY <2>5, <2>6, FS_AddElement DEF EndInv
    <2>8. QED BY <2>3, <2>4, <2>7 DEF EndInv
  <1>4. ASSUME NEW x, Adds1(x), x.type # "model_request", Open, step' = step,
               ~IsClosing(x) \/ pc' \in {"exceeded", "raised"},
               pc' \in {"waiting", "calling", "exceeded", "raised"},
               pc' = "exceeded" => IsError(x, "MaxStepsExceeded") /\ step = MaxSteps,
               pc' = "raised" => ~(x.type = "final_answer" \/ IsError(x, "MaxStepsExceeded"))
        PROVE  EndInv'
    <2>1. ClosedLast' /\ (~IsClosing(x) => Open')
      BY <1>4, Closes1
    <2>2. Places(trace', "model_request") = Places(trace, "model_request")
      BY <1>4, GrownBy1
    <2>3. Len(trace') = Len(trace) + 1 /\ trace'[Len(trace')] = x
      BY <1>4 DEF Adds1, Extends1
    <2>4. pc' = "exceeded" => EndsAtLimit'
      BY <1>0, <1>4, <2>3 DEF EndsAtLimit
    <2>5. QED BY <1>4, <2>1, <2>2, <2>3, <2>4 DEF EndInv
  <1>5. CASE StepLimit /\ Adds1(ErrorEvent(NoParent, "MaxStepsExceeded"))
    <2>1. PICK x : x = ErrorEvent(NoParent, "MaxStepsExceeded")
      OBVIOUS
    <2>2. x.type = "error" /\ x.payload.error_type = "MaxStepsExceeded"
      BY <2>1 DEF ErrorEvent, Event
    <2>3. Open /\ step' = step /\ pc' = "exceeded" /\ step = MaxSteps
      BY <1>5 DEF StepLimit, EndInv
    <2>4. QED BY <1>4, <1>5, <2>1, <2>2, <2>3 DEF IsError
  <1>6. CASE Retry /\ Adds1(Event("retry", LatestRequest(trace), [attempt |-> attempt]))
    <2>1. PICK x : x = Event("retry", LatestRequest(trace), [attempt |-> attempt])
      OBVIOUS
    <2>2. x.type = "retry" /\ ~IsClosing(x)
      BY <2>1 DEF Event, IsClosing, IsError
    <2>3. Open /\ step' = step /\ pc' = "waiting"
      BY <1>6 DEF Retry, EndInv
    <2>4. QED BY <1>4, <1>6, <2>1, <2>2, <2>3
  <1>7. CASE ModelDown /\ Adds1(ErrorEvent(LatestRequest(trace), "ModelError"))
    <2>1. PICK x : x = ErrorEvent(LatestRequest(trace), "ModelError")
      OBVIOUS
    <2>2. x.type = "error" /\ x.payload.error_type = "ModelError"
      BY <2>1 DEF ErrorEvent, Event
    <2>3. Open /\ step' = step /\ pc' = "raised"
      BY <1>7 DEF ModelDown, EndInv
    <2>4. QED BY <1>4, <1>7, <2>1, <2>2, <2>3 DEF IsError
  <1>8. ASSUME NEW content, NEW calls, AskForTools, Adds1(Response(content, calls))
        PROVE  EndInv'
    <2>1. PICK x : x = Response(content, calls)
      OBVIOUS
    <2>2. x.type = "model_response"
      BY <2>1, Responses
    <2>3. ~IsClosing(x)
      BY <2>2 DEF IsClosing, IsError
    <2>4. Open /\ step' = step /\ pc' = "calling"
      BY <1>8 DEF AskForTools, EndInv
    <2>5. QED BY <1>4, <1>8, <2>1, <2>2, <2>3, <2>4
  <1>9. ASSUME NEW content, Answer,
               Adds2(Response(content, <<>>), Event("final_answer", NoParent, [content |-> content]))
        PROVE  EndInv'
    <2>1. PICK x : x = Response(content, <<>>)
      OBVIOUS
    <2>2. PICK y : y = Event("final_answer", NoParent, [content |-> content])
      OBVIOUS
    <2>3. x.type = "model_response" /\ x.payload = [content |-> content, tool_calls |-> <<>>]
      BY <2>1, Responses
    <2>4. ~IsClosing(x)
      BY <2>3 DEF IsClosing, IsError
    <2>5. y.type = "final_answer" /\ y.payload.content = content
      BY <2>2 DEF Event
    <2>6. Open /\ step' = step /\ pc' = "answered"
      BY <1>9 DEF Answer, EndInv
    <2>7. ClosedLast' /\ Places(trace', "model_request") = Places(trace, "model_request")
      BY <1>9, <2>1, <2>2, <2>3, <2>4, <2>5, <2>6, Closes2, GrownBy2
    <2>8. EndsInAnswer'
      <3>1. Len(trace') = Len(trace) + 2 /\ trace'[Len(trace) + 1] = x /\ trace'[Len(trace) + 2] = y
        BY <1>9, <2>1, <2>2 DEF Adds2, Extends2
      <3>2. Len(trace') > 1 /\ trace'[Len(trace')] = y /\ trace'[Len(trace') - 1] = x
        BY <1>0, <3>1
      <3>3. QED BY <2>3, <2>5, <3>2 DEF EndsInAnswer
    <2>9. QED BY <2>6, <2>7, <2>8 DEF EndInv
  <1>10. ASSUME NEW call, Invoke,
                Adds2(Event("tool_call", NoParent, call), OutcomeEvent(Len(trace) + 1, call))
         PROVE  EndInv'
    <2>1. PICK x : x = Event("tool_call", NoParent, call)
      OBVIOUS
    <2>2. PICK y : y = OutcomeEvent(Len(trace) + 1, call)
      OBVIOUS
    <2>3. x.type = "tool_call" /\ ~IsClosing(x)
      BY <2>1 DEF Event, IsClosing, IsError
    <2>4. y.type # "model_request" /\ ~IsClosing(y)
      BY <2>2, CallOutcome
    <2>5. Open /\ step' = step /\ pc' \in {"asking", "calling"}
      BY <1>10 DEF Invoke, EndInv
    <2>6. ClosedLast' /\ Open' /\ Places(trace', "model_request") = Places(trace, "model_request")
      BY <1>10, <2>1, <2>2, <2>3, <2>4, <2>5, Closes2, GrownBy2
    <2>7. QED BY <2>5, <2>6 DEF EndInv
  <1>11. QED BY <1>1, <1>2, <1>3, <1>5, <1>6, <1>7, <1>8, <1>9, <1>10, StepTrace

\* A step that no refund is part of.
LEMMA RefundsStay ==
  ASSUME RefundInv, Succeeded(trace') = Succeeded(trace), env' = env,
         \A i \in Succeeded(trace) : trace'[i] = trace[i]
  PROVE  RefundInv'
  <1>1. \A o : Refunds(o)' = Refunds(o)
    BY DEF Refunds
  <1>2. QED BY <1>1 DEF RefundInv, Refunded

\* A step calls no tool, or it is one call, recorded as successful exactly if it was.
LEMMA StepCalls ==
  ASSUME ShapeInv, Next
  PROVE  /\ Len(trace) \in Nat /\ Len(trace') \in Nat /\ Len(trace) <= Len(trace')
         /\ \A i \in Succeeded(trace) : i \in 1..Len(trace) /\ trace'[i] = trace[i]
         /\ \/ env' = env /\ Succeeded(trace') = Succeeded(trace)
            \/ \E call \in AgentCalls :
                 /\ env' = After(env, call) /\ Len(trace') = Len(trace) + 2
                 /\ trace'[Len(trace) + 1].payload = call
                 /\ Succeeded(trace') =
                      Succeeded(trace) \cup (IF Outcome(env, call) = "ok" THEN {Len(trace) + 1} ELSE {})
  <1> DEFINE Same == env' = env /\ Succeeded(trace') = Succeeded(trace)
             Kept == /\ Len(trace') \in Nat /\ Len(trace) <= Len(trace')
                     /\ \A i \in Succeeded(trace) : trace'[i] = trace[i]
             Called(c) == /\ env' = After(env, c) /\ Len(trace') = Len(trace) + 2
                          /\ trace'[Len(trace) + 1].payload = c
                          /\ Succeeded(trace') =
                               Succeeded(trace) \cup (IF Outcome(env, c) = "ok" THEN {Len(trace) + 1} ELSE {})
  <1>0. Len(trace) \in Nat /\ DOMAIN trace = 1..Len(trace) /\ \A i \in Succeeded(trace) : i \in 1..Len(trace)
    BY Lengths DEF ShapeInv, Succeeded, Places
  <1>1. ASSUME NEW x, Adds1(x), x.type # "tool_result"
        PROVE  Kept /\ Succeeded(trace') = Succeeded(trace)
    BY <1>0, <1>1, GrownBy1 DEF Adds1, Extends1
  <1>2. ASSUME trace' = trace /\ (ModelFails \/ ScoreRun)
        PROVE  Kept /\ Same
    BY <1>0, <1>2 DEF ModelFails, ScoreRun
  <1>3. ASSUME Request /\ Adds1(Event("model_request", NoParent, [messages |-> messages]))
        PROVE  Kept /\ Same
    <2>1. PICK x : x = Event("model_request", NoParent, [messages |-> messages])
      OBVIOUS
    <2>2. QED BY <1>1, <1>3, <2>1 DEF Event, Request
  <1>4. ASSUME StepLimit /\ Adds1(ErrorEvent(NoParent, "MaxStepsExceeded"))
        PROVE  Kept /\ Same
    <2>1. PICK x : x = ErrorEvent(NoParent, "MaxStepsExceeded")
      OBVIOUS
    <2>2. QED BY <1>1, <1>4, <2>1 DEF ErrorEvent, Event, StepLimit
  <1>5. ASSUME Retry /\ Adds1(Event("retry", LatestRequest(trace), [attempt |-> attempt]))
        PROVE  Kept /\ Same
    <2>1. PICK x : x = Event("retry", LatestRequest(trace), [attempt |-> attempt])
      OBVIOUS
    <2>2. QED BY <1>1, <1>5, <2>1 DEF Event, Retry
  <1>6. ASSUME ModelDown /\ Adds1(ErrorEvent(LatestRequest(trace), "ModelError"))
        PROVE  Kept /\ Same
    <2>1. PICK x : x = ErrorEvent(LatestRequest(trace), "ModelError")
      OBVIOUS
    <2>2. QED BY <1>1, <1>6, <2>1 DEF ErrorEvent, Event, ModelDown
  <1>7. ASSUME NEW content, NEW calls, AskForTools, Adds1(Response(content, calls))
        PROVE  Kept /\ Same
    <2>1. PICK x : x = Response(content, calls)
      OBVIOUS
    <2>2. x.type = "model_response"
      BY <2>1, Responses
    <2>3. QED BY <1>1, <1>7, <2>1, <2>2 DEF AskForTools
  <1>8. ASSUME NEW content, Answer,
               Adds2(Response(content, <<>>), Event("final_answer", NoParent, [content |-> content]))
        PROVE  Kept /\ Same
    <2>1. PICK x : x = Response(content, <<>>)
      OBVIOUS
    <2>2. PICK y : y = Event("final_answer", NoParent, [content |-> content])
      OBVIOUS
    <2>3. x.type = "model_response" /\ y.type = "final_answer"
      BY <2>1, <2>2, Responses DEF Event
    <2>4. QED BY <1>0, <1>8, <2>1, <2>2, <2>3, GrownBy2 DEF Adds2, Extends2, Answer
  <1>9. ASSUME NEW call \in AgentCalls, env' = After(env, call),
               Adds2(Event("tool_call", NoParent, call), OutcomeEvent(Len(trace) + 1, call))
        PROVE  Kept /\ Called(call)
    <2>1. PICK x : x = Event("tool_call", NoParent, call)
      OBVIOUS
    <2>2. PICK y : y = OutcomeEvent(Len(trace) + 1, call)
      OBVIOUS
    <2>3. x.type = "tool_call" /\ x.payload = call
      BY <2>1 DEF Event
    <2>4. y.type \in {"tool_result", "error"} /\ (y.type = "tool_result" <=> Outcome(env, call) = "ok")
      BY <2>2, CallOutcome
    <2>5. /\ trace'[Len(trace) + 1] = x /\ Len(trace') = Len(trace) + 2
          /\ \A i \in 1..Len(trace) : trace'[i] = trace[i]
      BY <1>9, <2>1, <2>2 DEF Adds2, Extends2
    <2>6. Succeeded(trace') =
            Succeeded(trace) \cup (IF Outcome(env, call) = "ok" THEN {Len(trace) + 1} ELSE {})
      BY <1>9, <2>1, <2>2, <2>3, <2>4, GrownBy2
    <2>7. Kept
      BY <1>0, <2>5
    <2>8. QED BY <1>9, <2>3, <2>5, <2>6, <2>7
  <1>10. Kept /\ (Same \/ \E c \in AgentCalls : Called(c))
    <2> HIDE DEF Kept, Same, Called
    <2> QED BY <1>2, <1>3, <1>4, <1>5, <1>6, <1>7, <1>8, <1>9, StepTrace
  <1>11. QED BY <1>0, <1>10

LEMMA StepRefund == ASSUME ShapeInv, RefundInv, Next PROVE RefundInv'
  <1>1. CASE env' = env /\ Succeeded(trace') = Succeeded(trace)
    BY <1>1, StepCalls, RefundsStay
  <1>2. ASSUME NEW call \in AgentCalls,
               env' = After(env, call), trace'[Len(trace) + 1].payload = call,
               Succeeded(trace') =
                 Succeeded(trace) \cup (IF Outcome(env, call) = "ok" THEN {Len(trace) + 1} ELSE {})
        PROVE  RefundInv'
    <2>1. PICK n : n = Len(trace) + 1
      OBVIOUS
    <2>2. /\ trace'[n].payload = call /\ n \notin Succeeded(trace)
          /\ \A i \in Succeeded(trace) : trace'[i] = trace[i]
          /\ Succeeded(trace') = Succeeded(trace) \cup (IF Outcome(env, call) = "ok" THEN {n} ELSE {})
      BY <1>2, <2>1, StepCalls
    <2>3. ASSUME NEW o \in Orders
          PROVE  Refunded(o)'
      <3>1. IsState(env) /\ IsCall(call) /\ Refunded(o)
        BY RunnerAssumption DEF RunnerAssumption, ShapeInv, RefundInv
      <3>2. /\ o \in DOMAIN env.refunds => /\ o \in DOMAIN env'.refunds
                                           /\ env'.refunds[o] = env.refunds[o]
            /\ env.status[o] = "delivered" => env'.status[o] = "delivered"
        BY <1>2, <3>1, AfterRefunds
      <3>3. CASE Outcome(env, call) = "ok" /\ call.op = "create_refund" /\ call.order = o
        <4>1. /\ o \notin DOMAIN env.refunds /\ o \in DOMAIN env'.refunds
              /\ env'.refunds[o] <= Total[o] /\ env'.status[o] = "delivered"
          BY <1>2, <3>1, <3>3, AfterRefunds
        <4>2. Refunds(o) = {} /\ o \notin DOMAIN SeedRefunds
          BY <3>1, <4>1 DEF Refunded
        <4>3. Refunds(o)' = {n}
          BY <2>2, <3>3, <4>2 DEF Refunds
        <4>4. QED BY <4>1, <4>2, <4>3 DEF Refunded
      <3>4. CASE ~(Outcome(env, call) = "ok" /\ call.op = "create_refund" /\ call.order = o)
        <4>1. Refunds(o)' = Refunds(o)
          BY <2>2, <3>4 DEF Refunds
        <4>2. QED BY <3>1, <3>2, <4>1 DEF Refunded
      <3>5. QED BY <3>3, <3>4
    <2>4. QED BY <2>3 DEF RefundInv
  <1>3. QED BY <1>1, <1>2, StepCalls

-----------------------------------------------------------------------------
\* Replaying a trace: States is defined by recursion over the trace, state one that
\* satisfies its equation.

IsReplay(t, n, state) ==
  state = [i \in 0..n |->
            IF i = 0 THEN SeedEnvironment
            ELSE IF i \in Succeeded(t) THEN Effect(state[i - 1], t[i].payload) ELSE state[i - 1]]

LEMMA ReplaySteps ==
  ASSUME NEW t, NEW n \in Nat, NEW state, IsReplay(t, n, state)
  PROVE  /\ state[0] = SeedEnvironment
         /\ \A i \in 1..n : /\ i \in Succeeded(t) => state[i] = Effect(state[i - 1], t[i].payload)
                            /\ i \notin Succeeded(t) => state[i] = state[i - 1]
  <1>1. /\ 0 \in 0..n /\ \A i \in 1..n : i \in 0..n /\ i # 0
        /\ \A i \in 0..n : state[i] = IF i = 0 THEN SeedEnvironment
                                      ELSE IF i \in Succeeded(t) THEN Effect(state[i - 1], t[i].payload)
                                                                 ELSE state[i - 1]
    BY DEF IsReplay
  <1>2. QED BY <1>1

LEMMA ReplayExists ==
  ASSUME NEW t, NEW n \in Nat
  PROVE  \E state : IsReplay(t, n, state)
  <1> DEFINE Bad == {m \in Nat : ~\E state : IsReplay(t, m, state)}
  <1>1. SUFFICES ASSUME Bad # {} PROVE FALSE
    OBVIOUS
  <1>2. PICK m \in Bad : \A k \in Bad : m <= k
    BY <1>1, LeastNatural
  <1>3. m # 0
    <2>1. PICK f : f = [i \in 0..0 |-> SeedEnvironment]
      OBVIOUS
    <2>2. \A i \in 0..0 : i = 0
      OBVIOUS
    <2>3. IsReplay(t, 0, f)
      BY <2>1, <2>2 DEF IsReplay
    <2>4. QED BY <1>2, <2>3
  <1>4. m - 1 \in Nat /\ m - 1 \notin Bad
    BY <1>2, <1>3
  <1>5. PICK g : IsReplay(t, m - 1, g)
    BY <1>4
  <1>6. PICK f : f = [i \in 0..m |-> IF i = 0 THEN SeedEnvironment
                                     ELSE IF i \in Succeeded(t) THEN Effect(g[i - 1], t[i].payload)
                                                                ELSE g[i - 1]]
    OBVIOUS
  <1>7. \A i \in 0..(m - 1) : i \in 0..m
    BY <1>2, <1>3
  <1>8. \A i \in 0..(m - 1) : f[i] = g[i]
    BY <1>5, <1>6, <1>7 DEF IsReplay
  <1>9. \A i \in 0..m : i # 0 => i - 1 \in 0..(m - 1)
    BY <1>2
  <1>10. IsReplay(t, m, f)
    BY <1>6, <1>8, <1>9 DEF IsReplay
  <1>11. QED BY <1>2, <1>10

LEMMA StatesReplay ==
  ASSUME NEW t, Len(t) \in Nat
  PROVE  IsReplay(t, Len(t), States(t))
  <1>1. States(t) = CHOOSE state : IsReplay(t, Len(t), state)
    BY DEF States, IsReplay
  <1>2. QED BY <1>1, ReplayExists

\* Traces that record the same successful calls in their first n steps lead to the same states.
LEMMA SameStates ==
  ASSUME NEW t, Len(t) \in Nat, NEW u, Len(u) \in Nat, NEW n \in Nat, n <= Len(t), n <= Len(u),
         \A i \in 1..n : i \in Succeeded(t) <=> i \in Succeeded(u),
         \A i \in 1..n : i \in Succeeded(t) => t[i].payload = u[i].payload
  PROVE  \A i \in 0..n : States(t)[i] = States(u)[i]
  <1> DEFINE Bad == {i \in 0..n : States(t)[i] # States(u)[i]}
  <1>0. IsReplay(t, Len(t), States(t)) /\ IsReplay(u, Len(u), States(u))
    BY StatesReplay
  <1>1. SUFFICES ASSUME Bad # {} PROVE FALSE
    OBVIOUS
  <1>2. PICK i \in Bad : \A k \in Bad : i <= k
    <2>1. Bad \subseteq Nat
      OBVIOUS
    <2>2. QED BY <1>1, <2>1, LeastNatural
  <1>3. i # 0
    BY <1>0, ReplaySteps
  <1>4. i \in 1..n /\ i - 1 \in 0..n /\ i - 1 < i /\ i \in 1..Len(t) /\ i \in 1..Len(u)
    BY <1>2, <1>3
  <1>5. States(t)[i - 1] = States(u)[i - 1]
    BY <1>2, <1>4
  <1>6. /\ i \in Succeeded(t) => States(t)[i] = Effect(States(t)[i - 1], t[i].payload)
        /\ i \notin Succeeded(t) => States(t)[i] = States(t)[i - 1]
    BY <1>0, <1>4, ReplaySteps
  <1>7. /\ i \in Succeeded(u) => States(u)[i] = Effect(States(u)[i - 1], u[i].payload)
        /\ i \notin Succeeded(u) => States(u)[i] = States(u)[i - 1]
    BY <1>0, <1>4, ReplaySteps
  <1>8. States(t)[i] = States(u)[i]
    BY <1>4, <1>5, <1>6, <1>7
  <1>9. QED BY <1>2, <1>8

\* The invariant is the property: the environment is what the trace so far leads to.
ReplayInv == env = States(trace)[Len(trace)]

LEMMA InitReplay == Init => ReplayInv
  <1> SUFFICES ASSUME Init PROVE ReplayInv
    OBVIOUS
  <1>1. Len(trace) = 0 /\ 0 \in Nat
    BY DEF Init
  <1>2. IsReplay(trace, 0, States(trace))
    BY <1>1, StatesReplay
  <1>3. States(trace)[0] = SeedEnvironment
    BY <1>1, <1>2, ReplaySteps
  <1>4. QED BY <1>1, <1>3 DEF Init, ReplayInv

LEMMA StepReplay == ASSUME ShapeInv, ReplayInv, Next PROVE ReplayInv'
  <1> DEFINE m == Len(trace)
  <1>0. PICK u : u = trace'
    OBVIOUS
  <1>1. m \in Nat /\ Len(u) \in Nat /\ m <= Len(u) /\ m \in 0..m
    BY <1>0, StepCalls
  <1>2. IsReplay(u, Len(u), States(u))
    BY <1>1, StatesReplay
  <1>3. ASSUME \A i \in 1..m : i \in Succeeded(trace) <=> i \in Succeeded(u)
        PROVE  States(u)[m] = env
    <2>1. \A i \in 1..m : i \in Succeeded(trace) => trace[i].payload = u[i].payload
      BY <1>0, StepCalls
    <2>2. \A i \in 0..m : States(trace)[i] = States(u)[i]
      BY <1>1, <1>3, <2>1, SameStates
    <2>3. QED BY <1>1, <2>2 DEF ReplayInv
  <1>4. SUFFICES env' = States(u)[Len(u)]
    BY <1>0 DEF ReplayInv
  <1>5. CASE env' = env /\ Succeeded(trace') = Succeeded(trace)
    <2>1. States(u)[m] = env /\ Succeeded(u) = Succeeded(trace)
      BY <1>0, <1>3, <1>5
    <2>2. \A i \in Succeeded(u) : i \in 1..m
      BY <2>1, StepCalls
    <2> DEFINE Bad == {i \in m..Len(u) : States(u)[i] # env}
    <2>3. Bad = {}
      <3>1. SUFFICES ASSUME Bad # {} PROVE FALSE
        OBVIOUS
      <3>2. PICK i \in Bad : \A k \in Bad : i <= k
        <4>1. Bad \subseteq Nat
          BY <1>1
        <4>2. QED BY <3>1, <4>1, LeastNatural
      <3>3. i # m
        BY <2>1
      <3>4. i \in 1..Len(u) /\ i - 1 \in m..Len(u) /\ i - 1 < i /\ i \notin 1..m
        BY <1>1, <3>2, <3>3
      <3>5. States(u)[i - 1] = env /\ i \notin Succeeded(u)
        BY <2>2, <3>2, <3>4
      <3>6. States(u)[i] = States(u)[i - 1]
        BY <1>1, <1>2, <3>4, <3>5, ReplaySteps
      <3>7. QED BY <3>2, <3>5, <3>6
    <2>4. Len(u) \in m..Len(u)
      BY <1>1
    <2>5. QED BY <1>5, <2>3, <2>4
  <1>6. ASSUME NEW call \in AgentCalls,
               env' = After(env, call), Len(trace') = m + 2, trace'[m + 1].payload = call,
               Succeeded(trace') =
                 Succeeded(trace) \cup (IF Outcome(env, call) = "ok" THEN {m + 1} ELSE {})
        PROVE  env' = States(u)[Len(u)]
    <2>1. \A i \in Succeeded(trace) : i \in 1..m
      BY StepCalls
    <2>2. m + 1 \notin 1..m /\ m + 2 \notin 1..m /\ m + 2 # m + 1
      BY <1>1
    <2>3. /\ Succeeded(u) = Succeeded(trace) \cup (IF Outcome(env, call) = "ok" THEN {m + 1} ELSE {})
          /\ Len(u) = m + 2 /\ u[m + 1].payload = call
      BY <1>0, <1>6
    <2>4. /\ \A i \in 1..m : i \in Succeeded(trace) <=> i \in Succeeded(u)
          /\ m + 2 \notin Succeeded(u) /\ (m + 1 \in Succeeded(u) <=> Outcome(env, call) = "ok")
      BY <2>1, <2>2, <2>3
    <2>5. States(u)[m] = env
      BY <1>3, <2>4
    <2>6. /\ m + 1 \in 1..Len(u) /\ (m + 1) - 1 = m /\ m + 2 \in 1..Len(u) /\ (m + 2) - 1 = m + 1
      BY <1>1, <2>3
    <2>7. /\ m + 1 \in Succeeded(u) => States(u)[m + 1] = Effect(States(u)[(m + 1) - 1], u[m + 1].payload)
          /\ m + 1 \notin Succeeded(u) => States(u)[m + 1] = States(u)[(m + 1) - 1]
          /\ m + 2 \notin Succeeded(u) => States(u)[m + 2] = States(u)[(m + 2) - 1]
      BY <1>1, <1>2, <2>6, ReplaySteps
    <2>8. States(u)[m + 1] = After(env, call)
      BY <2>3, <2>4, <2>5, <2>6, <2>7 DEF After
    <2>9. QED BY <1>6, <2>3, <2>4, <2>6, <2>7, <2>8
  <1>7. QED BY <1>5, <1>6, StepCalls

\* The report, by how the trace ends and what score_execution looked at.
ScoredInv ==
  pc = "scored" =>
    (report.passed <=> /\ trace[Len(trace)].type = "final_answer"
                       /\ MeetsContract(Score(AttemptedCalls(trace), env)))

LEMMA StepScored == ASSUME EndInv, ScoredInv, Next PROVE ScoredInv'
  <1>1. CASE ScoreRun
    <2>1. PICK score : score = Score(AttemptedCalls(trace), env)
      OBVIOUS
    <2>2. /\ pc \in {"answered", "exceeded"} /\ trace' = trace /\ env' = env
          /\ report'.passed <=> StatusOf(pc = "exceeded", score) = "passed"
      BY <1>1, <2>1 DEF ScoreRun
    <2>3. StatusOf(pc = "exceeded", score) = "passed" <=> pc # "exceeded" /\ MeetsContract(score)
      BY DEF StatusOf
    <2>4. pc = "answered" => trace[Len(trace)].type = "final_answer"
      BY DEF EndInv, EndsInAnswer
    <2>5. pc = "exceeded" => trace[Len(trace)].type = "error"
      BY DEF EndInv, EndsAtLimit, IsError
    <2>6. report'.passed <=> trace[Len(trace)].type = "final_answer" /\ MeetsContract(score)
      BY <2>2, <2>3, <2>4, <2>5
    <2>7. QED BY <2>1, <2>2, <2>6 DEF ScoredInv
  <1>2. CASE ~ScoreRun
    <2>1. pc' # "scored"
      BY <1>2 DEF Next, Request, StepLimit, Retry, ModelDown, ModelFails, Answer, AskForTools, Invoke
    <2>2. QED BY <2>1 DEF ScoredInv
  <1>3. QED BY <1>1, <1>2

-----------------------------------------------------------------------------
\* The conversation

Speech(t) == [i \in DOMAIN t |-> Said(t[i])]
Words(t) == UNION {Range(Said(t[i])) : i \in DOMAIN t}

LEMMA SaidIsShort ==
  ASSUME NEW e
  PROVE  Sequence(Said(e)) /\ (Said(e) = <<>> \/ \E w : Said(e) = <<w>>)
  <1>1. Said(e) = <<>> \/ \E w : Said(e) = <<w>>
    BY DEF Said
  <1>2. CASE Said(e) = <<>>
    BY <1>2, EmptySeq DEF Sequence
  <1>3. ASSUME NEW w, Said(e) = <<w>> PROVE Sequence(Said(e))
    <2>1. <<w>> \in Seq({w})
      OBVIOUS
    <2>2. QED BY <1>3, <2>1, SequenceOf
  <1>4. QED BY <1>1, <1>2, <1>3

LEMMA SpeechType ==
  ASSUME NEW t, Sequence(t), NEW S, Words(t) \subseteq S
  PROVE  Speech(t) \in Seq(Seq(S)) /\ Len(Speech(t)) = Len(t)
  <1>1. Len(t) \in Nat /\ DOMAIN t = 1..Len(t)
    BY Lengths
  <1>2. ASSUME NEW i \in 1..Len(t) PROVE Said(t[i]) \in Seq(S)
    <2>1. Said(t[i]) \in Seq(Range(Said(t[i])))
      BY SaidIsShort DEF Sequence
    <2>2. Range(Said(t[i])) \subseteq S
      BY <1>1 DEF Words
    <2>3. QED BY <2>1, <2>2, SeqMonotonic
  <1>3. Speech(t) \in [1..Len(t) -> Seq(S)]
    BY <1>1, <1>2 DEF Speech
  <1>4. QED BY <1>1, <1>3

LEMMA ConversationType ==
  ASSUME NEW t, Sequence(t), NEW S, Words(t) \subseteq S, NEW R, Opening \in Seq(R)
  PROVE  FlattenSeq(Speech(t)) \in Seq(S) /\ Conversation(t) \in Seq(S \cup R)
  <1>1. FlattenSeq(Speech(t)) \in Seq(S)
    BY SpeechType, FlattenType
  <1>2. FlattenSeq(Speech(t)) \in Seq(S \cup R) /\ Opening \in Seq(S \cup R)
    BY <1>1, SeqMonotonic
  <1>3. Opening \o FlattenSeq(Speech(t)) \in Seq(S \cup R)
    BY <1>2, ConcatProperties
  <1>4. QED BY <1>1, <1>3 DEF Conversation, Speech

\* One more event adds to the conversation what it says.
LEMMA ConversationGrows ==
  ASSUME NEW t, Sequence(t), NEW u, NEW x, Extends1(u, t, x)
  PROVE  Conversation(u) = Conversation(t) \o Said(x) /\ Sequence(Conversation(t))
  <1> DEFINE W == Words(u)   R == {[role |-> "system"], [role |-> "user"]}
  <1>1. /\ Len(t) \in Nat /\ DOMAIN t = 1..Len(t) /\ Sequence(u)
        /\ DOMAIN u = 1..(Len(t) + 1) /\ u[Len(t) + 1] = x /\ \A i \in 1..Len(t) : u[i] = t[i]
    BY Lengths DEF Extends1
  <1>2. Words(t) \subseteq W /\ Range(Said(x)) \subseteq W
    <2>1. \A i \in 1..Len(t) : i \in DOMAIN u /\ u[i] = t[i]
      BY <1>1
    <2>2. Len(t) + 1 \in DOMAIN u
      BY <1>1
    <2>3. Words(t) \subseteq W
      BY <1>1, <2>1 DEF Words
    <2>4. Range(Said(x)) \subseteq W
      BY <1>1, <2>2 DEF Words
    <2>5. QED BY <2>3, <2>4
  <1> HIDE DEF W
  <1>3. Said(x) \in Seq(W)
    BY <1>2, SaidIsShort, SeqMonotonic DEF Sequence
  <1>4. Speech(t) \in Seq(Seq(W)) /\ Len(Speech(t)) = Len(t)
    BY <1>2, SpeechType
  <1>5. Speech(u) \in Seq(Seq(W)) /\ Len(Speech(u)) = Len(t) + 1
    <2>1. W \subseteq W /\ Words(u) \subseteq W
      BY DEF W
    <2>2. Speech(u) \in Seq(Seq(W)) /\ Len(Speech(u)) = Len(u)
      BY <1>1, <2>1, SpeechType
    <2>3. QED BY <2>2 DEF Extends1
  <1>6. Speech(u) = Append(Speech(t), Said(x))
    <2>1. PICK ss : ss = Append(Speech(t), Said(x))
      OBVIOUS
    <2>2. /\ ss \in Seq(Seq(W)) /\ Len(ss) = Len(t) + 1
          /\ \A i \in 1..Len(t) : ss[i] = Speech(t)[i]
          /\ ss[Len(t) + 1] = Said(x)
      BY <1>3, <1>4, <2>1, AppendProperties
    <2>3. \A i \in 1..(Len(t) + 1) : i \in 1..Len(t) \/ i = Len(t) + 1
      BY <1>1
    <2>4. \A i \in 1..(Len(t) + 1) : ss[i] = Speech(u)[i]
      BY <1>1, <2>2, <2>3 DEF Speech
    <2>5. QED BY <1>5, <2>1, <2>2, <2>4, SeqEqual
  <1>7. FlattenSeq(Speech(u)) = FlattenSeq(Speech(t)) \o Said(x)
    BY <1>3, <1>4, <1>6, FlattenAppend
  <1>8. Opening \in Seq(R)
    BY DEF Opening
  <1>9. FlattenSeq(Speech(t)) \in Seq(W) /\ Conversation(t) \in Seq(W \cup R)
    BY <1>2, <1>8, ConversationType
  <1>10. Opening \in Seq(W \cup R) /\ FlattenSeq(Speech(t)) \in Seq(W \cup R) /\ Said(x) \in Seq(W \cup R)
    BY <1>3, <1>8, <1>9, SeqMonotonic
  <1>11. Opening \o (FlattenSeq(Speech(t)) \o Said(x)) = (Opening \o FlattenSeq(Speech(t))) \o Said(x)
    BY <1>10, ConcatAssociative
  <1>12. QED BY <1>7, <1>9, <1>11, SequenceOf DEF Conversation, Speech

\* Each request of t carries the conversation before it.
Informed(t) ==
  \A i \in 1..Len(t) :
    t[i].type = "model_request" => t[i].payload.messages = Conversation(SubSeq(t, 1, i - 1))

LEMMA InformedGrows ==
  ASSUME NEW t, Sequence(t), NEW u, NEW x, Extends1(u, t, x), Informed(t),
         x.type = "model_request" => x.payload.messages = Conversation(t)
  PROVE  Informed(u)
  <1>1. /\ Len(t) \in Nat /\ Sequence(u) /\ Len(u) = Len(t) + 1
        /\ u[Len(t) + 1] = x /\ \A i \in 1..Len(t) : u[i] = t[i]
    BY Lengths DEF Extends1
  <1>2. ASSUME NEW k \in Nat, k <= Len(t) PROVE SubSeq(u, 1, k) = SubSeq(t, 1, k)
    <2>1. k <= Len(u) /\ \A i \in 1..k : u[i] = t[i]
      BY <1>1, <1>2
    <2>2. QED BY <1>1, <1>2, <2>1, SamePrefix
  <1>3. ASSUME NEW i \in 1..Len(u), u[i].type = "model_request"
        PROVE  u[i].payload.messages = Conversation(SubSeq(u, 1, i - 1))
    <2>1. CASE i \in 1..Len(t)
      <3>1. i - 1 \in Nat /\ i - 1 <= Len(t) /\ u[i] = t[i]
        BY <1>1, <2>1
      <3>2. QED BY <1>2, <1>3, <2>1, <3>1 DEF Informed
    <2>2. CASE i = Len(t) + 1
      <3>1. i - 1 = Len(t) /\ i - 1 \in Nat /\ i - 1 <= Len(t) /\ u[i] = x
        BY <1>1, <2>2
      <3>2. SubSeq(t, 1, Len(t)) = t
        BY SubSeqFull DEF Sequence
      <3>3. SubSeq(u, 1, i - 1) = t
        BY <1>2, <3>1, <3>2
      <3>4. QED BY <1>3, <3>1, <3>3
    <2>3. QED BY <1>1, <1>3, <2>1, <2>2
  <1>4. QED BY <1>3 DEF Informed

\* What the model is sent next, m, is the conversation that t records.
Talk(t, m) == m = Conversation(t) /\ Informed(t)
TalkInv == Talk(trace, messages)

LEMMA TalkGoesOn ==
  ASSUME NEW t, Sequence(t), NEW u, NEW x, Extends1(u, t, x), NEW m, Talk(t, m),
         x.type = "model_request" => x.payload.messages = m
  PROVE  /\ Said(x) = <<>> => Talk(u, m)
         /\ \A w : Said(x) = <<w>> => Talk(u, Append(m, w))
  <1>1. Informed(u)
    BY InformedGrows DEF Talk
  <1>2. Conversation(u) = m \o Said(x) /\ Sequence(m)
    BY ConversationGrows DEF Talk
  <1>3. CASE Said(x) = <<>>
    <2>1. m \o <<>> = m
      BY <1>2, ConcatEmptySeq DEF Sequence
    <2>2. QED BY <1>1, <1>2, <1>3, <2>1 DEF Talk
  <1>4. ASSUME NEW w, Said(x) = <<w>> PROVE Talk(u, Append(m, w))
    <2>1. m \in Seq(Range(m) \cup {w}) /\ w \in Range(m) \cup {w}
      BY <1>2, SeqMonotonic DEF Sequence
    <2>2. Append(m, w) = m \o <<w>>
      BY <2>1, AppendIsConcat
    <2>3. QED BY <1>1, <1>2, <1>4, <2>2 DEF Talk
  <1>5. QED BY <1>3, <1>4

LEMMA InitTalk == Init => TalkInv
  <1> SUFFICES ASSUME Init PROVE TalkInv
    OBVIOUS
  <1>1. trace = <<>> /\ messages = Opening /\ DOMAIN trace = {} /\ Len(trace) = 0
    BY DEF Init
  <1>2. Speech(trace) = <<>>
    BY <1>1 DEF Speech
  <1>3. FlattenSeq(Speech(trace)) = <<>>
    BY <1>2 DEF FlattenSeq
  <1>4. Opening \in Seq({[role |-> "system"], [role |-> "user"]})
    BY DEF Opening
  <1>5. Opening \o <<>> = Opening
    BY <1>4, ConcatEmptySeq
  <1>6. messages = Conversation(trace)
    BY <1>1, <1>3, <1>5 DEF Conversation, Speech
  <1>7. QED BY <1>1, <1>6 DEF TalkInv, Talk, Informed

LEMMA StepTalk == ASSUME ShapeInv, TalkInv, Next PROVE TalkInv'
  <1>0. Sequence(trace) /\ Talk(trace, messages)
    BY DEF ShapeInv, TalkInv
  <1>1. ASSUME NEW x, Adds1(x), x.type \notin {"model_response", "tool_result"},
               x.type = "model_request" => x.payload.messages = messages,
               x.type = "error" => x.payload.error_type \in {"ModelError", "MaxStepsExceeded"},
               messages' = messages
        PROVE  TalkInv'
    <2>1. Said(x) = <<>>
      BY <1>1 DEF Said, IsCallOutcome
    <2>2. QED BY <1>0, <1>1, <2>1, TalkGoesOn DEF Adds1, TalkInv
  <1>2. CASE trace' = trace /\ (ModelFails \/ ScoreRun)
    BY <1>0, <1>2 DEF ModelFails, ScoreRun, TalkInv
  <1>3. CASE Request /\ Adds1(Event("model_request", NoParent, [messages |-> messages]))
    <2>1. PICK x : x = Event("model_request", NoParent, [messages |-> messages])
      OBVIOUS
    <2>2. QED BY <1>1, <1>3, <2>1 DEF Event, Request
  <1>4. CASE StepLimit /\ Adds1(ErrorEvent(NoParent, "MaxStepsExceeded"))
    <2>1. PICK x : x = ErrorEvent(NoParent, "MaxStepsExceeded")
      OBVIOUS
    <2>2. QED BY <1>1, <1>4, <2>1 DEF ErrorEvent, Event, StepLimit
  <1>5. CASE Retry /\ Adds1(Event("retry", LatestRequest(trace), [attempt |-> attempt]))
    <2>1. PICK x : x = Event("retry", LatestRequest(trace), [attempt |-> attempt])
      OBVIOUS
    <2>2. QED BY <1>1, <1>5, <2>1 DEF Event, Retry
  <1>6. CASE ModelDown /\ Adds1(ErrorEvent(LatestRequest(trace), "ModelError"))
    <2>1. PICK x : x = ErrorEvent(LatestRequest(trace), "ModelError")
      OBVIOUS
    <2>2. QED BY <1>1, <1>6, <2>1 DEF ErrorEvent, Event, ModelDown
  <1>7. ASSUME NEW content, NEW calls \in Replies, AskForTools, Adds1(Response(content, calls)),
               messages' = Append(messages, [role |-> "assistant", tool_calls |-> calls])
        PROVE  TalkInv'
    <2>1. PICK x : x = Response(content, calls)
      OBVIOUS
    <2>2. x.type = "model_response" /\ x.payload.tool_calls = calls
      <3>1. x.type = "model_response" /\ x.payload = [content |-> content, tool_calls |-> calls]
        BY <2>1, Responses
      <3>2. QED BY <3>1
    <2>3. calls # <<>>
      <3>1. PICK n \in 1..MaxCalls : calls \in [1..n -> AgentCalls]
        BY DEF Replies
      <3>2. 1 \in DOMAIN calls
        BY <3>1, RunnerAssumption DEF RunnerAssumption
      <3>3. QED BY <3>2
    <2>4. Said(x) = <<[role |-> "assistant", tool_calls |-> calls]>>
      BY <2>2, <2>3 DEF Said
    <2>5. QED BY <1>0, <1>7, <2>1, <2>2, <2>4, TalkGoesOn DEF Adds1, TalkInv
  <1>8. ASSUME NEW content, Answer,
               Adds2(Response(content, <<>>), Event("final_answer", NoParent, [content |-> content]))
        PROVE  TalkInv'
    <2>1. PICK x : x = Response(content, <<>>)
      OBVIOUS
    <2>2. PICK y : y = Event("final_answer", NoParent, [content |-> content])
      OBVIOUS
    <2>3. x.type = "model_response" /\ x.payload.tool_calls = <<>> /\ y.type = "final_answer"
      <3>1. x.type = "model_response" /\ x.payload = [content |-> content, tool_calls |-> <<>>]
        BY <2>1, Responses
      <3>2. y.type = "final_answer"
        BY <2>2 DEF Event
      <3>3. QED BY <3>1, <3>2
    <2>4. Said(x) = <<>> /\ Said(y) = <<>>
      BY <2>3 DEF Said, IsCallOutcome
    <2>5. PICK u : Sequence(u) /\ Extends1(u, trace, x) /\ Extends1(trace', u, y)
      BY <1>0, <1>8, <2>1, <2>2, OneByOne DEF Adds2
    <2>6. Talk(u, messages)
      BY <1>0, <2>3, <2>4, <2>5, TalkGoesOn
    <2>7. Talk(trace', messages)
      BY <2>3, <2>4, <2>5, <2>6, TalkGoesOn
    <2>8. QED BY <1>8, <2>7 DEF Answer, TalkInv
  <1>9. ASSUME NEW call \in AgentCalls, Invoke, call = Head(todo),
               Adds2(Event("tool_call", NoParent, call), OutcomeEvent(Len(trace) + 1, call))
        PROVE  TalkInv'
    <2>1. PICK x : x = Event("tool_call", NoParent, call)
      OBVIOUS
    <2>2. PICK y : y = OutcomeEvent(Len(trace) + 1, call)
      OBVIOUS
    <2>3. x.type = "tool_call" /\ IsCallOutcome(y) /\ y.type \in {"tool_result", "error"}
      BY <2>1, <2>2, CallOutcome DEF Event
    <2>4. Said(x) = <<>> /\ Said(y) = <<[role |-> "tool", content |-> y.payload]>>
      BY <2>3 DEF Said, IsCallOutcome
    <2>5. messages' = Append(messages, [role |-> "tool", content |-> y.payload])
      BY <1>9, <2>2 DEF Invoke, Hear
    <2>6. PICK u : Sequence(u) /\ Extends1(u, trace, x) /\ Extends1(trace', u, y)
      BY <1>0, <1>9, <2>1, <2>2, OneByOne DEF Adds2
    <2>7. Talk(u, messages)
      BY <1>0, <2>3, <2>4, <2>6, TalkGoesOn
    <2>8. Talk(trace', Append(messages, [role |-> "tool", content |-> y.payload]))
      BY <2>3, <2>4, <2>6, <2>7, TalkGoesOn
    <2>9. QED BY <2>5, <2>8 DEF TalkInv
  <1>10. QED BY <1>2, <1>3, <1>4, <1>5, <1>6, <1>7, <1>8, <1>9, StepTrace

-----------------------------------------------------------------------------

RunInv == ShapeInv /\ AskedInv /\ ChainInv /\ EndInv /\ RefundInv /\ ReplayInv /\ ScoredInv /\ TalkInv

LEMMA StepRun == ASSUME RunInv, [Next]_vars PROVE RunInv'
  <1>1. CASE Next
    BY <1>1, StepShape, StepAsked, StepChain, StepEnd, StepRefund, StepReplay, StepScored, StepTalk DEF RunInv
  <1>2. CASE UNCHANGED vars
    <2>1. ShapeInv' /\ AskedInv' /\ ChainInv'
      <3>1. ShapeInv' BY <1>2 DEF vars, RunInv, ShapeInv
      <3>2. AskedInv' BY <1>2 DEF vars, RunInv, AskedInv, Asked
      <3>3. ChainInv' BY <1>2 DEF vars, RunInv, ChainInv
      <3>4. QED BY <3>1, <3>2, <3>3
    <2>2. EndInv'
      BY <1>2 DEF vars, RunInv, EndInv, Open, ClosedLast, EndsInAnswer, EndsAtLimit
    <2>3. RefundInv'
      BY <1>2 DEF vars, RunInv, RefundInv, Refunded, Refunds
    <2>4. ReplayInv' /\ ScoredInv' /\ TalkInv'
      BY <1>2 DEF vars, RunInv, ReplayInv, ScoredInv, TalkInv
    <2>5. QED BY <2>1, <2>2, <2>3, <2>4 DEF RunInv
  <1>3. QED BY <1>1, <1>2

LEMMA InitRun == Init => RunInv
  <1>1. Init => ScoredInv
    BY DEF Init, ScoredInv
  <1>2. QED BY <1>1, InitInv, InitReplay, InitTalk DEF RunInv

THEOREM Inductive == Spec => []RunInv
  BY InitRun, StepRun, PTL DEF Spec

\* The shapes of a run's state; the proxied calls keep the services' state a state.
THEOREM RunTypes == Spec => []TypeOK
  <1>1. Init => pc \in Phases
    BY DEF Init, Phases
  <1>2. ASSUME pc \in Phases, [Next]_vars PROVE (pc \in Phases)'
    BY <1>2 DEF Next, Request, StepLimit, Retry, ModelDown, ModelFails, Answer, AskForTools, Invoke, ScoreRun,
       Phases, vars
  <1>3. ASSUME RunInv, pc \in Phases PROVE TypeOK
    <2>1. DOMAIN messages = 1..Len(messages) /\ DOMAIN trace = 1..Len(trace)
      BY <1>3, Lengths DEF RunInv, ShapeInv
    <2>2. \A i \in DOMAIN todo : todo[i] \in AgentCalls
      BY <1>3 DEF RunInv, ShapeInv
    <2>3. QED BY <1>3, <2>1, <2>2 DEF RunInv, ShapeInv, IsState, TypeOK
  <1>4. QED BY <1>1, <1>2, <1>3, Inductive, PTL DEF Spec

\* Every event of a trace hangs from its cause, and a request from no more retries
\* than the limit allows, whatever the model and the tools do.
THEOREM EveryEventHasItsCause == Spec => []EvidenceChain
  <1>1. RunInv => EvidenceChain
    BY Lengths DEF RunInv, ShapeInv, ChainInv, Caused, EvidenceChain
  <1>2. QED BY <1>1, Inductive, PTL

\* A finished run's last event says how it ended, no other event does, and a run that
\* an exception left does not look finished.
THEOREM TraceSaysHowItEnded == Spec => []EndOfTrace
  <1>1. ASSUME RunInv PROVE EndOfTrace
    <2>1. Len(trace) \in Nat /\ DOMAIN trace = 1..Len(trace) /\ (trace = <<>> <=> Len(trace) = 0)
      BY <1>1, Lengths, EmptySeq DEF RunInv, ShapeInv, Sequence
    <2>2. \A i \in DOMAIN trace : IsClosing(trace[i]) => i = Len(trace)
      BY <1>1, <2>1 DEF RunInv, EndInv, ClosedLast
    <2>3. pc = "raised" => trace = <<>> \/ ~(Last(trace).type = "final_answer" \/ IsError(Last(trace), "MaxStepsExceeded"))
      BY <1>1, <2>1 DEF RunInv, EndInv, Last
    <2>4. ASSUME pc \in {"answered", "exceeded", "scored"}
          PROVE  EndsInAnswer \/ (EndsAtLimit /\ Cardinality(Places(trace, "model_request")) = MaxSteps)
      BY <1>1, <2>4 DEF RunInv, EndInv, EndsAtLimit
    <2>5. QED BY <2>1, <2>2, <2>3, <2>4 DEF EndOfTrace, EndsInAnswer, EndsAtLimit, Last
  <1>2. QED BY <1>1, Inductive, PTL

\* Whatever the agent asks for, and in whatever order, money moves once.
THEOREM RefundedOnce == Spec => []MoneyMovesOnce
  <1>1. ASSUME RunInv PROVE MoneyMovesOnce
    <2>1. ASSUME NEW o \in Orders
          PROVE  Cardinality(Refunds(o)) <= (IF o \in DOMAIN SeedRefunds THEN 0 ELSE 1)
      <3>1. Refunded(o)
        BY <1>1 DEF RunInv, RefundInv
      <3>2. CASE Refunds(o) = {}
        BY <3>2, FS_EmptySet
      <3>3. CASE Refunds(o) # {}
        <4>1. PICK i \in Refunds(o) : TRUE
          BY <3>3
        <4>2. \A j \in Refunds(o) : j = i
          BY <3>1, <4>1 DEF Refunded
        <4>3. Refunds(o) = {i}
          BY <4>1, <4>2
        <4>4. o \notin DOMAIN SeedRefunds
          BY <3>1, <3>3 DEF Refunded
        <4>5. Cardinality(Refunds(o)) = 1
          BY <4>3, FS_Singleton, Zenon
        <4>6. QED BY <4>4, <4>5
      <3>4. QED BY <3>2, <3>3
    <2>2. QED BY <1>1, <2>1 DEF RunInv, RefundInv, Refunded, MoneyMovesOnce
  <1>2. QED BY <1>1, Inductive, PTL

\* The trace is a complete record: replaying the calls it records as successful over the
\* seeded state gives the state that the run is scored by, whatever was refused between.
THEOREM TraceIsCompleteRecord == Spec => []ReplayReproducesState
  <1>1. RunInv => ReplayReproducesState
    BY DEF RunInv, ReplayInv, Replayed, ReplayReproducesState
  <1>2. QED BY <1>1, Inductive, PTL

\* A run is recorded as passed exactly when its own trace shows an answer and a
\* contract met by the calls it attempted and the state they led to.
THEOREM PassIsEarned == Spec => []PassedByItsTrace
  <1>1. ASSUME RunInv, pc = "scored"
        PROVE  report.passed <=>
                 /\ Last(trace).type = "final_answer"
                 /\ \A p \in ExpectedActions : \E c \in AttemptedCalls(trace) : Agrees(p, c)
                 /\ \A p \in ForbiddenActions : ~\E c \in AttemptedCalls(trace) : Agrees(p, c)
                 /\ ExpectedFinalState \subseteq Facts(Replayed(trace))
    <2>1. \A p, c : Agrees(p, c) <=> Matches(p, c)
      BY DEF Agrees, Matches
    <2>2. env = Replayed(trace)
      BY <1>1 DEF RunInv, ReplayInv, Replayed
    <2>3. MeetsContract(Score(AttemptedCalls(trace), env)) <=>
            /\ \A p \in ExpectedActions : \E c \in AttemptedCalls(trace) : Matches(p, c)
            /\ \A p \in ForbiddenActions : ~\E c \in AttemptedCalls(trace) : Matches(p, c)
            /\ ExpectedFinalState \subseteq Facts(env)
      BY DEF MeetsContract, Score
    <2>4. report.passed <=> /\ Last(trace).type = "final_answer"
                            /\ MeetsContract(Score(AttemptedCalls(trace), env))
      BY <1>1 DEF RunInv, ScoredInv, Last
    <2>5. QED BY <2>1, <2>2, <2>3, <2>4
  <1>2. RunInv => PassedByItsTrace
    BY <1>1 DEF PassedByItsTrace
  <1>3. QED BY <1>2, Inductive, PTL

\* Each request carried the conversation that the trace records before it, and nothing
\* that happened later.
THEOREM RequestsAreInformed == Spec => []InformedRequests
  <1>1. ASSUME RunInv, NEW i \in Places(trace, "model_request")
        PROVE  trace[i].payload.messages = Conversation(SubSeq(trace, 1, i - 1))
    <2>1. i \in 1..Len(trace) /\ trace[i].type = "model_request"
      BY <1>1, Lengths DEF RunInv, ShapeInv, Places
    <2>2. QED BY <1>1, <2>1 DEF RunInv, TalkInv, Talk, Informed
  <1>2. RunInv => InformedRequests
    BY <1>1 DEF InformedRequests
  <1>3. QED BY <1>2, Inductive, PTL
=============================================================================
