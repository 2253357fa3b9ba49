---------------------------- MODULE AgentRunner ----------------------------
(***************************************************************************)
(* run_task (runner/runner.py): one agent version against one seeded task. *)
(* The model answers, fails for a moment, or fails for good; its tool      *)
(* calls go through TracedToolProxy to the services of SupportTools; every *)
(* step is appended to the trace; score_execution closes a finished run.   *)
(*                                                                         *)
(*   asking --> waiting --> calling --> asking ... --> answered --> scored *)
(*                 |                            \-> exceeded --> scored    *)
(*                 \--> raised: the exception leaves run_task, and the     *)
(*                      trace in memory goes with it                       *)
(***************************************************************************)
EXTENDS TaskContract, Sequences, FiniteSets, SequencesExt

CONSTANTS MaxSteps, MaxModelRetries,
          AgentCalls,      \* the calls the model may ask for
          MaxCalls,        \* bound: tool calls in one reply
          AgentAnswers     \* the final answers the model may give

VARIABLES pc, step, attempt, messages, todo, trace, env, report

vars == <<pc, step, attempt, messages, todo, trace, env, report>>

ASSUME RunnerAssumption ==
  /\ MaxSteps \in Nat /\ MaxModelRetries \in Nat /\ MaxCalls \in Nat \ {0}
  /\ \A c \in AgentCalls : IsCall(c)

NoParent == 0
NoReport == [status |-> "pending", passed |-> FALSE,
             evidence |-> [missing |-> {}, forbidden |-> {}, mismatches |-> {}]]
Phases == {"asking", "waiting", "calling", "answered", "exceeded", "raised", "scored"}
EventTypes == {"model_request", "model_response", "tool_call", "tool_result",
               "retry", "error", "final_answer"}

Opening == <<[role |-> "system"], [role |-> "user"]>>

\* A trace step; steps refer to each other by their place in the trace, counted from 1.
Event(type, parent, payload) == [type |-> type, parent |-> parent, payload |-> payload]
ErrorEvent(parent, class) == Event("error", parent, [error_type |-> class])

Places(t, type) == {i \in DOMAIN t : t[i].type = type}

\* Mutant: everything hangs from the first request.
FirstRequest(t) == CHOOSE i \in Places(t, "model_request") : \A j \in Places(t, "model_request") : i <= j

\* The latest request: the step a response, a retry and a ModelError hang from.
LatestRequest(t) ==
  CHOOSE i \in Places(t, "model_request") :
    \A j \in Places(t, "model_request") : j <= i

Replies == UNION {[1..n -> AgentCalls] : n \in 1..MaxCalls}

Init ==
  /\ pc = "asking" /\ step = 0 /\ attempt = 1
  /\ messages = Opening /\ todo = <<>> /\ trace = <<>>
  /\ env = SeedEnvironment /\ report = NoReport

Request ==
  /\ pc = "asking" /\ step < MaxSteps
  /\ pc' = "waiting" /\ step' = step + 1 /\ attempt' = 1
  /\ trace' = Append(trace, Event("model_request", NoParent, [messages |-> messages]))
  /\ UNCHANGED <<messages, todo, env, report>>

\* Mutant: the loop's else branch leaves no event.
StepLimitSilently ==
  /\ pc = "asking" /\ step = MaxSteps
  /\ pc' = "exceeded"
  /\ UNCHANGED <<step, attempt, messages, todo, trace, env, report>>

\* The loop's else branch.
StepLimit ==
  /\ pc = "asking" /\ step = MaxSteps
  /\ pc' = "exceeded"
  /\ trace' = Append(trace, ErrorEvent(NoParent, "MaxStepsExceeded"))
  /\ UNCHANGED <<step, attempt, messages, todo, env, report>>

\* Mutant: one retry too many.
RetriesSpentLate == attempt > MaxModelRetries + 1

RetriesSpent == attempt > MaxModelRetries

\* TransientModelError with a retry left.
Retry ==
  /\ pc = "waiting" /\ ~RetriesSpent
  /\ attempt' = attempt + 1
  /\ trace' = Append(trace, Event("retry", LatestRequest(trace), [attempt |-> attempt]))
  /\ UNCHANGED <<pc, step, messages, todo, env, report>>

\* TransientModelError with no retry left: recorded, then raised.
ModelDown ==
  /\ pc = "waiting" /\ RetriesSpent
  /\ pc' = "raised"
  /\ trace' = Append(trace, ErrorEvent(LatestRequest(trace), "ModelError"))
  /\ UNCHANGED <<step, attempt, messages, todo, env, report>>

\* Any other exception of the model client passes through.
ModelFails ==
  /\ pc = "waiting"
  /\ pc' = "raised"
  /\ UNCHANGED <<step, attempt, messages, todo, trace, env, report>>

Response(content, calls) ==
  Event("model_response", LatestRequest(trace), [content |-> content, tool_calls |-> calls])

\* A reply without tool calls; no content counts as the empty answer.
Answer ==
  /\ pc = "waiting"
  /\ pc' = "answered"
  /\ \E content \in AgentAnswers :
       trace' = trace \o <<Response(content, <<>>),
                           Event("final_answer", NoParent, [content |-> content])>>
  /\ UNCHANGED <<step, attempt, messages, todo, env, report>>

AskForTools ==
  /\ pc = "waiting"
  /\ pc' = "calling"
  /\ \E calls \in Replies :
       /\ trace' = Append(trace, Response("", calls))
       /\ messages' = Append(messages, [role |-> "assistant", tool_calls |-> calls])
       /\ todo' = calls
  /\ UNCHANGED <<step, attempt, env, report>>

OutcomeEvent(parent, call) ==
  IF Outcome(env, call) = "ok" THEN Event("tool_result", parent, Returned(After(env, call), call))
                               ELSE ErrorEvent(parent, Outcome(env, call))

\* Mutant: the model hears of results only, not of errors.
HearResult(outcome) ==
  IF outcome.type = "error" THEN messages
  ELSE Append(messages, [role |-> "tool", content |-> outcome.payload])

Hear(outcome) == Append(messages, [role |-> "tool", content |-> outcome.payload])

\* The next tool call of the reply, through the proxy: call and outcome are
\* recorded, and the outcome is what the model hears.
Invoke ==
  /\ pc = "calling"
  /\ LET call == Head(todo)
         outcome == OutcomeEvent(Len(trace) + 1, call)
     IN /\ trace' = trace \o <<Event("tool_call", NoParent, call), outcome>>
        /\ messages' = Hear(outcome)
        /\ env' = After(env, call)
  /\ todo' = Tail(todo)
  /\ pc' = IF Len(todo) = 1 THEN "asking" ELSE "calling"
  /\ UNCHANGED <<step, attempt, report>>

AttemptedCalls(t) == {t[i].payload : i \in Places(t, "tool_call")}

ScoreRun ==
  /\ pc \in {"answered", "exceeded"}
  /\ LET score == Score(AttemptedCalls(trace), env)
         status == StatusOf(pc = "exceeded", score)
     IN report' = [status |-> status, passed |-> status = "passed", evidence |-> score]
  /\ pc' = "scored"
  /\ UNCHANGED <<step, attempt, messages, todo, trace, env>>

Next ==
  Request \/ StepLimit \/ Retry \/ ModelDown \/ ModelFails \/ Answer \/ AskForTools \/ Invoke \/ ScoreRun

Spec == Init /\ [][Next]_vars

-----------------------------------------------------------------------------
\* Properties

\* The variables keep the shapes the code gives them, and attempt never runs
\* past the one call that follows the last retry (_complete_with_retries).
TypeOK ==
  /\ pc \in Phases /\ step \in 0..MaxSteps /\ attempt \in 1..(MaxModelRetries + 1)
  /\ \A i \in DOMAIN messages : messages[i].role \in {"system", "user", "assistant", "tool"}
  /\ \A i \in DOMAIN todo : todo[i] \in AgentCalls
  /\ \A i \in DOMAIN trace : trace[i].type \in EventTypes /\ trace[i].parent \in 0..(i - 1)
  /\ IsEnvironment(env)
  /\ report.status \in {"pending", "passed", "failed", "errored"}
  /\ report.passed = (report.status = "passed")

IsError(e, class) == e.type = "error" /\ e.payload.error_type = class
IsCallOutcome(e) ==
  e.type = "tool_result" \/ (e.type = "error" /\ e.payload.error_type \notin {"ModelError", "MaxStepsExceeded"})
IsClosing(e) == e.type = "final_answer" \/ IsError(e, "MaxStepsExceeded") \/ IsError(e, "ModelError")

\* A trace accounts for every event by the event that caused it: the outcome of
\* a tool call follows its call, and a request is followed by its retries,
\* numbered from 1 and never more than max_retries, up to its response or its
\* ModelError (what Trace.from_storage and a reader of the trace rely on).
EvidenceChain ==
  \A i \in DOMAIN trace :
    LET e == trace[i]   p == trace[i].parent IN
    IF IsCallOutcome(e) THEN p = i - 1 /\ trace[p].type = "tool_call"
    ELSE IF e.type \in {"model_response", "retry"} \/ IsError(e, "ModelError")
      THEN /\ p # NoParent /\ trace[p].type = "model_request"
           /\ \A j \in (p + 1)..(i - 1) : trace[j].type = "retry" /\ trace[j].payload.attempt = j - p
           /\ e.type = "retry" => e.payload.attempt = i - p /\ i - p <= MaxModelRetries
           /\ IsError(e, "ModelError") => i - p = MaxModelRetries + 1
      ELSE p = NoParent

\* The trace of a run that ended says how it ended, in its last event and
\* nowhere else: an answer, which is the content of the response before it, or
\* the step limit, after exactly max_steps requests; and a run that was
\* raised out of never looks finished.
EndOfTrace ==
  /\ \A i \in DOMAIN trace : IsClosing(trace[i]) => i = Len(trace)
  /\ pc \in {"answered", "exceeded", "scored"} =>
       /\ trace # <<>>
       /\ LET end == Last(trace)   before == trace[Len(trace) - 1] IN
          \/ /\ end.type = "final_answer" /\ before.type = "model_response"
             /\ before.payload = [content |-> end.payload.content, tool_calls |-> <<>>]
          \/ /\ IsError(end, "MaxStepsExceeded")
             /\ Cardinality(Places(trace, "model_request")) = MaxSteps
  /\ pc = "raised" => trace = <<>> \/ ~(Last(trace).type = "final_answer" \/ IsError(Last(trace), "MaxStepsExceeded"))

Said(e) ==
  IF e.type = "model_response" /\ e.payload.tool_calls # <<>>
    THEN <<[role |-> "assistant", tool_calls |-> e.payload.tool_calls]>>
  ELSE IF IsCallOutcome(e) THEN <<[role |-> "tool", content |-> e.payload]>>
  ELSE <<>>

Conversation(t) == Opening \o FlattenSeq([i \in DOMAIN t |-> Said(t[i])])

\* Each request carried the whole conversation that the trace records before it,
\* errors of refused calls included, and nothing that was said later.
InformedRequests ==
  \A i \in Places(trace, "model_request") :
    trace[i].payload.messages = Conversation(SubSeq(trace, 1, i - 1))

Succeeded(t) == {i \in Places(t, "tool_call") : i < Len(t) /\ t[i + 1].type = "tool_result"}
\* The state before the first step of a trace and after each of its steps, by the
\* calls that the trace records as successful.
States(t) ==
  LET state[i \in 0..Len(t)] ==
        IF i = 0 THEN SeedEnvironment
        ELSE IF i \in Succeeded(t) THEN Effect(state[i - 1], t[i].payload) ELSE state[i - 1]
  IN  state
Replayed(t) == States(t)[Len(t)]

\* The trace is a complete record of what the agent did: the calls it records as
\* successful, replayed over the seeded state, give the state that is scored;
\* refused and malformed calls left no mark on it (tool_proxy.py's promise).
ReplayReproducesState == env = Replayed(trace)

Refunds(o) == {i \in Succeeded(trace) : trace[i].payload.op = "create_refund" /\ trace[i].payload.order = o}

\* Whatever the agent asks for and in whatever order, an order is refunded at most
\* once, not at all if the task's state already held a refund, never beyond its
\* total, and an order refunded in this run is not cancelled afterwards.
MoneyMovesOnce ==
  \A o \in Orders :
    /\ Cardinality(Refunds(o)) <= (IF o \in DOMAIN SeedRefunds THEN 0 ELSE 1)
    /\ Refunds(o) # {} => /\ o \in DOMAIN env.refunds /\ env.refunds[o] <= Total[o]
                           /\ env.status[o] = "delivered"

Agrees(pattern, call) == \A f \in DOMAIN pattern : f \in DOMAIN call /\ call[f] = pattern[f]

\* A run is recorded as passed exactly when its own trace shows it: it ends in an
\* answer, every expected action was attempted and no forbidden one, and the state
\* its successful calls lead to holds every fact the contract asks for.
PassedByItsTrace ==
  pc = "scored" =>
    (report.passed <=>
       /\ Last(trace).type = "final_answer"
       /\ \A p \in ExpectedActions : \E c \in AttemptedCalls(trace) : Agrees(p, c)
       /\ \A p \in ForbiddenActions : ~\E c \in AttemptedCalls(trace) : Agrees(p, c)
       /\ ExpectedFinalState \subseteq Facts(Replayed(trace)))
=============================================================================
