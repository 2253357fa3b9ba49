------------------------------ MODULE EvalQueue ------------------------------
(***************************************************************************)
(* The Redis-backed job queue, class Queue of backend/app/queue.py: one    *)
(* stream, one consumer group, one dead-letter stream.  A message id is    *)
(* the position of its entry in the stream; entries are never removed, the *)
(* group only remembers how far it has delivered and what is unacked.      *)
(* retry_or_deadletter is three Redis calls with a sleep between them, so  *)
(* its steps are separate operators that the worker interleaves.           *)
(***************************************************************************)
EXTENDS Naturals, Sequences

CONSTANTS Jobs,          \* one member per EvaluationJob a script enqueues
          MaxAttempts    \* Queue(max_attempts=...), 3 by default

ASSUME QueueAssumption == MaxAttempts \in Nat \ {0}

VARIABLES stream,        \* the payloads, in XADD order
          delivered,     \* the group's last delivered id
          pending,       \* the group's pending entries list: delivered, unacked
          dead           \* the dead-letter stream

queueVars == <<stream, delivered, pending, dead>>

EvaluationJob == [job : Jobs, attempt : 1..MaxAttempts]

QueueTypeOK ==
  /\ stream \in Seq(EvaluationJob)
  /\ delivered \in 0..Len(stream)
  /\ pending \in SUBSET (1..delivered)
  /\ dead \in Seq(EvaluationJob)

QueueInit == stream = <<>> /\ delivered = 0 /\ pending = {} /\ dead = <<>>

Ids == 1..Len(stream)
Undelivered == (delivered + 1)..Len(stream)
Submitted(j) == \E i \in Ids : stream[i].job = j

\* XADD; the caller of enqueue is a script, or a worker handing a retry back.
Enqueue(payload) ==
  /\ stream' = Append(stream, payload)
  /\ UNCHANGED <<delivered, pending, dead>>

\* XREADGROUP with id ">": only entries no consumer was ever given, so neither
\* another worker nor the same one after a restart sees a pending entry again.
Claim ==
  /\ delivered < Len(stream)
  /\ delivered' = delivered + 1
  /\ pending' = pending \cup {delivered'}
  /\ UNCHANGED <<stream, dead>>

\* XACK drops the id from the pending list; the entry stays in the stream.
Ack(id) ==
  /\ pending' = pending \ {id}
  /\ UNCHANGED <<stream, delivered, dead>>

\* Mutant: one attempt too many.
ExhaustedLate(payload) == payload.attempt > MaxAttempts

\* The limit is tested after the ack, on the attempt in the payload.
Exhausted(payload) == payload.attempt >= MaxAttempts

DeadLetter(payload) ==
  /\ dead' = Append(dead, payload)
  /\ UNCHANGED <<stream, delivered, pending>>

\* Mutant: the retry keeps its attempt number.
RetriedUncounted(payload) == payload

Retried(payload) == [payload EXCEPT !.attempt = @ + 1]
=============================================================================
