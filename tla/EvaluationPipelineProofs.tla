---------------------- MODULE EvaluationPipelineProofs ----------------------
(***************************************************************************)
(* Proofs about EvaluationPipeline, and LoadTest over it, for every number *)
(* of workers, jobs, executions, attempts, trace events and crashes:       *)
(*   what the store holds of an attempt, and for how long;                 *)
(*   that a job is in one place, and lives the life that JobLifecycle      *)
(*   promises;                                                             *)
(*   what the load test counts, and when run_worker_loop has returned.     *)
(***************************************************************************)
EXTENDS LoadTest, SequenceTheorems, TLAPS

USE QueueAssumption, PipelineAssumption DEF QueueAssumption, PipelineAssumption

\* A worker between its claim and its last call holds a delivered message of its
\* own, and its counters are within what its run or its judges produced.
Held(w) ==
  /\ pc[w] \in Handling => msg[w] \in 1..delivered
  /\ pc[w] \in {"append", "record", "commit"} => len[w] \in 1..MaxTrace
  /\ pc[w] \in {"idle", "run", "down"} => next[w] = 0
  /\ pc[w] = "verdict" => len[w] \in {1, 2}
  /\ pc[w] \in {"append", "verdict"} => next[w] < len[w]
  /\ pc[w] = "backoff" => stream[msg[w]].attempt < MaxAttempts

HeldInv == \A w \in Workers : Held(w)

\* No two workers hold the same message.
ExclusiveInv ==
  \A v, w \in Workers : pc[v] \in Handling /\ pc[w] \in Handling /\ v # w => msg[v] # msg[w]

QueueShape == TypeOK /\ HeldInv /\ ExclusiveInv

\* What the store holds of the attempt a worker is making.
Attempt(w) ==
  LET i == msg[w]
      e == Exec(msg[w])
  IN  /\ pc[w] = "run" \/ (pc[w] = "append" /\ next[w] = 0) =>
           \A row \in trace[e] : row.by # i
      /\ pc[w] = "append" /\ next[w] > 0 => trace[e] = Rows(i, next[w]) /\ ~Finalized(e)
      /\ pc[w] \in {"record", "commit"} => trace[e] = Rows(i, len[w]) /\ ~Finalized(e)
      /\ pc[w] \in {"judge", "verdict", "ack"} => Finalized(e) /\ result[e].by = i
      /\ pc[w] = "judge" => verdicts[e] = <<>>
      /\ pc[w] = "verdict" => Len(verdicts[e]) = next[w]

AttemptInv == \A w \in Workers : Attempt(w)

\* What the store holds of an execution.
Stored(e) ==
  /\ trace[e] # {} => \E i \in 1..delivered, n \in 1..MaxTrace : trace[e] = Rows(i, n)
  /\ Finalized(e) => /\ result[e].by \in 1..delivered
                     /\ result[e].len \in 1..MaxTrace
                     /\ trace[e] = Rows(result[e].by, result[e].len)
  /\ ~Finalized(e) => verdicts[e] = <<>>
  /\ \A k \in DOMAIN verdicts[e] :
       verdicts[e][k] = [judge |-> JudgeNames[k], by |-> result[e].by]
  /\ Len(verdicts[e]) <= 2

StoredInv == \A e \in Executions : Stored(e)

IInv == QueueShape /\ AttemptInv /\ StoredInv

-----------------------------------------------------------------------------
\* Type correctness and message ownership.

LEMMA InitShape == Init => QueueShape
  BY DEF Init, QueueInit, QueueShape, TypeOK, QueueTypeOK, WorkerTypeOK, StoreTypeOK,
         HistoryTypeOK, PC, NoResult, HeldInv, Held, ExclusiveInv, Handling

\* The message a worker is handling, as the queue knows it.
LEMMA HeldMessage ==
  ASSUME QueueShape, NEW w \in Workers, pc[w] \in Handling
  PROVE  /\ msg[w] \in 1..delivered
         /\ msg[w] \in 1..Len(stream)
         /\ stream[msg[w]] \in EvaluationJob
         /\ Exec(msg[w]) \in Executions
  <1>1. msg[w] \in 1..delivered /\ msg[w] \in 1..Len(stream)
    BY DEF QueueShape, HeldInv, Held, TypeOK, QueueTypeOK
  <1>2. stream[msg[w]] \in EvaluationJob
    BY <1>1, ElementOfSeq DEF QueueShape, TypeOK, QueueTypeOK
  <1>3. QED BY <1>1, <1>2 DEF Exec, EvaluationJob

LEMMA StepType == ASSUME QueueShape, Next PROVE TypeOK'
  <1> USE DEF QueueShape, TypeOK, At, Goto
  <1>1. ASSUME NEW j \in Jobs, Submit(j) PROVE TypeOK'
    <2> USE <1>1 DEF Submit, Enqueue
    <2>1. QueueTypeOK' BY DEF QueueTypeOK, EvaluationJob
    <2>2. WorkerTypeOK' BY DEF WorkerTypeOK, workerVars
    <2>3. StoreTypeOK' BY DEF StoreTypeOK, storeVars
    <2>4. HistoryTypeOK' BY DEF HistoryTypeOK, historyVars
    <2>5. QED BY <2>1, <2>2, <2>3, <2>4
  <1>2. ASSUME NEW w \in Workers, ClaimJob(w) PROVE TypeOK'
    <2> USE <1>2 DEF ClaimJob, Claim
    <2>1. QueueTypeOK' BY DEF QueueTypeOK, EvaluationJob
    <2>2. WorkerTypeOK' BY DEF WorkerTypeOK, PC, QueueTypeOK
    <2>3. StoreTypeOK' BY DEF StoreTypeOK, storeVars
    <2>4. HistoryTypeOK' BY DEF HistoryTypeOK, historyVars, QueueTypeOK
    <2>5. QED BY <2>1, <2>2, <2>3, <2>4
  <1>4. ASSUME NEW w \in Workers, RunTask(w) PROVE TypeOK'
    <2> USE <1>4 DEF RunTask
    <2>0. pc[w] \in Handling BY DEF Handling, PC
    <2>1. QueueTypeOK' BY DEF QueueTypeOK, queueVars
    <2>2. WorkerTypeOK' BY DEF WorkerTypeOK, PC, queueVars
    <2>3. StoreTypeOK' BY DEF StoreTypeOK, storeVars
    <2>4. HistoryTypeOK' BY DEF HistoryTypeOK, historyVars, queueVars
    <2>5. QED BY <2>1, <2>2, <2>3, <2>4
  <1>5. ASSUME NEW w \in Workers, Raise(w) PROVE TypeOK'
    <2> USE <1>5 DEF Raise
    <2>0. pc[w] \in Handling BY DEF Handling, PC
    <2>1. QueueTypeOK' BY DEF QueueTypeOK, queueVars
    <2>2. WorkerTypeOK' BY DEF WorkerTypeOK, PC, queueVars
    <2>3. StoreTypeOK' BY DEF StoreTypeOK, storeVars
    <2>4. HistoryTypeOK' BY DEF HistoryTypeOK, historyVars, queueVars
    <2>5. QED BY <2>1, <2>2, <2>3, <2>4
  <1>6. ASSUME NEW w \in Workers, RejectEvent(w) PROVE TypeOK'
    <2> USE <1>6 DEF RejectEvent
    <2>0. pc[w] \in Handling BY DEF Handling, PC
    <2>1. QueueTypeOK' BY DEF QueueTypeOK, queueVars
    <2>2. WorkerTypeOK' BY DEF WorkerTypeOK, PC, queueVars
    <2>3. StoreTypeOK' BY DEF StoreTypeOK, storeVars
    <2>4. HistoryTypeOK' BY DEF HistoryTypeOK, historyVars, queueVars
    <2>5. QED BY <2>1, <2>2, <2>3, <2>4
  <1>7. ASSUME NEW w \in Workers, AppendEvent(w) PROVE TypeOK'
    <2> USE <1>7 DEF AppendEvent
    <2>0. pc[w] \in Handling BY DEF Handling, PC
    <2>1. QueueTypeOK' BY DEF QueueTypeOK, queueVars
    <2>2. WorkerTypeOK' BY DEF WorkerTypeOK, PC, queueVars
    <2>3. StoreTypeOK'
      <3>1. next[w] \in 0..(MaxTrace - 1) /\ msg[w] \in Nat
        BY <2>0, HeldMessage DEF HeldInv, Held, WorkerTypeOK
      <3>2. QED BY <3>1, <2>0, HeldMessage DEF StoreTypeOK
    <2>4. HistoryTypeOK' BY DEF HistoryTypeOK, historyVars, queueVars
    <2>5. QED BY <2>1, <2>2, <2>3, <2>4
  <1>8. ASSUME NEW w \in Workers, ReadStatus(w) PROVE TypeOK'
    <2> USE <1>8 DEF ReadStatus
    <2>0. pc[w] \in Handling BY DEF Handling, PC
    <2>1. QueueTypeOK' BY DEF QueueTypeOK, queueVars
    <2>2. WorkerTypeOK' BY DEF WorkerTypeOK, PC, queueVars
    <2>3. StoreTypeOK' BY DEF StoreTypeOK, storeVars
    <2>4. HistoryTypeOK' BY DEF HistoryTypeOK, historyVars, queueVars
    <2>5. QED BY <2>1, <2>2, <2>3, <2>4
  <1>9. ASSUME NEW w \in Workers, CommitResult(w) PROVE TypeOK'
    <2> USE <1>9 DEF CommitResult
    <2>0. pc[w] \in Handling BY DEF Handling, PC
    <2>1. QueueTypeOK' BY DEF QueueTypeOK, queueVars
    <2>2. WorkerTypeOK' BY DEF WorkerTypeOK, PC, queueVars
    <2>3. StoreTypeOK'
      <3>1. len[w] \in 0..MaxTrace /\ msg[w] \in Nat
        BY <2>0, HeldMessage DEF HeldInv, Held, WorkerTypeOK
      <3>2. QED BY <3>1, <2>0, HeldMessage DEF StoreTypeOK
    <2>4. HistoryTypeOK' BY DEF HistoryTypeOK, historyVars, queueVars
    <2>5. QED BY <2>1, <2>2, <2>3, <2>4
  <1>10. ASSUME NEW w \in Workers, RunJudges(w) PROVE TypeOK'
    <2> USE <1>10 DEF RunJudges, JudgeNames
    <2>0. pc[w] \in Handling BY DEF Handling, PC
    <2>1. QueueTypeOK' BY DEF QueueTypeOK, queueVars
    <2>2. WorkerTypeOK' BY DEF WorkerTypeOK, PC, queueVars
    <2>3. StoreTypeOK' BY DEF StoreTypeOK, storeVars
    <2>4. HistoryTypeOK' BY DEF HistoryTypeOK, historyVars, queueVars
    <2>5. QED BY <2>1, <2>2, <2>3, <2>4
  <1>11. ASSUME NEW w \in Workers, AppendVerdict(w) PROVE TypeOK'
    <2> USE <1>11 DEF AppendVerdict
    <2>0. pc[w] \in Handling BY DEF Handling, PC
    <2>1. QueueTypeOK' BY DEF QueueTypeOK, queueVars
    <2>2. WorkerTypeOK'
      <3>1. \E label \in PC : pc' = [pc EXCEPT ![w] = label]
        BY DEF PC, WorkerTypeOK
      <3>2. next' \in [Workers -> Nat]
        <4>1. next \in [Workers -> Nat] /\ next[w] + 1 \in Nat
          BY DEF WorkerTypeOK
        <4>2. next' = [next EXCEPT ![w] = next[w] + 1] \/ next' = next
          OBVIOUS
        <4>3. QED BY <4>1, <4>2
      <3>3. QED BY <3>1, <3>2 DEF WorkerTypeOK, queueVars
    <2>3. StoreTypeOK'
      <3>1. JudgeNames[next[w] + 1] \in {"policy", "response_quality"} /\ msg[w] \in Nat
        <4>1. pc[w] = "verdict" /\ Held(w) /\ next[w] \in Nat
          BY DEF HeldInv, WorkerTypeOK
        <4>2. next[w] + 1 \in {1, 2} /\ msg[w] \in Nat
          BY <2>0, <4>1 DEF Held
        <4>3. QED BY <4>2 DEF JudgeNames
      <3> DEFINE verdict == [judge |-> JudgeNames[next[w] + 1], by |-> msg[w]]
      <3>2. verdict \in [judge : {"policy", "response_quality"}, by : Nat]
        BY <3>1
      <3>3. verdicts' = [verdicts EXCEPT ![Exec(msg[w])] = Append(@, verdict)]
        OBVIOUS
      <3> HIDE DEF verdict
      <3>4. QED BY <3>2, <3>3, <2>0, HeldMessage DEF StoreTypeOK
    <2>4. HistoryTypeOK' BY DEF HistoryTypeOK, historyVars, queueVars
    <2>5. QED BY <2>1, <2>2, <2>3, <2>4
  <1>12. ASSUME NEW w \in Workers, AckSuccess(w) PROVE TypeOK'
    <2> USE <1>12 DEF AckSuccess, Ack, Return
    <2>0. pc[w] \in Handling BY DEF Handling, PC
    <2>1. QueueTypeOK' BY <2>0, HeldMessage DEF QueueTypeOK, EvaluationJob
    <2>2. WorkerTypeOK' BY DEF WorkerTypeOK, PC, QueueTypeOK
    <2>3. StoreTypeOK' BY DEF StoreTypeOK, storeVars
    <2>4. HistoryTypeOK' BY <2>0, HeldMessage DEF HistoryTypeOK, QueueTypeOK
    <2>5. QED BY <2>1, <2>2, <2>3, <2>4
  <1>13. ASSUME NEW w \in Workers, AckFailure(w) PROVE TypeOK'
    <2> USE <1>13 DEF AckFailure, Ack
    <2>0. pc[w] \in Handling BY DEF Handling, PC
    <2>1. QueueTypeOK' BY <2>0, HeldMessage DEF QueueTypeOK, EvaluationJob
    <2>2. WorkerTypeOK' BY DEF WorkerTypeOK, PC, QueueTypeOK
    <2>3. StoreTypeOK' BY DEF StoreTypeOK, storeVars
    <2>4. HistoryTypeOK' BY DEF HistoryTypeOK, historyVars, QueueTypeOK
    <2>5. QED BY <2>1, <2>2, <2>3, <2>4
  <1>14. ASSUME NEW w \in Workers, GiveUp(w) PROVE TypeOK'
    <2> USE <1>14 DEF GiveUp, DeadLetter, Return
    <2>0. pc[w] \in Handling BY DEF Handling, PC
    <2>1. QueueTypeOK' BY <2>0, HeldMessage DEF QueueTypeOK, EvaluationJob
    <2>2. WorkerTypeOK' BY DEF WorkerTypeOK, PC, QueueTypeOK
    <2>3. StoreTypeOK' BY DEF StoreTypeOK, storeVars
    <2>4. HistoryTypeOK' BY DEF HistoryTypeOK, historyVars, QueueTypeOK
    <2>5. QED BY <2>1, <2>2, <2>3, <2>4
  <1>15. ASSUME NEW w \in Workers, Retry(w) PROVE TypeOK'
    <2> USE <1>15 DEF Retry, Enqueue, Return
    <2>0. pc[w] \in Handling BY DEF Handling, PC
    <2>1. QueueTypeOK'
      <3>1. Retried(stream[msg[w]]) \in EvaluationJob
        <4>1. stream[msg[w]] \in EvaluationJob
          BY <2>0, HeldMessage
        <4>2. stream[msg[w]].attempt < MaxAttempts
          BY DEF HeldInv, Held
        <4>3. QED BY ONLY <4>1, <4>2, QueueAssumption DEF EvaluationJob, Retried, QueueAssumption
      <3>2. stream' = Append(stream, Retried(stream[msg[w]])) OBVIOUS
      <3>3. QED BY <3>1, <3>2 DEF QueueTypeOK
    <2>2. WorkerTypeOK' BY DEF WorkerTypeOK, PC, QueueTypeOK
    <2>3. StoreTypeOK' BY DEF StoreTypeOK, storeVars
    <2>4. HistoryTypeOK' BY DEF HistoryTypeOK, historyVars, QueueTypeOK
    <2>5. QED BY <2>1, <2>2, <2>3, <2>4
  <1>16. ASSUME NEW w \in Workers, Crash(w) PROVE TypeOK'
    <2> USE <1>16 DEF Crash, Handover
    <2>1. QueueTypeOK' BY DEF QueueTypeOK, queueVars
    <2>2. WorkerTypeOK' BY DEF WorkerTypeOK, PC, queueVars, QueueTypeOK
    <2>3. StoreTypeOK' BY DEF StoreTypeOK, storeVars
    <2>4. HistoryTypeOK'
      <3>1. pc[w] \in Handover => msg[w] \in 1..delivered
        BY HeldMessage DEF Handling, PC
      <3>2. lost' = lost \/ (lost' = lost \cup {msg[w]} /\ msg[w] \in 1..delivered)
        BY <3>1
      <3>3. crashes' \in 0..MaxCrashes
        BY DEF HistoryTypeOK
      <3>4. QED BY <3>2, <3>3 DEF HistoryTypeOK, queueVars
    <2>5. QED BY <2>1, <2>2, <2>3, <2>4
  <1>17. ASSUME NEW w \in Workers, Restart(w) PROVE TypeOK'
    <2> USE <1>17 DEF Restart
    <2>1. QueueTypeOK' BY DEF QueueTypeOK, queueVars
    <2>2. WorkerTypeOK' BY DEF WorkerTypeOK, PC, queueVars
    <2>3. StoreTypeOK' BY DEF StoreTypeOK, storeVars
    <2>4. HistoryTypeOK' BY DEF HistoryTypeOK, historyVars, queueVars
    <2>5. QED BY <2>1, <2>2, <2>3, <2>4
  <1>18. QED BY <1>1, <1>2, <1>4, <1>5, <1>6, <1>7, <1>8, <1>9, <1>10, <1>11, <1>12, <1>13, <1>14, <1>15, <1>16, <1>17 DEF Next, Step, Handle

-----------------------------------------------------------------------------
\* What a step leaves alone.

LEMMA StreamGrows ==
  ASSUME QueueShape, Next
  PROVE  /\ Len(stream') >= Len(stream) /\ delivered' >= delivered
         /\ \A i \in 1..Len(stream) : stream'[i] = stream[i]
         /\ \A i \in 1..delivered : i \in 1..delivered' /\ stream'[i] = stream[i]
  <1> USE DEF QueueShape, TypeOK, QueueTypeOK
  <1> SUFFICES /\ Len(stream') >= Len(stream) /\ delivered' >= delivered
               /\ \A i \in 1..Len(stream) : stream'[i] = stream[i]
    BY StepType
  <1>1. CASE stream' = stream /\ delivered' = delivered
    BY <1>1
  <1>2. CASE Claim
    BY <1>2 DEF Claim
  <1>3. CASE \E m : Enqueue(m)
    BY <1>3 DEF Enqueue
  <1>4. (stream' = stream /\ delivered' = delivered) \/ Claim \/ \E m : Enqueue(m)
    <2> USE DEF Ack, DeadLetter, queueVars
    <2>1. CASE \E j \in Jobs : Submit(j)
      BY <2>1 DEF Submit
    <2>2. CASE \E w \in Workers : Step(w)
      BY <2>2 DEF Step, Handle, ClaimJob, RunTask, Raise, RejectEvent, AppendEvent,
         ReadStatus, CommitResult, RunJudges, AppendVerdict, AckSuccess, AckFailure, GiveUp, Retry
    <2>3. CASE \E w \in Workers : Crash(w) \/ Restart(w)
      BY <2>3 DEF Crash, Restart
    <2>4. QED BY <2>1, <2>2, <2>3 DEF Next
  <1>5. QED BY <1>1, <1>2, <1>3, <1>4

\* The variables of worker v keep their values.
SameWorker(v) == pc'[v] = pc[v] /\ msg'[v] = msg[v] /\ next'[v] = next[v] /\ len'[v] = len[v]

LEMMA OneWorkerAtATime ==
  ASSUME QueueShape, NEW w \in Workers, Step(w) \/ Crash(w) \/ Restart(w),
         NEW v \in Workers, v # w
  PROVE  SameWorker(v)
  <1> USE DEF QueueShape, TypeOK, WorkerTypeOK, SameWorker, Goto
  <1>1. CASE ClaimJob(w) BY <1>1 DEF ClaimJob
  <1>3. CASE RunTask(w) BY <1>3 DEF RunTask
  <1>4. CASE Raise(w) BY <1>4 DEF Raise
  <1>5. CASE RejectEvent(w) BY <1>5 DEF RejectEvent
  <1>6. CASE AppendEvent(w) BY <1>6 DEF AppendEvent
  <1>7. CASE ReadStatus(w) BY <1>7 DEF ReadStatus
  <1>8. CASE CommitResult(w) BY <1>8 DEF CommitResult
  <1>9. CASE RunJudges(w) BY <1>9 DEF RunJudges
  <1>10. CASE AppendVerdict(w) BY <1>10 DEF AppendVerdict
  <1>11. CASE AckSuccess(w) BY <1>11 DEF AckSuccess, Return
  <1>12. CASE AckFailure(w) BY <1>12 DEF AckFailure
  <1>13. CASE GiveUp(w) BY <1>13 DEF GiveUp, Return
  <1>14. CASE Retry(w) BY <1>14 DEF Retry, Return
  <1>15. CASE Crash(w) BY <1>15 DEF Crash
  <1>16. CASE Restart(w) BY <1>16 DEF Restart
  <1>17. QED BY <1>1, <1>3, <1>4, <1>5, <1>6, <1>7, <1>8, <1>9, <1>10, <1>11, <1>12, <1>13, <1>14, <1>15, <1>16 DEF Step, Handle

LEMMA SubmitKeepsWorkers ==
  ASSUME NEW j \in Jobs, Submit(j), NEW v \in Workers
  PROVE  SameWorker(v)
  BY DEF Submit, workerVars, SameWorker

LEMMA FrameHeld ==
  ASSUME QueueShape, Next, NEW v \in Workers, SameWorker(v)
  PROVE  Held(v)'
  BY StreamGrows DEF SameWorker, QueueShape, HeldInv, Held, Handling, PC
LEMMA StepHeld == ASSUME QueueShape, Next PROVE HeldInv'
  <1> USE DEF At, Goto
  <1>1. ASSUME NEW j \in Jobs, Submit(j) PROVE HeldInv'
    BY <1>1, SubmitKeepsWorkers, FrameHeld DEF HeldInv
  <1>2. ASSUME NEW w \in Workers, Step(w) \/ Crash(w) \/ Restart(w) PROVE HeldInv'
    <2>1. SUFFICES Held(w)'
      BY <1>2, OneWorkerAtATime, FrameHeld DEF HeldInv
    <2> USE DEF QueueShape, TypeOK, WorkerTypeOK, QueueTypeOK, HeldInv, Held, Handling, PC
    <2>2. CASE ClaimJob(w)
      <3>1. pc'[w] = "run" /\ msg'[w] = delivered' /\ delivered' \in 1..delivered'
            /\ next'[w] = 0
        BY <2>2 DEF ClaimJob, Claim
      <3>2. QED BY <3>1
    <2>4. CASE RunTask(w)
      <3>1. pc'[w] = "append" /\ next'[w] = 0 /\ msg'[w] \in 1..delivered'
            /\ len'[w] \in 1..MaxTrace
        BY <2>4, HeldMessage DEF RunTask, queueVars
      <3>2. QED BY <3>1
    <2>5. CASE Raise(w) BY <2>5, HeldMessage, StreamGrows DEF Raise, queueVars
    <2>6. CASE RejectEvent(w) BY <2>6, HeldMessage, StreamGrows DEF RejectEvent, queueVars
    <2>7. CASE AppendEvent(w) BY <2>7, HeldMessage, StreamGrows DEF AppendEvent, queueVars
    <2>8. CASE ReadStatus(w) BY <2>8, HeldMessage, StreamGrows DEF ReadStatus, queueVars
    <2>9. CASE CommitResult(w) BY <2>9, HeldMessage, StreamGrows DEF CommitResult, queueVars
    <2>10. CASE RunJudges(w)
      <3>1. pc'[w] = "verdict" /\ next'[w] = 0 /\ msg'[w] \in 1..delivered'
        BY <2>10, HeldMessage DEF RunJudges, queueVars
      <3>2. DOMAIN JudgeNames = {1, 2}
        BY DEF JudgeNames
      <3>3. len'[w] \in {1, 2}
        BY <2>10, <3>2 DEF RunJudges
      <3>4. QED BY <3>1, <3>3
    <2>11. CASE AppendVerdict(w) BY <2>11, HeldMessage, StreamGrows DEF AppendVerdict, queueVars
    <2>12. CASE AckSuccess(w) BY <2>12, HeldMessage, StreamGrows DEF AckSuccess, Ack, Return
    <2>13. CASE AckFailure(w)
      <3>1. msg'[w] = msg[w] /\ msg'[w] \in 1..delivered' /\ stream' = stream
            /\ pc'[w] \in {"deadletter", "backoff"}
        BY <2>13, HeldMessage DEF AckFailure, Ack
      <3>2. pc'[w] = "backoff" => stream[msg[w]].attempt < MaxAttempts
        <4>1. stream[msg[w]].attempt \in 1..MaxAttempts
          BY <2>13, HeldMessage DEF AckFailure, EvaluationJob
        <4>2. pc'[w] = "backoff" => ~Exhausted(stream[msg[w]])
          BY <2>13 DEF AckFailure
        <4>3. QED BY <4>1, <4>2 DEF Exhausted
      <3>3. QED BY <3>1, <3>2
    <2>14. CASE GiveUp(w) BY <2>14, HeldMessage, StreamGrows DEF GiveUp, DeadLetter, Return
    <2>15. CASE Retry(w) BY <2>15, HeldMessage, StreamGrows DEF Retry, Enqueue, Return
    <2>16. CASE Crash(w) BY <2>16, HeldMessage, StreamGrows DEF Crash, queueVars
    <2>17. CASE Restart(w) BY <2>17, HeldMessage, StreamGrows DEF Restart, queueVars
    <2>18. QED BY <1>2, <2>2, <2>4, <2>5, <2>6, <2>7, <2>8, <2>9, <2>10, <2>11, <2>12, <2>13, <2>14, <2>15, <2>16, <2>17 DEF Step, Handle
  <1>3. QED BY <1>1, <1>2 DEF Next

\* A claim hands out a message no worker holds; no other step gives a worker one.
LEMMA StepExclusive == ASSUME QueueShape, Next PROVE ExclusiveInv'
  <1> USE DEF QueueShape, ExclusiveInv
  <1>1. ASSUME NEW j \in Jobs, Submit(j) PROVE ExclusiveInv'
    BY <1>1, SubmitKeepsWorkers DEF SameWorker
  <1>2. ASSUME NEW w \in Workers, Step(w) \/ Crash(w) \/ Restart(w) PROVE ExclusiveInv'
    <2>1. CASE ClaimJob(w)
      <3>1. \A v \in Workers : v # w => SameWorker(v)
        BY <1>2, OneWorkerAtATime
      <3>2. msg'[w] = delivered + 1
        BY <2>1 DEF ClaimJob, Claim, TypeOK, WorkerTypeOK
      <3>3. \A v \in Workers : pc[v] \in Handling => msg[v] <= delivered
        BY HeldMessage DEF TypeOK, QueueTypeOK
      <3> SUFFICES ASSUME NEW u \in Workers, NEW v \in Workers, u # v,
                            pc'[u] \in Handling, pc'[v] \in Handling
                     PROVE  msg'[u] # msg'[v]
        OBVIOUS
      <3> USE DEF TypeOK, QueueTypeOK, WorkerTypeOK
      <3>5. CASE u = w BY <3>1, <3>2, <3>3, <3>5 DEF SameWorker
      <3>6. CASE v = w BY <3>1, <3>2, <3>3, <3>6 DEF SameWorker
      <3>7. CASE u # w /\ v # w BY <3>1, <3>7 DEF SameWorker
      <3>8. QED BY <3>5, <3>6, <3>7
    <2>2. CASE pc'[w] \in Handling => pc[w] \in Handling /\ msg'[w] = msg[w]
      <3>1. \A v \in Workers : v # w => SameWorker(v)
        BY <1>2, OneWorkerAtATime
      <3>2. QED BY <2>2, <3>1 DEF SameWorker
    <2>3. ClaimJob(w) \/ (pc'[w] \in Handling => pc[w] \in Handling /\ msg'[w] = msg[w])
      BY <1>2 DEF Step, Handle, RunTask, Raise, RejectEvent, AppendEvent, ReadStatus,
         CommitResult, RunJudges, AppendVerdict, AckSuccess, AckFailure, GiveUp, Retry,
         Crash, Restart, Return, At, Goto, Handling, PC, TypeOK, WorkerTypeOK
    <2>4. QED BY <2>1, <2>2, <2>3
  <1>3. QED BY <1>1, <1>2 DEF Next

LEMMA StepShape == ASSUME QueueShape, [Next]_vars PROVE QueueShape'
  <1>1. CASE Next
    BY <1>1, StepType, StepHeld, StepExclusive DEF QueueShape
  <1>2. CASE UNCHANGED vars
    BY <1>2 DEF QueueShape, TypeOK, QueueTypeOK, WorkerTypeOK, StoreTypeOK, HistoryTypeOK,
       HeldInv, Held, ExclusiveInv, vars, queueVars, workerVars, storeVars, historyVars
  <1>3. QED BY <1>1, <1>2

\* Type correctness: every variable keeps its type, no retry is numbered above
\* MaxAttempts, every worker refers to a delivered message.
THEOREM TypeCorrect == Spec => []TypeOK
  <1>1. QueueShape => TypeOK
    BY DEF QueueShape
  <1>2. QED BY InitShape, StepShape, <1>1, PTL DEF Spec
-----------------------------------------------------------------------------
\* What the store holds.

\* Membership in the rows of an attempt.
LEMMA RowsMember ==
  ASSUME NEW i \in Nat, NEW n \in Nat
  PROVE  /\ \A k \in Nat : k < n => [seq |-> k, by |-> i] \in Rows(i, n)
         /\ \A k, m \in Nat : [seq |-> k, by |-> m] \in Rows(i, n) => k < n /\ m = i
         /\ \A row \in Rows(i, n) : /\ row.by = i /\ row.seq \in 0..(n - 1)
                                    /\ row = [seq |-> row.seq, by |-> i]
  <1>1. ASSUME NEW k \in Nat, k < n PROVE [seq |-> k, by |-> i] \in Rows(i, n)
    BY <1>1 DEF Rows
  <1>2. ASSUME NEW k \in Nat, NEW m \in Nat, [seq |-> k, by |-> m] \in Rows(i, n)
        PROVE  k < n /\ m = i
    BY <1>2 DEF Rows
  <1>3. ASSUME NEW row \in Rows(i, n)
        PROVE  row.by = i /\ row.seq \in 0..(n - 1) /\ row = [seq |-> row.seq, by |-> i]
    BY DEF Rows
  <1>4. QED BY <1>1, <1>2, <1>3

\* Two attempts never have the same rows.
LEMMA RowsDiffer ==
  ASSUME NEW i \in Nat, NEW k \in Nat, NEW m \in Nat, NEW n \in Nat, n > 0,
         Rows(i, n) = Rows(k, m)
  PROVE  i = k /\ n = m
  <1>1. [seq |-> n - 1, by |-> i] \in Rows(k, m)
    BY RowsMember
  <1>2. n - 1 < m /\ i = k
    BY <1>1, RowsMember
  <1>3. [seq |-> m - 1, by |-> k] \in Rows(i, n)
    BY <1>2, RowsMember
  <1>4. m - 1 < n
    BY <1>2, <1>3, RowsMember
  <1>5. QED BY <1>2, <1>4

\* No rows, and one row more.
LEMMA RowsExtend ==
  ASSUME NEW i \in Nat, NEW n \in Nat
  PROVE  /\ Rows(i, 0) = {}
         /\ Rows(i, n) \cup {[seq |-> n, by |-> i]} = Rows(i, n + 1)
  <1>1. Rows(i, 0) = {}
    BY DEF Rows
  <1>2. [seq |-> n, by |-> i] \in Rows(i, n + 1)
    BY RowsMember
  <1>3. ASSUME NEW row \in Rows(i, n) PROVE row \in Rows(i, n + 1)
    <2>1. row.seq \in Nat /\ row.seq < n + 1 /\ row = [seq |-> row.seq, by |-> i]
      BY RowsMember
    <2>2. [seq |-> row.seq, by |-> i] \in Rows(i, n + 1)
      BY <2>1, RowsMember
    <2>3. QED BY <2>1, <2>2
  <1>4. ASSUME NEW row \in Rows(i, n + 1), row # [seq |-> n, by |-> i]
        PROVE  row \in Rows(i, n)
    <2>1. row.seq \in 0..n /\ row = [seq |-> row.seq, by |-> i]
      BY RowsMember
    <2>2. row.seq \in Nat /\ row.seq < n
      BY <1>4, <2>1
    <2>3. [seq |-> row.seq, by |-> i] \in Rows(i, n)
      BY <2>2, RowsMember
    <2>4. QED BY <2>1, <2>3
  <1>5. QED BY <1>1, <1>2, <1>3, <1>4

\* Every non-empty trace has event 0.
LEMMA FirstRow ==
  ASSUME NEW i \in Nat, NEW n \in Nat, n > 0
  PROVE  /\ Rows(i, n) # {}
         /\ \E row \in Rows(i, n) : row.seq = 0
  <1>1. [seq |-> 0, by |-> i] \in Rows(i, n)
    BY RowsMember
  <1>2. QED BY <1>1

LEMMA InitStored == Init => AttemptInv /\ StoredInv
  BY DEF Init, AttemptInv, Attempt, StoredInv, Stored, Finalized, NoResult

\* The attempt that has stored an event of an unfinished execution is the only one
\* that can store the next: event 0 excludes every other attempt.
LEMMA SoleWriter ==
  ASSUME IInv, NEW w \in Workers, AppendEvent(w)
  PROVE  LET i == msg[w]
             e == Exec(msg[w])
         IN  /\ trace[e] = Rows(i, next[w])
             /\ ~Finalized(e)
             /\ trace'[e] = Rows(i, next[w] + 1)
             /\ \A d \in Executions : d # e => trace'[d] = trace[d]
             /\ result' = result /\ verdicts' = verdicts
  <1> DEFINE i == msg[w]
             e == Exec(msg[w])
  <1>1. /\ pc[w] = "append" /\ i \in 1..delivered /\ i \in Nat /\ e \in Executions
        /\ next[w] \in Nat /\ delivered \in Nat
    <2>1. pc[w] = "append" /\ pc[w] \in Handling
      BY DEF AppendEvent, At, Handling, PC
    <2>2. i \in 1..delivered /\ e \in Executions
      BY <2>1, HeldMessage DEF IInv
    <2>3. delivered \in Nat /\ next[w] \in Nat
      BY DEF IInv, QueueShape, TypeOK, WorkerTypeOK, QueueTypeOK
    <2>4. QED BY <2>1, <2>2, <2>3
  <1>2. trace[e] = Rows(i, next[w]) /\ ~Finalized(e)
    <2>1. CASE next[w] > 0
      BY <1>1, <2>1 DEF IInv, AttemptInv, Attempt
    <2>2. CASE next[w] = 0
      <3>1. ~\E row \in trace[e] : row.seq = 0
        BY <2>2 DEF AppendEvent, DuplicateRow
      <3>2. trace[e] = {}
        BY <1>1, <3>1, FirstRow DEF IInv, StoredInv, Stored
      <3>3. ~Finalized(e)
        BY <1>1, <3>2, FirstRow DEF IInv, StoredInv, Stored
      <3>4. QED BY <1>1, <2>2, <3>2, <3>3, RowsExtend
    <2>3. QED BY <1>1, <2>1, <2>2
  <1>3. trace' = [trace EXCEPT ![e] = trace[e] \cup {[seq |-> next[w], by |-> i]}]
    BY DEF AppendEvent
  <1>4. trace'[e] = Rows(i, next[w] + 1)
    BY <1>1, <1>2, <1>3, RowsExtend DEF IInv, QueueShape, TypeOK, StoreTypeOK
  <1>5. QED BY <1>1, <1>2, <1>3, <1>4 DEF AppendEvent, IInv, QueueShape, TypeOK, StoreTypeOK
LEMMA ExecStable ==
  ASSUME QueueShape, Next, NEW i \in 1..delivered
  PROVE  Exec(i)' = Exec(i)
  BY StreamGrows DEF Exec

\* record_result commits over a pending row: nobody else can have finished the
\* execution since the status was read.
LEMMA CommitEffect ==
  ASSUME IInv, NEW w \in Workers, CommitResult(w)
  PROVE  LET i == msg[w]
             e == Exec(msg[w])
         IN  /\ i \in 1..delivered /\ e \in Executions /\ len[w] \in 1..MaxTrace
             /\ trace[e] = Rows(i, len[w]) /\ ~Finalized(e) /\ verdicts[e] = <<>>
             /\ result'[e] = [by |-> i, len |-> len[w]]
             /\ \A d \in Executions : d # e => result'[d] = result[d]
             /\ trace' = trace /\ verdicts' = verdicts
  <1>1. pc[w] = "commit" /\ pc[w] \in Handling
    BY DEF CommitResult, At, Handling, PC
  <1>2. msg[w] \in 1..delivered /\ Exec(msg[w]) \in Executions
    BY <1>1, HeldMessage DEF IInv
  <1>3. len[w] \in 1..MaxTrace
    BY <1>1 DEF IInv, QueueShape, HeldInv, Held
  <1>4. trace[Exec(msg[w])] = Rows(msg[w], len[w]) /\ ~Finalized(Exec(msg[w]))
    BY <1>1 DEF IInv, AttemptInv, Attempt
  <1>5. verdicts[Exec(msg[w])] = <<>>
    BY <1>2, <1>4 DEF IInv, StoredInv, Stored
  <1>6. QED
    BY <1>2, <1>3, <1>4, <1>5 DEF CommitResult, IInv, QueueShape, TypeOK, StoreTypeOK

LEMMA VerdictEffect ==
  ASSUME IInv, NEW w \in Workers, AppendVerdict(w)
  PROVE  LET i == msg[w]
             e == Exec(msg[w])
         IN  /\ i \in 1..delivered /\ e \in Executions
             /\ Finalized(e) /\ result[e].by = i
             /\ next[w] \in {0, 1} /\ Len(verdicts[e]) = next[w]
             /\ verdicts'[e] = Append(verdicts[e], [judge |-> JudgeNames[next[w] + 1], by |-> i])
             /\ \A d \in Executions : d # e => verdicts'[d] = verdicts[d]
             /\ trace' = trace /\ result' = result
  <1>1. pc[w] = "verdict" /\ pc[w] \in Handling
    BY DEF AppendVerdict, At, Handling, PC
  <1>2. msg[w] \in 1..delivered /\ Exec(msg[w]) \in Executions
    BY <1>1, HeldMessage DEF IInv
  <1>3. next[w] \in {0, 1}
    BY <1>1 DEF IInv, QueueShape, HeldInv, Held, TypeOK, WorkerTypeOK
  <1>4. /\ Finalized(Exec(msg[w])) /\ result[Exec(msg[w])].by = msg[w]
        /\ Len(verdicts[Exec(msg[w])]) = next[w]
    BY <1>1 DEF IInv, AttemptInv, Attempt
  <1>5. verdicts' = [verdicts EXCEPT ![Exec(msg[w])] =
                       Append(@, [judge |-> JudgeNames[next[w] + 1], by |-> msg[w]])]
        /\ trace' = trace /\ result' = result
    BY DEF AppendVerdict
  <1>6. QED
    BY <1>2, <1>3, <1>4, <1>5 DEF IInv, QueueShape, TypeOK, StoreTypeOK

\* A worker is not affected by what happens to executions other than its own.
LEMMA FrameAttempt ==
  ASSUME IInv, Next, NEW v \in Workers, SameWorker(v),
         pc[v] \in Handling =>
           LET d == Exec(msg[v])
           IN  trace'[d] = trace[d] /\ result'[d] = result[d] /\ verdicts'[d] = verdicts[d]
  PROVE  Attempt(v)'
  <1>1. CASE pc[v] \in Handling
    <2>1. msg[v] \in 1..delivered
      BY <1>1, HeldMessage DEF IInv
    <2>2. Exec(msg[v])' = Exec(msg[v])
      BY <2>1, ExecStable DEF IInv, SameWorker, Exec
    <2>3. Attempt(v)
      BY DEF IInv, AttemptInv
    <2>4. QED BY <1>1, <2>2, <2>3 DEF Attempt, SameWorker, Finalized
  <1>2. CASE pc[v] \notin Handling
    BY <1>2 DEF Attempt, SameWorker, Handling, PC, IInv, QueueShape, TypeOK, WorkerTypeOK
  <1>3. QED BY <1>1, <1>2
\* While w appends, commits or judges, no other worker's knowledge of the same
\* execution is about rows, a result or verdicts that the step changes.
LEMMA OthersAttempt ==
  ASSUME IInv, Next, NEW w \in Workers, Step(w) \/ Crash(w) \/ Restart(w),
         NEW v \in Workers, v # w
  PROVE  Attempt(v)'
  <1> DEFINE i == msg[w]
             e == Exec(msg[w])
             d == Exec(msg[v])
  <1>1. SameWorker(v)
    BY OneWorkerAtATime DEF IInv
  <1>2. CASE trace' = trace /\ result' = result /\ verdicts' = verdicts
    BY <1>1, <1>2, FrameAttempt
  <1>3. CASE pc[v] \notin Handling
    BY <1>1, <1>3, FrameAttempt
  <1>4. CASE pc[v] \in Handling /\ pc[w] \in Handling /\ d = e
             /\ (AppendEvent(w) \/ CommitResult(w) \/ AppendVerdict(w))
    <2>1. msg[v] \in 1..delivered /\ d \in Executions /\ msg[v] # i /\ i \in 1..delivered
          /\ msg[v] \in Nat /\ i \in Nat
      BY <1>4, HeldMessage DEF IInv, QueueShape, ExclusiveInv, TypeOK, QueueTypeOK
    <2>2. Exec(msg[v])' = d
      BY <1>1, <2>1, ExecStable DEF IInv, SameWorker, Exec
    <2>3. Attempt(v) /\ Held(v)
      BY DEF IInv, AttemptInv, QueueShape, HeldInv
    <2>4. next[v] \in Nat /\ len[v] \in Nat /\ next[w] \in Nat /\ len[w] \in Nat
      BY DEF IInv, QueueShape, TypeOK, WorkerTypeOK
    <2>5. CASE AppendEvent(w)
      <3>1. trace[e] = Rows(i, next[w]) /\ ~Finalized(e) /\ trace'[e] = Rows(i, next[w] + 1)
        BY <2>5, SoleWriter
      <3>2. ASSUME NEW n \in Nat, n > 0 PROVE trace[e] # Rows(msg[v], n)
        BY <2>1, <2>4, <3>1, <3>2, RowsDiffer
      <3>3. ~(pc[v] = "append" /\ next[v] > 0) /\ pc[v] \notin {"record", "commit"}
        BY <1>4, <2>3, <2>4, <3>2 DEF Attempt, Held
      <3>4. pc[v] \notin {"judge", "verdict", "ack"}
        BY <1>4, <2>3, <3>1 DEF Attempt
      <3>5. \A row \in trace'[e] : row.by # msg[v]
        BY <2>1, <2>4, <3>1, RowsMember
      <3>6. QED BY <1>1, <1>4, <2>2, <2>4, <3>3, <3>4, <3>5 DEF Attempt, SameWorker
    <2>6. CASE CommitResult(w)
      <3>1. /\ trace[e] = Rows(i, len[w]) /\ ~Finalized(e) /\ len[w] \in 1..MaxTrace
            /\ trace' = trace
        BY <2>6, CommitEffect
      <3>2. ASSUME NEW n \in Nat, n > 0 PROVE trace[e] # Rows(msg[v], n)
        BY <2>1, <2>4, <3>1, <3>2, RowsDiffer
      <3>3. ~(pc[v] = "append" /\ next[v] > 0) /\ pc[v] \notin {"record", "commit"}
        BY <1>4, <2>3, <2>4, <3>2 DEF Attempt, Held
      <3>4. pc[v] \notin {"judge", "verdict", "ack"}
        BY <1>4, <2>3, <3>1 DEF Attempt
      <3>5. QED BY <1>1, <1>4, <2>2, <2>3, <2>4, <3>1, <3>3, <3>4 DEF Attempt, SameWorker
    <2>7. CASE AppendVerdict(w)
      <3>1. Finalized(e) /\ result[e].by = i /\ trace' = trace /\ result' = result
        BY <2>7, VerdictEffect
      <3>2. pc[v] \notin {"record", "commit", "judge", "verdict", "ack"}
            /\ ~(pc[v] = "append" /\ next[v] > 0)
        BY <1>4, <2>1, <2>3, <3>1 DEF Attempt
      <3>3. QED BY <1>1, <1>4, <2>2, <2>3, <2>4, <3>1, <3>2 DEF Attempt, SameWorker
    <2>8. QED BY <1>4, <2>5, <2>6, <2>7
  <1>5. CASE pc[v] \in Handling /\ d # e
             /\ (AppendEvent(w) \/ CommitResult(w) \/ AppendVerdict(w))
    <2>1. d \in Executions
      BY <1>5, HeldMessage DEF IInv
    <2>2. trace'[d] = trace[d] /\ result'[d] = result[d] /\ verdicts'[d] = verdicts[d]
      BY <1>5, <2>1, SoleWriter, CommitEffect, VerdictEffect
    <2>3. QED BY <1>1, <2>2, FrameAttempt
  <1>6. \/ trace' = trace /\ result' = result /\ verdicts' = verdicts
        \/ pc[w] \in Handling /\ (AppendEvent(w) \/ CommitResult(w) \/ AppendVerdict(w))
    BY DEF Step, Handle, ClaimJob, RunTask, Raise, RejectEvent, AppendEvent, ReadStatus,
       CommitResult, RunJudges, AppendVerdict, AckSuccess, AckFailure, GiveUp, Retry,
       Crash, Restart, storeVars, At, Handling, PC
  <1>7. QED BY <1>2, <1>3, <1>4, <1>5, <1>6
\* Each step leaves the worker that takes it knowing what the store holds.
LEMMA OwnAttempt ==
  ASSUME IInv, Next, NEW w \in Workers, Step(w) \/ Crash(w) \/ Restart(w)
  PROVE  Attempt(w)'
  <1> DEFINE i == msg[w]
             e == Exec(msg[w])
  <1>0. /\ Attempt(w) /\ Held(w) /\ pc[w] \in PC /\ next[w] \in Nat /\ len[w] \in Nat
        /\ pc \in [Workers -> PC] /\ msg \in [Workers -> 0..delivered]
        /\ next \in [Workers -> Nat] /\ len \in [Workers -> Nat]
    BY DEF IInv, AttemptInv, QueueShape, HeldInv, TypeOK, WorkerTypeOK
  <1>1. CASE pc'[w] \notin {"run", "append", "record", "commit", "judge", "verdict", "ack"}
    BY <1>1 DEF Attempt
  <1>2. pc[w] \in Handling =>
          i \in 1..delivered /\ i \in Nat /\ e \in Executions
          /\ ExecutionOf[stream'[i].job] = e
    <2> HAVE pc[w] \in Handling
    <2>1. i \in 1..delivered /\ e \in Executions
      BY HeldMessage DEF IInv
    <2>2. ExecutionOf[stream'[i].job] = e
      BY <2>1, StreamGrows DEF IInv, Exec
    <2>3. delivered \in Nat
      BY DEF IInv, QueueShape, TypeOK, QueueTypeOK
    <2>4. QED BY <2>1, <2>2, <2>3
  <1>3. CASE ClaimJob(w)
    <2>1. pc'[w] = "run" /\ msg'[w] = delivered + 1 /\ trace' = trace
      BY <1>0, <1>3 DEF ClaimJob, Claim, Goto, storeVars
    <2>2. delivered \in Nat /\ delivered + 1 \in 1..Len(stream) /\ stream' = stream
      <3>1. delivered \in Nat /\ Len(stream) \in Nat
        BY DEF IInv, QueueShape, TypeOK, QueueTypeOK
      <3>2. delivered < Len(stream) /\ stream' = stream
        BY <1>3 DEF ClaimJob, Claim
      <3>3. QED BY <3>1, <3>2
    <2>3. ExecutionOf[stream[delivered + 1].job] \in Executions
      <3>1. stream[delivered + 1] \in EvaluationJob
        BY <2>2, ElementOfSeq DEF IInv, QueueShape, TypeOK, QueueTypeOK
      <3>2. QED BY <3>1 DEF EvaluationJob
    <2>4. ASSUME NEW d \in Executions, NEW row \in trace[d] PROVE row.by # delivered + 1
      <3>1. PICK k \in 1..delivered, n \in 1..MaxTrace : trace[d] = Rows(k, n)
        BY <2>4 DEF IInv, StoredInv, Stored
      <3>2. row.by = k
        BY <2>4, <3>1, RowsMember
      <3>3. QED BY <2>2, <3>1, <3>2
    <2>5. QED BY <2>1, <2>2, <2>3, <2>4 DEF Attempt, Exec
  <1>4. CASE RunTask(w)
    <2>1. pc[w] = "run" /\ pc'[w] = "append" /\ next'[w] = 0 /\ msg'[w] = i /\ trace' = trace
      BY <1>0, <1>4 DEF RunTask, Held, At, Goto, storeVars
    <2>2. Exec(msg[w])' = e
      BY <1>2, <2>1 DEF Exec, Handling, PC
    <2>3. QED BY <1>0, <2>1, <2>2 DEF Attempt
  <1>5. CASE AppendEvent(w) /\ pc'[w] # "failed"
    <2>1. trace'[e] = Rows(i, next[w] + 1) /\ ~Finalized(e) /\ result' = result
      BY <1>5, SoleWriter
    <2>2. /\ pc[w] = "append" /\ next'[w] = next[w] + 1 /\ len'[w] = len[w] /\ msg'[w] = i
          /\ pc'[w] = IF next[w] + 1 < len[w] THEN "append" ELSE "record"
      BY <1>0, <1>5 DEF AppendEvent, At, Goto
    <2>3. Exec(msg[w])' = e
      BY <1>2, <2>2 DEF Exec, Handling, PC
    <2>4. pc'[w] = "record" => next[w] + 1 = len[w]
      BY <1>0, <2>2 DEF Held
    <2>5. QED BY <1>0, <2>1, <2>2, <2>3, <2>4 DEF Attempt, Finalized
  <1>6. CASE ReadStatus(w) /\ pc'[w] # "failed"
    <2>1. /\ pc[w] = "record" /\ pc'[w] = "commit" /\ msg'[w] = i /\ len'[w] = len[w]
          /\ trace' = trace /\ result' = result
      BY <1>0, <1>6 DEF ReadStatus, At, Goto, storeVars
    <2>2. Exec(msg[w])' = e
      BY <1>2, <2>1 DEF Exec, Handling, PC
    <2>3. QED BY <1>0, <2>1, <2>2 DEF Attempt, Finalized
  <1>7. CASE CommitResult(w) /\ pc'[w] # "failed"
    <2>1. result'[e] = [by |-> i, len |-> len[w]] /\ verdicts'[e] = <<>> /\ i \in 1..delivered
      BY <1>7, CommitEffect
    <2>2. pc[w] = "commit" /\ pc'[w] \in {"judge", "ack"} /\ msg'[w] = i
      BY <1>0, <1>7 DEF CommitResult, At, Goto
    <2>3. Exec(msg[w])' = e
      BY <1>2, <2>2 DEF Exec, Handling, PC
    <2>4. result'[e] # NoResult
      BY <1>2, <2>1, <2>2 DEF NoResult, Handling, PC
    <2>5. QED BY <2>1, <2>2, <2>3, <2>4 DEF Attempt, Finalized
  <1>8. CASE RunJudges(w)
    <2>1. /\ pc[w] = "judge" /\ pc'[w] = "verdict" /\ msg'[w] = i /\ next'[w] = 0
          /\ result' = result /\ verdicts' = verdicts
      BY <1>0, <1>8 DEF RunJudges, At, Goto, storeVars
    <2>2. Exec(msg[w])' = e
      BY <1>2, <2>1 DEF Exec, Handling, PC
    <2>3. Len(verdicts[e]) = 0
      BY <1>0, <2>1 DEF Attempt
    <2>4. QED BY <1>0, <2>1, <2>2, <2>3 DEF Attempt, Finalized
  <1>9. CASE AppendVerdict(w) /\ pc'[w] # "failed"
    <2> DEFINE verdict == [judge |-> JudgeNames[next[w] + 1], by |-> i]
    <2>1. /\ Finalized(e) /\ result[e].by = i /\ Len(verdicts[e]) = next[w]
          /\ verdicts'[e] = Append(verdicts[e], verdict) /\ result' = result
      BY <1>9, VerdictEffect
    <2>2. /\ pc[w] = "verdict" /\ pc'[w] \in {"verdict", "ack"} /\ msg'[w] = i
          /\ next'[w] = next[w] + 1
      BY <1>0, <1>9 DEF AppendVerdict, At, Goto
    <2>3. Exec(msg[w])' = e
      BY <1>2, <2>2 DEF Exec, Handling, PC
    <2>4. \E S : verdicts[e] \in Seq(S)
      BY <1>2, <2>2 DEF IInv, QueueShape, TypeOK, StoreTypeOK, Handling, PC
    <2>5. Len(verdicts'[e]) = next[w] + 1
      <3> HIDE DEF verdict
      <3> QED BY <2>1, <2>4
    <2>6. QED BY <2>1, <2>2, <2>3, <2>5 DEF Attempt, Finalized
  <1>10. \/ pc'[w] \notin {"run", "append", "record", "commit", "judge", "verdict", "ack"}
         \/ ClaimJob(w) \/ RunTask(w) \/ RunJudges(w)
         \/ /\ pc'[w] # "failed"
            /\ AppendEvent(w) \/ ReadStatus(w) \/ CommitResult(w) \/ AppendVerdict(w)
    BY <1>0 DEF Step, Handle, Raise, RejectEvent, AckSuccess, AckFailure, GiveUp, Retry,
       Crash, Restart, Return, Goto
  <1>11. QED BY <1>1, <1>3, <1>4, <1>5, <1>6, <1>7, <1>8, <1>9, <1>10
LEMMA StepAttempt == ASSUME IInv, Next PROVE AttemptInv'
  <1>1. ASSUME NEW j \in Jobs, Submit(j) PROVE AttemptInv'
    BY <1>1, SubmitKeepsWorkers, FrameAttempt DEF Submit, storeVars, AttemptInv
  <1>2. ASSUME NEW w \in Workers, Step(w) \/ Crash(w) \/ Restart(w) PROVE AttemptInv'
    BY <1>2, OthersAttempt, OwnAttempt DEF AttemptInv
  <1>3. QED BY <1>1, <1>2 DEF Next

LEMMA StepStored == ASSUME IInv, Next PROVE StoredInv'
  <1>1. 1..delivered \subseteq 1..delivered'
    BY StreamGrows DEF IInv
  <1>2. ASSUME NEW d \in Executions, trace'[d] = trace[d], result'[d] = result[d],
               verdicts'[d] = verdicts[d]
        PROVE  Stored(d)'
    <2>1. Stored(d)
      BY DEF IInv, StoredInv
    <2>2. trace'[d] # {} => \E i \in 1..delivered', n \in 1..MaxTrace : trace'[d] = Rows(i, n)
      BY <1>1, <1>2, <2>1 DEF Stored
    <2>3. QED BY <1>1, <1>2, <2>1, <2>2 DEF Stored, Finalized
  <1>3. ASSUME NEW w \in Workers, AppendEvent(w) PROVE StoredInv'
    <2>0. PICK i, e : i = msg[w] /\ e = Exec(msg[w])
      OBVIOUS
    <2>1. /\ trace'[e] = Rows(i, next[w] + 1) /\ ~Finalized(e)
          /\ \A d \in Executions : d # e => trace'[d] = trace[d]
          /\ result' = result /\ verdicts' = verdicts
      BY <1>3, <2>0, SoleWriter
    <2>2. pc[w] = "append" /\ pc[w] \in Handling
      BY <1>3 DEF AppendEvent, At, Handling, PC
    <2>3. i \in 1..delivered /\ e \in Executions
      BY <2>0, <2>2, HeldMessage DEF IInv
    <2>4. next[w] + 1 \in 1..MaxTrace
      BY <2>2 DEF IInv, QueueShape, HeldInv, Held, TypeOK, WorkerTypeOK
    <2>5. Stored(e)
      BY <2>3 DEF IInv, StoredInv
    <2>6. i \in 1..delivered'
      BY <1>1, <2>3
    <2>7. Stored(e)'
      <3>1. \E k \in 1..delivered', n \in 1..MaxTrace : trace'[e] = Rows(k, n)
        BY <2>0, <2>1, <2>4, <2>6
      <3>2. QED BY <2>1, <2>5, <3>1 DEF Stored, Finalized
    <2>8. QED BY <1>2, <2>1, <2>7 DEF StoredInv
  <1>4. ASSUME NEW w \in Workers, CommitResult(w) PROVE StoredInv'
    <2>0. PICK i, e : i = msg[w] /\ e = Exec(msg[w])
      OBVIOUS
    <2>1. /\ i \in 1..delivered /\ e \in Executions /\ len[w] \in 1..MaxTrace
          /\ trace[e] = Rows(i, len[w]) /\ verdicts[e] = <<>>
          /\ result'[e] = [by |-> i, len |-> len[w]]
          /\ \A d \in Executions : d # e => result'[d] = result[d]
          /\ trace' = trace /\ verdicts' = verdicts
      BY <1>4, <2>0, CommitEffect
    <2>2. i \in 1..delivered' /\ Finalized(e)'
      BY <1>1, <2>1 DEF Finalized, NoResult
    <2>3. Stored(e)'
      <3>1. \A k \in DOMAIN verdicts'[e] :
              verdicts'[e][k] = [judge |-> JudgeNames[k], by |-> result'[e].by]
        BY <2>1
      <3>2. QED BY <2>1, <2>2, <3>1 DEF Stored
    <2>4. QED BY <1>2, <2>1, <2>3 DEF StoredInv
  <1>5. ASSUME NEW w \in Workers, AppendVerdict(w) PROVE StoredInv'
    <2>0. PICK i, e : i = msg[w] /\ e = Exec(msg[w])
      OBVIOUS
    <2> DEFINE verdict == [judge |-> JudgeNames[next[w] + 1], by |-> i]
    <2>1. /\ e \in Executions /\ Finalized(e) /\ result[e].by = i
          /\ next[w] \in {0, 1} /\ Len(verdicts[e]) = next[w]
          /\ verdicts'[e] = Append(verdicts[e], verdict)
          /\ \A d \in Executions : d # e => verdicts'[d] = verdicts[d]
          /\ trace' = trace /\ result' = result
      BY <1>5, <2>0, VerdictEffect
    <2>2. Stored(e)
      BY <2>1 DEF IInv, StoredInv
    <2>3. PICK S : verdicts[e] \in Seq(S)
      BY <2>1 DEF IInv, QueueShape, TypeOK, StoreTypeOK
    <2>4. /\ Len(verdicts'[e]) = next[w] + 1
          /\ DOMAIN verdicts'[e] = 1..(next[w] + 1)
          /\ verdicts'[e][next[w] + 1] = verdict
          /\ \A k \in 1..next[w] : verdicts'[e][k] = verdicts[e][k]
          /\ DOMAIN verdicts[e] = 1..next[w]
      <3> HIDE DEF verdict
      <3> QED BY <2>1, <2>3
    <2>5. \A k \in DOMAIN verdicts'[e] :
            verdicts'[e][k] = [judge |-> JudgeNames[k], by |-> result'[e].by]
      <3> SUFFICES ASSUME NEW k \in 1..(next[w] + 1)
                   PROVE  verdicts'[e][k] = [judge |-> JudgeNames[k], by |-> i]
        BY <2>1, <2>4
      <3>1. CASE k = next[w] + 1
        BY <2>4, <3>1
      <3>2. CASE k # next[w] + 1
        <4>1. k \in 1..next[w]
          BY <2>1, <3>2
        <4>2. verdicts[e][k] = [judge |-> JudgeNames[k], by |-> i]
          BY <2>1, <2>2, <2>4, <4>1 DEF Stored
        <4>3. QED BY <2>4, <4>1, <4>2
      <3>3. QED BY <3>1, <3>2
    <2>6. Stored(e)'
      <3>1. trace[e] # {} => \E k \in 1..delivered', n \in 1..MaxTrace : trace[e] = Rows(k, n)
        BY <1>1, <2>2 DEF Stored
      <3>2. /\ result[e].by \in 1..delivered' /\ result[e].len \in 1..MaxTrace
            /\ trace[e] = Rows(result[e].by, result[e].len)
        BY <1>1, <2>1, <2>2 DEF Stored
      <3>3. Len(verdicts'[e]) <= 2 /\ Finalized(e)'
        BY <2>1, <2>4 DEF Finalized
      <3>4. QED
        <4> HIDE DEF verdict
        <4> QED BY <2>1, <2>5, <3>1, <3>2, <3>3 DEF Stored
    <2>7. QED BY <1>2, <2>1, <2>6 DEF StoredInv
  <1>6. CASE trace' = trace /\ result' = result /\ verdicts' = verdicts
    BY <1>2, <1>6 DEF StoredInv
  <1>7. \/ trace' = trace /\ result' = result /\ verdicts' = verdicts
        \/ \E w \in Workers : AppendEvent(w) \/ CommitResult(w) \/ AppendVerdict(w)
    BY DEF Next, Submit, Step, Handle, ClaimJob, RunTask, Raise, RejectEvent, ReadStatus,
       RunJudges, AckSuccess, AckFailure, GiveUp, Retry, Crash, Restart, storeVars
  <1>8. QED BY <1>3, <1>4, <1>5, <1>6, <1>7

LEMMA StepIInv == ASSUME IInv, [Next]_vars PROVE IInv'
  <1>1. CASE Next
    BY <1>1, StepShape, StepAttempt, StepStored DEF IInv
  <1>2. CASE UNCHANGED vars
    <2>1. QueueShape'
      BY StepShape DEF IInv
    <2>2. AttemptInv'
      BY <1>2 DEF IInv, AttemptInv, Attempt, Exec, Finalized, vars, queueVars, workerVars, storeVars
    <2>3. StoredInv'
      BY <1>2 DEF IInv, StoredInv, Stored, Finalized, vars, queueVars, storeVars
    <2>4. QED BY <2>1, <2>2, <2>3 DEF IInv
  <1>3. QED BY <1>1, <1>2

THEOREM Inductive == Spec => []IInv
  BY InitShape, InitStored, StepIInv, PTL DEF Spec, IInv

\* The stored events of an execution are a gap-free prefix of one attempt's trace.
THEOREM TraceOfOneAttempt == Spec => []OneAttemptPerTrace
  <1>1. IInv => OneAttemptPerTrace
    <2> SUFFICES ASSUME IInv, NEW e \in Executions, trace[e] # {}
                 PROVE  \E row \in trace[e], n \in 1..MaxTrace : trace[e] = Rows(row.by, n)
      BY DEF OneAttemptPerTrace
    <2>1. PICK i \in 1..delivered, n \in 1..MaxTrace : trace[e] = Rows(i, n)
      BY DEF IInv, StoredInv, Stored
    <2>2. i \in Nat
      BY DEF IInv, QueueShape, TypeOK, QueueTypeOK
    <2>3. PICK row \in trace[e] : row.by = i
      BY <2>1, <2>2, RowsMember
    <2>4. QED BY <2>1, <2>3
  <1>2. QED BY <1>1, Inductive, PTL

\* A recorded result rests on the complete trace of the attempt that was scored.
THEOREM ResultHasItsTrace == Spec => []ResultBacksTrace
  <1>1. IInv => ResultBacksTrace
    BY DEF IInv, StoredInv, Stored, ResultBacksTrace
  <1>2. QED BY <1>1, Inductive, PTL

\* Verdicts judge the recorded result, each judge once.
THEOREM VerdictsAreOnTheResult == Spec => []VerdictsJudgeTheResult
  <1>1. IInv => VerdictsJudgeTheResult
    BY DEF IInv, StoredInv, Stored, VerdictsJudgeTheResult, JudgeNames
  <1>2. QED BY <1>1, Inductive, PTL

LEMMA FinalFrozen ==
  ASSUME IInv, Next, NEW d \in Executions, Finalized(d)
  PROVE  result'[d] = result[d] /\ trace'[d] = trace[d]
  <1>1. ASSUME NEW w \in Workers, AppendEvent(w)
        PROVE  result'[d] = result[d] /\ trace'[d] = trace[d]
    BY <1>1, SoleWriter
  <1>2. ASSUME NEW w \in Workers, CommitResult(w)
        PROVE  result'[d] = result[d] /\ trace'[d] = trace[d]
    BY <1>2, CommitEffect
  <1>3. \/ trace' = trace /\ result' = result
        \/ \E w \in Workers : AppendEvent(w) \/ CommitResult(w)
    BY DEF Next, Submit, Step, Handle, ClaimJob, RunTask, Raise, RejectEvent, ReadStatus,
       RunJudges, AppendVerdict, AckSuccess, AckFailure, GiveUp, Retry, Crash, Restart, storeVars
  <1>4. QED BY <1>1, <1>2, <1>3

\* No worker changes the trace or the result of an execution that has a result:
\* the unlocked status check of record_result is never raced by a worker.
THEOREM FinalMeansFinal == Spec => FinalExecutionFrozen
  <1>1. ASSUME IInv, [Next]_vars
        PROVE  [\A e \in Executions : Finalized(e) =>
                  result'[e] = result[e] /\ trace'[e] = trace[e]]_vars
    BY <1>1, FinalFrozen
  <1>2. QED BY <1>1, Inductive, PTL DEF Spec, FinalExecutionFrozen

\* Once an attempt has failed with events stored, no later attempt finishes the
\* execution: a result is committed only by the worker whose rows are the trace.
THEOREM AbandonedStaysUnfinished == Spec => AbandonedTraceNeverFinishes
  <1>1. ASSUME IInv, Next, NEW e \in Executions,
               trace[e] # {}, ~Finalized(e), ~Attempting(e)
        PROVE  result'[e] = NoResult
    <2>1. CASE result' = result BY <1>1, <2>1 DEF Finalized
    <2>2. ASSUME NEW w \in Workers, CommitResult(w), e = Exec(msg[w]) PROVE FALSE
      <3>1. pc[w] = "commit" /\ trace[e] = Rows(msg[w], len[w]) /\ msg[w] \in 1..delivered /\ len[w] \in 1..MaxTrace
        BY <1>1, <2>2, CommitEffect DEF CommitResult, At
      <3>2. msg[w] \in Nat /\ len[w] \in Nat /\ len[w] > 0
        BY <1>1, <3>1 DEF IInv, QueueShape, TypeOK, QueueTypeOK
      <3>3. [seq |-> 0, by |-> msg[w]] \in trace[e]
        <4>1. 0 \in Nat /\ 0 < len[w] BY <3>2
        <4>2. [seq |-> 0, by |-> msg[w]] \in Rows(msg[w], len[w]) BY <4>1, <3>2, RowsMember
        <4>3. QED BY <4>2, <3>1, <2>2
      <3>4. [seq |-> 0, by |-> msg[w]].by = msg[w] OBVIOUS
      <3>5. QED BY <1>1, <2>2, <3>1, <3>3, <3>4 DEF Attempting
    <2>3. ASSUME NEW w \in Workers, CommitResult(w) PROVE result'[e] = NoResult
      <3>1. e # Exec(msg[w]) BY <2>2, <2>3
      <3>2. result'[e] = result[e] BY <1>1, <2>3, <3>1, CommitEffect
      <3>3. QED BY <1>1, <3>2 DEF Finalized
    <2>4. result' = result \/ \E w \in Workers : CommitResult(w)
      BY <1>1 DEF Next, Submit, Step, Handle, ClaimJob, RunTask, Raise, RejectEvent, AppendEvent, ReadStatus,
         RunJudges, AppendVerdict, AckSuccess, AckFailure, GiveUp, Retry, Crash, Restart, storeVars
    <2>5. QED BY <2>1, <2>3, <2>4
  <1>2. ASSUME IInv, [Next]_vars
        PROVE  [\A e \in Executions :
                  trace[e] # {} /\ ~Finalized(e) /\ ~Attempting(e) => result'[e] = NoResult]_vars
    BY <1>1, <1>2
  <1>3. QED BY <1>2, Inductive, PTL DEF Spec, AbandonedTraceNeverFinishes

-----------------------------------------------------------------------------
\* The place of a job.  What the load test and run_worker_loop do to the queue and the
\* store is what the pipeline does, so the invariants carry over to LoadTest; in
\* run_worker_loop no worker dies, so when the last one returns nobody holds a message
\* and the place of a job is a final one.


Working == Handling \ Handover
HandedOver == {msg[w] : w \in {w \in Workers : pc[w] \in Handover}}

\* The messages that may still be acted upon, or were the last of their job.
Live == Undelivered \cup pending \cup done \cup lost \cup HandedOver

Latest(i) == \A k \in Ids : stream[k].job = stream[i].job => k <= i
DeadLettered(j) == \E d \in DOMAIN dead : dead[d].job = j
Tries(j) == {stream[i].attempt : i \in {i \in Ids : stream[i].job = j}}

\* A message is in one place: undelivered, pending, with the worker that hands it
\* over, acked after success or lost.
Apart ==
  /\ pending \cap done = {} /\ pending \cap lost = {} /\ done \cap lost = {}
  /\ HandedOver \cap (pending \cup done \cup lost) = {}

\* The live messages are the latest of their jobs, except of dead-lettered jobs.
LiveInv ==
  /\ \A i \in Live : Latest(i) /\ ~DeadLettered(stream[i].job)
  /\ \A i \in Ids : Latest(i) => i \in Live \/ DeadLettered(stream[i].job)
  /\ \A j \in Jobs : Submitted(j) => \E i \in Ids : stream[i].job = j /\ Latest(i)

DeadInv ==
  /\ \A d \in DOMAIN dead : Submitted(dead[d].job)
  /\ \A c, d \in DOMAIN dead : dead[c].job = dead[d].job => c = d

\* Attempts are numbered without gaps.
AttemptsInv == \A i \in Ids : Latest(i) => Tries(stream[i].job) = 1..stream[i].attempt

\* What a worker's place in the handler says of its message.
Holds(w) ==
  /\ pc[w] \in Working => msg[w] \in pending
  /\ pc[w] = "deadletter" => stream[msg[w]].attempt = MaxAttempts
HolderInv == \A w \in Workers : Holds(w)

JobsInv == Apart /\ LiveInv /\ DeadInv /\ AttemptsInv
PlaceInv == JobsInv /\ HolderInv

-----------------------------------------------------------------------------
\* What a step moves.

LEMMA Types ==
  ASSUME QueueShape
  PROVE  /\ stream \in Seq(EvaluationJob) /\ dead \in Seq(EvaluationJob)
         /\ delivered \in Nat /\ Len(stream) \in Nat /\ delivered <= Len(stream)
         /\ pending \subseteq 1..delivered /\ done \subseteq 1..delivered /\ lost \subseteq 1..delivered
         /\ HandedOver \subseteq 1..delivered
         /\ Live \subseteq Ids
         /\ \A i \in Ids : i \in Nat /\ stream[i] \in EvaluationJob /\ stream[i].job \in Jobs
         /\ pc \in [Workers -> PC] /\ msg \in [Workers -> 0..delivered]
  <1>1. /\ stream \in Seq(EvaluationJob) /\ dead \in Seq(EvaluationJob)
        /\ delivered \in Nat /\ Len(stream) \in Nat /\ delivered <= Len(stream)
        /\ pending \subseteq 1..delivered /\ done \subseteq 1..delivered /\ lost \subseteq 1..delivered
        /\ pc \in [Workers -> PC] /\ msg \in [Workers -> 0..delivered]
    BY DEF QueueShape, TypeOK, QueueTypeOK, WorkerTypeOK, HistoryTypeOK
  <1>2. HandedOver \subseteq 1..delivered
    BY DEF HandedOver, QueueShape, HeldInv, Held, Handover, Handling, PC
  <1>3. Live \subseteq Ids
    <2>1. 1..delivered \subseteq Ids /\ Undelivered \subseteq Ids
      BY <1>1 DEF Ids, Undelivered
    <2>2. QED BY <1>1, <1>2, <2>1 DEF Live
  <1>4. ASSUME NEW i \in Ids
        PROVE  i \in Nat /\ stream[i] \in EvaluationJob /\ stream[i].job \in Jobs
    <2>1. i \in 1..Len(stream)
      BY <1>4 DEF Ids
    <2>2. stream[i] \in EvaluationJob
      BY <1>1, <2>1, ElementOfSeq
    <2>3. QED BY <1>1, <2>1, <2>2 DEF EvaluationJob
  <1>5. QED BY <1>1, <1>2, <1>3, <1>4

Submits(j) ==
  /\ ~Submitted(j)
  /\ stream' = Append(stream, [job |-> j, attempt |-> 1])
  /\ HandedOver' = HandedOver
  /\ UNCHANGED <<delivered, pending, dead, done, lost>>

Delivers ==
  /\ delivered < Len(stream)
  /\ delivered' = delivered + 1 /\ pending' = pending \cup {delivered + 1}
  /\ HandedOver' = HandedOver
  /\ UNCHANGED <<stream, dead, done, lost>>

Completes(i) ==
  /\ i \in pending
  /\ pending' = pending \ {i} /\ done' = done \cup {i}
  /\ HandedOver' = HandedOver
  /\ UNCHANGED <<stream, delivered, dead, lost>>

HandsOver(i) ==
  /\ i \in pending
  /\ pending' = pending \ {i} /\ HandedOver' = HandedOver \cup {i}
  /\ UNCHANGED <<stream, delivered, dead, done, lost>>

Buries(i) ==
  /\ i \in HandedOver /\ stream[i].attempt = MaxAttempts
  /\ HandedOver' = HandedOver \ {i} /\ dead' = Append(dead, stream[i])
  /\ UNCHANGED <<stream, delivered, pending, done, lost>>

Resubmits(i) ==
  /\ i \in HandedOver /\ stream[i].attempt < MaxAttempts
  /\ HandedOver' = HandedOver \ {i} /\ stream' = Append(stream, Retried(stream[i]))
  /\ UNCHANGED <<delivered, pending, dead, done, lost>>

Loses(i) ==
  /\ i \in HandedOver
  /\ HandedOver' = HandedOver \ {i} /\ lost' = lost \cup {i}
  /\ UNCHANGED <<stream, delivered, pending, dead, done>>

Stays == HandedOver' = HandedOver /\ UNCHANGED <<queueVars, done, lost>>

\* Only the worker that steps enters or leaves the hand-over.
LEMMA HandOver ==
  ASSUME QueueShape, NEW w \in Workers, Step(w) \/ Crash(w) \/ Restart(w)
  PROVE  /\ pc[w] \in Handover => msg[w] \in HandedOver
         /\ pc[w] \notin Handover /\ pc'[w] \notin Handover => HandedOver' = HandedOver
         /\ pc[w] \notin Handover /\ pc'[w] \in Handover => HandedOver' = HandedOver \cup {msg'[w]}
         /\ pc[w] \in Handover /\ pc'[w] \notin Handover => HandedOver' = HandedOver \ {msg[w]}
  <1>1. \A v \in Workers : v # w => pc'[v] = pc[v] /\ msg'[v] = msg[v]
    BY OneWorkerAtATime DEF SameWorker
  <1>2. \A v \in Workers : v # w /\ pc[v] \in Handover /\ pc[w] \in Handover => msg[v] # msg[w]
    BY DEF QueueShape, ExclusiveInv, Handover, Handling, PC
  <1>3. \A i : i \in HandedOver' <=> \E v \in Workers : pc'[v] \in Handover /\ msg'[v] = i
    BY DEF HandedOver
  <1>4. \A i : i \in HandedOver <=> \E v \in Workers : pc[v] \in Handover /\ msg[v] = i
    BY DEF HandedOver
  <1>5. QED BY <1>1, <1>2, <1>3, <1>4

LEMMA StepMoves ==
  ASSUME QueueShape, HolderInv, Next
  PROVE  \/ \E j \in Jobs : Submits(j)
         \/ Delivers \/ Stays
         \/ \E i \in Ids : \/ Completes(i) \/ HandsOver(i) \/ Buries(i) \/ Resubmits(i) \/ Loses(i)
  <1>0. /\ pc \in [Workers -> PC] /\ msg \in [Workers -> 0..delivered]
        /\ HandedOver \subseteq Ids /\ pending \subseteq Ids
    BY Types DEF Live
  <1>1. ASSUME NEW j \in Jobs, Submit(j) PROVE Submits(j)
    BY <1>1 DEF Submit, Submits, Enqueue, workerVars, historyVars, HandedOver
  <1>2. ASSUME NEW w \in Workers, ClaimJob(w) PROVE Delivers
    <2>1. HandedOver' = HandedOver
      BY <1>0, <1>2, HandOver DEF ClaimJob, Step, Goto, At, Handover
    <2>2. QED BY <1>2, <2>1 DEF ClaimJob, Claim, Delivers, historyVars
  <1>3. ASSUME NEW w \in Workers, AckSuccess(w) PROVE Completes(msg[w])
    <2>1. HandedOver' = HandedOver
      BY <1>0, <1>3, HandOver DEF AckSuccess, Return, Step, Handle, Goto, At, Handover
    <2>2. msg[w] \in pending
      BY <1>3 DEF AckSuccess, At, HolderInv, Holds, Working, Handling, Handover, PC
    <2>3. QED BY <1>3, <2>1, <2>2 DEF AckSuccess, Ack, Completes
  <1>4. ASSUME NEW w \in Workers, AckFailure(w) PROVE HandsOver(msg[w])
    <2>1. HandedOver' = HandedOver \cup {msg[w]}
      BY <1>0, <1>4, HandOver DEF AckFailure, Step, Handle, Goto, At, Handover
    <2>2. msg[w] \in pending
      BY <1>4 DEF AckFailure, At, HolderInv, Holds, Working, Handling, Handover, PC
    <2>3. QED BY <1>4, <2>1, <2>2 DEF AckFailure, Ack, HandsOver, historyVars
  <1>5. ASSUME NEW w \in Workers, GiveUp(w) PROVE Buries(msg[w])
    <2>1. HandedOver' = HandedOver \ {msg[w]} /\ msg[w] \in HandedOver
      BY <1>0, <1>5, HandOver DEF GiveUp, Return, Step, Handle, Goto, At, Handover
    <2>2. stream[msg[w]].attempt = MaxAttempts
      BY <1>5 DEF GiveUp, At, HolderInv, Holds
    <2>3. QED BY <1>5, <2>1, <2>2 DEF GiveUp, DeadLetter, Buries, historyVars
  <1>6. ASSUME NEW w \in Workers, Retry(w) PROVE Resubmits(msg[w])
    <2>1. HandedOver' = HandedOver \ {msg[w]} /\ msg[w] \in HandedOver
      BY <1>0, <1>6, HandOver DEF Retry, Return, Step, Handle, Goto, At, Handover
    <2>2. stream[msg[w]].attempt < MaxAttempts
      BY <1>6 DEF Retry, At, QueueShape, HeldInv, Held
    <2>3. QED BY <1>6, <2>1, <2>2 DEF Retry, Enqueue, Resubmits, historyVars
  <1>7. ASSUME NEW w \in Workers, Crash(w) PROVE Loses(msg[w]) \/ Stays
    <2>1. CASE pc[w] \in Handover
      <3>1. HandedOver' = HandedOver \ {msg[w]} /\ msg[w] \in HandedOver
        BY <1>0, <1>7, <2>1, HandOver DEF Crash, Handover
      <3>2. QED BY <1>7, <2>1, <3>1 DEF Crash, Loses, queueVars
    <2>2. CASE pc[w] \notin Handover
      <3>1. HandedOver' = HandedOver
        BY <1>0, <1>7, <2>2, HandOver DEF Crash, Handover
      <3>2. QED BY <1>7, <2>2, <3>1 DEF Crash, Stays
    <2>3. QED BY <2>1, <2>2
  <1>8. ASSUME NEW w \in Workers,
               \/ RunTask(w) \/ Raise(w) \/ RejectEvent(w) \/ AppendEvent(w) \/ ReadStatus(w)
               \/ CommitResult(w) \/ RunJudges(w) \/ AppendVerdict(w) \/ Restart(w)
        PROVE  Stays
    <2>1. pc[w] \notin Handover /\ pc'[w] \notin Handover
      BY <1>0, <1>8 DEF RunTask, Raise, RejectEvent, AppendEvent, ReadStatus, CommitResult, RunJudges,
         AppendVerdict, Restart, At, Goto, Handover
    <2>2. HandedOver' = HandedOver
      BY <1>8, <2>1, HandOver DEF Step, Handle
    <2>3. QED BY <1>8, <2>2 DEF RunTask, Raise, RejectEvent, AppendEvent, ReadStatus, CommitResult, RunJudges,
         AppendVerdict, Restart, Stays, historyVars
  <1>9. ASSUME NEW w \in Workers, pc[w] \in Handling PROVE msg[w] \in Ids
    BY <1>9, HeldMessage DEF Ids
  <1>10. QED BY <1>0, <1>1, <1>2, <1>3, <1>4, <1>5, <1>6, <1>7, <1>8
        DEF Next, Step, Handle, Completes, HandsOver, Buries, Resubmits, Loses

-----------------------------------------------------------------------------
\* JobsInv is inductive.

\* A payload m is appended to the stream, as message n.
Adds(n, m) ==
  /\ n \in Nat /\ n > delivered /\ n \notin Ids
  /\ Ids' = Ids \cup {n} /\ Undelivered' = Undelivered \cup {n}
  /\ stream'[n] = m
  /\ \A i \in Ids : i \in Nat /\ i < n /\ stream'[i] = stream[i]

LEMMA Appended ==
  ASSUME QueueShape, NEW m \in EvaluationJob, stream' = Append(stream, m), delivered' = delivered
  PROVE  \E n : Adds(n, m)
  <1>1. stream \in Seq(EvaluationJob) /\ Len(stream) \in Nat /\ delivered \in Nat /\ delivered <= Len(stream)
    BY Types
  <1>2. Len(stream') = Len(stream) + 1 /\ stream'[Len(stream) + 1] = m
        /\ \A i \in 1..Len(stream) : stream'[i] = stream[i]
    BY <1>1
  <1>3. Adds(Len(stream) + 1, m)
    BY <1>1, <1>2 DEF Ids, Undelivered, Adds
  <1>4. QED BY <1>3

LEMMA LatestIsOne ==
  ASSUME QueueShape, NEW i \in Ids, NEW k \in Ids, Latest(i), Latest(k), stream[i].job = stream[k].job
  PROVE  i = k
  <1>1. i <= k /\ k <= i
    BY DEF Latest
  <1>2. i \in Nat /\ k \in Nat
    BY Types
  <1>3. QED BY <1>1, <1>2

\* The stream stays: what is said of the latest messages stays.
LEMMA SameStream ==
  ASSUME stream' = stream
  PROVE  /\ Ids' = Ids
         /\ \A i : Latest(i)' = Latest(i)
         /\ \A j : Submitted(j)' = Submitted(j) /\ Tries(j)' = Tries(j)
  BY DEF Ids, Latest, Submitted, Tries

\* A message with a new number: it is the latest of its job, and the others stay
\* the latest of theirs.
LEMMA NewLatest ==
  ASSUME NEW n, NEW m, Adds(n, m)
  PROVE  /\ Latest(n)'
         /\ \A i \in Ids : Latest(i)' <=> Latest(i) /\ stream[i].job # m.job
         /\ \A j : Submitted(j)' <=> Submitted(j) \/ j = m.job
         /\ \A j : j # m.job => Tries(j)' = Tries(j)
         /\ Tries(m.job)' = Tries(m.job) \cup {m.attempt}
  <1>3. Latest(n)'
    BY DEF Latest, Adds
  <1>4. ASSUME NEW i \in Ids PROVE Latest(i)' <=> Latest(i) /\ stream[i].job # m.job
    <2>1. ASSUME Latest(i)' PROVE Latest(i) /\ stream[i].job # m.job
      BY <2>1 DEF Latest, Adds
    <2>2. ASSUME Latest(i), stream[i].job # m.job PROVE Latest(i)'
      BY <2>2 DEF Latest, Adds
    <2>3. QED BY <2>1, <2>2
  <1>5. \A j : Submitted(j)' <=> Submitted(j) \/ j = m.job
    BY DEF Submitted, Adds
  <1>6. Tries(m.job)' = Tries(m.job) \cup {m.attempt}
    BY DEF Tries, Adds
  <1>7. \A j : j # m.job => Tries(j)' = Tries(j)
    BY DEF Tries, Adds
  <1>8. QED BY <1>3, <1>4, <1>5, <1>6, <1>7

\* Steps that only carry a message from one place to another.
LEMMA CarriedJobs ==
  ASSUME QueueShape, JobsInv, stream' = stream, dead' = dead, Live' = Live, Apart'
  PROVE  JobsInv'
  BY SameStream DEF JobsInv, LiveInv, DeadInv, AttemptsInv, DeadLettered

LEMMA RetriedJob ==
  ASSUME NEW m \in EvaluationJob, m.attempt < MaxAttempts
  PROVE  /\ Retried(m) \in EvaluationJob /\ Retried(m).job = m.job
         /\ m.attempt \in Nat \ {0} /\ Retried(m).attempt = m.attempt + 1
  BY QueueAssumption DEF QueueAssumption, Retried, EvaluationJob

\* A new message takes the place of the live one of its job, if there is one.
LEMMA NewLive ==
  ASSUME LiveInv, NEW n, NEW m, m.job \in Jobs, Adds(n, m), NEW old,
         ~DeadLettered(m.job),
         Live' = (Live \ old) \cup {n},
         \A k \in old : k \in Ids => stream[k].job = m.job,
         \A k \in Live \ old : k \in Ids /\ stream[k].job # m.job,
         dead' = dead
  PROVE  LiveInv'
  <1>1. /\ Latest(n)'
        /\ \A k \in Ids : Latest(k)' <=> Latest(k) /\ stream[k].job # m.job
        /\ \A j : Submitted(j)' <=> Submitted(j) \/ j = m.job
    BY NewLatest
  <1>2. /\ n \in Ids' /\ stream'[n] = m
        /\ \A k \in Ids' : k = n \/ k \in Ids
        /\ \A k \in Ids : k \in Ids' /\ stream'[k] = stream[k]
    BY DEF Adds
  <1>3. \A k \in Live' : Latest(k)' /\ ~DeadLettered(stream[k].job)'
    <2> SUFFICES ASSUME NEW k \in Live' PROVE Latest(k)' /\ ~DeadLettered(stream[k].job)'
      OBVIOUS
    <2>1. CASE k = n BY <1>1, <1>2, <2>1 DEF DeadLettered
    <2>2. CASE k \in Live \ old BY <1>1, <1>2, <2>2 DEF LiveInv, DeadLettered
    <2>3. QED BY <2>1, <2>2
  <1>4. \A k \in Ids' : Latest(k)' => k \in Live' \/ DeadLettered(stream[k].job)'
    BY <1>1, <1>2 DEF LiveInv, DeadLettered
  <1>5. \A j \in Jobs : Submitted(j)' => \E k \in Ids' : stream'[k].job = j /\ Latest(k)'
    BY <1>1, <1>2 DEF LiveInv
  <1>6. QED BY <1>3, <1>4, <1>5 DEF LiveInv

LEMMA NewTries ==
  ASSUME AttemptsInv, NEW n, NEW m, Adds(n, m), Tries(m.job)' = 1..m.attempt
  PROVE  AttemptsInv'
  <1>1. /\ \A k \in Ids : Latest(k)' => Latest(k) /\ stream[k].job # m.job
        /\ \A j : j # m.job => Tries(j)' = Tries(j)
    BY NewLatest
  <1>2. ASSUME NEW k \in Ids', Latest(k)', NEW j, j = stream'[k].job
        PROVE  Tries(j)' = 1..stream'[k].attempt
    <2>1. CASE k = n
      BY <1>2, <2>1 DEF Adds
    <2>2. CASE k \in Ids
      BY <1>1, <1>2, <2>2 DEF Adds, AttemptsInv
    <2>3. QED BY <2>1, <2>2 DEF Adds
  <1>3. QED BY <1>2 DEF AttemptsInv, Tries

LEMMA StepJobs ==
  ASSUME QueueShape, JobsInv, HolderInv, Next
  PROVE  JobsInv'
  <1>0. /\ delivered \in Nat /\ Len(stream) \in Nat
        /\ pending \subseteq 1..delivered /\ done \subseteq 1..delivered /\ lost \subseteq 1..delivered
        /\ HandedOver \subseteq 1..delivered
    BY Types
  <1>1. CASE Stays
    <2>1. Live' = Live
      BY <1>1 DEF Stays, queueVars, Live, Undelivered
    <2>2. QED BY <1>1, <2>1, CarriedJobs DEF Stays, queueVars, JobsInv, Apart
  <1>2. CASE Delivers
    <2>1. delivered + 1 \notin 1..delivered /\ Undelivered = Undelivered' \cup {delivered + 1}
      BY <1>0, <1>2 DEF Delivers, Undelivered
    <2>2. Live' = Live
      BY <1>2, <2>1 DEF Delivers, Live
    <2>3. Apart'
      BY <1>0, <1>2, <2>1 DEF Delivers, JobsInv, Apart
    <2>4. QED BY <1>2, <2>2, <2>3, CarriedJobs DEF Delivers
  <1>3. ASSUME NEW i \in Ids, Completes(i) \/ HandsOver(i) \/ Loses(i)
        PROVE  JobsInv'
    <2>1. Live' = Live
      BY <1>3 DEF Completes, HandsOver, Loses, Live, Undelivered
    <2>2. Apart'
      BY <1>3 DEF Completes, HandsOver, Loses, JobsInv, Apart
    <2>3. QED BY <1>3, <2>1, <2>2, CarriedJobs DEF Completes, HandsOver, Loses
  <1>4. ASSUME NEW i \in Ids, Buries(i)
        PROVE  JobsInv'
    <2>0. /\ i \in Live /\ Latest(i) /\ ~DeadLettered(stream[i].job)
          /\ stream[i] \in EvaluationJob /\ dead \in Seq(EvaluationJob)
      BY <1>4, Types DEF Buries, Live, JobsInv, LiveInv
    <2>1. Live' = Live \ {i}
      <3>1. i \notin Undelivered
        BY <1>0, <1>4 DEF Buries, Undelivered
      <3>2. QED BY <1>4, <3>1 DEF Buries, Live, Undelivered, JobsInv, Apart
    <2>2. /\ DOMAIN dead' = DOMAIN dead \cup {Len(dead) + 1}
          /\ Len(dead) + 1 \notin DOMAIN dead
          /\ dead'[Len(dead) + 1] = stream[i]
          /\ \A d \in DOMAIN dead : dead'[d] = dead[d]
      BY <1>4, <2>0 DEF Buries
    <2>3. \A j : DeadLettered(j)' <=> DeadLettered(j) \/ j = stream[i].job
      BY <2>2 DEF DeadLettered
    <2>4. stream' = stream /\ Apart'
      BY <1>4 DEF Buries, JobsInv, Apart
    <2>5. \A k \in Live' : stream[k].job # stream[i].job
      BY <2>0, <2>1, LatestIsOne, Types DEF JobsInv, LiveInv
    <2>6. LiveInv'
      BY <2>0, <2>1, <2>3, <2>4, <2>5, SameStream DEF JobsInv, LiveInv
    <2>7. DeadInv'
      <3>1. Submitted(stream[i].job)
        BY DEF Submitted
      <3>2. QED BY <2>0, <2>2, <2>4, <3>1, SameStream DEF JobsInv, DeadInv, DeadLettered
    <2>8. AttemptsInv'
      BY <2>4, SameStream DEF JobsInv, AttemptsInv
    <2>9. QED BY <2>4, <2>6, <2>7, <2>8 DEF JobsInv
  <1>5. ASSUME NEW i \in Ids, Resubmits(i)
        PROVE  JobsInv'
    <2>0. /\ i \in Live /\ Latest(i) /\ ~DeadLettered(stream[i].job)
          /\ stream[i] \in EvaluationJob /\ i \in Nat /\ stream[i].job \in Jobs
      BY <1>5, Types DEF Resubmits, Live, JobsInv, LiveInv
    <2> PICK m : m = Retried(stream[i])
      OBVIOUS
    <2>1. /\ m \in EvaluationJob /\ m.job = stream[i].job /\ m.attempt = stream[i].attempt + 1
          /\ stream[i].attempt \in Nat \ {0}
      BY <1>5, <2>0, RetriedJob DEF Resubmits
    <2>3. stream' = Append(stream, m) /\ delivered' = delivered
      BY <1>5 DEF Resubmits
    <2>4. PICK n : Adds(n, m)
      BY <2>1, <2>3, Appended
    <2>5. /\ Latest(n)'
          /\ \A k \in Ids : Latest(k)' <=> Latest(k) /\ stream[k].job # m.job
          /\ \A j : Submitted(j)' <=> Submitted(j) \/ j = m.job
          /\ \A j : j # m.job => Tries(j)' = Tries(j)
          /\ Tries(m.job)' = Tries(m.job) \cup {m.attempt}
      BY <2>4, NewLatest
    <2>6. Live' = (Live \ {i}) \cup {n}
      <3>1. i \notin Undelivered
        BY <1>0, <1>5 DEF Resubmits, Undelivered
      <3>2. QED BY <1>5, <2>4, <3>1 DEF Resubmits, Live, JobsInv, Apart, Adds
    <2>7. dead' = dead
      BY <1>5 DEF Resubmits
    <2>8. \A k \in Live \ {i} : k \in Ids /\ stream[k].job # stream[i].job
      BY <2>0, LatestIsOne, Types DEF JobsInv, LiveInv
    <2>9. Apart'
      BY <1>5 DEF Resubmits, JobsInv, Apart
    <2>10. LiveInv'
      <3>1. PICK old : old = {i}
        OBVIOUS
      <3>2. /\ LiveInv /\ m.job \in Jobs /\ ~DeadLettered(m.job)
            /\ \A k \in old : k \in Ids => stream[k].job = m.job
            /\ \A k \in Live \ old : k \in Ids /\ stream[k].job # m.job
            /\ Live' = (Live \ old) \cup {n}
        BY <2>0, <2>1, <2>6, <2>8, <3>1 DEF JobsInv
      <3>3. QED BY <2>4, <2>7, <3>2, NewLive
    <2>11. DeadInv'
      <3>1. \A d \in DOMAIN dead : Submitted(dead[d].job)
        BY DEF JobsInv, DeadInv
      <3>2. \A d \in DOMAIN dead' : Submitted(dead[d].job)'
        BY <2>4, <2>7, <3>1 DEF Submitted, Adds
      <3>3. QED BY <2>7, <3>2 DEF JobsInv, DeadInv
    <2>12. AttemptsInv'
      <3>1. Tries(m.job) = 1..stream[i].attempt
        BY <2>0, <2>1 DEF JobsInv, AttemptsInv
      <3>2. Tries(m.job)' = 1..m.attempt
        BY <2>1, <2>5, <3>1
      <3>3. QED BY <2>4, <2>5, <3>2, NewTries DEF JobsInv
    <2>13. QED BY <2>9, <2>10, <2>11, <2>12 DEF JobsInv
  <1>6. ASSUME NEW j \in Jobs, Submits(j)
        PROVE  JobsInv'
    <2> PICK m : m = [job |-> j, attempt |-> 1]
      OBVIOUS
    <2>1. m \in EvaluationJob /\ m.job = j /\ m.attempt = 1
      BY QueueAssumption DEF QueueAssumption, EvaluationJob
    <2>2. PICK n : Adds(n, m)
      BY <1>6, <2>1, Appended DEF Submits
    <2> PICK none : none = {}
      OBVIOUS
    <2>3. Live' = (Live \ none) \cup {n}
      BY <1>6, <2>2 DEF Submits, Live, Adds
    <2>4. Apart'
      BY <1>6 DEF Submits, JobsInv, Apart
    <2>5. LiveInv'
      <3>1. ~DeadLettered(j) /\ \A k \in Ids : stream[k].job # j
        BY <1>6 DEF Submits, JobsInv, DeadInv, DeadLettered, Submitted
      <3>2. \A k \in Live \ none : k \in Ids /\ stream[k].job # m.job
        BY <2>1, <3>1, Types
      <3>3. dead' = dead /\ LiveInv /\ m.job \in Jobs /\ ~DeadLettered(m.job)
        BY <1>6, <2>1, <3>1 DEF Submits, JobsInv
      <3>4. /\ LiveInv /\ m.job \in Jobs /\ ~DeadLettered(m.job)
            /\ \A k \in none : k \in Ids => stream[k].job = m.job
            /\ \A k \in Live \ none : k \in Ids /\ stream[k].job # m.job
            /\ Live' = (Live \ none) \cup {n}
        BY <2>3, <3>2, <3>3
      <3>5. QED BY <2>2, <3>3, <3>4, NewLive
    <2>6. DeadInv'
      <3>1. dead' = dead /\ DeadInv
        BY <1>6 DEF Submits, JobsInv
      <3>2. \A d \in DOMAIN dead' : Submitted(dead[d].job)'
        BY <2>2, <3>1 DEF DeadInv, Submitted, Adds
      <3>3. QED BY <3>1, <3>2 DEF DeadInv
    <2>7. AttemptsInv'
      <3>1. Tries(m.job) = {}
        BY <1>6, <2>1 DEF Submits, Submitted, Tries
      <3>2. Tries(m.job)' = 1..m.attempt
        BY <2>1, <2>2, <3>1, NewLatest
      <3>3. QED BY <2>2, <3>2, NewTries DEF JobsInv
    <2>8. QED BY <2>4, <2>5, <2>6, <2>7 DEF JobsInv
  <1>7. QED BY <1>1, <1>2, <1>3, <1>4, <1>5, <1>6, StepMoves

-----------------------------------------------------------------------------
\* HolderInv is inductive.

LEMMA StepHolder ==
  ASSUME QueueShape, HolderInv, Next
  PROVE  HolderInv'
  <1>0. /\ pc \in [Workers -> PC] /\ msg \in [Workers -> 0..delivered] /\ delivered \in Nat
    BY Types
  <1>1. ASSUME NEW v \in Workers, pc[v] \in Handling
        PROVE  msg[v] \in 1..delivered /\ stream'[msg[v]] = stream[msg[v]] /\ stream[msg[v]] \in EvaluationJob
    BY <1>1, HeldMessage, StreamGrows
  <1>2. ASSUME NEW v \in Workers, pc'[v] = pc[v], msg'[v] = msg[v],
               pc[v] \in Working => msg[v] \in pending'
        PROVE  Holds(v)'
    <2>1. Holds(v)
      BY DEF HolderInv
    <2>2. pc[v] = "deadletter" => stream'[msg[v]] = stream[msg[v]]
      BY <1>1 DEF Handling, PC
    <2>3. QED BY <1>2, <2>1, <2>2 DEF Holds
  <1>3. ASSUME NEW w \in Workers, Step(w) \/ Crash(w) \/ Restart(w), NEW v \in Workers, v # w
        PROVE  Holds(v)'
    <2>1. pc'[v] = pc[v] /\ msg'[v] = msg[v]
      BY <1>3, OneWorkerAtATime DEF SameWorker
    <2>2. pc[v] \in Working => msg[v] \in pending'
      <3>1. CASE pending \subseteq pending'
        BY <3>1 DEF HolderInv, Holds
      <3>2. CASE AckSuccess(w) \/ AckFailure(w)
        <4>1. pending' = pending \ {msg[w]} /\ pc[w] \in Handling
          BY <3>2 DEF AckSuccess, AckFailure, Ack, At, Handling, PC
        <4>2. pc[v] \in Working => msg[v] # msg[w]
          BY <1>3, <4>1 DEF QueueShape, ExclusiveInv, Working
        <4>3. QED BY <4>1, <4>2 DEF HolderInv, Holds
      <3>3. pending \subseteq pending' \/ AckSuccess(w) \/ AckFailure(w)
        BY <1>3 DEF Step, Handle, ClaimJob, Claim, RunTask, Raise, RejectEvent, AppendEvent, ReadStatus,
           CommitResult, RunJudges, AppendVerdict, GiveUp, DeadLetter, Retry, Enqueue, Crash, Restart, queueVars
      <3>4. QED BY <3>1, <3>2, <3>3
    <2>3. QED BY <1>2, <2>1, <2>2
  <1>4. ASSUME NEW w \in Workers, Step(w) \/ Crash(w) \/ Restart(w)
        PROVE  Holds(w)'
    <2>1. CASE ClaimJob(w)
      BY <1>0, <2>1 DEF ClaimJob, Claim, Goto, Holds
    <2>2. CASE AckFailure(w)
      <3>1. /\ pc'[w] = IF Exhausted(stream[msg[w]]) THEN "deadletter" ELSE "backoff"
            /\ msg'[w] = msg[w] /\ stream' = stream /\ pc[w] \in Handling
        BY <1>0, <2>2 DEF AckFailure, Ack, Goto, At, Handling, PC
      <3>2. Exhausted(stream[msg[w]]) => stream[msg[w]].attempt = MaxAttempts
        BY <1>1, <3>1, QueueAssumption DEF QueueAssumption, Exhausted, EvaluationJob
      <3>3. QED BY <3>1, <3>2 DEF Holds, Working, Handover
    <2>3. CASE AckSuccess(w) \/ GiveUp(w) \/ Retry(w) \/ Crash(w) \/ Restart(w)
      BY <1>0, <2>3 DEF AckSuccess, GiveUp, Retry, Crash, Restart, Return, Goto, Holds, Working, Handling
    <2>4. CASE \/ RunTask(w) \/ Raise(w) \/ RejectEvent(w) \/ AppendEvent(w) \/ ReadStatus(w)
               \/ CommitResult(w) \/ RunJudges(w) \/ AppendVerdict(w)
      <3>1. pc[w] \in Working /\ pc'[w] \in Working /\ msg'[w] = msg[w] /\ pending' = pending
        BY <1>0, <2>4 DEF RunTask, Raise, RejectEvent, AppendEvent, ReadStatus, CommitResult, RunJudges,
           AppendVerdict, At, Goto, queueVars, Working, Handover, Handling, PC
      <3>2. QED BY <3>1 DEF HolderInv, Holds, Working, Handover
    <2>5. QED BY <1>4, <2>1, <2>2, <2>3, <2>4 DEF Step, Handle
  <1>5. ASSUME NEW j \in Jobs, Submit(j), NEW v \in Workers
        PROVE  Holds(v)'
    BY <1>2, <1>5, SubmitKeepsWorkers DEF Submit, Enqueue, SameWorker, HolderInv, Holds
  <1>6. QED BY <1>3, <1>4, <1>5 DEF Next, HolderInv

LEMMA InitPlace == Init => PlaceInv
  BY DEF Init, QueueInit, PlaceInv, JobsInv, Apart, LiveInv, DeadInv, AttemptsInv, HolderInv, Holds, HandedOver,
     Live, Undelivered, Ids, Submitted, Working, Handling, Handover

LEMMA StepPlace == ASSUME QueueShape, PlaceInv, [Next]_vars PROVE PlaceInv'
  <1>1. CASE Next
    BY <1>1, StepJobs, StepHolder DEF PlaceInv
  <1>2. CASE UNCHANGED vars
    <2>1. UNCHANGED <<queueVars, pc, msg, done, lost>>
      BY <1>2 DEF vars, workerVars, historyVars
    <2>2. HolderInv'
      BY <2>1 DEF queueVars, PlaceInv, HolderInv, Holds
    <2>3. stream' = stream /\ dead' = dead /\ Live' = Live /\ Apart'
      BY <2>1 DEF queueVars, Live, HandedOver, Undelivered, PlaceInv, JobsInv, Apart
    <2>4. QED BY <2>2, <2>3, CarriedJobs DEF PlaceInv
  <1>3. QED BY <1>1, <1>2

THEOREM PlaceInductive == Spec => [](QueueShape /\ PlaceInv)
  BY InitShape, InitPlace, StepShape, StepPlace, PTL DEF Spec

-----------------------------------------------------------------------------
\* A job is in one place.

LEMMA PlacesOf ==
  ASSUME NEW j
  PROVE  /\ \A i : <<"stream", i>> \in Places(j) <=> i \in Undelivered /\ stream[i].job = j
         /\ \A i : <<"pending", i>> \in Places(j) <=> i \in pending /\ stream[i].job = j
         /\ \A i : <<"worker", i>> \in Places(j) <=> i \in HandedOver /\ stream[i].job = j
         /\ \A i : <<"dead", i>> \in Places(j) <=> i \in DOMAIN dead /\ dead[i].job = j
         /\ \A i : <<"done", i>> \in Places(j) <=> i \in done /\ stream[i].job = j
         /\ \A i : <<"lost", i>> \in Places(j) <=> i \in lost /\ stream[i].job = j
         /\ \A p \in Places(j) :
              \E kind \in {"stream", "pending", "worker", "dead", "done", "lost"} : \E i : p = <<kind, i>>
  BY DEF Places, HandedOver

\* From its enqueue on, a job is in exactly one place.
THEOREM OnePlace == Spec => []JobInOnePlace
  <1>1. ASSUME QueueShape, PlaceInv, NEW j \in Jobs, Submitted(j)
        PROVE  \E p \in Places(j) : Places(j) = {p}
    <2>1. PICK i \in Ids : stream[i].job = j /\ Latest(i)
      BY <1>1 DEF PlaceInv, JobsInv, LiveInv
    <2>2. \A k \in Live : stream[k].job = j => k = i /\ ~DeadLettered(j)
      BY <1>1, <2>1, LatestIsOne, Types DEF PlaceInv, JobsInv, LiveInv
    <2>3. CASE DeadLettered(j)
      <3>1. PICK d \in DOMAIN dead : dead[d].job = j
        BY <2>3 DEF DeadLettered
      <3>2. \A k : k \in DOMAIN dead /\ dead[k].job = j => k = d
        BY <1>1, <3>1 DEF PlaceInv, JobsInv, DeadInv
      <3>3. \A p \in Places(j) : p = <<"dead", d>>
        BY <2>2, <2>3, <3>2, PlacesOf DEF Live
      <3>4. <<"dead", d>> \in Places(j)
        BY <3>1, PlacesOf
      <3>5. QED BY <3>3, <3>4
    <2>4. CASE ~DeadLettered(j)
      <3>1. \A d : <<"dead", d>> \notin Places(j)
        BY <2>4, PlacesOf DEF DeadLettered
      <3>2. i \in Live
        BY <1>1, <2>1, <2>4 DEF PlaceInv, JobsInv, LiveInv
      <3>3. ASSUME NEW p \in Places(j)
            PROVE  \E kind \in {"stream", "pending", "worker", "done", "lost"} : p = <<kind, i>>
        BY <2>2, <3>1, PlacesOf DEF Live
      <3>4. \A kind, other \in {"stream", "pending", "worker", "done", "lost"} :
              <<kind, i>> \in Places(j) /\ <<other, i>> \in Places(j) => kind = other
        <4>1. i \in Undelivered => i \notin pending \cup HandedOver \cup done \cup lost
          BY <1>1, Types DEF Undelivered
        <4>2. Apart
          BY <1>1 DEF PlaceInv, JobsInv
        <4>3. QED BY <4>1, <4>2, PlacesOf DEF Apart
      <3>5. \E kind \in {"stream", "pending", "worker", "done", "lost"} : <<kind, i>> \in Places(j)
        BY <2>1, <3>2, PlacesOf DEF Live
      <3>6. QED BY <3>3, <3>4, <3>5
    <2>5. QED BY <2>3, <2>4
  <1>2. QueueShape /\ PlaceInv => JobInOnePlace
    BY <1>1 DEF JobInOnePlace
  <1>3. QED BY <1>2, PlaceInductive, PTL

-----------------------------------------------------------------------------
\* The life of a job.

LivePhase(i) ==
  IF i \in Undelivered THEN "queued"
  ELSE IF i \in pending THEN "running"
  ELSE IF i \in done THEN "done" ELSE "between"

\* The phase of a job is that of its live message, if it has one.
PhasesInv ==
  /\ \A i \in Live : \A j : stream[i].job = j => PhaseOf(j) = LivePhase(i)
  /\ \A j : DeadLettered(j) /\ Submitted(j) => PhaseOf(j) = "dead"
  /\ \A j : ~Submitted(j) => PhaseOf(j) = "new"
  /\ \A j \in Jobs : Submitted(j) => DeadLettered(j) \/ \E i \in Live : stream[i].job = j

LEMMA Phases == QueueShape /\ JobsInv => PhasesInv
  <1> SUFFICES ASSUME QueueShape, JobsInv
      PROVE  PhasesInv
    OBVIOUS
  <1>1. ASSUME NEW i \in Live, NEW j, stream[i].job = j
        PROVE  PhaseOf(j) = LivePhase(i)
    <2>1. i \in Ids /\ Latest(i) /\ ~DeadLettered(j)
      BY <1>1, Types DEF JobsInv, LiveInv
    <2>2. \A k \in Live : stream[k].job = j => k = i
      BY <1>1, <2>1, LatestIsOne, Types DEF JobsInv, LiveInv
    <2>3. Submitted(j)
      BY <1>1, <2>1 DEF Submitted
    <2>4. /\ (\E k \in Undelivered : stream[k].job = j) <=> i \in Undelivered
          /\ (\E k \in pending : stream[k].job = j) <=> i \in pending
          /\ (\E k \in done : stream[k].job = j) <=> i \in done
      BY <1>1, <2>2 DEF Live
    <2>5. i \in Undelivered => i \notin pending /\ i \notin done
      BY Types DEF Undelivered
    <2>6. ~(i \in pending /\ i \in done)
      BY DEF JobsInv, Apart
    <2>7. QED BY <2>1, <2>3, <2>4, <2>5, <2>6 DEF PhaseOf, LivePhase, DeadLettered
  <1>2. ASSUME NEW j, DeadLettered(j), Submitted(j)
        PROVE  PhaseOf(j) = "dead"
    <2>1. \A k \in Live : stream[k].job # j
      BY <1>2 DEF JobsInv, LiveInv
    <2>2. QED BY <1>2, <2>1 DEF PhaseOf, Live, DeadLettered
  <1>3. \A j : ~Submitted(j) => PhaseOf(j) = "new"
    <2>1. ASSUME NEW j, ~Submitted(j)
          PROVE  /\ \A i \in Undelivered \cup pending \cup done : stream[i].job # j
                 /\ \A d \in DOMAIN dead : dead[d].job # j
      BY <2>1, Types DEF Submitted, Live, JobsInv, DeadInv
    <2>2. QED BY <2>1 DEF PhaseOf
  <1>4. ASSUME NEW j \in Jobs, Submitted(j)
        PROVE  DeadLettered(j) \/ \E i \in Live : stream[i].job = j
    BY <1>4 DEF JobsInv, LiveInv
  <1>5. QED BY <1>1, <1>2, <1>3, <1>4 DEF PhasesInv

\* Job j goes from one phase to another, and the other jobs stay in theirs.
Goes(j, from, to) ==
  /\ PhaseOf(j) = from /\ PhaseOf(j)' = to
  /\ \A k \in Jobs : k # j => PhaseOf(k)' = PhaseOf(k)

LEMMA GoesMoves ==
  ASSUME NEW j \in Jobs, NEW from, NEW to, Goes(j, from, to)
  PROVE  Lifecycle!Move(j, from, to)
  BY DEF Goes, Lifecycle!Move

LEMMA PhaseStays ==
  ASSUME PhasesInv, PhasesInv', NEW k \in Jobs,
         Submitted(k)' <=> Submitted(k),
         DeadLettered(k) => DeadLettered(k)',
         \A i \in Live : stream[i].job = k =>
            i \in Live' /\ stream'[i].job = k /\ LivePhase(i)' = LivePhase(i)
  PROVE  PhaseOf(k)' = PhaseOf(k)
  <1>1. CASE ~Submitted(k)
    BY <1>1 DEF PhasesInv
  <1>2. CASE Submitted(k) /\ DeadLettered(k)
    BY <1>2 DEF PhasesInv
  <1>3. CASE Submitted(k) /\ ~DeadLettered(k)
    <2>1. PICK i \in Live : stream[i].job = k
      BY <1>3 DEF PhasesInv
    <2>2. PhaseOf(k) = LivePhase(i)
      BY <2>1 DEF PhasesInv
    <2>3. PhaseOf(k)' = LivePhase(i)'
      BY <2>1 DEF PhasesInv
    <2>4. QED BY <2>1, <2>2, <2>3
  <1>4. QED BY <1>1, <1>2, <1>3

\* What every step keeps of the jobs it is not about.
LEMMA OthersStay ==
  ASSUME PhasesInv, PhasesInv', NEW j,
         \A k \in Jobs : k # j => (Submitted(k)' <=> Submitted(k)),
         \A k \in Jobs : k # j /\ DeadLettered(k) => DeadLettered(k)',
         \A i \in Live : stream[i].job # j =>
            i \in Live' /\ stream'[i].job = stream[i].job /\ LivePhase(i)' = LivePhase(i)
  PROVE  \A k \in Jobs : k # j => PhaseOf(k)' = PhaseOf(k)
  BY PhaseStays

\* A job whose message is carried from one place to another.
LEMMA CarriedPhase ==
  ASSUME PhasesInv, PhasesInv', NEW i \in Live, stream[i].job \in Jobs,
         stream' = stream, dead' = dead, i \in Live', Live \subseteq Live',
         \A k \in Live : k # i => LivePhase(k)' = LivePhase(k),
         NEW from, NEW to, LivePhase(i) = from, LivePhase(i)' = to
  PROVE  \E j \in Jobs : Goes(j, from, to)
  <1> PICK j \in Jobs : j = stream[i].job
    OBVIOUS
  <1>1. PhaseOf(j) = from
    BY DEF PhasesInv
  <1>2. PhaseOf(j)' = to
    BY DEF PhasesInv
  <1>3. \A k \in Jobs : k # j => PhaseOf(k)' = PhaseOf(k)
    BY OthersStay, SameStream DEF DeadLettered
  <1>4. QED BY <1>1, <1>2, <1>3 DEF Goes

LEMMA TriesStay ==
  ASSUME stream' = stream
  PROVE  [j \in Jobs |-> {stream[i].attempt : i \in {i \in Ids : stream[i].job = j}}]'
           = [j \in Jobs |-> {stream[i].attempt : i \in {i \in Ids : stream[i].job = j}}]
  BY DEF Ids

LEMMA TriesBecome ==
  ASSUME NEW j \in Jobs, NEW S, Tries(j)' = S, \A k \in Jobs : k # j => Tries(k)' = Tries(k)
  PROVE  [k \in Jobs |-> {stream[i].attempt : i \in {i \in Ids : stream[i].job = k}}]'
           = [[k \in Jobs |-> {stream[i].attempt : i \in {i \in Ids : stream[i].job = k}}] EXCEPT ![j] = S]
  BY DEF Tries

LEMMA StepLife ==
  ASSUME QueueShape, PlaceInv, Next, PhasesInv'
  PROVE  Lifecycle!Next \/ UNCHANGED Lifecycle!vars
  <1>0. /\ delivered \in Nat /\ Len(stream) \in Nat /\ delivered <= Len(stream)
        /\ pending \subseteq 1..delivered /\ done \subseteq 1..delivered /\ lost \subseteq 1..delivered
        /\ HandedOver \subseteq 1..delivered
        /\ PhasesInv /\ JobsInv /\ Apart
    BY Types, Phases DEF PlaceInv, JobsInv
  <1>1. CASE Stays
    <2>1. stream' = stream /\ dead' = dead /\ Live' = Live /\ \A i : LivePhase(i)' = LivePhase(i)
      BY <1>1 DEF Stays, queueVars, Live, Undelivered, LivePhase
    <2>2. \A k \in Jobs : PhaseOf(k)' = PhaseOf(k)
      BY <1>0, <2>1, SameStream, PhaseStays DEF DeadLettered
    <2>3. QED BY <2>1, <2>2, TriesStay DEF Lifecycle!vars
  <1>2. CASE Delivers
    <2> PICK n : n = delivered + 1
      OBVIOUS
    <2>1. /\ n \in Undelivered /\ n \notin Undelivered' /\ n \in pending'
          /\ \A i : i # n => (i \in Undelivered' <=> i \in Undelivered) /\ (i \in pending' <=> i \in pending)
          /\ stream' = stream /\ dead' = dead /\ done' = done
      BY <1>0, <1>2 DEF Delivers, Undelivered
    <2>2. n \in Live /\ n \in Live' /\ Live \subseteq Live'
      BY <1>2, <2>1 DEF Delivers, Live
    <2>3. /\ LivePhase(n) = "queued" /\ LivePhase(n)' = "running"
          /\ \A k \in Live : k # n => LivePhase(k)' = LivePhase(k)
      BY <2>1 DEF LivePhase
    <2>4. stream[n].job \in Jobs
      BY <2>2, Types
    <2>5. \E j \in Jobs : Goes(j, "queued", "running")
      BY <1>0, <2>1, <2>2, <2>3, <2>4, CarriedPhase
    <2>6. QED BY <2>1, <2>5, GoesMoves, TriesStay DEF Lifecycle!Start, Lifecycle!Next
  <1>3. ASSUME NEW i \in Ids, Completes(i)
        PROVE  Lifecycle!Next
    <2>1. /\ i \in pending /\ i \notin pending' /\ i \in done' /\ i \notin Undelivered /\ i \notin done
          /\ \A k : k # i => (k \in done' <=> k \in done) /\ (k \in pending' <=> k \in pending)
          /\ stream' = stream /\ dead' = dead /\ Undelivered' = Undelivered
      BY <1>0, <1>3 DEF Completes, Undelivered, Apart
    <2>2. i \in Live /\ i \in Live' /\ Live \subseteq Live'
      BY <1>3, <2>1 DEF Completes, Live
    <2>3. /\ LivePhase(i) = "running" /\ LivePhase(i)' = "done"
          /\ \A k \in Live : k # i => LivePhase(k)' = LivePhase(k)
      BY <2>1 DEF LivePhase
    <2>4. stream[i].job \in Jobs
      BY <2>2, Types
    <2>5. \E j \in Jobs : Goes(j, "running", "done")
      BY <1>0, <2>1, <2>2, <2>3, <2>4, CarriedPhase
    <2>6. QED BY <2>1, <2>5, GoesMoves, TriesStay DEF Lifecycle!Succeed, Lifecycle!Next
  <1>4. ASSUME NEW i \in Ids, HandsOver(i)
        PROVE  Lifecycle!Next
    <2>1. /\ i \in pending /\ i \notin pending' /\ i \notin Undelivered /\ i \notin done
          /\ \A k : k # i => (k \in pending' <=> k \in pending)
          /\ stream' = stream /\ dead' = dead /\ done' = done /\ Undelivered' = Undelivered
      BY <1>0, <1>4 DEF HandsOver, Undelivered, Apart
    <2>2. i \in Live /\ i \in Live' /\ Live \subseteq Live'
      BY <1>4, <2>1 DEF HandsOver, Live
    <2>3. /\ LivePhase(i) = "running" /\ LivePhase(i)' = "between"
          /\ \A k \in Live : k # i => LivePhase(k)' = LivePhase(k)
      BY <2>1 DEF LivePhase
    <2>4. stream[i].job \in Jobs
      BY <2>2, Types
    <2>5. \E j \in Jobs : Goes(j, "running", "between")
      BY <1>0, <2>1, <2>2, <2>3, <2>4, CarriedPhase
    <2>6. QED BY <2>1, <2>5, GoesMoves, TriesStay DEF Lifecycle!Fail, Lifecycle!Next
  <1>5. ASSUME NEW i \in Ids, Loses(i)
        PROVE  UNCHANGED Lifecycle!vars
    <2>1. /\ stream' = stream /\ dead' = dead /\ Live \subseteq Live'
          /\ \A k : LivePhase(k)' = LivePhase(k)
      BY <1>5 DEF Loses, Live, Undelivered, LivePhase
    <2>2. \A k \in Jobs : PhaseOf(k)' = PhaseOf(k)
      BY <1>0, <2>1, SameStream, PhaseStays DEF DeadLettered
    <2>3. QED BY <2>1, <2>2, TriesStay DEF Lifecycle!vars
  <1>6. ASSUME NEW i \in Ids, Buries(i)
        PROVE  Lifecycle!Next
    <2> PICK j : j = stream[i].job
      OBVIOUS
    <2>1. /\ i \in Live /\ j \in Jobs /\ stream[i] \in EvaluationJob /\ stream[i].attempt = MaxAttempts
          /\ i \notin Undelivered /\ i \notin pending /\ i \notin done /\ Latest(i)
          /\ dead \in Seq(EvaluationJob)
      BY <1>0, <1>6, Types DEF Buries, Live, Undelivered, Apart, JobsInv, LiveInv
    <2>2. /\ stream' = stream /\ Live \ {i} \subseteq Live'
          /\ \A k : LivePhase(k)' = LivePhase(k)
      BY <1>6 DEF Buries, Live, Undelivered, LivePhase
    <2>3. /\ \A k : DeadLettered(k) => DeadLettered(k)'
          /\ DeadLettered(j)'
      BY <1>6, <2>1 DEF Buries, DeadLettered
    <2>4. PhaseOf(j) = "between"
      BY <1>0, <2>1 DEF PhasesInv, LivePhase
    <2>5. PhaseOf(j)' = "dead"
      <3>1. Submitted(j)'
        BY <2>2 DEF Submitted, Ids
      <3>2. QED BY <2>3, <3>1 DEF PhasesInv
    <2>6. \A k \in Jobs : k # j => PhaseOf(k)' = PhaseOf(k)
      BY <1>0, <2>2, <2>3, SameStream, OthersStay
    <2>7. Lifecycle!Move(j, "between", "dead")
      BY <2>1, <2>4, <2>5, <2>6, GoesMoves DEF Goes
    <2>8. {stream[k].attempt : k \in {k \in Ids : stream[k].job = j}} = 1..MaxAttempts
      BY <1>0, <2>1 DEF JobsInv, AttemptsInv, Tries
    <2>9. QED BY <2>1, <2>2, <2>7, <2>8, TriesStay DEF Lifecycle!GiveUp, Lifecycle!Next
  <1>7. ASSUME NEW i \in Ids, Resubmits(i)
        PROVE  Lifecycle!Next
    <2> PICK j, m : j = stream[i].job /\ m = Retried(stream[i])
      OBVIOUS
    <2>1. /\ i \in Live /\ j \in Jobs /\ stream[i] \in EvaluationJob /\ stream[i].attempt < MaxAttempts
          /\ i \notin Undelivered /\ i \notin pending /\ i \notin done /\ Latest(i)
      <3>1. i \in HandedOver /\ stream[i].attempt < MaxAttempts
        BY <1>7 DEF Resubmits
      <3>2. i \in 1..delivered
        BY <1>0, <3>1
      <3>3. i \notin Undelivered
        BY <1>0, <3>2 DEF Undelivered
      <3>4. i \in Live /\ i \notin pending /\ i \notin done
        BY <1>0, <3>1 DEF Live, Apart
      <3>5. QED BY <1>0, <3>1, <3>3, <3>4, Types DEF JobsInv, LiveInv
    <2>2. /\ m \in EvaluationJob /\ m.job = j /\ m.attempt = stream[i].attempt + 1
          /\ stream[i].attempt \in Nat \ {0}
      BY <2>1, RetriedJob
    <2>3. PICK n : Adds(n, m)
      BY <1>7, <2>2, Appended DEF Resubmits
    <2>4. /\ \A k : Submitted(k)' <=> Submitted(k) \/ k = j
          /\ \A k : k # j => Tries(k)' = Tries(k)
          /\ Tries(j)' = Tries(j) \cup {m.attempt}
      BY <2>2, <2>3, NewLatest
    <2>5. PhaseOf(j) = "between"
      BY <1>0, <2>1 DEF PhasesInv, LivePhase
    <2>6. PhaseOf(j)' = "queued"
      <3>1. n \in Undelivered' /\ stream'[n].job = j
        BY <2>2, <2>3 DEF Adds
      <3>2. n \in Live' /\ LivePhase(n)' = "queued"
        BY <3>1 DEF Live, LivePhase
      <3>3. QED BY <3>1, <3>2 DEF PhasesInv
    <2>7. \A k \in Jobs : k # j => PhaseOf(k)' = PhaseOf(k)
      <3>1. \A k \in Live : stream[k].job # j =>
              k \in Live' /\ stream'[k].job = stream[k].job /\ LivePhase(k)' = LivePhase(k)
        <4>1. \A k \in Live : k \in Ids
          BY Types
        <4>2. QED BY <1>7, <2>3, <4>1 DEF Resubmits, Adds, Live, LivePhase
      <3>2. \A k \in Jobs : DeadLettered(k) => DeadLettered(k)'
        BY <1>7 DEF Resubmits, DeadLettered
      <3>3. QED BY <1>0, <2>4, <3>1, <3>2, OthersStay
    <2>8. Lifecycle!Move(j, "between", "queued")
      BY <2>1, <2>5, <2>6, <2>7, GoesMoves DEF Goes
    <2>9. Tries(j) = 1..stream[i].attempt /\ Tries(j)' = 1..(stream[i].attempt + 1)
          /\ stream[i].attempt \in 1..(MaxAttempts - 1)
      BY <1>0, <2>1, <2>2, <2>4, QueueAssumption DEF QueueAssumption, JobsInv, AttemptsInv
    <2>10. Lifecycle!Retry(j)
      <3>1. PICK a \in 1..(MaxAttempts - 1) : Tries(j) = 1..a /\ Tries(j)' = 1..(a + 1)
        BY <2>9
      <3>2. \A k \in Jobs : k # j => Tries(k)' = Tries(k)
        BY <2>4
      <3>3. [k \in Jobs |-> {stream[x].attempt : x \in {x \in Ids : stream[x].job = k}}]'
              = [[k \in Jobs |-> {stream[x].attempt : x \in {x \in Ids : stream[x].job = k}}]
                   EXCEPT ![j] = 1..(a + 1)]
        BY <2>1, <3>1, <3>2, TriesBecome
      <3>4. [k \in Jobs |-> {stream[x].attempt : x \in {x \in Ids : stream[x].job = k}}][j] = 1..a
        BY <2>1, <3>1 DEF Tries
      <3>5. QED BY <2>8, <3>1, <3>3, <3>4 DEF Lifecycle!Retry
    <2>11. QED BY <2>1, <2>10 DEF Lifecycle!Next
  <1>8. ASSUME NEW j \in Jobs, Submits(j)
        PROVE  Lifecycle!Next
    <2> PICK m : m = [job |-> j, attempt |-> 1]
      OBVIOUS
    <2>1. m \in EvaluationJob /\ m.job = j /\ m.attempt = 1
      BY QueueAssumption DEF QueueAssumption, EvaluationJob
    <2>2. PICK n : Adds(n, m)
      BY <1>8, <2>1, Appended DEF Submits
    <2>3. /\ \A k : Submitted(k)' <=> Submitted(k) \/ k = j
          /\ \A k : k # j => Tries(k)' = Tries(k)
          /\ Tries(j)' = Tries(j) \cup {1}
      BY <2>1, <2>2, NewLatest
    <2>4. PhaseOf(j) = "new"
      BY <1>0, <1>8 DEF Submits, PhasesInv
    <2>5. PhaseOf(j)' = "queued"
      <3>1. n \in Undelivered' /\ stream'[n].job = j
        BY <2>1, <2>2 DEF Adds
      <3>2. n \in Live' /\ LivePhase(n)' = "queued"
        BY <3>1 DEF Live, LivePhase
      <3>3. QED BY <3>1, <3>2 DEF PhasesInv
    <2>6. \A k \in Jobs : k # j => PhaseOf(k)' = PhaseOf(k)
      <3>1. \A k \in Live : stream[k].job # j =>
              k \in Live' /\ stream'[k].job = stream[k].job /\ LivePhase(k)' = LivePhase(k)
        <4>1. \A k \in Live : k \in Ids
          BY Types
        <4>2. QED BY <1>8, <2>2, <4>1 DEF Submits, Adds, Live, LivePhase
      <3>2. \A k \in Jobs : DeadLettered(k) => DeadLettered(k)'
        BY <1>8 DEF Submits, DeadLettered
      <3>3. QED BY <1>0, <2>3, <3>1, <3>2, OthersStay
    <2>7. Lifecycle!Move(j, "new", "queued")
      BY <2>4, <2>5, <2>6, GoesMoves DEF Goes
    <2>8. Tries(j)' = {1}
      BY <1>8, <2>3 DEF Submits, Submitted, Tries
    <2>9. Lifecycle!Submit(j)
      BY <2>3, <2>7, <2>8, TriesBecome DEF Lifecycle!Submit
    <2>10. QED BY <2>9 DEF Lifecycle!Next
  <1>9. QED BY <1>1, <1>2, <1>3, <1>4, <1>5, <1>6, <1>7, <1>8, StepMoves DEF PlaceInv

\* The pipeline implements the life of each job: attempts one at a time, numbered
\* without gaps, and a dead letter only after the last of them.
THEOREM PipelineImplementsLifecycle == Spec => ImplementsLifecycle
  <1>1. Init => Lifecycle!Init
    <2>1. Init => Ids = {}
      BY DEF Init, QueueInit, Ids
    <2>2. Init => PhasesInv
      BY InitShape, InitPlace, Phases DEF PlaceInv
    <2>3. QED BY <2>1, <2>2 DEF Lifecycle!Init, PhasesInv, Submitted
  <1>2. QueueShape' /\ PlaceInv' => PhasesInv'
    <2>1. QueueShape /\ PlaceInv => PhasesInv
      BY Phases DEF PlaceInv
    <2>2. QED BY <2>1, PTL
  <1>3. QueueShape /\ PlaceInv /\ PhasesInv' /\ [Next]_vars => [Lifecycle!Next]_(Lifecycle!vars)
    <2>1. CASE UNCHANGED vars
      BY <2>1 DEF vars, queueVars, historyVars, Lifecycle!vars, PhaseOf, Submitted, Ids, Undelivered
    <2>2. CASE Next
      BY <2>2, StepLife
    <2>3. QED BY <2>1, <2>2
  <1>4. QED BY <1>1, <1>2, <1>3, PlaceInductive, PTL DEF Spec, ImplementsLifecycle, Lifecycle!Spec

-----------------------------------------------------------------------------
\* The load test and run_worker_loop

\* Every step is a step of the pipeline or leaves its variables alone.
LEMMA LoadStep == ASSUME LoadNext PROVE [Next]_vars
  BY DEF LoadNext, EnqueueJob, RunLoop, StopLoop, Driver, Seed, StartWorkers, Poll, AllFinished, Deadline, Stop,
     Gather, LoadWorker, BeginClaim, EmptyClaim, Leave, Fail, Next, Step

\* An execution leaves the driver's list only when it has a result, and keeps it.
SeenFinal == \A e \in Executions \ remaining : Finalized(e)

LEMMA StepSeen == ASSUME IInv, SeenFinal, [LoadNext]_loadAll PROVE SeenFinal'
  <1> SUFFICES ASSUME NEW e \in Executions, e \notin remaining'
               PROVE  Finalized(e)'
    BY DEF SeenFinal
  <1>1. CASE LoadNext
    <2>1. ASSUME Finalized(e) PROVE Finalized(e)'
      <3>1. CASE Next BY <2>1, <3>1, FinalFrozen DEF Finalized
      <3>2. CASE UNCHANGED vars BY <2>1, <3>2 DEF vars, storeVars, Finalized
      <3>3. QED BY <1>1, <3>1, <3>2, LoadStep
    <2>2. CASE remaining' = remaining
      BY <2>1, <2>2 DEF SeenFinal
    <2>3. ASSUME NEW d \in Executions, Poll(d) PROVE Finalized(e)'
      BY <2>1, <2>3 DEF Poll, SeenFinal
    <2>4. remaining' = remaining \/ \E d \in Executions : Poll(d)
      BY <1>1 DEF LoadNext, EnqueueJob, RunLoop, StopLoop, Driver, Seed, StartWorkers, AllFinished, Deadline, Stop,
         Gather, LoadWorker, BeginClaim, EmptyClaim, Leave, Claimed, Fail, loadVars
    <2>5. QED BY <2>2, <2>3, <2>4
  <1>2. CASE UNCHANGED loadAll
    BY <1>2 DEF loadAll, loadVars, vars, storeVars, SeenFinal, Finalized
  <1>3. QED BY <1>1, <1>2

\* Whatever the load test counts as completed is stored for good, with the whole
\* trace that its result was scored on.
THEOREM CompletedForGood == LoadSpec => []CompletedIsStored
  <1>1. LoadInit => IInv /\ SeenFinal
    BY InitShape, InitStored DEF LoadInit, IInv, SeenFinal
  <1>2. ASSUME IInv, SeenFinal, [LoadNext]_loadAll PROVE IInv' /\ SeenFinal'
    BY <1>2, LoadStep, StepIInv, StepSeen DEF loadAll
  <1>3. ASSUME IInv, SeenFinal PROVE CompletedIsStored
    BY <1>3 DEF IInv, StoredInv, Stored, SeenFinal, CompletedIsStored
  <1>4. QED BY <1>1, <1>2, <1>3, PTL DEF LoadSpec

-----------------------------------------------------------------------------
\* run_worker_loop: a message that is not acked is in the hands of a worker that
\* still runs, and a worker whose loop has ended holds none.
LoopInv ==
  driver = "none" =>
    /\ lost = {} /\ claiming = {}
    /\ \A w \in Workers : pc[w] # "down" /\ (w \in gone => pc[w] = "idle")
    /\ \A i \in pending : \E w \in Workers : msg[w] = i /\ pc[w] \in Working

\* No step starts run_worker_loop, and its own steps are these.
LEMMA LoopSteps ==
  ASSUME LoopInv, LoadNext, driver' = "none"
  PROVE  /\ driver = "none" /\ claiming' = claiming
         /\ \/ \E j \in Jobs : Submit(j) /\ gone' = gone
            \/ \E w \in Workers : Step(w) /\ w \notin gone /\ gone' = gone
            \/ \E w \in Workers : StopLoop(w)
  BY DEF LoopInv, LoadNext, EnqueueJob, RunLoop, StopLoop, Driver, Seed, StartWorkers, Poll, AllFinished, Deadline,
     Stop, Gather, LoadWorker, BeginClaim, EmptyClaim, Leave, Claimed, Fail, loadVars

\* A step of a worker that is in its loop: what it claims it works on, and a
\* message leaves its hands only when it is acked.
LEMMA StepHolds ==
  ASSUME QueueShape, HolderInv, NEW w \in Workers, Step(w)
  PROVE  /\ pc'[w] # "down" /\ lost' = lost
         /\ \A i \in pending' : i \in pending \/ (msg'[w] = i /\ pc'[w] \in Working)
         /\ pc[w] \in Working /\ msg[w] \in pending' => msg'[w] = msg[w] /\ pc'[w] \in Working
  <1>0. pc \in [Workers -> PC] /\ msg \in [Workers -> 0..delivered]
    BY Types
  <1>1. CASE ClaimJob(w)
    BY <1>0, <1>1 DEF ClaimJob, Claim, At, Goto, historyVars, Working, Handling, Handover, PC
  <1>2. CASE AckSuccess(w)
    BY <1>0, <1>2 DEF AckSuccess, Ack, At, Return, Goto
  <1>3. CASE AckFailure(w)
    BY <1>0, <1>3 DEF AckFailure, Ack, At, Goto, historyVars
  <1>4. CASE GiveUp(w) \/ Retry(w)
    BY <1>0, <1>4 DEF GiveUp, Retry, DeadLetter, Enqueue, At, Return, Goto, historyVars, Working, Handover
  <1>5. CASE \/ RunTask(w) \/ Raise(w) \/ RejectEvent(w) \/ AppendEvent(w) \/ ReadStatus(w)
             \/ CommitResult(w) \/ RunJudges(w) \/ AppendVerdict(w)
    BY <1>0, <1>5 DEF RunTask, Raise, RejectEvent, AppendEvent, ReadStatus, CommitResult, RunJudges,
       AppendVerdict, At, Goto, queueVars, historyVars, Working, Handling, Handover, PC
  <1>6. QED BY <1>1, <1>2, <1>3, <1>4, <1>5 DEF Step, Handle

LEMMA StepLoop ==
  ASSUME QueueShape, PlaceInv, LoopInv, [LoadNext]_loadAll
  PROVE  LoopInv'
  <1>1. CASE UNCHANGED loadAll
    BY <1>1 DEF loadAll, loadVars, vars, queueVars, workerVars, historyVars, LoopInv
  <1>2. SUFFICES ASSUME LoadNext, driver' = "none"
                 PROVE  LoopInv'
    BY <1>1 DEF LoopInv
  <1>3. driver = "none" /\ claiming' = {}
    BY <1>2, LoopSteps DEF LoopInv
  <1>4. CASE \E j \in Jobs : Submit(j) /\ gone' = gone
    BY <1>3, <1>4 DEF Submit, Enqueue, workerVars, historyVars, LoopInv
  <1>5. ASSUME NEW w \in Workers, Step(w), w \notin gone, gone' = gone
        PROVE  LoopInv'
    <2>1. \A v \in Workers : v # w => pc'[v] = pc[v] /\ msg'[v] = msg[v]
      BY <1>5, OneWorkerAtATime DEF SameWorker
    <2>2. /\ pc'[w] # "down" /\ lost' = lost
          /\ \A i \in pending' : i \in pending \/ (msg'[w] = i /\ pc'[w] \in Working)
          /\ pc[w] \in Working /\ msg[w] \in pending' => msg'[w] = msg[w] /\ pc'[w] \in Working
      BY <1>5, StepHolds DEF PlaceInv
    <2>3. ASSUME NEW i \in pending', i \in pending
          PROVE  \E v \in Workers : msg'[v] = i /\ pc'[v] \in Working
      <3>1. PICK v \in Workers : msg[v] = i /\ pc[v] \in Working
        BY <1>3, <2>3 DEF LoopInv
      <3>2. QED BY <2>1, <2>2, <2>3, <3>1
    <2>4. QED BY <1>3, <1>5, <2>1, <2>2, <2>3 DEF LoopInv
  <1>6. ASSUME NEW w \in Workers, StopLoop(w)
        PROVE  LoopInv'
    BY <1>3, <1>6 DEF StopLoop, Free, At, vars, queueVars, workerVars, historyVars, LoopInv
  <1>7. QED BY <1>2, <1>4, <1>5, <1>6, LoopSteps

\* Nothing undelivered, nothing held: every job that was enqueued is settled.
LEMMA NobodyHolds ==
  ASSUME QueueShape, PlaceInv, Undelivered = {}, pending = {}, lost = {}, HandedOver = {},
         NEW j \in Jobs, Submitted(j)
  PROVE  Settled(j)
  <1>1. PICK i \in Ids : stream[i].job = j /\ Latest(i)
    BY DEF PlaceInv, JobsInv, LiveInv
  <1>2. i \in Live \/ DeadLettered(j)
    BY <1>1 DEF PlaceInv, JobsInv, LiveInv
  <1>3. QED BY <1>1, <1>2 DEF Live, DeadLettered, Settled

\* run_worker_loop drains the queue: although a retry is in nobody's stream during
\* its back-off, the last worker to return leaves no job behind, because whoever
\* sleeps is itself still in its loop and claims the job it enqueues.
THEOREM LoopDrains == LoadSpec => DrainedOnReturn
  <1>1. LoadInit => IInv /\ PlaceInv /\ LoopInv
    BY InitShape, InitStored, InitPlace DEF LoadInit, IInv, Init, QueueInit, LoopInv
  <1>2. ASSUME IInv, PlaceInv, LoopInv, [LoadNext]_loadAll
        PROVE  IInv' /\ PlaceInv' /\ LoopInv'
    BY <1>2, LoadStep, StepIInv, StepPlace, StepLoop DEF loadAll, IInv
  <1>3. ASSUME IInv, PlaceInv, LoopInv, [LoadNext]_loadAll
        PROVE  [~AllReturned /\ AllReturned' => \A j \in Jobs : Submitted(j) => Settled(j)]_loadAll
    <2>1. SUFFICES ASSUME LoadNext, ~AllReturned, AllReturned', NEW j \in Jobs, Submitted(j)
                   PROVE  Settled(j)
      BY <1>3
    <2>2. driver' = "none" /\ gone' = Workers
      BY <2>1 DEF AllReturned
    <2>3. driver = "none" /\ gone # Workers
      BY <1>3, <2>1, <2>2, LoopSteps DEF AllReturned
    <2>4. PICK w \in Workers : StopLoop(w)
      BY <1>3, <2>1, <2>2, <2>3, LoopSteps
    <2>5. Undelivered = {} /\ \A v \in Workers : pc[v] = "idle"
      BY <1>3, <2>2, <2>3, <2>4 DEF StopLoop, Free, At, LoopInv
    <2>6. pending = {} /\ lost = {}
      BY <1>3, <2>3, <2>5 DEF LoopInv, Working, Handling
    <2>7. HandedOver = {}
      BY <2>5 DEF HandedOver, Handover
    <2>8. QED BY <1>3, <2>1, <2>5, <2>6, <2>7, NobodyHolds DEF IInv
  <1>4. QED BY <1>1, <1>2, <1>3, PTL DEF LoadSpec, DrainedOnReturn
=============================================================================
