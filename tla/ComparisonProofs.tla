--------------------------- MODULE ComparisonProofs ---------------------------
(***************************************************************************)
(* What a comparison reports is about finished runs, for any number of     *)
(* executions, however its reads fall between the writes of the workers.   *)
(* What a worker has recorded it never changes (Kept), so a part of the    *)
(* request that has seen a result may rely on the whole trace behind it.   *)
(***************************************************************************)
EXTENDS Comparison, SequenceTheorems, WellFoundedInduction, TLAPS

Results == {"none", "true", "false"}
Events == UNION {Range(b.trace) : b \in Behaviours}
Rows == {Redacted(e) : e \in Events}

\* What is stored of an execution is a redacted prefix of its run's trace, all of
\* it when a result is recorded.
Storing(e) ==
  /\ running[e] \in Behaviours \cup {Queued}
  /\ stored[e] \in Seq(Rows)
  /\ Len(stored[e]) <= Len(running[e].trace)
  /\ \A i \in 1..Len(stored[e]) : stored[e][i] = Redacted(running[e].trace[i])
  /\ passed[e] \in Results
  /\ passed[e] # "none" => running[e] # Queued /\ Len(stored[e]) = Len(running[e].trace)

WorkersInv ==
  /\ created \subseteq Executions
  /\ running = [e \in Executions |-> running[e]]
  /\ stored = [e \in Executions |-> stored[e]]
  /\ passed = [e \in Executions |-> passed[e]]
  /\ \A e \in Executions : Storing(e)

\* A read is older than what is stored, and differs from it only where it found none.
SeenInv ==
  /\ DOMAIN seen \subseteq created
  /\ \A e \in DOMAIN seen : seen[e] = "none" \/ seen[e] = passed[e]

BothRead(t) == LeftOf(t) \in DOMAIN seen /\ RightOf(t) \in DOMAIN seen

PhaseInv ==
  /\ phase \in {"idle", "baseline_read", "pairing", "attributing", "answered", "refused"}
  /\ phase \in {"idle", "baseline_read", "refused"} => pending = {} /\ DOMAIN results = {}
  /\ phase = "baseline_read" => \A e \in DOMAIN seen : RunOf[e] = "baseline"
  /\ phase \in {"pairing", "attributing"} => pending # {}
  /\ pending \cap DOMAIN results = {}
  /\ \A t \in pending \cup DOMAIN results : t \in Tasks /\ BothRead(t)

WholeTrace(e) == StoredTrace(running[e].trace)

\* A regression has seen both results, so the traces that are read are whole ones.
VerdictInv ==
  /\ phase = "attributing" => DispositionOf(Task) = "regression" /\ left = WholeTrace(LeftOf(Task))
  /\ \A t \in DOMAIN results :
       /\ results[t].disposition = DispositionOf(t)
       /\ DispositionOf(t) = "regression" =>
            results[t].attribution = FirstDivergence(WholeTrace(LeftOf(t)), WholeTrace(RightOf(t)))

IInv == WorkersInv /\ SeenInv /\ PhaseInv /\ VerdictInv

-----------------------------------------------------------------------------
\* Operators

LEMMA TracesOfRuns ==
  ASSUME NEW r \in Behaviours \cup {Queued}
  PROVE  /\ r.trace \in Seq(Events)
         /\ DOMAIN r.trace = 1..Len(r.trace) /\ Len(r.trace) \in Nat
         /\ \A i \in 1..Len(r.trace) : Redacted(r.trace[i]) \in Rows
         /\ r = Queued \/ Len(r.trace) > 0
  <1>1. r.trace \in Seq(Events)
    <2>1. CASE r = Queued
      BY <2>1 DEF Queued
    <2>2. CASE r \in Behaviours
      <3>1. r.trace \in Seq(Range(r.trace)) /\ Range(r.trace) \subseteq Events
        BY <2>2, ComparisonAssumption DEF ComparisonAssumption, Events
      <3>2. QED BY <3>1, SeqMonotonic
    <2>3. QED BY <2>1, <2>2
  <1>2. DOMAIN r.trace = 1..Len(r.trace) /\ Len(r.trace) \in Nat
    BY <1>1
  <1>3. \A i \in 1..Len(r.trace) : Redacted(r.trace[i]) \in Rows
    BY <1>1 DEF Rows
  <1>4. r = Queued \/ Len(r.trace) > 0
    BY <1>1, EmptySeq, ComparisonAssumption DEF ComparisonAssumption
  <1>5. QED BY <1>1, <1>2, <1>3, <1>4

\* The stored trace of a run, as a sequence.
LEMMA StoredSeq ==
  ASSUME NEW r \in Behaviours \cup {Queued}
  PROVE  /\ StoredTrace(r.trace) \in Seq(Rows)
         /\ Len(StoredTrace(r.trace)) = Len(r.trace)
         /\ \A i \in 1..Len(r.trace) : StoredTrace(r.trace)[i] = Redacted(r.trace[i])
  BY TracesOfRuns DEF StoredTrace

\* The task that is paired next.
LEMMA NextTask ==
  ASSUME PhaseInv, pending # {}
  PROVE  Task \in pending
  <1>1. \A t \in pending : t \in Nat
    BY ComparisonAssumption DEF PhaseInv, Tasks, ComparisonAssumption
  <1>2. PICK t \in pending : \A u \in pending : ~(<<u, t>> \in OpToRel(<, Nat))
    BY <1>1, WFMin, NatLessThanWellFounded
  <1>3. \A u \in pending : ~(u < t)
    BY <1>1, <1>2, Zenon DEF OpToRel
  <1>4. \A u \in pending : t <= u
    BY <1>1, <1>3
  <1>5. QED BY <1>4 DEF Task

LEMMA Decided ==
  ASSUME NEW x \in Results, NEW y \in Results
  PROVE  /\ Disposition(x, y) = "regression" <=> x = "true" /\ y = "false"
         /\ Disposition(x, y) # "indeterminate" => x # "none" /\ y # "none"
  BY DEF Disposition, Results

-----------------------------------------------------------------------------
\* The workers

\* What has been recorded stays.
Kept(e) == UNCHANGED <<running[e], stored[e], passed[e]>>

LEMMA LengthOfRow ==
  ASSUME NEW s \in Seq(Rows)
  PROVE  Len(s) \in Nat
  OBVIOUS

LEMMA AppendedRow ==
  ASSUME NEW s \in Seq(Rows), NEW row \in Rows
  PROVE  /\ Append(s, row) \in Seq(Rows) /\ Len(Append(s, row)) = Len(s) + 1 /\ Len(s) \in Nat
         /\ \A i \in 1..(Len(s) + 1) : Append(s, row)[i] = IF i = Len(s) + 1 THEN row ELSE s[i]
  BY AppendProperties

LEMMA WorkKeeps ==
  ASSUME WorkersInv, Work
  PROVE  /\ WorkersInv' /\ created \subseteq created'
         /\ \A e \in Executions : passed[e] # "none" => Kept(e)
         /\ UNCHANGED reader
  <1>1. PICK e \in Executions :
          CreateExecution(e) \/ (\E b \in Behaviours : RunTask(e, b)) \/ AppendEvent(e) \/ RecordResult(e)
    BY DEF Work
  <1>2. Storing(e) /\ running[e] \in Behaviours \cup {Queued} /\ Len(running[e].trace) \in Nat
    BY TracesOfRuns DEF WorkersInv, Storing
  <1>3. /\ UNCHANGED reader /\ created \subseteq created' /\ created' \subseteq Executions
        /\ \E r, s, p : /\ running' = [running EXCEPT ![e] = r]
                        /\ stored' = [stored EXCEPT ![e] = s]
                        /\ passed' = [passed EXCEPT ![e] = p]
    BY <1>1 DEF WorkersInv, CreateExecution, RunTask, AppendEvent, RecordResult
  <1>4. \A d \in Executions : d # e => Kept(d)
    BY <1>3 DEF WorkersInv, Kept
  <1>5. Storing(e)' /\ (passed[e] # "none" => Kept(e))
    <2>1. CASE CreateExecution(e)
      BY <1>2, <2>1 DEF CreateExecution, Storing, Kept
    <2>2. ASSUME NEW b \in Behaviours, RunTask(e, b)
          PROVE  Storing(e)' /\ (passed[e] # "none" => Kept(e))
      <3>1. running[e] = Queued /\ running'[e] = b /\ stored' = stored /\ passed' = passed
        BY <2>2 DEF RunTask, WorkersInv
      <3>2. Len(stored[e]) = 0 /\ passed[e] = "none" /\ Len(b.trace) \in Nat
        BY <1>2, <3>1, TracesOfRuns DEF Storing, Queued
      <3>3. stored'[e] = stored[e] /\ passed'[e] = "none"
        BY <3>1, <3>2
      <3>4. Storing(e)'
        BY <1>2, <3>1, <3>2, <3>3 DEF Storing
      <3>5. QED BY <3>2, <3>4
    <2>3. CASE AppendEvent(e)
      <3>1. /\ running' = running /\ passed' = passed
            /\ stored'[e] = Append(stored[e], Redacted(running[e].trace[Len(stored[e]) + 1]))
            /\ Len(stored[e]) < Len(running[e].trace)
        BY <2>3 DEF AppendEvent, WorkersInv
      <3>2. Redacted(running[e].trace[Len(stored[e]) + 1]) \in Rows
        <4>1. stored[e] \in Seq(Rows)
          BY <1>2 DEF Storing
        <4>2. Len(stored[e]) + 1 \in 1..Len(running[e].trace)
          BY <1>2, <3>1, <4>1, LengthOfRow
        <4>3. \A i \in 1..Len(running[e].trace) : Redacted(running[e].trace[i]) \in Rows
          BY <1>2, TracesOfRuns
        <4>4. QED BY <4>2, <4>3
      <3>3. PICK s, row, n : s = stored[e] /\ row = Redacted(running[e].trace[n]) /\ n = Len(s) + 1
        OBVIOUS
      <3>4. /\ s \in Seq(Rows) /\ row \in Rows /\ stored'[e] = Append(s, row) /\ n <= Len(running[e].trace)
            /\ Len(s) \in Nat /\ n = Len(s) + 1 /\ passed[e] = "none"
        <4>1. s \in Seq(Rows) /\ Len(s) \in Nat
          BY <1>2, <3>3, LengthOfRow DEF Storing
        <4>2. stored'[e] = Append(s, row) /\ Len(s) < Len(running[e].trace) /\ row \in Rows
          BY <3>1, <3>2, <3>3
        <4>3. n <= Len(running[e].trace)
          BY <1>2, <3>3, <4>1, <4>2
        <4>4. passed[e] = "none"
          BY <1>2, <3>1 DEF Storing
        <4>5. QED BY <3>3, <4>1, <4>2, <4>3, <4>4
      <3>5. /\ stored'[e] \in Seq(Rows) /\ Len(stored'[e]) = n
            /\ \A i \in 1..n : stored'[e][i] = IF i = n THEN row ELSE s[i]
        BY <3>3, <3>4, AppendedRow
      <3>6. \A i \in 1..n : stored'[e][i] = Redacted(running[e].trace[i])
        <4>1. ASSUME NEW i \in 1..n, i # n PROVE i \in 1..Len(s)
          <5>1. Len(s) \in Nat /\ n = Len(s) + 1
            BY <3>4
          <5>2. QED BY <4>1, <5>1
        <4>2. \A i \in 1..Len(s) : s[i] = Redacted(running[e].trace[i])
          BY <1>2, <3>3 DEF Storing
        <4>3. ASSUME NEW i \in 1..n
              PROVE  stored'[e][i] = Redacted(running[e].trace[i])
          <5>1. CASE i = n
            BY <3>3, <3>5, <5>1
          <5>2. CASE i # n
            BY <3>5, <4>1, <4>2, <5>2
          <5>3. QED BY <5>1, <5>2
        <4>4. QED BY <4>3
      <3>7. Storing(e)'
        BY <1>2, <3>1, <3>4, <3>5, <3>6 DEF Storing
      <3>8. QED BY <3>4, <3>7
    <2>4. CASE RecordResult(e)
      <3>1. /\ running' = running /\ stored' = stored /\ passed'[e] = running[e].passed
            /\ running[e] # Queued /\ passed[e] = "none" /\ Len(stored[e]) = Len(running[e].trace)
        BY <2>4 DEF RecordResult, WorkersInv
      <3>2. running[e].passed \in Results
        BY <1>2, <3>1, ComparisonAssumption DEF ComparisonAssumption, Results
      <3>3. QED BY <1>2, <3>1, <3>2 DEF Storing
    <2>5. QED BY <1>1, <2>1, <2>2, <2>3, <2>4
  <1>6. /\ running' = [d \in Executions |-> running'[d]]
        /\ stored' = [d \in Executions |-> stored'[d]]
        /\ passed' = [d \in Executions |-> passed'[d]]
    BY <1>3 DEF WorkersInv
  <1>7. ASSUME NEW d \in Executions, d # e PROVE Storing(d)'
    <2>1. Storing(d) /\ running'[d] = running[d] /\ stored'[d] = stored[d] /\ passed'[d] = passed[d]
      BY <1>4, <1>7 DEF WorkersInv, Kept
    <2>2. QED BY <2>1 DEF Storing
  <1>8. QED BY <1>3, <1>4, <1>5, <1>6, <1>7 DEF WorkersInv

\* A result means that the whole trace is stored.
LEMMA RecordedWhole ==
  ASSUME WorkersInv, NEW e \in Executions, passed[e] # "none"
  PROVE  stored[e] = WholeTrace(e)
  <1>1. Storing(e) /\ running[e] \in Behaviours \cup {Queued}
    BY DEF WorkersInv, Storing
  <1>2. /\ WholeTrace(e) \in Seq(Rows) /\ Len(WholeTrace(e)) = Len(stored[e])
        /\ \A i \in 1..Len(stored[e]) : WholeTrace(e)[i] = stored[e][i]
    BY <1>1, StoredSeq DEF Storing, WholeTrace
  <1>3. QED BY <1>1, <1>2, SeqEqual DEF Storing

-----------------------------------------------------------------------------
\* The request

\* What the pairing of two executions rests on does not move under it.
LEMMA SameReads ==
  ASSUME seen' = seen
  PROVE  \A t : /\ LeftOf(t)' = LeftOf(t) /\ RightOf(t)' = RightOf(t)
                /\ DispositionOf(t)' = DispositionOf(t) /\ BothRead(t)' = BothRead(t)
  BY DEF LeftOf, RightOf, Of, DispositionOf, BothRead

\* A verdict other than indeterminate has seen both results as they are stored.
LEMMA VerdictSeen ==
  ASSUME WorkersInv, SeenInv, NEW t, BothRead(t), DispositionOf(t) # "indeterminate"
  PROVE  /\ LeftOf(t) \in Executions /\ RightOf(t) \in Executions
         /\ seen[LeftOf(t)] = passed[LeftOf(t)] /\ passed[LeftOf(t)] # "none"
         /\ seen[RightOf(t)] = passed[RightOf(t)] /\ passed[RightOf(t)] # "none"
  <1>1. /\ LeftOf(t) \in DOMAIN seen /\ RightOf(t) \in DOMAIN seen
        /\ LeftOf(t) \in Executions /\ RightOf(t) \in Executions
    BY DEF BothRead, SeenInv, WorkersInv
  <1>2. passed[LeftOf(t)] \in Results /\ passed[RightOf(t)] \in Results
    BY <1>1 DEF WorkersInv, Storing
  <1>3. seen[LeftOf(t)] \in Results /\ seen[RightOf(t)] \in Results
    BY <1>1, <1>2 DEF SeenInv, Results
  <1>4. seen[LeftOf(t)] # "none" /\ seen[RightOf(t)] # "none"
    BY <1>3, Decided DEF DispositionOf
  <1>5. QED BY <1>1, <1>4 DEF SeenInv

LEMMA RegressionSeen ==
  ASSUME WorkersInv, SeenInv, NEW t, BothRead(t), DispositionOf(t) = "regression"
  PROVE  /\ LeftOf(t) \in Executions /\ RightOf(t) \in Executions
         /\ passed[LeftOf(t)] # "none" /\ stored[LeftOf(t)] = WholeTrace(LeftOf(t))
         /\ passed[RightOf(t)] # "none" /\ stored[RightOf(t)] = WholeTrace(RightOf(t))
  BY VerdictSeen, RecordedWhole

\* The workers take nothing from under the request.
LEMMA WorkStep ==
  ASSUME IInv, Work
  PROVE  IInv'
  <1>1. /\ WorkersInv' /\ created \subseteq created'
        /\ \A e \in Executions : passed[e] # "none" => Kept(e)
        /\ phase' = phase /\ seen' = seen /\ pending' = pending /\ left' = left /\ results' = results
    BY WorkKeeps DEF IInv, reader
  <1>2. SeenInv'
    BY <1>1 DEF IInv, WorkersInv, SeenInv, Kept
  <1>3. PhaseInv'
    BY <1>1, SameReads DEF IInv, PhaseInv
  <1>4. ASSUME NEW t, BothRead(t), DispositionOf(t) = "regression"
        PROVE  WholeTrace(LeftOf(t))' = WholeTrace(LeftOf(t)) /\ WholeTrace(RightOf(t))' = WholeTrace(RightOf(t))
    BY <1>1, <1>4, RegressionSeen, SameReads DEF IInv, WholeTrace, Kept
  <1>5. phase = "attributing" => BothRead(Task) /\ Task' = Task
    BY <1>1, NextTask DEF IInv, PhaseInv, Task
  <1>6. VerdictInv'
    BY <1>1, <1>4, <1>5, SameReads DEF IInv, VerdictInv, PhaseInv
  <1>7. QED BY <1>1, <1>2, <1>3, <1>6 DEF IInv

LEMMA BaselineStep ==
  ASSUME IInv, ReadBaseline
  PROVE  IInv'
  <1>1. /\ UNCHANGED workers /\ pending' = pending /\ results' = results /\ left' = left
        /\ pending = {} /\ DOMAIN results = {} /\ phase' \in {"refused", "baseline_read"}
        /\ \/ seen' = seen /\ phase' = "refused"
           \/ seen' = [e \in Read("baseline") |-> passed[e]]
    BY DEF ReadBaseline, Answer, IInv, PhaseInv
  <1>2. WorkersInv' /\ created' = created /\ passed' = passed
    BY <1>1 DEF workers, IInv, WorkersInv, Storing
  <1>3. SeenInv'
    BY <1>1, <1>2 DEF IInv, SeenInv, Read
  <1>4. PhaseInv' /\ VerdictInv'
    BY <1>1 DEF PhaseInv, VerdictInv, Read
  <1>5. QED BY <1>2, <1>3, <1>4 DEF IInv

LEMMA CandidateStep ==
  ASSUME IInv, ReadCandidate
  PROVE  IInv'
  <1>1. /\ UNCHANGED workers /\ results' = results /\ DOMAIN results = {}
    BY DEF ReadCandidate, Answer, IInv, PhaseInv
  <1>2. WorkersInv' /\ created' = created /\ passed' = passed
    BY <1>1 DEF workers, IInv, WorkersInv, Storing
  <1>3. CASE phase' = "refused" /\ seen' = seen /\ pending' = pending
    <2>1. pending = {}
      BY DEF ReadCandidate, IInv, PhaseInv
    <2>2. SeenInv' /\ PhaseInv' /\ VerdictInv'
      BY <1>1, <1>2, <1>3, <2>1 DEF IInv, SeenInv, PhaseInv, VerdictInv
    <2>3. QED BY <1>2, <2>2 DEF IInv
  <1>4. CASE /\ phase' = "pairing" /\ pending' # {}
             /\ pending' = {TaskOf[e] : e \in Read("candidate")} \cap {TaskOf[e] : e \in DOMAIN seen}
             /\ seen' = [e \in DOMAIN seen \cup Read("candidate") |->
                           IF e \in Read("candidate") THEN passed[e] ELSE seen[e]]
    <2>1. SeenInv'
      BY <1>2, <1>4 DEF IInv, SeenInv, Read
    <2>2. ASSUME NEW t \in pending' PROVE t \in Tasks /\ BothRead(t)'
      <3>1. PICK c \in Read("candidate") : TaskOf[c] = t
        BY <1>4, <2>2
      <3>2. PICK b \in DOMAIN seen : TaskOf[b] = t
        BY <1>4, <2>2
      <3>3. c \in Of("candidate")' /\ t \in Tasks
        BY <1>4, <3>1 DEF Of, Read, IInv, WorkersInv, Tasks
      <3>4. b \in Of("baseline")'
        BY <1>4, <3>2 DEF Of, ReadCandidate, IInv, PhaseInv
      <3>5. LeftOf(t)' \in Of("baseline")' /\ RightOf(t)' \in Of("candidate")'
        BY <3>1, <3>2, <3>3, <3>4 DEF LeftOf, RightOf
      <3>6. QED BY <3>3, <3>5 DEF Of, BothRead
    <2>3. PhaseInv' /\ VerdictInv'
      BY <1>1, <1>4, <2>2 DEF PhaseInv, VerdictInv
    <2>4. QED BY <1>2, <2>1, <2>3 DEF IInv
  <1>5. QED BY <1>3, <1>4 DEF ReadCandidate, Answer

\* A task is concluded with the attribution it deserves.
LEMMA ConcludeStep ==
  ASSUME IInv, phase \in {"pairing", "attributing"}, NEW a, Conclude(a),
         DispositionOf(Task) = "regression" =>
           a = FirstDivergence(WholeTrace(LeftOf(Task)), WholeTrace(RightOf(Task)))
  PROVE  IInv'
  <1>1. PICK t : t = Task
    OBVIOUS
  <1>2. /\ UNCHANGED workers /\ seen' = seen /\ pending' = pending \ {t}
        /\ phase' = IF pending = {t} THEN "answered" ELSE "pairing"
        /\ results' = [u \in DOMAIN results \cup {t} |->
                         IF u = t THEN [disposition |-> DispositionOf(t), attribution |-> a] ELSE results[u]]
    BY <1>1 DEF Conclude
  <1>3. WorkersInv' /\ created' = created /\ passed' = passed /\ running' = running
    BY <1>2 DEF workers, IInv, WorkersInv, Storing
  <1>4. t \in pending
    BY <1>1, NextTask DEF IInv, PhaseInv
  <1>5. SeenInv'
    BY <1>2, <1>3 DEF IInv, SeenInv
  <1>6. PhaseInv'
    BY <1>2, <1>4, SameReads DEF IInv, PhaseInv
  <1>7. \A u : WholeTrace(LeftOf(u))' = WholeTrace(LeftOf(u)) /\ WholeTrace(RightOf(u))' = WholeTrace(RightOf(u))
    BY <1>2, <1>3, SameReads DEF WholeTrace
  <1>8. VerdictInv'
    BY <1>1, <1>2, <1>7, SameReads DEF IInv, VerdictInv
  <1>9. QED BY <1>3, <1>5, <1>6, <1>8 DEF IInv

LEMMA StepIInv == ASSUME IInv, [Next]_vars PROVE IInv'
  <1>1. CASE Work BY <1>1, WorkStep
  <1>2. CASE ReadBaseline BY <1>2, BaselineStep
  <1>3. CASE ReadCandidate BY <1>3, CandidateStep
  <1>4. CASE Pair BY <1>4, ConcludeStep DEF Pair
  <1>5. CASE ReadBaselineTrace
    <2>1. /\ phase = "pairing" /\ phase' = "attributing" /\ left' = stored[LeftOf(Task)]
          /\ DispositionOf(Task) = "regression"
          /\ UNCHANGED workers /\ seen' = seen /\ pending' = pending /\ results' = results
      BY <1>5 DEF ReadBaselineTrace
    <2>2. WorkersInv' /\ created' = created /\ passed' = passed /\ running' = running
      BY <2>1 DEF workers, IInv, WorkersInv, Storing
    <2>3. SeenInv' /\ PhaseInv'
      BY <2>1, <2>2, SameReads DEF IInv, SeenInv, PhaseInv
    <2>4. PICK t : t = Task
      OBVIOUS
    <2>5. Task' = t /\ BothRead(t) /\ left' = WholeTrace(LeftOf(t))
      BY <2>1, <2>4, NextTask, RegressionSeen DEF IInv, PhaseInv, Task
    <2>6. \A u : WholeTrace(LeftOf(u))' = WholeTrace(LeftOf(u)) /\ WholeTrace(RightOf(u))' = WholeTrace(RightOf(u))
      BY <2>1, <2>2, SameReads DEF WholeTrace
    <2>7. VerdictInv'
      BY <2>1, <2>4, <2>5, <2>6, SameReads DEF IInv, VerdictInv
    <2>8. QED BY <2>2, <2>3, <2>7 DEF IInv
  <1>6. CASE ReadCandidateTrace
    <2>1. BothRead(Task) /\ DispositionOf(Task) = "regression" /\ left = WholeTrace(LeftOf(Task))
      BY <1>6, NextTask DEF ReadCandidateTrace, IInv, PhaseInv, VerdictInv
    <2>2. stored[RightOf(Task)] = WholeTrace(RightOf(Task))
      BY <2>1, RegressionSeen DEF IInv
    <2>3. QED BY <1>6, <2>1, <2>2, ConcludeStep DEF ReadCandidateTrace
  <1>7. CASE UNCHANGED vars
    <2>1. UNCHANGED <<workers, reader>>
      BY <1>7 DEF vars
    <2>2. WorkersInv' /\ SeenInv'
      BY <2>1 DEF workers, reader, IInv, WorkersInv, Storing, SeenInv
    <2>3. PhaseInv'
      BY <2>1, SameReads DEF workers, reader, IInv, PhaseInv
    <2>4. /\ \A u : WholeTrace(LeftOf(u))' = WholeTrace(LeftOf(u)) /\ WholeTrace(RightOf(u))' = WholeTrace(RightOf(u))
          /\ Task' = Task
      BY <2>1, SameReads DEF workers, reader, WholeTrace, Task
    <2>5. VerdictInv'
      BY <2>1, <2>4, SameReads DEF reader, IInv, VerdictInv
    <2>6. QED BY <2>2, <2>3, <2>5 DEF IInv
  <1>8. QED BY <1>1, <1>2, <1>3, <1>4, <1>5, <1>6, <1>7 DEF Next

LEMMA InitIInv == Init => IInv
  <1> SUFFICES ASSUME Init PROVE IInv
    OBVIOUS
  <1>1. \A e \in Executions : Storing(e)
    BY DEF Init, Storing, Queued, Results
  <1>2. WorkersInv
    BY <1>1 DEF Init, WorkersInv
  <1>3. QED BY <1>2 DEF Init, IInv, SeenInv, PhaseInv, VerdictInv

THEOREM Inductive == Spec => []IInv
  BY InitIInv, StepIInv, PTL DEF Spec

-----------------------------------------------------------------------------

\* Shapes of the state: what is stored of a run is a redacted prefix of its trace, and
\* the request has read only executions that exist.
THEOREM ComparisonTypes == Spec => []TypeOK
  <1>1. ASSUME IInv, NEW e \in Executions
        PROVE  stored[e] = SubSeq(StoredTrace(running[e].trace), 1, Len(stored[e]))
    <2>1. Storing(e) /\ running[e] \in Behaviours \cup {Queued} /\ Len(stored[e]) \in Nat
      BY <1>1 DEF IInv, WorkersInv, Storing
    <2>2. PICK s : s = StoredTrace(running[e].trace)
      OBVIOUS
    <2>3. /\ s \in Seq(Rows) /\ Len(stored[e]) <= Len(s)
          /\ \A i \in 1..Len(stored[e]) : s[i] = stored[e][i]
      BY <2>1, <2>2, StoredSeq, TracesOfRuns DEF Storing
    <2>4. /\ SubSeq(s, 1, Len(stored[e])) \in Seq(Rows)
          /\ Len(SubSeq(s, 1, Len(stored[e]))) = Len(stored[e])
          /\ \A i \in 1..Len(stored[e]) : SubSeq(s, 1, Len(stored[e]))[i] = s[i]
      BY <2>1, <2>3
    <2>5. QED BY <2>1, <2>2, <2>3, <2>4, SeqEqual DEF Storing
  <1>2. IInv => TypeOK
    BY <1>1 DEF IInv, WorkersInv, Storing, SeenInv, PhaseInv, TypeOK
  <1>3. QED BY <1>2, Inductive, PTL

\* However the reads of a comparison fall between the workers' writes, an attribution
\* compares the two whole traces.
THEOREM WholeTraces == Spec => []AttributionOnWholeTraces
  <1>1. IInv => AttributionOnWholeTraces
    BY DEF IInv, VerdictInv, AttributionOnWholeTraces, WholeTrace
  <1>2. QED BY <1>1, Inductive, PTL

\* A verdict that is not indeterminate is the one that the recorded results give, for
\* good: they are recorded once.
THEOREM VerdictForGood == Spec => []VerdictStands
  <1>1. IInv => VerdictStands
    BY VerdictSeen DEF IInv, PhaseInv, VerdictInv, VerdictStands, DispositionOf
  <1>2. QED BY <1>1, Inductive, PTL
=============================================================================
