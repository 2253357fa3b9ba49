------------------------ MODULE PostgresStoreProofs ------------------------
(***************************************************************************)
(* Sessions of PostgresStore, however many and however interleaved, keep   *)
(* the schema's invariants, give one id per agent version content, and,    *)
(* where callers keep to one record_result at a time, implement the atomic *)
(* store, up to the ids of trace events.                                   *)
(***************************************************************************)
EXTENDS PostgresStore, TLAPS

Writes == Insertions \cup {"create_agent_version", "record_result"}

\* The tables are functions on the ids of their rows.
TablesAreFunctions ==
  /\ versions = [v \in DOMAIN versions |-> versions[v]]
  /\ runs = [r \in DOMAIN runs |-> runs[r]]
  /\ executions = [x \in DOMAIN executions |-> executions[x]]
  /\ reply = [q \in Requests |-> reply[q]]

\* What a session knows at each of its points.
Session(q) ==
  /\ at[q] = "none" <=> call[q] = NoCall
  /\ at[q] = "closed" <=> reply[q] # NoReply
  /\ at[q] = "checked" => Op(q) \in Writes \cup ListReads
  /\ at[q] = "flushed" => Op(q) \in Writes /\ ~Violates(q)
  /\ at[q] \in {"checked", "flushed"} /\ Op(q) # "create_agent_version" => ParentExists(call[q])
  /\ at[q] = "conflict" => Op(q) = "create_agent_version" /\ SameContent(call[q].content) # {}
  /\ at[q] # "closed" => q \notin DOMAIN versions \cup DOMAIN runs \cup DOMAIN executions
  /\ Created(q) => \E v \in SameContent(call[q].content) : reply[q].body = {Row(v)}

Shape == SessionTypeOK /\ TablesAreFunctions
SessionInv == \A q \in Requests : Session(q)

\* Locks and unique keys: two statements that are made and not committed never collide.
ExclusiveInv ==
  \A p, q \in Requests : p # q /\ at[p] = "flushed" /\ at[q] = "flushed" => ~Collide(p, q)

\* UNIQUE (content_hash)
UniqueContent ==
  \A u, v \in DOMAIN versions : versions[u] = versions[v] => u = v

IInv == Shape /\ SessionInv /\ ExclusiveInv /\ UniqueContent

-----------------------------------------------------------------------------
LEMMA InitIInv == Init => IInv
  <1> SUFFICES ASSUME Init PROVE IInv
    OBVIOUS
  <1>1. IsReply(NoReply) /\ NoReply.code = 0
    BY DEF IsReply, NoReply, Reply
  <1>2. call = [q \in Requests |-> NoCall] /\ reply = [q \in Requests |-> NoReply] /\ at = [q \in Requests |-> "none"]
    BY DEF Init, SchemaInit
  <1>3. TypeOK
    <2>1. call \in [Requests -> {NoCall} \cup Calls(RowIds \cup {Nowhere})] /\ \A q \in Requests : IsReply(reply[q])
      BY <1>1, <1>2
    <2>2. QED BY <2>1, SchemaAssumption DEF Init, SchemaInit, TypeOK, RowIds
  <1>4. TablesAreFunctions
    BY DEF Init, SchemaInit, TablesAreFunctions
  <1>5. SessionTypeOK
    BY <1>2, <1>3 DEF SessionTypeOK, Points
  <1>6. ASSUME NEW q \in Requests PROVE Session(q)
    <2>1. q \notin DOMAIN versions \cup DOMAIN runs \cup DOMAIN executions
      BY SchemaAssumption DEF Init, SchemaInit
    <2>2. ~Created(q)
      BY <1>1, <1>2 DEF Created
    <2>3. QED BY <1>2, <2>1, <2>2 DEF Session
  <1>7. ExclusiveInv /\ UniqueContent
    BY <1>2 DEF Init, SchemaInit, ExclusiveInv, UniqueContent
  <1>8. QED BY <1>4, <1>5, <1>6, <1>7 DEF IInv, Shape, SessionInv

-----------------------------------------------------------------------------
\* What a step does to the tables and to the other sessions.

SessionStep(q) == Begin(q) \/ Progress(q) \/ Abort(q)

\* Rows stay, and all that changes in one is the status of an execution.
TablesGrow ==
  /\ DOMAIN versions \subseteq DOMAIN versions'
  /\ \A v \in DOMAIN versions : versions'[v] = versions[v]
  /\ DOMAIN runs \subseteq DOMAIN runs'
  /\ \A r \in DOMAIN runs : runs'[r] = runs[r]
  /\ DOMAIN executions \subseteq DOMAIN executions'
  /\ \A x \in DOMAIN executions : executions'[x].run = executions[x].run
  /\ events \subseteq events'
  /\ verdicts \subseteq verdicts'

\* The step that changes a table is a commit.
LEMMA OnlyCommitWrites ==
  ASSUME NEW q \in Requests, SessionStep(q), ~Commit(q)
  PROVE  UNCHANGED tables
  BY DEF SessionStep, Begin, Invoke, Progress, Abort, NotFound, FoundVersion, AlreadyFinalized,
     ReadRow, Check, ReadList, Flush, FlushRejected, Reselect, Advance, tables

LEMMA CommitGrows ==
  ASSUME IInv, NEW q \in Requests, Commit(q)
  PROVE  TablesGrow
  <1>0. q \notin DOMAIN versions /\ q \notin DOMAIN runs /\ q \notin DOMAIN executions
    BY DEF Commit, IInv, SessionInv, Session
  <1>1. CASE Op(q) = "record_result"
    <2>1. SetResult(call[q].id, call[q].status)
      BY <1>1 DEF Commit
    <2>2. QED BY <2>1 DEF SetResult, TablesGrow, IInv, Shape, TablesAreFunctions
  <1>2. CASE Op(q) # "record_result"
    <2>1. Insert(q)
      BY <1>2 DEF Commit
    <2>2. DOMAIN versions \subseteq DOMAIN versions' /\ \A v \in DOMAIN versions : versions'[v] = versions[v]
      BY <1>0, <2>1 DEF Insert, WithRow
    <2>3. DOMAIN runs \subseteq DOMAIN runs' /\ \A r \in DOMAIN runs : runs'[r] = runs[r]
      BY <1>0, <2>1 DEF Insert, WithRow
    <2>4. DOMAIN executions \subseteq DOMAIN executions' /\ \A x \in DOMAIN executions : executions'[x] = executions[x]
      BY <1>0, <2>1 DEF Insert, WithRow
    <2>5. events \subseteq events' /\ verdicts \subseteq verdicts'
      BY <2>1 DEF Insert
    <2>6. QED BY <2>2, <2>3, <2>4, <2>5 DEF TablesGrow
  <1>3. QED BY <1>1, <1>2

LEMMA StepGrows ==
  ASSUME IInv, NEW q \in Requests, SessionStep(q)
  PROVE  TablesGrow
  <1>1. CASE Commit(q) BY <1>1, CommitGrows
  <1>2. CASE ~Commit(q) BY <1>2, OnlyCommitWrites DEF tables, TablesGrow
  <1>3. QED BY <1>1, <1>2

\* A step is one session's.  It answers and closes the session, or does neither.
Moved(q) ==
  /\ \E point \in Points \ {"closed"} : at' = [at EXCEPT ![q] = point]
  /\ reply' = reply
Answered(q) ==
  /\ at' = [at EXCEPT ![q] = "closed"]
  /\ \E code \in {200, 404, 409, 500} : \E body : Answer(q, code, body)
  /\ call' = call

LEMMA Closes ==
  ASSUME NEW q, NEW code \in {200, 404, 409, 500}, NEW body, Answer(q, code, body), Close(q)
  PROVE  Answered(q)
  <1>1. at' = [at EXCEPT ![q] = "closed"] /\ call' = call
    BY DEF Close, Goto
  <1>2. QED BY <1>1, Zenon DEF Answered

LEMMA LosesAnswer ==
  ASSUME NEW q, Lost(q), Close(q)
  PROVE  Answered(q)
  BY Closes DEF Lost

LEMMA SessionEffect ==
  ASSUME IInv, NEW q \in Requests, SessionStep(q)
  PROVE  /\ at[q] # "closed"
         /\ Answered(q) \/ (Moved(q) /\ (call' = call \/ Begin(q)))
  <1>1. CASE Begin(q)
    <2>1. at[q] = "none"
      BY <1>1 DEF Begin, Invoke, IInv, SessionInv, Session
    <2>2. Moved(q)
      BY <1>1 DEF Begin, Invoke, Moved, Goto, Points
    <2>3. QED BY <1>1, <2>1, <2>2
  <1>2. CASE Check(q) \/ Flush(q)
    <2>1. Moved(q)
      BY <1>2 DEF Check, Flush, Advance, Moved, Goto, Points
    <2>2. QED BY <1>2, <2>1 DEF Check, Flush, Statement, Advance
  <1>3. CASE NotFound(q) BY <1>3, Closes DEF NotFound
  <1>4. CASE FoundVersion(q) BY <1>4, Closes DEF FoundVersion
  <1>5. CASE AlreadyFinalized(q) \/ ReadRow(q) \/ ReadList(q)
    BY <1>5, Closes DEF AlreadyFinalized, ReadRow, ReadList
  <1>6. CASE FlushRejected(q)
    <2>1. CASE Op(q) = "append_trace_event"
      BY <1>6, <2>1, Closes DEF FlushRejected, Statement
    <2>2. CASE Op(q) # "append_trace_event"
      <3>1. Moved(q)
        BY <1>6, <2>2 DEF FlushRejected, Advance, Moved, Goto, Points
      <3>2. QED BY <1>6, <2>2, <3>1 DEF FlushRejected, Statement, Advance
    <2>3. QED BY <2>1, <2>2
  <1>7. CASE Commit(q)
    <2>1. Lost(q) \/ \E body : Answer(q, 200, body)
      BY <1>7 DEF Commit
    <2>2. Close(q) /\ at[q] = "flushed"
      BY <1>7 DEF Commit
    <2>3. QED BY <2>1, <2>2, Closes, LosesAnswer
  <1>8. CASE Reselect(q)
    <2>1. Close(q)
      BY <1>8 DEF Reselect
    <2>2. CASE SameContent(call[q].content) = {}
      <3>1. Answer(q, 500, {[error |-> "NoResultFound"]})
        BY <1>8, <2>2 DEF Reselect
      <3>2. Answered(q) BY <2>1, <3>1, Closes
      <3>3. QED BY <1>8, <3>2 DEF Reselect
    <2>3. CASE SameContent(call[q].content) # {}
      <3>1. PICK v \in SameContent(call[q].content) : Answer(q, 200, {Row(v)})
        BY <1>8, <2>3 DEF Reselect
      <3>2. Answered(q) BY <2>1, <3>1, Closes
      <3>3. QED BY <1>8, <3>2 DEF Reselect
    <2>4. QED BY <2>2, <2>3
  <1>9. CASE Abort(q) BY <1>9, LosesAnswer DEF Abort
  <1>10. QED BY <1>1, <1>2, <1>3, <1>4, <1>5, <1>6, <1>7, <1>8, <1>9 DEF SessionStep, Progress

\* The call, the answer and the point of the others stay.
LEMMA OneSessionAtATime ==
  ASSUME IInv, NEW q \in Requests, SessionStep(q), NEW p \in Requests, p # q
  PROVE  at'[p] = at[p] /\ call'[p] = call[p] /\ reply'[p] = reply[p]
  <1>0. at \in [Requests -> Points] /\ DOMAIN call = Requests /\ DOMAIN reply = Requests
    BY DEF IInv, Shape, SessionTypeOK, TypeOK, TablesAreFunctions
  <1>1. CASE Moved(q) /\ call' = call BY <1>0, <1>1 DEF Moved
  <1>2. CASE Moved(q) /\ Begin(q) BY <1>0, <1>2 DEF Moved, Begin, Invoke
  <1>3. CASE Answered(q) BY <1>0, <1>3 DEF Answered, Answer
  <1>4. QED BY <1>1, <1>2, <1>3, SessionEffect

-----------------------------------------------------------------------------
\* Types

LEMMA CallsGrow ==
  ASSUME NEW S, NEW T, S \subseteq T
  PROVE  Calls(S) \subseteq Calls(T)
  BY DEF Calls

LEMMA StepCalls ==
  ASSUME IInv, NEW q \in Requests, SessionStep(q)
  PROVE  call' \in [Requests -> {NoCall} \cup Calls(RowIds \cup {Nowhere})]
  <1>0. call \in [Requests -> {NoCall} \cup Calls(RowIds \cup {Nowhere})]
    BY DEF IInv, Shape, SessionTypeOK, TypeOK
  <1>1. KnownIds \subseteq RowIds \cup {Nowhere}
    BY DEF KnownIds, RowIds
  <1>2. Calls(KnownIds) \subseteq Calls(RowIds \cup {Nowhere})
    BY <1>1, CallsGrow
  <1>3. CASE Begin(q)
    <2>1. PICK c \in Calls(KnownIds) : call' = [call EXCEPT ![q] = c]
      BY <1>3 DEF Begin, Invoke
    <2>2. c \in Calls(RowIds \cup {Nowhere})
      BY <1>2, <2>1
    <2>3. QED BY <1>0, <2>1, <2>2
  <1>4. CASE call' = call BY <1>0, <1>4
  <1>5. QED BY <1>3, <1>4, SessionEffect DEF Answered

ReplyOK(q) ==
  /\ IsReply(reply[q])
  /\ at[q] = "closed" <=> reply[q] # NoReply
RepliesOK ==
  /\ at \in [Requests -> Points]
  /\ reply = [q \in Requests |-> reply[q]]
  /\ \A q \in Requests : ReplyOK(q)

LEMMA StepReplies ==
  ASSUME IInv, NEW q \in Requests, SessionStep(q)
  PROVE  RepliesOK'
  <1>0. RepliesOK
    BY DEF RepliesOK, ReplyOK, IInv, Shape, SessionTypeOK, TypeOK, TablesAreFunctions
  <1>1. CASE Moved(q)
    <2>1. PICK point \in Points \ {"closed"} : at' = [at EXCEPT ![q] = point]
      BY <1>1 DEF Moved
    <2>2. at[q] # "closed" /\ reply' = reply
      BY <1>1, SessionEffect DEF Moved
    <2>3. QED BY <1>0, <2>1, <2>2 DEF RepliesOK, ReplyOK
  <1>2. CASE Answered(q)
    <2>a. PICK code \in {200, 404, 409, 500} : \E body : Answer(q, code, body)
      BY <1>2 DEF Answered
    <2>0. PICK body : Answer(q, code, body)
      BY <2>a
    <2>1. reply'[q] = Reply(code, body) /\ \A p \in Requests \ {q} : reply'[p] = reply[p]
      BY <1>0, <2>0 DEF Answer, RepliesOK
    <2>2. Reply(code, body) # NoReply /\ IsReply(Reply(code, body))
      BY DEF Reply, NoReply, IsReply
    <2>3. at' \in [Requests -> Points] /\ at'[q] = "closed"
          /\ \A p \in Requests \ {q} : at'[p] = at[p]
      BY <1>0, <1>2 DEF Answered, Points, RepliesOK
    <2>4. reply' = [p \in Requests |-> reply'[p]]
      BY <1>0, <2>0 DEF Answer, RepliesOK
    <2>5. ASSUME NEW p \in Requests PROVE ReplyOK(p)'
      BY <1>0, <2>1, <2>2, <2>3 DEF RepliesOK, ReplyOK
    <2>6. QED BY <2>3, <2>4, <2>5 DEF RepliesOK
  <1>3. QED BY <1>1, <1>2, SessionEffect

LEMMA CallFields ==
  ASSUME NEW S, NEW c \in Calls(S)
  PROVE  /\ c.op \in Writes \cup RowReads \cup ListReads
         /\ c.op = "create_agent_version" => c.content \in Contents
         /\ c.op # "create_agent_version" => c.id \in S
         /\ c.op = "append_trace_event" => c.seq \in SequenceNos /\ c.event \in Requests
         /\ c.op = "record_result" => c.status \in Results
  BY DEF Calls, Writes, Insertions, RowReads, ListReads

\* A commit, by the table that it changes.
Inserts(q, op) == Op(q) = op /\ q \notin DOMAIN versions \cup DOMAIN runs \cup DOMAIN executions

CommitsVersion(q) ==
  /\ Inserts(q, "create_agent_version")
  /\ call[q].content \in Contents /\ SameContent(call[q].content) = {}
  /\ versions' = WithRow(versions, q, call[q].content)
  /\ UNCHANGED <<runs, executions, events, verdicts>>
CommitsRun(q) ==
  /\ Inserts(q, "create_run")
  /\ call[q].id \in DOMAIN versions
  /\ runs' = WithRow(runs, q, call[q].id)
  /\ UNCHANGED <<versions, executions, events, verdicts>>
CommitsExecution(q) ==
  /\ Inserts(q, "create_execution")
  /\ call[q].id \in DOMAIN runs
  /\ executions' = WithRow(executions, q, [run |-> call[q].id, status |-> "pending"])
  /\ UNCHANGED <<versions, runs, events, verdicts>>
CommitsEvent(q) ==
  /\ Inserts(q, "append_trace_event")
  /\ call[q].id \in DOMAIN executions /\ call[q].seq \in SequenceNos
  /\ call[q].event \in Requests
  /\ ~DuplicateEvent(call[q].id, call[q].seq)
  /\ events' = events \cup {[execution |-> call[q].id, seq |-> call[q].seq, id |-> call[q].event]}
  /\ UNCHANGED <<versions, runs, executions, verdicts>>
CommitsVerdict(q) ==
  /\ Inserts(q, "append_judge_verdict")
  /\ call[q].id \in DOMAIN executions
  /\ verdicts' = verdicts \cup {[execution |-> call[q].id, id |-> q]}
  /\ UNCHANGED <<versions, runs, executions, events>>
CommitsResult(q) ==
  /\ Op(q) = "record_result"
  /\ call[q].id \in DOMAIN executions /\ call[q].status \in Results
  /\ executions' = [executions EXCEPT ![call[q].id].status = call[q].status]
  /\ UNCHANGED <<versions, runs, events, verdicts>>

LEMMA CommitCases ==
  ASSUME IInv, NEW q \in Requests, Commit(q)
  PROVE  \/ CommitsVersion(q) \/ CommitsRun(q) \/ CommitsExecution(q)
         \/ CommitsEvent(q) \/ CommitsVerdict(q) \/ CommitsResult(q)
  <1>1. at[q] = "flushed" /\ Session(q)
    BY DEF Commit, IInv, SessionInv
  <1>2. call[q] \in Calls(RowIds \cup {Nowhere})
    <2>1. call \in [Requests -> {NoCall} \cup Calls(RowIds \cup {Nowhere})]
      BY Zenon DEF IInv, Shape, SessionTypeOK, TypeOK
    <2>2. call[q] # NoCall
      BY <1>1 DEF Session
    <2>3. QED BY <2>1, <2>2
  <1>3. q \notin DOMAIN versions \cup DOMAIN runs \cup DOMAIN executions
    BY <1>1 DEF Session
  <1>4. Op(q) \in Writes /\ ~Violates(q) /\ (Op(q) # "create_agent_version" => ParentExists(call[q]))
    BY <1>1 DEF Session
  <1>5. CASE Op(q) = "record_result"
    <2>1. SetResult(call[q].id, call[q].status)
      BY <1>5 DEF Commit
    <2>2. call[q].id \in DOMAIN executions
      BY <1>4, <1>5 DEF ParentExists, Op
    <2>3. call[q].status \in Results
      BY <1>2, <1>5, CallFields DEF Op
    <2>4. QED BY <1>5, <2>1, <2>2, <2>3 DEF SetResult, CommitsResult
  <1>6. CASE Op(q) # "record_result"
    <2>1. Insert(q)
      BY <1>6 DEF Commit
    <2>2. CASE Op(q) = "create_agent_version"
      <3>1. call[q].content \in Contents
        BY <1>2, <2>2, CallFields DEF Op
      <3>2. QED BY <1>3, <1>4, <2>1, <2>2, <3>1 DEF Insert, CommitsVersion, Inserts, Violates, Op
    <2>3. CASE Op(q) = "create_run"
      BY <1>3, <1>4, <2>1, <2>3 DEF Insert, CommitsRun, Inserts, ParentExists, Op
    <2>4. CASE Op(q) = "create_execution"
      BY <1>3, <1>4, <2>1, <2>4 DEF Insert, CommitsExecution, Inserts, ParentExists, Op
    <2>5. CASE Op(q) = "append_trace_event"
      <3>1. call[q].seq \in SequenceNos /\ call[q].event \in Requests
        BY <1>2, <2>5, CallFields DEF Op
      <3>2. QED BY <1>3, <1>4, <2>1, <2>5, <3>1 DEF Insert, CommitsEvent, Inserts, ParentExists, Violates, Op
    <2>6. CASE Op(q) = "append_judge_verdict"
      BY <1>3, <1>4, <2>1, <2>6 DEF Insert, CommitsVerdict, Inserts, ParentExists, Op
    <2>7. QED BY <1>4, <1>6, <2>2, <2>3, <2>4, <2>5, <2>6 DEF Writes, Insertions
  <1>7. QED BY <1>5, <1>6

VersionsOK ==
  /\ DOMAIN versions \subseteq RowIds /\ \A v \in DOMAIN versions : versions[v] \in Contents
  /\ versions = [v \in DOMAIN versions |-> versions[v]]
RunsOK ==
  /\ DOMAIN runs \subseteq RowIds /\ \A r \in DOMAIN runs : runs[r] \in DOMAIN versions
  /\ runs = [r \in DOMAIN runs |-> runs[r]]
ExecutionsOK ==
  /\ DOMAIN executions \subseteq RowIds
  /\ \A x \in DOMAIN executions :
       executions[x] \in [run : DOMAIN runs, status : {"pending"} \cup Final]
  /\ executions = [x \in DOMAIN executions |-> executions[x]]
LogsOK ==
  /\ events \subseteq [execution : DOMAIN executions, seq : SequenceNos, id : Requests]
  /\ verdicts \subseteq [execution : DOMAIN executions, id : Requests]
TablesOK == VersionsOK /\ RunsOK /\ ExecutionsOK /\ LogsOK
CallsOK == call \in [Requests -> {NoCall} \cup Calls(RowIds \cup {Nowhere})]

\* Shape, by the state that its parts are about.
LEMMA ShapeParts == Shape <=> CallsOK /\ RepliesOK /\ TablesOK
  <1>1. Shape => VersionsOK /\ RunsOK
    BY DEF VersionsOK, RunsOK, Shape, SessionTypeOK, TypeOK, TablesAreFunctions
  <1>2. Shape => ExecutionsOK /\ LogsOK
    BY DEF ExecutionsOK, LogsOK, Shape, SessionTypeOK, TypeOK, TablesAreFunctions
  <1>3. Shape => CallsOK /\ RepliesOK
    <2>1. Shape => CallsOK
      BY Zenon DEF CallsOK, Shape, SessionTypeOK, TypeOK
    <2>2. Shape => RepliesOK
      <3>1. Shape => at \in [Requests -> Points] /\ reply = [q \in Requests |-> reply[q]]
        BY Zenon DEF Shape, SessionTypeOK, TablesAreFunctions
      <3>2. ASSUME Shape, NEW q \in Requests PROVE ReplyOK(q)
        BY <3>2 DEF ReplyOK, Shape, SessionTypeOK, TypeOK
      <3>3. QED BY <3>1, <3>2, Zenon DEF RepliesOK
    <2>3. QED BY <2>1, <2>2
  <1>4. ASSUME CallsOK, RepliesOK, TablesOK PROVE Shape
    <2>1. TablesAreFunctions
      BY <1>4 DEF TablesAreFunctions, TablesOK, VersionsOK, RunsOK, ExecutionsOK, RepliesOK
    <2>2. TypeOK
      <3>1. ASSUME NEW q \in Requests PROVE IsReply(reply[q])
        <4>1. ReplyOK(q)
          BY <1>4, Zenon DEF RepliesOK
        <4>2. QED BY <4>1 DEF ReplyOK
      <3>2. /\ DOMAIN versions \subseteq RowIds /\ \A v \in DOMAIN versions : versions[v] \in Contents
            /\ DOMAIN runs \subseteq RowIds /\ \A r \in DOMAIN runs : runs[r] \in DOMAIN versions
        BY <1>4, Zenon DEF TablesOK, VersionsOK, RunsOK
      <3>3. /\ DOMAIN executions \subseteq RowIds
            /\ \A x \in DOMAIN executions : executions[x] \in [run : DOMAIN runs, status : {"pending"} \cup Final]
        BY <1>4, Zenon DEF TablesOK, ExecutionsOK
      <3>4. /\ events \subseteq [execution : DOMAIN executions, seq : SequenceNos, id : Requests]
            /\ verdicts \subseteq [execution : DOMAIN executions, id : Requests]
        BY <1>4, Zenon DEF TablesOK, LogsOK
      <3>5. call \in [Requests -> {NoCall} \cup Calls(RowIds \cup {Nowhere})]
        BY <1>4, Zenon DEF CallsOK
      <3>6. QED BY <3>1, <3>2, <3>3, <3>4, <3>5, Zenon DEF TypeOK
    <2>3. QED BY <1>4, <2>1, <2>2 DEF Shape, SessionTypeOK, RepliesOK, ReplyOK
  <1>5. QED BY <1>1, <1>2, <1>3, <1>4 DEF TablesOK

\* A table with a row that was not there.
RowAdded(table, id, row, new) ==
  /\ DOMAIN new = DOMAIN table \cup {id} /\ new = [x \in DOMAIN new |-> new[x]]
  /\ new[id] = row /\ \A x \in DOMAIN table : new[x] = table[x]

LEMMA AddedRow ==
  ASSUME NEW table, NEW id, id \notin DOMAIN table, NEW row, NEW new, new = WithRow(table, id, row)
  PROVE  RowAdded(table, id, row, new)
  BY DEF WithRow, RowAdded

LEMMA StepTables ==
  ASSUME IInv, NEW q \in Requests, SessionStep(q)
  PROVE  TablesOK' /\ UniqueContent'
  <1>1. VersionsOK /\ RunsOK /\ ExecutionsOK /\ LogsOK /\ UniqueContent
    BY ShapeParts DEF IInv, TablesOK
  <1>2. q \in RowIds
    BY DEF RowIds
  <1>3. CASE CommitsVersion(q)
    <2>0. RowAdded(versions, q, call[q].content, versions')
      BY <1>3, AddedRow DEF CommitsVersion, Inserts
    <2>1. UniqueContent'
      BY <1>1, <1>3, <2>0 DEF CommitsVersion, RowAdded, SameContent, UniqueContent
    <2>2. VersionsOK'
      BY <1>1, <1>2, <1>3, <2>0 DEF CommitsVersion, RowAdded, VersionsOK
    <2>3. RunsOK'
      BY <1>1, <1>3, <2>0 DEF CommitsVersion, RowAdded, RunsOK
    <2>4. ExecutionsOK' /\ LogsOK'
      BY <1>1, <1>3 DEF CommitsVersion, ExecutionsOK, LogsOK
    <2>5. QED BY <2>1, <2>2, <2>3, <2>4 DEF TablesOK
  <1>4. CASE CommitsRun(q)
    <2>0. RowAdded(runs, q, call[q].id, runs')
      BY <1>4, AddedRow DEF CommitsRun, Inserts
    <2>1. VersionsOK' /\ UniqueContent'
      BY <1>1, <1>4 DEF CommitsRun, VersionsOK, UniqueContent
    <2>2. RunsOK'
      BY <1>1, <1>2, <1>4, <2>0 DEF CommitsRun, RowAdded, RunsOK
    <2>3. ExecutionsOK'
      BY <1>1, <1>4, <2>0 DEF CommitsRun, RowAdded, ExecutionsOK
    <2>4. LogsOK'
      BY <1>1, <1>4 DEF CommitsRun, LogsOK
    <2>5. QED BY <2>1, <2>2, <2>3, <2>4 DEF TablesOK
  <1>5. CASE CommitsExecution(q)
    <2> PICK row : row = [run |-> call[q].id, status |-> "pending"]
      OBVIOUS
    <2>0. RowAdded(executions, q, row, executions')
      BY <1>5, AddedRow DEF CommitsExecution, Inserts
    <2>1. VersionsOK' /\ UniqueContent' /\ RunsOK'
      BY <1>1, <1>5 DEF CommitsExecution, VersionsOK, UniqueContent, RunsOK
    <2>2. ExecutionsOK'
      BY <1>1, <1>2, <1>5, <2>0 DEF CommitsExecution, RowAdded, ExecutionsOK
    <2>3. LogsOK'
      BY <1>1, <1>5, <2>0 DEF CommitsExecution, RowAdded, LogsOK
    <2>4. QED BY <2>1, <2>2, <2>3 DEF TablesOK
  <1>6. CASE CommitsEvent(q)
    <2>1. VersionsOK' /\ UniqueContent' /\ RunsOK' /\ ExecutionsOK'
      BY <1>1, <1>6 DEF CommitsEvent, VersionsOK, UniqueContent, RunsOK, ExecutionsOK
    <2>2. LogsOK'
      BY <1>1, <1>6 DEF CommitsEvent, LogsOK
    <2>3. QED BY <2>1, <2>2 DEF TablesOK
  <1>7. CASE CommitsVerdict(q)
    <2>1. VersionsOK' /\ UniqueContent' /\ RunsOK' /\ ExecutionsOK'
      BY <1>1, <1>7 DEF CommitsVerdict, VersionsOK, UniqueContent, RunsOK, ExecutionsOK
    <2>2. LogsOK'
      BY <1>1, <1>7 DEF CommitsVerdict, LogsOK
    <2>3. QED BY <2>1, <2>2 DEF TablesOK
  <1>8. CASE CommitsResult(q)
    <2>1. call[q].status \in Final
      BY <1>8, SchemaAssumption DEF CommitsResult, Final
    <2>2. PICK x, status : x = call[q].id /\ status = call[q].status
      OBVIOUS
    <2>3. executions' = [executions EXCEPT ![x].status = status] /\ x \in DOMAIN executions
      BY <1>8, <2>2 DEF CommitsResult
    <2>4. VersionsOK' /\ UniqueContent' /\ RunsOK'
      BY <1>1, <1>8 DEF CommitsResult, VersionsOK, UniqueContent, RunsOK
    <2>5. DOMAIN executions' = DOMAIN executions /\ runs' = runs
      BY <1>8, <2>3 DEF CommitsResult
    <2>6. ExecutionsOK'
      BY <1>1, <2>1, <2>2, <2>3, <2>5 DEF ExecutionsOK
    <2>7. LogsOK'
      BY <1>1, <1>8, <2>5 DEF CommitsResult, LogsOK
    <2>8. QED BY <2>4, <2>6, <2>7 DEF TablesOK
  <1>9. CASE ~Commit(q)
    <2>1. UNCHANGED tables
      BY <1>9, OnlyCommitWrites
    <2>2. VersionsOK' /\ UniqueContent' /\ RunsOK'
      BY <1>1, <2>1 DEF tables, VersionsOK, UniqueContent, RunsOK
    <2>3. ExecutionsOK' /\ LogsOK'
      BY <1>1, <2>1 DEF tables, ExecutionsOK, LogsOK
    <2>4. QED BY <2>2, <2>3 DEF TablesOK
  <1>10. QED BY <1>3, <1>4, <1>5, <1>6, <1>7, <1>8, <1>9, CommitCases

LEMMA StepShape ==
  ASSUME IInv, NEW q \in Requests, SessionStep(q)
  PROVE  Shape'
  <1>1. RepliesOK' /\ TablesOK' /\ CallsOK'
    BY StepCalls, StepReplies, StepTables DEF CallsOK
  <1>2. QED BY <1>1, ShapeParts, PTL

-----------------------------------------------------------------------------
\* What a session knows stays true whatever the others do.

\* Only an uncommitted statement on the same key can make a flushed one fail, and
\* there is none.
LEMMA NoViolationByOthers ==
  ASSUME IInv, NEW q \in Requests, Commit(q), NEW p \in Requests, p # q,
         at[p] = "flushed"
  PROVE  ~Violates(p)'
  <1>1. ~Collide(p, q) /\ ~Collide(q, p) /\ ~Violates(p)
    BY DEF Commit, IInv, ExclusiveInv, SessionInv, Session
  <1>2. call'[p] = call[p]
    BY OneSessionAtATime DEF SessionStep, Progress
  <1>3. CASE CommitsVersion(q)
    <2>1. Op(p) = "create_agent_version" => call[p].content # call[q].content
      BY <1>1, <1>3 DEF Collide, CommitsVersion, Inserts
    <2>2. QED BY <1>1, <1>2, <1>3, <2>1
      DEF CommitsVersion, Inserts, WithRow, Violates, SameContent, DuplicateEvent, EventIdTaken, Op
  <1>4. CASE CommitsEvent(q)
    <2>1. Op(p) = "append_trace_event" =>
            ~(call[p].id = call[q].id /\ call[p].seq = call[q].seq) /\ call[p].event # call[q].event
      BY <1>1, <1>4 DEF Collide, CommitsEvent, Inserts
    <2>2. QED BY <1>1, <1>2, <1>4, <2>1
      DEF CommitsEvent, Inserts, Violates, SameContent, DuplicateEvent, EventIdTaken, Op
  <1>5. CASE versions' = versions /\ events' = events
    BY <1>1, <1>2, <1>5 DEF Violates, SameContent, DuplicateEvent, EventIdTaken, Op
  <1>6. QED BY <1>3, <1>4, <1>5, CommitCases DEF CommitsRun, CommitsExecution, CommitsVerdict, CommitsResult

LEMMA OthersSession ==
  ASSUME IInv, NEW q \in Requests, SessionStep(q), NEW p \in Requests, p # q
  PROVE  Session(p)'
  <1>0. Session(p) /\ at'[p] = at[p] /\ call'[p] = call[p] /\ reply'[p] = reply[p]
    BY OneSessionAtATime DEF IInv, SessionInv
  <1>1. TablesGrow
    BY StepGrows
  <1>2. ParentExists(call[p]) => ParentExists(call[p])'
    BY <1>0, <1>1 DEF TablesGrow, ParentExists
  <1>3. \A v : v \in SameContent(call[p].content) => v \in SameContent(call[p].content)'
    BY <1>0, <1>1 DEF TablesGrow, SameContent
  <1>4. at[p] = "flushed" => ~Violates(p)'
    <2>1. CASE Commit(q) BY <2>1, NoViolationByOthers
    <2>2. CASE ~Commit(q)
      BY <1>0, <2>2, OnlyCommitWrites DEF tables, Session, Violates, SameContent, DuplicateEvent, EventIdTaken, Op
    <2>3. QED BY <2>1, <2>2
  <1>5. p \notin DOMAIN versions \cup DOMAIN runs \cup DOMAIN executions
          => p \notin DOMAIN versions' \cup DOMAIN runs' \cup DOMAIN executions'
    <2>1. CASE ~Commit(q) BY <2>1, OnlyCommitWrites DEF tables
    <2>2. CASE Commit(q)
      <3>1. CASE CommitsVersion(q) BY <3>1 DEF CommitsVersion, WithRow
      <3>2. CASE CommitsRun(q) BY <3>2 DEF CommitsRun, WithRow
      <3>3. CASE CommitsExecution(q) BY <3>3 DEF CommitsExecution, WithRow
      <3>4. CASE CommitsEvent(q) \/ CommitsVerdict(q) BY <3>4 DEF CommitsEvent, CommitsVerdict
      <3>5. CASE CommitsResult(q) BY <3>5 DEF CommitsResult
      <3>6. QED BY <2>2, <3>1, <3>2, <3>3, <3>4, <3>5, CommitCases
    <2>3. QED BY <2>1, <2>2
  <1>6. Created(p)' <=> Created(p)
    BY <1>0 DEF Created, Op
  <1>7. QED BY <1>0, <1>2, <1>3, <1>4, <1>5, <1>6 DEF Session, Op

-----------------------------------------------------------------------------
\* What the session that steps knows afterwards.

LEMMA ClosedSession ==
  ASSUME IInv, NEW q \in Requests, SessionStep(q), Answered(q),
         (Op(q) = "create_agent_version" /\ reply'[q].code = 200)
           => \E v \in SameContent(call[q].content)' : reply'[q].body = {Row(v)}
  PROVE  Session(q)'
  <1>1. at'[q] = "closed" /\ call'[q] = call[q]
    BY DEF Answered, IInv, Shape, SessionTypeOK
  <1>2. reply'[q] # NoReply
    BY <1>1, StepReplies DEF RepliesOK, ReplyOK
  <1>3. call[q] # NoCall
    <2>1. CASE Begin(q)
      BY <1>1, <2>1 DEF Begin, Goto, IInv, Shape, SessionTypeOK
    <2>2. CASE Progress(q) \/ Abort(q)
      BY <2>2 DEF IInv, SessionInv, Session, Progress, Abort, NotFound, FoundVersion, AlreadyFinalized,
         ReadRow, Check, ReadList, Flush, FlushRejected, Statement, Commit, Reselect
    <2>3. QED BY <2>1, <2>2 DEF SessionStep
  <1>4. Created(q)' => \E v \in SameContent(call[q].content)' : reply'[q].body = {Row(v)}
    BY <1>1 DEF Created, Op
  <1>5. QED BY <1>1, <1>2, <1>3, <1>4 DEF Session

LEMMA AnswerRead ==
  ASSUME IInv, NEW q \in Requests, NEW code, NEW body, Answer(q, code, body)
  PROVE  reply'[q].code = code /\ reply'[q].body = body
  BY DEF Answer, Reply, IInv, Shape, TablesAreFunctions

LEMMA OwnSession ==
  ASSUME IInv, NEW q \in Requests, SessionStep(q)
  PROVE  Session(q)'
  <1>0. /\ Session(q)
        /\ at[q] # "closed" /\ reply[q] = NoReply
        /\ at \in [Requests -> Points] /\ DOMAIN call = Requests
    <2>1. Session(q) /\ CallsOK /\ RepliesOK
      BY ShapeParts DEF IInv, SessionInv
    <2>2. at[q] # "closed"
      BY SessionEffect
    <2>3. DOMAIN call = Requests
      BY <2>1 DEF CallsOK
    <2>4. at \in [Requests -> Points] /\ ReplyOK(q)
      BY <2>1 DEF RepliesOK
    <2>5. QED BY <2>1, <2>2, <2>3, <2>4 DEF ReplyOK
  <1>00. NoReply.code = 0
    BY DEF NoReply, Reply
  <1>1. CASE Begin(q)
    <2>1. PICK c \in Calls(KnownIds) : call' = [call EXCEPT ![q] = c]
      BY <1>1 DEF Begin, Invoke
    <2>2. call'[q] # NoCall
      <3>1. NoCall.op = "none" BY DEF NoCall
      <3>2. QED BY <1>0, <2>1, <3>1, CallFields DEF Writes, Insertions, RowReads, ListReads
    <2>3. at'[q] = "open" /\ reply' = reply /\ UNCHANGED tables
      BY <1>0, <1>1 DEF Begin, Invoke, Goto
    <2>4. at[q] = "none" /\ q \notin DOMAIN versions \cup DOMAIN runs \cup DOMAIN executions
      BY <1>0, <1>1 DEF Begin, Invoke, Session
    <2>5. QED BY <1>0, <1>00, <2>2, <2>3, <2>4 DEF Session, Created, tables
  <1>2. CASE Check(q)
    <2>1. at'[q] = "checked" /\ at[q] = "open" /\ call' = call /\ reply' = reply /\ UNCHANGED tables
      BY <1>0, <1>2 DEF Check, Advance, Goto
    <2>2. /\ Op(q) \in Writes \cup ListReads
          /\ Op(q) # "create_agent_version" => ParentExists(call[q])
      BY <1>2 DEF Check, Writes, Insertions, ListReads
    <2>3. QED BY <1>0, <1>00, <2>1, <2>2 DEF Session, Created, tables, ParentExists, Op
  <1>3. CASE Flush(q)
    <2>1. at'[q] = "flushed" /\ at[q] = "checked" /\ call' = call /\ reply' = reply /\ UNCHANGED tables
      BY <1>0, <1>3 DEF Flush, Statement, Advance, Goto
    <2>2. Op(q) \in Writes /\ ~Violates(q)
      BY <1>3 DEF Flush, Statement, Writes
    <2>3. QED BY <1>0, <1>00, <2>1, <2>2
      DEF Session, Created, tables, ParentExists, Op, Violates, SameContent, DuplicateEvent, EventIdTaken
  <1>4. CASE FlushRejected(q) /\ Op(q) # "append_trace_event"
    <2>1. at'[q] = "conflict" /\ at[q] = "checked" /\ call' = call /\ reply' = reply /\ UNCHANGED tables
      BY <1>0, <1>4 DEF FlushRejected, Statement, Advance, Goto
    <2>2. Op(q) = "create_agent_version" /\ SameContent(call[q].content) # {}
      BY <1>4 DEF FlushRejected, Violates
    <2>3. QED BY <1>0, <1>00, <2>1, <2>2 DEF Session, Created, tables, SameContent, Op
  <1>5. CASE FlushRejected(q) /\ Op(q) = "append_trace_event"
    <2>1. Answered(q)
      BY <1>5, Closes DEF FlushRejected, Statement
    <2>2. QED BY <1>5, <2>1, ClosedSession
  <1>6. CASE NotFound(q) \/ AlreadyFinalized(q) \/ ReadRow(q) \/ ReadList(q)
    <2>1. Op(q) # "create_agent_version"
      BY <1>6 DEF NotFound, AlreadyFinalized, ReadRow, ReadList, RowReads, ListReads
    <2>2. Answered(q)
      BY <1>6, Closes DEF NotFound, AlreadyFinalized, ReadRow, ReadList
    <2>3. QED BY <2>1, <2>2, ClosedSession
  <1>7. CASE FoundVersion(q)
    <2>1. PICK v \in SameContent(call[q].content) : Answer(q, 200, {Row(v)})
      BY <1>7 DEF FoundVersion
    <2>2. Close(q) /\ UNCHANGED tables
      BY <1>7 DEF FoundVersion
    <2>3. v \in SameContent(call[q].content)'
      BY <2>1, <2>2 DEF tables, SameContent, Close
    <2>4. Answered(q) /\ reply'[q].body = {Row(v)}
      BY <2>1, <2>2, Closes, AnswerRead
    <2>5. QED BY <2>3, <2>4, ClosedSession
  <1>8. CASE Commit(q)
    <2>1. Close(q) /\ (Lost(q) \/ \E body : Answer(q, 200, body))
      BY <1>8 DEF Commit
    <2>2. Answered(q)
      BY <2>1, Closes, LosesAnswer
    <2>3. CASE Op(q) # "create_agent_version"
      BY <2>2, <2>3, ClosedSession
    <2>4. CASE Op(q) = "create_agent_version"
      <3>1. versions' = WithRow(versions, q, call[q].content) /\ call' = call
        BY <1>8, <2>2, <2>4, CommitCases DEF Answered, CommitsVersion, CommitsRun, CommitsExecution,
           CommitsEvent, CommitsVerdict, CommitsResult, Inserts
      <3>2. q \in SameContent(call[q].content)'
        BY <3>1 DEF WithRow, SameContent
      <3>3. CASE Lost(q)
        <4>1. reply'[q].code = 500 BY <3>3, AnswerRead DEF Lost
        <4>2. QED BY <2>2, <4>1, ClosedSession
      <3>4. CASE Answer(q, 200, {Row(q)})
        <4>1. reply'[q].body = {Row(q)} BY <3>4, AnswerRead
        <4>2. QED BY <2>2, <3>2, <4>1, ClosedSession
      <3>5. QED BY <1>8, <2>4, <3>3, <3>4 DEF Commit, NewId
    <2>5. QED BY <2>3, <2>4
  <1>9. CASE Reselect(q)
    <2>1. at[q] = "conflict" /\ Close(q) /\ UNCHANGED tables
      BY <1>9 DEF Reselect
    <2>2. SameContent(call[q].content) # {}
      BY <1>0, <2>1 DEF Session
    <2>3. PICK v \in SameContent(call[q].content) : Answer(q, 200, {Row(v)})
      BY <1>9, <2>2 DEF Reselect
    <2>4. v \in SameContent(call[q].content)'
      BY <2>1, <2>3 DEF tables, SameContent, Close
    <2>5. Answered(q) /\ reply'[q].body = {Row(v)}
      BY <2>1, <2>3, Closes, AnswerRead
    <2>6. QED BY <2>4, <2>5, ClosedSession
  <1>10. CASE Abort(q)
    <2>1. Answered(q) /\ reply'[q].code = 500
      BY <1>10, LosesAnswer, AnswerRead DEF Abort, Lost
    <2>2. QED BY <2>1, ClosedSession
  <1>11. QED BY <1>1, <1>2, <1>3, <1>4, <1>5, <1>6, <1>7, <1>8, <1>9, <1>10 DEF SessionStep, Progress

LEMMA StepExclusive ==
  ASSUME IInv, NEW q \in Requests, SessionStep(q)
  PROVE  ExclusiveInv'
  <1>0. at \in [Requests -> Points]
    BY DEF IInv, Shape, SessionTypeOK
  <1>1. \A p \in Requests : at'[p] = "flushed" => call'[p] = call[p] /\ (at[p] = "flushed" \/ (p = q /\ Flush(q)))
    <2>1. CASE Begin(q) BY <1>0, <2>1, OneSessionAtATime DEF Begin, Goto
    <2>2. CASE Flush(q) BY <2>2, OneSessionAtATime DEF Flush, Advance
    <2>3. CASE Check(q) \/ (FlushRejected(q) /\ Op(q) # "append_trace_event")
      BY <1>0, <2>3, OneSessionAtATime DEF Check, FlushRejected, Advance, Goto
    <2>4. CASE Answered(q) BY <1>0, <2>4, OneSessionAtATime DEF Answered
    <2>5. CASE FlushRejected(q) /\ Op(q) = "append_trace_event"
      BY <1>0, <2>5, OneSessionAtATime DEF FlushRejected, Close, Goto
    <2>6. CASE NotFound(q) \/ FoundVersion(q) \/ AlreadyFinalized(q) \/ ReadRow(q) \/ ReadList(q)
      BY <1>0, <2>6, OneSessionAtATime DEF NotFound, FoundVersion, AlreadyFinalized, ReadRow, ReadList, Close, Goto
    <2>7. CASE Commit(q) \/ Reselect(q) \/ Abort(q)
      BY <1>0, <2>7, OneSessionAtATime DEF Commit, Reselect, Abort, Close, Goto
    <2>8. QED BY <2>1, <2>2, <2>3, <2>5, <2>6, <2>7 DEF SessionStep, Progress
  <1>2. Flush(q) => \A p \in Requests \ {q} : at[p] = "flushed" => ~Collide(p, q) /\ ~Collide(q, p)
    BY DEF Flush, Statement, Collide
  <1>3. \A p, r \in Requests : at'[p] = "flushed" /\ at'[r] = "flushed" => Collide(p, r)' = Collide(p, r)
    BY <1>1 DEF Collide, Op
  <1>4. QED BY <1>1, <1>2, <1>3 DEF ExclusiveInv, IInv

LEMMA StepIInv ==
  ASSUME IInv, [Next]_vars
  PROVE  IInv'
  <1>1. CASE UNCHANGED vars
    <2>0. /\ UNCHANGED <<call, reply, at, versions>>
          /\ UNCHANGED <<runs, executions, events, verdicts>>
      BY <1>1 DEF vars, tables
    <2>1. Shape'
      <3>1. CallsOK /\ RepliesOK /\ VersionsOK /\ RunsOK /\ ExecutionsOK /\ LogsOK
        BY ShapeParts DEF IInv, TablesOK
      <3>2. CallsOK' /\ RepliesOK'
        <4>1. call' = call /\ reply' = reply /\ at' = at
          BY <2>0
        <4>2. CallsOK'
          BY <3>1, <4>1 DEF CallsOK
        <4>3. ASSUME NEW q \in Requests PROVE ReplyOK(q)'
          BY <3>1, <4>1 DEF RepliesOK, ReplyOK
        <4>4. at' \in [Requests -> Points] /\ reply' = [q \in Requests |-> reply'[q]]
          BY <3>1, <4>1, Zenon DEF RepliesOK
        <4>5. QED BY <4>2, <4>3, <4>4 DEF RepliesOK
      <3>3. VersionsOK' /\ RunsOK'
        BY <2>0, <3>1 DEF VersionsOK, RunsOK
      <3>4. ExecutionsOK' /\ LogsOK'
        BY <2>0, <3>1 DEF ExecutionsOK, LogsOK
      <3>5. TablesOK'
        BY <3>3, <3>4 DEF TablesOK
      <3>6. QED BY <3>2, <3>5, ShapeParts, PTL
    <2>2. ASSUME NEW q \in Requests PROVE Session(q)'
      <3>1. Violates(q)' = Violates(q) /\ ParentExists(call[q])' = ParentExists(call[q])
        BY <1>1 DEF vars, tables, Violates, ParentExists, SameContent, DuplicateEvent, EventIdTaken, Op
      <3>2. SameContent(call[q].content)' = SameContent(call[q].content) /\ Created(q)' = Created(q)
        BY <1>1 DEF vars, tables, SameContent, Created, Op
      <3>3. Session(q)
        BY DEF IInv, SessionInv
      <3>4. QED BY <1>1, <3>1, <3>2, <3>3 DEF vars, tables, Session, Op
    <2>3. ExclusiveInv' /\ UniqueContent'
      BY <1>1 DEF vars, tables, IInv, ExclusiveInv, UniqueContent, Collide, Op
    <2>4. QED BY <2>1, <2>2, <2>3 DEF IInv, SessionInv
  <1>2. CASE Next
    <2>1. PICK q \in Requests : SessionStep(q)
      BY <1>2 DEF Next, SessionStep
    <2>2. SessionInv'
      BY <2>1, OwnSession, OthersSession DEF SessionInv
    <2>3. QED BY <2>1, <2>2, StepShape, StepExclusive, StepTables DEF IInv
  <1>3. QED BY <1>1, <1>2

THEOREM Inductive == Spec => []IInv
  BY InitIInv, StepIInv, PTL DEF Spec

\* Every session is at a point of its method, is closed exactly when it has answered,
\* and the rows of every table name existing rows, whatever the interleaving.
THEOREM SessionTypes == Spec => []SessionTypeOK
  BY Inductive, PTL DEF IInv, Shape

\* Two callers who created the same content and got an answer got the same id.
THEOREM OneIdPerContent == Spec => []OneVersionPerContent
  <1>1. ASSUME IInv, NEW p \in Requests, NEW q \in Requests,
               Created(p), Created(q), call[p].content = call[q].content
        PROVE  reply[p].body = reply[q].body
    <2>1. PICK u \in SameContent(call[p].content) : reply[p].body = {Row(u)}
      BY <1>1 DEF IInv, SessionInv, Session
    <2>2. PICK v \in SameContent(call[q].content) : reply[q].body = {Row(v)}
      BY <1>1 DEF IInv, SessionInv, Session
    <2>3. u = v
      BY <1>1, <2>1, <2>2 DEF IInv, UniqueContent, SameContent
    <2>4. QED BY <2>1, <2>2, <2>3
  <1>2. IInv => OneVersionPerContent
    BY <1>1 DEF OneVersionPerContent
  <1>3. QED BY <1>2, Inductive, PTL

-----------------------------------------------------------------------------
\* Callers that keep to one record_result per execution.

SerialInv ==
  SerialResults =>
    /\ \A p, q \in Requests :
         Waiting(p) /\ Waiting(q) /\ Op(p) = "record_result" /\ Op(q) = "record_result"
           /\ call[p].id = call[q].id => p = q
    /\ \A q \in Requests :
         at[q] \in {"checked", "flushed"} /\ Op(q) = "record_result" => ~Finalized(call[q].id)

LEMMA StillWaiting ==
  ASSUME IInv, NEW q \in Requests, SessionStep(q), ~Begin(q), NEW p \in Requests, Waiting(p)'
  PROVE  Waiting(p) /\ call'[p] = call[p]
  <1>1. call' = call
    BY SessionEffect DEF Answered
  <1>2. reply[q] = NoReply
    BY SessionEffect DEF IInv, SessionInv, Session
  <1>3. QED BY <1>1, <1>2, OneSessionAtATime DEF Waiting

\* A step that finalizes an execution is the only request recording it.
LEMMA StatusStays ==
  ASSUME SerialResults, IInv, SerialInv, NEW q \in Requests, SessionStep(q),
         NEW p \in Requests, p # q, Waiting(p), Op(p) = "record_result",
         call[p].id \in DOMAIN executions
  PROVE  executions'[call[p].id] = executions[call[p].id]
  <1>1. CASE CommitsResult(q) /\ Commit(q)
    <2>1. Waiting(q)
      BY <1>1 DEF Commit, IInv, SessionInv, Session, Waiting
    <2>2. call[p].id # call[q].id
      BY <1>1, <2>1 DEF CommitsResult, SerialInv
    <2>3. QED BY <1>1, <2>2 DEF CommitsResult
  <1>2. CASE CommitsExecution(q) BY <1>2 DEF CommitsExecution, Inserts, WithRow
  <1>3. CASE executions' = executions BY <1>3
  <1>4. CASE ~Commit(q) BY <1>4, OnlyCommitWrites DEF tables
  <1>5. QED BY <1>1, <1>2, <1>3, <1>4, CommitCases
       DEF CommitsVersion, CommitsRun, CommitsEvent, CommitsVerdict

LEMMA StepSerial ==
  ASSUME IInv, SerialInv, NEW q \in Requests, SessionStep(q)
  PROVE  SerialInv'
  <1> SUFFICES ASSUME SerialResults
      PROVE  SerialInv'
    BY DEF SerialInv
  <1>0. at \in [Requests -> Points] /\ DOMAIN call = Requests
    BY DEF IInv, Shape, SessionTypeOK, TypeOK
  <1>1. ASSUME NEW p \in Requests, NEW r \in Requests, Waiting(p)', Waiting(r)',
               Op(p)' = "record_result", Op(r)' = "record_result", call'[p].id = call'[r].id
        PROVE  p = r
    <2>1. CASE ~Begin(q)
      BY <1>1, <2>1, StillWaiting DEF SerialInv, Op
    <2>2. CASE Begin(q)
      <3>1. PICK c \in Calls(KnownIds) : /\ SerialResults /\ c.op = "record_result" => ~Recording(c.id)
                                         /\ call' = [call EXCEPT ![q] = c]
        BY <2>2 DEF Begin, Invoke
      <3>2. call'[q] = c /\ \A o \in Requests : o # q => call'[o] = call[o] /\ reply'[o] = reply[o]
        BY <1>0, <3>1, OneSessionAtATime
      <3>3. \A o \in Requests : o # q /\ Waiting(o)' => Waiting(o)
        BY <3>2 DEF Waiting
      <3>4. CASE p # q /\ r # q
        BY <1>1, <3>2, <3>3, <3>4 DEF SerialInv, Op
      <3>5. CASE p = q /\ r # q
        <4>1. Recording(c.id) /\ c.op = "record_result"
          BY <1>1, <3>2, <3>3, <3>5 DEF Recording, Op
        <4>2. QED BY <3>1, <4>1
      <3>6. CASE p # q /\ r = q
        <4>1. Recording(c.id) /\ c.op = "record_result"
          BY <1>1, <3>2, <3>3, <3>6 DEF Recording, Op
        <4>2. QED BY <3>1, <4>1
      <3>7. QED BY <3>4, <3>5, <3>6
    <2>3. QED BY <2>1, <2>2
  <1>2. ASSUME NEW p \in Requests, at'[p] \in {"checked", "flushed"}, Op(p)' = "record_result"
        PROVE  ~Finalized(call[p].id)'
    <2>1. CASE p # q
      <3>1. at[p] = at'[p] /\ call'[p] = call[p] /\ Op(p) = "record_result"
        BY <1>2, <2>1, OneSessionAtATime DEF Op
      <3>2. Session(p)
        BY DEF IInv, SessionInv
      <3>3. Waiting(p) /\ call[p].id \in DOMAIN executions /\ ~Finalized(call[p].id)
        BY <1>2, <3>1, <3>2 DEF Session, Waiting, ParentExists, Op, SerialInv
      <3>4. executions'[call[p].id] = executions[call[p].id]
        BY <2>1, <3>1, <3>3, StatusStays
      <3>5. QED BY <3>1, <3>3, <3>4 DEF Finalized
    <2>2. CASE p = q /\ Check(q)
      <3>1. call' = call /\ executions' = executions
        BY <2>2 DEF Check, Advance, tables
      <3>2. Op(q) = "record_result"
        BY <1>2, <2>2, <3>1 DEF Op
      <3>3. ~Finalized(call[q].id)
        BY <2>2, <3>2 DEF Check, Insertions, ListReads, Finalized
      <3>4. QED BY <2>2, <3>1, <3>3 DEF Finalized
    <2>3. CASE p = q /\ Flush(q)
      BY <1>2, <2>3 DEF Flush, Statement, Advance, tables, Op, Finalized, SerialInv
    <2>4. CASE p = q /\ ~Check(q) /\ ~Flush(q)
      <3>1. at'[q] \in {"open", "conflict", "closed"}
        <4>1. CASE Begin(q) BY <1>0, <4>1 DEF Begin, Goto
        <4>2. CASE Answered(q) BY <1>0, <4>2 DEF Answered
        <4>3. CASE FlushRejected(q) BY <1>0, <4>3 DEF FlushRejected, Advance, Close, Goto
        <4>4. CASE NotFound(q) \/ FoundVersion(q) \/ AlreadyFinalized(q) \/ ReadRow(q) \/ ReadList(q)
          BY <1>0, <4>4 DEF NotFound, FoundVersion, AlreadyFinalized, ReadRow, ReadList, Close, Goto
        <4>5. CASE Commit(q) \/ Reselect(q) \/ Abort(q)
          BY <1>0, <4>5 DEF Commit, Reselect, Abort, Close, Goto
        <4>6. QED BY <2>4, <4>1, <4>3, <4>4, <4>5 DEF SessionStep, Progress
      <3>2. QED BY <1>2, <2>4, <3>1
    <2>5. QED BY <2>1, <2>2, <2>3, <2>4
  <1>3. QED BY <1>1, <1>2 DEF SerialInv

THEOREM SerialInductive == Spec => [](IInv /\ SerialInv)
  <1>1. Init => SerialInv
    BY DEF Init, SchemaInit, SerialInv, Waiting
  <1>2. IInv /\ SerialInv /\ [Next]_vars => SerialInv'
    <2>1. ASSUME SerialInv, UNCHANGED vars
          PROVE  SerialInv'
      <3>1. UNCHANGED <<call, reply, at, executions>>
        BY <2>1 DEF vars, tables
      <3>2. QED BY <2>1, <3>1 DEF SerialInv, Waiting, Op, Finalized
    <2>2. ASSUME IInv, SerialInv, Next
          PROVE  SerialInv'
      <3>1. PICK q \in Requests : SessionStep(q)
        BY <2>2 DEF Next, SessionStep
      <3>2. QED BY <2>2, <3>1, StepSerial
    <2>3. QED BY <2>1, <2>2
  <1>3. QED BY <1>1, <1>2, Inductive, PTL DEF Spec

\* Where callers keep to one record_result per execution, a recorded result stays.
THEOREM ResultsStay == SerialResults => (Spec => FinalizationIsOneWay)
  <1> SUFFICES ASSUME SerialResults
      PROVE  Spec => FinalizationIsOneWay
    OBVIOUS
  <1> DEFINE Stays == \A x \in DOMAIN executions :
                        Finalized(x) => executions'[x].status = executions[x].status
  <1>1. ASSUME IInv, SerialInv, [Next]_vars
        PROVE  Stays
    <2>1. CASE UNCHANGED vars BY <2>1 DEF vars, tables
    <2>2. CASE Next
      <3>1. PICK q \in Requests : SessionStep(q)
        BY <2>2 DEF Next, SessionStep
      <3>2. CASE ~Commit(q) BY <3>1, <3>2, OnlyCommitWrites DEF tables
      <3>3. CASE Commit(q) /\ CommitsResult(q)
        <4>1. ~Finalized(call[q].id)
          BY <1>1, <3>3 DEF Commit, CommitsResult, SerialInv
        <4>2. QED BY <3>3, <4>1 DEF CommitsResult
      <3>4. CASE CommitsExecution(q) BY <3>4 DEF CommitsExecution, Inserts, WithRow
      <3>5. CASE executions' = executions BY <3>5
      <3>6. QED BY <1>1, <3>2, <3>3, <3>4, <3>5, CommitCases
           DEF CommitsVersion, CommitsRun, CommitsEvent, CommitsVerdict
    <2>3. QED BY <1>1, <2>1, <2>2
  <1>2. IInv /\ SerialInv /\ [Next]_vars => [Stays]_vars
    BY <1>1
  <1>3. QED BY <1>2, SerialInductive, PTL DEF Spec, FinalizationIsOneWay, Stays

-----------------------------------------------------------------------------
\* Callers that give every trace event an id of its own.

FreshInv ==
  FreshEventIds =>
    \A q \in Requests :
      /\ call[q] # NoCall /\ Op(q) = "append_trace_event" => call[q].event = q
      /\ at[q] # "closed" => ~EventIdTaken(q)

LEMMA StepFresh ==
  ASSUME IInv, FreshInv, NEW q \in Requests, SessionStep(q)
  PROVE  FreshInv'
  <1> SUFFICES ASSUME FreshEventIds, NEW p \in Requests
      PROVE  /\ call'[p] # NoCall /\ Op(p)' = "append_trace_event" => call'[p].event = p
             /\ at'[p] # "closed" => ~EventIdTaken(p)'
    BY DEF FreshInv
  <1>0. at \in [Requests -> Points] /\ DOMAIN call = Requests
    BY DEF IInv, Shape, SessionTypeOK, TypeOK
  <1>1. ASSUME Op(p)' = "append_trace_event", call'[p] # NoCall
        PROVE  call'[p].event = p
    <2>1. CASE Begin(q) /\ p = q
      <3>1. PICK c \in Calls(KnownIds) : /\ FreshEventIds /\ c.op = "append_trace_event" => c.event = q
                                         /\ call' = [call EXCEPT ![q] = c]
        BY <2>1 DEF Begin, Invoke
      <3>2. QED BY <1>0, <1>1, <2>1, <3>1 DEF Op
    <2>2. CASE ~(Begin(q) /\ p = q)
      <3>1. call'[p] = call[p]
        BY <2>2, SessionEffect, OneSessionAtATime DEF Answered
      <3>2. QED BY <1>1, <3>1 DEF FreshInv, Op
    <2>3. QED BY <2>1, <2>2
  <1>2. ASSUME at'[p] # "closed"
        PROVE  ~EventIdTaken(p)'
    <2>1. at[p] # "closed"
      BY <1>2, SessionEffect, OneSessionAtATime
    <2>2. CASE ~Commit(q)
      BY <2>1, <2>2, OnlyCommitWrites DEF tables, EventIdTaken, FreshInv
    <2>3. CASE Commit(q)
      <3>1. p # q
        BY <1>0, <1>2, <2>3 DEF Commit, Close, Goto
      <3>2. CASE CommitsEvent(q)
        <4>1. call[q].event = q
          BY <2>3, <3>2 DEF FreshInv, CommitsEvent, Inserts, Commit, IInv, SessionInv, Session
        <4>2. QED BY <2>1, <3>1, <3>2, <4>1 DEF CommitsEvent, EventIdTaken, FreshInv
      <3>3. CASE events' = events
        BY <2>1, <3>3 DEF EventIdTaken, FreshInv
      <3>4. QED BY <2>3, <3>2, <3>3, CommitCases
           DEF CommitsVersion, CommitsRun, CommitsExecution, CommitsVerdict, CommitsResult
    <2>4. QED BY <2>2, <2>3
  <1>3. QED BY <1>1, <1>2

THEOREM FreshInductive == Spec => [](IInv /\ FreshInv)
  <1>1. Init => FreshInv
    BY DEF Init, SchemaInit, FreshInv, EventIdTaken
  <1>2. IInv /\ FreshInv /\ [Next]_vars => FreshInv'
    <2>1. ASSUME FreshInv, UNCHANGED vars
          PROVE  FreshInv'
      BY <2>1 DEF vars, tables, FreshInv, Op, EventIdTaken
    <2>2. ASSUME IInv, FreshInv, Next
          PROVE  FreshInv'
      <3>1. PICK q \in Requests : SessionStep(q)
        BY <2>2 DEF Next, SessionStep
      <3>2. QED BY <2>2, <3>1, StepFresh
    <2>3. QED BY <2>1, <2>2
  <1>3. QED BY <1>1, <1>2, Inductive, PTL DEF Spec

-----------------------------------------------------------------------------
\* Every step of a session is one of the atomic store, or changes nothing of it.

\* The schema, as the abstract store sees it, is the schema.
LEMMA SchemaIsShared ==
  ASSUME NEW q, NEW c
  PROVE  /\ Platform!Op(q) = Op(q)
         /\ Platform!Row(q) = Row(q)
         /\ Platform!tables = tables
         /\ Platform!Insertions = Insertions
         /\ Platform!RowReads = RowReads
         /\ Platform!ListReads = ListReads
         /\ Platform!ParentExists(c) = ParentExists(c)
         /\ Platform!SameContent(c) = SameContent(c)
         /\ Platform!View(c) = View(c)
         /\ Platform!Waiting(q) = Waiting(q)
         /\ Platform!Finalized(q) = Finalized(q)
         /\ Platform!DuplicateEvent(q, c) = DuplicateEvent(q, c)
         /\ Platform!EventIdTaken(c) = EventIdTaken(c)
  <1>1. Platform!Op(q) = Op(q) /\ Platform!Row(q) = Row(q) /\ Platform!tables = tables
    BY DEF Platform!Op, Op, Platform!Row, Row, Platform!tables, tables
  <1>2. /\ Platform!Insertions = Insertions
        /\ Platform!RowReads = RowReads
        /\ Platform!ListReads = ListReads
    BY DEF Platform!Insertions, Insertions, Platform!RowReads, RowReads, Platform!ListReads, ListReads
  <1>3. Platform!ParentExists(c) = ParentExists(c)
    BY DEF Platform!ParentExists, ParentExists
  <1>4. Platform!View(c) = View(c)
    BY DEF Platform!View, View, Platform!Row, Row
  <1>5. /\ Platform!SameContent(c) = SameContent(c)
        /\ Platform!DuplicateEvent(q, c) = DuplicateEvent(q, c) /\ Platform!EventIdTaken(c) = EventIdTaken(c)
    BY DEF Platform!SameContent, SameContent, Platform!DuplicateEvent, DuplicateEvent,
       Platform!EventIdTaken, EventIdTaken
  <1>6. Platform!Finalized(q) = Finalized(q)
    BY DEF Platform!Finalized, Finalized, Platform!Final, Final
  <1>7. Platform!Waiting(q) = Waiting(q)
    BY DEF Platform!Waiting, Waiting, Platform!NoCall, NoCall, Platform!NoReply, NoReply, Platform!Reply, Reply
  <1>8. QED BY <1>1, <1>2, <1>3, <1>4, <1>5, <1>6, <1>7

LEMMA ActionsAreShared ==
  ASSUME NEW q, NEW code, NEW body
  PROVE  /\ Answer(q, code, body) => Platform!Answer(q, code, body)
         /\ Lost(q) => Platform!Lost(q)
         /\ Insert(q) => Platform!Insert(q)
         /\ SetResult(code, body) => Platform!SetResult(code, body)
         /\ Invoke(q) => Platform!Invoke(q)
         /\ SchemaInit => Platform!SchemaInit
         /\ UNCHANGED tables => UNCHANGED Platform!tables
  <1>1. Answer(q, code, body) => Platform!Answer(q, code, body)
    BY DEF Platform!Answer, Answer, Platform!Reply, Reply
  <1>2. Lost(q) => Platform!Lost(q)
    BY DEF Platform!Lost, Lost, Platform!Answer, Answer, Platform!Reply, Reply
  <1>3. Insert(q) => Platform!Insert(q)
    BY DEF Platform!Insert, Insert, Platform!WithRow, WithRow
  <1>4. SetResult(code, body) => Platform!SetResult(code, body)
    BY DEF Platform!SetResult, SetResult
  <1>5. Invoke(q) => Platform!Invoke(q)
    <2>1. Platform!Calls(KnownIds) = Calls(KnownIds)
      BY DEF Platform!Calls, Calls, Platform!Insertions, Insertions, Platform!RowReads, RowReads,
         Platform!ListReads, ListReads
    <2>2. /\ Platform!KnownIds = KnownIds /\ Platform!NoCall = NoCall
          /\ UNCHANGED tables => UNCHANGED Platform!tables
      BY DEF Platform!KnownIds, KnownIds, Platform!NoCall, NoCall, Platform!tables, tables
    <2>3. ASSUME NEW x PROVE Platform!Recording(x) = Recording(x)
      BY DEF Platform!Recording, Recording, Platform!Op, Op, Platform!Waiting, Waiting, Platform!NoCall, NoCall,
         Platform!NoReply, NoReply, Platform!Reply, Reply
    <2>4. QED BY <2>1, <2>2, <2>3 DEF Invoke, Platform!Invoke
  <1>6. SchemaInit => Platform!SchemaInit
    BY DEF SchemaInit, Platform!SchemaInit, Platform!NoCall, NoCall, Platform!NoReply, NoReply,
       Platform!Reply, Reply
  <1>7. UNCHANGED tables => UNCHANGED Platform!tables
    BY DEF tables, Platform!tables
  <1>8. QED BY <1>1, <1>2, <1>3, <1>4, <1>5, <1>6, <1>7

LEMMA Executes ==
  ASSUME IInv, NEW q \in Requests, SessionStep(q), call' = call,
         \/ Platform!NotFound(q) \/ Platform!CreateAgentVersion(q) \/ Platform!CreateRow(q)
         \/ Platform!AppendTraceEvent(q) \/ Platform!RecordResult(q) \/ Platform!Read(q) \/ Platform!Fail(q)
  PROVE  Platform!Next
  <1>1. Begin(q) => call[q] = NoCall /\ call'[q] # NoCall
    <2>1. ASSUME Begin(q) PROVE call'[q] # NoCall
      BY <2>1, OwnSession DEF Begin, Goto, Session, IInv, Shape, SessionTypeOK
    <2>2. QED BY <2>1 DEF Begin, Invoke
  <1>2. at[q] # "none"
    BY <1>1 DEF SessionStep, Progress, Abort, NotFound, FoundVersion, AlreadyFinalized,
       ReadRow, Check, ReadList, Flush, FlushRejected, Statement, Commit, Reselect
  <1>3. Waiting(q)
    BY <1>2, SessionEffect DEF IInv, SessionInv, Session, Waiting
  <1>4. Platform!Waiting(q)
    BY <1>3, SchemaIsShared
  <1>5. Platform!Execute(q)
    BY <1>4 DEF Platform!Execute
  <1>6. QED BY <1>5 DEF Platform!Next

LEMMA CommitImplements ==
  ASSUME IInv, SerialInv, SerialResults, NEW q \in Requests, Commit(q)
  PROVE  Platform!Next
  <1>1. Session(q) /\ at[q] = "flushed" /\ call' = call /\ SessionStep(q)
    BY DEF Commit, Close, SessionStep, Progress, IInv, SessionInv
  <1>2. Op(q) \in Writes /\ ~Violates(q) /\ (Op(q) # "create_agent_version" => ParentExists(call[q]))
    BY <1>1 DEF Session
  <1>3. CASE Op(q) = "record_result"
    <2>1. /\ SetResult(call[q].id, call[q].status)
          /\ Answer(q, 200, {[status |-> call[q].status]}) \/ Lost(q)
      BY <1>3 DEF Commit
    <2>2. ~Finalized(call[q].id)
      BY <1>1, <1>3 DEF SerialInv
    <2>3. Platform!RecordResult(q)
      BY <1>2, <1>3, <2>1, <2>2, SchemaIsShared, ActionsAreShared DEF Platform!RecordResult
    <2>4. QED BY <1>1, <2>3, Executes
  <1>4. CASE Op(q) # "record_result"
    <2>1. Insert(q) /\ (Answer(q, 200, {Row(NewId(q))}) \/ Lost(q))
      BY <1>4 DEF Commit
    <2>2. /\ Platform!Insert(q)
          /\ Platform!Answer(q, 200, {Platform!Row(NewId(q))}) \/ Platform!Lost(q)
      BY <2>1, SchemaIsShared, ActionsAreShared
    <2>3. CASE Op(q) = "create_agent_version"
      <3>1. SameContent(call[q].content) = {}
        BY <1>2, <2>3 DEF Violates
      <3>2. Platform!CreateAgentVersion(q)
        BY <2>2, <2>3, <3>1, SchemaIsShared DEF Platform!CreateAgentVersion, NewId
      <3>3. QED BY <1>1, <3>2, Executes
    <2>4. CASE Op(q) = "append_trace_event"
      <3>1. ~DuplicateEvent(call[q].id, call[q].seq) /\ ~EventIdTaken(call[q].event)
        BY <1>2, <2>4 DEF Violates
      <3>2. Platform!AppendTraceEvent(q)
        BY <1>2, <2>2, <2>4, <3>1, SchemaIsShared DEF Platform!AppendTraceEvent, NewId
      <3>3. QED BY <1>1, <3>2, Executes
    <2>5. CASE Op(q) \in Insertions \ {"append_trace_event"}
      <3>1. ParentExists(call[q])
        BY <1>2, <2>5 DEF Insertions
      <3>2. Platform!CreateRow(q)
        BY <2>2, <2>5, <3>1, SchemaIsShared DEF Platform!CreateRow, NewId
      <3>3. QED BY <1>1, <3>2, Executes
    <2>6. QED BY <1>2, <1>4, <2>3, <2>4, <2>5 DEF Writes, Insertions
  <1>5. QED BY <1>3, <1>4

LEMMA StepImplements ==
  ASSUME IInv, SerialInv, FreshInv, SerialResults, FreshEventIds \/ KeyedEvents, NEW q \in Requests,
         SessionStep(q)
  PROVE  Platform!Next \/ UNCHANGED Platform!vars
  <1>0. Session(q)
    BY DEF IInv, SessionInv
  <1>1. CASE Begin(q)
    BY <1>1, ActionsAreShared DEF Begin, Platform!Next
  <1>2. CASE NotFound(q)
    <2>1. Platform!NotFound(q) /\ call' = call
      BY <1>2, SchemaIsShared, ActionsAreShared DEF NotFound, Platform!NotFound, Close
    <2>2. QED BY <2>1, Executes
  <1>3. CASE FoundVersion(q)
    <2>1. PICK v \in SameContent(call[q].content) : Answer(q, 200, {Row(v)})
      BY <1>3 DEF FoundVersion
    <2>2. Platform!Answer(q, 200, {Platform!Row(v)})
      BY <2>1, SchemaIsShared, ActionsAreShared
    <2>3. Platform!CreateAgentVersion(q) /\ call' = call
      BY <1>3, <2>1, <2>2, SchemaIsShared, ActionsAreShared DEF FoundVersion, Platform!CreateAgentVersion, Close
    <2>4. QED BY <2>3, Executes
  <1>4. CASE AlreadyFinalized(q)
    <2>1. Platform!RecordResult(q) /\ call' = call
      BY <1>4, SchemaIsShared, ActionsAreShared DEF AlreadyFinalized, Platform!RecordResult, Close
    <2>2. QED BY <2>1, Executes
  <1>5. CASE ReadRow(q) \/ ReadList(q)
    <2>1. ParentExists(call[q])
      BY <1>0, <1>5 DEF ReadRow, ReadList, Session, ListReads
    <2>2. Platform!Read(q) /\ call' = call
      BY <1>5, <2>1, SchemaIsShared, ActionsAreShared DEF ReadRow, ReadList, Platform!Read, Close
    <2>3. QED BY <2>2, Executes
  <1>6. CASE Check(q) \/ Flush(q) \/ (FlushRejected(q) /\ Op(q) # "append_trace_event")
    BY <1>6, ActionsAreShared DEF Check, Flush, FlushRejected, Advance, Platform!vars
  <1>7. CASE FlushRejected(q) /\ Op(q) = "append_trace_event"
    <2>0. FreshEventIds => ~EventIdTaken(call[q].event)
      BY <1>0, <1>7 DEF FreshInv, FlushRejected, Statement, Session
    <2>1. /\ ParentExists(call[q])
          /\ DuplicateEvent(call[q].id, call[q].seq) \/ (KeyedEvents /\ EventIdTaken(call[q].event))
      BY <1>0, <1>7, <2>0 DEF FlushRejected, Statement, Violates, Session
    <2>2. Platform!AppendTraceEvent(q) /\ call' = call
      BY <1>7, <2>1, SchemaIsShared, ActionsAreShared DEF FlushRejected, Platform!AppendTraceEvent, Close
    <2>3. QED BY <1>7, <2>2, Executes
  <1>8. CASE Commit(q) BY <1>8, CommitImplements
  <1>9. CASE Reselect(q)
    <2>1. Op(q) = "create_agent_version" /\ SameContent(call[q].content) # {}
      BY <1>0, <1>9 DEF Reselect, Session
    <2>2. PICK v \in SameContent(call[q].content) : Answer(q, 200, {Row(v)})
      BY <1>9, <2>1 DEF Reselect
    <2>3. Platform!Answer(q, 200, {Platform!Row(v)})
      BY <2>2, SchemaIsShared, ActionsAreShared
    <2>4. Platform!CreateAgentVersion(q) /\ call' = call
      BY <1>9, <2>1, <2>2, <2>3, SchemaIsShared, ActionsAreShared DEF Reselect, Platform!CreateAgentVersion, Close
    <2>5. QED BY <2>4, Executes
  <1>10. CASE Abort(q)
    <2>1. Platform!Fail(q) /\ call' = call
      BY <1>10, SchemaIsShared, ActionsAreShared DEF Abort, Platform!Fail, Close
    <2>2. QED BY <2>1, Executes
  <1>11. QED BY <1>1, <1>2, <1>3, <1>4, <1>5, <1>6, <1>7, <1>8, <1>9, <1>10 DEF SessionStep, Progress

\* Where callers keep to one record_result per execution, the sessions of PostgresStore cannot
\* be told from the atomic store: its first SELECT, its statement and its COMMIT are one step.
\* That store is the in-memory one if callers give every trace event an id of its own, and
\* otherwise one that refuses an event id it already has.
THEOREM SessionsImplementStore ==
  SerialResults /\ (FreshEventIds \/ KeyedEvents) => (Spec => ImplementsPlatformStore)
  <1> SUFFICES ASSUME SerialResults, FreshEventIds \/ KeyedEvents
      PROVE  Spec => ImplementsPlatformStore
    OBVIOUS
  <1>1. Init => Platform!Init
    BY ActionsAreShared DEF Init, Platform!Init
  <1>2. ASSUME IInv, SerialInv, FreshInv, [Next]_vars
        PROVE  [Platform!Next]_(Platform!vars)
    <2>1. CASE UNCHANGED vars BY <2>1, ActionsAreShared DEF vars, Platform!vars
    <2>2. CASE Next
      <3>1. PICK q \in Requests : SessionStep(q)
        BY <2>2 DEF Next, SessionStep
      <3>2. QED BY <1>2, <3>1, StepImplements
    <2>3. QED BY <1>2, <2>1, <2>2
  <1>3. QED BY <1>1, <1>2, SerialInductive, FreshInductive, PTL DEF Spec, ImplementsPlatformStore, Platform!Spec
=============================================================================
