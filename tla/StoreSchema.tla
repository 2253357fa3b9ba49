----------------------------- MODULE StoreSchema -----------------------------
(***************************************************************************)
(* The tables behind the Store protocol of backend/app/store.py and the    *)
(* calls made on it.  A request is one call of one method, from an API     *)
(* handler or a worker; a row it creates is identified by the request,     *)
(* except a trace event, whose id the caller chooses.                      *)
(* The database starts with one agent version, run and execution, all      *)
(* identified by Seed.                                                     *)
(***************************************************************************)
EXTENDS Naturals

CONSTANTS Requests,
          Seed, Nowhere,   \* an id in every table at first; an id in none
          Contents,        \* agent version contents, up to their content_hash
          SeedContent,
          SequenceNos,     \* bound: sequence numbers of trace events
          Results,         \* bound: the terminal statuses recorded
          SerialResults,   \* do callers keep to one record_result at a time per
                           \* execution, as the workers do?
          FreshEventIds,   \* does every trace event come with an id of its own, as
                           \* those of the workers' Trace do?
          KeyedEvents,     \* does the atomic store refuse an event id that it has, as
                           \* the primary key of Postgres does and the class
                           \* PlatformStore does not?
          Faults           \* may the connection to the store fail?

ASSUME SchemaAssumption ==
  /\ Seed \notin Requests /\ Nowhere \notin Requests /\ Seed # Nowhere
  /\ SeedContent \in Contents
  /\ Results \subseteq {"passed", "failed", "errored"}
  /\ SerialResults \in BOOLEAN /\ FreshEventIds \in BOOLEAN /\ KeyedEvents \in BOOLEAN
  /\ Faults \in BOOLEAN

VARIABLES call, reply,   \* per request
          versions,      \* id -> content
          runs,          \* id -> agent version
          executions,    \* id -> [run, status]; status stands for the whole result
          events,        \* trace_events rows
          verdicts       \* judge_verdicts rows

tables == <<versions, runs, executions, events, verdicts>>

RowIds == Requests \cup {Seed}
Final == {"passed", "failed", "errored"}   \* a TaskExecutionResult has no other

Insertions == {"create_run", "create_execution", "append_trace_event", "append_judge_verdict"}
RowReads == {"get_agent_version", "get_execution"}
ListReads == {"get_run_executions", "get_trace", "get_judge_verdicts"}

NoCall == [op |-> "none"]

\* A new event id is named after the request that brings it; a caller may also send
\* the id of another request's event.
Calls(ids) ==
  [op : {"create_agent_version"}, content : Contents]
    \cup [op : (Insertions \ {"append_trace_event"}) \cup RowReads \cup ListReads, id : ids]
    \cup [op : {"append_trace_event"}, id : ids, seq : SequenceNos, event : Requests]
    \cup [op : {"record_result"}, id : ids, status : Results]

\* The answer of a method: an HTTP status, 200 for any success, and a set of rows.
Reply(code, body) == [code |-> code, body |-> body]
NoReply == Reply(0, {})

IsReply(r) == DOMAIN r = {"code", "body"} /\ r.code \in {0, 200, 404, 409, 500}

TypeOK ==
  /\ call \in [Requests -> {NoCall} \cup Calls(RowIds \cup {Nowhere})]
  /\ \A q \in Requests : IsReply(reply[q])
  /\ DOMAIN versions \subseteq RowIds /\ \A v \in DOMAIN versions : versions[v] \in Contents
  /\ DOMAIN runs \subseteq RowIds /\ \A r \in DOMAIN runs : runs[r] \in DOMAIN versions
  /\ DOMAIN executions \subseteq RowIds
  /\ \A x \in DOMAIN executions :
       executions[x] \in [run : DOMAIN runs, status : {"pending"} \cup Final]
  /\ events \subseteq [execution : DOMAIN executions, seq : SequenceNos, id : Requests]
  /\ verdicts \subseteq [execution : DOMAIN executions, id : Requests]

SchemaInit ==
  /\ call = [q \in Requests |-> NoCall]
  /\ reply = [q \in Requests |-> NoReply]
  /\ versions = [v \in {Seed} |-> SeedContent]
  /\ runs = [r \in {Seed} |-> Seed]
  /\ executions = [x \in {Seed} |-> [run |-> Seed, status |-> "pending"]]
  /\ events = {} /\ verdicts = {}

\* A caller names rows it was told of; Nowhere stands for a wrong id.
KnownIds == {Seed, Nowhere} \cup {q \in Requests : reply[q].code = 200}

Waiting(q) == call[q] # NoCall /\ reply[q] = NoReply
Op(q) == call[q].op

Recording(x) == \E q \in Requests :
  Waiting(q) /\ Op(q) = "record_result" /\ call[q].id = x

Invoke(q) ==
  /\ call[q] = NoCall
  /\ \E c \in Calls(KnownIds) :
       /\ SerialResults /\ c.op = "record_result" => ~Recording(c.id)
       /\ FreshEventIds /\ c.op = "append_trace_event" => c.event = q
       /\ call' = [call EXCEPT ![q] = c]
  /\ UNCHANGED <<reply, tables>>

\* The row every call but create_agent_version looks up first.
ParentExists(c) ==
  c.id \in CASE c.op \in {"get_agent_version", "create_run"} -> DOMAIN versions
             [] c.op \in {"create_execution", "get_run_executions"} -> DOMAIN runs
             [] OTHER -> DOMAIN executions

SameContent(content) == {v \in DOMAIN versions : versions[v] = content}
DuplicateEvent(x, seq) == \E row \in events : row.execution = x /\ row.seq = seq
EventIdTaken(event) == \E row \in events : row.id = event
Finalized(x) == executions[x].status \in Final

\* The row that a method made or found, for its caller.
Row(id) == [id |-> id]

\* What a read returns; a trace is ordered by seq, so its set of rows says it all.
View(c) ==
  CASE c.op = "get_agent_version" -> {[content |-> versions[c.id]]}
    [] c.op = "get_execution" -> {executions[c.id]}
    [] c.op = "get_run_executions" -> {Row(x) : x \in {x \in DOMAIN executions : executions[x].run = c.id}}
    [] c.op = "get_trace" -> {row \in events : row.execution = c.id}
    [] c.op = "get_judge_verdicts" -> {row \in verdicts : row.execution = c.id}

Answer(q, code, body) == reply' = [reply EXCEPT ![q] = Reply(code, body)]
Lost(q) == Faults /\ Answer(q, 500, {})

WithRow(table, id, row) ==
  [x \in DOMAIN table \cup {id} |-> IF x = id THEN row ELSE table[x]]

\* The row that a call inserts.
Insert(q) ==
  LET c == call[q] IN
  /\ IF c.op = "create_agent_version" THEN versions' = WithRow(versions, q, c.content)
                                      ELSE UNCHANGED versions
  /\ IF c.op = "create_run" THEN runs' = WithRow(runs, q, c.id) ELSE UNCHANGED runs
  /\ IF c.op = "create_execution"
       THEN executions' = WithRow(executions, q, [run |-> c.id, status |-> "pending"])
       ELSE UNCHANGED executions
  /\ events' = IF c.op = "append_trace_event"
                 THEN events \cup {[execution |-> c.id, seq |-> c.seq, id |-> c.event]} ELSE events
  /\ verdicts' = IF c.op = "append_judge_verdict"
                   THEN verdicts \cup {[execution |-> c.id, id |-> q]} ELSE verdicts

SetResult(x, status) ==
  /\ executions' = [executions EXCEPT ![x].status = status]
  /\ UNCHANGED <<versions, runs, events, verdicts>>
=============================================================================
