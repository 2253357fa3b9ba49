---------------------------- MODULE PostgresStore ----------------------------
(***************************************************************************)
(* class PostgresStore of backend/app/postgres_store.py: every method is a *)
(* session of its own, READ COMMITTED, whose statements interleave with    *)
(* those of the other sessions.  commit() sends the INSERT or UPDATE and   *)
(* then COMMIT.  A statement that meets a uniqueness conflict with, or the *)
(* row lock of, an uncommitted transaction waits until that one ends.      *)
(***************************************************************************)
EXTENDS StoreSchema

VARIABLE at              \* per request: the point its session has reached

vars == <<call, reply, tables, at>>

Points == {"none",       \* not called yet
           "open",       \* the session has begun
           "checked",    \* the first SELECT let the method go on
           "flushed",    \* the INSERT or UPDATE is made and not committed
           "conflict",   \* IntegrityError on content_hash, rolled back
           "closed"}

SessionTypeOK ==
  /\ TypeOK
  /\ at \in [Requests -> Points]
  /\ \A q \in Requests : at[q] = "closed" <=> reply[q] # NoReply

Init == SchemaInit /\ at = [q \in Requests |-> "none"]

Goto(q, point) == at' = [at EXCEPT ![q] = point]
Close(q) == Goto(q, "closed") /\ UNCHANGED call
Advance(q, point) == Goto(q, point) /\ UNCHANGED <<call, reply, tables>>

Begin(q) == Invoke(q) /\ Goto(q, "open")

\* session.get finds nothing.
NotFound(q) ==
  /\ at[q] = "open"
  /\ Op(q) # "create_agent_version"
  /\ ~ParentExists(call[q])
  /\ Answer(q, 404, {})
  /\ Close(q) /\ UNCHANGED tables

\* create_agent_version's first SELECT finds the content.
FoundVersion(q) ==
  /\ at[q] = "open"
  /\ Op(q) = "create_agent_version"
  /\ \E v \in SameContent(call[q].content) : Answer(q, 200, {Row(v)})
  /\ Close(q) /\ UNCHANGED tables

\* record_result's status check.
AlreadyFinalized(q) ==
  /\ at[q] = "open"
  /\ Op(q) = "record_result"
  /\ ParentExists(call[q])
  /\ Finalized(call[q].id)
  /\ Answer(q, 409, {})
  /\ Close(q) /\ UNCHANGED tables

ReadRow(q) ==
  /\ at[q] = "open"
  /\ Op(q) \in RowReads
  /\ ParentExists(call[q])
  /\ Answer(q, 200, View(call[q]))
  /\ Close(q) /\ UNCHANGED tables

\* Mutant: the inserts no longer look their parent up.
CheckUnverified(q) ==
  /\ at[q] = "open"
  /\ CASE Op(q) = "create_agent_version" -> SameContent(call[q].content) = {}
       [] Op(q) = "record_result" -> ParentExists(call[q]) /\ ~Finalized(call[q].id)
       [] Op(q) \in ListReads -> ParentExists(call[q])
       [] OTHER -> Op(q) \in Insertions
  /\ Advance(q, "checked")

\* Mutant: record_result no longer looks at the status.
CheckStatusForgotten(q) ==
  /\ at[q] = "open"
  /\ CASE Op(q) = "create_agent_version" -> SameContent(call[q].content) = {}
       [] Op(q) \in Insertions \cup ListReads \cup {"record_result"} -> ParentExists(call[q])
       [] OTHER -> FALSE
  /\ Advance(q, "checked")

\* The first SELECT finds what the method needs: no such version yet, a result not
\* recorded yet, the parent row.
Check(q) ==
  /\ at[q] = "open"
  /\ CASE Op(q) = "create_agent_version" -> SameContent(call[q].content) = {}
       [] Op(q) = "record_result" -> ParentExists(call[q]) /\ ~Finalized(call[q].id)
       [] Op(q) \in Insertions \cup ListReads -> ParentExists(call[q])
       [] OTHER -> FALSE
  /\ Advance(q, "checked")

ReadList(q) ==
  /\ at[q] = "checked"
  /\ Op(q) \in ListReads
  /\ Answer(q, 200, View(call[q]))
  /\ Close(q) /\ UNCHANGED tables

\* Two uncommitted statements on one unique key, or on one row to update.
Collide(p, q) ==
  /\ Op(p) = Op(q)
  /\ CASE Op(q) = "create_agent_version" -> call[p].content = call[q].content
       [] Op(q) = "append_trace_event" ->
            \/ call[p].id = call[q].id /\ call[p].seq = call[q].seq
            \/ call[p].event = call[q].event
       [] Op(q) = "record_result" -> call[p].id = call[q].id
       [] OTHER -> FALSE

\* Mutant: the tables have no unique constraint.
NoConstraint(q) == FALSE

\* The committed row that UNIQUE (content_hash), UNIQUE (execution, sequence_no) or the
\* PRIMARY KEY of trace_events makes this INSERT fail on.
Violates(q) ==
  \/ Op(q) = "create_agent_version" /\ SameContent(call[q].content) # {}
  \/ /\ Op(q) = "append_trace_event"
     /\ DuplicateEvent(call[q].id, call[q].seq) \/ EventIdTaken(call[q].event)

\* Mutant: a request waits for any other one that makes the same call.
StatementDeadlocks(q) ==
  /\ at[q] = "checked"
  /\ Op(q) \in Insertions \cup {"create_agent_version", "record_result"}
  /\ \A p \in Requests \ {q} : at[p] \in {"checked", "flushed"} => ~Collide(p, q)

\* The INSERT or UPDATE is sent and does not have to wait.
Statement(q) ==
  /\ at[q] = "checked"
  /\ Op(q) \in Insertions \cup {"create_agent_version", "record_result"}
  /\ \A p \in Requests \ {q} : at[p] = "flushed" => ~Collide(p, q)

Flush(q) ==
  /\ Statement(q)
  /\ ~Violates(q)
  /\ Advance(q, "flushed")

\* IntegrityError: rollback, then 409 for an event, a second SELECT for a version.
FlushRejected(q) ==
  /\ Statement(q)
  /\ Violates(q)
  /\ IF Op(q) = "append_trace_event"
       THEN Answer(q, 409, {}) /\ Close(q) /\ UNCHANGED tables
       ELSE Advance(q, "conflict")

NewId(q) == IF Op(q) = "append_trace_event" THEN call[q].event ELSE q

\* The answer to the COMMIT may be lost.
Commit(q) ==
  /\ at[q] = "flushed"
  /\ IF Op(q) = "record_result"
       THEN /\ SetResult(call[q].id, call[q].status)
            /\ Answer(q, 200, {[status |-> call[q].status]}) \/ Lost(q)
       ELSE Insert(q) /\ (Answer(q, 200, {Row(NewId(q))}) \/ Lost(q))
  /\ Close(q)

\* scalar_one() after the conflict: raises if the row is not there.
Reselect(q) ==
  /\ at[q] = "conflict"
  /\ LET same == SameContent(call[q].content)
     IN IF same = {} THEN Answer(q, 500, {[error |-> "NoResultFound"]})
                     ELSE \E v \in same : Answer(q, 200, {Row(v)})
  /\ Close(q) /\ UNCHANGED tables

\* The connection fails before COMMIT: the server rolls back.
Abort(q) ==
  /\ at[q] \in {"open", "checked", "flushed", "conflict"}
  /\ Lost(q)
  /\ Close(q) /\ UNCHANGED tables

Progress(q) ==
  \/ NotFound(q) \/ FoundVersion(q) \/ AlreadyFinalized(q) \/ ReadRow(q) \/ Check(q)
  \/ ReadList(q) \/ Flush(q) \/ FlushRejected(q) \/ Commit(q) \/ Reselect(q)

Next == \E q \in Requests : Begin(q) \/ Progress(q) \/ Abort(q)

Spec == Init /\ [][Next]_vars

-----------------------------------------------------------------------------
\* Properties.

\* PostgresStore implements the atomic Store, faults included (backend/app/store.py: it
\* "can replace this implementation without changing API contracts"), as long as callers
\* serialise record_result per execution: its check-then-act sessions cannot be told apart
\* from single steps, whatever the interleaving.  The in-memory store is the one without
\* KeyedEvents, and its contract is only kept towards callers that send no event id twice.
Platform == INSTANCE PlatformStore
ImplementsPlatformStore == Platform!Spec

\* Creating a version is idempotent on content under races: all the callers who got
\* an answer got the same id, and get it again later.
Created(q) == Op(q) = "create_agent_version" /\ reply[q].code = 200
OneVersionPerContent ==
  \A p, q \in Requests :
    Created(p) /\ Created(q) /\ call[p].content = call[q].content
      => reply[p].body = reply[q].body

\* Sessions never wait for each other in a circle: as long as a call is unanswered,
\* the database can take some session a step further without any connection failing.
SomeCallProceeds ==
  (\E q \in Requests : call[q] # NoCall /\ reply[q] = NoReply)
    => \E q \in Requests : ENABLED Progress(q)

\* docs/data-model-invariants.md: "Finalization is one-way and enforced".
FinalizationIsOneWay ==
  [][\A x \in DOMAIN executions :
       Finalized(x) => executions'[x].status = executions[x].status]_vars
=============================================================================
