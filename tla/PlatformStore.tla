---------------------------- MODULE PlatformStore ----------------------------
(***************************************************************************)
(* The Store protocol as class PlatformStore of backend/app/store.py       *)
(* implements it: every method takes effect in one step, since none of     *)
(* them awaits anything but another method that does not.  With Faults, a  *)
(* remote store of the same kind: a call may fail without effect, or take  *)
(* effect and lose its answer.  With KeyedEvents, which the class does not *)
(* have, an event id that is already stored is refused like a duplicate    *)
(* sequence number.                                                        *)
(***************************************************************************)
EXTENDS StoreSchema

vars == <<call, reply, tables>>

Init == SchemaInit

NotFound(q) ==
  /\ Op(q) # "create_agent_version"
  /\ ~ParentExists(call[q])
  /\ Answer(q, 404, {})
  /\ UNCHANGED tables

CreateAgentVersion(q) ==
  /\ Op(q) = "create_agent_version"
  /\ IF SameContent(call[q].content) = {}
       THEN Insert(q) /\ (Answer(q, 200, {Row(q)}) \/ Lost(q))
       ELSE UNCHANGED tables /\ \E v \in SameContent(call[q].content) : Answer(q, 200, {Row(v)})

CreateRow(q) ==
  /\ Op(q) \in Insertions \ {"append_trace_event"}
  /\ ParentExists(call[q])
  /\ Insert(q)
  /\ Answer(q, 200, {Row(q)}) \/ Lost(q)

AppendTraceEvent(q) ==
  /\ Op(q) = "append_trace_event"
  /\ ParentExists(call[q])
  /\ IF DuplicateEvent(call[q].id, call[q].seq) \/ (KeyedEvents /\ EventIdTaken(call[q].event))
       THEN Answer(q, 409, {}) /\ UNCHANGED tables
       ELSE Insert(q) /\ (Answer(q, 200, {Row(call[q].event)}) \/ Lost(q))

RecordResult(q) ==
  /\ Op(q) = "record_result"
  /\ ParentExists(call[q])
  /\ IF Finalized(call[q].id)
       THEN Answer(q, 409, {}) /\ UNCHANGED tables
       ELSE /\ SetResult(call[q].id, call[q].status)
            /\ Answer(q, 200, {[status |-> call[q].status]}) \/ Lost(q)

Read(q) ==
  /\ Op(q) \in RowReads \cup ListReads
  /\ ParentExists(call[q])
  /\ Answer(q, 200, View(call[q]))
  /\ UNCHANGED tables

Fail(q) == Lost(q) /\ UNCHANGED tables

Execute(q) ==
  /\ Waiting(q)
  /\ \/ NotFound(q) \/ CreateAgentVersion(q) \/ CreateRow(q) \/ AppendTraceEvent(q)
     \/ RecordResult(q) \/ Read(q) \/ Fail(q)
  /\ UNCHANGED call

Next == \E q \in Requests : Invoke(q) \/ Execute(q)

Spec == Init /\ [][Next]_vars
=============================================================================
