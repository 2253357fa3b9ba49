---------------------------- MODULE TraceReplay ----------------------------
(***************************************************************************)
(* From an attribution to the event on the screen: the links of the        *)
(* comparison page, App's tab and trace request, the trace page that       *)
(* GET /executions/{id}/trace returns, and the trace replay page with its  *)
(* one form (frontend/src/App.tsx, components/TraceReplayPage.tsx).        *)
(***************************************************************************)
EXTENDS PairedRuns

CONSTANT PageSize      \* the route's default limit, 200; the frontend sends none

ASSUME PageAssumption == PageSize \in Nat \ {0}

VARIABLES request,     \* App's traceRequest
          page         \* the mounted TraceReplayPage, or Closed

replayVars == <<request, page>>

Sides == {"baseline", "candidate"}
Question(execution, event) == [execution |-> execution, event |-> event]
Nothing == [execution |-> "none", selected |-> 0]
Manual == Question("none", 0)
Mounted(flights, asked) == [flights |-> flights, asked |-> asked, shown |-> Nothing]
Closed == Mounted({}, Question("closed", 0))

\* The stored trace of a side and the events of it that the route returns.
Stored(side) == IF side = "baseline" THEN baseline.trace ELSE StoredTrace(trace)
Page(side) == SubSeq(Stored(side), 1, IF PageSize < Len(Stored(side)) THEN PageSize ELSE Len(Stored(side)))

ReplayInit == PairInit /\ request = Manual /\ page = Closed

Ready == page # Closed /\ page.flights = {}

\* AttributionNote: the blamed event of a side, null if its run ended before it.
Link(side) == Question(side, IF side = "baseline" THEN attribution.baseline ELSE attribution.candidate)

\* handleViewTrace, from the attribution or from a task's detail page.
View(question) ==
  /\ page = Closed
  /\ request' = question /\ page' = Mounted({question}, question)
  /\ UNCHANGED pairVars

\* The tab is shown again: the page mounts anew and asks for the last request.
OpenTab ==
  /\ page = Closed
  /\ page' = Mounted(IF request = Manual THEN {} ELSE {request}, request)
  /\ UNCHANGED <<pairVars, request>>

\* Another tab: what is under way is answered to nobody.
LeaveTab == page # Closed /\ page' = Closed /\ UNCHANGED <<pairVars, request>>

\* Mutant: the button stays enabled while a trace is loading.
SubmitAnyTime(question) ==
  /\ page # Closed
  /\ page' = [page EXCEPT !.flights = @ \cup {question}, !.asked = question]
  /\ UNCHANGED <<pairVars, request>>

\* The button is disabled while a trace is loading.
Submit(question) ==
  /\ Ready
  /\ page' = [page EXCEPT !.flights = @ \cup {question}, !.asked = question]
  /\ UNCHANGED <<pairVars, request>>

\* The selected row: the highlighted event if the page has it, else the first.
Landing(question) == IF question.event \in DOMAIN Page(question.execution) THEN question.event ELSE 1

\* Mutant: the selection of the trace shown before is kept.
ArriveUnselected(question) ==
  /\ question \in page.flights
  /\ page' = [page EXCEPT !.flights = @ \ {question},
                          !.shown = [execution |-> question.execution,
                                     selected |-> IF @ = Nothing THEN Landing(question) ELSE @.selected]]
  /\ UNCHANGED <<pairVars, request>>

Arrive(question) ==
  /\ question \in page.flights
  /\ page' = [page EXCEPT !.flights = @ \ {question},
                          !.shown = [execution |-> question.execution, selected |-> Landing(question)]]
  /\ UNCHANGED <<pairVars, request>>

Fail(question) ==
  /\ question \in page.flights
  /\ page' = [page EXCEPT !.flights = @ \ {question}, !.shown = Nothing]
  /\ UNCHANGED <<pairVars, request>>

Replay ==
  /\ Attributed
  /\ \/ OpenTab \/ LeaveTab
     \/ \E side \in Sides : \E question \in {Link(side), Question(side, 0)} :
          View(question) \/ Submit(question) \/ Arrive(question) \/ Fail(question)

ReplayNext == (PairNext /\ UNCHANGED replayVars) \/ Replay

ReplaySpec == ReplayInit /\ [][ReplayNext]_<<pairVars, replayVars>>

-----------------------------------------------------------------------------
\* Trace.from_storage

\* trace_events rows of a run: a step's id is its place.
StorageRows(t) == {[seq |-> i - 1, id |-> i, parent |-> t[i].parent, event |-> Redacted(t[i])] : i \in DOMAIN t}

\* Mutant: rows are taken in order, gaps or not.
GapFreeUnchecked(rows) == TRUE

\* expected_sequence_no counts the rows, sorted by sequence_no, from 0.
GapFree(rows) == {row.seq : row \in rows} = 0..(Cardinality(rows) - 1)

\* A parent must be the id of an earlier row.
ParentsKnown(rows) ==
  \A row \in rows : row.parent = NoParent \/ \E p \in rows : p.id = row.parent /\ p.seq < row.seq

Readable(rows) == GapFree(rows) /\ ParentsKnown(rows)
FromStorage(rows) == [i \in 1..Cardinality(rows) |-> (CHOOSE row \in rows : row.seq = i - 1).event]

-----------------------------------------------------------------------------
\* Properties

\* A stored trace reads back as what was recorded, and with an event missing it is
\* refused instead of being taken for another run, unless the missing event is the
\* last: a trace whose run was cut off reads as a shorter run.
StorageRoundTrip ==
  Compared =>
    LET rows == StorageRows(trace) IN
    /\ Readable(rows) /\ FromStorage(rows) = StoredTrace(trace)
    /\ \A row \in rows : Readable(rows \ {row}) <=> row.id = Len(trace)

\* The page shows the answer to the last question it was asked, although answers
\* come when they come and tabs change in between (setEvents runs for any answer).
ShownAnswersLastQuestion ==
  Ready /\ page.shown # Nothing =>
    page.shown = [execution |-> page.asked.execution, selected |-> Landing(page.asked)]

Differ(i) ==
  \/ ~(i \in DOMAIN Stored("baseline") /\ i \in DOMAIN Stored("candidate"))
  \/ EventDivergence(Stored("baseline")[i], Stored("candidate")[i]) # "none"

FirstDifference(i) == Differ(i) /\ \A k \in 1..(i - 1) : ~Differ(k)

\* The page shows what a link of the attribution asked for.
LinkFollowed == Ready /\ page.shown # Nothing /\ page.asked = Link(page.shown.execution)

\* Following an attribution's link to an event that is on the page selects the first
\* row at which the two stored traces differ, whatever was shown or asked before.
LinkLandsOnDivergence ==
  LinkFollowed /\ page.asked.event \in DOMAIN Page(page.shown.execution) =>
    FirstDifference(page.shown.selected)

\* docs/roadmap-issues-gaurav.md of the trace replay view: "a regressed run can be replayed
\* and the first divergence is visually highlighted".
RegressionIsHighlighted ==
  LinkFollowed /\ page.asked.event # 0 => FirstDifference(page.shown.selected)
=============================================================================
