----------------------------- MODULE JudgePanel -----------------------------
(***************************************************************************)
(* The LLM judges on the finished executions of a task: run_judges asks    *)
(* each selected judge's model and parses its answer (judges/llm.py,       *)
(* judges/orchestration.py), the worker stores the verdicts one by one     *)
(* (runner/worker.py), and agreement.py, gold.py and the judge results     *)
(* page read what is stored.  An execution is judged once: a retry of its  *)
(* job is refused at event 0 (EvaluationPipeline).                         *)
(***************************************************************************)
EXTENDS Integers, Sequences, FiniteSets, SequencesExt

CONSTANTS N,            \* bound: executions of the task, judged one after another
          Answers       \* what a model may answer: sequences of Lines

Labels == {"pass", "fail", "uncertain"}
OutOfRange == 15        \* CONFIDENCE: 1.5 matches [01](\.\d+)?
Line(kind, value) == [kind |-> kind, value |-> value]

\* The lines that the three patterns tell apart; a rationale may be empty, white
\* space, or text, and any other line, a label unknown to the pattern included, is
\* prose.
Lines == [kind : {"label"}, value : Labels]
           \cup {Line("confidence", 8), Line("confidence", OutOfRange), Line("prose", "")}
           \cup [kind : {"rationale"}, value : {"nothing", "blank", "text"}]

ASSUME PanelAssumption ==
  /\ N \in Nat
  /\ Answers \subseteq Seq(Lines)

Executions == 1..N

VARIABLES current,   \* the execution being judged
          judges,    \* its selected judges
          raw,       \* the last answer, until verdicts are stored
          panel,     \* the verdicts of run_judges so far
          stored,    \* execution -> judge_verdicts rows, in order
          outcome    \* execution -> how its judging ended

vars == <<current, judges, raw, panel, stored, outcome>>

Init ==
  /\ current = 0 /\ judges = <<>> /\ raw = <<>> /\ panel = <<>>
  /\ stored = [x \in Executions |-> <<>>]
  /\ outcome = [x \in Executions |-> "none"]

-----------------------------------------------------------------------------
\* Parsing

At(a, kind) == {i \in DOMAIN a : a[i].kind = kind}
LastOf(S) == CHOOSE i \in S : \A j \in S : j <= i      \* mutant: the last match wins
FirstOf(S) == CHOOSE i \in S : \A j \in S : i <= j

\* RATIONALE:\s*(.+) takes all that follows, and needs a character to take.
Rationales(a) == {i \in At(a, "rationale") : a[i].value # "nothing" \/ i < Len(a)}
RationaleOf(a) ==
  LET i == FirstOf(Rationales(a)) IN IF a[i].value = "text" \/ i < Len(a) THEN "text" ELSE ""

\* parse_judge_response does not raise.
Parsed(a) ==
  /\ At(a, "label") # {} /\ At(a, "confidence") # {} /\ Rationales(a) # {}
  /\ a[FirstOf(At(a, "confidence"))].value <= 10

VerdictOf(judge, a) ==
  [judge |-> judge, label |-> a[FirstOf(At(a, "label"))].value,
   confidence |-> a[FirstOf(At(a, "confidence"))].value, rationale |-> RationaleOf(a)]

\* JudgeVerdictCreate, once more than the parser.
Acceptable(v) == v.confidence <= 10 /\ v.rationale # ""

-----------------------------------------------------------------------------
\* Judging

\* What run_task left as final_output; an empty one is no response to grade.
SelectJudges(final) == IF final = "text" THEN <<"policy_judge", "response_quality_judge">> ELSE <<"policy_judge">>

Judging == current # 0 /\ outcome[current] = "none"
End(how) == outcome' = [outcome EXCEPT ![current] = how] /\ UNCHANGED <<current, judges>>

Begin ==
  /\ ~Judging /\ current + 1 \in Executions
  /\ current' = current + 1
  /\ \E final \in {"none", "", "text"} : judges' = SelectJudges(final)
  /\ raw' = <<>> /\ panel' = <<>>
  /\ UNCHANGED <<stored, outcome>>

\* Judge.evaluate; an error in one judge is an error of run_judges.
Evaluate ==
  /\ Judging /\ Len(panel) < Len(judges)
  /\ \E a \in Answers :
       /\ raw' = a
       /\ IF Parsed(a)
            THEN panel' = Append(panel, VerdictOf(judges[Len(panel) + 1], a)) /\ UNCHANGED <<current, judges, outcome>>
            ELSE End("unreadable") /\ UNCHANGED panel
  /\ UNCHANGED stored

Rows == stored[current]

\* Mutant: run_judges is a generator, each verdict is stored before the next judge.
NextVerdictLazily == Judging /\ Len(Rows) < Len(panel)

\* The loop of process_job begins when the last judge has answered.
NextVerdict == Judging /\ Len(panel) = Len(judges) /\ Len(Rows) < Len(panel)

StoreVerdict ==
  /\ NextVerdict
  /\ LET v == panel[Len(Rows) + 1]
     IN IF ~Acceptable(v) THEN End("refused") /\ UNCHANGED stored
        ELSE /\ stored' = [stored EXCEPT ![current] = Append(@, v)]
             /\ End("interrupted") \/ UNCHANGED <<current, judges, outcome>>
  /\ raw' = <<>> /\ UNCHANGED panel

\* append_judge_verdict fails and nothing is stored, or every row is and the job
\* is acked.
Interrupt == NextVerdict /\ End("interrupted") /\ raw' = <<>> /\ UNCHANGED <<panel, stored>>
Complete ==
  /\ Judging /\ Len(Rows) = Len(judges)
  /\ End("complete") /\ UNCHANGED <<raw, panel, stored>>

Next == Begin \/ Evaluate \/ StoreVerdict \/ Interrupt \/ Complete

Spec == Init /\ [][Next]_vars

-----------------------------------------------------------------------------
\* Reading the verdicts

LabelsOf(vs) == {vs[i].label : i \in DOMAIN vs}
Count(vs, l) == Cardinality({i \in DOMAIN vs : vs[i].label = l})
MaxCount(vs) == CHOOSE n \in {Count(vs, l) : l \in LabelsOf(vs)} : \A l \in LabelsOf(vs) : Count(vs, l) <= n
TopLabels(vs) == {l \in LabelsOf(vs) : Count(vs, l) = MaxCount(vs)}

\* Mutant: the first of the top labels, as Counter.most_common gives it.
ConsensusByOrder(vs) == IF vs = <<>> THEN "none" ELSE
  vs[FirstOf({i \in DOMAIN vs : vs[i].label \in TopLabels(vs)})].label

\* summarize_agreement, for at least one verdict, at the default threshold 1.0.
Consensus(vs) == IF Cardinality(TopLabels(vs)) = 1 THEN CHOOSE l \in TopLabels(vs) : TRUE ELSE "none"
Disagreement(vs) == MaxCount(vs) < Len(vs)

\* pairwise_agreement_rate, as a fraction of the pairs.
Pairs(vs) == {p \in (DOMAIN vs) \X (DOMAIN vs) : p[1] < p[2]}
Agreeing(vs) == {p \in Pairs(vs) : vs[p[1]].label = vs[p[2]].label}

\* compare_verdicts_to_gold and summarize_gold_agreement: the verdicts of a judge that
\* agree with the task's gold label.
OfJudge(vs, judge) == {i \in DOMAIN vs : vs[i].judge = judge}
GoldAgrees(vs, judge, gold) == {i \in OfJudge(vs, judge) : vs[i].label = gold}

\* judgesDisagree of the judge results page.
Banner(vs) == Cardinality(LabelsOf(vs)) > 1

OfTask == FlattenSeq(stored)

-----------------------------------------------------------------------------
\* Properties

\* The format that build_prompt asks for.
Requested(a) ==
  /\ Len(a) >= 3 /\ a[1].kind = "label" /\ a[2] = Line("confidence", 8)
  /\ a[3] = Line("rationale", "text")

\* A model that answers in the requested format gets its verdict, whatever its
\* rationale goes on to say, other labels included; and no verdict claims a label or
\* a confidence that its model did not give.
VerdictIsTheModels ==
  raw # <<>> =>
    /\ Requested(raw) => Judging /\ Last(panel).label = raw[1].value /\ Acceptable(Last(panel))
    /\ Judging => /\ Line("label", Last(panel).label) \in ToSet(raw)
                  /\ Line("confidence", Last(panel).confidence) \in ToSet(raw)

\* One unreadable answer and no verdict of the panel is kept, not even those of the
\* judges asked before; a whole panel is stored in the judges' order; and only valid
\* verdicts are (a blank rationale passes the parser).
PanelIsStoredInOrder ==
  \A x \in Executions :
    /\ outcome[x] = "unreadable" => stored[x] = <<>>
    /\ x = current => /\ IsPrefix(stored[x], panel)
                      /\ \A i \in DOMAIN stored[x] : stored[x][i].judge = judges[i]
                      /\ outcome[x] = "complete" => Len(stored[x]) = Len(judges)
    /\ \A i \in DOMAIN stored[x] : Acceptable(stored[x][i])

\* Disagreement is surfaced and not averaged away, however many executions a task
\* has: the report, the pairwise rate and the page's banner say the same, there is a
\* consensus exactly when one label outnumbers each other one, and judges that all
\* agree with the gold label have it as their consensus.
DisagreementSurfaces ==
  \A vs \in {stored[x] : x \in Executions} \cup {OfTask} : vs # <<>> =>
    /\ Disagreement(vs) <=> Banner(vs)
    /\ Disagreement(vs) <=> Agreeing(vs) # Pairs(vs)
    /\ \A l \in Labels :
         Consensus(vs) = l <=> l \in LabelsOf(vs) /\ \A m \in LabelsOf(vs) \ {l} : Count(vs, m) < Count(vs, l)
    /\ \A gold \in Labels :
         (\A i \in DOMAIN vs : GoldAgrees(vs, vs[i].judge, gold) = OfJudge(vs, vs[i].judge))
           <=> Consensus(vs) = gold /\ ~Disagreement(vs)
=============================================================================
