-------------------------- MODULE JudgePanelProofs --------------------------
(***************************************************************************)
(* What is stored of a panel of judges, for every number of executions and *)
(* every set of answers that models may give: whole panels in order, the   *)
(* verdicts that the models gave, and readers who agree on disagreement.   *)
(***************************************************************************)
EXTENDS JudgePanel, SequenceLemmas, FiniteSetTheorems

JudgeNames == {"policy_judge", "response_quality_judge"}
Verdicts == [judge : JudgeNames, label : Labels, confidence : {8, OutOfRange}, rationale : {"text", ""}]
Outcomes == {"none", "unreadable", "refused", "interrupted", "complete"}

-----------------------------------------------------------------------------
\* Parsing

LEMMA FirstOfNaturals ==
  ASSUME NEW S, S \subseteq Nat, S # {}
  PROVE  FirstOf(S) \in S /\ \A j \in S : FirstOf(S) <= j
  BY LeastNatural DEF FirstOf

LEMMA LineShape ==
  ASSUME NEW l \in Lines
  PROVE  /\ l = Line(l.kind, l.value)
         /\ l.kind = "label" => l.value \in Labels
         /\ l.kind = "confidence" => l.value \in {8, OutOfRange}
  <1>1. CASE l \in [kind : {"label"}, value : Labels]
    BY <1>1 DEF Line
  <1>2. CASE l \in [kind : {"rationale"}, value : {"nothing", "blank", "text"}]
    BY <1>2 DEF Line
  <1>3. CASE l \in {Line("confidence", 8), Line("confidence", OutOfRange)}
    <2>1. l.kind = "confidence"
      BY <1>3 DEF Line
    <2>2. QED BY <1>3, <2>1 DEF Line
  <1>4. CASE l = Line("prose", "")
    BY <1>4 DEF Line
  <1>5. QED BY <1>1, <1>2, <1>3, <1>4 DEF Lines

LEMMA Matched ==
  ASSUME NEW a \in Answers
  PROVE  /\ Len(a) \in Nat /\ DOMAIN a = 1..Len(a) /\ \A i \in DOMAIN a : a[i] \in Lines
         /\ \A kind : At(a, kind) # {} => /\ FirstOf(At(a, kind)) \in DOMAIN a
                                          /\ a[FirstOf(At(a, kind))].kind = kind
         /\ \A kind : \A i \in At(a, kind) : (\A j \in At(a, kind) : i <= j) => FirstOf(At(a, kind)) = i
         /\ Rationales(a) # {} => FirstOf(Rationales(a)) \in Rationales(a)
         /\ \A i \in Rationales(a) : (\A j \in Rationales(a) : i <= j) => FirstOf(Rationales(a)) = i
  <1>1. a \in Seq(Lines)
    BY PanelAssumption DEF PanelAssumption
  <1>2. Len(a) \in Nat /\ DOMAIN a = 1..Len(a) /\ \A i \in DOMAIN a : a[i] \in Lines
    BY <1>1, LenProperties, ElementOfSeq
  <1>3. /\ Rationales(a) \subseteq Nat
        /\ \A kind : At(a, kind) \subseteq Nat
    BY <1>2 DEF Rationales, At
  <1>4. ASSUME NEW S, S \subseteq Nat, NEW i \in S, \A j \in S : i <= j
        PROVE  FirstOf(S) = i
    <2>1. FirstOf(S) \in S /\ FirstOf(S) <= i
      BY <1>4, FirstOfNaturals
    <2>2. FirstOf(S) \in Nat /\ i \in Nat /\ i <= FirstOf(S)
      BY <1>4, <2>1
    <2>3. QED BY <2>1, <2>2
  <1>5. \A kind : At(a, kind) # {} => FirstOf(At(a, kind)) \in At(a, kind)
    BY <1>3, FirstOfNaturals
  <1>6. QED BY <1>2, <1>3, <1>4, <1>5, FirstOfNaturals DEF At

\* A readable answer gives a verdict: the label and the confidence are the model's.
LEMMA VerdictOfAnswer ==
  ASSUME NEW a \in Answers, Parsed(a), NEW judge \in JudgeNames
  PROVE  /\ VerdictOf(judge, a) \in Verdicts
         /\ Line("label", VerdictOf(judge, a).label) \in ToSet(a)
         /\ Line("confidence", VerdictOf(judge, a).confidence) \in ToSet(a)
  <1> DEFINE l == FirstOf(At(a, "label"))   c == FirstOf(At(a, "confidence"))
  <1>1. /\ l \in DOMAIN a /\ a[l].kind = "label" /\ a[l] \in Lines
        /\ c \in DOMAIN a /\ a[c].kind = "confidence" /\ a[c] \in Lines
    BY Matched DEF Parsed
  <1>2. /\ a[l].value \in Labels /\ a[l] = Line("label", a[l].value)
        /\ a[c].value \in {8, OutOfRange} /\ a[c] = Line("confidence", a[c].value)
    BY <1>1, LineShape
  <1>3. RationaleOf(a) \in {"text", ""}
    BY DEF RationaleOf
  <1>4. VerdictOf(judge, a) \in Verdicts
    BY <1>2, <1>3 DEF VerdictOf, Verdicts
  <1>5. QED BY <1>1, <1>2, <1>4 DEF VerdictOf, ToSet

\* An answer in the requested format is readable, whatever follows its first three lines.
LEMMA RequestedIsParsed ==
  ASSUME NEW a \in Answers, Requested(a), NEW judge
  PROVE  Parsed(a) /\ VerdictOf(judge, a).label = a[1].value /\ Acceptable(VerdictOf(judge, a))
  <1>1. /\ Len(a) \in Nat /\ Len(a) >= 3 /\ DOMAIN a = 1..Len(a)
        /\ a[1].kind = "label"
        /\ a[2].kind = "confidence" /\ a[2].value = 8
        /\ a[3].kind = "rationale" /\ a[3].value = "text"
    BY Matched DEF Requested, Line
  <1>2. FirstOf(At(a, "label")) = 1 /\ At(a, "label") # {}
    <2>1. 1 \in At(a, "label") /\ \A j \in At(a, "label") : 1 <= j
      BY <1>1 DEF At
    <2>2. QED BY <2>1, Matched
  <1>3. FirstOf(At(a, "confidence")) = 2 /\ At(a, "confidence") # {}
    <2>1. 2 \in At(a, "confidence") /\ \A j \in At(a, "confidence") : 2 <= j
      BY <1>1 DEF At
    <2>2. QED BY <2>1, Matched
  <1>4. FirstOf(Rationales(a)) = 3 /\ Rationales(a) # {}
    <2>1. 3 \in Rationales(a)
      BY <1>1 DEF Rationales, At
    <2>2. ASSUME NEW j \in Rationales(a) PROVE 3 <= j
      <3>1. j \in 1..Len(a) /\ a[j].kind = "rationale"
        BY <1>1 DEF Rationales, At
      <3>2. j # 1 /\ j # 2
        BY <1>1, <3>1
      <3>3. QED BY <1>1, <3>1, <3>2
    <2>3. QED BY <2>1, <2>2, Matched
  <1>5. RationaleOf(a) = "text"
    BY <1>1, <1>4 DEF RationaleOf
  <1>6. QED BY <1>1, <1>2, <1>3, <1>4, <1>5 DEF Parsed, VerdictOf, Acceptable

-----------------------------------------------------------------------------
\* The invariant

ShapeInv ==
  /\ current \in 0..N
  /\ judges \in Seq(JudgeNames) /\ (current # 0 => Len(judges) > 0)
  /\ panel \in Seq(Verdicts) /\ Len(panel) <= Len(judges)
  /\ \A i \in 1..Len(panel) : panel[i].judge = judges[i]
  /\ raw \in Answers \cup {<<>>}
  /\ stored \in [Executions -> Seq(Verdicts)] /\ outcome \in [Executions -> Outcomes]

\* Executions are judged in turn; nothing is stored before the whole panel has
\* answered, and what is stored is a prefix of it.
StoredInv ==
  /\ \A x \in Executions :
       /\ x > current => stored[x] = <<>> /\ outcome[x] = "none"
       /\ outcome[x] = "unreadable" => stored[x] = <<>>
       /\ \A i \in 1..Len(stored[x]) : Acceptable(stored[x][i])
  /\ current # 0 =>
       /\ Len(stored[current]) <= Len(panel)
       /\ \A i \in 1..Len(stored[current]) : stored[current][i] = panel[i]
       /\ stored[current] # <<>> => Len(panel) = Len(judges)
       /\ outcome[current] = "complete" => Len(stored[current]) = Len(judges)

\* An answer that is still at hand has just been parsed.
RawInv ==
  raw # <<>> =>
    /\ current # 0 /\ stored[current] = <<>>
    /\ Parsed(raw) => /\ outcome[current] = "none" /\ panel # <<>>
                      /\ panel[Len(panel)] = VerdictOf(judges[Len(panel)], raw)
    /\ ~Parsed(raw) => outcome[current] # "none"

PanelInv == ShapeInv /\ StoredInv /\ RawInv

LEMMA InitInv == Init => PanelInv
  <1> SUFFICES ASSUME Init PROVE PanelInv
    OBVIOUS
  <1>1. /\ <<>> \in Seq(JudgeNames) /\ <<>> \in Seq(Verdicts) /\ Len(<<>>) = 0
    BY EmptySeq
  <1>2. ShapeInv
    BY <1>1, PanelAssumption DEF Init, ShapeInv, Outcomes, PanelAssumption
  <1>3. StoredInv
    BY <1>1 DEF Init, StoredInv
  <1>4. QED BY <1>2, <1>3 DEF Init, PanelInv, RawInv

LEMMA CurrentIsOne ==
  ASSUME ShapeInv, current # 0
  PROVE  /\ current \in Executions /\ current \in Nat /\ N \in Nat
         /\ Len(judges) \in Nat /\ Len(panel) \in Nat /\ DOMAIN panel = 1..Len(panel) /\ Rows \in Seq(Verdicts)
         /\ Len(Rows) \in Nat /\ Len(judges) > 0 /\ (Len(Rows) = 0 <=> Rows = <<>>) /\ (Len(panel) = 0 <=> panel = <<>>)
  <1>1. current \in Executions /\ N \in Nat
    BY PanelAssumption DEF ShapeInv, Executions, PanelAssumption
  <1>2. Rows \in Seq(Verdicts)
    BY <1>1 DEF ShapeInv, Rows
  <1>3. QED BY <1>1, <1>2, LenProperties, EmptySeq DEF ShapeInv, Executions

LEMMA StepInv == PanelInv /\ [Next]_vars => PanelInv'
  <1> SUFFICES ASSUME PanelInv, [Next]_vars PROVE PanelInv'
    OBVIOUS
  <1> USE DEF PanelInv
  <1>1. CASE Begin
    <2>0. /\ current' = current + 1 /\ current + 1 \in Executions
          /\ raw' = <<>> /\ panel' = <<>> /\ stored' = stored /\ outcome' = outcome
          /\ current \in Nat /\ N \in Nat
      <3>1. current \in Nat /\ N \in Nat
        BY PanelAssumption DEF ShapeInv, PanelAssumption
      <3>2. QED BY <1>1, <3>1 DEF Begin
    <2>1. /\ current' \in Executions /\ current' \in 1..N /\ current' > current
          /\ raw' = <<>> /\ panel' = <<>> /\ stored' = stored /\ outcome' = outcome
          /\ current' = current + 1 /\ current \in Nat
      BY <2>0 DEF Executions
    <2>2. judges' \in Seq(JudgeNames) /\ Len(judges') > 0
      <3>1. PICK final : judges' = SelectJudges(final)
        BY <1>1 DEF Begin
      <3>2. /\ <<"policy_judge">> \in Seq(JudgeNames) /\ Len(<<"policy_judge">>) = 1
            /\ <<"policy_judge", "response_quality_judge">> \in Seq(JudgeNames)
            /\ Len(<<"policy_judge", "response_quality_judge">>) = 2
        BY DEF JudgeNames
      <3>3. QED BY <3>1, <3>2 DEF SelectJudges
    <2>3. <<>> \in Seq(Verdicts) /\ Len(<<>>) = 0 /\ Len(judges') \in Nat
      BY <2>2, EmptySeq, LenProperties
    <2>4. ShapeInv'
      BY <2>1, <2>2, <2>3 DEF ShapeInv
    <2>5. stored[current'] = <<>> /\ outcome[current'] = "none"
      BY <2>1 DEF StoredInv
    <2>6. \A x \in Executions : x > current' => x > current
      BY <2>1 DEF Executions
    <2>7. StoredInv'
      BY <2>1, <2>3, <2>5, <2>6 DEF StoredInv
    <2>8. QED BY <2>1, <2>4, <2>7 DEF RawInv
  <1>2. CASE Evaluate
    <2>1. PICK a \in Answers :
            /\ raw' = a
            /\ IF Parsed(a)
                 THEN panel' = Append(panel, VerdictOf(judges[Len(panel) + 1], a)) /\ UNCHANGED <<current, judges, outcome>>
                 ELSE End("unreadable") /\ UNCHANGED panel
      BY <1>2 DEF Evaluate
    <2>2. /\ stored' = stored /\ current' = current /\ judges' = judges /\ current # 0 /\ outcome[current] = "none"
          /\ Len(panel) < Len(judges)
      BY <1>2, <2>1 DEF Evaluate, Judging, End
    <2>3. /\ current \in Executions /\ Len(judges) \in Nat /\ Len(panel) \in Nat /\ DOMAIN panel = 1..Len(panel)
          /\ stored[current] = <<>> /\ Len(<<>>) = 0
      <3>1. Len(panel) # Len(judges) /\ stored[current] = <<>>
        BY <2>2, CurrentIsOne DEF StoredInv
      <3>2. QED BY <2>2, <3>1, CurrentIsOne, EmptySeq
    <2>4. CASE Parsed(a)
      <3>1. PICK v : v = VerdictOf(judges[Len(panel) + 1], a)
        OBVIOUS
      <3>2. judges[Len(panel) + 1] \in JudgeNames /\ v \in Verdicts /\ v.judge = judges[Len(panel) + 1]
        <4>1. Len(panel) + 1 \in 1..Len(judges)
          BY <2>2, <2>3
        <4>2. judges[Len(panel) + 1] \in JudgeNames
          BY <4>1, ElementOfSeq DEF ShapeInv
        <4>3. QED BY <2>4, <3>1, <4>2, VerdictOfAnswer DEF VerdictOf
      <3>3. /\ panel' \in Seq(Verdicts) /\ panel' # <<>> /\ Len(panel') = Len(panel) + 1
            /\ \A i \in 1..Len(panel) : panel'[i] = panel[i]
            /\ panel'[Len(panel) + 1] = v
        <4>1. panel' = Append(panel, v)
          BY <2>1, <2>4, <3>1
        <4>2. panel \in Seq(Verdicts) /\ v \in Verdicts
          BY <3>2 DEF ShapeInv
        <4>3. QED BY <4>1, <4>2, AppendProperties
      <3>4. outcome' = outcome
        BY <2>1, <2>4
      <3>5. ShapeInv'
        <4>1. Len(panel') <= Len(judges)
          BY <2>2, <2>3, <3>3
        <4>2. \A i \in 1..Len(panel') : i \in 1..Len(panel) \/ i = Len(panel) + 1
          BY <2>3, <3>3
        <4>3. \A i \in 1..Len(panel') : panel'[i].judge = judges[i]
          BY <3>2, <3>3, <4>2 DEF ShapeInv
        <4>4. QED BY <2>1, <2>2, <3>3, <3>4, <4>1, <4>3 DEF ShapeInv
      <3>6. StoredInv'
        BY <2>2, <2>3, <3>3, <3>4 DEF StoredInv
      <3>7. RawInv'
        BY <2>1, <2>2, <2>3, <2>4, <3>1, <3>3, <3>4 DEF RawInv
      <3>8. QED BY <3>5, <3>6, <3>7
    <2>5. CASE ~Parsed(a)
      <3>1. panel' = panel /\ outcome' = [outcome EXCEPT ![current] = "unreadable"]
        BY <2>1, <2>5 DEF End
      <3>2. ShapeInv'
        BY <2>1, <2>2, <3>1 DEF ShapeInv, Outcomes
      <3>3. outcome'[current] = "unreadable" /\ \A x \in Executions : x # current => outcome'[x] = outcome[x]
        BY <2>3, <3>1 DEF ShapeInv
      <3>4. StoredInv'
        BY <2>2, <2>3, <3>1, <3>3, CurrentIsOne DEF StoredInv
      <3>5. RawInv'
        BY <2>1, <2>2, <2>3, <2>5, <3>3 DEF RawInv
      <3>6. QED BY <3>2, <3>4, <3>5
    <2>6. QED BY <2>4, <2>5
  <1>3. CASE StoreVerdict \/ Interrupt \/ Complete
    <2>1. current # 0 /\ outcome[current] = "none" /\ current' = current /\ judges' = judges /\ panel' = panel
      BY <1>3 DEF StoreVerdict, Interrupt, Complete, NextVerdict, Judging, End
    <2>2. /\ current \in Executions /\ Len(judges) \in Nat /\ Len(panel) \in Nat /\ Rows \in Seq(Verdicts)
          /\ Len(Rows) \in Nat /\ Len(judges) > 0 /\ (Len(Rows) = 0 <=> Rows = <<>>)
      BY <2>1, CurrentIsOne
    <2>3. /\ raw' = <<>> \/ (Complete /\ raw' = raw)
          /\ raw' = <<>>
      <3>1. Complete => Rows # <<>>
        BY <2>2 DEF Complete
      <3>2. Complete => raw = <<>>
        BY <3>1 DEF RawInv, Rows
      <3>3. QED BY <1>3, <3>2 DEF StoreVerdict, Interrupt, Complete
    <2>4. PICK how \in Outcomes \ {"unreadable"} :
            /\ outcome' = [outcome EXCEPT ![current] = how]
            /\ how = "complete" => Complete
      <3>1. outcome' = outcome => outcome' = [outcome EXCEPT ![current] = "none"]
        BY <2>1, <2>2 DEF ShapeInv
      <3>2. QED BY <1>3, <3>1 DEF StoreVerdict, Interrupt, Complete, End, Outcomes
    <2>5. /\ outcome' \in [Executions -> Outcomes] /\ outcome'[current] = how
          /\ \A x \in Executions : x # current => outcome'[x] = outcome[x]
      BY <2>2, <2>4 DEF ShapeInv
    <2>6. CASE stored' = stored
      <3>1. ShapeInv'
        BY <2>1, <2>3, <2>5, <2>6 DEF ShapeInv
      <3>2. StoredInv'
        <4>1. how = "complete" => Len(stored[current]) = Len(judges)
          BY <2>4 DEF Complete, Rows
        <4>2. ~(current > current)
          BY <2>2, CurrentIsOne, <2>1
        <4>3. QED BY <2>1, <2>4, <2>5, <2>6, <4>1, <4>2 DEF StoredInv
      <3>3. QED BY <2>3, <3>1, <3>2 DEF RawInv
    <2>7. CASE stored' # stored
      <3>1. /\ Len(panel) = Len(judges) /\ Len(Rows) < Len(panel)
            /\ Acceptable(panel[Len(Rows) + 1])
            /\ stored' = [stored EXCEPT ![current] = Append(@, panel[Len(Rows) + 1])]
        BY <1>3, <2>7 DEF StoreVerdict, NextVerdict, Interrupt, Complete, Judging
      <3>2. PICK v : v = panel[Len(Rows) + 1]
        OBVIOUS
      <3>3. v \in Verdicts
        <4>1. Len(Rows) + 1 \in 1..Len(panel)
          BY <2>2, <3>1
        <4>2. QED BY <3>2, <4>1, ElementOfSeq DEF ShapeInv
      <3>4. PICK r : r = Append(Rows, v)
        OBVIOUS
      <3>5. /\ r \in Seq(Verdicts) /\ Len(r) = Len(Rows) + 1 /\ r[Len(Rows) + 1] = v
            /\ \A i \in 1..Len(Rows) : r[i] = Rows[i]
        BY <2>2, <3>3, <3>4, AppendProperties
      <3>6. stored' = [stored EXCEPT ![current] = r]
        BY <3>1, <3>2, <3>4 DEF Rows
      <3>7. stored'[current] = r /\ \A x \in Executions : x # current => stored'[x] = stored[x]
        BY <2>2, <3>6 DEF ShapeInv
      <3>8. ShapeInv'
        BY <2>1, <2>3, <2>5, <3>5, <3>6 DEF ShapeInv
      <3>9. \A i \in 1..Len(r) : r[i] = panel[i] /\ Acceptable(r[i])
        <4>1. \A i \in 1..Len(r) : i \in 1..Len(Rows) \/ i = Len(Rows) + 1
          BY <2>2, <3>5
        <4>2. \A i \in 1..Len(Rows) : Rows[i] = panel[i] /\ Acceptable(Rows[i])
          BY <2>1, <2>2 DEF StoredInv, Rows
        <4>3. QED BY <3>1, <3>2, <3>5, <4>1, <4>2
      <3>10. Len(r) <= Len(panel) /\ how # "complete"
        <4>1. Len(r) <= Len(panel)
          BY <2>2, <3>1, <3>5
        <4>2. ~Complete
          BY <2>7 DEF Complete
        <4>3. QED BY <2>4, <4>1, <4>2
      <3>11. StoredInv'
        <4>1. ~(current > current)
          BY <2>1, CurrentIsOne
        <4>2. \A x \in Executions :
                /\ x > current => stored'[x] = <<>> /\ outcome'[x] = "none"
                /\ outcome'[x] = "unreadable" => stored'[x] = <<>>
                /\ \A i \in 1..Len(stored'[x]) : Acceptable(stored'[x][i])
          BY <2>4, <2>5, <3>7, <3>9, <4>1 DEF StoredInv
        <4>3. QED BY <2>1, <2>5, <3>1, <3>7, <3>9, <3>10, <4>2 DEF StoredInv
      <3>12. QED BY <2>3, <3>8, <3>11 DEF RawInv
    <2>8. QED BY <2>6, <2>7
  <1>4. CASE UNCHANGED vars
    BY <1>4 DEF vars, ShapeInv, StoredInv, RawInv
  <1>5. QED BY <1>1, <1>2, <1>3, <1>4 DEF Next

\* The invariant that the following theorems rest on.
THEOREM Inductive == Spec => []PanelInv
  BY InitInv, StepInv, PTL DEF Spec

\* For any number of executions and whatever the models answer: of a panel that could
\* not be read nothing is kept, and of one that could a prefix in the judges' order.
THEOREM PanelsInOrder == Spec => []PanelIsStoredInOrder
  <1>1. ASSUME PanelInv, NEW x \in Executions
        PROVE  /\ outcome[x] = "unreadable" => stored[x] = <<>>
               /\ x = current => /\ IsPrefix(stored[x], panel)
                                 /\ \A i \in DOMAIN stored[x] : stored[x][i].judge = judges[i]
                                 /\ outcome[x] = "complete" => Len(stored[x]) = Len(judges)
               /\ \A i \in DOMAIN stored[x] : Acceptable(stored[x][i])
    <2>1. stored[x] \in Seq(Verdicts) /\ DOMAIN stored[x] = 1..Len(stored[x]) /\ Len(stored[x]) \in Nat
      BY <1>1, LenProperties DEF PanelInv, ShapeInv
    <2>2. ASSUME x = current
          PROVE  /\ IsPrefix(stored[x], panel)
                 /\ \A i \in DOMAIN stored[x] : stored[x][i].judge = judges[i]
                 /\ outcome[x] = "complete" => Len(stored[x]) = Len(judges)
      <3>1. current # 0 /\ Len(panel) \in Nat /\ panel \in Seq(Verdicts)
        BY <1>1, <2>2, LenProperties DEF Executions, PanelInv, ShapeInv
      <3>2. /\ Len(stored[x]) <= Len(panel)
            /\ \A i \in 1..Len(stored[x]) : stored[x][i] = panel[i]
            /\ outcome[x] = "complete" => Len(stored[x]) = Len(judges)
        BY <1>1, <2>2, <3>1 DEF PanelInv, StoredInv
      <3>3. \A i \in 1..Len(stored[x]) : i \in 1..Len(panel)
        BY <2>1, <3>1, <3>2
      <3>4. \A i \in DOMAIN stored[x] : stored[x][i].judge = judges[i]
        BY <1>1, <2>1, <3>2, <3>3 DEF PanelInv, ShapeInv
      <3>5. IsPrefix(stored[x], panel)
        BY <2>1, <3>1, <3>2, PrefixIsPrefix
      <3>6. QED BY <3>2, <3>4, <3>5
    <2>3. QED BY <1>1, <2>1, <2>2 DEF PanelInv, StoredInv
  <1>2. PanelInv => PanelIsStoredInOrder
    BY <1>1 DEF PanelIsStoredInOrder
  <1>3. QED BY <1>2, Inductive, PTL

\* A judge's verdict is what its model said, for every set of answers.
THEOREM VerdictsAreTheModels == Spec => []VerdictIsTheModels
  <1>1. ASSUME PanelInv, raw # <<>> 
        PROVE  /\ Requested(raw) => Judging /\ Last(panel).label = raw[1].value /\ Acceptable(Last(panel))
               /\ Judging => /\ Line("label", Last(panel).label) \in ToSet(raw)
                             /\ Line("confidence", Last(panel).confidence) \in ToSet(raw)
    <2>1. raw \in Answers /\ current # 0
      BY <1>1 DEF PanelInv, ShapeInv, RawInv
    <2>2. CASE Parsed(raw)
      <3>1. Judging /\ panel # <<>> /\ Last(panel) = VerdictOf(judges[Len(panel)], raw)
        BY <1>1, <2>1, <2>2 DEF PanelInv, RawInv, Judging, Last
      <3>2. judges[Len(panel)] \in JudgeNames
        <4>1. Len(panel) \in 1..Len(judges)
          BY <1>1, <2>1, <3>1, CurrentIsOne DEF PanelInv, ShapeInv
        <4>2. QED BY <1>1, <4>1, ElementOfSeq DEF PanelInv, ShapeInv
      <3>3. QED BY <2>1, <2>2, <3>1, <3>2, VerdictOfAnswer, RequestedIsParsed
    <2>3. CASE ~Parsed(raw)
      <3>1. ~Judging
        BY <1>1, <2>3 DEF PanelInv, RawInv, Judging
      <3>2. ~Requested(raw)
        BY <2>1, <2>3, RequestedIsParsed
      <3>3. QED BY <3>1, <3>2
    <2>4. QED BY <2>2, <2>3
  <1>2. PanelInv => VerdictIsTheModels
    BY <1>1 DEF VerdictIsTheModels
  <1>3. QED BY <1>2, Inductive, PTL

-----------------------------------------------------------------------------
\* The readers

LEMMA Tally ==
  ASSUME NEW vs \in Seq(Verdicts), vs # <<>>
  PROVE  /\ Len(vs) \in Nat \ {0} /\ DOMAIN vs = 1..Len(vs)
         /\ LabelsOf(vs) \subseteq Labels /\ LabelsOf(vs) # {} /\ IsFiniteSet(LabelsOf(vs))
         /\ \A l : Count(vs, l) \in Nat /\ Count(vs, l) <= Len(vs)
         /\ \A l : Count(vs, l) = Len(vs) <=> LabelsOf(vs) = {l}
  <1>1. /\ Len(vs) \in Nat \ {0} /\ DOMAIN vs = 1..Len(vs)
        /\ \A i \in DOMAIN vs : vs[i].label \in Labels
    <2>1. /\ Len(vs) \in Nat \ {0} /\ DOMAIN vs = 1..Len(vs)
      BY LenProperties, EmptySeq
    <2>2. \A i \in DOMAIN vs : vs[i] \in Verdicts
      BY <2>1, ElementOfSeq
    <2>3. QED BY <2>1, <2>2 DEF Verdicts
  <1>2. IsFiniteSet(DOMAIN vs) /\ Cardinality(DOMAIN vs) = Len(vs)
    <2>1. PICK n \in Nat \ {0} : n = Len(vs)
      BY <1>1
    <2>2. 1 \in Int /\ n \in Int
      OBVIOUS
    <2>3. IsFiniteSet(1..n) /\ Cardinality(1..n) = IF 1 > n THEN 0 ELSE n - 1 + 1
      BY <2>2, FS_Interval
    <2>4. Cardinality(1..n) = n
      BY <2>3
    <2>5. QED BY <1>1, <2>1, <2>3, <2>4
  <1>3. LabelsOf(vs) \subseteq Labels /\ LabelsOf(vs) # {}
    <2>1. 1 \in DOMAIN vs
      BY <1>1
    <2>2. QED BY <1>1, <2>1 DEF LabelsOf
  <1>4. IsFiniteSet(LabelsOf(vs))
    <2>1. IsFiniteSet({"pass"} \cup {"fail"})
      BY FS_Singleton, FS_AddElement
    <2>2. IsFiniteSet(({"pass"} \cup {"fail"}) \cup {"uncertain"})
      BY <2>1, FS_AddElement
    <2>3. Labels = ({"pass"} \cup {"fail"}) \cup {"uncertain"}
      BY DEF Labels
    <2>4. LabelsOf(vs) \in SUBSET (({"pass"} \cup {"fail"}) \cup {"uncertain"})
      BY <1>3, <2>3
    <2>5. QED BY <2>2, <2>4, FS_Subset
  <1>5. ASSUME NEW l
        PROVE  /\ Count(vs, l) \in Nat /\ Count(vs, l) <= Len(vs)
               /\ Count(vs, l) = Len(vs) <=> LabelsOf(vs) = {l}
    <2> DEFINE S == {i \in DOMAIN vs : vs[i].label = l}
    <2>1. S \in SUBSET (DOMAIN vs)
      OBVIOUS
    <2>2. /\ IsFiniteSet(S) /\ Cardinality(S) <= Len(vs)
          /\ Cardinality(S) = Len(vs) => S = DOMAIN vs
      BY <1>2, <2>1, FS_Subset
    <2>3. Cardinality(S) \in Nat
      BY <2>2, FS_CardinalityType
    <2>4. S = DOMAIN vs <=> LabelsOf(vs) = {l}
      <3>1. 1 \in DOMAIN vs
        BY <1>1
      <3>2. ASSUME S = DOMAIN vs PROVE LabelsOf(vs) = {l}
        <4>1. \A i \in DOMAIN vs : vs[i].label = l
          BY <3>2
        <4>2. QED BY <3>1, <4>1 DEF LabelsOf
      <3>3. ASSUME LabelsOf(vs) = {l} PROVE S = DOMAIN vs
        <4>1. \A i \in DOMAIN vs : vs[i].label \in LabelsOf(vs)
          BY DEF LabelsOf
        <4>2. QED BY <3>3, <4>1
      <3>4. QED BY <3>2, <3>3
    <2>5. Count(vs, l) = Cardinality(S)
      BY DEF Count
    <2> HIDE DEF S
    <2>6. QED BY <1>2, <2>2, <2>3, <2>4, <2>5
  <1>6. QED BY <1>1, <1>3, <1>4, <1>5

LEMMA Maximum ==
  ASSUME NEW vs \in Seq(Verdicts), vs # <<>>
  PROVE  /\ MaxCount(vs) \in Nat
         /\ \A l \in LabelsOf(vs) : Count(vs, l) <= MaxCount(vs)
         /\ \E l \in LabelsOf(vs) : Count(vs, l) = MaxCount(vs)
  <1> DEFINE Counts == {Count(vs, l) : l \in LabelsOf(vs)}
             Rest == {Len(vs) - c : c \in Counts}
  <1>1. /\ Len(vs) \in Nat /\ LabelsOf(vs) # {}
        /\ \A c \in Counts : c \in Nat /\ c <= Len(vs)
    <2>1. Len(vs) \in Nat /\ LabelsOf(vs) # {} /\ \A l : Count(vs, l) \in Nat /\ Count(vs, l) <= Len(vs)
      BY Tally
    <2>2. QED BY <2>1
  <1>0. Counts # {}
    BY <1>1
  <1> HIDE DEF Counts
  <1>2. Rest \subseteq Nat /\ Rest # {}
    <2>1. \A c \in Counts : Len(vs) - c \in Nat
      BY <1>1
    <2>2. QED BY <1>0, <2>1
  <1>3. PICK r \in Rest : \A k \in Rest : r <= k
    BY <1>2, LeastNatural
  <1>4. PICK c \in Counts : r = Len(vs) - c
    OBVIOUS
  <1>5. \A d \in Counts : d <= c
    <2>1. SUFFICES ASSUME NEW d \in Counts PROVE d <= c
      OBVIOUS
    <2>2. Len(vs) - d \in Rest
      OBVIOUS
    <2>3. Len(vs) - c <= Len(vs) - d
      BY <1>3, <1>4, <2>2
    <2>4. Len(vs) \in Nat /\ c \in Nat /\ d \in Nat
      BY <1>1
    <2> HIDE DEF Rest
    <2>5. QED BY <2>3, <2>4
  <1>6. \A l \in LabelsOf(vs) : Count(vs, l) <= c
    BY <1>5 DEF Counts
  <1>7. MaxCount(vs) \in Counts /\ \A l \in LabelsOf(vs) : Count(vs, l) <= MaxCount(vs)
    BY <1>4, <1>6 DEF MaxCount, Counts
  <1>8. QED BY <1>1, <1>7 DEF Counts

LEMMA ConsensusIsPlurality ==
  ASSUME NEW vs \in Seq(Verdicts), vs # <<>>, NEW l \in Labels
  PROVE  Consensus(vs) = l <=> l \in LabelsOf(vs) /\ \A m \in LabelsOf(vs) \ {l} : Count(vs, m) < Count(vs, l)
  <1>1. /\ \A m : Count(vs, m) \in Nat
        /\ IsFiniteSet(TopLabels(vs))
    <2>1. TopLabels(vs) \in SUBSET LabelsOf(vs)
      BY DEF TopLabels
    <2>2. IsFiniteSet(LabelsOf(vs)) /\ \A m : Count(vs, m) \in Nat
      BY Tally
    <2>3. QED BY <2>1, <2>2, FS_Subset
  <1>2. Cardinality(TopLabels(vs)) = 1 <=> \E x : TopLabels(vs) = {x}
    BY <1>1, FS_Singleton
  <1>3. Consensus(vs) = l <=> TopLabels(vs) = {l}
    <2>1. l # "none"
      BY DEF Labels
    <2>2. CASE \E x : TopLabels(vs) = {x}
      <3>1. PICK x : TopLabels(vs) = {x}
        BY <2>2
      <3>2. Consensus(vs) = x
        BY <1>2, <3>1 DEF Consensus
      <3>3. QED BY <3>1, <3>2
    <2>3. CASE ~\E x : TopLabels(vs) = {x}
      <3>1. Consensus(vs) = "none"
        BY <1>2, <2>3 DEF Consensus
      <3>2. QED BY <2>1, <2>3, <3>1
    <2>4. QED BY <2>2, <2>3
  <1>4. ASSUME TopLabels(vs) = {l}
        PROVE  l \in LabelsOf(vs) /\ \A m \in LabelsOf(vs) \ {l} : Count(vs, m) < Count(vs, l)
    <2>1. l \in LabelsOf(vs) /\ Count(vs, l) = MaxCount(vs)
      BY <1>4 DEF TopLabels
    <2>2. ASSUME NEW m \in LabelsOf(vs) \ {l} PROVE Count(vs, m) < Count(vs, l)
      <3>1. Count(vs, m) # MaxCount(vs)
        BY <1>4 DEF TopLabels
      <3>2. QED BY <1>1, <2>1, <3>1, Maximum
    <2>3. QED BY <2>1, <2>2
  <1>5. ASSUME l \in LabelsOf(vs), \A m \in LabelsOf(vs) \ {l} : Count(vs, m) < Count(vs, l)
        PROVE  TopLabels(vs) = {l}
    <2>1. PICK k \in LabelsOf(vs) : Count(vs, k) = MaxCount(vs)
      BY Maximum
    <2>2. Count(vs, l) <= Count(vs, k) /\ Count(vs, l) \in Nat /\ Count(vs, k) \in Nat
      BY <1>1, <1>5, <2>1, Maximum
    <2>3. k = l
      BY <1>5, <2>2
    <2>4. \A m \in LabelsOf(vs) : Count(vs, m) = MaxCount(vs) => m = l
      BY <1>1, <1>5, <2>1, <2>3
    <2>5. QED BY <2>1, <2>3, <2>4 DEF TopLabels
  <1>6. QED BY <1>3, <1>4, <1>5

LEMMA Readers ==
  ASSUME NEW vs \in Seq(Verdicts), vs # <<>>
  PROVE  /\ Disagreement(vs) <=> ~\E l : LabelsOf(vs) = {l}
         /\ Banner(vs) <=> ~\E l : LabelsOf(vs) = {l}
         /\ Agreeing(vs) # Pairs(vs) <=> ~\E l : LabelsOf(vs) = {l}
  <1>1. Disagreement(vs) <=> ~\E l : LabelsOf(vs) = {l}
    <2>0. PICK top \in LabelsOf(vs) : Count(vs, top) = MaxCount(vs)
      BY Maximum
    <2>1. /\ MaxCount(vs) \in Nat /\ Len(vs) \in Nat /\ MaxCount(vs) <= Len(vs)
          /\ \A l : Count(vs, l) = Len(vs) <=> LabelsOf(vs) = {l}
      <3>1. /\ Len(vs) \in Nat
            /\ \A l : Count(vs, l) \in Nat /\ Count(vs, l) <= Len(vs)
            /\ \A l : Count(vs, l) = Len(vs) <=> LabelsOf(vs) = {l}
        BY Tally
      <3>2. Count(vs, top) \in Nat /\ Count(vs, top) <= Len(vs)
        BY <3>1
      <3>3. QED BY <2>0, <3>1, <3>2
    <2>2. ASSUME NEW l, LabelsOf(vs) = {l} PROVE MaxCount(vs) = Len(vs)
      <3>1. l \in LabelsOf(vs) /\ Count(vs, l) = Len(vs)
        BY <2>1, <2>2
      <3>2. Len(vs) <= MaxCount(vs)
        BY <3>1, Maximum
      <3>3. QED BY <2>1, <3>2
    <2>3. ASSUME MaxCount(vs) = Len(vs) PROVE \E l : LabelsOf(vs) = {l}
      <3>1. LabelsOf(vs) = {top}
        BY <2>0, <2>1, <2>3
      <3>2. QED BY <3>1
    <2>4. MaxCount(vs) < Len(vs) <=> MaxCount(vs) # Len(vs)
      BY <2>1
    <2>5. QED BY <2>2, <2>3, <2>4, Zenon DEF Disagreement
  <1>2. Banner(vs) <=> ~\E l : LabelsOf(vs) = {l}
    <2>1. /\ IsFiniteSet(LabelsOf(vs)) /\ LabelsOf(vs) # {} /\ Cardinality(LabelsOf(vs)) \in Nat
      BY Tally, FS_CardinalityType
    <2>2. Cardinality(LabelsOf(vs)) # 0
      BY <2>1, FS_EmptySet
    <2>3. Cardinality(LabelsOf(vs)) = 1 <=> \E l : LabelsOf(vs) = {l}
      BY <2>1, FS_Singleton
    <2>4. PICK n \in Nat : n = Cardinality(LabelsOf(vs))
      BY <2>1
    <2>5. n > 1 <=> n # 1
      BY <2>2, <2>4
    <2>6. QED BY <2>3, <2>4, <2>5 DEF Banner
  <1>3. Agreeing(vs) # Pairs(vs) <=> ~\E l : LabelsOf(vs) = {l}
    <2>1. DOMAIN vs \subseteq Nat /\ 1 \in DOMAIN vs
      BY Tally
    <2>2. ASSUME NEW l, LabelsOf(vs) = {l} PROVE Agreeing(vs) = Pairs(vs)
      <3>1. \A i \in DOMAIN vs : vs[i].label = l
        BY <2>2 DEF LabelsOf
      <3>2. \A p \in Pairs(vs) : p[1] \in DOMAIN vs /\ p[2] \in DOMAIN vs
        BY DEF Pairs
      <3>3. QED BY <3>1, <3>2 DEF Agreeing
    <2>3. ASSUME Agreeing(vs) = Pairs(vs) PROVE \E l : LabelsOf(vs) = {l}
      <3>1. ASSUME NEW i \in DOMAIN vs, NEW j \in DOMAIN vs, i < j PROVE vs[i].label = vs[j].label
        <4>1. <<i, j>> \in Agreeing(vs)
          BY <2>3, <3>1 DEF Pairs
        <4>2. QED BY <4>1 DEF Agreeing
      <3>2. \A i \in DOMAIN vs : vs[i].label = vs[1].label
        <4>1. SUFFICES ASSUME NEW i \in DOMAIN vs PROVE vs[i].label = vs[1].label
          OBVIOUS
        <4>2. i = 1 \/ 1 < i
          BY Tally
        <4>3. QED BY <2>1, <3>1, <4>2
      <3>3. LabelsOf(vs) = {vs[1].label}
        BY <2>1, <3>2 DEF LabelsOf
      <3>4. QED BY <3>3
    <2>4. QED BY <2>2, <2>3
  <1>4. QED BY <1>1, <1>2, <1>3

LEMMA GoldReaders ==
  ASSUME NEW vs \in Seq(Verdicts), vs # <<>>, NEW gold \in Labels
  PROVE  (\A i \in DOMAIN vs : GoldAgrees(vs, vs[i].judge, gold) = OfJudge(vs, vs[i].judge))
           <=> Consensus(vs) = gold /\ ~Disagreement(vs)
  <1>1. 1 \in DOMAIN vs
    BY Tally
  <1>2. (\A i \in DOMAIN vs : GoldAgrees(vs, vs[i].judge, gold) = OfJudge(vs, vs[i].judge))
          <=> \A i \in DOMAIN vs : vs[i].label = gold
    BY DEF GoldAgrees, OfJudge
  <1>3. (\A i \in DOMAIN vs : vs[i].label = gold) <=> LabelsOf(vs) = {gold}
    <2>1. ASSUME \A i \in DOMAIN vs : vs[i].label = gold PROVE LabelsOf(vs) = {gold}
      BY <1>1, <2>1 DEF LabelsOf
    <2>2. ASSUME LabelsOf(vs) = {gold} PROVE \A i \in DOMAIN vs : vs[i].label = gold
      BY <2>2 DEF LabelsOf
    <2>3. QED BY <2>1, <2>2
  <1>4. ASSUME LabelsOf(vs) = {gold} PROVE Consensus(vs) = gold /\ ~Disagreement(vs)
    BY <1>4, ConsensusIsPlurality, Readers
  <1>5. ASSUME Consensus(vs) = gold, ~Disagreement(vs) PROVE LabelsOf(vs) = {gold}
    <2>1. PICK l : LabelsOf(vs) = {l}
      BY <1>5, Readers
    <2>2. gold \in LabelsOf(vs)
      BY <1>5, ConsensusIsPlurality
    <2>3. QED BY <2>1, <2>2
  <1>6. QED BY <1>2, <1>3, <1>4, <1>5

\* Whatever verdicts are stored, of one execution or of all executions of the task, the
\* report, the pairwise rate, the gold comparison and the page agree on disagreement.
THEOREM ReadersAgree == Spec => []DisagreementSurfaces
  <1>1. ASSUME PanelInv, NEW vs \in {stored[x] : x \in Executions} \cup {OfTask}
        PROVE  vs \in Seq(Verdicts)
    <2>1. stored \in Seq(Seq(Verdicts))
      BY <1>1, PanelAssumption, SeqDef DEF PanelInv, ShapeInv, PanelAssumption, Executions
    <2>2. OfTask \in Seq(Verdicts)
      BY <2>1, FlattenType DEF OfTask
    <2>3. QED BY <1>1, <2>2 DEF PanelInv, ShapeInv
  <1>2. ASSUME NEW vs \in Seq(Verdicts), vs # <<>>
        PROVE  /\ Disagreement(vs) <=> Banner(vs)
               /\ Disagreement(vs) <=> Agreeing(vs) # Pairs(vs)
               /\ \A l \in Labels :
                    Consensus(vs) = l <=> l \in LabelsOf(vs) /\ \A m \in LabelsOf(vs) \ {l} : Count(vs, m) < Count(vs, l)
               /\ \A gold \in Labels :
                    (\A i \in DOMAIN vs : GoldAgrees(vs, vs[i].judge, gold) = OfJudge(vs, vs[i].judge))
                      <=> Consensus(vs) = gold /\ ~Disagreement(vs)
    BY <1>2, Readers, ConsensusIsPlurality, GoldReaders
  <1>3. PanelInv => DisagreementSurfaces
    BY <1>1, <1>2 DEF DisagreementSurfaces
  <1>4. QED BY <1>3, Inductive, PTL
=============================================================================
