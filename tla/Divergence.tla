----------------------------- MODULE Divergence -----------------------------
(***************************************************************************)
(* Pairing two results and attributing a regression to the first event at  *)
(* which two stored traces differ (backend/app/comparison.py, over traces  *)
(* redacted by backend/app/redaction.py).                                  *)
(***************************************************************************)
EXTENDS Integers, Sequences, SequencesExt

SENSITIVE_KEYS == {"name", "email", "phone", "phone_number", "address", "ssn", "credit_card", "card_number"}

\* What append_trace_event writes: sensitive fields lose their value.  The code
\* does it at any depth; what lies deeper than a call's arguments is never compared.
Redacted(e) ==
  [e EXCEPT !.payload = [f \in DOMAIN @ |-> IF f \in SENSITIVE_KEYS THEN "[REDACTED]" ELSE @[f]]]

StoredTrace(t) == [i \in DOMAIN t |-> Redacted(t[i])]

\* Mutant: an execution without a result counts as failed.
DispositionHasty(baseline, candidate) ==
  CASE baseline = "true" /\ candidate # "true" -> "regression"
    [] baseline = "false" /\ candidate = "true" -> "improvement"
    [] baseline = "true" /\ candidate = "true" -> "stable_pass"
    [] baseline = "false" /\ candidate = "false" -> "stable_failure"
    [] OTHER -> "indeterminate"

\* passed is "none" until a result is recorded.
Disposition(baseline, candidate) ==
  CASE baseline = "true" /\ candidate = "false" -> "regression"
    [] baseline = "false" /\ candidate = "true" -> "improvement"
    [] baseline = "true" /\ candidate = "true" -> "stable_pass"
    [] baseline = "false" /\ candidate = "false" -> "stable_failure"
    [] OTHER -> "indeterminate"

\* Mutant: the arguments of a call are not looked at.
EventDivergenceByName(l, r) ==
  IF l.type = "error" /\ r.type = "error" THEN IF l.payload = r.payload THEN "none" ELSE "tool_error"
  ELSE IF l.type = "error" \/ r.type = "error" THEN "tool_error"
  ELSE IF l.type # r.type THEN "wrong_tool"
  ELSE IF l.type = "tool_call" /\ l.payload.op # r.payload.op THEN "wrong_tool"
  ELSE IF l.type = "final_answer" /\ l.payload # r.payload THEN "final_answer_mismatch"
  ELSE "none"

\* A tool is its operation; the rest of a call's payload are its arguments.
EventDivergence(l, r) ==
  IF l.type = "error" /\ r.type = "error" THEN IF l.payload = r.payload THEN "none" ELSE "tool_error"
  ELSE IF l.type = "error" \/ r.type = "error" THEN "tool_error"
  ELSE IF l.type # r.type THEN "wrong_tool"
  ELSE IF l.type = "tool_call" /\ l.payload.op # r.payload.op THEN "wrong_tool"
  ELSE IF l.type = "tool_call" /\ l.payload # r.payload THEN "invalid_tool_argument"
  ELSE IF l.type = "final_answer" /\ l.payload # r.payload THEN "final_answer_mismatch"
  ELSE "none"

\* The places of the two events an attribution points at, 0 for none.
Attribution(type, left, right) == [type |-> type, baseline |-> left, candidate |-> right]
NoAttribution == Attribution("none", 0, 0)

FirstDivergence(left, right) ==
  LET shared == {i \in DOMAIN left : i \in DOMAIN right}
      differing == {i \in shared : EventDivergence(left[i], right[i]) # "none"}
  IN IF differing # {}
       THEN LET i == CHOOSE i \in differing : \A j \in differing : i <= j
            IN Attribution(EventDivergence(left[i], right[i]), i, i)
     ELSE IF Len(right) < Len(left) THEN Attribution("premature_termination", Len(right) + 1, 0)
     ELSE IF Len(left) < Len(right) THEN Attribution("premature_termination", 0, Len(left) + 1)
     ELSE NoAttribution
=============================================================================
