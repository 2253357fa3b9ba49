------------------------------ MODULE MCJudges ------------------------------
(***************************************************************************)
(* Instance of JudgePanel for TLC: every answer of up to three lines, and  *)
(* the requested format with a line more, for two executions of a task.    *)
(***************************************************************************)
EXTENDS JudgePanel

McAnswers ==
  UNION {[1..n -> Lines] : n \in 0..3}
    \cup {<<Line("label", l), Line("confidence", 8), Line("rationale", "text"), m>> : l \in Labels, m \in Lines}
=============================================================================
