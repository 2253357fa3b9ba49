---------------------------- MODULE TaskContract ----------------------------
(***************************************************************************)
(* Deterministic scoring of a finished run against its task's contract     *)
(* (judges/contracts.py, backend/app/execution_scoring.py).                *)
(* An action of the contract is a pattern: a record with the operation and *)
(* the arguments that matter.  The nested dict expected_final_state is the *)
(* set of its leaves, <<table, entity, field, value>>, so that containment *)
(* of dicts is inclusion; an empty dict in it has no leaves.               *)
(***************************************************************************)
EXTENDS SupportTools

CONSTANTS ExpectedActions, ForbiddenActions, ExpectedFinalState

Matches(pattern, call) ==
  DOMAIN pattern \subseteq DOMAIN call /\ \A f \in DOMAIN pattern : pattern[f] = call[f]

\* The snapshot of the environment, leaf by leaf.
Facts(env) ==
  {<<"orders", o, "status", env.status[o]>> : o \in Orders}
  \cup {<<"refunds", o, "amount_cents", env.refunds[o]>> : o \in DOMAIN env.refunds}
  \cup {<<"replacements", o, "sku", env.replacements[o]>> : o \in DOMAIN env.replacements}
  \cup {<<"tickets", t, "status", env.ticket[t].status>> : t \in Tickets}
  \cup {<<"tickets", t, "escalation_count", env.ticket[t].escalations>> :
          t \in {u \in Tickets : env.ticket[u].escalations > 0}}

\* Mutant: the final state is not compared.
ScoreByAttempts(calls, env) ==
  [missing |-> {p \in ExpectedActions : ~\E c \in calls : Matches(p, c)},
   forbidden |-> {p \in ForbiddenActions : \E c \in calls : Matches(p, c)},
   mismatches |-> {}]

\* score_actions: calls is the set of the calls the agent attempted, refused ones included.
Score(calls, env) ==
  [missing |-> {p \in ExpectedActions : ~\E c \in calls : Matches(p, c)},
   forbidden |-> {p \in ForbiddenActions : \E c \in calls : Matches(p, c)},
   mismatches |-> ExpectedFinalState \ Facts(env)]

MeetsContract(score) == score.missing = {} /\ score.forbidden = {} /\ score.mismatches = {}

\* Mutant: a run that ran out of steps is scored like any other.
StatusOfExceeded(exceeded, score) == IF MeetsContract(score) THEN "passed" ELSE "failed"

\* score_execution
StatusOf(exceeded, score) ==
  IF exceeded THEN "errored" ELSE IF MeetsContract(score) THEN "passed" ELSE "failed"
=============================================================================
