---------------------------- MODULE MCComparison ----------------------------
(***************************************************************************)
(* Instance of Comparison for TLC: two tasks in both runs, and a second    *)
(* execution of the first task in the baseline, which may be created too   *)
(* but gets no job.                                                        *)
(***************************************************************************)
EXTENDS Comparison

McExecutions == {"b1", "b1again", "b2", "c1", "c2"}
McEnqueued == McExecutions \ {"b1again"}
McRunOf == [e \in McExecutions |-> IF e \in {"c1", "c2"} THEN "candidate" ELSE "baseline"]
McTaskOf == [e \in McExecutions |-> IF e \in {"b2", "c2"} THEN 2 ELSE 1]

McEvent(type, content) == [type |-> type, parent |-> 0, payload |-> [content |-> content]]
McBehaviours ==
  {[trace |-> <<McEvent("model_response", "ok"), McEvent("final_answer", "refunded")>>, passed |-> "true"],
   [trace |-> <<McEvent("model_response", "ok"), McEvent("final_answer", "denied")>>, passed |-> "false"]}
=============================================================================
