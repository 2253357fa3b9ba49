------------------------------ MODULE MCRunner ------------------------------
(***************************************************************************)
(* Instance of AgentRunner for TLC: an order delivered on the last day of  *)
(* the refund window, one on its way, one delivered and refunded before    *)
(* the run; one ticket.  The task asks for a refund of the first order and *)
(* for the ticket to be resolved.                                          *)
(***************************************************************************)
EXTENDS AgentRunner

McOwner == [o \in Orders |-> "alice"]
McItems == [o \in Orders |-> {"lamp"}]
McDaysAgo == [o \in Orders |-> IF o = "o1" THEN 30 ELSE 0]
McTotal == [o \in Orders |-> 2]
McSeedStatus == [o \in Orders |-> IF o = "o2" THEN "shipped" ELSE "delivered"]
McSeedRefunds == [o \in {"o3"} |-> 1]
McSeedTickets == [t \in Tickets |-> "open"]

McRefund == [op |-> "create_refund", order |-> "o1", customer |-> "alice", amount |-> 2]
McResolve == [op |-> "update_ticket", ticket |-> "t1", status |-> "resolved"]

\* Refunds: in full, in part, too much, for somebody else, of an order on its way,
\* of one refunded before, with an argument missing and with one too many; an order that
\* can be cancelled and one that cannot; a replacement; a ticket that is resolved and
\* escalated; a read; no tool at all.
McCalls ==
  {McRefund, [McRefund EXCEPT !.amount = 1], [McRefund EXCEPT !.amount = 3],
   [McRefund EXCEPT !.customer = "mallory"], [McRefund EXCEPT !.order = "o3"],
   [op |-> "create_refund", order |-> "o1"],
   [op |-> "create_refund", order |-> "o1", customer |-> "alice", amount |-> 2, currency |-> "USD"],
   [op |-> "cancel_order", order |-> "o1", customer |-> "alice"],
   [op |-> "cancel_order", order |-> "o2", customer |-> "alice"],
   [op |-> "replace_item", order |-> "o1", customer |-> "alice", sku |-> "lamp"],
   McResolve, [op |-> "escalate_ticket", ticket |-> "t1"],
   [op |-> "check_refund_policy", order |-> "o1"], [op |-> "drop_table"]}

McExpected == {[op |-> "create_refund", order |-> "o1"], [op |-> "update_ticket", ticket |-> "t1"]}
McForbidden == {[op |-> "cancel_order", order |-> "o1"]}
McFinalState == {<<"refunds", "o1", "amount_cents", 2>>, <<"tickets", "t1", "status", "resolved">>}
=============================================================================
