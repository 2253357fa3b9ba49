------------------------------ MODULE MCPaired ------------------------------
(***************************************************************************)
(* Instance of TraceReplay for TLC: a delivered order to be refunded in    *)
(* full and one on its way that must not be cancelled.  The lookups by     *)
(* e-mail address are malformed and differ only in a redacted argument.    *)
(***************************************************************************)
EXTENDS TraceReplay

McOwner == [o \in Orders |-> "alice"]
McItems == [o \in Orders |-> {"lamp"}]
McDaysAgo == [o \in Orders |-> 0]
McTotal == [o \in Orders |-> 2]
McSeedStatus == [o \in Orders |-> IF o = "o2" THEN "shipped" ELSE "delivered"]
McNoRefunds == [o \in {} |-> 0]
McSeedTickets == [t \in Tickets |-> "open"]

McPairCalls ==
  {[op |-> "create_refund", order |-> "o1", customer |-> "alice", amount |-> 2],
   [op |-> "create_refund", order |-> "o1", customer |-> "alice", amount |-> 1],
   [op |-> "cancel_order", order |-> "o2", customer |-> "alice"],
   [op |-> "get_customer", email |-> "alice@example.com"],
   [op |-> "get_customer", email |-> "bob@example.com"]}

McRefundExpected == {[op |-> "create_refund", order |-> "o1"]}
McCancelForbidden == {[op |-> "cancel_order", order |-> "o2"]}
McRefunded == {<<"refunds", "o1", "amount_cents", 2>>}
=============================================================================
