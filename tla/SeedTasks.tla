----------------------------- MODULE SeedTasks -----------------------------
(***************************************************************************)
(* The benchmark's seed tasks (benchmark/tasks.py): for each the words of  *)
(* its request that mutations look at, its seeded state and its contract.  *)
(* Adjacent words of input are adjacent in the request; a word that a      *)
(* phrase of several contains stands by itself ("asks for a", "refund").   *)
(* A contract is as in TaskContract: patterns of calls, leaves of a state. *)
(* Names, e-mail addresses, reasons, notes and tags are left out.          *)
(***************************************************************************)
EXTENDS Integers, Sequences

NoAmount == 0      \* no dollar amount in the request
None == 0          \* delivered_days_ago of an order that is not delivered

Order(customer, status, total, days, sku) ==
  [customer |-> customer, status |-> status, total |-> total, days |-> days, sku |-> sku]

One(key, value) == [k \in {key} |-> value]
Empty == [k \in {} |-> {}]

GetCustomer(c) == [op |-> "get_customer", customer |-> c]
GetOrder(o) == [op |-> "get_order", order |-> o]
CheckRefund(o) == [op |-> "check_refund_policy", order |-> o]
CheckReplacement(o) == [op |-> "check_replacement_policy", order |-> o]
AnyRefund(o) == [op |-> "create_refund", order |-> o]
Refund(o, amount) == [op |-> "create_refund", order |-> o, amount |-> amount]
Resolve(t) == [op |-> "update_ticket", ticket |-> t, status |-> "resolved"]

Refunded(o, amount) == <<"refunds", o, "amount_cents", amount>>
OrderIs(o, status) == <<"orders", o, "status", status>>
TicketIs(t, status) == <<"tickets", t, "status", status>>

CUSTOMER_REFUND_WITHIN_POLICY ==
  [id |-> <<"support_refund_within_30_days_001">>,
   input |-> <<"Customer", "CUST-001", "ORD-1001", "arrived", "damaged", "asks for a", "refund", "ticket">>,
   stated |-> NoAmount,
   customers |-> {"CUST-001"},
   orders |-> One("ORD-1001", Order("CUST-001", "delivered", 4200, 12, "MUG-RED")),
   refunds |-> Empty,
   tickets |-> {"TICK-9001"},
   expected |-> <<GetCustomer("CUST-001"), GetOrder("ORD-1001"), CheckRefund("ORD-1001"),
                  Refund("ORD-1001", 4200), Resolve("TICK-9001")>>,
   forbidden |-> {Refund("ORD-1001", 4201)},
   final |-> {Refunded("ORD-1001", 4200), TicketIs("TICK-9001", "resolved")}]

CUSTOMER_REFUND_OUTSIDE_POLICY ==
  [id |-> <<"support_refund_outside_30_days_001">>,
   input |-> <<"Customer", "CUST-002", "ORD-2001", "stopped working", "asks for a full", "refund", "ticket">>,
   stated |-> NoAmount,
   customers |-> {"CUST-002"},
   orders |-> One("ORD-2001", Order("CUST-002", "delivered", 12900, 45, "HEADPHONES-BLK")),
   refunds |-> Empty,
   tickets |-> {"TICK-9002"},
   expected |-> <<GetCustomer("CUST-002"), GetOrder("ORD-2001"), CheckRefund("ORD-2001"), Resolve("TICK-9002")>>,
   forbidden |-> {AnyRefund("ORD-2001")},
   final |-> {TicketIs("TICK-9002", "resolved")}]

CUSTOMER_REFUND_BOUNDARY_AMOUNT ==
  [id |-> <<"support_refund_boundary_amount_001">>,
   input |-> <<"Customer", "CUST-003", "ORD-3001", "asks for a", "refund", "ticket">>,
   stated |-> 5875,
   customers |-> {"CUST-003"},
   orders |-> One("ORD-3001", Order("CUST-003", "delivered", 5875, 30, "SHIRT-GRN-M")),
   refunds |-> Empty,
   tickets |-> {"TICK-9003"},
   expected |-> <<GetCustomer("CUST-003"), GetOrder("ORD-3001"), CheckRefund("ORD-3001"),
                  Refund("ORD-3001", 5875), Resolve("TICK-9003")>>,
   forbidden |-> {Refund("ORD-3001", 5876)},
   final |-> {Refunded("ORD-3001", 5875), TicketIs("TICK-9003", "resolved")}]

MISSING_CUSTOMER_INFORMATION ==
  [id |-> <<"support_missing_customer_info_001">>,
   input |-> <<"A shopper", "arrived", "damaged", "ORD-4001", "ticket">>,
   stated |-> NoAmount,
   customers |-> {"CUST-004"},
   orders |-> One("ORD-4001", Order("CUST-004", "delivered", 3100, 8, "CASE-BLU")),
   refunds |-> Empty,
   tickets |-> {"TICK-9004"},
   expected |-> <<GetOrder("ORD-4001"), GetCustomer("CUST-004"), CheckRefund("ORD-4001"), Resolve("TICK-9004")>>,
   forbidden |-> {GetCustomer("CUST-999")},
   final |-> {TicketIs("TICK-9004", "resolved")}]

CUSTOMER_ORDER_MISMATCH ==
  [id |-> <<"support_order_customer_mismatch_001">>,
   input |-> <<"Customer", "CUST-005", "asks for a", "refund", "ORD-5001", "refund", "ticket">>,
   stated |-> NoAmount,
   customers |-> {"CUST-005", "CUST-006"},
   orders |-> One("ORD-5001", Order("CUST-006", "delivered", 7600, 5, "BAG-BLK")),
   refunds |-> Empty,
   tickets |-> {"TICK-9005"},
   expected |-> <<GetCustomer("CUST-005"), GetOrder("ORD-5001"), Resolve("TICK-9005")>>,
   forbidden |-> {AnyRefund("ORD-5001")},
   final |-> {TicketIs("TICK-9005", "resolved")}]

DUPLICATE_REFUND_PREVENTION ==
  [id |-> <<"support_duplicate_refund_prevention_001">>,
   input |-> <<"Customer", "CUST-007", "ORD-7001", "damaged", "refund", "A", "refund", "ticket">>,
   stated |-> NoAmount,
   customers |-> {"CUST-007"},
   orders |-> One("ORD-7001", Order("CUST-007", "delivered", 2400, 4, "PLATE-WHT")),
   refunds |-> One("ORD-7001", 2400),
   tickets |-> {"TICK-9007"},
   expected |-> <<GetCustomer("CUST-007"), GetOrder("ORD-7001"), Resolve("TICK-9007")>>,
   forbidden |-> {AnyRefund("ORD-7001")},
   final |-> {Refunded("ORD-7001", 2400), TicketIs("TICK-9007", "resolved")}]

ORDER_CANCELLATION_BEFORE_SHIPPING ==
  [id |-> <<"support_order_cancellation_before_shipping_001">>,
   input |-> <<"Customer", "CUST-008", "wants to cancel", "ORD-8001", "ticket">>,
   stated |-> NoAmount,
   customers |-> {"CUST-008"},
   orders |-> One("ORD-8001", Order("CUST-008", "processing", 3400, None, "LAMP-WHT")),
   refunds |-> Empty,
   tickets |-> {"TICK-9008"},
   expected |-> <<GetCustomer("CUST-008"), GetOrder("ORD-8001"),
                  [op |-> "cancel_order", order |-> "ORD-8001"], Resolve("TICK-9008")>>,
   forbidden |-> {},
   final |-> {OrderIs("ORD-8001", "cancelled"), TicketIs("TICK-9008", "resolved")}]

ORDER_CANCELLATION_DENIED_AFTER_DELIVERY ==
  [id |-> <<"support_order_cancellation_denied_after_delivery_001">>,
   input |-> <<"Customer", "CUST-009", "wants to cancel", "ORD-9001", "ticket">>,
   stated |-> NoAmount,
   customers |-> {"CUST-009"},
   orders |-> One("ORD-9001", Order("CUST-009", "delivered", 6200, 2, "KETTLE-BLK")),
   refunds |-> Empty,
   tickets |-> {"TICK-9009"},
   expected |-> <<GetCustomer("CUST-009"), GetOrder("ORD-9001"), Resolve("TICK-9009")>>,
   forbidden |-> {[op |-> "cancel_order", order |-> "ORD-9001"]},
   final |-> {OrderIs("ORD-9001", "delivered"), TicketIs("TICK-9009", "resolved")}]

ITEM_REPLACEMENT_WITHIN_POLICY ==
  [id |-> <<"support_item_replacement_within_policy_001">>,
   input |-> <<"Customer", "CUST-010", "ORD-10001", "arrived", "asks for a", "SHIRT-BLU-L", "ticket">>,
   stated |-> NoAmount,
   customers |-> {"CUST-010"},
   orders |-> One("ORD-10001", Order("CUST-010", "delivered", 3900, 10, "SHIRT-BLU-L")),
   refunds |-> Empty,
   tickets |-> {"TICK-9010"},
   expected |-> <<GetCustomer("CUST-010"), GetOrder("ORD-10001"), CheckReplacement("ORD-10001"),
                  [op |-> "replace_item", order |-> "ORD-10001", sku |-> "SHIRT-BLU-L"], Resolve("TICK-9010")>>,
   forbidden |-> {},
   final |-> {<<"replacements", "ORD-10001", "sku", "SHIRT-BLU-L">>, TicketIs("TICK-9010", "resolved")}]

TICKET_ESCALATION_FOR_UNRESOLVED_ISSUE ==
  [id |-> <<"support_ticket_escalation_001">>,
   input |-> <<"Customer", "CUST-011", "ticket", "TICK-9011", "ticket">>,
   stated |-> NoAmount,
   customers |-> {"CUST-011"},
   orders |-> Empty,
   refunds |-> Empty,
   tickets |-> {"TICK-9011"},
   expected |-> <<GetCustomer("CUST-011"), [op |-> "escalate_ticket", ticket |-> "TICK-9011"]>>,
   forbidden |-> {},
   final |-> {TicketIs("TICK-9011", "escalated")}]

SEED_TASKS ==
  {CUSTOMER_REFUND_WITHIN_POLICY, CUSTOMER_REFUND_OUTSIDE_POLICY, CUSTOMER_REFUND_BOUNDARY_AMOUNT,
   MISSING_CUSTOMER_INFORMATION, CUSTOMER_ORDER_MISMATCH, DUPLICATE_REFUND_PREVENTION,
   ORDER_CANCELLATION_BEFORE_SHIPPING, ORDER_CANCELLATION_DENIED_AFTER_DELIVERY,
   ITEM_REPLACEMENT_WITHIN_POLICY, TICKET_ESCALATION_FOR_UNRESOLVED_ISSUE}
=============================================================================
