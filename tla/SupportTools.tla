---------------------------- MODULE SupportTools ----------------------------
(***************************************************************************)
(* The customer-support services an evaluated agent calls                  *)
(* (tool_environment/services.py over state.py): orders, refunds,          *)
(* replacements and tickets, as a function of a state and a call.          *)
(* A call is a record: its operation and the arguments the services look   *)
(* at.  An argument that the agent left out is not a field of the call;    *)
(* reasons and notes are only copied into the state and are left out.  A   *)
(* call without its mandatory reason is one that does not bind, as is one  *)
(* with an argument unknown to the service.                                *)
(***************************************************************************)
EXTENDS Integers

CONSTANTS Customers, Orders, Tickets, Skus,
          Owner,       \* order -> customer
          Items,       \* order -> the skus on it
          DaysAgo,     \* order -> delivered_days_ago (0 for None: only asked of delivered orders)
          Total        \* order -> total_cents

CONSTANTS SeedStatus, SeedRefunds, SeedTickets   \* the task's initial_state

Cancellable == {"placed", "processing", "shipped"}
OrderStatus == Cancellable \cup {"delivered", "cancelled"}
Escalatable == {"open", "pending"}
TicketStatus == Escalatable \cup {"escalated", "resolved"}

RefundWindowDays == 30
ReplacementWindowDays == 30

ASSUME ToolsAssumption ==
  /\ Owner \in [Orders -> Customers] /\ Items \in [Orders -> SUBSET Skus]
  /\ DaysAgo \in [Orders -> Nat] /\ Total \in [Orders -> Nat]
  /\ SeedStatus \in [Orders -> OrderStatus]
  /\ SeedTickets \in [Tickets -> TicketStatus]
  /\ DOMAIN SeedRefunds \subseteq Orders /\ \A o \in DOMAIN SeedRefunds : SeedRefunds[o] \in Int

\* SupportState; customers never change and are left out.
IsEnvironment(env) ==
  /\ env.status \in [Orders -> OrderStatus]
  /\ DOMAIN env.refunds \subseteq Orders              \* order -> amount_cents
  /\ \A o \in DOMAIN env.refunds : env.refunds[o] \in Int
  /\ DOMAIN env.replacements \subseteq Orders         \* order -> sku
  /\ \A o \in DOMAIN env.replacements : env.replacements[o] \in Skus
  /\ DOMAIN env.ticket = Tickets                      \* any status: update_ticket checks none
  /\ \A t \in Tickets : env.ticket[t].escalations \in Nat

\* Every run starts from a deep copy of the task's initial_state.
SeedEnvironment ==
  [status |-> SeedStatus,
   refunds |-> SeedRefunds,
   replacements |-> [o \in {} |-> {}],
   ticket |-> [t \in Tickets |-> [status |-> SeedTickets[t], escalations |-> 0]]]

\* The arguments each operation cannot do without; update_ticket's status is optional.
Required ==
  [get_customer |-> {"customer"}, get_order |-> {"order"},
   check_refund_policy |-> {"order"}, check_replacement_policy |-> {"order"},
   cancel_order |-> {"order", "customer"},
   replace_item |-> {"order", "customer", "sku"},
   create_refund |-> {"order", "customer", "amount"},
   update_ticket |-> {"ticket"}, escalate_ticket |-> {"ticket"}]

\* method(**arguments) raises unless every required argument is there and each is known.
Binds(c) ==
  /\ Required[c.op] \subseteq DOMAIN c
  /\ DOMAIN c \subseteq Required[c.op] \cup {"op"} \cup (IF c.op = "update_ticket" THEN {"status"} ELSE {})

\* A call of the agent, its arguments as the services' signatures type them.
IsCall(c) == "op" \in DOMAIN c /\ ("amount" \in DOMAIN c => c.amount \in Int)

OwnerCalls(c) == Owner[c.order] = c.customer

\* Otherwise NotFoundError.  The items of an order are only looked at for its owner.
Found(c) ==
  CASE c.op = "get_customer" -> c.customer \in Customers
    [] c.op \in {"update_ticket", "escalate_ticket"} -> c.ticket \in Tickets
    [] c.op = "replace_item" -> c.order \in Orders /\ (OwnerCalls(c) => c.sku \in Items[c.order])
    [] OTHER -> c.order \in Orders

RefundEligible(env, o) == env.status[o] = "delivered" /\ DaysAgo[o] <= RefundWindowDays
ReplacementEligible(env, o) == env.status[o] = "delivered" /\ DaysAgo[o] <= ReplacementWindowDays

\* Mutant: an order can be refunded again.
RefundAllowedAgain(env, c) ==
  OwnerCalls(c) /\ RefundEligible(env, c.order) /\ c.amount <= Total[c.order]

RefundAllowed(env, c) ==
  /\ OwnerCalls(c)
  /\ c.order \notin DOMAIN env.refunds
  /\ RefundEligible(env, c.order)
  /\ c.amount <= Total[c.order]   \* zero and less pass

CancelAllowed(env, c) == OwnerCalls(c) /\ env.status[c.order] \in Cancellable

ReplaceAllowed(env, c) ==
  /\ OwnerCalls(c)
  /\ c.order \notin DOMAIN env.replacements
  /\ ReplacementEligible(env, c.order)

\* Otherwise PolicyViolationError.
Allowed(env, c) ==
  CASE c.op = "create_refund" -> RefundAllowed(env, c)
    [] c.op = "cancel_order" -> CancelAllowed(env, c)
    [] c.op = "replace_item" -> ReplaceAllowed(env, c)
    [] c.op = "escalate_ticket" -> env.ticket[c.ticket].status \in Escalatable
    [] OTHER -> TRUE

\* "ok", or the class of the error that the proxy catches.
Outcome(env, c) ==
  IF c.op \notin DOMAIN Required THEN "UnknownToolError"
  ELSE IF ~Binds(c) THEN "TypeError"
  ELSE IF ~Found(c) THEN "NotFoundError"
  ELSE IF ~Allowed(env, c) THEN "PolicyViolationError"
  ELSE "ok"

With(f, k, v) == [x \in DOMAIN f \cup {k} |-> IF x = k THEN v ELSE f[x]]

\* What a call that ends "ok" does to the state; the other operations only read it.
Effect(env, c) ==
  CASE c.op = "create_refund" -> [env EXCEPT !.refunds = With(@, c.order, c.amount)]
    [] c.op = "replace_item" -> [env EXCEPT !.replacements = With(@, c.order, c.sku)]
    [] c.op = "cancel_order" -> [env EXCEPT !.status[c.order] = "cancelled"]
    [] c.op = "update_ticket" /\ "status" \in DOMAIN c -> [env EXCEPT !.ticket[c.ticket].status = c.status]
    [] c.op = "escalate_ticket" ->
         [env EXCEPT !.ticket[c.ticket] = [status |-> "escalated", escalations |-> @.escalations + 1]]
    [] OTHER -> env

\* Mutant: the write comes before the policy check.
AfterUnchecked(env, c) ==
  IF Outcome(env, c) \in {"ok", "PolicyViolationError"} THEN Effect(env, c) ELSE env

\* A call that raises leaves the state alone: every check precedes every write.
After(env, c) == IF Outcome(env, c) = "ok" THEN Effect(env, c) ELSE env

\* What a call that ends "ok" hands back, read from the state it leaves.
Returned(env, c) ==
  CASE c.op \in {"get_order", "cancel_order"} -> [status |-> env.status[c.order]]
    [] c.op = "check_refund_policy" ->
         [eligible |-> RefundEligible(env, c.order),
          max_refund_cents |-> IF RefundEligible(env, c.order) THEN Total[c.order] ELSE 0]
    [] c.op = "check_replacement_policy" -> [eligible |-> ReplacementEligible(env, c.order)]
    [] c.op \in {"create_refund", "replace_item"} -> c
    [] c.op \in {"update_ticket", "escalate_ticket"} -> env.ticket[c.ticket]
    [] c.op = "get_customer" -> [customer |-> c.customer]
=============================================================================
