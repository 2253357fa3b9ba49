-------------------------- MODULE MutationsProofs --------------------------
(***************************************************************************)
(* What every composition of mutations, of any length and with any draws,  *)
(* leaves of a task's contract: but for the forbidden look-ups of made-up  *)
(* customers it is the contract of the seed task, with the order's total   *)
(* moved wherever it occurs.  And what becomes of the agents that were     *)
(* written for the seed tasks: the solution that the contract spells out,  *)
(* the reference agent, and the demo's two scripts.                        *)
(***************************************************************************)
EXTENDS DemoScenario, TLAPS

USE MutationAssumption DEF MutationAssumption

\* A task whose only refund is that of the whole order, and its boundary guarded.
Priced(c, o, days, sku, k, total) ==
  [customers |-> {c}, orders |-> One(o, Order(c, "delivered", total, days, sku)), refunds |-> Empty,
   tickets |-> {k},
   expected |-> <<GetCustomer(c), GetOrder(o), CheckRefund(o), Refund(o, total), Resolve(k)>>,
   forbidden |-> {Refund(o, total + 1)},
   final |-> {Refunded(o, total), TicketIs(k, "resolved")}]

Within(total) == Priced("CUST-001", "ORD-1001", 12, "MUG-RED", "TICK-9001", total)
AtBoundary(total) == Priced("CUST-003", "ORD-3001", 30, "SHIRT-GRN-M", "TICK-9003", total)

\* Seed task p with its order's total moved.
Moved(p, total) ==
  IF p = CUSTOMER_REFUND_WITHIN_POLICY THEN Within(total)
  ELSE IF p = CUSTOMER_REFUND_BOUNDARY_AMOUNT THEN AtBoundary(total)
  ELSE p

LookUps(decoys) == {GetCustomer(d) : d \in decoys}

\* t has the state and the contract of r, and some more customers that must not be looked up.
HasContract(t, r, decoys) ==
  /\ t.customers = r.customers /\ t.orders = r.orders /\ t.refunds = r.refunds /\ t.tickets = r.tickets
  /\ t.expected = r.expected /\ t.final = r.final
  /\ t.forbidden = r.forbidden \cup LookUps(decoys)

Fields == {"id", "input", "stated", "customers", "orders", "refunds", "tickets", "expected", "forbidden", "final"}
Totals(t) == {0} \cup {t.orders[o].total : o \in DOMAIN t.orders}

FormInv ==
  /\ pc \in {"composing", "composed", "refused"} /\ parent \in SEED_TASKS
  /\ DOMAIN task = Fields
  /\ \E total \in Totals(task) : \E decoys \in SUBSET Decoys :
       total \in Nat /\ HasContract(task, Moved(parent, total), decoys)

TextInv == task.stated \in Nat /\ (task.stated = NoAmount <=> parent.stated = NoAmount)

NameInv ==
  /\ applied \in Seq(MutationTypes) /\ Len(applied) <= MaxMutations
  /\ task.id \in Seq({parent.id[1]} \cup MutationTypes) /\ (pc # "refused" => Len(task.id) = Len(applied) + 1)

PreservedInv ==
  ToSet(applied) \subseteq CONTRACT_PRESERVING_MUTATIONS =>
    task.expected = parent.expected /\ task.forbidden = parent.forbidden

ComposedInv == FormInv /\ TextInv /\ NameInv /\ PreservedInv

-----------------------------------------------------------------------------
\* The seed tasks

\* What no seed task but the two priced ones asks for.
Unpriced(p) ==
  /\ \A i \in DOMAIN p.expected : p.expected[i].op # "create_refund"
  /\ \A o \in DOMAIN p.orders : Refund(o, p.orders[o].total + 1) \notin p.forbidden

WellFormed(p) ==
  /\ \A o \in DOMAIN p.orders : p.orders[o].customer \in p.customers /\ p.orders[o].total \in Nat
  /\ DOMAIN p.refunds \subseteq DOMAIN p.orders
  /\ \A a \in ToSet(p.expected) : a.op \in VALID_SERVICE_OPERATIONS /\ ReferencedIdsExist(p, a)
  /\ \A a \in p.forbidden : a.op \in VALID_SERVICE_OPERATIONS

Texts(p) == DOMAIN p = Fields /\ Len(p.id) = 1 /\ p.id \in Seq({p.id[1]}) /\ p.stated \in Nat

Priceds == {CUSTOMER_REFUND_WITHIN_POLICY, CUSTOMER_REFUND_BOUNDARY_AMOUNT}

LEMMA SeedTexts == ASSUME NEW p \in SEED_TASKS PROVE Texts(p)
  <1> DEFINE Plain(t) == DOMAIN t = Fields /\ t.stated \in Nat /\ \E s : t.id = <<s>>
  <1>1. Plain(CUSTOMER_REFUND_WITHIN_POLICY)
    BY DEF CUSTOMER_REFUND_WITHIN_POLICY, Fields, NoAmount
  <1>2. Plain(CUSTOMER_REFUND_OUTSIDE_POLICY)
    BY DEF CUSTOMER_REFUND_OUTSIDE_POLICY, Fields, NoAmount
  <1>3. Plain(CUSTOMER_REFUND_BOUNDARY_AMOUNT)
    BY DEF CUSTOMER_REFUND_BOUNDARY_AMOUNT, Fields, NoAmount
  <1>4. Plain(MISSING_CUSTOMER_INFORMATION)
    BY DEF MISSING_CUSTOMER_INFORMATION, Fields, NoAmount
  <1>5. Plain(CUSTOMER_ORDER_MISMATCH)
    BY DEF CUSTOMER_ORDER_MISMATCH, Fields, NoAmount
  <1>6. Plain(DUPLICATE_REFUND_PREVENTION)
    BY DEF DUPLICATE_REFUND_PREVENTION, Fields, NoAmount
  <1>7. Plain(ORDER_CANCELLATION_BEFORE_SHIPPING)
    BY DEF ORDER_CANCELLATION_BEFORE_SHIPPING, Fields, NoAmount
  <1>8. Plain(ORDER_CANCELLATION_DENIED_AFTER_DELIVERY)
    BY DEF ORDER_CANCELLATION_DENIED_AFTER_DELIVERY, Fields, NoAmount
  <1>9. Plain(ITEM_REPLACEMENT_WITHIN_POLICY)
    BY DEF ITEM_REPLACEMENT_WITHIN_POLICY, Fields, NoAmount
  <1>10. Plain(TICKET_ESCALATION_FOR_UNRESOLVED_ISSUE)
    BY DEF TICKET_ESCALATION_FOR_UNRESOLVED_ISSUE, Fields, NoAmount
  <1>11. Plain(p)
    BY <1>1, <1>2, <1>3, <1>4, <1>5, <1>6, <1>7, <1>8, <1>9, <1>10 DEF SEED_TASKS
  <1>12. PICK s : p.id = <<s>>
    BY <1>11
  <1>13. Len(p.id) = 1 /\ p.id \in Seq({p.id[1]})
    BY <1>12
  <1>14. QED BY <1>11, <1>13 DEF Texts

-----------------------------------------------------------------------------
\* What each mutation does to a task

SameFields(t, v, fields) == DOMAIN v = DOMAIN t /\ \A f \in Fields \ fields : v[f] = t[f]

LEMMA Rewordings ==
  ASSUME NEW t, DOMAIN t = Fields, NEW phrase, NEW as
  PROVE  SameFields(t, Reworded(t, phrase, as), {"input"})
  <1>1. PICK x : Reworded(t, phrase, as) = [t EXCEPT !.input = x]
    BY DEF Reworded
  <1>2. PICK v : v = [t EXCEPT !.input = x]
    OBVIOUS
  <1>3. DOMAIN v = DOMAIN t /\ \A f \in DOMAIN t : f # "input" => v[f] = t[f]
    BY <1>2
  <1>4. SameFields(t, v, {"input"})
    BY <1>3 DEF SameFields
  <1>5. QED BY <1>1, <1>2, <1>4

LEMMA TextVariants ==
  ASSUME NEW t, DOMAIN t = Fields, NEW v \in Typos(t) \cup Distractions(t) \cup Paraphrases(t) \cup Noises(t)
  PROVE  SameFields(t, v, {"input"})
  <1>1. CASE v \in Typos(t)
    <2>1. PICK word : v = Reworded(t, <<word>>, <<TYPO_REPLACEMENTS[word]>>)
      BY <1>1 DEF Typos
    <2>2. PICK phrase, as : phrase = <<word>> /\ as = <<TYPO_REPLACEMENTS[word]>>
      OBVIOUS
    <2>3. QED BY <2>1, <2>2, Rewordings
  <1>2. CASE v \in Distractions(t)
    <2>1. \E x : v = [t EXCEPT !.input = x]
      BY <1>2 DEF Distractions
    <2>2. QED BY <2>1 DEF SameFields, Fields
  <1>3. CASE v \in Paraphrases(t)
    BY <1>3, Rewordings DEF Paraphrases
  <1>4. CASE v \in Noises(t)
    BY <1>4 DEF Noises, SameFields
  <1>5. QED BY <1>1, <1>2, <1>3, <1>4

LEMMA ConflictVariants ==
  ASSUME NEW t, DOMAIN t = Fields, NEW v \in Conflicts(t)
  PROVE  /\ SameFields(t, v, {"stated"}) /\ t.stated # NoAmount
         /\ \E shift \in AmountShifts : v.stated = t.stated + shift
  <1>1. PICK shift \in AmountShifts : v = [t EXCEPT !.stated = t.stated + shift] /\ t.stated # NoAmount
    BY DEF Conflicts
  <1>2. QED BY <1>1 DEF SameFields, Fields

LEMMA MissingVariants ==
  ASSUME NEW t, DOMAIN t = Fields, NEW v \in MissingCustomers(t)
  PROVE  /\ SameFields(t, v, {"input", "forbidden"})
         /\ \E d \in Decoys : v.forbidden = t.forbidden \cup {GetCustomer(d)}
  <1>1. PICK c \in Named(t), d \in Decoys : v = Anonymous(t, c, d)
    BY DEF MissingCustomers
  <1>2. PICK r : r = Reworded(t, <<"Customer", c>>, <<"A shopper">>)
    OBVIOUS
  <1>3. SameFields(t, r, {"input"})
    BY <1>2, Rewordings
  <1>4. v = [r EXCEPT !.forbidden = r.forbidden \cup {GetCustomer(d)}]
    BY <1>1, <1>2 DEF Anonymous
  <1>5. QED BY <1>3, <1>4 DEF SameFields, Fields

MovedBy(t, v, i, shift, o, old) ==
  /\ o = t.expected[i].order /\ old = t.orders[o].total
  /\ v.orders = [t.orders EXCEPT ![o].total = old + shift]
  /\ v.expected = [t.expected EXCEPT ![i].amount = old + shift]
  /\ v.forbidden = Raised(t.forbidden, o, old + 1, old + shift + 1)
  /\ v.final = Settled(t.final, o, old + shift)

LEMMA BoundaryVariants ==
  ASSUME NEW t, DOMAIN t = Fields, NEW v \in Boundaries(t)
  PROVE  /\ SameFields(t, v, {"orders", "expected", "forbidden", "final"})
         /\ \E i \in FullRefunds(t), shift \in TotalShifts : \E o, old : MovedBy(t, v, i, shift, o, old)
  <1>1. PICK i \in FullRefunds(t), shift \in TotalShifts : v = Boundary(t, i, shift)
    BY DEF Boundaries
  <1>2. PICK o, old : o = t.expected[i].order /\ old = t.orders[o].total
    OBVIOUS
  <1>3. DOMAIN v = Fields /\ \A f \in Fields \ {"orders", "expected", "forbidden", "final"} : v[f] = t[f]
    BY <1>1 DEF Boundary, Fields
  <1>4. v.orders = [t.orders EXCEPT ![o].total = old + shift]
    BY <1>1, <1>2 DEF Boundary, Fields
  <1>5. v.expected = [t.expected EXCEPT ![i].amount = old + shift]
    BY <1>1, <1>2 DEF Boundary, Fields
  <1>6. v.forbidden = Raised(t.forbidden, o, old + 1, old + shift + 1)
    BY <1>1, <1>2 DEF Boundary, Fields
  <1>7. v.final = Settled(t.final, o, old + shift)
    BY <1>1, <1>2 DEF Boundary, Fields
  <1>8. MovedBy(t, v, i, shift, o, old)
    BY <1>2, <1>4, <1>5, <1>6, <1>7 DEF MovedBy
  <1>9. QED BY <1>3, <1>8 DEF SameFields

LEMMA Renamed ==
  ASSUME NEW t, DOMAIN t = Fields, NEW type \in MutationTypes, NEW u \in Variants(type, t)
  PROVE  \E v : /\ DOMAIN v = Fields => SameFields(v, u, {"id"}) /\ u.id = Append(v.id, type)
               /\ \/ /\ type # "boundary_refund_amount"
                     /\ v \in Typos(t) \cup Distractions(t) \cup Paraphrases(t) \cup Noises(t)
                  \/ type # "boundary_refund_amount" /\ v \in Conflicts(t)
                  \/ type = "missing_customer_information" /\ v \in MissingCustomers(t)
                  \/ type = "boundary_refund_amount" /\ v \in Boundaries(t)
  <1>1. PICK v :
          /\ u = [v EXCEPT !.id = Append(@, type)]
          /\ \/ type = "typo_injection" /\ v \in Typos(t)
             \/ type = "distractor_information" /\ v \in Distractions(t)
             \/ type = "conflicting_detail" /\ v \in Conflicts(t)
             \/ type = "paraphrase" /\ v \in Paraphrases(t)
             \/ type = "tool_result_noise" /\ v \in Noises(t)
             \/ type = "missing_customer_information" /\ v \in MissingCustomers(t)
             \/ type = "boundary_refund_amount" /\ v \in Boundaries(t)
    BY DEF Variants, MutationTypes
  <1>2. ASSUME DOMAIN v = Fields
        PROVE  SameFields(v, u, {"id"}) /\ u.id = Append(v.id, type)
    BY <1>1, <1>2 DEF SameFields, Fields
  <1>3. QED BY <1>1, <1>2

-----------------------------------------------------------------------------
\* The contracts of the seed tasks

\* The two priced tasks are of one form.
LEMMA PricedForm ==
  ASSUME NEW p \in Priceds
  PROVE  \E c, o, days, sku, k, total :
           /\ days \in 0..30 /\ total \in Nat /\ HasContract(p, Priced(c, o, days, sku, k, total), {})
           /\ \A new : Moved(p, new) = Priced(c, o, days, sku, k, new)
  <1>1. HasContract(CUSTOMER_REFUND_WITHIN_POLICY, Within(4200), {})
    BY DEF CUSTOMER_REFUND_WITHIN_POLICY, Within, Priced, HasContract, LookUps
  <1>2. HasContract(CUSTOMER_REFUND_BOUNDARY_AMOUNT, AtBoundary(5875), {})
    BY DEF CUSTOMER_REFUND_BOUNDARY_AMOUNT, AtBoundary, Priced, HasContract, LookUps
  <1>3. CUSTOMER_REFUND_WITHIN_POLICY # CUSTOMER_REFUND_BOUNDARY_AMOUNT
    <2>1. CUSTOMER_REFUND_WITHIN_POLICY.stated = 0
      BY DEF CUSTOMER_REFUND_WITHIN_POLICY, NoAmount
    <2>2. CUSTOMER_REFUND_BOUNDARY_AMOUNT.stated = 5875
      BY DEF CUSTOMER_REFUND_BOUNDARY_AMOUNT
    <2>3. QED BY <2>1, <2>2
  <1>4. CASE p = CUSTOMER_REFUND_WITHIN_POLICY
    BY <1>1, <1>4 DEF Moved, Within
  <1>5. CASE p = CUSTOMER_REFUND_BOUNDARY_AMOUNT
    BY <1>2, <1>3, <1>5 DEF Moved, AtBoundary
  <1>6. QED BY <1>4, <1>5 DEF Priceds

LEMMA PricedIsWellFormed ==
  ASSUME NEW c, NEW o, NEW days, NEW sku, NEW k, NEW total \in Nat, NEW r, r = Priced(c, o, days, sku, k, total)
  PROVE  WellFormed(r)
  <1>1. /\ r.customers = {c} /\ DOMAIN r.orders = {o} /\ r.orders[o].customer = c /\ r.orders[o].total = total
        /\ DOMAIN r.refunds = {} /\ r.tickets = {k}
    BY DEF Priced, One, Order, Empty
  <1>2. ToSet(r.expected) = {GetCustomer(c), GetOrder(o), CheckRefund(o), Refund(o, total), Resolve(k)}
    BY DEF Priced, ToSet
  <1>3. r.forbidden = {Refund(o, total + 1)}
    BY DEF Priced
  <1>4. \A a \in {GetCustomer(c), GetOrder(o), CheckRefund(o), Refund(o, total), Resolve(k)} :
          a.op \in VALID_SERVICE_OPERATIONS /\ ReferencedIdsExist(r, a)
    BY <1>1 DEF GetCustomer, GetOrder, CheckRefund, Refund, Resolve, VALID_SERVICE_OPERATIONS, ReferencedIdsExist
  <1>5. QED BY <1>1, <1>2, <1>3, <1>4 DEF WellFormed, Refund, VALID_SERVICE_OPERATIONS

LEMMA UnpricedForm ==
  ASSUME NEW p \in SEED_TASKS \ Priceds
  PROVE  Unpriced(p) /\ WellFormed(p) /\ \A new : Moved(p, new) = p
  <1>1. Unpriced(CUSTOMER_REFUND_OUTSIDE_POLICY) /\ WellFormed(CUSTOMER_REFUND_OUTSIDE_POLICY)
    BY DEF CUSTOMER_REFUND_OUTSIDE_POLICY, Unpriced, WellFormed, ToSet, VALID_SERVICE_OPERATIONS, ReferencedIdsExist,
       Order, One, Empty, GetCustomer, GetOrder, CheckRefund, CheckReplacement, AnyRefund, Refund, Resolve
  <1>2. Unpriced(MISSING_CUSTOMER_INFORMATION) /\ WellFormed(MISSING_CUSTOMER_INFORMATION)
    BY DEF MISSING_CUSTOMER_INFORMATION, Unpriced, WellFormed, ToSet, VALID_SERVICE_OPERATIONS, ReferencedIdsExist,
       Order, One, Empty, GetCustomer, GetOrder, CheckRefund, CheckReplacement, AnyRefund, Refund, Resolve
  <1>3. Unpriced(CUSTOMER_ORDER_MISMATCH) /\ WellFormed(CUSTOMER_ORDER_MISMATCH)
    BY DEF CUSTOMER_ORDER_MISMATCH, Unpriced, WellFormed, ToSet, VALID_SERVICE_OPERATIONS, ReferencedIdsExist,
       Order, One, Empty, GetCustomer, GetOrder, CheckRefund, CheckReplacement, AnyRefund, Refund, Resolve
  <1>4. Unpriced(DUPLICATE_REFUND_PREVENTION) /\ WellFormed(DUPLICATE_REFUND_PREVENTION)
    BY DEF DUPLICATE_REFUND_PREVENTION, Unpriced, WellFormed, ToSet, VALID_SERVICE_OPERATIONS, ReferencedIdsExist,
       Order, One, Empty, GetCustomer, GetOrder, CheckRefund, CheckReplacement, AnyRefund, Refund, Resolve
  <1>5. Unpriced(ORDER_CANCELLATION_BEFORE_SHIPPING) /\ WellFormed(ORDER_CANCELLATION_BEFORE_SHIPPING)
    BY DEF ORDER_CANCELLATION_BEFORE_SHIPPING, Unpriced, WellFormed, ToSet, VALID_SERVICE_OPERATIONS, ReferencedIdsExist,
       Order, One, Empty, GetCustomer, GetOrder, CheckRefund, CheckReplacement, AnyRefund, Refund, Resolve
  <1>6. Unpriced(ORDER_CANCELLATION_DENIED_AFTER_DELIVERY) /\ WellFormed(ORDER_CANCELLATION_DENIED_AFTER_DELIVERY)
    BY DEF ORDER_CANCELLATION_DENIED_AFTER_DELIVERY, Unpriced, WellFormed, ToSet, VALID_SERVICE_OPERATIONS, ReferencedIdsExist,
       Order, One, Empty, GetCustomer, GetOrder, CheckRefund, CheckReplacement, AnyRefund, Refund, Resolve
  <1>7. Unpriced(ITEM_REPLACEMENT_WITHIN_POLICY) /\ WellFormed(ITEM_REPLACEMENT_WITHIN_POLICY)
    BY DEF ITEM_REPLACEMENT_WITHIN_POLICY, Unpriced, WellFormed, ToSet, VALID_SERVICE_OPERATIONS, ReferencedIdsExist,
       Order, One, Empty, GetCustomer, GetOrder, CheckRefund, CheckReplacement, AnyRefund, Refund, Resolve
  <1>8. Unpriced(TICKET_ESCALATION_FOR_UNRESOLVED_ISSUE) /\ WellFormed(TICKET_ESCALATION_FOR_UNRESOLVED_ISSUE)
    BY DEF TICKET_ESCALATION_FOR_UNRESOLVED_ISSUE, Unpriced, WellFormed, ToSet, VALID_SERVICE_OPERATIONS, ReferencedIdsExist,
       Order, One, Empty, GetCustomer, GetOrder, CheckRefund, CheckReplacement, AnyRefund, Refund, Resolve
  <1>9. QED BY <1>1, <1>2, <1>3, <1>4, <1>5, <1>6, <1>7, <1>8 DEF SEED_TASKS, Priceds, Moved

-----------------------------------------------------------------------------
\* A mutation turns a contract into one of the same form.

\* Only the whole refund of a priced task can be moved.
MovedParts(v, r, decoys) ==
  /\ v.orders = r.orders /\ v.expected = r.expected /\ v.final = r.final
  /\ v.forbidden = r.forbidden \cup LookUps(decoys)

LEMMA MovedRefund ==
  ASSUME NEW c, NEW o, NEW days, NEW sku, NEW k, NEW total \in Nat,
         NEW t, NEW decoys, HasContract(t, Priced(c, o, days, sku, k, total), decoys),
         NEW v, NEW i \in FullRefunds(t), NEW shift \in TotalShifts, NEW x, NEW old, MovedBy(t, v, i, shift, x, old)
  PROVE  MovedParts(v, Priced(c, o, days, sku, k, total + shift), decoys)
  <1> DEFINE new == total + shift
  <1>1. /\ t.orders = One(o, Order(c, "delivered", total, days, sku))
        /\ t.expected = <<GetCustomer(c), GetOrder(o), CheckRefund(o), Refund(o, total), Resolve(k)>>
        /\ t.forbidden = {Refund(o, total + 1)} \cup LookUps(decoys)
        /\ t.final = {Refunded(o, total), TicketIs(k, "resolved")}
    BY DEF HasContract, Priced
  <1>2. /\ DOMAIN t.expected = 1..5
        /\ t.expected[1] = GetCustomer(c) /\ t.expected[2] = GetOrder(o) /\ t.expected[3] = CheckRefund(o)
        /\ t.expected[4] = Refund(o, total) /\ t.expected[5] = Resolve(k)
    BY <1>1
  <1>3. i = 4
    <2>1. i \in 1..5 /\ t.expected[i].op = "create_refund"
      BY <1>2 DEF FullRefunds, Refunds
    <2>2. QED BY <1>2, <2>1 DEF GetCustomer, GetOrder, CheckRefund, Resolve
  <1>4. x = o /\ t.orders[o] = Order(c, "delivered", total, days, sku) /\ old = total
    BY <1>1, <1>2, <1>3 DEF MovedBy, Refund, One, Order
  <1>5. v.orders = One(o, Order(c, "delivered", new, days, sku))
    BY <1>1, <1>4 DEF MovedBy, One, Order
  <1>6. v.expected = <<GetCustomer(c), GetOrder(o), CheckRefund(o), Refund(o, new), Resolve(k)>>
    <2>1. v.expected = [t.expected EXCEPT ![4].amount = new]
      BY <1>3, <1>4 DEF MovedBy
    <2>2. [t.expected[4] EXCEPT !.amount = new] = Refund(o, new)
      BY <1>2 DEF Refund
    <2>3. QED BY <1>1, <1>2, <2>1, <2>2
  <1>7. v.forbidden = {Refund(o, new + 1)} \cup LookUps(decoys)
    <2>1. v.forbidden = {IF a = Refund(o, total + 1) THEN Refund(o, new + 1) ELSE a : a \in t.forbidden}
      BY <1>4 DEF MovedBy, Raised
    <2>2. \A a \in LookUps(decoys) : a # Refund(o, total + 1)
      BY DEF LookUps, GetCustomer, Refund
    <2>3. QED BY <1>1, <2>1, <2>2
  <1>8. v.final = {Refunded(o, new), TicketIs(k, "resolved")}
    <2>1. v.final = Settled(t.final, o, new)
      BY <1>4 DEF MovedBy
    <2>2. /\ Refunded(o, total)[1] = "refunds" /\ Refunded(o, total)[2] = o
          /\ TicketIs(k, "resolved")[1] # "refunds"
      BY DEF Refunded, TicketIs
    <2>3. QED BY <1>1, <2>1, <2>2 DEF Settled
  <1>9. QED BY <1>5, <1>6, <1>7, <1>8 DEF MovedParts, Priced

LEMMA TotalIsThere ==
  ASSUME NEW p \in SEED_TASKS, NEW new \in Nat, NEW more, NEW u, HasContract(u, Moved(p, new), more)
  PROVE  \E n \in Totals(u) : n \in Nat /\ HasContract(u, Moved(p, n), more)
  <1>1. CASE p \in Priceds
    <2>1. PICK c, o, days, sku, k, total : \A n : Moved(p, n) = Priced(c, o, days, sku, k, n)
      BY <1>1, PricedForm
    <2>2. u.orders = One(o, Order(c, "delivered", new, days, sku))
      BY <2>1 DEF HasContract, Priced
    <2>3. new \in Totals(u)
      BY <2>2 DEF Totals, One, Order
    <2>4. QED BY <2>3
  <1>2. CASE p \notin Priceds
    <2>1. Moved(p, new) = Moved(p, 0)
      BY <1>2, UnpricedForm
    <2>2. 0 \in Totals(u)
      BY DEF Totals
    <2>3. QED BY <2>1, <2>2
  <1>3. QED BY <1>1, <1>2

Kept(p, t, type, u) ==
  /\ DOMAIN u = Fields /\ u.id = Append(t.id, type)
  /\ u.stated = t.stated \/ (t.stated # NoAmount /\ \E shift \in AmountShifts : u.stated = t.stated + shift)
  /\ \E new \in Totals(u) : \E more \in SUBSET Decoys : new \in Nat /\ HasContract(u, Moved(p, new), more)
  /\ type \in CONTRACT_PRESERVING_MUTATIONS => u.expected = t.expected /\ u.forbidden = t.forbidden

LEMMA FormKept ==
  ASSUME NEW p \in SEED_TASKS, NEW total \in Nat, NEW decoys \in SUBSET Decoys,
         NEW t, DOMAIN t = Fields, HasContract(t, Moved(p, total), decoys),
         NEW type \in MutationTypes, NEW u \in Variants(type, t)
  PROVE  Kept(p, t, type, u)
  <1>1. PICK v : /\ DOMAIN v = Fields => SameFields(v, u, {"id"}) /\ u.id = Append(v.id, type)
                 /\ \/ /\ type # "boundary_refund_amount"
                       /\ v \in Typos(t) \cup Distractions(t) \cup Paraphrases(t) \cup Noises(t)
                    \/ type # "boundary_refund_amount" /\ v \in Conflicts(t)
                    \/ type = "missing_customer_information" /\ v \in MissingCustomers(t)
                    \/ type = "boundary_refund_amount" /\ v \in Boundaries(t)
    BY Renamed
  <1>2. PICK r : r = Moved(p, total)
    OBVIOUS
  <1>3. ASSUME SameFields(t, v, {"input", "stated"}) PROVE HasContract(v, r, decoys) /\ v.id = t.id
    BY <1>2, <1>3 DEF SameFields, Fields, HasContract
  <1>4. CASE v \in Typos(t) \cup Distractions(t) \cup Paraphrases(t) \cup Noises(t)
    <2>1. SameFields(t, v, {"input"})
      BY <1>4, TextVariants
    <2>2. SameFields(t, v, {"input", "stated"}) /\ v.stated = t.stated /\ DOMAIN v = Fields
      BY <2>1 DEF SameFields, Fields
    <2>3. HasContract(v, r, decoys) /\ v.id = t.id /\ SameFields(v, u, {"id"}) /\ u.id = Append(v.id, type)
      BY <1>1, <1>3, <2>2
    <2>4. HasContract(u, r, decoys) /\ DOMAIN u = Fields /\ u.stated = v.stated
      BY <2>2, <2>3 DEF SameFields, Fields, HasContract
    <2>5. \E new \in Totals(u) : new \in Nat /\ HasContract(u, Moved(p, new), decoys)
      BY <1>2, <2>4, TotalIsThere
    <2>6. u.expected = t.expected /\ u.forbidden = t.forbidden
      BY <1>2, <2>4 DEF HasContract
    <2>7. QED BY <2>2, <2>3, <2>4, <2>5, <2>6 DEF Kept
  <1>5. CASE v \in Conflicts(t)
    <2>1. /\ SameFields(t, v, {"stated"}) /\ t.stated # NoAmount
          /\ \E shift \in AmountShifts : v.stated = t.stated + shift
      BY <1>5, ConflictVariants
    <2>2. SameFields(t, v, {"input", "stated"}) /\ DOMAIN v = Fields
      BY <2>1 DEF SameFields, Fields
    <2>3. HasContract(v, r, decoys) /\ v.id = t.id /\ SameFields(v, u, {"id"}) /\ u.id = Append(v.id, type)
      BY <1>1, <1>3, <2>2
    <2>4. HasContract(u, r, decoys) /\ DOMAIN u = Fields /\ u.stated = v.stated
      BY <2>2, <2>3 DEF SameFields, Fields, HasContract
    <2>5. \E new \in Totals(u) : new \in Nat /\ HasContract(u, Moved(p, new), decoys)
      BY <1>2, <2>4, TotalIsThere
    <2>6. u.expected = t.expected /\ u.forbidden = t.forbidden
      BY <1>2, <2>4 DEF HasContract
    <2>7. QED BY <2>1, <2>3, <2>4, <2>5, <2>6 DEF Kept
  <1>6. CASE type = "missing_customer_information" /\ v \in MissingCustomers(t)
    <2>1. /\ SameFields(t, v, {"input", "forbidden"})
          /\ \E d \in Decoys : v.forbidden = t.forbidden \cup {GetCustomer(d)}
      BY <1>6, MissingVariants
    <2>2. PICK d \in Decoys : v.forbidden = t.forbidden \cup {GetCustomer(d)}
      BY <2>1
    <2>3. PICK more : more = decoys \cup {d}
      OBVIOUS
    <2>4. LookUps(more) = LookUps(decoys) \cup {GetCustomer(d)}
      BY <2>3 DEF LookUps
    <2>5. DOMAIN v = Fields /\ v.id = t.id /\ v.stated = t.stated /\ HasContract(v, r, more)
      BY <1>2, <2>1, <2>2, <2>4 DEF SameFields, Fields, HasContract
    <2>6. HasContract(u, r, more) /\ DOMAIN u = Fields /\ u.stated = v.stated /\ u.id = Append(v.id, type)
      BY <1>1, <2>5 DEF SameFields, Fields, HasContract
    <2>7. \E new \in Totals(u) : new \in Nat /\ HasContract(u, Moved(p, new), more)
      BY <1>2, <2>6, TotalIsThere
    <2>8. more \in SUBSET Decoys /\ type \notin CONTRACT_PRESERVING_MUTATIONS
      BY <1>6, <2>3 DEF CONTRACT_PRESERVING_MUTATIONS
    <2>9. QED BY <2>5, <2>6, <2>7, <2>8 DEF Kept
  <1>7. CASE type = "boundary_refund_amount" /\ v \in Boundaries(t)
    <2>1. /\ SameFields(t, v, {"orders", "expected", "forbidden", "final"})
          /\ \E i \in FullRefunds(t), shift \in TotalShifts : \E o, old : MovedBy(t, v, i, shift, o, old)
      BY <1>7, BoundaryVariants
    <2>2. PICK i \in FullRefunds(t), shift \in TotalShifts : \E o, old : MovedBy(t, v, i, shift, o, old)
      BY <2>1
    <2> PICK x, old : MovedBy(t, v, i, shift, x, old)
      BY <2>2
    <2>3. p \in Priceds
      <3>1. SUFFICES ASSUME p \notin Priceds PROVE FALSE
        OBVIOUS
      <3>2. Unpriced(p) /\ Moved(p, total) = p
        BY <3>1, UnpricedForm
      <3>3. t.expected = p.expected
        BY <3>2 DEF HasContract
      <3>4. QED BY <3>2, <3>3 DEF Unpriced, FullRefunds, Refunds
    <2>4. PICK c, o, days, sku, k, first : \A n : Moved(p, n) = Priced(c, o, days, sku, k, n)
      BY <2>3, PricedForm
    <2>5. HasContract(t, Priced(c, o, days, sku, k, total), decoys)
      BY <2>4
    <2>6. PICK new : new = total + shift
      OBVIOUS
    <2>7. MovedParts(v, Priced(c, o, days, sku, k, new), decoys)
      BY <2>5, <2>6, MovedRefund
    <2>8. /\ DOMAIN v = Fields /\ v.id = t.id /\ v.stated = t.stated
          /\ v.customers = t.customers /\ v.refunds = t.refunds /\ v.tickets = t.tickets
      BY <2>1 DEF SameFields, Fields
    <2>9. HasContract(v, Priced(c, o, days, sku, k, new), decoys)
      BY <2>5, <2>7, <2>8 DEF HasContract, Priced, MovedParts
    <2>10. /\ HasContract(u, Priced(c, o, days, sku, k, new), decoys)
           /\ DOMAIN u = Fields /\ u.stated = v.stated /\ u.id = Append(v.id, type)
      <3>1. DOMAIN u = Fields /\ u.id = Append(v.id, type) /\ \A f \in Fields \ {"id"} : u[f] = v[f]
        BY <1>1, <2>8 DEF SameFields
      <3>2. /\ u.customers = v.customers /\ u.orders = v.orders /\ u.refunds = v.refunds /\ u.tickets = v.tickets
            /\ u.expected = v.expected /\ u.final = v.final /\ u.forbidden = v.forbidden /\ u.stated = v.stated
        BY <3>1 DEF Fields
      <3>3. QED BY <2>9, <3>1, <3>2 DEF HasContract
    <2>11. new \in Nat
      BY <2>2, <2>6
    <2>12. \E n \in Totals(u) : n \in Nat /\ HasContract(u, Moved(p, n), decoys)
      BY <2>4, <2>10, <2>11, TotalIsThere
    <2>13. type \notin CONTRACT_PRESERVING_MUTATIONS
      BY <1>7 DEF CONTRACT_PRESERVING_MUTATIONS
    <2>14. QED BY <2>8, <2>10, <2>12, <2>13 DEF Kept
  <1>8. QED BY <1>1, <1>4, <1>5, <1>6, <1>7

-----------------------------------------------------------------------------
\* Every composition

LEMMA SeedForm ==
  ASSUME NEW p \in SEED_TASKS
  PROVE  \E n \in Totals(p) : n \in Nat /\ HasContract(p, Moved(p, n), {})
  <1>1. CASE p \in Priceds
    <2>1. PICK total \in Nat : HasContract(p, Moved(p, total), {})
      BY <1>1, PricedForm
    <2>2. QED BY <2>1, TotalIsThere
  <1>2. CASE p \notin Priceds
    <2>1. Moved(p, 0) = p
      BY <1>2, UnpricedForm
    <2>2. HasContract(p, p, {})
      BY DEF HasContract, LookUps
    <2>3. HasContract(p, Moved(p, 0), {}) /\ 0 \in Nat
      BY <2>1, <2>2
    <2>4. QED BY <2>3, TotalIsThere
  <1>3. QED BY <1>1, <1>2

LEMMA InitComposed == Init => ComposedInv
  <1> SUFFICES ASSUME Init PROVE ComposedInv
    OBVIOUS
  <1>1. parent \in SEED_TASKS /\ task = parent /\ applied = <<>> /\ pc = "composing"
    BY DEF Init
  <1>2. Texts(parent)
    BY <1>1, SeedTexts
  <1>3. FormInv
    <2>1. {} \in SUBSET Decoys
      OBVIOUS
    <2>2. QED BY <1>1, <1>2, <2>1, SeedForm DEF FormInv, Texts
  <1>4. NameInv
    <2>1. task.id \in Seq({parent.id[1]} \cup MutationTypes) /\ Len(task.id) = 1
      BY <1>1, <1>2 DEF Texts
    <2>2. applied \in Seq(MutationTypes) /\ Len(applied) = 0
      BY <1>1
    <2>3. QED BY <2>1, <2>2 DEF NameInv
  <1>5. QED BY <1>1, <1>2, <1>3, <1>4 DEF ComposedInv, TextInv, PreservedInv, Texts

LEMMA AppliedSet ==
  ASSUME NEW s \in Seq(MutationTypes), NEW type \in MutationTypes
  PROVE  /\ Append(s, type) \in Seq(MutationTypes) /\ Len(s) \in Nat /\ Len(Append(s, type)) = Len(s) + 1
         /\ ToSet(s) \subseteq ToSet(Append(s, type)) /\ type \in ToSet(Append(s, type))
  <1>1. Append(s, type) \in Seq(MutationTypes) /\ Len(s) \in Nat /\ Len(Append(s, type)) = Len(s) + 1
    OBVIOUS
  <1>2. /\ DOMAIN s = 1..Len(s) /\ DOMAIN Append(s, type) = 1..(Len(s) + 1)
        /\ \A i \in 1..Len(s) : Append(s, type)[i] = s[i]
        /\ Append(s, type)[Len(s) + 1] = type
    OBVIOUS
  <1>3. QED BY <1>1, <1>2 DEF ToSet

LEMMA StepComposed == ASSUME ComposedInv, [Next]_vars PROVE ComposedInv'
  <1>1. CASE UNCHANGED vars
    BY <1>1 DEF vars, ComposedInv, FormInv, TextInv, NameInv, PreservedInv
  <1>2. ASSUME NEW type \in MutationTypes, Apply(type) PROVE ComposedInv'
    <2>1. PICK total \in Nat, decoys \in SUBSET Decoys : HasContract(task, Moved(parent, total), decoys)
      BY DEF ComposedInv, FormInv
    <2>2. /\ parent \in SEED_TASKS /\ DOMAIN task = Fields /\ task' \in Variants(type, task)
          /\ pc' = pc /\ parent' = parent /\ applied' = Append(applied, type) /\ Len(applied) < MaxMutations
          /\ pc = "composing"
      BY <1>2 DEF Apply, ComposedInv, FormInv
    <2>3. PICK t, u : t = task /\ u = task'
      OBVIOUS
    <2>4. Kept(parent, t, type, u)
      <3>1. DOMAIN t = Fields /\ HasContract(t, Moved(parent, total), decoys) /\ u \in Variants(type, t)
        BY <2>1, <2>2, <2>3
      <3>2. QED BY <2>2, <3>1, FormKept
    <2>5. FormInv'
      BY <2>2, <2>3, <2>4 DEF FormInv, ComposedInv, Kept
    <2>6. TextInv'
      <3>1. t.stated \in Nat /\ (t.stated = 0 <=> parent.stated = 0)
        BY <2>3 DEF TextInv, ComposedInv, NoAmount
      <3>2. \A shift \in AmountShifts : t.stated + shift \in Nat /\ t.stated + shift # 0
        BY <3>1
      <3>3. u.stated \in Nat /\ (u.stated = 0 <=> parent.stated = 0)
        BY <2>4, <3>1, <3>2 DEF NoAmount, Kept
      <3>4. QED BY <2>2, <2>3, <3>3 DEF TextInv, NoAmount
    <2>7. /\ Append(applied, type) \in Seq(MutationTypes) /\ Len(applied) \in Nat
          /\ Len(Append(applied, type)) = Len(applied) + 1
          /\ ToSet(applied) \subseteq ToSet(Append(applied, type)) /\ type \in ToSet(Append(applied, type))
      BY AppliedSet DEF ComposedInv, NameInv
    <2>8. NameInv'
      <3>1. t.id \in Seq({parent.id[1]} \cup MutationTypes) /\ Len(t.id) = Len(applied) + 1
        BY <2>2, <2>3 DEF ComposedInv, NameInv
      <3>2. u.id \in Seq({parent.id[1]} \cup MutationTypes) /\ Len(u.id) = Len(applied) + 1 + 1
        BY <2>4, <3>1 DEF Kept
      <3>3. Len(applied) + 1 <= MaxMutations
        BY <2>2, <2>7
      <3>4. QED BY <2>2, <2>3, <2>7, <3>2, <3>3 DEF NameInv
    <2>9. PreservedInv'
      BY <2>2, <2>3, <2>4, <2>7 DEF PreservedInv, ComposedInv, Kept
    <2>10. QED BY <2>5, <2>6, <2>8, <2>9 DEF ComposedInv
  <1>3. ASSUME NEW type \in MutationTypes, Refuse(type) PROVE ComposedInv'
    <2>1. /\ pc' = "refused" /\ task' = task /\ parent' = parent /\ applied' = Append(applied, type)
          /\ Len(applied) < MaxMutations
      BY <1>3 DEF Refuse
    <2>2. /\ Append(applied, type) \in Seq(MutationTypes) /\ Len(applied) \in Nat
          /\ Len(Append(applied, type)) = Len(applied) + 1
          /\ ToSet(applied) \subseteq ToSet(Append(applied, type))
      BY AppliedSet DEF ComposedInv, NameInv
    <2>3. FormInv' /\ TextInv'
      BY <2>1 DEF ComposedInv, FormInv, TextInv
    <2>4. NameInv'
      BY <2>1, <2>2 DEF ComposedInv, NameInv
    <2>5. PreservedInv'
      BY <2>1, <2>2 DEF ComposedInv, PreservedInv
    <2>6. QED BY <2>3, <2>4, <2>5 DEF ComposedInv
  <1>4. CASE Finish
    BY <1>4 DEF Finish, ComposedInv, FormInv, TextInv, NameInv, PreservedInv
  <1>5. QED BY <1>1, <1>2, <1>3, <1>4 DEF Next

\* The inductive invariant: whatever was composed, the task has its seed's contract but
\* for the total of a fully refunded order and for look-ups that are forbidden.
THEOREM ComposedInductive == Spec => []ComposedInv
  BY InitComposed, StepComposed, PTL DEF Spec

\* A form is what its seed task is, well formed.
LEMMA FormIsWellFormed ==
  ASSUME NEW p \in SEED_TASKS, NEW total \in Nat, NEW decoys \in SUBSET Decoys,
         NEW t, HasContract(t, Moved(p, total), decoys)
  PROVE  WellFormed(t)
  <1>1. PICK r : r = Moved(p, total) /\ WellFormed(r)
    <2>1. CASE p \in Priceds
      BY <2>1, PricedForm, PricedIsWellFormed
    <2>2. CASE p \notin Priceds
      BY <2>2, UnpricedForm
    <2>3. QED BY <2>1, <2>2
  <1>2. \A a \in LookUps(decoys) : a.op \in VALID_SERVICE_OPERATIONS
    BY DEF LookUps, GetCustomer, VALID_SERVICE_OPERATIONS
  <1>3. QED BY <1>1, <1>2 DEF WellFormed, HasContract, ReferencedIdsExist

\* Compositions of any length, with any draws, keep a task well formed for the services.
THEOREM MutationTypesOK == Spec => []TypeOK
  <1>1. ASSUME ComposedInv PROVE TypeOK
    <2>1. PICK total \in Nat, decoys \in SUBSET Decoys : HasContract(task, Moved(parent, total), decoys)
      BY <1>1 DEF ComposedInv, FormInv
    <2>2. WellFormed(task) /\ parent \in SEED_TASKS
      BY <1>1, <2>1, FormIsWellFormed DEF ComposedInv, FormInv
    <2>3. DOMAIN task = DOMAIN parent
      BY <1>1, <2>2, SeedTexts DEF ComposedInv, FormInv, Texts
    <2>4. QED BY <1>1, <2>2, <2>3 DEF ComposedInv, FormInv, TextInv, NameInv, WellFormed, TypeOK
  <1>2. QED BY <1>1, ComposedInductive, PTL

\* A refund that the seed task guards at the order's total stays guarded at the total of
\* every variant, wherever compositions of any length move it.
THEOREM RefundsAreGuarded == Spec => []RefundGuardedAtItsLimit
  <1>1. ASSUME ComposedInv, NEW o \in DOMAIN parent.orders,
               Refund(o, parent.orders[o].total + 1) \in parent.forbidden
        PROVE  /\ Refund(o, task.orders[o].total + 1) \in task.forbidden
               /\ \A a \in task.forbidden :
                    a.op = "create_refund" /\ a.order = o => "amount" \in DOMAIN a /\ a.amount > task.orders[o].total
    <2>1. PICK total \in Nat, decoys \in SUBSET Decoys : HasContract(task, Moved(parent, total), decoys)
      BY <1>1 DEF ComposedInv, FormInv
    <2>2. parent \in Priceds
      BY <1>1, UnpricedForm DEF ComposedInv, FormInv, Unpriced
    <2>3. PICK c, q, days, sku, k, first :
            /\ HasContract(parent, Priced(c, q, days, sku, k, first), {})
            /\ \A n : Moved(parent, n) = Priced(c, q, days, sku, k, n)
      BY <2>2, PricedForm
    <2>4. o = q
      BY <1>1, <2>3 DEF HasContract, Priced, One
    <2>5. task.orders[o].total = total /\ task.forbidden = {Refund(o, total + 1)} \cup LookUps(decoys)
      <3>1. HasContract(task, Priced(c, q, days, sku, k, total), decoys)
        BY <2>1, <2>3
      <3>2. QED BY <2>4, <3>1 DEF HasContract, Priced, One, Order
    <2>6. \A a \in LookUps(decoys) : a.op # "create_refund"
      BY DEF LookUps, GetCustomer
    <2>7. PICK a : a = Refund(o, total + 1)
      OBVIOUS
    <2>8. "amount" \in DOMAIN a /\ a.amount > total
      BY <2>7 DEF Refund
    <2>9. QED BY <2>5, <2>6, <2>7, <2>8
  <1>2. ComposedInv => RefundGuardedAtItsLimit
    BY <1>1 DEF RefundGuardedAtItsLimit
  <1>3. QED BY <1>2, ComposedInductive, PTL

\* Whatever compose_mutations makes of a seed task is a variant that validate_variant accepts.
THEOREM CompositionsAreValid == Spec => []ComposedVariantsAreValid
  <1>1. ASSUME ComposedInv, pc = "composed", applied # <<>> PROVE ValidVariant
    <2>1. PICK total \in Nat, decoys \in SUBSET Decoys : HasContract(task, Moved(parent, total), decoys)
      BY <1>1 DEF ComposedInv, FormInv
    <2>2. WellFormed(task) /\ parent \in SEED_TASKS
      BY <1>1, <2>1, FormIsWellFormed DEF ComposedInv, FormInv
    <2>3. task.id \notin {t.id : t \in SEED_TASKS}
      <3>1. Len(applied) \in Nat /\ Len(applied) # 0 /\ Len(task.id) = Len(applied) + 1
        BY <1>1 DEF ComposedInv, NameInv
      <3>2. \A t \in SEED_TASKS : Len(t.id) = 1
        BY SeedTexts DEF Texts
      <3>3. Len(task.id) # 1
        BY <3>1
      <3>4. \A t \in SEED_TASKS : t.id # task.id
        BY <3>2, <3>3
      <3>5. QED BY <3>4
    <2>4. QED BY <1>1, <2>2, <2>3 DEF ValidVariant, WellFormed, ComposedInv, PreservedInv
  <1>2. QED BY <1>1, ComposedInductive, PTL DEF ComposedVariantsAreValid

-----------------------------------------------------------------------------
\* The services and the scoring, on a task

Env(status, refunds, replacements, ticket) ==
  [status |-> status, refunds |-> refunds, replacements |-> replacements, ticket |-> ticket]
Untouched(t) ==
  Env([o \in DOMAIN t.orders |-> t.orders[o].status], t.refunds, [o \in {} |-> {}],
      [k \in t.tickets |-> [status |-> "open", escalations |-> 0]])

\* The state after each of at most five calls.
Follow(t, s, calls, n) ==
  s[0] = Untouched(t) /\ \A i \in 1..n : s[i] = Run(t)!After(s[i - 1], calls[i])

LEMMA Walk ==
  ASSUME NEW t, NEW calls, NEW n \in 0..5, n = Len(calls)
  PROVE  Follow(t, States(t, calls), calls, n)
  <1> DEFINE Next1(g, i) == IF i = 0 THEN Run(t)!SeedEnvironment ELSE Run(t)!After(g[i - 1], calls[i])
             IsStates(g) == g = [i \in 0..n |-> Next1(g, i)]
  <1>1. States(t, calls) = CHOOSE g : IsStates(g)
    BY DEF States
  <1>2. \E g : IsStates(g)
    <2>1. PICK s0 : s0 = Run(t)!SeedEnvironment
      OBVIOUS
    <2>2. PICK s1 : s1 = Run(t)!After(s0, calls[1])
      OBVIOUS
    <2>3. PICK s2 : s2 = Run(t)!After(s1, calls[2])
      OBVIOUS
    <2>4. PICK s3 : s3 = Run(t)!After(s2, calls[3])
      OBVIOUS
    <2>5. PICK s4 : s4 = Run(t)!After(s3, calls[4])
      OBVIOUS
    <2>6. PICK s5 : s5 = Run(t)!After(s4, calls[5])
      OBVIOUS
    <2>7. PICK g : g = [i \in 0..n |-> IF i = 0 THEN s0 ELSE IF i = 1 THEN s1 ELSE IF i = 2 THEN s2
                                       ELSE IF i = 3 THEN s3 ELSE IF i = 4 THEN s4 ELSE s5]
      OBVIOUS
    <2>8. ASSUME NEW i \in 0..n PROVE g[i] = Next1(g, i)
      <3>1. i \in {0, 1, 2, 3, 4, 5} /\ (i # 0 => i - 1 \in 0..n)
        OBVIOUS
      <3>2. CASE i = 0
        BY <2>1, <2>7, <3>2
      <3>3. CASE i = 1
        BY <2>2, <2>7, <3>1, <3>3
      <3>4. CASE i = 2
        BY <2>3, <2>7, <3>1, <3>4
      <3>5. CASE i = 3
        BY <2>4, <2>7, <3>1, <3>5
      <3>6. CASE i = 4
        BY <2>5, <2>7, <3>1, <3>6
      <3>7. CASE i = 5
        BY <2>6, <2>7, <3>1, <3>7
      <3>8. QED BY <3>1, <3>2, <3>3, <3>4, <3>5, <3>6, <3>7
    <2>9. IsStates(g)
      <3>1. PICK h : h = [i \in 0..n |-> Next1(g, i)]
        OBVIOUS
      <3>2. \A i \in 0..n : h[i] = g[i]
        BY <2>8, <3>1
      <3>3. g = [i \in 0..n |-> g[i]] /\ h = [i \in 0..n |-> h[i]]
        BY <2>7, <3>1
      <3>4. h = g
        BY <3>2, <3>3
      <3>5. QED BY <3>1, <3>4
    <2>10. QED BY <2>9
  <1>3. IsStates(States(t, calls))
    BY <1>1, <1>2
  <1>4. \A i \in 0..n : States(t, calls)[i] = Next1(States(t, calls), i)
    BY <1>3
  <1>5. Run(t)!SeedEnvironment = Untouched(t)
    BY DEF Run!SeedEnvironment, Untouched, Env
  <1>6. QED BY <1>4, <1>5 DEF Follow

IsRead(t, c) ==
  \/ \E x \in t.customers : c = GetCustomer(x)
  \/ \E o \in DOMAIN t.orders : c \in {GetOrder(o), CheckRefund(o), CheckReplacement(o)}

LEMMA ReadCall ==
  ASSUME NEW t, NEW env, NEW c, IsRead(t, c)
  PROVE  Run(t)!Outcome(env, c) = "ok" /\ Run(t)!After(env, c) = env
  <1>1. CASE \E x \in t.customers : c = GetCustomer(x)
    BY <1>1 DEF GetCustomer, Run!Outcome, Run!Binds, Run!After, Run!Required, Run!Found, Run!Allowed, Run!Effect
  <1>2. CASE \E o \in DOMAIN t.orders : c \in {GetOrder(o), CheckRefund(o), CheckReplacement(o)}
    BY <1>2 DEF GetOrder, CheckRefund, CheckReplacement,
       Run!Outcome, Run!Binds, Run!After, Run!Required, Run!Found, Run!Allowed, Run!Effect
  <1>3. QED BY <1>1, <1>2 DEF IsRead

LEMMA ResolveCall ==
  ASSUME NEW t, NEW k \in t.tickets, NEW st, NEW rf, NEW rp, NEW tk
  PROVE  /\ Run(t)!Outcome(Env(st, rf, rp, tk), Resolve(k)) = "ok"
         /\ Run(t)!After(Env(st, rf, rp, tk), Resolve(k)) = Env(st, rf, rp, [tk EXCEPT ![k].status = "resolved"])
  BY DEF Resolve, Env, Run!Outcome, Run!Binds, Run!After, Run!Required, Run!Found, Run!Allowed, Run!Effect

Escalated(tk, k) == [tk EXCEPT ![k] = [status |-> "escalated", escalations |-> tk[k].escalations + 1]]

Escalate(k) == [op |-> "escalate_ticket", ticket |-> k]

LEMMA EscalateCall ==
  ASSUME NEW t, NEW k \in t.tickets, NEW st, NEW rf, NEW rp, NEW tk, tk[k].status = "open",
         NEW c, c = Escalate(k)
  PROVE  /\ Run(t)!Outcome(Env(st, rf, rp, tk), c) = "ok"
         /\ Run(t)!After(Env(st, rf, rp, tk), c)
            = Env(st, rf, rp, Escalated(tk, k))
  BY DEF Env, Run!Outcome, Run!Binds, Run!After, Run!Required, Run!Found, Run!Allowed, Run!Effect, Run!Escalatable, Escalated, Escalate

LEMMA RefundCall ==
  ASSUME NEW t, NEW o \in DOMAIN t.orders, NEW st, NEW rf, NEW rp, NEW tk, NEW total \in Nat,
         NEW c, c = Complete(t, Refund(o, total)), t.orders[o].total = total,
         st[o] = "delivered", o \notin DOMAIN rf, t.orders[o].days \in 0..30
  PROVE  /\ Run(t)!Outcome(Env(st, rf, rp, tk), c) = "ok"
         /\ Run(t)!After(Env(st, rf, rp, tk), c) = Env(st, Run(t)!With(rf, o, total), rp, tk)
  <1>1. /\ c.op = "create_refund" /\ c.order = o /\ c.customer = t.orders[o].customer /\ c.amount = total
        /\ DOMAIN c = {"op", "order", "customer", "amount"}
    BY DEF Complete, Refund
  <1>2. Run(t)!Outcome(Env(st, rf, rp, tk), c) = "ok"
    BY <1>1 DEF Env, Run!Outcome, Run!Binds, Run!Required, Run!Found, Run!Allowed, Run!RefundAllowed, Run!OwnerCalls,
       Run!RefundEligible, Run!RefundWindowDays
  <1>3. QED BY <1>1, <1>2 DEF Env, Run!After, Run!Effect

LEMMA CancelCall ==
  ASSUME NEW t, NEW o \in DOMAIN t.orders, NEW st, NEW rf, NEW rp, NEW tk,
         NEW c, c = Complete(t, [op |-> "cancel_order", order |-> o]), st[o] = "processing"
  PROVE  /\ Run(t)!Outcome(Env(st, rf, rp, tk), c) = "ok"
         /\ Run(t)!After(Env(st, rf, rp, tk), c) = Env([st EXCEPT ![o] = "cancelled"], rf, rp, tk)
  <1>1. /\ c.op = "cancel_order" /\ c.order = o /\ c.customer = t.orders[o].customer
        /\ DOMAIN c = {"op", "order", "customer"}
    BY DEF Complete
  <1>2. Run(t)!Outcome(Env(st, rf, rp, tk), c) = "ok"
    BY <1>1 DEF Env, Run!Outcome, Run!Binds, Run!Required, Run!Found, Run!Allowed, Run!CancelAllowed, Run!OwnerCalls,
       Run!Cancellable
  <1>3. QED BY <1>1, <1>2 DEF Env, Run!After, Run!Effect

LEMMA ReplaceCall ==
  ASSUME NEW t, NEW o \in DOMAIN t.orders, NEW sku, NEW st, NEW rf, NEW rp, NEW tk,
         NEW c, c = Complete(t, [op |-> "replace_item", order |-> o, sku |-> sku]), t.orders[o].sku = sku,
         st[o] = "delivered", o \notin DOMAIN rp, t.orders[o].days \in 0..30
  PROVE  /\ Run(t)!Outcome(Env(st, rf, rp, tk), c) = "ok"
         /\ Run(t)!After(Env(st, rf, rp, tk), c) = Env(st, rf, Run(t)!With(rp, o, sku), tk)
  <1>1. /\ c.op = "replace_item" /\ c.order = o /\ c.customer = t.orders[o].customer /\ c.sku = sku
        /\ DOMAIN c = {"op", "order", "customer", "sku"}
    BY DEF Complete
  <1>2. Run(t)!Outcome(Env(st, rf, rp, tk), c) = "ok"
    BY <1>1 DEF Env, Run!Outcome, Run!Binds, Run!Required, Run!Found, Run!Allowed, Run!ReplaceAllowed, Run!OwnerCalls,
       Run!ReplacementEligible, Run!ReplacementWindowDays
  <1>3. QED BY <1>1, <1>2 DEF Env, Run!After, Run!Effect

Replaced(o, sku) == <<"replacements", o, "sku", sku>>

LEMMA TrueOfTheState ==
  ASSUME NEW t, NEW st, NEW rf, NEW rp, NEW tk, NEW facts, facts = Run(t)!Facts(Env(st, rf, rp, tk))
  PROVE  /\ \A o \in DOMAIN t.orders : OrderIs(o, st[o]) \in facts
         /\ \A o \in DOMAIN rf : Refunded(o, rf[o]) \in facts
         /\ \A o \in DOMAIN rp : Replaced(o, rp[o]) \in facts
         /\ \A k \in t.tickets : TicketIs(k, tk[k].status) \in facts
  BY DEF Run!Facts, Env, OrderIs, Refunded, Replaced, TicketIs

Buying == {"create_refund", "cancel_order", "replace_item"}

LEMMA Completed ==
  ASSUME NEW t, NEW a
  PROVE  /\ a.op \notin Buying => Complete(t, a) = a
         /\ a.op \in Buying => /\ DOMAIN Complete(t, a) = DOMAIN a \cup {"customer"}
                               /\ \A f \in DOMAIN a \ {"customer"} : Complete(t, a)[f] = a[f]
  BY DEF Complete, Buying

LEMMA CompletedKeeps ==
  ASSUME NEW t, NEW a, a.op \in Buying => "customer" \notin DOMAIN a, NEW c, c = Complete(t, a)
  PROVE  \A x \in DOMAIN a : x \in DOMAIN c /\ c[x] = a[x]
  <1>1. CASE a.op \notin Buying
    BY <1>1, Completed
  <1>2. CASE a.op \in Buying
    <2>1. /\ DOMAIN c = DOMAIN a \cup {"customer"} /\ \A f \in DOMAIN a \ {"customer"} : c[f] = a[f]
          /\ "customer" \notin DOMAIN a
      BY <1>2 DEF Complete, Buying
    <2>2. QED BY <2>1
  <1>3. QED BY <1>1, <1>2

\* The patterns of a contract leave the customer of an order's call open.
Open(t) == \A i \in DOMAIN t.expected : /\ "op" \in DOMAIN t.expected[i]
                                        /\ t.expected[i].op \in Buying => "customer" \notin DOMAIN t.expected[i]

Solved(t) ==
  LET calls == Solution(t) IN
  /\ \A i \in DOMAIN calls : Run(t)!Outcome(States(t, calls)[i - 1], calls[i]) = "ok"
  /\ Run(t)!MeetsContract(Run(t)!Score(ToSet(calls), StateAfter(t, calls)))

\* The expected calls meet a contract in a state that has its facts.
Unforbidden(t, forbidden, decoys) ==
  /\ t.forbidden = forbidden \cup LookUps(decoys) /\ decoys \cap t.customers = {}
  /\ \A f \in forbidden : "op" \in DOMAIN f /\ \A i \in DOMAIN t.expected :
       f.op = t.expected[i].op => \E x \in DOMAIN f : x \in DOMAIN t.expected[i] /\ f[x] # t.expected[i][x]

LEMMA MeetsIts ==
  ASSUME NEW t, WellFormed(t), Open(t), NEW forbidden, NEW decoys, Unforbidden(t, forbidden, decoys),
         NEW env, t.final \subseteq Run(t)!Facts(env)
  PROVE  Run(t)!MeetsContract(Run(t)!Score(ToSet(Solution(t)), env))
  <1>1. /\ DOMAIN Solution(t) = DOMAIN t.expected
        /\ \A i \in DOMAIN t.expected : Solution(t)[i] = Complete(t, t.expected[i])
    BY DEF Solution
  <1>2. ASSUME NEW i \in DOMAIN t.expected, NEW a, a = t.expected[i], NEW c, c = Complete(t, a)
        PROVE  /\ "op" \in DOMAIN a /\ c.op = a.op /\ \A x \in DOMAIN a : x \in DOMAIN c /\ c[x] = a[x]
               /\ Run(t)!Matches(a, c)
    <2>1. "op" \in DOMAIN a /\ (a.op \in Buying => "customer" \notin DOMAIN a)
      BY <1>2 DEF Open
    <2>2. \A x \in DOMAIN a : x \in DOMAIN c /\ c[x] = a[x]
      BY <1>2, <2>1, CompletedKeeps
    <2>3. QED BY <2>1, <2>2 DEF Run!Matches
  <1>3. ASSUME NEW i \in DOMAIN t.expected, NEW f \in t.forbidden
        PROVE  ~Run(t)!Matches(f, Complete(t, t.expected[i]))
    <2> PICK a, c : a = t.expected[i] /\ c = Complete(t, a)
      OBVIOUS
    <2>1. "op" \in DOMAIN a /\ c.op = a.op /\ \A x \in DOMAIN a : x \in DOMAIN c /\ c[x] = a[x]
      BY <1>2
    <2>2. CASE f \in forbidden
      BY <2>1, <2>2 DEF Run!Matches, Unforbidden
    <2>3. CASE f \in LookUps(decoys)
      <3>1. PICK d \in decoys : f = GetCustomer(d)
        BY <2>3 DEF LookUps
      <3>2. CASE a.op = "get_customer"
        <4>1. c = a
          BY <3>2, Completed DEF Buying
        <4>2. "customer" \in DOMAIN a => a.customer \in t.customers
          BY DEF WellFormed, ReferencedIdsExist, ToSet
        <4>3. QED BY <3>1, <4>1, <4>2 DEF Run!Matches, GetCustomer, Unforbidden
      <3>3. CASE a.op # "get_customer"
        BY <2>1, <3>1, <3>3 DEF Run!Matches, GetCustomer
      <3>4. QED BY <3>2, <3>3
    <2>4. QED BY <2>2, <2>3 DEF Unforbidden
  <1>4. QED BY <1>1, <1>2, <1>3 DEF Run!MeetsContract, Run!Score, ToSet

\* The course of a run that makes the expected calls, n of them, in their order.
Course(t, calls, s, n) ==
  /\ calls = Solution(t) /\ s = States(t, calls)
  /\ Len(calls) = n /\ DOMAIN calls = 1..n /\ \A i \in 1..n : calls[i] = Complete(t, t.expected[i])
  /\ Follow(t, s, calls, n)

LEMMA Courses ==
  ASSUME NEW t, NEW n \in 0..5, DOMAIN t.expected = 1..n
  PROVE  \E calls, s : Course(t, calls, s, n)
  <1>1. PICK calls : calls = Solution(t)
    OBVIOUS
  <1>2. PICK s : s = States(t, calls)
    OBVIOUS
  <1>3. calls = [i \in 1..n |-> Complete(t, t.expected[i])]
    BY <1>1 DEF Solution
  <1>4. PICK R : R = {Complete(t, t.expected[i]) : i \in 1..n}
    OBVIOUS
  <1>5. calls \in [1..n -> R]
    BY <1>3, <1>4
  <1>6. Len(calls) = n
    BY <1>5
  <1>7. Follow(t, s, calls, n)
    BY <1>2, <1>6, Walk
  <1>8. QED BY <1>1, <1>2, <1>3, <1>6, <1>7 DEF Course

\* The first m calls are accepted.
Accepted(t, calls, s, m) == \A i \in 1..m : Run(t)!Outcome(s[i - 1], calls[i]) = "ok"

\* What is known of a task when its solution is played.
Playable(t, forbidden, decoys, n, calls, s) ==
  /\ WellFormed(t) /\ Open(t) /\ Unforbidden(t, forbidden, decoys)
  /\ n \in 1..5 /\ Course(t, calls, s, n)

LEMMA Solves ==
  ASSUME NEW t, NEW forbidden, NEW decoys, NEW n, NEW calls, NEW s, Playable(t, forbidden, decoys, n, calls, s),
         Accepted(t, calls, s, n), NEW env, env = s[n], t.final \subseteq Run(t)!Facts(env)
  PROVE  Solved(t)
  <1>1. WellFormed(t) /\ Open(t) /\ Unforbidden(t, forbidden, decoys) /\ Course(t, calls, s, n)
    BY DEF Playable
  <1>2. Run(t)!MeetsContract(Run(t)!Score(ToSet(Solution(t)), env))
    BY <1>1, MeetsIts
  <1>3. calls = Solution(t) /\ s = States(t, calls) /\ Len(calls) = n /\ DOMAIN calls = 1..n
    BY <1>1 DEF Course
  <1>4. env = StateAfter(t, calls)
    BY <1>3 DEF StateAfter
  <1>5. \A i \in DOMAIN calls : Run(t)!Outcome(States(t, calls)[i - 1], calls[i]) = "ok"
    BY <1>3 DEF Accepted
  <1>6. QED BY <1>2, <1>3, <1>4, <1>5 DEF Solved

\* A call like the m-th is accepted and leads to the state env.
LEMMA OneMore ==
  ASSUME NEW t, NEW n \in 1..5, NEW calls, NEW s, Course(t, calls, s, n), NEW m \in 1..n,
         Accepted(t, calls, s, m - 1), NEW before, s[m - 1] = before, NEW c, calls[m] = c,
         Run(t)!Outcome(before, c) = "ok", NEW env, Run(t)!After(before, c) = env
  PROVE  Accepted(t, calls, s, m) /\ s[m] = env
  <1>1. \A i \in 1..m : i \in 1..(m - 1) \/ i = m
    OBVIOUS
  <1>2. QED BY <1>1 DEF Accepted, Course, Follow

\* A call that only reads, or that lacks a mandatory argument, leaves the state alone.
Idle(t, c) == IsRead(t, c) \/ ~(Run(t)!Required[c.op] \subseteq DOMAIN c)

LEMMA IdleCall ==
  ASSUME NEW t, NEW env, NEW c, Idle(t, c)
  PROVE  Run(t)!After(env, c) = env
  <1>1. CASE IsRead(t, c)
    BY <1>1, ReadCall
  <1>2. CASE ~(Run(t)!Required[c.op] \subseteq DOMAIN c)
    <2>1. Run(t)!Outcome(env, c) # "ok"
      BY <1>2 DEF Run!Outcome, Run!Binds
    <2>2. QED BY <2>1 DEF Run!After
  <1>3. QED BY <1>1, <1>2 DEF Idle

LEMMA IdleFirst ==
  ASSUME NEW t, NEW n \in 0..5, NEW calls, NEW s, Follow(t, s, calls, n), NEW m \in 0..n,
         \A i \in 1..m : Idle(t, calls[i])
  PROVE  s[m] = Untouched(t)
  <1> PICK u : u = Untouched(t)
    OBVIOUS
  <1>1. s[0] = u /\ \A i \in 1..n : s[i] = Run(t)!After(s[i - 1], calls[i])
    BY DEF Follow
  <1>2. \A i \in 1..m : i \in 1..n
    OBVIOUS
  <1>3. ASSUME NEW i \in 1..m, s[i - 1] = u PROVE s[i] = u
    BY <1>1, <1>2, <1>3, IdleCall
  <1>4. 1 <= m => s[1] = u
    BY <1>1, <1>3
  <1>5. 2 <= m => s[2] = u
    BY <1>3, <1>4
  <1>6. 3 <= m => s[3] = u
    BY <1>3, <1>5
  <1>7. 4 <= m => s[4] = u
    BY <1>3, <1>6
  <1>8. 5 <= m => s[5] = u
    BY <1>3, <1>7
  <1>9. m \in {0, 1, 2, 3, 4, 5}
    OBVIOUS
  <1>10. QED BY <1>1, <1>4, <1>5, <1>6, <1>7, <1>8, <1>9

\* Calls that only read leave the state as it was seeded.
LEMMA ReadsFirst ==
  ASSUME NEW t, NEW n \in 1..5, NEW calls, NEW s, Course(t, calls, s, n), NEW m \in 0..n,
         \A i \in 1..m : IsRead(t, t.expected[i])
  PROVE  Accepted(t, calls, s, m) /\ s[m] = Untouched(t)
  <1>2. \A i \in 1..m : i \in 1..n
    OBVIOUS
  <1>3. ASSUME NEW i \in 1..m PROVE IsRead(t, calls[i])
    <2>1. calls[i] = Complete(t, t.expected[i]) /\ IsRead(t, t.expected[i])
      BY <1>2 DEF Course
    <2>2. PICK a : a = t.expected[i]
      OBVIOUS
    <2>3. a.op \in {"get_customer", "get_order", "check_refund_policy", "check_replacement_policy"}
      <3>1. CASE \E x \in t.customers : a = GetCustomer(x)
        BY <3>1 DEF GetCustomer
      <3>2. CASE \E o \in DOMAIN t.orders : a \in {GetOrder(o), CheckRefund(o), CheckReplacement(o)}
        BY <3>2 DEF GetOrder, CheckRefund, CheckReplacement
      <3>3. QED BY <2>1, <2>2, <3>1, <3>2 DEF IsRead
    <2>4. Complete(t, a) = a
      BY <2>3, Completed DEF Buying
    <2>5. QED BY <2>1, <2>2, <2>4
  <1>4. s[m] = Untouched(t)
    <2>1. n \in 0..5 /\ Follow(t, s, calls, n) /\ \A i \in 1..m : Idle(t, calls[i])
      BY <1>3 DEF Course, Idle
    <2>2. QED BY <2>1, IdleFirst
  <1>5. ASSUME NEW i \in 1..m PROVE Run(t)!Outcome(s[i - 1], calls[i]) = "ok"
    BY <1>3, ReadCall
  <1>6. QED BY <1>4, <1>5 DEF Accepted

Known(t, leaf, k, st, rf, rp) ==
  \/ leaf = TicketIs(k, "resolved")
  \/ \E o \in DOMAIN t.orders : leaf = OrderIs(o, st[o])
  \/ \E o \in DOMAIN rf : leaf = Refunded(o, rf[o])
  \/ \E o \in DOMAIN rp : leaf = Replaced(o, rp[o])

\* The ticket is resolved last, in a state with everything else that is expected.
LEMMA ResolvedAtLast ==
  ASSUME NEW t, NEW forbidden, NEW decoys, NEW n, NEW calls, NEW s, Playable(t, forbidden, decoys, n, calls, s),
         NEW k \in t.tickets, t.expected[n] = Resolve(k),
         NEW st, NEW rf, NEW rp, NEW tk, k \in DOMAIN tk, "status" \in DOMAIN tk[k],
         s[n - 1] = Env(st, rf, rp, tk), Accepted(t, calls, s, n - 1),
         \A leaf \in t.final : Known(t, leaf, k, st, rf, rp)
  PROVE  Solved(t)
  <1>1. n \in 1..5 /\ n \in 1..n /\ Course(t, calls, s, n)
    BY DEF Playable
  <1>2. calls[n] = Resolve(k)
    <2>1. Resolve(k).op \notin Buying
      BY DEF Resolve, Buying
    <2>2. Complete(t, Resolve(k)) = Resolve(k)
      BY <2>1, Completed
    <2>3. calls[n] = Complete(t, t.expected[n])
      BY <1>1 DEF Course
    <2>4. QED BY <2>2, <2>3
  <1>3. PICK tr : tr = [tk EXCEPT ![k].status = "resolved"]
    OBVIOUS
  <1>4. PICK before, env : before = Env(st, rf, rp, tk) /\ env = Env(st, rf, rp, tr)
    OBVIOUS
  <1>5. PICK c : c = Resolve(k)
    OBVIOUS
  <1>6. Run(t)!Outcome(before, c) = "ok" /\ Run(t)!After(before, c) = env
    <2>1. /\ Run(t)!Outcome(Env(st, rf, rp, tk), Resolve(k)) = "ok"
          /\ Run(t)!After(Env(st, rf, rp, tk), Resolve(k)) = Env(st, rf, rp, [tk EXCEPT ![k].status = "resolved"])
      BY ResolveCall
    <2>2. QED BY <1>3, <1>4, <1>5, <2>1
  <1>7. Accepted(t, calls, s, n) /\ s[n] = env
    <2>1. s[n - 1] = before /\ calls[n] = c
      BY <1>2, <1>4, <1>5
    <2>2. QED BY <1>1, <1>6, <2>1, OneMore
  <1>8. t.final \subseteq Run(t)!Facts(env)
    <2>1. PICK facts : facts = Run(t)!Facts(Env(st, rf, rp, tr))
      OBVIOUS
    <2>2. /\ \A o \in DOMAIN t.orders : OrderIs(o, st[o]) \in facts
          /\ \A o \in DOMAIN rf : Refunded(o, rf[o]) \in facts
          /\ \A o \in DOMAIN rp : Replaced(o, rp[o]) \in facts
          /\ TicketIs(k, tr[k].status) \in facts
      BY <2>1, TrueOfTheState
    <2>3. tr[k].status = "resolved"
      BY <1>3
    <2>4. QED BY <1>4, <2>1, <2>2, <2>3 DEF Known
  <1>9. QED BY <1>7, <1>8, Solves

-----------------------------------------------------------------------------
\* The solutions of the seed tasks

\* No expected call is forbidden.
Apart(r) ==
  \A f \in r.forbidden : "op" \in DOMAIN f /\ \A i \in DOMAIN r.expected :
    f.op = r.expected[i].op => \E x \in DOMAIN f : x \in DOMAIN r.expected[i] /\ f[x] # r.expected[i][x]

\* After some look-ups the ticket is resolved.
OnlyReads(r, n, k) ==
  /\ Open(r) /\ Apart(r) /\ n \in 1..5 /\ DOMAIN r.expected = 1..n
  /\ k \in r.tickets /\ r.expected[n] = Resolve(k)
  /\ \A i \in 1..(n - 1) : IsRead(r, r.expected[i])
  /\ \A leaf \in r.final : leaf = TicketIs(k, "resolved")
       \/ (\E o \in DOMAIN r.orders : leaf = OrderIs(o, r.orders[o].status))
       \/ (\E o \in DOMAIN r.refunds : leaf = Refunded(o, r.refunds[o]))

\* A contract that asks for look-ups of customer c and order o, and for ticket k to be resolved.
LookingUp(r, c, o, k) ==
  /\ c \in r.customers /\ o \in DOMAIN r.orders /\ k \in r.tickets
  /\ \/ r.expected = <<GetCustomer(c), GetOrder(o), Resolve(k)>>
     \/ r.expected = <<GetCustomer(c), GetOrder(o), CheckRefund(o), Resolve(k)>>
     \/ r.expected = <<GetOrder(o), GetCustomer(c), CheckRefund(o), Resolve(k)>>
  /\ \A f \in r.forbidden : \/ f = AnyRefund(o)
                            \/ f = [op |-> "cancel_order", order |-> o]
                            \/ \E d : d # c /\ f = GetCustomer(d)
  /\ \A leaf \in r.final : \/ leaf = TicketIs(k, "resolved")
                           \/ leaf = OrderIs(o, r.orders[o].status)
                           \/ o \in DOMAIN r.refunds /\ leaf = Refunded(o, r.refunds[o])

LEMMA LookUpsForm ==
  ASSUME NEW r, NEW c, NEW o, NEW k, LookingUp(r, c, o, k)
  PROVE  \E n : OnlyReads(r, n, k)
  <1>1. /\ c \in r.customers /\ o \in DOMAIN r.orders /\ k \in r.tickets
        /\ \A f \in r.forbidden : f = AnyRefund(o) \/ f = [op |-> "cancel_order", order |-> o]
                                 \/ \E d : d # c /\ f = GetCustomer(d)
    BY DEF LookingUp
  <1>2. PICK reads : reads = {GetCustomer(c), GetOrder(o), CheckRefund(o)}
    OBVIOUS
  <1>3. PICK n \in 1..5 : /\ DOMAIN r.expected = 1..n /\ r.expected[n] = Resolve(k)
                          /\ \A i \in 1..(n - 1) : r.expected[i] \in reads
    <2>1. CASE r.expected = <<GetCustomer(c), GetOrder(o), Resolve(k)>>
      <3>1. /\ DOMAIN r.expected = 1..3 /\ r.expected[3] = Resolve(k)
            /\ r.expected[1] \in reads /\ r.expected[2] \in reads
        BY <1>2, <2>1
      <3>2. QED BY <3>1
    <2>2. CASE r.expected = <<GetCustomer(c), GetOrder(o), CheckRefund(o), Resolve(k)>>
      <3>1. /\ DOMAIN r.expected = 1..4 /\ r.expected[4] = Resolve(k)
            /\ r.expected[1] \in reads /\ r.expected[2] \in reads /\ r.expected[3] \in reads
        BY <1>2, <2>2
      <3>2. QED BY <3>1
    <2>3. CASE r.expected = <<GetOrder(o), GetCustomer(c), CheckRefund(o), Resolve(k)>>
      <3>1. /\ DOMAIN r.expected = 1..4 /\ r.expected[4] = Resolve(k)
            /\ r.expected[1] \in reads /\ r.expected[2] \in reads /\ r.expected[3] \in reads
        BY <1>2, <2>3
      <3>2. QED BY <3>1
    <2>4. QED BY <2>1, <2>2, <2>3 DEF LookingUp
  <1>4. \A i \in 1..n : i = n \/ i \in 1..(n - 1)
    OBVIOUS
  <1>5. ASSUME NEW i \in 1..n, NEW a, a = r.expected[i]
        PROVE  /\ "op" \in DOMAIN a
               /\ a.op \in {"get_customer", "get_order", "check_refund_policy", "update_ticket"}
               /\ a.op = "get_customer" => "customer" \in DOMAIN a /\ a.customer = c
    <2>1. a = GetCustomer(c) \/ a = GetOrder(o) \/ a = CheckRefund(o) \/ a = Resolve(k)
      BY <1>2, <1>3, <1>4, <1>5
    <2>2. QED BY <2>1 DEF GetCustomer, GetOrder, CheckRefund, Resolve
  <1>6. Open(r)
    BY <1>3, <1>5 DEF Open, Buying
  <1>7. Apart(r)
    <2>1. ASSUME NEW f \in r.forbidden, NEW i \in 1..n, NEW a, a = r.expected[i], f.op = a.op
          PROVE  \E x \in DOMAIN f : x \in DOMAIN a /\ f[x] # a[x]
      <3>1. f.op # "create_refund" /\ f.op # "cancel_order"
        BY <1>5, <2>1
      <3>2. f # AnyRefund(o) /\ f # [op |-> "cancel_order", order |-> o]
        BY <3>1 DEF AnyRefund
      <3>3. PICK d : d # c /\ f = GetCustomer(d)
        BY <1>1, <3>2
      <3>4. "customer" \in DOMAIN f /\ f["customer"] = d /\ f.op = "get_customer"
        BY <3>3 DEF GetCustomer
      <3>5. "customer" \in DOMAIN a /\ a["customer"] = c
        BY <1>5, <2>1, <3>4
      <3>6. QED BY <3>3, <3>4, <3>5
    <2>2. \A f \in r.forbidden : "op" \in DOMAIN f
      BY <1>1 DEF AnyRefund, GetCustomer
    <2>3. QED BY <1>3, <2>1, <2>2 DEF Apart
  <1>8. \A i \in 1..(n - 1) : IsRead(r, r.expected[i])
    BY <1>1, <1>2, <1>3 DEF IsRead
  <1>9. QED BY <1>1, <1>3, <1>6, <1>7, <1>8 DEF OnlyReads, LookingUp

LEMMA LookUpsOnly ==
  /\ LookingUp(CUSTOMER_REFUND_OUTSIDE_POLICY, "CUST-002", "ORD-2001", "TICK-9002")
  /\ LookingUp(MISSING_CUSTOMER_INFORMATION, "CUST-004", "ORD-4001", "TICK-9004")
  /\ LookingUp(CUSTOMER_ORDER_MISMATCH, "CUST-005", "ORD-5001", "TICK-9005")
  /\ LookingUp(DUPLICATE_REFUND_PREVENTION, "CUST-007", "ORD-7001", "TICK-9007")
  /\ LookingUp(ORDER_CANCELLATION_DENIED_AFTER_DELIVERY, "CUST-009", "ORD-9001", "TICK-9009")
  <1>1. LookingUp(CUSTOMER_REFUND_OUTSIDE_POLICY, "CUST-002", "ORD-2001", "TICK-9002")
    BY DEF CUSTOMER_REFUND_OUTSIDE_POLICY, LookingUp, One
  <1>2. LookingUp(MISSING_CUSTOMER_INFORMATION, "CUST-004", "ORD-4001", "TICK-9004")
    BY DEF MISSING_CUSTOMER_INFORMATION, LookingUp, One
  <1>3. LookingUp(CUSTOMER_ORDER_MISMATCH, "CUST-005", "ORD-5001", "TICK-9005")
    BY DEF CUSTOMER_ORDER_MISMATCH, LookingUp, One
  <1>4. LookingUp(DUPLICATE_REFUND_PREVENTION, "CUST-007", "ORD-7001", "TICK-9007")
    BY DEF DUPLICATE_REFUND_PREVENTION, LookingUp, One
  <1>5. LookingUp(ORDER_CANCELLATION_DENIED_AFTER_DELIVERY, "CUST-009", "ORD-9001", "TICK-9009")
    BY DEF ORDER_CANCELLATION_DENIED_AFTER_DELIVERY, LookingUp, One, Order
  <1>6. QED BY <1>1, <1>2, <1>3, <1>4, <1>5

\* t, with the contract of r, can be played.
LEMMA Plays ==
  ASSUME NEW r, WellFormed(r), Open(r), Apart(r), NEW n \in 1..5, DOMAIN r.expected = 1..n,
         NEW decoys, decoys \cap r.customers = {}, NEW t, HasContract(t, r, decoys)
  PROVE  \E calls, s : Playable(t, r.forbidden, decoys, n, calls, s)
  <1>1. WellFormed(t)
    <2>1. \A a \in LookUps(decoys) : a.op \in VALID_SERVICE_OPERATIONS
      BY DEF LookUps, GetCustomer, VALID_SERVICE_OPERATIONS
    <2>2. QED BY <2>1 DEF WellFormed, HasContract, ReferencedIdsExist
  <1>2. Open(t)
    BY DEF Open, HasContract
  <1>3. Unforbidden(t, r.forbidden, decoys)
    BY DEF Unforbidden, Apart, HasContract
  <1>4. PICK calls, s : Course(t, calls, s, n)
    <2>1. n \in 0..5 /\ DOMAIN t.expected = 1..n
      BY DEF HasContract
    <2>2. QED BY <2>1, Courses
  <1>5. QED BY <1>1, <1>2, <1>3, <1>4 DEF Playable

LEMMA ReadsAndResolve ==
  ASSUME NEW r, WellFormed(r), NEW n, NEW k, OnlyReads(r, n, k),
         NEW decoys, decoys \cap r.customers = {}, NEW t, HasContract(t, r, decoys)
  PROVE  Solved(t)
  <1>1. /\ Open(r) /\ Apart(r) /\ n \in 1..5 /\ DOMAIN r.expected = 1..n /\ n - 1 \in 0..n
        /\ t.expected = r.expected /\ t.tickets = r.tickets /\ t.orders = r.orders /\ t.customers = r.customers
        /\ t.refunds = r.refunds /\ t.final = r.final
    BY DEF OnlyReads, HasContract
  <1>2. PICK calls, s : Playable(t, r.forbidden, decoys, n, calls, s)
    BY <1>1, Plays
  <1>3. \A i \in 1..(n - 1) : IsRead(t, t.expected[i])
    BY <1>1 DEF OnlyReads, IsRead
  <1>4. Accepted(t, calls, s, n - 1) /\ s[n - 1] = Untouched(t)
    BY <1>1, <1>2, <1>3, ReadsFirst DEF Playable
  <1>5. PICK st, rp, tk : /\ st = [o \in DOMAIN t.orders |-> t.orders[o].status]
                          /\ rp = [o \in {} |-> {}]
                          /\ tk = [q \in t.tickets |-> [status |-> "open", escalations |-> 0]]
    OBVIOUS
  <1>6. s[n - 1] = Env(st, t.refunds, rp, tk)
    BY <1>4, <1>5 DEF Untouched
  <1>7. k \in t.tickets /\ t.expected[n] = Resolve(k) /\ k \in DOMAIN tk /\ "status" \in DOMAIN tk[k]
    BY <1>1, <1>5 DEF OnlyReads
  <1>8. \A leaf \in t.final : Known(t, leaf, k, st, t.refunds, rp)
    BY <1>1, <1>5 DEF OnlyReads, Known
  <1>9. QED BY <1>2, <1>4, <1>6, <1>7, <1>8, ResolvedAtLast

Opened(t) == [q \in t.tickets |-> [status |-> "open", escalations |-> 0]]
Seeded(t) == [o \in DOMAIN t.orders |-> t.orders[o].status]

\* The run of a solution of look-ups, one more call and the closing of the ticket.
Rehearsed(t, forbidden, decoys, n, calls, s, k, call) ==
  /\ n \in 2..5 /\ Playable(t, forbidden, decoys, n, calls, s)
  /\ \A i \in 1..(n - 2) : IsRead(t, t.expected[i])
  /\ t.expected[n - 1] = call /\ t.expected[n] = Resolve(k)

\* The one more call, as the agent makes it, is accepted and changes what the final
\* state asks for.
Suffices(t, k, c, st, rf, rp) ==
  LET env == Env(st, rf, rp, Opened(t)) IN
  /\ k \in t.tickets
  /\ Run(t)!Outcome(Untouched(t), c) = "ok" /\ Run(t)!After(Untouched(t), c) = env
  /\ \A leaf \in t.final : Known(t, leaf, k, st, rf, rp)

LEMMA ActsAndResolves ==
  ASSUME NEW t, NEW forbidden, NEW decoys, NEW n, NEW calls, NEW s, NEW k, NEW pattern,
         Rehearsed(t, forbidden, decoys, n, calls, s, k, pattern),
         NEW c, c = Complete(t, pattern), NEW st, NEW rf, NEW rp, Suffices(t, k, c, st, rf, rp)
  PROVE  Solved(t)
  <1> PICK first, tk : first = Untouched(t) /\ tk = Opened(t)
    OBVIOUS
  <1> PICK env : env = Env(st, rf, rp, tk)
    OBVIOUS
  <1>1. /\ n \in 2..5 /\ Playable(t, forbidden, decoys, n, calls, s)
        /\ \A i \in 1..(n - 2) : IsRead(t, t.expected[i])
        /\ t.expected[n - 1] = pattern /\ t.expected[n] = Resolve(k)
    BY DEF Rehearsed
  <1>2. /\ k \in t.tickets /\ Run(t)!Outcome(first, c) = "ok" /\ Run(t)!After(first, c) = env
        /\ \A leaf \in t.final : Known(t, leaf, k, st, rf, rp)
    BY DEF Suffices
  <1>3. PICK m : m = n - 1
    OBVIOUS
  <1>4. /\ n \in 1..5 /\ m \in 1..n /\ m - 1 \in 0..n /\ m - 1 = n - 2 /\ Course(t, calls, s, n)
        /\ \A i \in 1..(m - 1) : IsRead(t, t.expected[i])
    BY <1>1, <1>3 DEF Playable
  <1>5. Accepted(t, calls, s, m - 1) /\ s[m - 1] = first
    BY <1>4, ReadsFirst
  <1>6. calls[m] = c
    BY <1>1, <1>3, <1>4 DEF Course
  <1>7. Accepted(t, calls, s, m) /\ s[m] = env
    BY <1>2, <1>4, <1>5, <1>6, OneMore
  <1>8. k \in DOMAIN tk /\ "status" \in DOMAIN tk[k]
    BY <1>2 DEF Opened
  <1>9. Accepted(t, calls, s, n - 1) /\ s[n - 1] = Env(st, rf, rp, tk)
    BY <1>3, <1>7
  <1>10. QED BY <1>1, <1>2, <1>8, <1>9, ResolvedAtLast

LEMMA RefundSolved ==
  ASSUME NEW c, NEW o, NEW days \in 0..30, NEW sku, NEW k, NEW total \in Nat,
         NEW r, r = Priced(c, o, days, sku, k, total),
         NEW decoys, decoys \cap r.customers = {}, NEW t, HasContract(t, r, decoys)
  PROVE  Solved(t)
  <1>1. /\ r.customers = {c} /\ r.orders = One(o, Order(c, "delivered", total, days, sku)) /\ r.refunds = Empty
        /\ r.tickets = {k}
        /\ r.expected = <<GetCustomer(c), GetOrder(o), CheckRefund(o), Refund(o, total), Resolve(k)>>
        /\ r.forbidden = {Refund(o, total + 1)} /\ r.final = {Refunded(o, total), TicketIs(k, "resolved")}
    BY DEF Priced
  <1>2. /\ t.customers = {c} /\ t.orders = r.orders /\ t.refunds = Empty /\ t.tickets = {k}
        /\ t.expected = r.expected /\ t.final = r.final
    BY <1>1 DEF HasContract
  <1>3. /\ DOMAIN r.expected = 1..5
        /\ r.expected[1] = GetCustomer(c) /\ r.expected[2] = GetOrder(o) /\ r.expected[3] = CheckRefund(o)
        /\ r.expected[4] = Refund(o, total) /\ r.expected[5] = Resolve(k)
    BY <1>1
  <1>4. ASSUME NEW i \in 1..5, NEW a, a = r.expected[i]
        PROVE  /\ "op" \in DOMAIN a
               /\ "customer" \in DOMAIN a => a.op = "get_customer"
               /\ a.op = "create_refund" => "amount" \in DOMAIN a /\ a.amount = total
    <2>1. a = GetCustomer(c) \/ a = GetOrder(o) \/ a = CheckRefund(o) \/ a = Refund(o, total) \/ a = Resolve(k)
      BY <1>3, <1>4
    <2>2. QED BY <2>1 DEF GetCustomer, GetOrder, CheckRefund, Refund, Resolve
  <1>5. Open(r)
    BY <1>3, <1>4 DEF Open, Buying
  <1>6. Apart(r)
    <2>1. PICK f : f = Refund(o, total + 1)
      OBVIOUS
    <2>2. "amount" \in DOMAIN f /\ f["amount"] # total /\ "op" \in DOMAIN f /\ f.op = "create_refund"
      BY <2>1 DEF Refund
    <2>3. ASSUME NEW i \in 1..5, NEW a, a = r.expected[i], f.op = a.op
          PROVE  \E x \in DOMAIN f : x \in DOMAIN a /\ f[x] # a[x]
      <3>1. "amount" \in DOMAIN a /\ a["amount"] = total
        BY <1>4, <2>2, <2>3
      <3>2. QED BY <2>2, <3>1
    <2>4. QED BY <1>1, <1>3, <2>1, <2>2, <2>3 DEF Apart
  <1>7. PICK calls, s : Playable(t, r.forbidden, decoys, 5, calls, s)
    <2>1. WellFormed(r)
      BY PricedIsWellFormed
    <2>2. 5 \in 1..5
      OBVIOUS
    <2>3. QED BY <1>3, <1>5, <1>6, <2>1, <2>2, Plays
  <1>8. o \in DOMAIN t.orders /\ t.orders[o].total = total /\ t.orders[o].days \in 0..30
        /\ t.orders[o].status = "delivered"
    BY <1>1, <1>2 DEF One, Order
  <1>9. \A i \in 1..(5 - 2) : IsRead(t, t.expected[i])
    <2>1. \A i \in 1..(5 - 2) : i \in {1, 2, 3}
      OBVIOUS
    <2>2. QED BY <1>2, <1>3, <1>8, <2>1 DEF IsRead
  <1>10. Rehearsed(t, r.forbidden, decoys, 5, calls, s, k, Refund(o, total))
    BY <1>2, <1>3, <1>7, <1>9 DEF Rehearsed
  <1>11. PICK st, rf, rp, tk : st = Seeded(t) /\ rf = Empty /\ rp = [x \in {} |-> {}] /\ tk = Opened(t)
    OBVIOUS
  <1>12. PICK first, paid, call : /\ first = Untouched(t) /\ first = Env(st, rf, rp, tk)
                                  /\ paid = Run(t)!With(rf, o, total) /\ call = Complete(t, Refund(o, total))
    BY <1>2, <1>11 DEF Untouched, Seeded, Opened
  <1>13. st[o] = "delivered" /\ o \notin DOMAIN rf
    BY <1>8, <1>11 DEF Seeded, Empty
  <1>14. PICK env : env = Env(st, paid, rp, tk)
    OBVIOUS
  <1>15. Run(t)!Outcome(first, call) = "ok" /\ Run(t)!After(first, call) = env
    <2>1. /\ Run(t)!Outcome(Env(st, rf, rp, tk), call) = "ok"
          /\ Run(t)!After(Env(st, rf, rp, tk), call) = Env(st, Run(t)!With(rf, o, total), rp, tk)
      BY <1>8, <1>12, <1>13, RefundCall
    <2>2. QED BY <1>12, <1>14, <2>1
  <1>16. o \in DOMAIN paid /\ paid[o] = total
    BY <1>12 DEF Run!With
  <1>17. \A leaf \in t.final : Known(t, leaf, k, st, paid, rp)
    BY <1>1, <1>2, <1>16 DEF Known
  <1>18. Suffices(t, k, call, st, paid, rp)
    BY <1>2, <1>11, <1>12, <1>14, <1>15, <1>17 DEF Suffices
  <1>19. PICK pattern : pattern = Refund(o, total)
    OBVIOUS
  <1>20. Rehearsed(t, r.forbidden, decoys, 5, calls, s, k, pattern) /\ call = Complete(t, pattern)
    BY <1>10, <1>12, <1>19
  <1>21. QED BY <1>18, <1>20, ActsAndResolves

\* A contract of look-ups and one more call, which is accepted.
Asking(r, c, o, k, check, call) ==
  /\ r.customers = {c} /\ DOMAIN r.orders = {o} /\ r.refunds = Empty /\ r.tickets = {k}
  /\ r.forbidden = {}
  /\ r.expected = IF check THEN <<GetCustomer(c), GetOrder(o), CheckReplacement(o), call, Resolve(k)>>
                           ELSE <<GetCustomer(c), GetOrder(o), call, Resolve(k)>>

LEMMA Asks ==
  ASSUME NEW r, WellFormed(r), NEW c, NEW o, NEW k, NEW check \in BOOLEAN, NEW call, Asking(r, c, o, k, check, call),
         "op" \in DOMAIN call, "customer" \notin DOMAIN call,
         NEW decoys, decoys \cap r.customers = {}, NEW t, HasContract(t, r, decoys)
  PROVE  \E n, calls, s : Rehearsed(t, r.forbidden, decoys, n, calls, s, k, call)
  <1>1. /\ t.customers = r.customers /\ t.orders = r.orders /\ t.expected = r.expected
        /\ r.customers = {c} /\ DOMAIN r.orders = {o} /\ r.forbidden = {}
    BY DEF HasContract, Asking
  <1>2. PICK reads : reads = {GetCustomer(c), GetOrder(o), CheckReplacement(o)}
    OBVIOUS
  <1>3. PICK n \in {4, 5} : /\ DOMAIN r.expected = 1..n /\ r.expected[n] = Resolve(k) /\ r.expected[n - 1] = call
                            /\ \A i \in 1..(n - 2) : r.expected[i] \in reads
    <2>1. CASE check
      <3>1. r.expected = <<GetCustomer(c), GetOrder(o), CheckReplacement(o), call, Resolve(k)>>
        BY <2>1 DEF Asking
      <3>2. /\ DOMAIN r.expected = 1..5 /\ r.expected[5] = Resolve(k) /\ r.expected[4] = call
            /\ r.expected[1] \in reads /\ r.expected[2] \in reads /\ r.expected[3] \in reads
        BY <1>2, <3>1
      <3>3. \A i \in 1..(5 - 2) : i \in {1, 2, 3}
        OBVIOUS
      <3>4. QED BY <3>2, <3>3
    <2>2. CASE ~check
      <3>1. r.expected = <<GetCustomer(c), GetOrder(o), call, Resolve(k)>>
        BY <2>2 DEF Asking
      <3>2. /\ DOMAIN r.expected = 1..4 /\ r.expected[4] = Resolve(k) /\ r.expected[3] = call
            /\ r.expected[1] \in reads /\ r.expected[2] \in reads
        BY <1>2, <3>1
      <3>3. \A i \in 1..(4 - 2) : i \in {1, 2}
        OBVIOUS
      <3>4. QED BY <3>2, <3>3
    <2>3. QED BY <2>1, <2>2
  <1>4. n \in 2..5 /\ n \in 1..5 /\ \A i \in 1..n : i = n \/ i = n - 1 \/ i \in 1..(n - 2)
    OBVIOUS
  <1>5. Open(r)
    <2>1. ASSUME NEW i \in 1..n, NEW a, a = r.expected[i]
          PROVE  "op" \in DOMAIN a /\ (a.op \in Buying => "customer" \notin DOMAIN a)
      <3>1. a = GetCustomer(c) \/ a = GetOrder(o) \/ a = CheckReplacement(o) \/ a = call \/ a = Resolve(k)
        BY <1>2, <1>3, <1>4, <2>1
      <3>2. QED BY <3>1 DEF GetCustomer, GetOrder, CheckReplacement, Resolve, Buying
    <2>2. QED BY <1>3, <2>1 DEF Open
  <1>6. Apart(r)
    BY <1>1 DEF Apart
  <1>7. PICK calls, s : Playable(t, r.forbidden, decoys, n, calls, s)
    BY <1>3, <1>4, <1>5, <1>6, Plays
  <1>8. \A i \in 1..(n - 2) : IsRead(t, t.expected[i])
    BY <1>1, <1>2, <1>3 DEF IsRead
  <1>9. QED BY <1>1, <1>3, <1>4, <1>7, <1>8 DEF Rehearsed

Cancelling(r, c, o, k, pattern) ==
  /\ pattern = [op |-> "cancel_order", order |-> o]
  /\ Asking(r, c, o, k, FALSE, pattern) /\ r.orders[o].status = "processing"
  /\ r.final = {OrderIs(o, "cancelled"), TicketIs(k, "resolved")}

LEMMA CancellationSolved ==
  ASSUME NEW decoys, NEW r, r = ORDER_CANCELLATION_BEFORE_SHIPPING, WellFormed(r), decoys \cap r.customers = {},
         NEW t, HasContract(t, r, decoys)
  PROVE  Solved(t)
  <1> PICK c, o, k, pattern : Cancelling(r, c, o, k, pattern)
    <2>1. Cancelling(r, "CUST-008", "ORD-8001", "TICK-9008", [op |-> "cancel_order", order |-> "ORD-8001"])
      BY DEF Cancelling, ORDER_CANCELLATION_BEFORE_SHIPPING, Asking, One, Order
    <2>2. QED BY <2>1
  <1>1. /\ pattern = [op |-> "cancel_order", order |-> o]
        /\ Asking(r, c, o, k, FALSE, pattern) /\ r.orders[o].status = "processing"
        /\ r.final = {OrderIs(o, "cancelled"), TicketIs(k, "resolved")}
    BY DEF Cancelling
  <1>2. "op" \in DOMAIN pattern /\ "customer" \notin DOMAIN pattern
    BY <1>1
  <1>4. PICK forbidden, n, calls, s : Rehearsed(t, forbidden, decoys, n, calls, s, k, pattern)
    <2>1. FALSE \in BOOLEAN /\ TRUE \in BOOLEAN
      OBVIOUS
    <2>2. QED BY <1>1, <1>2, <2>1, Asks
  <1>5. /\ o \in DOMAIN t.orders /\ t.orders[o].status = "processing" /\ t.refunds = Empty /\ k \in t.tickets
        /\ t.final = {OrderIs(o, "cancelled"), TicketIs(k, "resolved")}
    BY <1>1 DEF HasContract, Asking
  <1>6. PICK st, rf, rp, tk : st = Seeded(t) /\ rf = Empty /\ rp = [x \in {} |-> {}] /\ tk = Opened(t)
    OBVIOUS
  <1>7. PICK first, after, call : /\ first = Untouched(t) /\ first = Env(st, rf, rp, tk)
                                  /\ after = [st EXCEPT ![o] = "cancelled"] /\ call = Complete(t, pattern)
    BY <1>5, <1>6 DEF Untouched, Seeded, Opened
  <1>8. PICK env : env = Env(after, rf, rp, tk)
    OBVIOUS
  <1>9. Run(t)!Outcome(first, call) = "ok" /\ Run(t)!After(first, call) = env
    <2>1. st[o] = "processing"
      BY <1>5, <1>6 DEF Seeded
    <2>2. /\ Run(t)!Outcome(Env(st, rf, rp, tk), call) = "ok"
          /\ Run(t)!After(Env(st, rf, rp, tk), call) = Env([st EXCEPT ![o] = "cancelled"], rf, rp, tk)
      <3>1. call = Complete(t, [op |-> "cancel_order", order |-> o])
        BY <1>1, <1>7
      <3>2. QED BY <1>5, <2>1, <3>1, CancelCall
    <2>3. QED BY <1>7, <1>8, <2>2
  <1>10. after[o] = "cancelled"
    BY <1>5, <1>6, <1>7 DEF Seeded
  <1>11. \A leaf \in t.final : Known(t, leaf, k, after, rf, rp)
    BY <1>5, <1>10 DEF Known
  <1>12. Suffices(t, k, call, after, rf, rp)
    BY <1>5, <1>6, <1>7, <1>8, <1>9, <1>11 DEF Suffices
  <1>13. call = Complete(t, pattern)
    BY <1>7
  <1>14. QED BY <1>4, <1>12, <1>13, ActsAndResolves

Replacing(r, c, o, k, item, pattern) ==
  /\ pattern = [op |-> "replace_item", order |-> o, sku |-> item]
  /\ r.customers = {c} /\ r.orders = One(o, Order(c, "delivered", 3900, 10, item)) /\ r.refunds = Empty
  /\ r.tickets = {k} /\ r.forbidden = {}
  /\ r.expected = <<GetCustomer(c), GetOrder(o), CheckReplacement(o), pattern, Resolve(k)>>
  /\ r.final = {Replaced(o, item), TicketIs(k, "resolved")}

LEMMA ReplacementRow ==
  Replacing(ITEM_REPLACEMENT_WITHIN_POLICY, "CUST-010", "ORD-10001", "TICK-9010", "SHIRT-BLU-L",
            [op |-> "replace_item", order |-> "ORD-10001", sku |-> "SHIRT-BLU-L"])
  <1>1. /\ ITEM_REPLACEMENT_WITHIN_POLICY.customers = {"CUST-010"}
        /\ ITEM_REPLACEMENT_WITHIN_POLICY.refunds = Empty
        /\ ITEM_REPLACEMENT_WITHIN_POLICY.tickets = {"TICK-9010"}
        /\ ITEM_REPLACEMENT_WITHIN_POLICY.forbidden = {}
    <2>1. ITEM_REPLACEMENT_WITHIN_POLICY.customers = {"CUST-010"}
      BY Zenon DEF ITEM_REPLACEMENT_WITHIN_POLICY
    <2>2. ITEM_REPLACEMENT_WITHIN_POLICY.refunds = Empty
      BY Zenon DEF ITEM_REPLACEMENT_WITHIN_POLICY
    <2>3. ITEM_REPLACEMENT_WITHIN_POLICY.tickets = {"TICK-9010"}
      BY Zenon DEF ITEM_REPLACEMENT_WITHIN_POLICY
    <2>4. ITEM_REPLACEMENT_WITHIN_POLICY.forbidden = {}
      BY Zenon DEF ITEM_REPLACEMENT_WITHIN_POLICY
    <2>5. QED BY <2>1, <2>2, <2>3, <2>4
  <1>2. ITEM_REPLACEMENT_WITHIN_POLICY.orders
          = One("ORD-10001", Order("CUST-010", "delivered", 3900, 10, "SHIRT-BLU-L"))
    BY Zenon DEF ITEM_REPLACEMENT_WITHIN_POLICY
  <1>3. ITEM_REPLACEMENT_WITHIN_POLICY.expected
          = <<GetCustomer("CUST-010"), GetOrder("ORD-10001"), CheckReplacement("ORD-10001"),
              [op |-> "replace_item", order |-> "ORD-10001", sku |-> "SHIRT-BLU-L"], Resolve("TICK-9010")>>
    BY Zenon DEF ITEM_REPLACEMENT_WITHIN_POLICY
  <1>4. ITEM_REPLACEMENT_WITHIN_POLICY.final
          = {Replaced("ORD-10001", "SHIRT-BLU-L"), TicketIs("TICK-9010", "resolved")}
    BY Zenon DEF ITEM_REPLACEMENT_WITHIN_POLICY, Replaced
  <1>5. QED BY <1>1, <1>2, <1>3, <1>4 DEF Replacing

LEMMA ReplacementSolved ==
  ASSUME NEW decoys, NEW r, r = ITEM_REPLACEMENT_WITHIN_POLICY, WellFormed(r), decoys \cap r.customers = {},
         NEW t, HasContract(t, r, decoys)
  PROVE  Solved(t)
  <1> PICK c, o, k, item, pattern : Replacing(r, c, o, k, item, pattern)
    <2>1. Replacing(r, "CUST-010", "ORD-10001", "TICK-9010", "SHIRT-BLU-L",
                    [op |-> "replace_item", order |-> "ORD-10001", sku |-> "SHIRT-BLU-L"])
      BY ReplacementRow
    <2>2. QED BY <2>1
  <1>1. /\ pattern = [op |-> "replace_item", order |-> o, sku |-> item]
        /\ Asking(r, c, o, k, TRUE, pattern) /\ r.orders[o].status = "delivered"
        /\ r.orders[o].sku = item /\ r.orders[o].days = 10
        /\ r.final = {Replaced(o, item), TicketIs(k, "resolved")}
    BY DEF Replacing, Asking, One, Order
  <1>2. "op" \in DOMAIN pattern /\ "customer" \notin DOMAIN pattern
    BY <1>1
  <1>4. PICK forbidden, n, calls, s : Rehearsed(t, forbidden, decoys, n, calls, s, k, pattern)
    <2>1. FALSE \in BOOLEAN /\ TRUE \in BOOLEAN
      OBVIOUS
    <2>2. QED BY <1>1, <1>2, <2>1, Asks
  <1>5. /\ o \in DOMAIN t.orders /\ t.orders[o].status = "delivered" /\ t.orders[o].sku = item
        /\ t.orders[o].days \in 0..30 /\ t.refunds = Empty /\ k \in t.tickets
        /\ t.final = {Replaced(o, item), TicketIs(k, "resolved")}
    BY <1>1 DEF HasContract, Asking
  <1>6. PICK st, rf, rp, tk : st = Seeded(t) /\ rf = Empty /\ rp = [x \in {} |-> {}] /\ tk = Opened(t)
    OBVIOUS
  <1>7. PICK first, sent, call : /\ first = Untouched(t) /\ first = Env(st, rf, rp, tk)
                                 /\ sent = Run(t)!With(rp, o, item) /\ call = Complete(t, pattern)
    BY <1>5, <1>6 DEF Untouched, Seeded, Opened
  <1>8. PICK env : env = Env(st, rf, sent, tk)
    OBVIOUS
  <1>9. Run(t)!Outcome(first, call) = "ok" /\ Run(t)!After(first, call) = env
    <2>1. st[o] = "delivered" /\ o \notin DOMAIN rp
      BY <1>5, <1>6 DEF Seeded
    <2>2. /\ Run(t)!Outcome(Env(st, rf, rp, tk), call) = "ok"
          /\ Run(t)!After(Env(st, rf, rp, tk), call) = Env(st, rf, Run(t)!With(rp, o, item), tk)
      <3>1. call = Complete(t, [op |-> "replace_item", order |-> o, sku |-> item])
        BY <1>1, <1>7
      <3>2. QED BY <1>5, <2>1, <3>1, ReplaceCall
    <2>3. QED BY <1>7, <1>8, <2>2
  <1>10. o \in DOMAIN sent /\ sent[o] = item
    BY <1>7 DEF Run!With
  <1>11. \A leaf \in t.final : Known(t, leaf, k, st, rf, sent)
    BY <1>5, <1>10 DEF Known
  <1>12. Suffices(t, k, call, st, rf, sent)
    BY <1>5, <1>6, <1>7, <1>8, <1>9, <1>11 DEF Suffices
  <1>13. call = Complete(t, pattern)
    BY <1>7
  <1>14. QED BY <1>4, <1>12, <1>13, ActsAndResolves

Escalating(r, c, k, call) ==
  /\ call = [op |-> "escalate_ticket", ticket |-> k]
  /\ r.customers = {c} /\ r.tickets = {k} /\ r.forbidden = {}
  /\ r.expected = <<GetCustomer(c), call>> /\ r.final = {TicketIs(k, "escalated")}

LEMMA EscalationSolved ==
  ASSUME NEW decoys, NEW r, r = TICKET_ESCALATION_FOR_UNRESOLVED_ISSUE, WellFormed(r), decoys \cap r.customers = {},
         NEW t, HasContract(t, r, decoys)
  PROVE  Solved(t)
  <1> PICK c, k, call : Escalating(r, c, k, call)
    <2>1. Escalating(r, "CUST-011", "TICK-9011", [op |-> "escalate_ticket", ticket |-> "TICK-9011"])
      BY DEF Escalating, TICKET_ESCALATION_FOR_UNRESOLVED_ISSUE
    <2>2. QED BY <2>1
  <1>1. /\ call = [op |-> "escalate_ticket", ticket |-> k]
        /\ r.customers = {c} /\ r.tickets = {k} /\ r.forbidden = {} /\ r.final = {TicketIs(k, "escalated")}
        /\ DOMAIN r.expected = 1..2 /\ r.expected[1] = GetCustomer(c) /\ r.expected[2] = call
    BY DEF Escalating
  <1>2. t.customers = {c} /\ t.tickets = {k} /\ t.expected = r.expected /\ t.final = r.final
    BY <1>1 DEF HasContract
  <1>3. Open(r)
    <2>1. \A i \in 1..2 : r.expected[i] = GetCustomer(c) \/ r.expected[i] = call
      BY <1>1
    <2>2. QED BY <1>1, <2>1 DEF Open, GetCustomer, Buying
  <1>4. Apart(r)
    BY <1>1 DEF Apart
  <1>5. 2 \in 1..5 /\ 2 \in 1..2 /\ 1 \in 0..2 /\ 2 - 1 = 1
    OBVIOUS
  <1>6. PICK calls, s : Playable(t, r.forbidden, decoys, 2, calls, s)
    BY <1>1, <1>3, <1>4, <1>5, Plays
  <1>7. Course(t, calls, s, 2)
    BY <1>6 DEF Playable
  <1>8. PICK first, st, rf, rp, tk : /\ first = Untouched(t) /\ first = Env(st, rf, rp, tk)
                                    /\ tk = [q \in t.tickets |-> [status |-> "open", escalations |-> 0]]
    BY DEF Untouched
  <1>9. Accepted(t, calls, s, 1) /\ s[1] = first
    <2>1. IsRead(t, t.expected[1])
      BY <1>1, <1>2 DEF IsRead
    <2>2. PICK n, m : n = 2 /\ m = 1
      OBVIOUS
    <2>3. n \in 1..5 /\ m \in 0..n /\ Course(t, calls, s, n) /\ \A i \in 1..m : IsRead(t, t.expected[i])
      BY <1>7, <2>1, <2>2
    <2>4. Accepted(t, calls, s, m) /\ s[m] = Untouched(t)
      BY <2>3, ReadsFirst
    <2>5. QED BY <1>8, <2>2, <2>4
  <1>10. calls[2] = call
    <2>1. call.op \notin Buying
      BY <1>1 DEF Buying
    <2>2. calls[2] = Complete(t, call)
      BY <1>1, <1>2, <1>5, <1>7 DEF Course
    <2>3. QED BY <2>1, <2>2, Completed
  <1>11. PICK tr : tr = Escalated(tk, k)
    OBVIOUS
  <1>12. PICK env : env = Env(st, rf, rp, tr)
    OBVIOUS
  <1>13. Run(t)!Outcome(first, call) = "ok" /\ Run(t)!After(first, call) = env
    <2>1. k \in t.tickets /\ tk[k].status = "open"
      BY <1>2, <1>8
    <2>2. /\ Run(t)!Outcome(Env(st, rf, rp, tk), call) = "ok"
          /\ Run(t)!After(Env(st, rf, rp, tk), call) = Env(st, rf, rp, Escalated(tk, k))
      <3>1. call = Escalate(k)
        BY <1>1 DEF Escalate
      <3>2. QED BY <2>1, <3>1, EscalateCall
    <2>3. QED BY <1>8, <1>11, <1>12, <2>2
  <1>14. Accepted(t, calls, s, 2) /\ s[2] = env
    BY <1>5, <1>7, <1>9, <1>10, <1>13, OneMore
  <1>15. t.final \subseteq Run(t)!Facts(env)
    <2>1. PICK facts : facts = Run(t)!Facts(Env(st, rf, rp, tr))
      OBVIOUS
    <2>2. \A q \in t.tickets : TicketIs(q, tr[q].status) \in facts
      BY <2>1, TrueOfTheState
    <2>3. k \in t.tickets /\ tr[k].status = "escalated"
      BY <1>2, <1>8, <1>11 DEF Escalated
    <2>4. QED BY <1>1, <1>2, <1>12, <2>1, <2>2, <2>3
  <1>16. QED BY <1>6, <1>14, <1>15, Solves

LEMMA FormIsSolved ==
  ASSUME NEW p \in SEED_TASKS, NEW total \in Nat, NEW decoys \in SUBSET Decoys,
         NEW t, HasContract(t, Moved(p, total), decoys)
  PROVE  Solved(t)
  <1>1. CASE p \in Priceds
    <2>1. PICK c, o, days, sku, k, first :
            /\ days \in 0..30 /\ HasContract(p, Priced(c, o, days, sku, k, first), {})
            /\ \A new : Moved(p, new) = Priced(c, o, days, sku, k, new)
      BY <1>1, PricedForm
    <2>2. PICK r : r = Priced(c, o, days, sku, k, total)
      OBVIOUS
    <2>3. decoys \cap r.customers = {}
      <3>1. p.customers = r.customers
        BY <2>1, <2>2 DEF HasContract, Priced
      <3>2. QED BY <3>1
    <2>4. HasContract(t, r, decoys)
      BY <2>1, <2>2
    <2>5. QED BY <2>1, <2>2, <2>3, <2>4, RefundSolved
  <1>2. CASE p \notin Priceds
    <2>1. WellFormed(p) /\ HasContract(t, p, decoys)
      BY <1>2, UnpricedForm
    <2>2. decoys \cap p.customers = {}
      OBVIOUS
    <2>3. ASSUME NEW c, NEW o, NEW k, LookingUp(p, c, o, k) PROVE Solved(t)
      <3>1. PICK n : OnlyReads(p, n, k)
        BY <2>3, LookUpsForm
      <3>2. QED BY <2>1, <2>2, <3>1, ReadsAndResolve
    <2>4. CASE p \in {CUSTOMER_REFUND_OUTSIDE_POLICY, MISSING_CUSTOMER_INFORMATION, CUSTOMER_ORDER_MISMATCH,
                      DUPLICATE_REFUND_PREVENTION, ORDER_CANCELLATION_DENIED_AFTER_DELIVERY}
      BY <2>3, <2>4, LookUpsOnly
    <2>5. CASE p = ORDER_CANCELLATION_BEFORE_SHIPPING
      BY <2>1, <2>2, <2>5, CancellationSolved
    <2>6. CASE p = ITEM_REPLACEMENT_WITHIN_POLICY
      BY <2>1, <2>2, <2>6, ReplacementSolved
    <2>7. CASE p = TICKET_ESCALATION_FOR_UNRESOLVED_ISSUE
      BY <2>1, <2>2, <2>7, EscalationSolved
    <2>8. QED BY <1>2, <2>4, <2>5, <2>6, <2>7 DEF SEED_TASKS, Priceds
  <1>3. QED BY <1>1, <1>2

\* Whatever was composed, the agent that makes the expected calls in their order still
\* passes: every call is accepted, none is forbidden, and the final state is the expected one.
THEOREM VariantsAreSolvable == Spec => []StillSolvable
  <1>1. ASSUME ComposedInv PROVE StillSolvable
    <2>1. PICK total \in Nat, decoys \in SUBSET Decoys : HasContract(task, Moved(parent, total), decoys)
      BY <1>1 DEF ComposedInv, FormInv
    <2>2. Solved(task)
      BY <1>1, <2>1, FormIsSolved DEF ComposedInv, FormInv
    <2>3. QED BY <2>2 DEF Solved, StillSolvable
  <1>2. QED BY <1>1, ComposedInductive, PTL

-----------------------------------------------------------------------------
\* The reference agent

\* The run of the reference agent on a task of n expected actions.
Referred(t, calls, s, n) ==
  /\ calls = ReferenceCalls(t) /\ s[n] = StateAfter(t, calls)
  /\ DOMAIN calls = 1..n /\ \A i \in 1..n : calls[i] = Given(t.expected[i])
  /\ Follow(t, s, calls, n)

LEMMA ReferenceRun ==
  ASSUME NEW t, NEW n \in 0..5, DOMAIN t.expected = 1..n
  PROVE  \E calls, s : Referred(t, calls, s, n)
  <1>1. PICK calls : calls = ReferenceCalls(t)
    OBVIOUS
  <1>2. PICK s : s = States(t, calls)
    OBVIOUS
  <1>3. calls = [i \in 1..n |-> Given(t.expected[i])]
    BY <1>1 DEF ReferenceCalls
  <1>4. PICK R : R = {Given(t.expected[i]) : i \in 1..n}
    OBVIOUS
  <1>5. calls \in [1..n -> R]
    BY <1>3, <1>4
  <1>6. Len(calls) = n
    BY <1>5
  <1>7. Follow(t, s, calls, n) /\ s[n] = StateAfter(t, calls)
    BY <1>2, <1>6, Walk DEF StateAfter
  <1>8. QED BY <1>1, <1>3, <1>7 DEF Referred

\* A fact that no run of idle calls and the closing of a ticket makes true.
Undone(t, leaf) ==
  \/ \E o, amount : leaf = Refunded(o, amount) /\ t.refunds = Empty
  \/ \E o \in DOMAIN t.orders : leaf = OrderIs(o, "cancelled") /\ t.orders[o].status # "cancelled"
  \/ \E o, sku : leaf = Replaced(o, sku)
  \/ \E k : leaf = TicketIs(k, "escalated")

LEMMA StaysUndone ==
  ASSUME NEW t, NEW tk, \A k \in t.tickets : tk[k].status \in {"open", "resolved"},
         NEW leaf, Undone(t, leaf)
  PROVE  leaf \notin Run(t)!Facts(Env(Seeded(t), t.refunds, [x \in {} |-> {}], tk))
  <1>1. PICK facts : facts = Run(t)!Facts(Env(Seeded(t), t.refunds, [x \in {} |-> {}], tk))
    OBVIOUS
  <1>2. ASSUME NEW f \in facts
        PROVE  \/ \E o \in DOMAIN t.orders : f = <<"orders", o, "status", t.orders[o].status>>
               \/ \E o \in DOMAIN t.refunds : f = <<"refunds", o, "amount_cents", t.refunds[o]>>
               \/ \E k \in t.tickets : f = <<"tickets", k, "status", tk[k].status>>
               \/ \E k \in t.tickets : f = <<"tickets", k, "escalation_count", tk[k].escalations>>
    <2>1. PICK st, rp : st = Seeded(t) /\ rp = [x \in {} |-> {}]
      OBVIOUS
    <2>2. PICK env : env = Env(st, t.refunds, rp, tk) /\ facts = Run(t)!Facts(env)
      BY <1>1, <2>1
    <2>3. env.status = st /\ env.refunds = t.refunds /\ env.replacements = rp /\ env.ticket = tk /\ DOMAIN rp = {}
      BY <2>1, <2>2 DEF Env
    <2>4. \/ f \in {<<"orders", o, "status", env.status[o]>> : o \in DOMAIN t.orders}
          \/ f \in {<<"refunds", o, "amount_cents", env.refunds[o]>> : o \in DOMAIN env.refunds}
          \/ f \in {<<"replacements", o, "sku", env.replacements[o]>> : o \in DOMAIN env.replacements}
          \/ f \in {<<"tickets", k, "status", env.ticket[k].status>> : k \in t.tickets}
          \/ f \in {<<"tickets", k, "escalation_count", env.ticket[k].escalations>> :
                      k \in {u \in t.tickets : env.ticket[u].escalations > 0}}
      BY <1>2, <2>2, Zenon DEF Run!Facts
    <2>5. \A o \in DOMAIN t.orders : st[o] = t.orders[o].status
      BY <2>1 DEF Seeded
    <2>6. QED BY <2>3, <2>4, <2>5
  <1>3. ASSUME leaf \in facts PROVE FALSE
    <2>1. CASE \E o, amount : leaf = Refunded(o, amount) /\ t.refunds = Empty
      BY <1>2, <1>3, <2>1 DEF Refunded, Empty
    <2>2. CASE \E o \in DOMAIN t.orders : leaf = OrderIs(o, "cancelled") /\ t.orders[o].status # "cancelled"
      BY <1>2, <1>3, <2>2 DEF OrderIs
    <2>3. CASE \E o, sku : leaf = Replaced(o, sku)
      BY <1>2, <1>3, <2>3 DEF Replaced
    <2>4. CASE \E k : leaf = TicketIs(k, "escalated")
      BY <1>2, <1>3, <2>4 DEF TicketIs
    <2>5. QED BY <2>1, <2>2, <2>3, <2>4 DEF Undone
  <1>4. QED BY <1>1, <1>3

\* The agent is refused what the final state of the task asks for.
Stranded(t, n) ==
  /\ n \in 1..5 /\ DOMAIN t.expected = 1..n
  /\ \E leaf \in t.final : Undone(t, leaf)
  /\ \E i \in 1..n : ~Callable(t, t.expected[i])
  /\ \A i \in 1..(n - 1) : Idle(t, Given(t.expected[i]))
  /\ Idle(t, Given(t.expected[n])) \/ \E k \in t.tickets : t.expected[n] = Resolve(k)

LEMMA StrandedFails ==
  ASSUME NEW t, NEW n, Stranded(t, n)
  PROVE  /\ ReferenceScore(t).mismatches # {}
         /\ ~\A a \in ToSet(t.expected) : Callable(t, a)
  <1>1. /\ n \in 0..5 /\ n \in 1..5 /\ n \in 0..n /\ n - 1 \in 0..n /\ DOMAIN t.expected = 1..n
        /\ \A i \in 1..(n - 1) : i \in 1..n
    BY DEF Stranded
  <1>2. PICK calls, s : Referred(t, calls, s, n)
    BY <1>1, ReferenceRun
  <1>3. /\ calls = ReferenceCalls(t) /\ s[n] = StateAfter(t, calls) /\ Follow(t, s, calls, n)
        /\ \A i \in 1..n : calls[i] = Given(t.expected[i])
    BY <1>2 DEF Referred
  <1>4. PICK leaf \in t.final : Undone(t, leaf)
    BY DEF Stranded
  <1>5. PICK st, rp, open : st = Seeded(t) /\ rp = [x \in {} |-> {}] /\ open = Opened(t)
    OBVIOUS
  <1>6. \A k \in t.tickets : open[k].status = "open" /\ k \in DOMAIN open /\ "status" \in DOMAIN open[k]
    BY <1>5 DEF Opened
  <1>7. \A m \in 0..n : (\A i \in 1..m : Idle(t, calls[i])) => s[m] = Env(st, t.refunds, rp, open)
    <2>1. Untouched(t) = Env(st, t.refunds, rp, open)
      BY <1>5 DEF Untouched, Seeded, Opened
    <2>2. QED BY <1>1, <1>3, <2>1, IdleFirst
  <1>8. PICK tk : s[n] = Env(st, t.refunds, rp, tk) /\ \A k \in t.tickets : tk[k].status \in {"open", "resolved"}
    <2>1. \A i \in 1..(n - 1) : Idle(t, calls[i])
      BY <1>1, <1>3 DEF Stranded
    <2>2. CASE Idle(t, Given(t.expected[n]))
      <3>1. Idle(t, calls[n])
        BY <1>1, <1>3, <2>2
      <3>2. \A i \in 1..n : i = n \/ i \in 1..(n - 1)
        BY <1>1
      <3>3. QED BY <1>1, <1>6, <1>7, <2>1, <3>1, <3>2
    <2>3. CASE \E k \in t.tickets : t.expected[n] = Resolve(k)
      <3>1. PICK k \in t.tickets : t.expected[n] = Resolve(k)
        BY <2>3
      <3>2. Given(Resolve(k)) = Resolve(k)
        BY DEF Given, DemandReason, Resolve
      <3>3. calls[n] = Resolve(k)
        BY <1>1, <1>3, <3>1, <3>2
      <3>4. PICK tr : tr = [open EXCEPT ![k].status = "resolved"]
        OBVIOUS
      <3>5. s[n - 1] = Env(st, t.refunds, rp, open)
        BY <1>1, <1>7, <2>1
      <3>6. s[n] = Env(st, t.refunds, rp, tr)
        <4>1. s[n] = Run(t)!After(s[n - 1], calls[n])
          BY <1>1, <1>3 DEF Follow
        <4>2. Run(t)!After(Env(st, t.refunds, rp, open), Resolve(k))
                = Env(st, t.refunds, rp, [open EXCEPT ![k].status = "resolved"])
          BY ResolveCall
        <4>3. QED BY <3>3, <3>4, <3>5, <4>1, <4>2
      <3>7. \A q \in t.tickets : tr[q].status \in {"open", "resolved"}
        BY <1>6, <3>4
      <3>8. QED BY <3>6, <3>7
    <2>4. QED BY <2>2, <2>3 DEF Stranded
  <1>9. PICK env : env = StateAfter(t, ReferenceCalls(t))
    OBVIOUS
  <1>10. leaf \notin Run(t)!Facts(env)
    <2>1. env = Env(Seeded(t), t.refunds, [x \in {} |-> {}], tk)
      BY <1>3, <1>5, <1>8, <1>9
    <2>2. QED BY <1>4, <1>8, <2>1, StaysUndone
  <1>11. ReferenceScore(t).mismatches # {}
    <2>1. Run(t)!Score(ToSet(t.expected), env).mismatches = t.final \ Run(t)!Facts(env)
      BY DEF Run!Score
    <2>2. QED BY <1>9, <1>10, <2>1 DEF ReferenceScore
  <1>12. ~\A a \in ToSet(t.expected) : Callable(t, a)
    BY <1>1 DEF Stranded, ToSet
  <1>13. QED BY <1>11, <1>12

\* Nothing that the contract expects is forbidden, and every attempt counts.
LEMMA AttemptsCount ==
  ASSUME NEW t, Open(t), Solved(t)
  PROVE  ReferenceScore(t).missing = {} /\ ReferenceScore(t).forbidden = {}
  <1>1. PICK env, end : env = StateAfter(t, ReferenceCalls(t)) /\ end = StateAfter(t, Solution(t))
    OBVIOUS
  <1>2. Run(t)!Score(ToSet(t.expected), env).missing = {}
    <2>1. \A a \in ToSet(t.expected) : Run(t)!Matches(a, a)
      BY DEF Run!Matches
    <2>2. QED BY <2>1 DEF Run!Score
  <1>3. \A f \in t.forbidden : \A c \in ToSet(Solution(t)) : ~Run(t)!Matches(f, c)
    BY DEF Solved, Run!MeetsContract, Run!Score
  <1>4. ASSUME NEW f \in t.forbidden, NEW a \in ToSet(t.expected)
        PROVE  ~Run(t)!Matches(f, a)
    <2>1. PICK i \in DOMAIN t.expected : a = t.expected[i]
      BY DEF ToSet
    <2>2. PICK c : c = Complete(t, a)
      OBVIOUS
    <2>3. \A x \in DOMAIN a : x \in DOMAIN c /\ c[x] = a[x]
      BY <2>1, <2>2, CompletedKeeps DEF Open
    <2>4. c \in ToSet(Solution(t))
      BY <2>1, <2>2 DEF Solution, ToSet
    <2>5. ~Run(t)!Matches(f, c)
      BY <1>3, <2>4
    <2>6. QED BY <2>3, <2>5 DEF Run!Matches
  <1>5. Run(t)!Score(ToSet(t.expected), env).forbidden = {}
    BY <1>4 DEF Run!Score
  <1>6. QED BY <1>1, <1>2, <1>5 DEF ReferenceScore

\* What ReferenceAgentFailsByState says of a task.
FailsByState(t) ==
  /\ ReferenceScore(t).missing = {} /\ ReferenceScore(t).forbidden = {}
  /\ ReferenceScore(t).mismatches = {} <=> \A a \in ToSet(t.expected) : Callable(t, a)

LEMMA StrandedSays ==
  ASSUME NEW t, NEW n, Stranded(t, n), Open(t), Solved(t)
  PROVE  FailsByState(t)
  BY StrandedFails, AttemptsCount DEF FailsByState

\* A solution of look-ups and the closing of the ticket is what the reference agent does.
LEMMA LookUpsPass ==
  ASSUME NEW t, NEW n \in 1..5, NEW k, DOMAIN t.expected = 1..n, t.expected[n] = Resolve(k),
         \A i \in 1..(n - 1) : IsRead(t, t.expected[i]), Solved(t)
  PROVE  FailsByState(t)
  <1>1. ASSUME NEW i \in 1..n, NEW a, a = t.expected[i]
        PROVE  /\ "op" \in DOMAIN a /\ a.op \notin Buying /\ a.op \notin DemandReason
               /\ Run(t)!Required[a.op] \subseteq DOMAIN a
    <2>1. i = n \/ i \in 1..(n - 1)
      OBVIOUS
    <2>2. CASE \E x \in t.customers : a = GetCustomer(x)
      BY <2>2 DEF GetCustomer, Buying, DemandReason, Run!Required
    <2>3. CASE \E o \in DOMAIN t.orders : a \in {GetOrder(o), CheckRefund(o), CheckReplacement(o)}
      BY <2>3 DEF GetOrder, CheckRefund, CheckReplacement, Buying, DemandReason, Run!Required
    <2>4. CASE a = Resolve(k)
      BY <2>4 DEF Resolve, Buying, DemandReason, Run!Required
    <2>5. QED BY <1>1, <2>1, <2>2, <2>3, <2>4 DEF IsRead
  <1>2. Open(t)
    BY <1>1 DEF Open
  <1>3. \A i \in 1..n : /\ Given(t.expected[i]) = t.expected[i] /\ Complete(t, t.expected[i]) = t.expected[i]
                        /\ Callable(t, t.expected[i])
    <2>1. ASSUME NEW i \in 1..n, NEW a, a = t.expected[i]
          PROVE  Given(a) = a /\ Complete(t, a) = a /\ Callable(t, a)
      <3>1. Given(a) = a
        BY <1>1, <2>1 DEF Given
      <3>2. Complete(t, a) = a
        BY <1>1, <2>1, Completed
      <3>3. QED BY <1>1, <2>1, <3>1, <3>2 DEF Callable
    <2>2. QED BY <2>1
  <1>4. ReferenceCalls(t) = Solution(t)
    <2>1. ReferenceCalls(t) = [i \in 1..n |-> Given(t.expected[i])]
      BY DEF ReferenceCalls
    <2>2. Solution(t) = [i \in 1..n |-> Complete(t, t.expected[i])]
      BY DEF Solution
    <2>3. QED BY <1>3, <2>1, <2>2
  <1>5. ReferenceScore(t).mismatches = {}
    BY <1>4 DEF ReferenceScore, Solved, Run!MeetsContract, Run!Score
  <1>6. \A a \in ToSet(t.expected) : Callable(t, a)
    BY <1>3 DEF ToSet
  <1>7. QED BY <1>2, <1>5, <1>6, AttemptsCount DEF FailsByState

\* The agent can make all but the m-th of the expected calls, and it is what the final state asks for.
AllButOne(t, n, m, k, a, leaf) ==
  /\ n \in 1..5 /\ DOMAIN t.expected = 1..n /\ m \in 1..n /\ k \in t.tickets /\ a = t.expected[m]
  /\ \A i \in 1..n : IsRead(t, t.expected[i]) \/ i = m \/ (i = n /\ t.expected[i] = Resolve(k))
  /\ Given(a).op = a.op /\ ~(Run(t)!Required[a.op] \subseteq DOMAIN Given(a))
  /\ leaf \in t.final /\ Undone(t, leaf)

LEMMA ReferenceIsRefused ==
  ASSUME NEW t, NEW n, NEW m, NEW k, NEW a, NEW leaf, AllButOne(t, n, m, k, a, leaf)
  PROVE  Stranded(t, n)
  <1>0. /\ n \in 1..5 /\ DOMAIN t.expected = 1..n /\ m \in 1..n /\ k \in t.tickets /\ a = t.expected[m]
        /\ \A i \in 1..n : IsRead(t, t.expected[i]) \/ i = m \/ (i = n /\ t.expected[i] = Resolve(k))
        /\ Given(a).op = a.op /\ ~(Run(t)!Required[a.op] \subseteq DOMAIN Given(a))
        /\ leaf \in t.final /\ Undone(t, leaf)
    BY DEF AllButOne
  <1>1. ~Callable(t, a) /\ Idle(t, Given(a))
    BY <1>0 DEF Callable, Idle
  <1>2. ASSUME NEW i \in 1..n, NEW b, b = t.expected[i], IsRead(t, b)
        PROVE  Idle(t, Given(b))
    <2>1. CASE \E x \in t.customers : b = GetCustomer(x)
      BY <1>2, <2>1 DEF GetCustomer, Given, DemandReason, Idle
    <2>2. CASE \E o \in DOMAIN t.orders : b \in {GetOrder(o), CheckRefund(o), CheckReplacement(o)}
      BY <1>2, <2>2 DEF GetOrder, CheckRefund, CheckReplacement, Given, DemandReason, Idle
    <2>3. QED BY <1>2, <2>1, <2>2 DEF IsRead
  <1>3. \A i \in 1..n : Idle(t, Given(t.expected[i])) \/ (i = n /\ t.expected[i] = Resolve(k))
    BY <1>0, <1>1, <1>2
  <1>4. \A i \in 1..(n - 1) : i \in 1..n /\ i # n
    BY <1>0
  <1>5. QED BY <1>0, <1>1, <1>3, <1>4 DEF Stranded

LEMMA RefundIsRefused ==
  ASSUME NEW c, NEW o, NEW days, NEW sku, NEW k, NEW total, NEW r, r = Priced(c, o, days, sku, k, total),
         NEW decoys, NEW t, HasContract(t, r, decoys), Solved(t)
  PROVE  FailsByState(t)
  <1>1. /\ t.customers = {c} /\ o \in DOMAIN t.orders /\ t.refunds = Empty /\ k \in t.tickets
        /\ t.expected = <<GetCustomer(c), GetOrder(o), CheckRefund(o), Refund(o, total), Resolve(k)>>
        /\ Refunded(o, total) \in t.final
    BY DEF HasContract, Priced, One
  <1>2. PICK n, m, a, leaf : n = 5 /\ m = 4 /\ a = Refund(o, total) /\ leaf = Refunded(o, total)
    OBVIOUS
  <1>3. /\ n \in 1..5 /\ DOMAIN t.expected = 1..n /\ m \in 1..n /\ a = t.expected[m]
        /\ \A i \in 1..n : \/ t.expected[i] \in {GetCustomer(c), GetOrder(o), CheckRefund(o)} \/ i = m
                           \/ (i = n /\ t.expected[i] = Resolve(k))
    BY <1>1, <1>2
  <1>4. \A i \in 1..n : IsRead(t, t.expected[i]) \/ i = m \/ (i = n /\ t.expected[i] = Resolve(k))
    BY <1>1, <1>3 DEF IsRead
  <1>5. Given(a).op = a.op /\ ~(Run(t)!Required[a.op] \subseteq DOMAIN Given(a))
    BY <1>2 DEF Refund, Given, DemandReason, Run!Required
  <1>6. leaf \in t.final /\ Undone(t, leaf)
    BY <1>1, <1>2 DEF Undone
  <1>7. Open(t)
    BY <1>2, <1>3 DEF Open, Buying, GetCustomer, GetOrder, CheckRefund, Refund, Resolve
  <1>8. Stranded(t, n)
    <2>1. AllButOne(t, n, m, k, a, leaf)
      BY <1>1, <1>3, <1>4, <1>5, <1>6 DEF AllButOne
    <2>2. QED BY <2>1, ReferenceIsRefused
  <1>9. QED BY <1>7, <1>8, StrandedSays

LEMMA CancellationIsRefused ==
  ASSUME NEW r, r = ORDER_CANCELLATION_BEFORE_SHIPPING, NEW decoys, NEW t, HasContract(t, r, decoys), Solved(t)
  PROVE  FailsByState(t)
  <1> PICK c, o, k, a : Cancelling(r, c, o, k, a)
    <2>1. Cancelling(r, "CUST-008", "ORD-8001", "TICK-9008", [op |-> "cancel_order", order |-> "ORD-8001"])
      BY DEF Cancelling, ORDER_CANCELLATION_BEFORE_SHIPPING, Asking, One, Order
    <2>2. QED BY <2>1
  <1>1. /\ a = [op |-> "cancel_order", order |-> o] /\ t.customers = {c} /\ o \in DOMAIN t.orders
        /\ k \in t.tickets /\ t.orders[o].status = "processing" /\ OrderIs(o, "cancelled") \in t.final
        /\ t.expected = <<GetCustomer(c), GetOrder(o), a, Resolve(k)>>
    BY DEF HasContract, Cancelling, Asking
  <1>2. PICK n, m, leaf : n = 4 /\ m = 3 /\ leaf = OrderIs(o, "cancelled")
    OBVIOUS
  <1>3. /\ n \in 1..5 /\ DOMAIN t.expected = 1..n /\ m \in 1..n /\ a = t.expected[m]
        /\ \A i \in 1..n : \/ t.expected[i] \in {GetCustomer(c), GetOrder(o)} \/ i = m
                           \/ (i = n /\ t.expected[i] = Resolve(k))
    BY <1>1, <1>2
  <1>4. \A i \in 1..n : IsRead(t, t.expected[i]) \/ i = m \/ (i = n /\ t.expected[i] = Resolve(k))
    BY <1>1, <1>3 DEF IsRead
  <1>5. Given(a).op = a.op /\ ~(Run(t)!Required[a.op] \subseteq DOMAIN Given(a))
    BY <1>1 DEF Given, DemandReason, Run!Required
  <1>6. leaf \in t.final /\ Undone(t, leaf)
    BY <1>1, <1>2 DEF Undone
  <1>7. Open(t)
    BY <1>1, <1>3 DEF Open, Buying, GetCustomer, GetOrder, Resolve
  <1>8. Stranded(t, n)
    <2>1. AllButOne(t, n, m, k, a, leaf)
      BY <1>1, <1>3, <1>4, <1>5, <1>6 DEF AllButOne
    <2>2. QED BY <2>1, ReferenceIsRefused
  <1>9. QED BY <1>7, <1>8, StrandedSays

LEMMA ReplacementIsRefused ==
  ASSUME NEW r, r = ITEM_REPLACEMENT_WITHIN_POLICY, NEW decoys, NEW t, HasContract(t, r, decoys), Solved(t)
  PROVE  FailsByState(t)
  <1> PICK c, o, k, item, a : Replacing(r, c, o, k, item, a)
    <2>1. Replacing(r, "CUST-010", "ORD-10001", "TICK-9010", "SHIRT-BLU-L",
                    [op |-> "replace_item", order |-> "ORD-10001", sku |-> "SHIRT-BLU-L"])
      BY ReplacementRow
    <2>2. QED BY <2>1
  <1>1. /\ a = [op |-> "replace_item", order |-> o, sku |-> item] /\ t.customers = {c} /\ o \in DOMAIN t.orders
        /\ k \in t.tickets /\ Replaced(o, item) \in t.final
        /\ t.expected = <<GetCustomer(c), GetOrder(o), CheckReplacement(o), a, Resolve(k)>>
    BY DEF HasContract, Replacing, One
  <1>2. PICK n, m, leaf : n = 5 /\ m = 4 /\ leaf = Replaced(o, item)
    OBVIOUS
  <1>3. /\ n \in 1..5 /\ DOMAIN t.expected = 1..n /\ m \in 1..n /\ a = t.expected[m]
        /\ \A i \in 1..n : \/ t.expected[i] \in {GetCustomer(c), GetOrder(o), CheckReplacement(o)} \/ i = m
                           \/ (i = n /\ t.expected[i] = Resolve(k))
    BY <1>1, <1>2
  <1>4. \A i \in 1..n : IsRead(t, t.expected[i]) \/ i = m \/ (i = n /\ t.expected[i] = Resolve(k))
    BY <1>1, <1>3 DEF IsRead
  <1>5. Given(a).op = a.op /\ ~(Run(t)!Required[a.op] \subseteq DOMAIN Given(a))
    BY <1>1 DEF Given, DemandReason, Run!Required
  <1>6. leaf \in t.final /\ Undone(t, leaf)
    BY <1>1, <1>2 DEF Undone
  <1>7. Open(t)
    BY <1>1, <1>3 DEF Open, Buying, GetCustomer, GetOrder, CheckReplacement, Resolve
  <1>8. Stranded(t, n)
    <2>1. AllButOne(t, n, m, k, a, leaf)
      BY <1>1, <1>3, <1>4, <1>5, <1>6 DEF AllButOne
    <2>2. QED BY <2>1, ReferenceIsRefused
  <1>9. QED BY <1>7, <1>8, StrandedSays

LEMMA EscalationIsRefused ==
  ASSUME NEW r, r = TICKET_ESCALATION_FOR_UNRESOLVED_ISSUE, NEW decoys, NEW t, HasContract(t, r, decoys), Solved(t)
  PROVE  FailsByState(t)
  <1> PICK c, k, a : Escalating(r, c, k, a)
    <2>1. Escalating(r, "CUST-011", "TICK-9011", [op |-> "escalate_ticket", ticket |-> "TICK-9011"])
      BY DEF Escalating, TICKET_ESCALATION_FOR_UNRESOLVED_ISSUE
    <2>2. QED BY <2>1
  <1>1. /\ a = [op |-> "escalate_ticket", ticket |-> k] /\ t.customers = {c} /\ k \in t.tickets
        /\ TicketIs(k, "escalated") \in t.final /\ t.expected = <<GetCustomer(c), a>>
    BY DEF HasContract, Escalating
  <1>2. PICK n, m, leaf : n = 2 /\ m = 2 /\ leaf = TicketIs(k, "escalated")
    OBVIOUS
  <1>3. /\ n \in 1..5 /\ DOMAIN t.expected = 1..n /\ m \in 1..n /\ a = t.expected[m]
        /\ \A i \in 1..n : t.expected[i] = GetCustomer(c) \/ i = m
    BY <1>1, <1>2
  <1>4. \A i \in 1..n : IsRead(t, t.expected[i]) \/ i = m \/ (i = n /\ t.expected[i] = Resolve(k))
    BY <1>1, <1>3 DEF IsRead
  <1>5. Given(a).op = a.op /\ ~(Run(t)!Required[a.op] \subseteq DOMAIN Given(a))
    BY <1>1 DEF Given, DemandReason, Run!Required
  <1>6. leaf \in t.final /\ Undone(t, leaf)
    BY <1>1, <1>2 DEF Undone
  <1>7. Open(t)
    BY <1>1, <1>3 DEF Open, Buying, GetCustomer
  <1>8. Stranded(t, n)
    <2>1. AllButOne(t, n, m, k, a, leaf)
      BY <1>1, <1>3, <1>4, <1>5, <1>6 DEF AllButOne
    <2>2. QED BY <2>1, ReferenceIsRefused
  <1>9. QED BY <1>7, <1>8, StrandedSays

LEMMA FormFailsByState ==
  ASSUME NEW p \in SEED_TASKS, NEW total \in Nat, NEW decoys \in SUBSET Decoys,
         NEW t, HasContract(t, Moved(p, total), decoys)
  PROVE  FailsByState(t)
  <1>1. Solved(t)
    BY FormIsSolved
  <1>2. CASE p \in Priceds
    <2>1. PICK c, o, days, sku, k : Moved(p, total) = Priced(c, o, days, sku, k, total)
      BY <1>2, PricedForm
    <2>2. PICK r : r = Priced(c, o, days, sku, k, total)
      OBVIOUS
    <2>3. HasContract(t, r, decoys)
      BY <2>1, <2>2
    <2>4. QED BY <1>1, <2>2, <2>3, RefundIsRefused
  <1>3. CASE p \notin Priceds
    <2>1. HasContract(t, p, decoys)
      BY <1>3, UnpricedForm
    <2>2. ASSUME NEW c, NEW o, NEW k, LookingUp(p, c, o, k) PROVE FailsByState(t)
      <3>1. PICK n : OnlyReads(p, n, k)
        BY <2>2, LookUpsForm
      <3>2. /\ n \in 1..5 /\ DOMAIN t.expected = 1..n /\ t.expected[n] = Resolve(k)
            /\ \A i \in 1..(n - 1) : IsRead(t, t.expected[i])
        BY <2>1, <3>1 DEF HasContract, OnlyReads, IsRead
      <3>3. QED BY <1>1, <3>2, LookUpsPass
    <2>3. CASE p \in {CUSTOMER_REFUND_OUTSIDE_POLICY, MISSING_CUSTOMER_INFORMATION, CUSTOMER_ORDER_MISMATCH,
                      DUPLICATE_REFUND_PREVENTION, ORDER_CANCELLATION_DENIED_AFTER_DELIVERY}
      BY <2>2, <2>3, LookUpsOnly
    <2>4. CASE p = ORDER_CANCELLATION_BEFORE_SHIPPING
      BY <1>1, <2>1, <2>4, CancellationIsRefused
    <2>5. CASE p = ITEM_REPLACEMENT_WITHIN_POLICY
      BY <1>1, <2>1, <2>5, ReplacementIsRefused
    <2>6. CASE p = TICKET_ESCALATION_FOR_UNRESOLVED_ISSUE
      BY <1>1, <2>1, <2>6, EscalationIsRefused
    <2>7. QED BY <1>3, <2>3, <2>4, <2>5, <2>6 DEF SEED_TASKS, Priceds
  <1>4. QED BY <1>2, <1>3

\* On every variant of every task the reference agent attempts what is expected and
\* nothing that is forbidden, and it passes exactly when it can make all of the calls:
\* a refused attempt shows in the final state.
THEOREM RefusedAttemptsShow == Spec => []ReferenceAgentFailsByState
  <1>1. ASSUME ComposedInv PROVE ReferenceAgentFailsByState
    <2>1. PICK total \in Nat, decoys \in SUBSET Decoys : HasContract(task, Moved(parent, total), decoys)
      BY <1>1 DEF ComposedInv, FormInv
    <2>2. FailsByState(task)
      BY <1>1, <2>1, FormFailsByState DEF ComposedInv, FormInv
    <2>3. PICK score : score = ReferenceScore(task)
      OBVIOUS
    <2>4. Run(task)!MeetsContract(score) <=> score.mismatches = {}
      BY <2>2, <2>3 DEF FailsByState, Run!MeetsContract
    <2>5. QED BY <2>2, <2>3, <2>4 DEF FailsByState, ReferenceAgentFailsByState
  <1>2. QED BY <1>1, ComposedInductive, PTL

-----------------------------------------------------------------------------
\* The traces of the demo's scripts

\* Five or fewer sequences, one after another.
Chained(seqs, n, f) == f[1] = seqs[1] /\ \A i \in 2..n : f[i] = f[i - 1] \o seqs[i]

LEMMA Flattened ==
  ASSUME NEW seqs, NEW n \in 2..5, Len(seqs) = n
  PROVE  \E f : FlattenSeq(seqs) = f[n] /\ Chained(seqs, n, f)
  <1> DEFINE Next1(g, i) == IF i = 1 THEN seqs[i] ELSE g[i - 1] \o seqs[i]
             IsFlat(g) == g = [i \in 1..n |-> Next1(g, i)]
  <1>1. FlattenSeq(seqs) = (CHOOSE g : IsFlat(g))[n]
    <2>1. Len(seqs) # 0
      OBVIOUS
    <2>2. QED BY <2>1 DEF FlattenSeq
  <1>2. \E g : IsFlat(g)
    <2>1. PICK s1 : s1 = seqs[1]
      OBVIOUS
    <2>2. PICK s2 : s2 = s1 \o seqs[2]
      OBVIOUS
    <2>3. PICK s3 : s3 = s2 \o seqs[3]
      OBVIOUS
    <2>4. PICK s4 : s4 = s3 \o seqs[4]
      OBVIOUS
    <2>5. PICK s5 : s5 = s4 \o seqs[5]
      OBVIOUS
    <2>6. PICK g : g = [i \in 1..n |-> IF i = 1 THEN s1 ELSE IF i = 2 THEN s2 ELSE IF i = 3 THEN s3
                                       ELSE IF i = 4 THEN s4 ELSE s5]
      OBVIOUS
    <2>7. ASSUME NEW i \in 1..n PROVE g[i] = Next1(g, i)
      <3>1. i \in {1, 2, 3, 4, 5} /\ (i # 1 => i - 1 \in 1..n)
        OBVIOUS
      <3>2. CASE i = 1
        BY <2>1, <2>6, <3>2
      <3>3. CASE i = 2
        BY <2>2, <2>6, <3>1, <3>3
      <3>4. CASE i = 3
        BY <2>3, <2>6, <3>1, <3>4
      <3>5. CASE i = 4
        BY <2>4, <2>6, <3>1, <3>5
      <3>6. CASE i = 5
        BY <2>5, <2>6, <3>1, <3>6
      <3>7. QED BY <3>1, <3>2, <3>3, <3>4, <3>5, <3>6
    <2>8. IsFlat(g)
      <3>1. PICK h : h = [i \in 1..n |-> Next1(g, i)]
        OBVIOUS
      <3>2. \A i \in 1..n : h[i] = g[i]
        BY <2>7, <3>1
      <3>3. g = [i \in 1..n |-> g[i]] /\ h = [i \in 1..n |-> h[i]]
        BY <2>6, <3>1
      <3>4. h = g
        BY <3>2, <3>3
      <3>5. QED BY <3>1, <3>4
    <2>9. QED BY <2>8
  <1>3. PICK f : f = (CHOOSE g : IsFlat(g))
    OBVIOUS
  <1>4. IsFlat(f)
    BY <1>2, <1>3
  <1>5. ASSUME NEW i \in 1..n PROVE f[i] = Next1(f, i)
    BY <1>4
  <1>6. 1 \in 1..n /\ \A i \in 2..n : i \in 1..n /\ i # 1
    OBVIOUS
  <1>7. f[1] = seqs[1]
    <2>1. f[1] = Next1(f, 1)
      BY <1>5, <1>6
    <2>2. QED BY <2>1
  <1>8. ASSUME NEW i \in 2..n PROVE f[i] = f[i - 1] \o seqs[i]
    <2>1. f[i] = Next1(f, i) /\ i # 1
      BY <1>5, <1>6
    <2>2. QED BY <2>1
  <1>9. Chained(seqs, n, f)
    BY <1>7, <1>8, Zenon DEF Chained
  <1>10. QED BY <1>1, <1>3, <1>9

\* a is where b begins.
Begins(a, b, S) == a \in Seq(S) /\ b \in Seq(S) /\ Len(a) <= Len(b) /\ \A i \in 1..Len(a) : b[i] = a[i]

LEMMA BeginsAppended ==
  ASSUME NEW S, NEW a, NEW b, NEW c \in Seq(S), Begins(a, b, S)
  PROVE  Begins(a, b \o c, S)
  <1>1. /\ a \in Seq(S) /\ b \in Seq(S) /\ Len(a) \in Nat /\ Len(b) \in Nat /\ Len(a) <= Len(b)
        /\ \A i \in 1..Len(a) : b[i] = a[i] /\ i \in 1..Len(b)
    BY DEF Begins
  <1>2. /\ b \o c \in Seq(S) /\ Len(b \o c) = Len(b) + Len(c) /\ Len(c) \in Nat
        /\ \A i \in 1..Len(b) : (b \o c)[i] = b[i]
    BY <1>1
  <1>3. QED BY <1>1, <1>2 DEF Begins

\* A flattened sequence begins with the first two of its parts.
LEMMA FirstParts ==
  ASSUME NEW S, NEW seqs, NEW n \in 2..5, Len(seqs) = n, \A i \in 1..n : seqs[i] \in Seq(S),
         NEW two, two = seqs[1] \o seqs[2]
  PROVE  Begins(two, FlattenSeq(seqs), S)
  <1>1. PICK f : FlattenSeq(seqs) = f[n] /\ Chained(seqs, n, f)
    BY Flattened
  <1>2. two \in Seq(S) /\ Len(two) \in Nat /\ 2 \in 2..n
    <2>1. 1 \in 1..n /\ 2 \in 1..n /\ 2 \in 2..n
      OBVIOUS
    <2>2. PICK a, b : a = seqs[1] /\ b = seqs[2]
      OBVIOUS
    <2>3. a \in Seq(S) /\ b \in Seq(S) /\ two = a \o b
      BY <2>1, <2>2
    <2>4. two \in Seq(S) /\ Len(two) \in Nat
      BY <2>3
    <2>5. QED BY <2>1, <2>4
  <1>3. Begins(two, f[2], S)
    <2>1. f[2] = two
      <3>1. f[2] = f[2 - 1] \o seqs[2] /\ f[1] = seqs[1]
        BY <1>1, <1>2 DEF Chained
      <3>2. f[2] = f[1] \o seqs[2]
        <4>1. 2 - 1 = 1
          OBVIOUS
        <4>2. QED BY <3>1, <4>1
      <3>3. QED BY <3>1, <3>2, Zenon
    <2>2. QED BY <1>2, <2>1 DEF Begins
  <1>4. ASSUME NEW i \in 3..n, Begins(two, f[i - 1], S) PROVE Begins(two, f[i], S)
    <2>1. f[i] = f[i - 1] \o seqs[i] /\ seqs[i] \in Seq(S)
      <3>1. i \in 2..n /\ i \in 1..n
        OBVIOUS
      <3>2. QED BY <1>1, <3>1 DEF Chained
    <2>2. PICK a, b : a = f[i - 1] /\ b = seqs[i]
      OBVIOUS
    <2>3. Begins(two, a \o b, S)
      BY <1>4, <2>1, <2>2, BeginsAppended
    <2>4. QED BY <2>1, <2>2, <2>3
  <1>5. 3 <= n => Begins(two, f[3], S)
    BY <1>3, <1>4
  <1>6. 4 <= n => Begins(two, f[4], S)
    BY <1>4, <1>5
  <1>7. 5 <= n => Begins(two, f[5], S)
    BY <1>4, <1>6
  <1>8. n \in {2, 3, 4, 5}
    OBVIOUS
  <1>9. QED BY <1>1, <1>3, <1>5, <1>6, <1>7, <1>8

LEMMA FourInAll ==
  ASSUME NEW S, NEW a \in S, NEW b \in S, NEW c \in S, NEW d \in S
  PROVE  <<a, b>> \o <<c, d>> = <<a, b, c, d>>
  <1>1. PICK l, r, w, v : l = <<a, b>> /\ r = <<c, d>> /\ w = <<a, b, c, d>> /\ v = l \o r
    OBVIOUS
  <1>2. l \in Seq(S) /\ r \in Seq(S) /\ w \in Seq(S) /\ Len(l) = 2 /\ Len(r) = 2 /\ Len(w) = 4
    BY <1>1
  <1>3. v \in Seq(S) /\ Len(v) = 4
    BY <1>1, <1>2
  <1>4. \A i \in 1..4 : v[i] = w[i]
    <2>1. v[1] = a /\ v[2] = b
      BY <1>1, <1>2
    <2>2. v[3] = c /\ v[4] = d
      BY <1>1, <1>2
    <2>3. QED BY <1>1, <2>1, <2>2
  <1>5. v = [i \in 1..4 |-> v[i]] /\ w = [i \in 1..4 |-> w[i]]
    BY <1>2, <1>3
  <1>6. v = w
    BY <1>4, <1>5
  <1>7. QED BY <1>1, <1>6, Zenon

Joined(w, l, r) ==
  /\ Len(w) = Len(l) + Len(r)
  /\ \A i \in 1..Len(l) : w[i] = l[i]
  /\ \A i \in 1..Len(r) : w[Len(l) + i] = r[i]

LEMMA Joins ==
  ASSUME NEW S, NEW l \in Seq(S), NEW r \in Seq(S)
  PROVE  Joined(l \o r, l, r)
  BY DEF Joined

Halves(two, l, r) ==
  /\ Len(two) = 8 /\ two[1] = l[1] /\ two[2] = l[2] /\ two[3] = l[3] /\ two[4] = l[4]
  /\ two[5] = r[1] /\ two[6] = r[2] /\ two[7] = r[3]

LEMMA TwoFours ==
  ASSUME NEW S, NEW l \in Seq(S), NEW r \in Seq(S), Len(l) = 4, Len(r) = 4
  PROVE  Halves(l \o r, l, r)
  <1>1. Joined(l \o r, l, r)
    BY Joins
  <1>2. PICK two : two = l \o r /\ Joined(two, l, r)
    BY <1>1
  <1>3. Len(two) = 8 /\ (\A i \in 1..4 : two[i] = l[i]) /\ \A i \in 1..4 : two[4 + i] = r[i]
    BY <1>2 DEF Joined
  <1>4. two[1] = l[1] /\ two[2] = l[2] /\ two[3] = l[3] /\ two[4] = l[4]
    BY <1>3
  <1>5. two[5] = r[1] /\ two[6] = r[2] /\ two[7] = r[3]
    <2>1. 4 + 1 = 5 /\ 4 + 2 = 6 /\ 4 + 3 = 7 /\ 1 \in 1..4 /\ 2 \in 1..4 /\ 3 \in 1..4
      OBVIOUS
    <2>2. QED BY <1>3, <2>1
  <1>6. Halves(two, l, r)
    BY <1>3, <1>4, <1>5 DEF Halves
  <1>7. QED BY <1>2, <1>6, Zenon

\* The events of a trace.
Payloads(calls, answer) ==
  {Empty} \cup {calls[i] : i \in DOMAIN calls} \cup {[content |-> answer]}
  \cup {[error_type |-> e] : e \in {"UnknownToolError", "TypeError", "NotFoundError", "PolicyViolationError"}}
EventTypes == {"model_request", "model_response", "tool_call", "tool_result", "error", "final_answer"}
Events(calls, answer) == {DemoEvent(type, payload) : type \in EventTypes, payload \in Payloads(calls, answer)}

Request == DemoEvent("model_request", Empty)
Response == DemoEvent("model_response", Empty)
Made(c) == DemoEvent("tool_call", c)
Received(t, calls, i) ==
  LET outcome == Run(t)!Outcome(States(t, calls)[i - 1], calls[i]) IN
  IF outcome = "ok" THEN DemoEvent("tool_result", Empty) ELSE DemoEvent("error", [error_type |-> outcome])

LEMMA TurnForm ==
  ASSUME NEW t, NEW calls, NEW answer, NEW i \in DOMAIN calls, NEW S, S = Events(calls, answer),
         NEW e, e = Received(t, calls, i)
  PROVE  /\ Turn(t, calls, i) = <<Request, Response, Made(calls[i]), e>>
         /\ Request \in S /\ Response \in S /\ Made(calls[i]) \in S /\ e \in S
  <1>1. PICK P : P = Payloads(calls, answer)
    OBVIOUS
  <1>2. /\ Empty \in P /\ calls[i] \in P
        /\ \A x \in {"UnknownToolError", "TypeError", "NotFoundError", "PolicyViolationError"} : [error_type |-> x] \in P
    BY <1>1 DEF Payloads
  <1>3. \A type \in EventTypes, payload \in P : DemoEvent(type, payload) \in S
    BY <1>1 DEF Events
  <1>4. Request \in S /\ Response \in S /\ Made(calls[i]) \in S
    BY <1>2, <1>3 DEF Request, Response, Made, EventTypes
  <1>5. PICK x : x = Run(t)!Outcome(States(t, calls)[i - 1], calls[i])
    OBVIOUS
  <1>6. x \in {"ok", "UnknownToolError", "TypeError", "NotFoundError", "PolicyViolationError"}
    BY <1>5 DEF Run!Outcome
  <1>7. e = IF x = "ok" THEN DemoEvent("tool_result", Empty) ELSE DemoEvent("error", [error_type |-> x])
    BY <1>5 DEF Received
  <1>8. e \in S
    BY <1>2, <1>3, <1>6, <1>7 DEF EventTypes
  <1>9. Turn(t, calls, i) = <<Request, Response>> \o <<Made(calls[i]), e>>
    <2>1. Turn(t, calls, i) = Asked \o <<Made(calls[i]), Received(t, calls, i)>>
      BY DEF Turn, Made, Received
    <2>2. Asked = <<Request, Response>>
      BY DEF Asked, Request, Response
    <2>3. QED BY <2>1, <2>2
  <1>10. <<Request, Response>> \o <<Made(calls[i]), e>> = <<Request, Response, Made(calls[i]), e>>
    BY <1>4, <1>8, FourInAll
  <1>11. QED BY <1>4, <1>8, <1>9, <1>10, Zenon

\* A trace of a script of two to five calls begins with the turns of the first two.
FirstTwo(t, calls, e1, e2) ==
  <<Request, Response, Made(calls[1]), e1>> \o <<Request, Response, Made(calls[2]), e2>>

LEMMA TraceBegins ==
  ASSUME NEW t, NEW script, NEW calls, calls = script.calls, NEW n \in 2..5, Len(calls) = n, DOMAIN calls = 1..n,
         NEW S, S = Events(calls, script.answer),
         NEW e1, e1 = Received(t, calls, 1), NEW e2, e2 = Received(t, calls, 2)
  PROVE  Begins(FirstTwo(t, calls, e1, e2), DemoTrace(t, script), S)
  <1>1. PICK turns : turns = [i \in 1..n |-> Turn(t, calls, i)]
    OBVIOUS
  <1>2. /\ 1 \in 1..n /\ 2 \in 1..n /\ 1 \in DOMAIN calls /\ 2 \in DOMAIN calls
        /\ turns[1] = Turn(t, calls, 1) /\ turns[2] = Turn(t, calls, 2)
    BY <1>1
  <1>3. ASSUME NEW i \in 1..n PROVE turns[i] \in Seq(S)
    <2>1. PICK e : e = Received(t, calls, i)
      OBVIOUS
    <2>2. /\ Turn(t, calls, i) = <<Request, Response, Made(calls[i]), e>>
          /\ Request \in S /\ Response \in S /\ Made(calls[i]) \in S /\ e \in S
      BY <2>1, TurnForm
    <2>3. turns[i] = Turn(t, calls, i)
      BY <1>1
    <2>4. QED BY <2>2, <2>3
  <1>4. Len(turns) = n
    <2>1. turns \in [1..n -> Seq(S)]
      BY <1>1, <1>3
    <2>2. QED BY <2>1
  <1>5. /\ Turn(t, calls, 1) = <<Request, Response, Made(calls[1]), e1>>
        /\ Turn(t, calls, 2) = <<Request, Response, Made(calls[2]), e2>>
    BY <1>2, TurnForm
  <1>6. PICK two : two = FirstTwo(t, calls, e1, e2)
    OBVIOUS
  <1>7. two = turns[1] \o turns[2]
    BY <1>2, <1>5, <1>6 DEF FirstTwo
  <1>8. Begins(two, FlattenSeq(turns), S)
    BY <1>3, <1>4, <1>7, FirstParts
  <1>9. PICK asked, answer : asked = Asked /\ answer = <<DemoEvent("final_answer", [content |-> script.answer])>>
    OBVIOUS
  <1>10. asked \in Seq(S) /\ answer \in Seq(S)
    <2>1. Request \in S /\ Response \in S
      BY <1>2, TurnForm
    <2>2. DemoEvent("final_answer", [content |-> script.answer]) \in S
      BY DEF Events, Payloads, EventTypes
    <2>3. QED BY <1>9, <2>1, <2>2 DEF Asked, Request, Response
  <1>11. PICK flat, longer : flat = FlattenSeq(turns) /\ longer = flat \o asked
    OBVIOUS
  <1>12. Begins(two, longer, S)
    BY <1>8, <1>10, <1>11, BeginsAppended
  <1>13. Begins(two, longer \o answer, S)
    BY <1>10, <1>12, BeginsAppended
  <1>14. DemoTrace(t, script) = longer \o answer
    BY <1>1, <1>9, <1>11, Zenon DEF DemoTrace
  <1>15. QED BY <1>6, <1>13, <1>14, Zenon

\* What is known of a trace of such a script.
Traced(t, calls, trace) ==
  /\ DOMAIN trace = 1..Len(trace) /\ Len(trace) \in Nat /\ 8 <= Len(trace)
  /\ trace[1] = Request /\ trace[2] = Response /\ trace[3] = Made(calls[1]) /\ trace[4] = Received(t, calls, 1)
  /\ trace[5] = Request /\ trace[6] = Response /\ trace[7] = Made(calls[2])

LEMMA ScriptTraced ==
  ASSUME NEW t, NEW script, NEW calls, calls = script.calls, NEW n \in 2..5, Len(calls) = n, DOMAIN calls = 1..n
  PROVE  Traced(t, calls, DemoTrace(t, script))
  <1>1. PICK S, e1, e2 : S = Events(calls, script.answer) /\ e1 = Received(t, calls, 1) /\ e2 = Received(t, calls, 2)
    OBVIOUS
  <1>2. PICK two, trace : two = FirstTwo(t, calls, e1, e2) /\ trace = DemoTrace(t, script)
    OBVIOUS
  <1>3. Begins(two, trace, S)
    BY <1>1, <1>2, TraceBegins
  <1>4. PICK l, r : /\ l = <<Request, Response, Made(calls[1]), e1>>
                    /\ r = <<Request, Response, Made(calls[2]), e2>>
    OBVIOUS
  <1>5. l \in Seq(S) /\ r \in Seq(S) /\ Len(l) = 4 /\ Len(r) = 4
    <2>1. 1 \in DOMAIN calls /\ 2 \in DOMAIN calls
      OBVIOUS
    <2>2. Request \in S /\ Response \in S /\ Made(calls[1]) \in S /\ e1 \in S /\ Made(calls[2]) \in S /\ e2 \in S
      BY <1>1, <2>1, TurnForm
    <2>3. QED BY <1>4, <2>2
  <1>6. two = l \o r
    BY <1>2, <1>4 DEF FirstTwo
  <1>7. Halves(two, l, r)
    <2>1. Halves(l \o r, l, r)
      BY <1>5, TwoFours
    <2>2. QED BY <1>6, <2>1, Zenon
  <1>8. /\ trace \in Seq(S) /\ 8 <= Len(trace) /\ \A i \in 1..8 : trace[i] = two[i]
    BY <1>3, <1>7 DEF Begins, Halves
  <1>9. /\ trace[1] = l[1] /\ trace[2] = l[2] /\ trace[3] = l[3] /\ trace[4] = l[4]
        /\ trace[5] = r[1] /\ trace[6] = r[2] /\ trace[7] = r[3]
    BY <1>7, <1>8 DEF Halves
  <1>10. DOMAIN trace = 1..Len(trace) /\ Len(trace) \in Nat
    BY <1>8
  <1>11. QED BY <1>1, <1>2, <1>4, <1>8, <1>9, <1>10 DEF Traced

-----------------------------------------------------------------------------
\* The comparison of the demo's two runs of the refund

LEMMA SameEvent ==
  ASSUME NEW e
  PROVE  EventDivergence(e, e) = "none"
  BY DEF EventDivergence

LEMMA DivergesAt ==
  ASSUME NEW left, NEW right, NEW n \in Nat, n \in DOMAIN left, n \in DOMAIN right,
         DOMAIN left = 1..Len(left), DOMAIN right = 1..Len(right), Len(left) \in Nat, Len(right) \in Nat,
         NEW d, d = EventDivergence(left[n], right[n]), d # "none",
         \A j \in 1..(n - 1) : EventDivergence(left[j], right[j]) = "none"
  PROVE  FirstDivergence(left, right) = Attribution(d, n, n)
  <1>1. PICK shared, differing : /\ shared = {i \in DOMAIN left : i \in DOMAIN right}
                                 /\ differing = {i \in shared : EventDivergence(left[i], right[i]) # "none"}
    OBVIOUS
  <1>2. n \in differing
    BY <1>1
  <1>3. \A i \in differing : i \in Nat /\ i >= n
    <2>1. ASSUME NEW i \in differing PROVE i \in Nat /\ i >= n
      <3>1. i \in 1..Len(left) /\ EventDivergence(left[i], right[i]) # "none"
        BY <1>1
      <3>2. i \in Nat /\ i >= 1 /\ i \notin 1..(n - 1)
        BY <3>1
      <3>3. QED BY <3>2
    <2>2. QED BY <2>1
  <1>4. PICK first : first = CHOOSE i \in differing : \A j \in differing : i <= j
    OBVIOUS
  <1>5. first = n
    <2>1. n \in differing /\ \A j \in differing : n <= j
      BY <1>2, <1>3
    <2>2. first \in differing /\ \A j \in differing : first <= j
      BY <1>4, <2>1
    <2>3. first \in Nat /\ first >= n /\ first <= n
      BY <1>2, <1>3, <2>2
    <2>4. QED BY <2>3
  <1>6. differing # {}
    BY <1>2
  <1>7. FirstDivergence(left, right) = Attribution(EventDivergence(left[first], right[first]), first, first)
    BY <1>1, <1>4, <1>6 DEF FirstDivergence
  <1>8. QED BY <1>5, <1>7

\* A call's operation is not redacted.
LEMMA MadeStored ==
  ASSUME NEW c, "op" \in DOMAIN c, NEW e, e = Redacted(Made(c))
  PROVE  e.type = "tool_call" /\ e.payload.op = c.op
  <1>1. Made(c).type = "tool_call" /\ Made(c).payload = c /\ DOMAIN Made(c) = {"type", "payload"}
    BY DEF Made, DemoEvent
  <1>2. PICK p : p = [f \in DOMAIN c |-> IF f \in SENSITIVE_KEYS THEN "[REDACTED]" ELSE c[f]]
    OBVIOUS
  <1>3. e = [Made(c) EXCEPT !.payload = p]
    BY <1>1, <1>2 DEF Redacted
  <1>4. e.type = "tool_call" /\ e.payload = p
    BY <1>1, <1>3
  <1>5. p["op"] = c["op"]
    BY <1>2 DEF SENSITIVE_KEYS
  <1>6. QED BY <1>4, <1>5

LEMMA OtherTool ==
  ASSUME NEW c, NEW d, "op" \in DOMAIN c, "op" \in DOMAIN d, c.op # d.op,
         NEW l, NEW r, l = Redacted(Made(c)), r = Redacted(Made(d))
  PROVE  EventDivergence(l, r) = "wrong_tool"
  <1>1. l.type = "tool_call" /\ l.payload.op = c.op
    BY MadeStored
  <1>2. r.type = "tool_call" /\ r.payload.op = d.op
    BY MadeStored
  <1>3. QED BY <1>1, <1>2 DEF EventDivergence

\* Two scripts with the same first call and then different operations.
LEMMA BlamedOnTheSecondCall ==
  ASSUME NEW t, NEW left, NEW right, NEW lcalls, NEW rcalls, Traced(t, lcalls, left), Traced(t, rcalls, right),
         Received(t, lcalls, 1) = Received(t, rcalls, 1), lcalls[1] = rcalls[1],
         NEW c, NEW d, c = lcalls[2], d = rcalls[2], "op" \in DOMAIN c, "op" \in DOMAIN d, c.op # d.op
  PROVE  FirstDivergence(StoredTrace(left), StoredTrace(right)) = Attribution("wrong_tool", 7, 7)
  <1>1. PICK l, r : l = StoredTrace(left) /\ r = StoredTrace(right)
    OBVIOUS
  <1>2. /\ DOMAIN left = 1..Len(left) /\ Len(left) \in Nat /\ 8 <= Len(left)
        /\ DOMAIN right = 1..Len(right) /\ Len(right) \in Nat /\ 8 <= Len(right)
    BY DEF Traced
  <1>3. /\ DOMAIN l = 1..Len(left) /\ DOMAIN r = 1..Len(right)
        /\ \A i \in 1..8 : l[i] = Redacted(left[i]) /\ r[i] = Redacted(right[i])
    <2>1. l = [i \in DOMAIN left |-> Redacted(left[i])] /\ r = [i \in DOMAIN right |-> Redacted(right[i])]
      BY <1>1 DEF StoredTrace
    <2>2. QED BY <1>2, <2>1
  <1>4. Len(l) = Len(left) /\ Len(r) = Len(right)
    BY <1>2, <1>3
  <1>5. \A i \in 1..6 : left[i] = right[i]
    <2>1. \A i \in 1..6 : i \in {1, 2, 3, 4, 5, 6}
      OBVIOUS
    <2>2. QED BY <2>1 DEF Traced
  <1>6. \A i \in 1..(7 - 1) : EventDivergence(l[i], r[i]) = "none"
    <2>1. ASSUME NEW i \in 1..6 PROVE EventDivergence(l[i], r[i]) = "none"
      <3>1. l[i] = r[i]
        BY <1>3, <1>5
      <3>2. QED BY <3>1, SameEvent
    <2>2. QED BY <2>1
  <1>7. EventDivergence(l[7], r[7]) = "wrong_tool"
    <2>1. l[7] = Redacted(Made(c)) /\ r[7] = Redacted(Made(d))
      BY <1>3 DEF Traced
    <2>2. QED BY <2>1, OtherTool
  <1>8. PICK n, b : n = 7 /\ b = "wrong_tool"
    OBVIOUS
  <1>9. FirstDivergence(l, r) = Attribution(b, n, n)
    <2>1. n \in Nat /\ n \in DOMAIN l /\ n \in DOMAIN r /\ b # "none"
      BY <1>2, <1>3, <1>8
    <2>2. DOMAIN l = 1..Len(l) /\ DOMAIN r = 1..Len(r) /\ Len(l) \in Nat /\ Len(r) \in Nat
      BY <1>2, <1>3, <1>4
    <2>3. b = EventDivergence(l[n], r[n]) /\ \A i \in 1..(n - 1) : EventDivergence(l[i], r[i]) = "none"
      BY <1>6, <1>7, <1>8
    <2>4. QED BY <2>1, <2>2, <2>3, DivergesAt
  <1>10. QED BY <1>1, <1>8, <1>9

-----------------------------------------------------------------------------
\* The demo's runs on the variants of its tasks

LEMMA DemoPasses ==
  ASSUME NEW t, NEW script, script.calls = Solution(t), Solved(t)
  PROVE  DemoPassed(t, script) = "true"
  BY DEF Solved, DemoPassed

LEMMA DemoFails ==
  ASSUME NEW t, NEW script, NEW i \in DOMAIN t.expected, NEW a, a = t.expected[i],
         \A j \in DOMAIN script.calls : ~Run(t)!Matches(a, script.calls[j])
  PROVE  DemoPassed(t, script) = "false"
  <1>1. PICK calls, env, score : /\ calls = script.calls /\ env = StateAfter(t, calls)
                                 /\ score = Run(t)!Score(ToSet(calls), env)
    OBVIOUS
  <1>2. a \in score.missing
    BY <1>1 DEF Run!Score, ToSet
  <1>3. ~Run(t)!MeetsContract(score)
    BY <1>2 DEF Run!MeetsContract
  <1>4. QED BY <1>1, <1>3 DEF DemoPassed

\* A contract of look-ups is its own solution.
LEMMA CompleteAsIs ==
  ASSUME NEW t, NEW e, t.expected = e, e = [i \in DOMAIN e |-> e[i]], \A i \in DOMAIN e : e[i].op \notin Buying
  PROVE  Solution(t) = e
  <1>1. \A i \in DOMAIN e : Complete(t, e[i]) = e[i]
    BY Completed
  <1>2. QED BY <1>1 DEF Solution

LEMMA DemoTickets ==
  /\ CUSTOMER_REFUND_WITHIN_POLICY.tickets = {"TICK-9001"}
  /\ CUSTOMER_REFUND_OUTSIDE_POLICY.tickets = {"TICK-9002"}
  /\ CUSTOMER_REFUND_BOUNDARY_AMOUNT.tickets = {"TICK-9003"}
  /\ ORDER_CANCELLATION_DENIED_AFTER_DELIVERY.tickets = {"TICK-9009"}
  <1>1. CUSTOMER_REFUND_WITHIN_POLICY.tickets = {"TICK-9001"}
    BY DEF CUSTOMER_REFUND_WITHIN_POLICY
  <1>2. CUSTOMER_REFUND_OUTSIDE_POLICY.tickets = {"TICK-9002"}
    BY DEF CUSTOMER_REFUND_OUTSIDE_POLICY
  <1>3. CUSTOMER_REFUND_BOUNDARY_AMOUNT.tickets = {"TICK-9003"}
    BY DEF CUSTOMER_REFUND_BOUNDARY_AMOUNT
  <1>4. ORDER_CANCELLATION_DENIED_AFTER_DELIVERY.tickets = {"TICK-9009"}
    BY DEF ORDER_CANCELLATION_DENIED_AFTER_DELIVERY
  <1>5. QED BY <1>1, <1>2, <1>3, <1>4

RefundCalls ==
  <<GetCustomer("CUST-001"), GetOrder("ORD-1001"), CheckRefund("ORD-1001"), FullRefund, Resolve("TICK-9001")>>
OutsideCalls == <<GetCustomer("CUST-002"), GetOrder("ORD-2001"), CheckRefund("ORD-2001"), Resolve("TICK-9002")>>
DeniedCalls == <<GetCustomer("CUST-009"), GetOrder("ORD-9001"), Resolve("TICK-9009")>>

LEMMA SeedCalls ==
  /\ CUSTOMER_REFUND_OUTSIDE_POLICY.expected = OutsideCalls
  /\ ORDER_CANCELLATION_DENIED_AFTER_DELIVERY.expected = DeniedCalls
  <1>1. CUSTOMER_REFUND_OUTSIDE_POLICY.expected = OutsideCalls
    BY DEF CUSTOMER_REFUND_OUTSIDE_POLICY, OutsideCalls
  <1>2. ORDER_CANCELLATION_DENIED_AFTER_DELIVERY.expected = DeniedCalls
    BY DEF ORDER_CANCELLATION_DENIED_AFTER_DELIVERY, DeniedCalls
  <1>3. QED BY <1>1, <1>2

LEMMA DemoScripts ==
  /\ CorrectModelFor(CUSTOMER_REFUND_WITHIN_POLICY) = Script(RefundCalls, "issued")
  /\ CorrectModelFor(CUSTOMER_REFUND_OUTSIDE_POLICY) = Script(OutsideCalls, "outside")
  /\ CorrectModelFor(ORDER_CANCELLATION_DENIED_AFTER_DELIVERY) = Script(DeniedCalls, "delivered")
  <1>1. PICK p, q, r : p = CUSTOMER_REFUND_WITHIN_POLICY /\ q = CUSTOMER_REFUND_OUTSIDE_POLICY
                       /\ r = ORDER_CANCELLATION_DENIED_AFTER_DELIVERY
    OBVIOUS
  <1>2. p # q /\ q # r /\ p # r
    <2>1. p.tickets = {"TICK-9001"} /\ q.tickets = {"TICK-9002"} /\ r.tickets = {"TICK-9009"}
      BY <1>1, DemoTickets
    <2>2. QED BY <2>1
  <1>3. ASSUME NEW s PROVE
          CorrectModelFor(s) = CASE s = p -> Script(RefundCalls, "issued")
                                 [] s = q -> Script(OutsideCalls, "outside")
                                 [] s = r -> Script(DeniedCalls, "delivered")
    BY <1>1, Zenon DEF CorrectModelFor, RefundCalls, OutsideCalls, DeniedCalls
  <1>4. CorrectModelFor(p) = Script(RefundCalls, "issued")
    BY <1>2, <1>3
  <1>5. CorrectModelFor(q) = Script(OutsideCalls, "outside")
    BY <1>2, <1>3
  <1>6. CorrectModelFor(r) = Script(DeniedCalls, "delivered")
    BY <1>2, <1>3
  <1>7. QED BY <1>1, <1>4, <1>5, <1>6, Zenon

\* The candidate differs only on the refund.
LEMMA OthersStayPassed ==
  ASSUME NEW p \in TASKS, p # CUSTOMER_REFUND_WITHIN_POLICY, NEW total \in Nat, NEW decoys \in SUBSET Decoys,
         NEW t, HasContract(t, Moved(p, total), decoys)
  PROVE  DemoDisposition(t, p) = "stable_pass"
  <1>1. PICK calls, answer : p.expected = calls /\ CorrectModelFor(p) = Script(calls, answer)
                             /\ calls = [i \in DOMAIN calls |-> calls[i]]
                             /\ \A i \in DOMAIN calls : calls[i].op \notin Buying
    <2>1. CASE p = CUSTOMER_REFUND_OUTSIDE_POLICY
      <3>1. p.expected = OutsideCalls
        BY <2>1, SeedCalls, Zenon
      <3>2. /\ OutsideCalls = [i \in DOMAIN OutsideCalls |-> OutsideCalls[i]]
            /\ \A i \in DOMAIN OutsideCalls : OutsideCalls[i].op \notin Buying
        BY DEF OutsideCalls, Buying, GetCustomer, GetOrder, CheckRefund, Resolve
      <3>3. QED BY <2>1, <3>1, <3>2, DemoScripts
    <2>2. CASE p = ORDER_CANCELLATION_DENIED_AFTER_DELIVERY
      <3>1. p.expected = DeniedCalls
        BY <2>2, SeedCalls, Zenon
      <3>2. /\ DeniedCalls = [i \in DOMAIN DeniedCalls |-> DeniedCalls[i]]
            /\ \A i \in DOMAIN DeniedCalls : DeniedCalls[i].op \notin Buying
        BY DEF DeniedCalls, Buying, GetCustomer, GetOrder, Resolve
      <3>3. QED BY <2>2, <3>1, <3>2, DemoScripts
    <2>3. QED BY <2>1, <2>2 DEF TASKS
  <1>2. p \in SEED_TASKS \ Priceds
    <2>1. p.tickets # {"TICK-9001"} /\ p.tickets # {"TICK-9003"}
      BY DemoTickets DEF TASKS
    <2>2. p \notin Priceds
      BY <2>1, DemoTickets DEF Priceds
    <2>3. QED BY <2>2 DEF TASKS, SEED_TASKS
  <1>3. t.expected = calls
    <2>1. Moved(p, total) = p
      BY <1>2, UnpricedForm
    <2>2. QED BY <1>1, <2>1 DEF HasContract
  <1>4. Solution(t) = calls
    BY <1>1, <1>3, CompleteAsIs
  <1>5. Solved(t)
    BY <1>2, FormIsSolved
  <1>6. PICK script : script = CorrectModelFor(p) /\ script.calls = calls
    BY <1>1 DEF Script
  <1>7. DemoPassed(t, script) = "true"
    BY <1>4, <1>5, <1>6, DemoPasses
  <1>8. CandidateModelFor(p) = script
    BY <1>6 DEF CandidateModelFor
  <1>9. QED BY <1>6, <1>7, <1>8 DEF DemoDisposition, Disposition

\* A variant of the refund task.
Refunding(t, total) ==
  /\ t.customers = {"CUST-001"} /\ t.tickets = {"TICK-9001"} /\ DOMAIN t.expected = 1..5
  /\ t.expected[1] = GetCustomer("CUST-001") /\ t.expected[2] = GetOrder("ORD-1001")
  /\ t.expected[3] = CheckRefund("ORD-1001") /\ t.expected[4] = Refund("ORD-1001", total)
  /\ t.expected[5] = Resolve("TICK-9001")
  /\ t.orders["ORD-1001"].customer = "CUST-001" /\ t.orders["ORD-1001"].total = total

LEMMA RefundingForm ==
  ASSUME NEW total, NEW decoys, NEW t, HasContract(t, Within(total), decoys)
  PROVE  Refunding(t, total)
  <1> PICK c, o, k, sku : c = "CUST-001" /\ o = "ORD-1001" /\ k = "TICK-9001" /\ sku = "MUG-RED"
    OBVIOUS
  <1>1. /\ t.customers = {c} /\ t.tickets = {k} /\ t.orders = One(o, Order(c, "delivered", total, 12, sku))
        /\ t.expected = <<GetCustomer(c), GetOrder(o), CheckRefund(o), Refund(o, total), Resolve(k)>>
    BY DEF HasContract, Within, Priced
  <1>2. t.orders[o].customer = c /\ t.orders[o].total = total
    BY <1>1 DEF One, Order
  <1>3. QED BY <1>1, <1>2 DEF Refunding

LEMMA RefundCallsAre ==
  /\ Len(RefundCalls) = 5 /\ DOMAIN RefundCalls = 1..5 /\ RefundCalls = [i \in 1..5 |-> RefundCalls[i]]
  /\ RefundCalls[1] = GetCustomer("CUST-001") /\ RefundCalls[2] = GetOrder("ORD-1001")
  /\ RefundCalls[3] = CheckRefund("ORD-1001") /\ RefundCalls[4] = FullRefund
  /\ RefundCalls[5] = Resolve("TICK-9001")
  BY DEF RefundCalls

LEMMA RegressedCallsAre ==
  /\ Len(RegressedModel.calls) = 2 /\ DOMAIN RegressedModel.calls = 1..2
  /\ RegressedModel.calls[1] = GetCustomer("CUST-001") /\ RegressedModel.calls[2] = Resolve("TICK-9001")
  BY DEF RegressedModel, Script

LEMMA RefundPasses ==
  ASSUME NEW t, Refunding(t, 4200), Solved(t)
  PROVE  DemoPassed(t, CorrectModelFor(CUSTOMER_REFUND_WITHIN_POLICY)) = "true"
  <1>1. PICK script : script = CorrectModelFor(CUSTOMER_REFUND_WITHIN_POLICY) /\ script.calls = RefundCalls
    BY DemoScripts DEF Script
  <1>2. PICK calls : calls = RefundCalls
    OBVIOUS
  <1>3. Complete(t, Refund("ORD-1001", 4200)) = FullRefund
    BY DEF Refunding, Complete, Refund, FullRefund
  <1>4. ASSUME NEW i \in 1..5 PROVE Complete(t, t.expected[i]) = calls[i]
    <2>1. i \in {1, 2, 3, 5} \/ i = 4
      OBVIOUS
    <2>2. CASE i \in {1, 2, 3, 5}
      <3>1. t.expected[i] = calls[i]
        BY <1>2, <2>2, RefundCallsAre DEF Refunding
      <3>2. t.expected[i].op \notin Buying
        BY <2>2 DEF Refunding, Buying, GetCustomer, GetOrder, CheckRefund, Resolve
      <3>3. PICK a : a = t.expected[i]
        OBVIOUS
      <3>4. Complete(t, a) = a
        BY <3>2, <3>3 DEF Complete, Buying
      <3>5. QED BY <3>1, <3>3, <3>4
    <2>3. CASE i = 4
      BY <1>2, <1>3, <2>3, RefundCallsAre DEF Refunding
    <2>4. QED BY <2>1, <2>2, <2>3
  <1>5. Solution(t) = calls
    <2>1. DOMAIN t.expected = 1..5 /\ calls = [i \in 1..5 |-> calls[i]]
      BY <1>2, RefundCallsAre DEF Refunding
    <2>2. Solution(t) = [i \in 1..5 |-> Complete(t, t.expected[i])]
      BY <2>1 DEF Solution
    <2>3. QED BY <1>4, <2>1, <2>2
  <1>6. DemoPassed(t, script) = "true"
    BY <1>1, <1>2, <1>5, DemoPasses
  <1>7. QED BY <1>1, <1>6

\* Of another total the script refunds the wrong amount.
LEMMA MovedRefundFails ==
  ASSUME NEW t, NEW total, Refunding(t, total), total # 4200
  PROVE  DemoPassed(t, CorrectModelFor(CUSTOMER_REFUND_WITHIN_POLICY)) = "false"
  <1>1. PICK script : script = CorrectModelFor(CUSTOMER_REFUND_WITHIN_POLICY) /\ script.calls = RefundCalls
    BY DemoScripts DEF Script
  <1>2. PICK a : a = Refund("ORD-1001", total)
    OBVIOUS
  <1>3. "op" \in DOMAIN a /\ a["op"] = "create_refund" /\ "amount" \in DOMAIN a /\ a["amount"] = total
    BY <1>2 DEF Refund
  <1>4. ASSUME NEW j \in 1..5, NEW c, c = RefundCalls[j] PROVE ~Run(t)!Matches(a, c)
    <2>1. j = 4 \/ j \in {1, 2, 3, 5}
      OBVIOUS
    <2>2. CASE j = 4
      <3>1. c["amount"] = 4200
        BY <1>4, <2>2, RefundCallsAre DEF FullRefund
      <3>2. QED BY <1>3, <3>1 DEF Run!Matches
    <2>3. CASE j \in {1, 2, 3, 5}
      <3>1. c["op"] # "create_refund"
        BY <1>4, <2>3, RefundCallsAre DEF GetCustomer, GetOrder, CheckRefund, Resolve
      <3>2. QED BY <1>3, <3>1 DEF Run!Matches
    <2>4. QED BY <2>1, <2>2, <2>3
  <1>5. 4 \in DOMAIN t.expected /\ a = t.expected[4]
    BY <1>2 DEF Refunding
  <1>6. \A j \in DOMAIN script.calls : ~Run(t)!Matches(a, script.calls[j])
    BY <1>1, <1>4, RefundCallsAre
  <1>7. DemoPassed(t, script) = "false"
    BY <1>5, <1>6, DemoFails
  <1>8. QED BY <1>1, <1>7

\* The regressed candidate looks no order up.
LEMMA RegressedFails ==
  ASSUME NEW t, NEW total, Refunding(t, total)
  PROVE  DemoPassed(t, RegressedModel) = "false"
  <1>1. PICK a, script : a = GetOrder("ORD-1001") /\ script = RegressedModel
    OBVIOUS
  <1>2. "op" \in DOMAIN a /\ a["op"] = "get_order"
    BY <1>1 DEF GetOrder
  <1>3. ASSUME NEW j \in 1..2, NEW c, c = script.calls[j] PROVE ~Run(t)!Matches(a, c)
    <2>1. c["op"] # "get_order"
      <3>1. j = 1 \/ j = 2
        OBVIOUS
      <3>2. QED BY <1>1, <1>3, <3>1, RegressedCallsAre DEF GetCustomer, Resolve
    <2>2. QED BY <1>2, <2>1 DEF Run!Matches
  <1>4. 2 \in DOMAIN t.expected /\ a = t.expected[2]
    BY <1>1 DEF Refunding
  <1>5. \A j \in DOMAIN script.calls : ~Run(t)!Matches(a, script.calls[j])
    BY <1>1, <1>3, RegressedCallsAre
  <1>6. DemoPassed(t, script) = "false"
    BY <1>4, <1>5, DemoFails
  <1>7. QED BY <1>1, <1>6

\* The regression is attributed to the call after get_customer.
LEMMA RefundIsBlamed ==
  ASSUME NEW t, NEW total, Refunding(t, total)
  PROVE  /\ DemoAttribution(t, CUSTOMER_REFUND_WITHIN_POLICY) = Attribution("wrong_tool", 7, 7)
         /\ DemoTrace(t, RegressedModel)[7].payload = Resolve("TICK-9001")
  <1>1. PICK good, bad : /\ good = CorrectModelFor(CUSTOMER_REFUND_WITHIN_POLICY) /\ good.calls = RefundCalls
                         /\ bad = RegressedModel /\ bad = CandidateModelFor(CUSTOMER_REFUND_WITHIN_POLICY)
    BY DemoScripts DEF Script, CandidateModelFor
  <1>2. PICK lcalls, rcalls : lcalls = good.calls /\ rcalls = bad.calls
    OBVIOUS
  <1>3. /\ Len(lcalls) = 5 /\ DOMAIN lcalls = 1..5 /\ Len(rcalls) = 2 /\ DOMAIN rcalls = 1..2
        /\ lcalls[1] = GetCustomer("CUST-001") /\ rcalls[1] = GetCustomer("CUST-001")
        /\ lcalls[2] = GetOrder("ORD-1001") /\ rcalls[2] = Resolve("TICK-9001")
    BY <1>1, <1>2, RefundCallsAre, RegressedCallsAre
  <1>4. PICK left, right : left = DemoTrace(t, good) /\ right = DemoTrace(t, bad)
    OBVIOUS
  <1>5. Traced(t, lcalls, left) /\ Traced(t, rcalls, right)
    <2>1. 5 \in 2..5 /\ 2 \in 2..5
      OBVIOUS
    <2>2. Traced(t, lcalls, left)
      BY <1>2, <1>3, <1>4, <2>1, ScriptTraced
    <2>3. Traced(t, rcalls, right)
      BY <1>2, <1>3, <1>4, <2>1, ScriptTraced
    <2>4. QED BY <2>2, <2>3
  <1>6. Received(t, lcalls, 1) = Received(t, rcalls, 1)
    <2>1. PICK c : c = GetCustomer("CUST-001")
      OBVIOUS
    <2>2. IsRead(t, c)
      BY <2>1 DEF IsRead, Refunding
    <2>3. ASSUME NEW calls, calls[1] = c PROVE Received(t, calls, 1) = DemoEvent("tool_result", Empty)
      <3>1. PICK env : env = States(t, calls)[1 - 1]
        OBVIOUS
      <3>2. Run(t)!Outcome(env, c) = "ok"
        BY <2>2, ReadCall
      <3>3. QED BY <2>3, <3>1, <3>2 DEF Received
    <2>4. QED BY <1>3, <2>1, <2>3
  <1>7. PICK c, d : c = GetOrder("ORD-1001") /\ d = Resolve("TICK-9001")
    OBVIOUS
  <1>8. "op" \in DOMAIN c /\ "op" \in DOMAIN d /\ c.op # d.op
    BY <1>7 DEF GetOrder, Resolve
  <1>9. FirstDivergence(StoredTrace(left), StoredTrace(right)) = Attribution("wrong_tool", 7, 7)
    BY <1>3, <1>5, <1>6, <1>7, <1>8, BlamedOnTheSecondCall
  <1>10. right[7].payload = Resolve("TICK-9001")
    BY <1>3, <1>5 DEF Traced, Made, DemoEvent
  <1>11. QED BY <1>1, <1>4, <1>9, <1>10 DEF DemoAttribution

-----------------------------------------------------------------------------
\* The total of the demo's order

\* It is moved, and upwards, by the boundary mutation and by no other.
MovedTotal(t) ==
  LET total == t.orders["ORD-1001"].total IN
  /\ total \in Nat
  /\ IF "boundary_refund_amount" \in ToSet(t.id) THEN total > 4200 ELSE total = 4200

MovedInv == parent = CUSTOMER_REFUND_WITHIN_POLICY => MovedTotal(task)

DemoInv == ComposedInv /\ MovedInv

TotalMoved(t, type, u, total) ==
  IF type = "boundary_refund_amount"
    THEN \E shift \in TotalShifts : u.orders["ORD-1001"].total = total + shift
    ELSE u.orders = t.orders

LEMMA TotalMoves ==
  ASSUME NEW total \in Nat, NEW decoys, NEW t, DOMAIN t = Fields, HasContract(t, Within(total), decoys),
         NEW type \in MutationTypes, NEW u \in Variants(type, t)
  PROVE  TotalMoved(t, type, u, total)
  <1>1. PICK v : /\ DOMAIN v = Fields => SameFields(v, u, {"id"}) /\ u.id = Append(v.id, type)
                 /\ \/ /\ type # "boundary_refund_amount"
                       /\ v \in Typos(t) \cup Distractions(t) \cup Paraphrases(t) \cup Noises(t)
                    \/ type # "boundary_refund_amount" /\ v \in Conflicts(t)
                    \/ type = "missing_customer_information" /\ v \in MissingCustomers(t)
                    \/ type = "boundary_refund_amount" /\ v \in Boundaries(t)
    BY Renamed
  <1>2. ASSUME DOMAIN v = Fields PROVE u.orders = v.orders
    BY <1>1, <1>2 DEF SameFields, Fields
  <1>3. ASSUME v \in Typos(t) \cup Distractions(t) \cup Paraphrases(t) \cup Noises(t) PROVE u.orders = t.orders
    BY <1>2, <1>3, TextVariants DEF SameFields, Fields
  <1>4. ASSUME v \in Conflicts(t) PROVE u.orders = t.orders
    BY <1>2, <1>4, ConflictVariants DEF SameFields, Fields
  <1>5. ASSUME v \in MissingCustomers(t) PROVE u.orders = t.orders
    BY <1>2, <1>5, MissingVariants DEF SameFields, Fields
  <1>6. CASE type = "boundary_refund_amount" /\ v \in Boundaries(t)
    <2>1. DOMAIN v = Fields
      BY <1>6, BoundaryVariants DEF SameFields
    <2>2. PICK i \in FullRefunds(t), shift \in TotalShifts : \E x, old : MovedBy(t, v, i, shift, x, old)
      BY <1>6, BoundaryVariants
    <2>3. PICK x, old : MovedBy(t, v, i, shift, x, old)
      BY <2>2
    <2>4. PICK c, o, days, sku, k : c = "CUST-001" /\ o = "ORD-1001" /\ days = 12 /\ sku = "MUG-RED" /\ k = "TICK-9001"
      OBVIOUS
    <2>5. HasContract(t, Priced(c, o, days, sku, k, total), decoys)
      BY <2>4 DEF Within
    <2>6. MovedParts(v, Priced(c, o, days, sku, k, total + shift), decoys)
      BY <2>3, <2>5, MovedRefund
    <2>7. v.orders = One(o, Order(c, "delivered", total + shift, days, sku))
      BY <2>6 DEF MovedParts, Priced
    <2>8. u.orders[o].total = total + shift
      BY <1>2, <2>1, <2>7 DEF One, Order
    <2>9. QED BY <1>6, <2>4, <2>8 DEF TotalMoved
  <1>7. QED BY <1>1, <1>3, <1>4, <1>5, <1>6 DEF TotalMoved

LEMMA AppendedSet ==
  ASSUME NEW S, NEW s \in Seq(S), NEW x \in S
  PROVE  ToSet(Append(s, x)) = ToSet(s) \cup {x}
  <1>1. /\ Len(s) \in Nat /\ DOMAIN s = 1..Len(s) /\ DOMAIN Append(s, x) = 1..(Len(s) + 1)
        /\ \A i \in 1..Len(s) : Append(s, x)[i] = s[i]
        /\ Append(s, x)[Len(s) + 1] = x
    OBVIOUS
  <1>2. ASSUME NEW y \in ToSet(Append(s, x)) PROVE y \in ToSet(s) \cup {x}
    BY <1>1 DEF ToSet
  <1>3. ASSUME NEW y \in ToSet(s) \cup {x} PROVE y \in ToSet(Append(s, x))
    BY <1>1 DEF ToSet
  <1>4. QED BY <1>2, <1>3

LEMMA WithinSeed ==
  /\ CUSTOMER_REFUND_WITHIN_POLICY.id = <<"support_refund_within_30_days_001">>
  /\ CUSTOMER_REFUND_WITHIN_POLICY.orders = One("ORD-1001", Order("CUST-001", "delivered", 4200, 12, "MUG-RED"))
  <1>1. CUSTOMER_REFUND_WITHIN_POLICY.id = <<"support_refund_within_30_days_001">>
    BY DEF CUSTOMER_REFUND_WITHIN_POLICY
  <1>2. CUSTOMER_REFUND_WITHIN_POLICY.orders = One("ORD-1001", Order("CUST-001", "delivered", 4200, 12, "MUG-RED"))
    BY DEF CUSTOMER_REFUND_WITHIN_POLICY
  <1>3. QED BY <1>1, <1>2

LEMMA InitMoved == Init => MovedInv
  <1> SUFFICES ASSUME Init, parent = CUSTOMER_REFUND_WITHIN_POLICY PROVE MovedTotal(task)
    BY DEF MovedInv
  <1>0. task = CUSTOMER_REFUND_WITHIN_POLICY
    BY DEF Init
  <1>1. task.id = <<"support_refund_within_30_days_001">>
    BY <1>0, WithinSeed
  <1>2. task.orders = One("ORD-1001", Order("CUST-001", "delivered", 4200, 12, "MUG-RED"))
    BY <1>0, WithinSeed
  <1>3. task.orders["ORD-1001"].total = 4200
    BY <1>2 DEF One, Order
  <1>4. "boundary_refund_amount" \notin ToSet(task.id)
    BY <1>1 DEF ToSet
  <1>5. QED BY <1>3, <1>4 DEF MovedTotal

LEMMA StepMoved == ASSUME ComposedInv, MovedInv, [Next]_vars PROVE MovedInv'
  <1>1. CASE UNCHANGED <<parent, task>>
    BY <1>1 DEF MovedInv
  <1>2. ASSUME NEW type \in MutationTypes, Apply(type), parent' = CUSTOMER_REFUND_WITHIN_POLICY
        PROVE  MovedTotal(task')
    <2>1. /\ parent = CUSTOMER_REFUND_WITHIN_POLICY /\ DOMAIN task = Fields /\ task' \in Variants(type, task)
          /\ MovedTotal(task)
      BY <1>2 DEF Apply, ComposedInv, FormInv, MovedInv
    <2>2. PICK total \in Nat, decoys \in SUBSET Decoys : HasContract(task, Moved(parent, total), decoys)
      BY DEF ComposedInv, FormInv
    <2>3. PICK t, u : t = task /\ u = task'
      OBVIOUS
    <2>4. HasContract(t, Within(total), decoys)
      BY <2>1, <2>2, <2>3 DEF Moved
    <2>5. t.orders["ORD-1001"].total = total
      BY <2>4, RefundingForm DEF Refunding
    <2>6. TotalMoved(t, type, u, total)
      <3>1. DOMAIN t = Fields /\ u \in Variants(type, t)
        BY <2>1, <2>3
      <3>2. QED BY <2>4, <3>1, TotalMoves
    <2>7. PICK names : names = {parent.id[1]} \cup MutationTypes
      OBVIOUS
    <2>8. ToSet(u.id) = ToSet(t.id) \cup {type}
      <3>1. DOMAIN t = Fields /\ u \in Variants(type, t) /\ HasContract(t, Moved(parent, total), decoys)
        BY <2>1, <2>2, <2>3
      <3>2. parent \in SEED_TASKS
        BY DEF ComposedInv, FormInv
      <3>3. Kept(parent, t, type, u)
        BY <3>1, <3>2, FormKept
      <3>4. u.id = Append(t.id, type)
        BY <3>3 DEF Kept
      <3>5. t.id \in Seq(names) /\ type \in names
        BY <2>3, <2>7 DEF ComposedInv, NameInv
      <3>6. QED BY <3>4, <3>5, AppendedSet
    <2>9. IF "boundary_refund_amount" \in ToSet(t.id) THEN total > 4200 ELSE total = 4200
      BY <2>1, <2>3, <2>5 DEF MovedTotal
    <2>10. CASE type = "boundary_refund_amount"
      <3>1. PICK shift \in TotalShifts : u.orders["ORD-1001"].total = total + shift
        BY <2>6, <2>10 DEF TotalMoved
      <3>2. PICK new : new = total + shift /\ new \in Nat /\ new > 4200 /\ u.orders["ORD-1001"].total = new
        BY <2>9, <3>1
      <3>3. "boundary_refund_amount" \in ToSet(u.id)
        BY <2>8, <2>10
      <3>4. MovedTotal(u)
        BY <3>2, <3>3 DEF MovedTotal
      <3>5. QED BY <2>3, <3>4
    <2>11. CASE type # "boundary_refund_amount"
      <3>1. /\ u.orders = t.orders
            /\ "boundary_refund_amount" \in ToSet(u.id) <=> "boundary_refund_amount" \in ToSet(t.id)
        BY <2>6, <2>8, <2>11 DEF TotalMoved
      <3>2. MovedTotal(u)
        BY <2>5, <2>9, <3>1 DEF MovedTotal
      <3>3. QED BY <2>3, <3>2
    <2>12. QED BY <2>10, <2>11
  <1>3. ASSUME NEW type \in MutationTypes, Apply(type) PROVE MovedInv'
    BY <1>2, <1>3 DEF MovedInv
  <1>4. ASSUME NEW type \in MutationTypes, Refuse(type) PROVE UNCHANGED <<parent, task>>
    BY <1>4 DEF Refuse
  <1>5. CASE Finish
    BY <1>1, <1>5 DEF Finish
  <1>6. CASE UNCHANGED vars
    BY <1>1, <1>6 DEF vars
  <1>7. QED BY <1>1, <1>3, <1>4, <1>5, <1>6 DEF Next

\* The refund's total is moved by the boundary mutation only, in compositions of any length.
THEOREM DemoInductive == Spec => []DemoInv
  <1>1. Init => DemoInv
    BY InitComposed, InitMoved DEF DemoInv
  <1>2. DemoInv /\ [Next]_vars => DemoInv'
    BY StepComposed, StepMoved DEF DemoInv
  <1>3. QED BY <1>1, <1>2, PTL DEF Spec

\* On every variant of the demo's tasks: the candidate regresses on the refund and on
\* nothing else, the regression is attributed to the call after get_customer, and a moved
\* boundary fails both runs of the refund.
THEOREM DemoRegresses == Spec => []DemoRegressionIsReal
  <1>1. ASSUME DemoInv, parent \in TASKS, parent # CUSTOMER_REFUND_WITHIN_POLICY
        PROVE  DemoDisposition(task, parent) = "stable_pass"
    <2>1. PICK total \in Nat, decoys \in SUBSET Decoys : HasContract(task, Moved(parent, total), decoys)
      BY <1>1 DEF DemoInv, ComposedInv, FormInv
    <2>2. QED BY <1>1, <2>1, OthersStayPassed
  <1>2. ASSUME DemoInv, parent = CUSTOMER_REFUND_WITHIN_POLICY
        PROVE  IF "boundary_refund_amount" \in ToSet(task.id)
                 THEN DemoDisposition(task, parent) = "stable_failure"
                 ELSE /\ DemoDisposition(task, parent) = "regression"
                      /\ DemoAttribution(task, parent) = Attribution("wrong_tool", 7, 7)
                      /\ DemoTrace(task, RegressedModel)[7].payload = Resolve("TICK-9001")
    <2>1. PICK total \in Nat, decoys \in SUBSET Decoys : HasContract(task, Moved(parent, total), decoys)
      BY <1>2 DEF DemoInv, ComposedInv, FormInv
    <2>2. PICK t, p : t = task /\ p = parent
      OBVIOUS
    <2>3. Refunding(t, total)
      BY <1>2, <2>1, <2>2, RefundingForm DEF Moved
    <2>4. IF "boundary_refund_amount" \in ToSet(t.id) THEN total > 4200 ELSE total = 4200
      BY <1>2, <2>2, <2>3 DEF DemoInv, MovedInv, MovedTotal, Refunding
    <2>5. Solved(t)
      BY <1>2, <2>1, <2>2, FormIsSolved DEF DemoInv, ComposedInv, FormInv
    <2>6. PICK good, bad : good = CorrectModelFor(p) /\ bad = RegressedModel /\ bad = CandidateModelFor(p)
      BY <1>2, <2>2 DEF CandidateModelFor
    <2>7. DemoPassed(t, bad) = "false"
      BY <2>3, <2>6, RegressedFails
    <2>8. CASE "boundary_refund_amount" \in ToSet(t.id)
      <3>1. total # 4200
        BY <2>4, <2>8
      <3>2. DemoPassed(t, good) = "false"
        BY <1>2, <2>2, <2>3, <2>6, <3>1, MovedRefundFails
      <3>3. DemoDisposition(t, p) = "stable_failure"
        BY <2>6, <2>7, <3>2 DEF DemoDisposition, Disposition
      <3>4. QED BY <2>2, <2>8, <3>3
    <2>9. CASE "boundary_refund_amount" \notin ToSet(t.id)
      <3>1. DemoPassed(t, good) = "true"
        BY <1>2, <2>2, <2>3, <2>4, <2>5, <2>6, <2>9, RefundPasses
      <3>2. DemoDisposition(t, p) = "regression"
        BY <2>6, <2>7, <3>1 DEF DemoDisposition, Disposition
      <3>3. /\ DemoAttribution(t, p) = Attribution("wrong_tool", 7, 7)
            /\ DemoTrace(t, RegressedModel)[7].payload = Resolve("TICK-9001")
        BY <1>2, <2>2, <2>3, RefundIsBlamed
      <3>4. QED BY <2>2, <2>9, <3>2, <3>3
    <2>10. QED BY <2>8, <2>9
  <1>3. ASSUME NEW S
        PROVE  S \cap (MutationTypes \ CONTRACT_PRESERVING_MUTATIONS) \subseteq {"missing_customer_information"}
               <=> "boundary_refund_amount" \notin S
    BY DEF MutationTypes, CONTRACT_PRESERVING_MUTATIONS
  <1>4. DemoInv => DemoRegressionIsReal
    BY <1>1, <1>2, <1>3 DEF DemoRegressionIsReal
  <1>5. QED BY <1>4, DemoInductive, PTL
=============================================================================
