----------------------------- MODULE Mutations -----------------------------
(***************************************************************************)
(* Adversarial variants of the seed tasks: compose_mutations applies one   *)
(* mutation after another, each to the output of the last                  *)
(* (benchmark/mutations.py), and validate_variant judges what comes out    *)
(* (benchmark/validators.py).                                              *)
(*                                                                         *)
(*   composing --Apply--> composing ... --Finish--> composed               *)
(*        \--Refuse: the precondition of a mutation is not met--> refused  *)
(*                                                                         *)
(* A mutation is the set of the tasks it can turn a task into, one for     *)
(* each draw of its random generator; the empty set is a refusal.          *)
(***************************************************************************)
EXTENDS SeedTasks, FiniteSets, SequencesExt

CONSTANTS MaxMutations,    \* bound: mutations in a composition
          TotalShifts,     \* draws of rng.randint(1, 200)
          AmountShifts,    \* draws of rng.randint(1, 500)
          Decoys           \* draws of CUST-900 .. CUST-999

VARIABLES pc, parent, task, applied

vars == <<pc, parent, task, applied>>

ASSUME MutationAssumption ==
  /\ MaxMutations \in Nat
  /\ TotalShifts \subseteq 1..200 /\ AmountShifts \subseteq 1..500
  /\ \A t \in SEED_TASKS : Decoys \cap t.customers = {}   \* CUST-001 .. CUST-011

\* The support services and the scoring of a run of task t.
Run(t) ==
  INSTANCE TaskContract WITH
    Customers <- t.customers, Orders <- DOMAIN t.orders, Tickets <- t.tickets,
    Skus <- {t.orders[o].sku : o \in DOMAIN t.orders},
    Owner <- [o \in DOMAIN t.orders |-> t.orders[o].customer],
    Items <- [o \in DOMAIN t.orders |-> {t.orders[o].sku}],
    DaysAgo <- [o \in DOMAIN t.orders |-> t.orders[o].days],
    Total <- [o \in DOMAIN t.orders |-> t.orders[o].total],
    SeedStatus <- [o \in DOMAIN t.orders |-> t.orders[o].status],
    SeedRefunds <- t.refunds, SeedTickets <- [k \in t.tickets |-> "open"],
    ExpectedActions <- ToSet(t.expected), ForbiddenActions <- t.forbidden, ExpectedFinalState <- t.final

-----------------------------------------------------------------------------
\* The mutations

TYPO_REPLACEMENTS ==
  [Customer |-> "Custmer", damaged |-> "damagd", refund |-> "refnd", ticket |-> "tcket"]

\* Phrases and what replaces them, word by word.
PARAPHRASE_REPLACEMENTS ==
  {[phrase |-> <<"asks for a", "refund">>, as |-> <<"would like a", "refund">>],
   [phrase |-> <<"asks for a full", "refund">>, as |-> <<"would like a full", "refund">>],
   [phrase |-> <<"arrived", "damaged">>, as |-> <<"was", "damaged", "on arrival">>],
   [phrase |-> <<"wants to cancel">>, as |-> <<"would like to cancel">>],
   [phrase |-> <<"stopped working">>, as |-> <<"no longer works">>]}

Says(t, phrase) == phrase \in SubSeqs(t.input)
Reworded(t, phrase, as) == [t EXCEPT !.input = ReplaceFirstSubSeq(as, phrase, @)]

Typos(t) ==
  {Reworded(t, <<word>>, <<TYPO_REPLACEMENTS[word]>>) :
     word \in {w \in DOMAIN TYPO_REPLACEMENTS : Says(t, <<w>>)}}

\* None of DISTRACTOR_SENTENCES holds a word that another mutation looks for.
Distractions(t) == {[t EXCEPT !.input = Append(@, "distractor sentence")]}

\* Mutant: a request without an amount gets one.
ConflictsAnyway(t) == {[t EXCEPT !.stated = @ + shift] : shift \in AmountShifts}

\* The stated amount only; the state and the contract keep theirs.
Conflicts(t) ==
  {[t EXCEPT !.stated = @ + shift] : shift \in IF t.stated = NoAmount THEN {} ELSE AmountShifts}

Paraphrases(t) ==
  {Reworded(t, r.phrase, r.as) : r \in {q \in PARAPHRASE_REPLACEMENTS : Says(t, q.phrase)}}

\* A field that no service and no contract reads, in one entity of the seeded state.
Noises(t) == IF t.customers \cup DOMAIN t.orders \cup t.tickets = {} THEN {} ELSE {t}

\* "Customer CUST-..." becomes "A shopper", and looking up a made-up customer is forbidden.
Anonymous(t, c, decoy) ==
  [Reworded(t, <<"Customer", c>>, <<"A shopper">>) EXCEPT !.forbidden = @ \cup {GetCustomer(decoy)}]

Named(t) == {c \in t.customers : Says(t, <<"Customer", c>>)}
MissingCustomers(t) == {Anonymous(t, c, decoy) : c \in Named(t), decoy \in Decoys}

Refunds(t) == {i \in DOMAIN t.expected : t.expected[i].op = "create_refund"}
FullRefunds(t) ==
  {i \in Refunds(t) :
     /\ \A j \in Refunds(t) : i <= j
     /\ t.expected[i].order \in DOMAIN t.orders
     /\ "amount" \in DOMAIN t.expected[i] /\ t.expected[i].amount = t.orders[t.expected[i].order].total}

Settled(final, o, amount) ==
  {IF leaf[1] = "refunds" /\ leaf[2] = o THEN Refunded(o, amount) ELSE leaf : leaf \in final}
Raised(actions, o, from, to) == {IF a = Refund(o, from) THEN Refund(o, to) ELSE a : a \in actions}

\* Mutant: the forbidden amount stays where it was.
BoundaryGuardForgotten(t, i, shift) ==
  LET o == t.expected[i].order   old == t.orders[o].total   new == old + shift IN
  [t EXCEPT !.orders[o].total = new, !.expected[i].amount = new,
            !.final = Settled(@, o, new)]

\* Mutant: the expected final state stays what it was.
BoundaryFinalForgotten(t, i, shift) ==
  LET o == t.expected[i].order   old == t.orders[o].total   new == old + shift IN
  [t EXCEPT !.orders[o].total = new, !.expected[i].amount = new,
            !.forbidden = Raised(@, o, old + 1, new + 1)]

\* The order's total moves, and with it the expected refund, the forbidden refund of
\* a cent more, and the refund in the expected final state, whatever its amount was.
Boundary(t, i, shift) ==
  LET o == t.expected[i].order   old == t.orders[o].total   new == old + shift IN
  [t EXCEPT !.orders[o].total = new, !.expected[i].amount = new,
            !.forbidden = Raised(@, o, old + 1, new + 1),
            !.final = Settled(@, o, new)]

Boundaries(t) == {Boundary(t, i, shift) : i \in FullRefunds(t), shift \in TotalShifts}

MutationTypes ==
  {"typo_injection", "distractor_information", "conflicting_detail", "paraphrase", "tool_result_noise",
   "missing_customer_information", "boundary_refund_amount"}

\* MUTATION_REGISTRY and apply_mutation; every mutation renames what it changes.
Variants(type, t) ==
  {[v EXCEPT !.id = Append(@, type)] : v \in
     CASE type = "typo_injection" -> Typos(t)
       [] type = "distractor_information" -> Distractions(t)
       [] type = "conflicting_detail" -> Conflicts(t)
       [] type = "paraphrase" -> Paraphrases(t)
       [] type = "tool_result_noise" -> Noises(t)
       [] type = "missing_customer_information" -> MissingCustomers(t)
       [] type = "boundary_refund_amount" -> Boundaries(t)}

-----------------------------------------------------------------------------
\* compose_mutations

Init == pc = "composing" /\ parent \in SEED_TASKS /\ task = parent /\ applied = <<>>

Apply(type) ==
  /\ pc = "composing" /\ Len(applied) < MaxMutations
  /\ task' \in Variants(type, task)
  /\ applied' = Append(applied, type)
  /\ UNCHANGED <<pc, parent>>

\* Mutant: a step that cannot be applied is skipped and counted all the same.
RefuseSilently(type) ==
  /\ pc = "composing" /\ Len(applied) < MaxMutations
  /\ Variants(type, task) = {}
  /\ applied' = Append(applied, type)
  /\ UNCHANGED <<pc, parent, task>>

\* The first step whose precondition is not met ends the composition; it is named
\* in mutation_type all the same.
Refuse(type) ==
  /\ pc = "composing" /\ Len(applied) < MaxMutations
  /\ Variants(type, task) = {}
  /\ applied' = Append(applied, type)
  /\ pc' = "refused"
  /\ UNCHANGED <<parent, task>>

Finish == pc = "composing" /\ pc' = "composed" /\ UNCHANGED <<parent, task, applied>>

Next == (\E type \in MutationTypes : Apply(type) \/ Refuse(type)) \/ Finish

Spec == Init /\ [][Next]_vars

-----------------------------------------------------------------------------
\* validate_variant

VALID_SERVICE_OPERATIONS ==
  {"get_customer", "get_order", "cancel_order", "replace_item", "check_refund_policy",
   "check_replacement_policy", "create_refund", "update_ticket", "escalate_ticket"}

CONTRACT_PRESERVING_MUTATIONS ==
  {"typo_injection", "distractor_information", "conflicting_detail", "paraphrase", "tool_result_noise"}

ReferencedIdsExist(t, a) ==
  /\ "customer" \in DOMAIN a => a.customer \in t.customers
  /\ "order" \in DOMAIN a => a.order \in DOMAIN t.orders
  /\ "ticket" \in DOMAIN a => a.ticket \in t.tickets

ValidVariant ==
  /\ applied # <<>>
  /\ parent \in SEED_TASKS
  /\ task.id \notin {t.id : t \in SEED_TASKS}
  /\ \A a \in ToSet(task.expected) \cup task.forbidden : a.op \in VALID_SERVICE_OPERATIONS
  /\ \A a \in ToSet(task.expected) : ReferencedIdsExist(task, a)
  /\ ToSet(applied) \subseteq CONTRACT_PRESERVING_MUTATIONS =>
       task.expected = parent.expected /\ task.forbidden = parent.forbidden

-----------------------------------------------------------------------------
\* Properties

\* The mutations keep a task well formed for the services: every order has an owner
\* that exists and a total, its refunds are of its orders, and a dollar amount is
\* stated exactly where the seed task states one.
TypeOK ==
  /\ pc \in {"composing", "composed", "refused"} /\ parent \in SEED_TASKS
  /\ applied \in Seq(MutationTypes) /\ Len(applied) <= MaxMutations
  /\ DOMAIN task = DOMAIN parent
  /\ \A o \in DOMAIN task.orders : task.orders[o].customer \in task.customers /\ task.orders[o].total \in Nat
  /\ DOMAIN task.refunds \subseteq DOMAIN task.orders
  /\ task.stated \in Nat /\ (task.stated = NoAmount <=> parent.stated = NoAmount)

\* A call of the contract with the arguments it leaves to the agent: the requesting
\* customer is the owner of the order.
Complete(t, a) ==
  IF a.op \in {"create_refund", "cancel_order", "replace_item"}
    THEN [f \in DOMAIN a \cup {"customer"} |-> IF f = "customer" THEN t.orders[a.order].customer ELSE a[f]]
    ELSE a

Solution(t) == [i \in DOMAIN t.expected |-> Complete(t, t.expected[i])]

\* The state after each of the calls, from the seeded one, States(t, calls)[0].
States(t, calls) ==
  LET at[n \in 0..Len(calls)] ==
        IF n = 0 THEN Run(t)!SeedEnvironment ELSE Run(t)!After(at[n - 1], calls[n])
  IN at
StateAfter(t, calls) == States(t, calls)[Len(calls)]

\* README: variants are constraint-preserving.  Whatever was composed, the task can
\* still be passed, by the agent that makes the expected calls in their order: the
\* services accept each of them, none is forbidden, and they lead to the expected state.
StillSolvable ==
  LET calls == Solution(task) IN
  /\ \A i \in DOMAIN calls : Run(task)!Outcome(States(task, calls)[i - 1], calls[i]) = "ok"
  /\ Run(task)!MeetsContract(Run(task)!Score(ToSet(calls), StateAfter(task, calls)))

\* A refund that the seed task's contract guards at the order's total is guarded at the
\* variant's total: the first amount that the services refuse is a forbidden action
\* and no amount that they allow is one.
RefundGuardedAtItsLimit ==
  \A o \in DOMAIN parent.orders :
    Refund(o, parent.orders[o].total + 1) \in parent.forbidden =>
      /\ Refund(o, task.orders[o].total + 1) \in task.forbidden
      /\ \A a \in task.forbidden :
           a.op = "create_refund" /\ a.order = o => "amount" \in DOMAIN a /\ a.amount > task.orders[o].total

\* Whatever compose_mutations makes of a seed task is a variant validate_variant
\* accepts (roadmap, issue 12), as long as anything was applied at all.
ComposedVariantsAreValid == pc = "composed" /\ applied # <<>> => ValidVariant
=============================================================================
