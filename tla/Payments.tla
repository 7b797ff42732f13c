------------------------------- MODULE Payments -------------------------------
(***************************************************************************)
(* The payment service (apps/api/src/modules/payments/payments.service.ts) *)
(* over the Payment, PaymentTransaction, ProcessedWebhook and Order tables. *)
(* Providers are outside: they deliver every callback at least once, in    *)
(* any order, several at a time, until they are answered.  What a callback *)
(* means - its key, payment, intent and amount - is what the adapters of   *)
(* packages/payments make of it.  A step is what a handler does between    *)
(* two points where the committed work of another can come in; a           *)
(* transaction (READ COMMITTED) that nobody can look into writes in the    *)
(* step that commits it.                                                   *)
(***************************************************************************)
EXTENDS OrderPipeline, PaymentStates, Naturals, Sequences, FiniteSets

CONSTANTS
  Handlers,    \* request handlers of the API processes
  Orders,
  Payments,    \* ids of Payment rows
  Keys,        \* deduplication keys, "<provider>:<idempotencyKey>"
  Externals,   \* the provider's own transaction ids
  CashKey,     \* stands for both at the counter, where there is neither
  Webhooks,    \* the callbacks providers may send
  OrderTotal,  \* Orders -> minor units
  StaffMoves   \* the statuses staff may give an order

Webhook == [key : Keys, payment : Payments, externalId : Externals,
            intent : Intents, amount : Nat]

\* What is assumed of the constants, wherever they are given values.
PaymentsAssumption ==
  /\ Orders # {} /\ Payments # {} /\ Webhooks # {}
  /\ CashKey \notin Keys \cup Externals
  /\ Webhooks \subseteq Webhook
  /\ \A v, w \in Webhooks : v.key = w.key => v = w
  /\ OrderTotal \in [Orders -> Nat \ {0}]
  /\ StaffMoves \subseteq OrderStatuses

VARIABLES
  order,       \* Orders -> [status, paymentStatus]
  payment,     \* Payment rows: [state, order, provider]
  ledger,      \* PaymentTransaction, per payment in insertion order
  processed,   \* keys of ProcessedWebhook
  answered,    \* callbacks whose handler has returned a 2xx reply
  req,         \* what each handler is doing
  raced        \* keys of refunds let through next to another of their payment

vars == <<order, payment, ledger, processed, answered, req, raced>>

-----------------------------------------------------------------------------
NoRow == "ABSENT"

PaymentStatuses == {"UNPAID", "PENDING", "PAID", "FAILED", "REFUNDED", "PARTIALLY_REFUNDED"}

OrderRow == [status : OrderStatuses, paymentStatus : PaymentStatuses]

\* Cash has no callbacks; the other adapters are alike here.
Providers == {"cash", "online"}

PaymentRow == [state : States \cup {NoRow}, order : Orders, provider : Providers]

Exists(p) == payment[p].state # NoRow

Total(p) == OrderTotal[payment[p].order]

\* The intent itself is in rawPayload; the row's externalId is its last entry's.
Entry == [key : Keys \cup {CashKey}, externalId : Externals \cup {CashKey},
          intent : Intents, amount : Nat]

ExternalId(p) == ledger[p][Len(ledger[p])].externalId

\* A mistake the checks must catch: a failed payment leaves the order as it was.
OrderAfterPaidOnly(row, intent, amount, total) ==
  IF intent = "mark_paid" THEN [row EXCEPT !.paymentStatus = "PAID", !.status = "ACCEPTED"]
  ELSE row

\* What an applied intent writes to its order, whatever the order has become.
OrderAfter(row, intent, amount, total) ==
  CASE intent = "mark_paid" ->
         [row EXCEPT !.paymentStatus = "PAID", !.status = "ACCEPTED"]
    [] intent \in {"mark_failed", "mark_cancelled"} ->
         [row EXCEPT !.paymentStatus = "FAILED"]
    [] intent = "mark_refunded" ->
         [row EXCEPT !.paymentStatus =
            IF amount >= total THEN "REFUNDED" ELSE "PARTIALLY_REFUNDED"]
    [] OTHER -> row

AmountMatches(p, intent, amount) == intent = "mark_paid" => amount = Total(p)

-----------------------------------------------------------------------------
(* Handlers. *)

Pcs == {"idle",
        "insert", "apply", "write",     \* handleWebhook
        "create", "publish",            \* createForOrder
        "cash", "settle",               \* markCashPaid
        "status"}                       \* the order service's updateStatus

Request == [pc : Pcs, webhook : Webhooks, payment : Payments, order : Orders,
            provider : Providers, next : OrderStatuses]

Idle == [pc |-> "idle", webhook |-> CHOOSE w \in Webhooks : TRUE,
         payment |-> CHOOSE p \in Payments : TRUE, order |-> CHOOSE o \in Orders : TRUE,
         provider |-> "online", next |-> "NEW"]

Begin(h, r) == req[h].pc = "idle" /\ req' = [req EXCEPT ![h] = r]

Goto(h, pc) == req' = [req EXCEPT ![h].pc = pc]

Finish(h) == req' = [req EXCEPT ![h] = Idle]

\* The client learns of a payment, and hands it to the provider, when
\* createForOrder returns.
Published(p) ==
  /\ Exists(p)
  /\ \A h \in Handlers : ~(req[h].pc = "publish" /\ req[h].payment = p)

\* The transaction of h has inserted the key and neither committed nor aborted.
InFlight(h, key) == req[h].pc \in {"apply", "write"} /\ req[h].webhook.key = key

Init ==
  /\ order = [o \in Orders |-> [status |-> "NEW", paymentStatus |-> "UNPAID"]]
  /\ payment = [p \in Payments |->
                  [state |-> NoRow, order |-> Idle.order, provider |-> "online"]]
  /\ ledger = [p \in Payments |-> <<>>]
  /\ processed = {}
  /\ answered = {}
  /\ req = [h \in Handlers |-> Idle]
  /\ raced = {}

-----------------------------------------------------------------------------
(***************************************************************************)
(* createForOrder.                                                         *)
(***************************************************************************)
CheckUnpaid(h, o, provider) ==
  /\ order[o].paymentStatus # "PAID"
  /\ Begin(h, [Idle EXCEPT !.pc = "create", !.order = o, !.provider = provider])
  /\ UNCHANGED <<order, payment, ledger, processed, answered, raced>>

CreatePayment(h, p) ==
  LET q == req[h] IN
  /\ q.pc = "create"
  /\ ~Exists(p)
  /\ payment' = [payment EXCEPT ![p] =
                   [state |-> "PENDING", order |-> q.order, provider |-> q.provider]]
  /\ req' = [req EXCEPT ![h].pc = "publish", ![h].payment = p]
  /\ UNCHANGED <<order, ledger, processed, answered, raced>>

\* The provider's reply is stored; no shipped provider settles at once, so the
\* state is written as PENDING again.
PublishPayment(h) ==
  /\ req[h].pc = "publish"
  /\ payment' = [payment EXCEPT ![req[h].payment].state = "PENDING"]
  /\ Finish(h)
  /\ UNCHANGED <<order, ledger, processed, answered, raced>>

(***************************************************************************)
(* handleWebhook.  A callback that cannot be verified, names no payment of *)
(* ours, or is already recorded changes nothing and is no step.            *)
(***************************************************************************)
ReceiveWebhook(h, w) ==
  /\ Published(w.payment) /\ payment[w.payment].provider = "online"
  /\ w.key \notin processed
  /\ Begin(h, [Idle EXCEPT !.pc = "insert", !.webhook = w])
  /\ UNCHANGED <<order, payment, ledger, processed, answered, raced>>

\* A mistake the checks must catch: a copy of a callback that is being handled
\* is answered at once.
InsertKeyEagerly(h) ==
  LET w == req[h].webhook
      taken == w.key \in processed \/ \E g \in Handlers : g # h /\ InFlight(g, w.key)
  IN
  /\ req[h].pc = "insert"
  /\ IF taken
     THEN answered' = answered \cup {w} /\ Finish(h)
     ELSE Goto(h, "apply") /\ UNCHANGED answered
  /\ UNCHANGED <<order, payment, ledger, processed, raced>>

\* A mistake the checks must catch: nothing stops a second copy.
InsertKeyUnchecked(h) ==
  /\ req[h].pc = "insert"
  /\ Goto(h, "apply")
  /\ UNCHANGED <<order, payment, ledger, processed, answered, raced>>

\* The insert of the ProcessedWebhook row waits for a transaction that has
\* inserted the same key; if that one commits, the unique index refuses this
\* one, and the callback is answered as handled.
InsertKey(h) ==
  LET w == req[h].webhook IN
  /\ req[h].pc = "insert"
  /\ \A g \in Handlers \ {h} : ~InFlight(g, w.key)
  /\ IF w.key \in processed
     THEN answered' = answered \cup {w} /\ Finish(h)
     ELSE Goto(h, "apply") /\ UNCHANGED answered
  /\ UNCHANGED <<order, payment, ledger, processed, raced>>

Commit(w) == processed' = processed \cup {w.key} /\ answered' = answered \cup {w}

\* A mistake the checks must catch: a state that is repeated is applied again.
AppliesAgain(p, intent) ==
  StateFor(intent) \cap (ALLOWED_TRANSITIONS[payment[p].state]
                           \cup ({payment[p].state} \ {"PENDING"})) # {}

\* Whether an intent moves the payment: it is void, repeats the state or may not
\* follow it otherwise.
Applies(p, intent) == StateFor(intent) \cap ALLOWED_TRANSITIONS[payment[p].state] # {}

\* The handlers that are about to write a refund of p.
Refunding(p) ==
  { h \in Handlers : /\ req[h].pc = "write" /\ req[h].webhook.payment = p
                     /\ req[h].webhook.intent = "mark_refunded" }

\* applyIntentInTransaction up to the write: an intent that does not move the
\* payment commits the key alone.  A wrong amount is thrown, once it is in the
\* audit log: the transaction rolls back, FAILED state and all.
ApplyIntent(h) ==
  LET w == req[h].webhook
      p == w.payment
  IN
  /\ req[h].pc = "apply"
  /\ \/ /\ ~Applies(p, w.intent)
        /\ Commit(w) /\ Finish(h) /\ UNCHANGED raced
     \/ /\ Applies(p, w.intent) /\ ~AmountMatches(p, w.intent, w.amount)
        /\ Finish(h) /\ UNCHANGED <<processed, answered, raced>>
     \/ /\ Applies(p, w.intent) /\ AmountMatches(p, w.intent, w.amount)
        /\ raced' = IF w.intent = "mark_refunded" /\ Refunding(p) # {}
                    THEN raced \cup {w.key} ELSE raced \ {w.key}
        /\ Goto(h, "write") /\ UNCHANGED <<processed, answered>>
  /\ UNCHANGED <<order, payment, ledger>>

\* Payment p takes the intent: its state, its ledger and its order's columns.
\* The updates name rows, not the state that was read.
Settle(p, key, externalId, intent, amount) ==
  /\ payment' = [payment EXCEPT ![p].state = CHOOSE s \in StateFor(intent) : TRUE]
  /\ ledger' = [ledger EXCEPT ![p] =
                  Append(@, [key |-> key, externalId |-> externalId,
                             intent |-> intent, amount |-> amount])]
  /\ order' = [order EXCEPT ![payment[p].order] =
                 OrderAfter(@, intent, amount, Total(p))]

\* payment_refund_within_amount: the row refuses a refund above its amount.
RefundRefused(w) == w.intent = "mark_refunded" /\ w.amount > Total(w.payment)

\* (provider, externalId) is unique: another payment has this transaction.
HeldElsewhere(w) ==
  \E q \in Payments \ {w.payment} : ledger[q] # <<>> /\ ExternalId(q) = w.externalId

\* A write that the row refuses fails the transaction, and the callback with it;
\* one that a unique index refuses is taken for the repetition of a callback,
\* and answered as handled.
WriteIntent(h) ==
  LET w == req[h].webhook IN
  /\ req[h].pc = "write"
  /\ \/ /\ RefundRefused(w)
        /\ UNCHANGED <<order, payment, ledger, processed, answered>>
     \/ /\ ~RefundRefused(w) /\ HeldElsewhere(w)
        /\ answered' = answered \cup {w}
        /\ UNCHANGED <<order, payment, ledger, processed>>
     \/ /\ ~RefundRefused(w) /\ ~HeldElsewhere(w)
        /\ Settle(w.payment, w.key, w.externalId, w.intent, w.amount) /\ Commit(w)
  /\ Finish(h)
  /\ UNCHANGED raced

(***************************************************************************)
(* markCashPaid: a check, a new row, and its settlement in a transaction   *)
(* of its own.  Nobody else ever touches that row.                         *)
(***************************************************************************)
CheckCash(h, o) ==
  /\ order[o].paymentStatus # "PAID"
  /\ Begin(h, [Idle EXCEPT !.pc = "cash", !.order = o])
  /\ UNCHANGED <<order, payment, ledger, processed, answered, raced>>

CreateCash(h, p) ==
  /\ req[h].pc = "cash"
  /\ ~Exists(p)
  /\ payment' = [payment EXCEPT ![p] =
                   [state |-> "PENDING", order |-> req[h].order, provider |-> "cash"]]
  /\ req' = [req EXCEPT ![h].pc = "settle", ![h].payment = p]
  /\ UNCHANGED <<order, ledger, processed, answered, raced>>

SettleCash(h) ==
  LET p == req[h].payment IN
  /\ req[h].pc = "settle"
  /\ Settle(p, CashKey, CashKey, "mark_paid", Total(p))
  /\ Finish(h)
  /\ UNCHANGED <<processed, answered, raced>>

(***************************************************************************)
(* The order service's updateStatus, as far as the status goes: a read     *)
(* that decides and a write that names the row.                            *)
(***************************************************************************)
ReadForStatus(h, o, next) ==
  /\ next \in DEFAULT_PIPELINE[order[o].status]
  /\ Begin(h, [Idle EXCEPT !.pc = "status", !.order = o, !.next = next])
  /\ UNCHANGED <<order, payment, ledger, processed, answered, raced>>

WriteStatus(h) ==
  /\ req[h].pc = "status"
  /\ order' = [order EXCEPT ![req[h].order].status = req[h].next]
  /\ Finish(h)
  /\ UNCHANGED <<payment, ledger, processed, answered, raced>>

\* A handler dies, or its transaction times out; what it has committed stays.
Abort(h) ==
  /\ req[h].pc # "idle"
  /\ Finish(h)
  /\ UNCHANGED <<order, payment, ledger, processed, answered, raced>>

Next ==
  \E h \in Handlers :
    \/ \E o \in Orders, provider \in Providers : CheckUnpaid(h, o, provider)
    \/ \E p \in Payments : CreatePayment(h, p)
    \/ PublishPayment(h)
    \/ \E w \in Webhooks : ReceiveWebhook(h, w)
    \/ InsertKey(h)
    \/ ApplyIntent(h)
    \/ WriteIntent(h)
    \/ \E o \in Orders : CheckCash(h, o)
    \/ \E p \in Payments : CreateCash(h, p)
    \/ SettleCash(h)
    \/ \E o \in Orders, next \in StaffMoves : ReadForStatus(h, o, next)
    \/ WriteStatus(h)
    \/ Abort(h)

Spec == Init /\ [][Next]_vars

-----------------------------------------------------------------------------
(* Properties. *)

\* The shape of the state.
TypeOK ==
  /\ order \in [Orders -> OrderRow]
  /\ payment \in [Payments -> PaymentRow]
  /\ ledger \in [Payments -> Seq(Entry)]
  /\ processed \subseteq Keys
  /\ answered \subseteq Webhooks
  /\ req \in [Handlers -> Request]
  /\ raced \subseteq Keys

\* A provider stops delivering what was answered, so a 2xx reply must mean that
\* the callback is on record - also the reply to a copy that lost the race to
\* one still in its transaction, which may yet roll back - or that the provider's
\* transaction is in the ledger of another payment.
AnsweredIsDurable ==
  \A w \in answered :
    \/ w.key \in processed
    \/ \E q \in Payments \ {w.payment} :
         \E i \in DOMAIN ledger[q] : ledger[q][i].externalId = w.externalId

\* What an order says of its payment follows from its payments: PAID has a paid
\* payment behind it, and UNPAID means that nothing has happened to any.
OrderReflectsPayments ==
  \A o \in Orders :
    LET own == { p \in Payments : Exists(p) /\ payment[p].order = o } IN
    /\ order[o].paymentStatus = "PAID" => \E p \in own : payment[p].state = "PAID"
    /\ order[o].paymentStatus = "UNPAID" => \A p \in own : ledger[p] = <<>>

\* The entries of p by which money came in, and by which it went back one
\* refund at a time.
Receipts(p) == { i \in DOMAIN ledger[p] : ledger[p][i].intent = "mark_paid" }

Refunds(p) ==
  { i \in DOMAIN ledger[p] : ledger[p][i].intent = "mark_refunded" /\ ledger[p][i].key \notin raced }

\* No more money goes back than came in, however callbacks are reordered: a
\* refund comes after a receipt, none is larger than any receipt, and there are
\* no more refunds than receipts, so their sum is no larger either.  The last
\* does not count a refund that was let through while another of the payment was
\* about to be written: both then read PAID, and both are in the ledger.
RefundsAreCovered ==
  \A p \in Payments :
    /\ \A i \in DOMAIN ledger[p] : ledger[p][i].intent = "mark_refunded" =>
         /\ \E j \in Receipts(p) : j < i
         /\ \A j \in Receipts(p) : ledger[p][i].amount <= ledger[p][j].amount
    /\ Cardinality(Refunds(p)) <= Cardinality(Receipts(p))

\* I4: "a payment webhook replay changes nothing".  The ledger entries of a key.
EntriesOf(k) ==
  Cardinality(UNION { { <<p, i>> : i \in { j \in DOMAIN ledger[p] : ledger[p][j].key = k } } :
                      p \in Payments })

Replay == INSTANCE Inbox
  WITH Key <- Keys, done <- processed, effects <- [k \in Keys |-> EntriesOf(k)]

\* Every callback is recorded once, with its one effect in the same commit.
ImplementsInbox == Replay!Spec
=============================================================================
