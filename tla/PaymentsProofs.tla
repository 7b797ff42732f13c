--------------------------- MODULE PaymentsProofs ---------------------------
(***************************************************************************)
(* Proofs about Payments and Gateways, for every set of handlers, orders,  *)
(* payments and callbacks, and every price and amount.  The two share no   *)
(* state, so the inductive invariant is one part for each:                 *)
(*   Payments: one handler at most is in the transaction of a key, which   *)
(*     is not on record yet (OneAtWork); a payment that is PAID has its    *)
(*     settlement in the ledger (RowsFit); what a handler has read still   *)
(*     stands where its write relies on it (RequestsFit); and a refund     *)
(*     that is alone has a receipt of its own (NoMoreOut);                 *)
(*   Gateways: what a call about money that is on record, or was answered, *)
(*     has done to the ledger (Settled).                                   *)
(* The refinement of Inbox rests on the first part.                        *)
(***************************************************************************)
EXTENDS MCPayments, FiniteSetTheorems, SequenceTheorems, TLAPS

-----------------------------------------------------------------------------
(* Payments. *)

\* A handler in a transaction that has inserted its key.
Working(h) == req[h].pc \in {"apply", "write"}

\* A key has one transaction at most, and none any more when it is on record.
OneAtWork ==
  \A h \in Handlers : Working(h) =>
    /\ req[h].webhook.key \notin processed
    /\ \A g \in Handlers : Working(g) /\ req[g].webhook.key = req[h].webhook.key => g = h

\* The ledger of p has the settlement of its full amount.
PaidInFull(p) ==
  \E j \in DOMAIN ledger[p] : ledger[p][j].intent = "mark_paid" /\ ledger[p][j].amount = P!Total(p)

\* The rows a refund may be applied to were paid; there is no ledger without a row.
RowsFit ==
  \A p \in Payments :
    /\ payment[p].state \in {"PAID", "PARTIALLY_REFUNDED"} => PaidInFull(p)
    /\ ~P!Exists(p) => ledger[p] = <<>>

\* The intents that move a payment, applied with this amount, fit payment p.
IntentFits(p, intent, paid) ==
  /\ intent \in {"mark_paid", "mark_failed", "mark_cancelled", "mark_refunded"}
  /\ intent = "mark_paid" => paid = P!Total(p)
  /\ intent = "mark_refunded" => PaidInFull(p)

\* What a handler's next step relies on.
RequestFits(q) ==
  /\ q.pc \in {"insert", "apply", "write"} => P!Published(q.webhook.payment)
  /\ q.pc = "write" => IntentFits(q.webhook.payment, q.webhook.intent, q.webhook.amount)
  /\ q.pc = "publish" => P!Exists(q.payment) /\ payment[q.payment].state = "PENDING"
  /\ q.pc = "settle" => P!Published(q.payment)

RequestsFit == \A h \in Handlers : RequestFits(req[h])

\* A refund follows a receipt of at least its amount.
RefundFollows ==
  \A p \in Payments : \A i \in DOMAIN ledger[p] :
    ledger[p][i].intent = "mark_refunded" =>
      \E j \in 1 .. (i - 1) : /\ ledger[p][j].intent = "mark_paid"
                               /\ ledger[p][j].amount >= ledger[p][i].amount

PaymentsInv ==
  /\ P!TypeOK /\ OneAtWork /\ RowsFit /\ RequestsFit
  /\ P!AnsweredIsDurable /\ P!OrderReflectsPayments /\ RefundFollows

-----------------------------------------------------------------------------
(* Facts about the operators. *)

\* What appending does to a sequence, index by index.
LEMMA AppendFacts ==
  ASSUME NEW S, NEW s \in Seq(S), NEW e \in S
  PROVE  /\ Append(s, e) \in Seq(S)
         /\ DOMAIN Append(s, e) = DOMAIN s \cup {Len(s) + 1}
         /\ \A i \in DOMAIN s : Append(s, e)[i] = s[i] /\ i \in Nat /\ i <= Len(s)
         /\ Append(s, e)[Len(s) + 1] = e
         /\ Len(s) \in Nat
OBVIOUS

\* An idle handler has a request like any other.
LEMMA IdleFacts == P!Idle \in P!Request /\ P!Idle.pc = "idle" /\ P!Idle.order \in Orders
BY ConstantsAssumption DEF P!Idle, P!Request, P!PaymentsAssumption, P!Pcs, P!Providers, P!OrderStatuses

\* The totals of orders and payments are amounts.
LEMMA TotalFacts ==
  ASSUME P!TypeOK, NEW p \in Payments
  PROVE  P!Total(p) \in Nat /\ P!Total(p) > 0 /\ payment[p].order \in Orders
BY ConstantsAssumption DEF P!TypeOK, P!Total, P!PaymentRow, P!PaymentsAssumption

\* What the callbacks carry.
LEMMA WebhookFacts ==
  ASSUME P!TypeOK, NEW h \in Handlers
  PROVE  /\ req[h] \in P!Request /\ req[h].webhook.externalId \in Externals
         /\ req[h].webhook \in Webhooks /\ req[h].webhook.key \in Keys
         /\ req[h].webhook.payment \in Payments /\ req[h].webhook.intent \in P!Intents
         /\ req[h].webhook.amount \in Nat
         /\ req[h].payment \in Payments /\ req[h].order \in Orders
BY ConstantsAssumption DEF P!TypeOK, P!Request, P!PaymentsAssumption, P!Webhook

-----------------------------------------------------------------------------
(* Steps that only change what a handler is doing. *)

\* What a handler relies on survives steps that keep the rows it relies on.
LEMMA RequestFrame ==
  ASSUME P!TypeOK, NEW g \in Handlers, RequestFits(req[g]), req'[g] = req[g],
         \A p \in Payments : P!Published(p) => P!Published(p)' /\ P!Total(p)' = P!Total(p),
         \A p \in Payments : P!Published(p) /\ PaidInFull(p) => PaidInFull(p)',
         \A p \in Payments : P!Exists(p) /\ ~P!Published(p) =>
            P!Exists(p)' /\ payment'[p].state = payment[p].state
  PROVE  RequestFits(req[g])'
<1>1. req[g].pc = "publish" => ~P!Published(req[g].payment)
  BY DEF P!Published
<1> QED
  BY <1>1, WebhookFacts DEF RequestFits, IntentFits

\* A handler that is done, and may have committed its key, leaves the others' alone.
LEMMA FinishKeeps ==
  ASSUME P!TypeOK, OneAtWork, NEW h \in Handlers, P!Finish(h),
         \/ UNCHANGED processed
         \/ Working(h) /\ processed' = processed \cup {req[h].webhook.key}
  PROVE  /\ req' \in [Handlers -> P!Request]
         /\ \A g \in Handlers : req'[g] = IF g = h THEN P!Idle ELSE req[g]
         /\ \A p : P!Published(p) /\ P!Exists(p)' => P!Published(p)'
         /\ OneAtWork'
<1>1. \A g \in Handlers : req'[g] = IF g = h THEN P!Idle ELSE req[g]
  BY DEF P!TypeOK, P!Finish
<1>2. req' \in [Handlers -> P!Request]
  BY IdleFacts DEF P!TypeOK, P!Finish
<1>3. \A p : P!Published(p) /\ P!Exists(p)' => P!Published(p)'
  BY <1>1, IdleFacts DEF P!Published
<1>4. OneAtWork'
  BY <1>1, IdleFacts DEF OneAtWork, Working
<1> QED
  BY <1>1, <1>2, <1>3, <1>4

\* A step that only gives h another request, which fits.
LEMMA RequestStep ==
  ASSUME PaymentsInv, NEW h \in Handlers, NEW r \in P!Request, req' = [req EXCEPT ![h] = r],
         r.pc # "publish", RequestFits(r),
         r.pc \in {"apply", "write"} =>
           /\ r.webhook.key \notin processed
           /\ \A g \in Handlers \ {h} : ~P!InFlight(g, r.webhook.key),
         UNCHANGED <<order, payment, ledger, processed>>
  PROVE  /\ req' \in [Handlers -> P!Request]
         /\ OneAtWork' /\ RowsFit' /\ RequestsFit'
         /\ P!OrderReflectsPayments' /\ RefundFollows'
<1>1. /\ req' \in [Handlers -> P!Request]
      /\ \A g \in Handlers : req'[g] = IF g = h THEN r ELSE req[g]
  BY DEF PaymentsInv, P!TypeOK
<1>2. \A p : P!Published(p) => P!Published(p)'
  BY <1>1 DEF P!Published, P!Exists
<1>3. OneAtWork'
  <2> SUFFICES ASSUME NEW g \in Handlers, Working(g)'
               PROVE  /\ req'[g].webhook.key \notin processed'
                      /\ \A f \in Handlers : Working(f)' /\ req'[f].webhook.key = req'[g].webhook.key => f = g
    BY DEF OneAtWork
  <2> QED
    BY <1>1 DEF PaymentsInv, OneAtWork, Working, P!InFlight
<1>4. \A p : P!Total(p)' = P!Total(p) /\ PaidInFull(p)' = PaidInFull(p) /\ P!Exists(p)' = P!Exists(p)
  BY DEF P!Total, PaidInFull, P!Exists
<1>5. RequestsFit'
  <2> SUFFICES ASSUME NEW g \in Handlers PROVE RequestFits(req[g])'
    BY DEF RequestsFit
  <2>1. CASE g = h
    BY <1>1, <1>2, <1>4, <2>1 DEF RequestFits, IntentFits
  <2>2. CASE g # h
    <3>1. RequestFits(req[g]) /\ req'[g] = req[g]
      BY <1>1, <2>2 DEF PaymentsInv, RequestsFit
    <3> QED
      BY <1>2, <1>4, <3>1, RequestFrame DEF PaymentsInv
  <2> QED
    BY <2>1, <2>2
<1>6. RowsFit' /\ P!OrderReflectsPayments' /\ RefundFollows'
  BY <1>4 DEF PaymentsInv, RowsFit, P!OrderReflectsPayments, RefundFollows, P!Exists
<1> QED
  BY <1>1, <1>3, <1>5, <1>6

\* A step that lets h give up or finish without touching the rows.
LEMMA DoneStep ==
  ASSUME PaymentsInv, NEW h \in Handlers, P!Finish(h),
         \/ UNCHANGED processed
         \/ Working(h) /\ processed' = processed \cup {req[h].webhook.key},
         \A o \in Orders : order'[o].paymentStatus = order[o].paymentStatus,
         UNCHANGED <<payment, ledger>>
  PROVE  /\ req' \in [Handlers -> P!Request]
         /\ OneAtWork' /\ RowsFit' /\ RequestsFit'
         /\ P!OrderReflectsPayments' /\ RefundFollows'
<1>1. /\ req' \in [Handlers -> P!Request]
      /\ \A g \in Handlers : req'[g] = IF g = h THEN P!Idle ELSE req[g]
      /\ \A p : P!Published(p) /\ P!Exists(p)' => P!Published(p)'
      /\ OneAtWork'
  BY FinishKeeps DEF PaymentsInv
<1>2. \A p : P!Published(p) => P!Published(p)'
  BY <1>1 DEF P!Published, P!Exists
<1>4. \A p : P!Total(p)' = P!Total(p) /\ PaidInFull(p)' = PaidInFull(p) /\ P!Exists(p)' = P!Exists(p)
  BY DEF P!Total, PaidInFull, P!Exists
<1>5. RequestsFit'
  <2> SUFFICES ASSUME NEW g \in Handlers PROVE RequestFits(req[g])'
    BY DEF RequestsFit
  <2>1. CASE g = h
    BY <1>1, <2>1, IdleFacts DEF RequestFits
  <2>2. CASE g # h
    <3>1. RequestFits(req[g]) /\ req'[g] = req[g]
      BY <1>1, <2>2 DEF PaymentsInv, RequestsFit
    <3> QED
      BY <1>2, <1>4, <3>1, RequestFrame DEF PaymentsInv
  <2> QED
    BY <2>1, <2>2
<1>6. RowsFit' /\ P!OrderReflectsPayments' /\ RefundFollows'
  BY <1>4 DEF PaymentsInv, RowsFit, P!OrderReflectsPayments, RefundFollows, P!Exists
<1> QED
  BY <1>1, <1>5, <1>6

-----------------------------------------------------------------------------
(* Steps that settle, create and publish. *)

\* A step takes nothing from the ledger.
LedgerGrows ==
  \A q \in Payments : \A i \in DOMAIN ledger[q] :
    i \in DOMAIN ledger'[q] /\ ledger'[q][i] = ledger[q][i]

\* So what was answered stays on record.
LEMMA AnsweredStays ==
  ASSUME P!AnsweredIsDurable, LedgerGrows, processed \subseteq processed',
         \A w \in answered' \ answered :
           \/ w.key \in processed'
           \/ \E q \in Payments \ {w.payment} :
                \E i \in DOMAIN ledger'[q] : ledger'[q][i].externalId = w.externalId
  PROVE  P!AnsweredIsDurable'
<1> SUFFICES ASSUME NEW w \in answered'
             PROVE  \/ w.key \in processed'
                    \/ \E q \in Payments \ {w.payment} :
                         \E i \in DOMAIN ledger'[q] : ledger'[q][i].externalId = w.externalId
  BY DEF P!AnsweredIsDurable
<1>1. CASE w \in answered /\ w.key \notin processed
  <2>1. PICK q \in Payments \ {w.payment} : \E i \in DOMAIN ledger[q] : ledger[q][i].externalId = w.externalId
    BY <1>1 DEF P!AnsweredIsDurable
  <2> QED
    BY <2>1 DEF LedgerGrows
<1> QED
  BY <1>1

\* In particular when nothing happens to what it is recorded in.
LEMMA AnsweredRest ==
  ASSUME P!AnsweredIsDurable, UNCHANGED <<ledger, processed, answered>>
  PROVE  P!AnsweredIsDurable'
<1>1. LedgerGrows
  BY DEF LedgerGrows
<1> QED
  BY <1>1, AnsweredStays

\* What settling changes: one row's state, an entry more in its ledger, and the
\* columns of its order.
LEMMA SettleFacts ==
  ASSUME P!TypeOK, NEW p \in Payments, NEW key \in Keys \cup {CashKey}, NEW intent, NEW paid \in Nat,
         NEW ext \in Externals \cup {CashKey}, IntentFits(p, intent, paid), P!Settle(p, key, ext, intent, paid)
  PROVE  /\ order' \in [Orders -> P!OrderRow] /\ payment' \in [Payments -> P!PaymentRow]
         /\ ledger' \in [Payments -> Seq(P!Entry)]
         /\ payment'[p].state \in {"PAID", "FAILED", "CANCELLED", "REFUNDED"}
         /\ payment'[p].state = "PAID" <=> intent = "mark_paid"
         /\ \A q \in Payments : payment'[q].order = payment[q].order
         /\ \A q \in Payments \ {p} : payment'[q] = payment[q] /\ ledger'[q] = ledger[q]
         /\ ledger'[p] = Append(ledger[p], [key |-> key, externalId |-> ext, intent |-> intent, amount |-> paid])
         /\ [key |-> key, externalId |-> ext, intent |-> intent, amount |-> paid] \in P!Entry
         /\ \A o \in Orders \ {payment[p].order} : order'[o] = order[o]
         /\ order'[payment[p].order].paymentStatus # "UNPAID"
         /\ order'[payment[p].order].paymentStatus = "PAID" <=> intent = "mark_paid"
<1> DEFINE st == CHOOSE s \in P!StateFor(intent) : TRUE
<1>1. st \in {"PAID", "FAILED", "CANCELLED", "REFUNDED"} /\ (st = "PAID" <=> intent = "mark_paid")
  BY DEF IntentFits, P!StateFor
<1>2. /\ payment' = [payment EXCEPT ![p].state = st]
      /\ ledger' = [ledger EXCEPT ![p] =
                      Append(ledger[p], [key |-> key, externalId |-> ext, intent |-> intent, amount |-> paid])]
      /\ order' = [order EXCEPT ![payment[p].order] =
                     P!OrderAfter(order[payment[p].order], intent, paid, P!Total(p))]
  BY DEF P!Settle
<1> HIDE DEF st
<1>3. [key |-> key, externalId |-> ext, intent |-> intent, amount |-> paid] \in P!Entry
  BY DEF P!Entry, IntentFits, P!Intents
<1>4. payment[p] \in P!PaymentRow /\ payment[p].order \in Orders
  BY DEF P!TypeOK, P!PaymentRow
<1>5. [payment[p] EXCEPT !.state = st] \in P!PaymentRow
  BY <1>1, <1>4 DEF P!PaymentRow, P!States
<1>6. payment' = [payment EXCEPT ![p] = [payment[p] EXCEPT !.state = st]]
  BY <1>2 DEF P!TypeOK
<1>7. /\ payment' \in [Payments -> P!PaymentRow]
      /\ \A q \in Payments \ {p} : payment'[q] = payment[q]
      /\ payment'[p] = [payment[p] EXCEPT !.state = st]
  BY <1>5, <1>6 DEF P!TypeOK
<1>8. payment'[p].state = st /\ \A q \in Payments : payment'[q].order = payment[q].order
  BY <1>7, <1>4 DEF P!PaymentRow
<1>9. /\ ledger' \in [Payments -> Seq(P!Entry)]
      /\ \A q \in Payments \ {p} : ledger'[q] = ledger[q]
      /\ ledger'[p] = Append(ledger[p], [key |-> key, externalId |-> ext, intent |-> intent, amount |-> paid])
  BY <1>2, <1>3, AppendFacts DEF P!TypeOK
<1>10. order[payment[p].order] \in P!OrderRow
  BY <1>4 DEF P!TypeOK
<1>11. \A total \in Nat, row \in P!OrderRow :
         LET after == P!OrderAfter(row, intent, paid, total) IN
         /\ after \in P!OrderRow /\ after.paymentStatus # "UNPAID"
         /\ after.paymentStatus = "PAID" <=> intent = "mark_paid"
  <2> SUFFICES ASSUME NEW total \in Nat, NEW row \in P!OrderRow
               PROVE  LET after == P!OrderAfter(row, intent, paid, total) IN
                      /\ after \in P!OrderRow /\ after.paymentStatus # "UNPAID"
                      /\ after.paymentStatus = "PAID" <=> intent = "mark_paid"
    OBVIOUS
  <2>1. CASE intent = "mark_paid"
    BY <2>1 DEF P!OrderAfter, P!OrderRow, P!OrderStatuses, P!PaymentStatuses
  <2>2. CASE intent \in {"mark_failed", "mark_cancelled"}
    BY <2>2 DEF P!OrderAfter, P!OrderRow, P!OrderStatuses, P!PaymentStatuses
  <2>3. CASE intent = "mark_refunded"
    BY <2>3 DEF P!OrderAfter, P!OrderRow, P!OrderStatuses, P!PaymentStatuses
  <2> QED
    BY <2>1, <2>2, <2>3 DEF IntentFits
<1>12. /\ order' \in [Orders -> P!OrderRow]
       /\ \A o \in Orders \ {payment[p].order} : order'[o] = order[o]
       /\ order'[payment[p].order].paymentStatus # "UNPAID"
       /\ order'[payment[p].order].paymentStatus = "PAID" <=> intent = "mark_paid"
  BY <1>2, <1>4, <1>10, <1>11, TotalFacts DEF P!TypeOK
<1> QED
  BY <1>1, <1>3, <1>7, <1>8, <1>9, <1>12

\* Settling a published payment keeps what the ledger and the order say of it.
LEMMA SettleKeeps ==
  ASSUME PaymentsInv, NEW p \in Payments, P!Published(p), NEW key \in Keys \cup {CashKey},
         NEW ext \in Externals \cup {CashKey}, NEW intent, NEW paid \in Nat, IntentFits(p, intent, paid),
         intent = "mark_refunded" => paid <= P!Total(p), P!Settle(p, key, ext, intent, paid)
  PROVE  /\ \A q \in Payments : P!Total(q)' = P!Total(q) /\ (P!Exists(q) => P!Exists(q)')
                                /\ (PaidInFull(q) => PaidInFull(q)')
         /\ RowsFit' /\ P!OrderReflectsPayments' /\ RefundFollows' /\ LedgerGrows
<1> DEFINE entry == [key |-> key, externalId |-> ext, intent |-> intent, amount |-> paid]
           n == Len(ledger[p]) + 1
<1>1. P!TypeOK /\ RowsFit /\ P!OrderReflectsPayments /\ RefundFollows
  BY DEF PaymentsInv
<1>2. /\ payment'[p].state \in {"PAID", "FAILED", "CANCELLED", "REFUNDED"}
      /\ payment'[p].state = "PAID" <=> intent = "mark_paid"
      /\ \A q \in Payments : payment'[q].order = payment[q].order
      /\ \A q \in Payments \ {p} : payment'[q] = payment[q] /\ ledger'[q] = ledger[q]
      /\ ledger'[p] = Append(ledger[p], entry) /\ entry \in P!Entry
      /\ \A o \in Orders \ {payment[p].order} : order'[o] = order[o]
      /\ order'[payment[p].order].paymentStatus # "UNPAID"
      /\ order'[payment[p].order].paymentStatus = "PAID" <=> intent = "mark_paid"
  BY <1>1, SettleFacts
<1>3. /\ DOMAIN ledger'[p] = DOMAIN ledger[p] \cup {n} /\ n \in Nat
      /\ \A i \in DOMAIN ledger[p] : ledger'[p][i] = ledger[p][i] /\ i \in Nat /\ i < n
      /\ ledger'[p][n] = entry
  BY <1>1, <1>2, AppendFacts DEF P!TypeOK
<1> HIDE DEF n
<1>4. \A q \in Payments : P!Total(q)' = P!Total(q)
  BY <1>2 DEF P!Total
<1>5. \A q \in Payments : P!Exists(q) => P!Exists(q)'
  BY <1>2 DEF P!Exists, P!NoRow
<1>6. \A q \in Payments : PaidInFull(q) => PaidInFull(q)'
  BY <1>2, <1>3, <1>4 DEF PaidInFull
<1>7. intent = "mark_paid" => PaidInFull(p)'
  BY <1>3, <1>4 DEF PaidInFull, IntentFits
<1>8. P!Exists(p)
  BY DEF P!Published
<1>9. RowsFit'
  BY <1>1, <1>2, <1>5, <1>6, <1>7, <1>8 DEF RowsFit, P!Exists
<1>10. P!OrderReflectsPayments'
  <2> SUFFICES ASSUME NEW o \in Orders
               PROVE  LET own == { q \in Payments : P!Exists(q)' /\ payment'[q].order = o } IN
                      /\ order'[o].paymentStatus = "PAID" => \E q \in own : payment'[q].state = "PAID"
                      /\ order'[o].paymentStatus = "UNPAID" => \A q \in own : ledger'[q] = <<>>
    BY DEF P!OrderReflectsPayments
  <2>1. CASE o = payment[p].order
    BY <1>2, <1>5, <1>8, <2>1
  <2>2. CASE o # payment[p].order
    <3>1. /\ order'[o] = order[o]
          /\ \A q \in Payments : payment[q].order = o => payment'[q] = payment[q] /\ ledger'[q] = ledger[q]
      BY <1>2, <2>2
    <3>2. LET own == { q \in Payments : P!Exists(q) /\ payment[q].order = o } IN
          /\ order[o].paymentStatus = "PAID" => \E q \in own : payment[q].state = "PAID"
          /\ order[o].paymentStatus = "UNPAID" => \A q \in own : ledger[q] = <<>>
      BY <1>1 DEF P!OrderReflectsPayments
    <3> QED
      BY <1>2, <3>1, <3>2 DEF P!Exists
  <2> QED
    BY <2>1, <2>2
<1>11. RefundFollows'
  <2> SUFFICES ASSUME NEW q \in Payments, NEW i \in DOMAIN ledger'[q],
                      ledger'[q][i].intent = "mark_refunded"
               PROVE  \E j \in 1 .. (i - 1) : /\ ledger'[q][j].intent = "mark_paid"
                                               /\ ledger'[q][j].amount >= ledger'[q][i].amount
    BY DEF RefundFollows
  <2>1. CASE q # p
    BY <1>1, <1>2, <2>1 DEF RefundFollows
  <2>2. CASE q = p /\ i # n
    <3>1. i \in DOMAIN ledger[p] /\ ledger'[p][i] = ledger[p][i]
      BY <1>3, <2>2
    <3>2. PICK j \in 1 .. (i - 1) : /\ ledger[p][j].intent = "mark_paid"
                                    /\ ledger[p][j].amount >= ledger[p][i].amount
      BY <1>1, <2>2, <3>1 DEF RefundFollows
    <3>3. j \in DOMAIN ledger[p]
      BY <1>1, <3>1 DEF P!TypeOK
    <3> QED
      BY <1>3, <2>2, <3>1, <3>2, <3>3
  <2>3. CASE q = p /\ i = n
    <3>1. PICK j \in DOMAIN ledger[p] : ledger[p][j].intent = "mark_paid" /\ ledger[p][j].amount = P!Total(p)
      BY <1>3, <2>3 DEF IntentFits, PaidInFull
    <3>2. j \in 1 .. (n - 1)
      BY <1>1, <1>3 DEF P!TypeOK
    <3> QED
      BY <1>1, <1>3, <2>3, <3>1, <3>2, TotalFacts
  <2> QED
    BY <2>1, <2>2, <2>3
<1>12. LedgerGrows
  BY <1>2, <1>3 DEF LedgerGrows
<1> QED
  BY <1>4, <1>5, <1>6, <1>9, <1>10, <1>11, <1>12

\* Creating a row for p, to be published or settled by h.
LEMMA CreateStep ==
  ASSUME PaymentsInv, NEW h \in Handlers, NEW p \in Payments, ~P!Exists(p), NEW method \in P!Providers,
         NEW pc \in {"publish", "settle"}, req[h].pc \in {"create", "cash"},
         payment' = [payment EXCEPT ![p] =
                       [state |-> "PENDING", order |-> req[h].order, provider |-> method]],
         req' = [req EXCEPT ![h].pc = pc, ![h].payment = p],
         UNCHANGED <<order, ledger, processed>>
  PROVE  /\ payment' \in [Payments -> P!PaymentRow] /\ req' \in [Handlers -> P!Request]
         /\ OneAtWork' /\ RowsFit' /\ RequestsFit'
         /\ P!OrderReflectsPayments' /\ RefundFollows'
<1>1. P!TypeOK /\ OneAtWork /\ RowsFit /\ RequestsFit /\ P!OrderReflectsPayments /\ RefundFollows
  BY DEF PaymentsInv
<1>2. /\ req' \in [Handlers -> P!Request]
      /\ \A g \in Handlers \ {h} : req'[g] = req[g]
      /\ req'[h].pc = pc /\ req'[h].payment = p
  <2>1. [req[h] EXCEPT !.pc = pc, !.payment = p] \in P!Request
    BY WebhookFacts, <1>1 DEF P!Request, P!Pcs
  <2>2. req' = [req EXCEPT ![h] = [req[h] EXCEPT !.pc = pc, !.payment = p]]
    BY <1>1 DEF P!TypeOK, P!Request
  <2>3. req[h] \in P!Request
    BY <1>1, WebhookFacts
  <2> QED
    BY <1>1, <2>1, <2>2, <2>3 DEF P!TypeOK, P!Request
<1>3. /\ payment' \in [Payments -> P!PaymentRow]
      /\ \A q \in Payments \ {p} : payment'[q] = payment[q]
      /\ payment'[p] = [state |-> "PENDING", order |-> req[h].order, provider |-> method]
  BY <1>1, WebhookFacts DEF P!TypeOK, P!PaymentRow, P!States
<1>4. P!Exists(p)' /\ \A q \in Payments : P!Exists(q) => q # p /\ P!Exists(q)'
  BY <1>3 DEF P!Exists, P!NoRow
<1>5. \A q \in Payments \ {p} : P!Total(q)' = P!Total(q) /\ (PaidInFull(q) => PaidInFull(q)')
  BY <1>3 DEF P!Total, PaidInFull
<1>6. \A q \in Payments : P!Published(q) => P!Published(q)'
  BY <1>2, <1>4 DEF P!Published
<1>7. OneAtWork'
  BY <1>1, <1>2 DEF OneAtWork, Working
<1>8. RowsFit'
  BY <1>1, <1>3, <1>4, <1>5 DEF RowsFit, P!Exists
<1>9. pc = "settle" => P!Published(p)'
  <2> SUFFICES ASSUME pc = "settle", NEW g \in Handlers, req'[g].pc = "publish", req'[g].payment = p PROVE FALSE
    BY <1>4 DEF P!Published
  <2> QED
    BY <1>1, <1>2 DEF RequestsFit, RequestFits
<1>10. RequestsFit'
  <2> SUFFICES ASSUME NEW g \in Handlers PROVE RequestFits(req[g])'
    BY DEF RequestsFit
  <2>1. CASE g = h
    BY <1>2, <1>3, <1>4, <1>9, <2>1 DEF RequestFits
  <2>2. CASE g # h
    <3>1. RequestFits(req[g]) /\ req'[g] = req[g]
      BY <1>1, <1>2, <2>2 DEF RequestsFit
    <3>2. \A q \in Payments : P!Published(q) => q # p
      BY <1>4 DEF P!Published
    <3>3. \A q \in Payments : P!Exists(q) => P!Exists(q)' /\ payment'[q].state = payment[q].state
      BY <1>3, <1>4
    <3> QED
      BY <1>1, <1>5, <1>6, <3>1, <3>2, <3>3, RequestFrame
  <2> QED
    BY <2>1, <2>2
<1>11. P!OrderReflectsPayments'
  <2> SUFFICES ASSUME NEW o \in Orders
               PROVE  LET own == { q \in Payments : P!Exists(q)' /\ payment'[q].order = o } IN
                      /\ order[o].paymentStatus = "PAID" => \E q \in own : payment'[q].state = "PAID"
                      /\ order[o].paymentStatus = "UNPAID" => \A q \in own : ledger[q] = <<>>
    BY DEF P!OrderReflectsPayments
  <2>1. LET own == { q \in Payments : P!Exists(q) /\ payment[q].order = o } IN
        /\ order[o].paymentStatus = "PAID" => \E q \in own : payment[q].state = "PAID"
        /\ order[o].paymentStatus = "UNPAID" => \A q \in own : ledger[q] = <<>>
    BY <1>1 DEF P!OrderReflectsPayments
  <2>2. ledger[p] = <<>>
    BY <1>1 DEF RowsFit
  <2>3. \A q \in Payments \ {p} : payment'[q] = payment[q] /\ P!Exists(q)' = P!Exists(q)
    BY <1>3 DEF P!Exists
  <2> QED
    BY <1>4, <2>1, <2>2, <2>3
<1>12. RefundFollows'
  BY <1>1 DEF RefundFollows
<1> QED
  BY <1>2, <1>3, <1>7, <1>8, <1>10, <1>11, <1>12

\* A handler that settles its payment, with its key or at the counter, is done.
LEMMA SettleStep ==
  ASSUME PaymentsInv, NEW h \in Handlers, NEW p \in Payments, P!Published(p),
         NEW key \in Keys \cup {CashKey}, NEW ext \in Externals \cup {CashKey}, NEW intent, NEW paid \in Nat,
         IntentFits(p, intent, paid),
         intent = "mark_refunded" => paid <= P!Total(p), P!Settle(p, key, ext, intent, paid),
         P!Finish(h),
         \/ UNCHANGED processed
         \/ Working(h) /\ processed' = processed \cup {req[h].webhook.key}
  PROVE  /\ order' \in [Orders -> P!OrderRow] /\ payment' \in [Payments -> P!PaymentRow]
         /\ ledger' \in [Payments -> Seq(P!Entry)] /\ req' \in [Handlers -> P!Request]
         /\ OneAtWork' /\ RowsFit' /\ RequestsFit'
         /\ P!OrderReflectsPayments' /\ RefundFollows' /\ LedgerGrows
<1>1. /\ order' \in [Orders -> P!OrderRow] /\ payment' \in [Payments -> P!PaymentRow]
      /\ ledger' \in [Payments -> Seq(P!Entry)]
      /\ \A q \in Payments \ {p} : payment'[q] = payment[q]
  BY SettleFacts DEF PaymentsInv
<1>2. /\ \A q \in Payments : P!Total(q)' = P!Total(q) /\ (P!Exists(q) => P!Exists(q)')
                             /\ (PaidInFull(q) => PaidInFull(q)')
      /\ RowsFit' /\ P!OrderReflectsPayments' /\ RefundFollows' /\ LedgerGrows
  BY SettleKeeps
<1>3. /\ req' \in [Handlers -> P!Request]
      /\ \A g \in Handlers : req'[g] = IF g = h THEN P!Idle ELSE req[g]
      /\ \A q : P!Published(q) /\ P!Exists(q)' => P!Published(q)'
      /\ OneAtWork'
  BY FinishKeeps DEF PaymentsInv
<1>4. RequestsFit'
  <2> SUFFICES ASSUME NEW g \in Handlers PROVE RequestFits(req[g])'
    BY DEF RequestsFit
  <2>1. CASE g = h
    BY <1>3, <2>1, IdleFacts DEF RequestFits
  <2>2. CASE g # h
    <3>1. RequestFits(req[g]) /\ req'[g] = req[g] /\ P!TypeOK
      BY <1>3, <2>2 DEF PaymentsInv, RequestsFit
    <3>2. \A q \in Payments : P!Published(q) => P!Published(q)'
      BY <1>2, <1>3 DEF P!Published
    <3>3. \A q \in Payments : P!Exists(q) /\ ~P!Published(q) =>
             P!Exists(q)' /\ payment'[q].state = payment[q].state
      BY <1>1, <1>2
    <3> QED
      BY <1>2, <3>1, <3>2, <3>3, RequestFrame
  <2> QED
    BY <2>1, <2>2
<1> QED
  BY <1>1, <1>2, <1>3, <1>4

-----------------------------------------------------------------------------
(* The steps of Payments, one by one. *)

\* The invariant holds when the tables are empty.
LEMMA PaymentsInit == P!Init => PaymentsInv
<1> SUFFICES ASSUME P!Init PROVE PaymentsInv
  OBVIOUS
<1>1. P!TypeOK
  BY IdleFacts DEF P!Init, P!TypeOK, P!OrderRow, P!OrderStatuses, P!PaymentStatuses, P!PaymentRow,
     P!Providers, P!NoRow
<1>2. OneAtWork /\ RequestsFit
  BY IdleFacts DEF P!Init, OneAtWork, Working, RequestsFit, RequestFits
<1>3. RowsFit
  BY DEF P!Init, RowsFit, P!NoRow
<1>4. P!AnsweredIsDurable /\ P!OrderReflectsPayments /\ RefundFollows
  BY DEF P!Init, P!AnsweredIsDurable, P!OrderReflectsPayments, RefundFollows
<1> QED
  BY <1>1, <1>2, <1>3, <1>4 DEF PaymentsInv

\* Requests that begin with a look at an order.
LEMMA CheckKeeps ==
  ASSUME PaymentsInv, NEW h \in Handlers, NEW o \in Orders,
         \/ \E method \in P!Providers : P!CheckUnpaid(h, o, method)
         \/ P!CheckCash(h, o)
         \/ \E next \in StaffMoves : P!ReadForStatus(h, o, next)
  PROVE  PaymentsInv'
<1>1. PICK r \in P!Request : req' = [req EXCEPT ![h] = r] /\ r.pc \in {"create", "cash", "status"}
  <2>1. ASSUME NEW method \in P!Providers, P!CheckUnpaid(h, o, method)
        PROVE  \E r \in P!Request : req' = [req EXCEPT ![h] = r] /\ r.pc \in {"create", "cash", "status"}
    <3> DEFINE r == [P!Idle EXCEPT !.pc = "create", !.order = o, !.provider = method]
    <3>1. r \in P!Request /\ r.pc = "create"
      BY IdleFacts DEF P!Request, P!Pcs
    <3> QED
      BY <2>1, <3>1 DEF P!CheckUnpaid, P!Begin
  <2>2. ASSUME P!CheckCash(h, o)
        PROVE  \E r \in P!Request : req' = [req EXCEPT ![h] = r] /\ r.pc \in {"create", "cash", "status"}
    <3> DEFINE r == [P!Idle EXCEPT !.pc = "cash", !.order = o]
    <3>1. r \in P!Request /\ r.pc = "cash"
      BY IdleFacts DEF P!Request, P!Pcs
    <3> QED
      BY <2>2, <3>1 DEF P!CheckCash, P!Begin
  <2>3. ASSUME NEW next \in StaffMoves, P!ReadForStatus(h, o, next)
        PROVE  \E r \in P!Request : req' = [req EXCEPT ![h] = r] /\ r.pc \in {"create", "cash", "status"}
    <3> DEFINE r == [P!Idle EXCEPT !.pc = "status", !.order = o, !.next = next]
    <3>1. r \in P!Request /\ r.pc = "status"
      BY IdleFacts, ConstantsAssumption DEF P!PaymentsAssumption, P!Request, P!Pcs
    <3> QED
      BY <2>3, <3>1 DEF P!ReadForStatus, P!Begin
  <2> QED
    BY <2>1, <2>2, <2>3
<1>2. UNCHANGED <<order, payment, ledger, processed, answered, raced>>
  BY DEF P!CheckUnpaid, P!CheckCash, P!ReadForStatus
<1>3. RequestFits(r)
  BY <1>1 DEF RequestFits
<1> QED
  BY <1>1, <1>2, <1>3, RequestStep, AnsweredRest DEF PaymentsInv, P!TypeOK

\* createForOrder and markCashPaid insert their rows.
LEMMA CreateKeeps ==
  ASSUME PaymentsInv, NEW h \in Handlers, NEW p \in Payments, P!CreatePayment(h, p) \/ P!CreateCash(h, p)
  PROVE  PaymentsInv'
<1>1. PICK method \in P!Providers, pc \in {"publish", "settle"} :
        /\ payment' = [payment EXCEPT ![p] =
                         [state |-> "PENDING", order |-> req[h].order, provider |-> method]]
        /\ req' = [req EXCEPT ![h].pc = pc, ![h].payment = p]
  <2>1. req[h].provider \in P!Providers /\ "cash" \in P!Providers
    BY WebhookFacts DEF PaymentsInv, P!Request, P!Providers
  <2> QED
    BY <2>1 DEF P!CreatePayment, P!CreateCash
<1>2. req[h].pc \in {"create", "cash"} /\ ~P!Exists(p)
  BY DEF P!CreatePayment, P!CreateCash
<1>3. UNCHANGED <<order, ledger, processed, answered, raced>>
  BY DEF P!CreatePayment, P!CreateCash
<1> QED
  BY <1>1, <1>2, <1>3, CreateStep, AnsweredRest DEF PaymentsInv, P!TypeOK

\* The provider's reply is stored in a row that says PENDING already.
LEMMA PublishKeeps ==
  ASSUME PaymentsInv, NEW h \in Handlers, P!PublishPayment(h)
  PROVE  PaymentsInv'
<1>1. payment[req[h].payment].state = "PENDING"
  BY DEF P!PublishPayment, PaymentsInv, RequestsFit, RequestFits
<1>2. payment[req[h].payment] \in P!PaymentRow
  BY WebhookFacts DEF PaymentsInv, P!TypeOK
<1>3. [payment[req[h].payment] EXCEPT !.state = "PENDING"] = payment[req[h].payment]
  BY <1>1, <1>2 DEF P!PaymentRow
<1>4. UNCHANGED payment
  BY <1>3 DEF P!PublishPayment, PaymentsInv, P!TypeOK
<1>5. P!Finish(h) /\ UNCHANGED <<order, payment, ledger, processed, answered, raced>>
  BY <1>4 DEF P!PublishPayment
<1> QED
  BY <1>5, DoneStep DEF PaymentsInv, P!TypeOK, P!AnsweredIsDurable

\* A callback about a published payment comes in.
LEMMA ReceiveKeeps ==
  ASSUME PaymentsInv, NEW h \in Handlers, NEW w \in Webhooks, P!ReceiveWebhook(h, w)
  PROVE  PaymentsInv'
<1> DEFINE r == [P!Idle EXCEPT !.pc = "insert", !.webhook = w]
<1>1. r \in P!Request /\ r.pc = "insert" /\ r.webhook = w
  BY IdleFacts DEF P!Request, P!Pcs
<1>2. RequestFits(r)
  BY <1>1 DEF RequestFits, P!ReceiveWebhook
<1>3. req' = [req EXCEPT ![h] = r]
  BY DEF P!ReceiveWebhook, P!Begin
<1>4. UNCHANGED <<order, payment, ledger, processed, answered, raced>>
  BY DEF P!ReceiveWebhook
<1> HIDE DEF r
<1> QED
  BY <1>1, <1>2, <1>3, <1>4, RequestStep, AnsweredRest DEF PaymentsInv, P!TypeOK

\* The key is inserted, or was there: then the callback is answered from the record.
LEMMA InsertKeeps ==
  ASSUME PaymentsInv, NEW h \in Handlers, P!InsertKey(h)
  PROVE  PaymentsInv'
<1>1. /\ req[h].pc = "insert" /\ req[h] \in P!Request /\ req[h].webhook \in Webhooks
      /\ RequestFits(req[h]) /\ UNCHANGED <<order, payment, ledger, processed, raced>>
  BY WebhookFacts DEF P!InsertKey, PaymentsInv, RequestsFit
<1>2. CASE req[h].webhook.key \in processed
  <2>1. answered' = answered \cup {req[h].webhook} /\ P!Finish(h)
    BY <1>2 DEF P!InsertKey
  <2> QED
    BY <1>1, <1>2, <2>1, DoneStep DEF PaymentsInv, P!TypeOK, P!AnsweredIsDurable
<1>3. CASE req[h].webhook.key \notin processed
  <2> DEFINE r == [req[h] EXCEPT !.pc = "apply"]
  <2>1. r \in P!Request /\ r.pc = "apply" /\ r.webhook = req[h].webhook
    BY <1>1 DEF P!Request, P!Pcs
  <2>2. req' = [req EXCEPT ![h] = r] /\ UNCHANGED answered
    BY <1>1, <1>3 DEF P!InsertKey, P!Goto
  <2>3. RequestFits(r)
    BY <1>1, <2>1 DEF RequestFits
  <2>4. \A g \in Handlers \ {h} : ~P!InFlight(g, r.webhook.key)
    BY <2>1 DEF P!InsertKey
  <2> HIDE DEF r
  <2> QED
    BY <1>1, <1>3, <2>1, <2>2, <2>3, <2>4, RequestStep, AnsweredRest DEF PaymentsInv, P!TypeOK
<1> QED
  BY <1>2, <1>3

\* An intent that is void is committed, one with a wrong amount rolls back, and
\* one that is about to be written fits the payment.
LEMMA ApplyKeeps ==
  ASSUME PaymentsInv, NEW h \in Handlers, P!ApplyIntent(h)
  PROVE  PaymentsInv'
<1> DEFINE w == req[h].webhook
<1>1. /\ req[h].pc = "apply" /\ req[h] \in P!Request /\ w \in Webhooks
      /\ w.payment \in Payments /\ w.key \in Keys /\ w.intent \in P!Intents
      /\ RequestFits(req[h]) /\ UNCHANGED <<order, payment, ledger>> /\ Working(h)
  BY WebhookFacts DEF P!ApplyIntent, PaymentsInv, RequestsFit, Working
<1>2. CASE P!Commit(w) /\ P!Finish(h) /\ UNCHANGED raced
  <2>1. answered' = answered \cup {w} /\ processed' = processed \cup {w.key}
    BY <1>2 DEF P!Commit
  <2> QED
    BY <1>1, <1>2, <2>1, DoneStep DEF PaymentsInv, P!TypeOK, P!AnsweredIsDurable
<1>3. CASE P!Finish(h) /\ UNCHANGED <<processed, answered, raced>>
  BY <1>1, <1>3, DoneStep DEF PaymentsInv, P!TypeOK, P!AnsweredIsDurable
<1>4. CASE /\ P!Applies(w.payment, w.intent)
           /\ P!AmountMatches(w.payment, w.intent, w.amount)
           /\ raced' \subseteq raced \cup {w.key}
           /\ P!Goto(h, "write") /\ UNCHANGED <<processed, answered>>
  <2> DEFINE r == [req[h] EXCEPT !.pc = "write"]
  <2>1. r \in P!Request /\ r.pc = "write" /\ r.webhook = w
    BY <1>1 DEF P!Request, P!Pcs
  <2>2. req' = [req EXCEPT ![h] = r]
    BY <1>1, <1>4 DEF P!Goto
  <2>3. P!Published(w.payment) /\ P!Exists(w.payment)
    BY <1>1 DEF RequestFits, P!Published
  <2>4. payment[w.payment].state \in P!States
    BY <1>1, <2>3 DEF PaymentsInv, P!TypeOK, P!PaymentRow, P!Exists, P!NoRow
  <2>5. w.intent \in {"mark_paid", "mark_failed", "mark_cancelled", "mark_refunded"}
    BY <1>1, <1>4 DEF P!Applies, P!StateFor, P!Intents
  <2>6. ASSUME w.intent = "mark_refunded" PROVE PaidInFull(w.payment)
    <3>1. payment[w.payment].state \in {"PAID", "PARTIALLY_REFUNDED"}
      BY <1>4, <2>4, <2>6 DEF P!Applies, P!StateFor, P!ALLOWED_TRANSITIONS, P!States
    <3> QED
      BY <1>1, <3>1 DEF PaymentsInv, RowsFit
  <2>7. RequestFits(r)
    BY <1>4, <2>1, <2>3, <2>5, <2>6 DEF RequestFits, IntentFits, P!AmountMatches
  <2>8. w.key \notin processed /\ \A g \in Handlers \ {h} : ~P!InFlight(g, w.key)
    BY <1>1 DEF PaymentsInv, OneAtWork, Working, P!InFlight
  <2> HIDE DEF r
  <2> QED
    BY <1>1, <1>4, <2>1, <2>2, <2>7, <2>8, RequestStep, AnsweredRest DEF PaymentsInv, P!TypeOK
<1> QED
  BY <1>2, <1>3, <1>4 DEF P!ApplyIntent

\* The transaction writes and commits, or is refused.
LEMMA WriteKeeps ==
  ASSUME PaymentsInv, NEW h \in Handlers, P!WriteIntent(h)
  PROVE  PaymentsInv'
<1> DEFINE w == req[h].webhook
<1>1. /\ req[h].pc = "write" /\ w \in Webhooks /\ w.payment \in Payments /\ w.key \in Keys
      /\ w.amount \in Nat /\ RequestFits(req[h]) /\ Working(h)
      /\ P!Finish(h) /\ UNCHANGED raced
  BY WebhookFacts DEF P!WriteIntent, PaymentsInv, RequestsFit, Working
<1>2. CASE P!RefundRefused(w)
  <2>1. UNCHANGED <<order, payment, ledger, processed, answered>>
    BY <1>2 DEF P!WriteIntent
  <2> QED
    BY <1>1, <2>1, DoneStep DEF PaymentsInv, P!TypeOK, P!AnsweredIsDurable
<1>4. CASE ~P!RefundRefused(w) /\ P!HeldElsewhere(w)
  <2>1. answered' = answered \cup {w} /\ UNCHANGED <<order, payment, ledger, processed>>
    BY <1>4 DEF P!WriteIntent
  <2>2. PICK q \in Payments \ {w.payment} : ledger[q] # <<>> /\ P!ExternalId(q) = w.externalId
    BY <1>4 DEF P!HeldElsewhere
  <2>3. Len(ledger[q]) \in DOMAIN ledger[q] /\ ledger[q][Len(ledger[q])].externalId = w.externalId
    BY <2>2 DEF P!ExternalId, PaymentsInv, P!TypeOK
  <2> QED
    BY <1>1, <2>1, <2>3, DoneStep DEF PaymentsInv, P!TypeOK, P!AnsweredIsDurable
<1>3. CASE ~P!RefundRefused(w) /\ ~P!HeldElsewhere(w)
  <2>1. P!Settle(w.payment, w.key, w.externalId, w.intent, w.amount) /\ P!Commit(w)
    BY <1>3 DEF P!WriteIntent
  <2>2. answered' = answered \cup {w} /\ processed' = processed \cup {w.key}
    BY <2>1 DEF P!Commit
  <2>3. P!Published(w.payment) /\ IntentFits(w.payment, w.intent, w.amount)
    BY <1>1 DEF RequestFits
  <2>4. w.intent = "mark_refunded" => w.amount <= P!Total(w.payment)
    BY <1>1, <1>3, TotalFacts DEF P!RefundRefused, PaymentsInv
  <2>5. /\ order' \in [Orders -> P!OrderRow] /\ payment' \in [Payments -> P!PaymentRow]
        /\ ledger' \in [Payments -> Seq(P!Entry)] /\ req' \in [Handlers -> P!Request]
        /\ OneAtWork' /\ RowsFit' /\ RequestsFit'
        /\ P!OrderReflectsPayments' /\ RefundFollows' /\ LedgerGrows
    <3>1. PICK p0, key0, ext0, intent0, paid0 : p0 = w.payment /\ key0 = w.key /\ ext0 = w.externalId
                                               /\ intent0 = w.intent /\ paid0 = w.amount
      OBVIOUS
    <3>2. /\ p0 \in Payments /\ key0 \in Keys \cup {CashKey} /\ paid0 \in Nat
          /\ ext0 \in Externals \cup {CashKey}
      BY <1>1, <3>1, WebhookFacts DEF PaymentsInv
    <3>3. /\ P!Published(p0) /\ IntentFits(p0, intent0, paid0)
          /\ intent0 = "mark_refunded" => paid0 <= P!Total(p0)
          /\ P!Settle(p0, key0, ext0, intent0, paid0)
      BY <2>1, <2>3, <2>4, <3>1
    <3> QED
      BY <1>1, <2>2, <3>2, <3>3, SettleStep
  <2>6. P!AnsweredIsDurable'
    BY <1>1, <2>2, <2>5, AnsweredStays DEF PaymentsInv
  <2> QED
    BY <1>1, <2>2, <2>5, <2>6 DEF PaymentsInv, P!TypeOK
<1> QED
  BY <1>2, <1>3, <1>4

\* The settlement at the counter, of the full amount.
LEMMA CashKeeps ==
  ASSUME PaymentsInv, NEW h \in Handlers, P!SettleCash(h)
  PROVE  PaymentsInv'
<1>1. PICK p \in Payments : p = req[h].payment
  BY WebhookFacts DEF PaymentsInv
<1>2. PICK paid \in Nat : paid = P!Total(p)
  BY <1>1, TotalFacts DEF PaymentsInv
<1>3. P!Settle(p, CashKey, CashKey, "mark_paid", paid) /\ P!Finish(h) /\ UNCHANGED <<processed, answered, raced>>
  BY <1>1, <1>2 DEF P!SettleCash
<1>4. P!Published(p) /\ IntentFits(p, "mark_paid", paid)
  BY <1>1, <1>2 DEF P!SettleCash, PaymentsInv, RequestsFit, RequestFits, IntentFits
<1>5. /\ order' \in [Orders -> P!OrderRow] /\ payment' \in [Payments -> P!PaymentRow]
      /\ ledger' \in [Payments -> Seq(P!Entry)] /\ req' \in [Handlers -> P!Request]
      /\ OneAtWork' /\ RowsFit' /\ RequestsFit'
      /\ P!OrderReflectsPayments' /\ RefundFollows' /\ LedgerGrows
  BY <1>3, <1>4, SettleStep
<1>6. P!AnsweredIsDurable'
  BY <1>3, <1>5, AnsweredStays DEF PaymentsInv
<1> QED
  BY <1>3, <1>5, <1>6 DEF PaymentsInv, P!TypeOK

\* Staff write the status of an order, and a handler dies.
LEMMA StatusKeeps ==
  ASSUME PaymentsInv, NEW h \in Handlers, P!WriteStatus(h) \/ P!Abort(h)
  PROVE  PaymentsInv'
<1>1. CASE P!Abort(h)
  BY <1>1, DoneStep DEF P!Abort, PaymentsInv, P!TypeOK, P!AnsweredIsDurable
<1>2. CASE P!WriteStatus(h)
  <2> DEFINE o == req[h].order
  <2>1. /\ order' = [order EXCEPT ![o].status = req[h].next] /\ P!Finish(h)
        /\ UNCHANGED <<payment, ledger, processed, answered, raced>>
    BY <1>2 DEF P!WriteStatus
  <2>2. o \in Orders /\ req[h].next \in P!OrderStatuses /\ order \in [Orders -> P!OrderRow]
    BY WebhookFacts DEF PaymentsInv, P!TypeOK, P!Request
  <2>3. \A row \in P!OrderRow, s \in P!OrderStatuses :
          [row EXCEPT !.status = s] \in P!OrderRow /\ [row EXCEPT !.status = s].paymentStatus = row.paymentStatus
    BY DEF P!OrderRow
  <2>4. order' \in [Orders -> P!OrderRow] /\ \A x \in Orders : order'[x].paymentStatus = order[x].paymentStatus
    BY <2>1, <2>2, <2>3
  <2> QED
    BY <2>1, <2>4, DoneStep DEF PaymentsInv, P!TypeOK, P!AnsweredIsDurable
<1> QED
  BY <1>1, <1>2

\* Every step of Payments keeps the invariant.
LEMMA PaymentsNext == PaymentsInv /\ P!Next => PaymentsInv'
<1> SUFFICES ASSUME PaymentsInv, NEW h \in Handlers,
      \/ \E o \in Orders, method \in P!Providers : P!CheckUnpaid(h, o, method)
      \/ \E p \in Payments : P!CreatePayment(h, p)
      \/ P!PublishPayment(h)
      \/ \E w \in Webhooks : P!ReceiveWebhook(h, w)
      \/ P!InsertKey(h) \/ P!ApplyIntent(h) \/ P!WriteIntent(h)
      \/ \E o \in Orders : P!CheckCash(h, o)
      \/ \E p \in Payments : P!CreateCash(h, p)
      \/ P!SettleCash(h)
      \/ \E o \in Orders, next \in StaffMoves : P!ReadForStatus(h, o, next)
      \/ P!WriteStatus(h) \/ P!Abort(h)
    PROVE PaymentsInv'
  BY DEF P!Next
<1> QED
  BY CheckKeeps, CreateKeeps, PublishKeeps, ReceiveKeeps, InsertKeeps, ApplyKeeps, WriteKeeps,
     CashKeeps, StatusKeeps

-----------------------------------------------------------------------------
(* What comes in and what goes back. *)

CameIn(p)   == Cardinality(P!Receipts(p))
WentBack(p) == Cardinality(P!Refunds(p))

\* A refund about to be written that no other was next to when it was let through.
Alone(h, p) == h \in P!Refunding(p) /\ req[h].webhook.key \notin raced

\* What came in is the full amount, and the entries' keys are on record.
EntriesFit ==
  \A p \in Payments : \A i \in DOMAIN ledger[p] :
    /\ ledger[p][i].intent = "mark_paid" => ledger[p][i].amount = P!Total(p)
    /\ ledger[p][i].key \in processed \cup {CashKey}

\* A payment that may be refunded, and one that is about to be, has a receipt
\* that no refund has used.
NoMoreOut ==
  \A p \in Payments :
    /\ WentBack(p) <= CameIn(p)
    /\ payment[p].state \in {"PAID", "PARTIALLY_REFUNDED"} => WentBack(p) < CameIn(p)
    /\ \A h \in Handlers : Alone(h, p) =>
         WentBack(p) < CameIn(p) /\ \A g \in Handlers : Alone(g, p) => g = h

MoneyInv == EntriesFit /\ NoMoreOut

\* The entries of a payment are finitely many.
LEMMA CountFacts ==
  ASSUME P!TypeOK, NEW p \in Payments
  PROVE  /\ IsFiniteSet(P!Receipts(p)) /\ IsFiniteSet(P!Refunds(p))
         /\ CameIn(p) \in Nat /\ WentBack(p) \in Nat
<1>1. DOMAIN ledger[p] = 1 .. Len(ledger[p]) /\ Len(ledger[p]) \in Nat
  BY DEF P!TypeOK
<1>2. IsFiniteSet(1 .. Len(ledger[p]))
  BY <1>1, FS_Interval
<1>3. P!Receipts(p) \subseteq 1 .. Len(ledger[p]) /\ P!Refunds(p) \subseteq 1 .. Len(ledger[p])
  BY <1>1 DEF P!Receipts, P!Refunds
<1>4. IsFiniteSet(P!Receipts(p)) /\ IsFiniteSet(P!Refunds(p))
  BY <1>2, <1>3, FS_Subset
<1> QED
  BY <1>4, FS_CardinalityType DEF CameIn, WentBack

\* Steps that leave the ledger alone, and let no refund through, change nothing.
LEMMA MoneyFrame ==
  ASSUME MoneyInv, UNCHANGED <<ledger, raced>>, processed \subseteq processed',
         \A p \in Payments : P!Total(p)' = P!Total(p) \/ ledger[p] = <<>>,
         \A p \in Payments : payment'[p].state \in {"PAID", "PARTIALLY_REFUNDED"} =>
                               payment[p].state \in {"PAID", "PARTIALLY_REFUNDED"},
         \A h \in Handlers : req'[h].pc = "write" => req'[h] = req[h]
  PROVE  MoneyInv'
<1>1. \A p \in Payments : CameIn(p)' = CameIn(p) /\ WentBack(p)' = WentBack(p)
  BY DEF CameIn, WentBack, P!Receipts, P!Refunds
<1>2. \A p \in Payments : \A h \in Handlers : Alone(h, p)' => Alone(h, p)
  BY DEF Alone, P!Refunding
<1>3. NoMoreOut'
  BY <1>1, <1>2 DEF MoneyInv, NoMoreOut
<1>4. EntriesFit'
  BY DEF MoneyInv, EntriesFit
<1> QED
  BY <1>3, <1>4 DEF MoneyInv

\* A refund is let through: alone, when it finds the payment paid and nobody else
\* about to refund it; what it has in the ledger already is nothing.
LEMMA MoneyApply ==
  ASSUME PaymentsInv, MoneyInv, NEW h \in Handlers, P!ApplyIntent(h), req'[h].pc = "write"
  PROVE  MoneyInv'
<1> DEFINE w == req[h].webhook
<1>1. /\ req[h].pc = "apply" /\ w.key \in Keys /\ w.key \notin processed /\ w.payment \in Payments
      /\ UNCHANGED <<order, payment, ledger>>
  BY WebhookFacts DEF P!ApplyIntent, PaymentsInv, OneAtWork, Working
<1>2. P!Idle.pc # "write"
  BY IdleFacts
<1>3. /\ P!Goto(h, "write") /\ UNCHANGED processed /\ P!Applies(w.payment, w.intent)
      /\ raced' = IF w.intent = "mark_refunded" /\ P!Refunding(w.payment) # {}
                  THEN raced \cup {w.key} ELSE raced \ {w.key}
  BY <1>2 DEF P!ApplyIntent, P!Finish, PaymentsInv, P!TypeOK
<1>4. req' = [req EXCEPT ![h] = [req[h] EXCEPT !.pc = "write"]]
  BY <1>3, WebhookFacts DEF P!Goto, PaymentsInv, P!TypeOK
<1>5. /\ \A g \in Handlers \ {h} : req'[g] = req[g]
      /\ req'[h].pc = "write" /\ req'[h].webhook = w
  BY <1>4, WebhookFacts DEF PaymentsInv, P!TypeOK, P!Request
<1>6. \A p \in Payments : \A i \in DOMAIN ledger[p] : ledger[p][i].key # w.key
  BY <1>1, ConstantsAssumption DEF MoneyInv, EntriesFit, P!PaymentsAssumption
<1>7. \A p \in Payments : P!Receipts(p)' = P!Receipts(p) /\ P!Refunds(p)' = P!Refunds(p)
  BY <1>1, <1>3, <1>6 DEF P!Receipts, P!Refunds
<1>8. \A p \in Payments : CameIn(p)' = CameIn(p) /\ WentBack(p)' = WentBack(p)
  BY <1>7 DEF CameIn, WentBack
<1>9. \A g \in Handlers \ {h}, p \in Payments : Alone(g, p)' => Alone(g, p)
  <2> SUFFICES ASSUME NEW g \in Handlers \ {h}, NEW p \in Payments, Alone(g, p)' PROVE Alone(g, p)
    OBVIOUS
  <2>1. g \in P!Refunding(p) /\ req[g].webhook.key \notin raced'
    BY <1>5 DEF Alone, P!Refunding
  <2>2. req[g].webhook.key # w.key
    BY <1>1, <2>1 DEF P!Refunding, PaymentsInv, OneAtWork, Working
  <2> QED
    BY <1>3, <2>1, <2>2 DEF Alone
<1>10. ASSUME NEW p \in Payments, Alone(h, p)'
       PROVE  /\ \A g \in Handlers : g \notin P!Refunding(p)
              /\ payment[p].state \in {"PAID", "PARTIALLY_REFUNDED"}
  <2>1. p = w.payment /\ w.intent = "mark_refunded" /\ w.key \notin raced'
    BY <1>5, <1>10 DEF Alone, P!Refunding
  <2>2. P!Refunding(p) = {}
    BY <1>3, <2>1
  <2>3. P!Published(w.payment) /\ P!Exists(w.payment)
    BY <1>1 DEF PaymentsInv, RequestsFit, RequestFits, P!Published
  <2>4. payment[p].state \in P!States
    BY <1>1, <2>1, <2>3 DEF PaymentsInv, P!TypeOK, P!PaymentRow, P!Exists, P!NoRow
  <2>5. payment[p].state \in {"PAID", "PARTIALLY_REFUNDED"}
    BY <1>3, <2>1, <2>4 DEF P!Applies, P!StateFor, P!ALLOWED_TRANSITIONS, P!States
  <2> QED
    BY <2>2, <2>5
<1>11. NoMoreOut'
  <2> SUFFICES ASSUME NEW p \in Payments
               PROVE  /\ WentBack(p)' <= CameIn(p)'
                      /\ payment'[p].state \in {"PAID", "PARTIALLY_REFUNDED"} => WentBack(p)' < CameIn(p)'
                      /\ \A f \in Handlers : Alone(f, p)' =>
                           WentBack(p)' < CameIn(p)' /\ \A g \in Handlers : Alone(g, p)' => g = f
    BY DEF NoMoreOut
  <2>1. /\ WentBack(p) <= CameIn(p)
        /\ payment[p].state \in {"PAID", "PARTIALLY_REFUNDED"} => WentBack(p) < CameIn(p)
        /\ \A f \in Handlers : Alone(f, p) =>
             WentBack(p) < CameIn(p) /\ \A g \in Handlers : Alone(g, p) => g = f
    BY DEF MoneyInv, NoMoreOut
  <2>2. Alone(h, p)' => /\ \A g \in Handlers : Alone(g, p)' => g = h
                        /\ WentBack(p) < CameIn(p)
    BY <1>9, <1>10, <2>1 DEF Alone
  <2> QED
    BY <1>1, <1>8, <1>9, <2>1, <2>2
<1>12. EntriesFit'
  BY <1>1, <1>3 DEF MoneyInv, EntriesFit, P!Total
<1> QED
  BY <1>11, <1>12 DEF MoneyInv

\* A settlement: a receipt is one more that came in, and a refund that was alone
\* uses the receipt that was left for it.
LEMMA MoneySettle ==
  ASSUME PaymentsInv, MoneyInv, NEW h \in Handlers, NEW p \in Payments, P!Published(p),
         NEW key \in Keys \cup {CashKey}, NEW ext \in Externals \cup {CashKey}, NEW intent, NEW paid \in Nat,
         IntentFits(p, intent, paid), P!Settle(p, key, ext, intent, paid), P!Finish(h), UNCHANGED raced,
         processed \subseteq processed', key \in processed' \cup {CashKey},
         intent = "mark_refunded" => h \in P!Refunding(p) /\ key = req[h].webhook.key
  PROVE  MoneyInv'
<1> DEFINE n == Len(ledger[p]) + 1
           entry == [key |-> key, externalId |-> ext, intent |-> intent, amount |-> paid]
<1>1. P!TypeOK
  BY DEF PaymentsInv
<1>2. /\ payment'[p].state = "PAID" <=> intent = "mark_paid"
      /\ payment'[p].state \in {"PAID", "FAILED", "CANCELLED", "REFUNDED"}
      /\ \A q \in Payments : payment'[q].order = payment[q].order
      /\ \A q \in Payments \ {p} : payment'[q] = payment[q] /\ ledger'[q] = ledger[q]
      /\ ledger'[p] = Append(ledger[p], entry) /\ entry \in P!Entry
  BY <1>1, SettleFacts
<1>3. /\ DOMAIN ledger'[p] = DOMAIN ledger[p] \cup {n} /\ n \notin DOMAIN ledger[p]
      /\ \A i \in DOMAIN ledger[p] : ledger'[p][i] = ledger[p][i]
      /\ ledger'[p][n].key = key /\ ledger'[p][n].intent = intent /\ ledger'[p][n].amount = paid
  <2>1. /\ DOMAIN ledger'[p] = DOMAIN ledger[p] \cup {n} /\ n \in Nat
        /\ \A i \in DOMAIN ledger[p] : ledger'[p][i] = ledger[p][i] /\ i \in Nat /\ i < n
        /\ ledger'[p][n] = entry
    BY <1>1, <1>2, AppendFacts DEF P!TypeOK
  <2> HIDE DEF n
  <2> QED
    BY <2>1
<1> HIDE DEF n, entry
<1>4. \A q \in Payments : P!Total(q)' = P!Total(q)
  BY <1>2 DEF P!Total
<1>5. EntriesFit'
  <2> SUFFICES ASSUME NEW q \in Payments, NEW i \in DOMAIN ledger'[q]
               PROVE  /\ ledger'[q][i].intent = "mark_paid" => ledger'[q][i].amount = P!Total(q)'
                      /\ ledger'[q][i].key \in processed' \cup {CashKey}
    BY DEF EntriesFit
  <2>1. \A j \in DOMAIN ledger[q] :
          /\ ledger[q][j].intent = "mark_paid" => ledger[q][j].amount = P!Total(q)'
          /\ ledger[q][j].key \in processed' \cup {CashKey}
    BY <1>4 DEF MoneyInv, EntriesFit
  <2>2. intent = "mark_paid" => paid = P!Total(p)'
    BY <1>4 DEF IntentFits
  <2>3. CASE q # p
    BY <1>2, <2>1, <2>3
  <2>4. CASE q = p /\ i # n
    BY <1>3, <2>1, <2>4
  <2>5. CASE q = p /\ i = n
    BY <1>3, <2>2, <2>5
  <2> QED
    BY <2>3, <2>4, <2>5
<1>6. \A g \in Handlers : req'[g] = IF g = h THEN P!Idle ELSE req[g]
  BY <1>1 DEF P!Finish, P!TypeOK
<1>7. \A g \in Handlers, q \in Payments : Alone(g, q)' => g # h /\ Alone(g, q)
  BY <1>6, IdleFacts DEF Alone, P!Refunding
<1>8. \A q \in Payments \ {p} : CameIn(q)' = CameIn(q) /\ WentBack(q)' = WentBack(q)
  BY <1>2 DEF CameIn, WentBack, P!Receipts, P!Refunds
<1>9. CameIn(p) \in Nat /\ WentBack(p) \in Nat /\ IsFiniteSet(P!Receipts(p)) /\ IsFiniteSet(P!Refunds(p))
  BY <1>1, CountFacts
<1>10. CameIn(p)' = IF intent = "mark_paid" THEN CameIn(p) + 1 ELSE CameIn(p)
  <2>1. n \notin P!Receipts(p)
    BY <1>3 DEF P!Receipts
  <2>2. P!Receipts(p)' = IF intent = "mark_paid" THEN P!Receipts(p) \cup {n} ELSE P!Receipts(p)
    BY <1>3 DEF P!Receipts
  <2> QED
    BY <1>9, <2>1, <2>2, FS_AddElement DEF CameIn
<1>11. WentBack(p)' = IF intent = "mark_refunded" /\ key \notin raced THEN WentBack(p) + 1 ELSE WentBack(p)
  <2>1. n \notin P!Refunds(p)
    BY <1>3 DEF P!Refunds
  <2>2. P!Refunds(p)' = IF intent = "mark_refunded" /\ key \notin raced
                        THEN P!Refunds(p) \cup {n} ELSE P!Refunds(p)
    BY <1>3 DEF P!Refunds
  <2> QED
    BY <1>9, <2>1, <2>2, FS_AddElement DEF WentBack
<1>12. /\ WentBack(p) <= CameIn(p)
       /\ \A f \in Handlers : Alone(f, p) =>
            WentBack(p) < CameIn(p) /\ \A g \in Handlers : Alone(g, p) => g = f
  BY DEF MoneyInv, NoMoreOut
<1>13. intent = "mark_refunded" /\ key \notin raced => Alone(h, p)
  BY DEF Alone
<1>14. /\ WentBack(p)' <= CameIn(p)'
       /\ payment'[p].state \in {"PAID", "PARTIALLY_REFUNDED"} => WentBack(p)' < CameIn(p)'
       /\ \A f \in Handlers : Alone(f, p)' => WentBack(p)' < CameIn(p)'
  <2>1. CASE intent = "mark_paid"
    BY <1>9, <1>10, <1>11, <1>12, <2>1
  <2>2. CASE intent = "mark_refunded" /\ key \notin raced
    BY <1>2, <1>7, <1>9, <1>10, <1>11, <1>12, <1>13, <2>2
  <2>3. CASE intent # "mark_paid" /\ ~(intent = "mark_refunded" /\ key \notin raced)
    BY <1>2, <1>7, <1>9, <1>10, <1>11, <1>12, <2>3
  <2> QED
    BY <2>1, <2>2, <2>3
<1>15. NoMoreOut'
  <2> SUFFICES ASSUME NEW q \in Payments
               PROVE  /\ WentBack(q)' <= CameIn(q)'
                      /\ payment'[q].state \in {"PAID", "PARTIALLY_REFUNDED"} => WentBack(q)' < CameIn(q)'
                      /\ \A f \in Handlers : Alone(f, q)' =>
                           WentBack(q)' < CameIn(q)' /\ \A g \in Handlers : Alone(g, q)' => g = f
    BY DEF NoMoreOut
  <2>1. \A f, g \in Handlers : Alone(f, q)' /\ Alone(g, q)' => g = f
    BY <1>7 DEF MoneyInv, NoMoreOut
  <2>2. CASE q = p
    BY <1>14, <2>1, <2>2
  <2>3. CASE q # p
    BY <1>2, <1>7, <1>8, <2>1, <2>3 DEF MoneyInv, NoMoreOut
  <2> QED
    BY <2>2, <2>3
<1> QED
  BY <1>5, <1>15 DEF MoneyInv

\* Every step keeps it.
LEMMA MoneyNext ==
  ASSUME PaymentsInv, MoneyInv, P!Next
  PROVE  MoneyInv'
<1>1. PICK h \in Handlers :
      \/ \E o \in Orders, method \in P!Providers : P!CheckUnpaid(h, o, method)
      \/ \E o \in Orders : P!CheckCash(h, o)
      \/ \E o \in Orders, next \in StaffMoves : P!ReadForStatus(h, o, next)
      \/ \E w \in Webhooks : P!ReceiveWebhook(h, w)
      \/ P!InsertKey(h) \/ P!WriteStatus(h) \/ P!Abort(h)
      \/ \E p \in Payments : P!CreatePayment(h, p) \/ P!CreateCash(h, p)
      \/ P!PublishPayment(h)
      \/ P!ApplyIntent(h) \/ P!WriteIntent(h) \/ P!SettleCash(h)
  BY DEF P!Next
<1>2. CASE \/ \E o \in Orders, method \in P!Providers : P!CheckUnpaid(h, o, method)
           \/ \E o \in Orders : P!CheckCash(h, o)
           \/ \E o \in Orders, next \in StaffMoves : P!ReadForStatus(h, o, next)
           \/ \E w \in Webhooks : P!ReceiveWebhook(h, w)
           \/ P!InsertKey(h) \/ P!WriteStatus(h) \/ P!Abort(h)
  <2>1. /\ UNCHANGED <<payment, ledger, raced, processed>>
        /\ \E r : req' = [req EXCEPT ![h] = r] /\ r.pc # "write"
    <3>1. UNCHANGED <<payment, ledger, raced, processed>>
      BY <1>2 DEF P!CheckUnpaid, P!CheckCash, P!ReadForStatus, P!ReceiveWebhook, P!InsertKey, P!WriteStatus, P!Abort
    <3>2. CASE P!InsertKey(h) \/ P!WriteStatus(h) \/ P!Abort(h)
      <4>1. P!Goto(h, "apply") \/ P!Finish(h)
        BY <3>2 DEF P!InsertKey, P!WriteStatus, P!Abort
      <4>2. CASE P!Goto(h, "apply")
        <5>1. req' = [req EXCEPT ![h] = [req[h] EXCEPT !.pc = "apply"]] /\ [req[h] EXCEPT !.pc = "apply"].pc = "apply"
          BY <4>2, WebhookFacts DEF P!Goto, PaymentsInv, P!TypeOK, P!Request
        <5> QED
          BY <3>1, <5>1
      <4> QED
        BY <3>1, <4>1, <4>2, IdleFacts DEF P!Finish
    <3>3. CASE \/ \E o \in Orders, method \in P!Providers : P!CheckUnpaid(h, o, method)
               \/ \E o \in Orders : P!CheckCash(h, o)
               \/ \E o \in Orders, next \in StaffMoves : P!ReadForStatus(h, o, next)
               \/ \E w \in Webhooks : P!ReceiveWebhook(h, w)
      <4> DEFINE Begins == \E r : req' = [req EXCEPT ![h] = r] /\ r.pc \in {"create", "cash", "status", "insert"}
      <4>1. ASSUME NEW o, NEW method, P!CheckUnpaid(h, o, method) PROVE Begins
        <5>1. [P!Idle EXCEPT !.pc = "create", !.order = o, !.provider = method].pc = "create"
          BY IdleFacts DEF P!Request
        <5> QED
          BY <4>1, <5>1 DEF P!CheckUnpaid, P!Begin
      <4>2. ASSUME NEW o, P!CheckCash(h, o) PROVE Begins
        <5>1. [P!Idle EXCEPT !.pc = "cash", !.order = o].pc = "cash"
          BY IdleFacts DEF P!Request
        <5> QED
          BY <4>2, <5>1 DEF P!CheckCash, P!Begin
      <4>3. ASSUME NEW o, NEW next, P!ReadForStatus(h, o, next) PROVE Begins
        <5>1. [P!Idle EXCEPT !.pc = "status", !.order = o, !.next = next].pc = "status"
          BY IdleFacts DEF P!Request
        <5> QED
          BY <4>3, <5>1 DEF P!ReadForStatus, P!Begin
      <4>4. ASSUME NEW w, P!ReceiveWebhook(h, w) PROVE Begins
        <5>1. [P!Idle EXCEPT !.pc = "insert", !.webhook = w].pc = "insert"
          BY IdleFacts DEF P!Request
        <5> QED
          BY <4>4, <5>1 DEF P!ReceiveWebhook, P!Begin
      <4>5. Begins
        BY <3>3, <4>1, <4>2, <4>3, <4>4
      <4> QED
        BY <3>1, <4>5
    <3> QED
      BY <1>2, <3>2, <3>3
  <2>2. \A g \in Handlers : req'[g].pc = "write" => req'[g] = req[g]
    BY <2>1 DEF PaymentsInv, P!TypeOK
  <2>3. \A p \in Payments : P!Total(p)' = P!Total(p)
    BY <2>1 DEF P!Total
  <2> QED
    BY <2>1, <2>2, <2>3, MoneyFrame
<1>3. ASSUME NEW p \in Payments, P!CreatePayment(h, p) \/ P!CreateCash(h, p)
      PROVE  MoneyInv'
  <2>1. /\ ~P!Exists(p) /\ UNCHANGED <<ledger, raced, processed>>
        /\ \E pc \in {"publish", "settle"} : req' = [req EXCEPT ![h].pc = pc, ![h].payment = p]
        /\ \E row : row.state = "PENDING" /\ payment' = [payment EXCEPT ![p] = row]
    <3>1. \E row : row.state = "PENDING" /\ payment' = [payment EXCEPT ![p] = row]
      <4>1. \A o, method : [state |-> "PENDING", order |-> o, provider |-> method].state = "PENDING"
        OBVIOUS
      <4> QED
        BY <1>3, <4>1 DEF P!CreatePayment, P!CreateCash
    <3> QED
      BY <1>3, <3>1 DEF P!CreatePayment, P!CreateCash
  <2>2. PICK pc \in {"publish", "settle"} : req' = [req EXCEPT ![h].pc = pc, ![h].payment = p]
    BY <2>1
  <2>3. req' = [req EXCEPT ![h] = [req[h] EXCEPT !.pc = pc, !.payment = p]]
    BY <2>2, WebhookFacts DEF PaymentsInv, P!TypeOK
  <2>4. [req[h] EXCEPT !.pc = pc, !.payment = p].pc # "write"
    BY WebhookFacts DEF PaymentsInv, P!Request
  <2>5. \A g \in Handlers : req'[g].pc = "write" => req'[g] = req[g]
    BY <2>3, <2>4 DEF PaymentsInv, P!TypeOK
  <2>6. ledger[p] = <<>>
    BY <2>1 DEF PaymentsInv, RowsFit
  <2>7. /\ \A q \in Payments \ {p} : payment'[q] = payment[q]
        /\ payment'[p].state = "PENDING"
    BY <2>1 DEF PaymentsInv, P!TypeOK
  <2>8. \A q \in Payments : P!Total(q)' = P!Total(q) \/ ledger[q] = <<>>
    BY <2>6, <2>7 DEF P!Total
  <2> QED
    BY <2>1, <2>5, <2>7, <2>8, MoneyFrame
<1>4. CASE P!PublishPayment(h)
  <2>1. UNCHANGED <<ledger, raced, processed>> /\ P!Finish(h)
        /\ payment' = [payment EXCEPT ![req[h].payment].state = "PENDING"]
    BY <1>4 DEF P!PublishPayment
  <2>2. \A g \in Handlers : req'[g].pc = "write" => req'[g] = req[g]
    BY <2>1, IdleFacts DEF P!Finish, PaymentsInv, P!TypeOK
  <2>3. payment[req[h].payment] \in P!PaymentRow
    BY WebhookFacts DEF PaymentsInv, P!TypeOK
  <2>4. \A q \in Payments : payment'[q].order = payment[q].order
                            /\ (payment'[q].state = payment[q].state \/ payment'[q].state = "PENDING")
    BY <2>1, <2>3 DEF PaymentsInv, P!TypeOK, P!PaymentRow
  <2>5. \A q \in Payments : P!Total(q)' = P!Total(q)
    BY <2>4 DEF P!Total
  <2> QED
    BY <2>1, <2>2, <2>4, <2>5, MoneyFrame
<1>5. CASE P!ApplyIntent(h)
  <2>1. CASE req'[h].pc = "write"
    BY <1>5, <2>1, MoneyApply
  <2>2. CASE req'[h].pc # "write"
    <3>1. P!Finish(h) \/ P!Goto(h, "write")
      BY <1>5 DEF P!ApplyIntent
    <3>2. P!Goto(h, "write") => req'[h].pc = "write"
      BY WebhookFacts DEF P!Goto, PaymentsInv, P!TypeOK, P!Request
    <3>3. P!Finish(h) /\ ~P!Goto(h, "write")
      BY <2>2, <3>1, <3>2
    <3>4. UNCHANGED <<payment, ledger, raced>> /\ processed \subseteq processed'
      BY <1>5, <3>3 DEF P!ApplyIntent, P!Commit
    <3>5. \A g \in Handlers : req'[g].pc = "write" => req'[g] = req[g]
      BY <3>3, IdleFacts DEF P!Finish, PaymentsInv, P!TypeOK
    <3>6. \A p \in Payments : P!Total(p)' = P!Total(p)
      BY <3>4 DEF P!Total
    <3> QED
      BY <3>4, <3>5, <3>6, MoneyFrame
  <2> QED
    BY <2>1, <2>2
<1>6. CASE P!WriteIntent(h)
  <2>1. req[h].pc = "write" /\ P!Finish(h) /\ UNCHANGED raced
    BY <1>6 DEF P!WriteIntent
  <2>2. CASE UNCHANGED <<payment, ledger, processed>>
    <3>1. \A g \in Handlers : req'[g].pc = "write" => req'[g] = req[g]
      BY <2>1, IdleFacts DEF P!Finish, PaymentsInv, P!TypeOK
    <3>2. \A p \in Payments : P!Total(p)' = P!Total(p)
      BY <2>2 DEF P!Total
    <3> QED
      BY <2>1, <2>2, <3>1, <3>2, MoneyFrame
  <2>3. CASE ~UNCHANGED <<payment, ledger, processed>>
    <3> DEFINE w == req[h].webhook
    <3>1. P!Settle(w.payment, w.key, w.externalId, w.intent, w.amount) /\ P!Commit(w)
      BY <1>6, <2>3 DEF P!WriteIntent
    <3>2. P!Published(w.payment) /\ IntentFits(w.payment, w.intent, w.amount)
      BY <2>1 DEF PaymentsInv, RequestsFit, RequestFits
    <3>3. w.intent = "mark_refunded" => h \in P!Refunding(w.payment)
      BY <2>1 DEF P!Refunding
    <3>4. PICK p0, key0, ext0, intent0, paid0 : p0 = w.payment /\ key0 = w.key /\ ext0 = w.externalId
                                               /\ intent0 = w.intent /\ paid0 = w.amount
      OBVIOUS
    <3>5. /\ p0 \in Payments /\ key0 \in Keys \cup {CashKey} /\ paid0 \in Nat
          /\ ext0 \in Externals \cup {CashKey}
      BY <3>4, WebhookFacts DEF PaymentsInv
    <3>6. /\ P!Published(p0) /\ IntentFits(p0, intent0, paid0)
          /\ P!Settle(p0, key0, ext0, intent0, paid0)
          /\ intent0 = "mark_refunded" => h \in P!Refunding(p0) /\ key0 = req[h].webhook.key
          /\ processed \subseteq processed' /\ key0 \in processed' \cup {CashKey}
      BY <3>1, <3>2, <3>3, <3>4 DEF P!Commit
    <3> QED
      BY <2>1, <3>5, <3>6, MoneySettle
  <2> QED
    BY <2>2, <2>3
<1>7. CASE P!SettleCash(h)
  <2>1. PICK p \in Payments : p = req[h].payment
    BY WebhookFacts DEF PaymentsInv
  <2>2. PICK paid \in Nat : paid = P!Total(p)
    BY <2>1, TotalFacts DEF PaymentsInv
  <2>3. P!Settle(p, CashKey, CashKey, "mark_paid", paid) /\ P!Finish(h) /\ UNCHANGED <<processed, raced>>
    BY <1>7, <2>1, <2>2 DEF P!SettleCash
  <2>4. P!Published(p) /\ IntentFits(p, "mark_paid", paid)
    BY <1>7, <2>1, <2>2 DEF P!SettleCash, PaymentsInv, RequestsFit, RequestFits, IntentFits
  <2> QED
    BY <2>3, <2>4, MoneySettle
<1> QED
  BY <1>1, <1>2, <1>3, <1>4, <1>5, <1>6, <1>7

\* So no more goes back than came in.
LEMMA MoneyCovered == PaymentsInv /\ MoneyInv => P!RefundsAreCovered
<1>2. \A S : P!Cardinality(S) = Cardinality(S)
  BY DEF P!Cardinality, Cardinality
<1> SUFFICES ASSUME PaymentsInv, MoneyInv, NEW p \in Payments
             PROVE  /\ \A i \in DOMAIN ledger[p] : ledger[p][i].intent = "mark_refunded" =>
                         /\ \E j \in P!Receipts(p) : j < i
                         /\ \A j \in P!Receipts(p) : ledger[p][i].amount <= ledger[p][j].amount
                    /\ P!Cardinality(P!Refunds(p)) <= P!Cardinality(P!Receipts(p))
  BY DEF P!RefundsAreCovered
<1>1. ASSUME NEW i \in DOMAIN ledger[p], ledger[p][i].intent = "mark_refunded"
      PROVE  /\ \E j \in P!Receipts(p) : j < i
             /\ \A j \in P!Receipts(p) : ledger[p][i].amount <= ledger[p][j].amount
  <2>1. PICK j \in 1 .. (i - 1) : ledger[p][j].intent = "mark_paid" /\ ledger[p][j].amount >= ledger[p][i].amount
    BY <1>1 DEF PaymentsInv, RefundFollows
  <2>2. i \in Nat /\ j \in Nat /\ j < i /\ j \in DOMAIN ledger[p]
    BY DEF PaymentsInv, P!TypeOK
  <2>3. j \in P!Receipts(p)
    BY <2>1, <2>2 DEF P!Receipts
  <2>4. \A k \in P!Receipts(p) : ledger[p][k].amount = ledger[p][j].amount
    BY <2>3 DEF P!Receipts, MoneyInv, EntriesFit
  <2>5. ledger[p][i].amount \in Nat /\ ledger[p][j].amount \in Nat
    <3>1. ledger[p][i] \in P!Entry /\ ledger[p][j] \in P!Entry
      BY <2>2 DEF PaymentsInv, P!TypeOK
    <3> QED
      BY <3>1 DEF P!Entry
  <2> QED
    BY <2>1, <2>2, <2>3, <2>4, <2>5
<1> QED
  BY <1>1, <1>2 DEF MoneyInv, NoMoreOut, CameIn, WentBack

-----------------------------------------------------------------------------
(* Payments implements Inbox. *)

\* The ledger entries of key k, whose number EntriesOf counts.
EntriesAt(k) ==
  UNION { { <<p, i>> : i \in { j \in DOMAIN ledger[p] : ledger[p][j].key = k } } : p \in Payments }

EntriesFinite == \A k \in Keys : IsFiniteSet(EntriesAt(k))

\* What the refinement says of a step.
RecordsOnce ==
  \/ UNCHANGED <<processed, [k \in Keys |-> P!EntriesOf(k)]>>
  \/ \E k \in Keys : P!Replay!Handle(k)

\* The two ways to count are one.
LEMMA EntriesCounted ==
  ASSUME NEW k \in Keys
  PROVE  /\ P!EntriesOf(k) = Cardinality(EntriesAt(k))
         /\ P!EntriesOf(k)' = Cardinality(EntriesAt(k)')
<1>1. \A S : P!Cardinality(S) = Cardinality(S)
  BY DEF P!Cardinality, Cardinality
<1> QED
  BY <1>1 DEF P!EntriesOf, EntriesAt

\* An entry is an index into a ledger.
LEMMA EntryAt ==
  ASSUME NEW k, NEW p, NEW i
  PROVE  <<p, i>> \in EntriesAt(k) <=> p \in Payments /\ i \in DOMAIN ledger[p] /\ ledger[p][i].key = k
BY DEF EntriesAt

\* Every entry is one.
LEMMA EntryIs ==
  ASSUME NEW k, NEW e \in EntriesAt(k)
  PROVE  \E p \in Payments : \E i \in DOMAIN ledger[p] : e = <<p, i>> /\ ledger[p][i].key = k
BY DEF EntriesAt

\* Settling adds one entry of its key.
LEMMA EntriesGrow ==
  ASSUME P!TypeOK, NEW p \in Payments, NEW key \in Keys \cup {CashKey}, NEW intent, NEW paid \in Nat,
         NEW ext \in Externals \cup {CashKey}, IntentFits(p, intent, paid), P!Settle(p, key, ext, intent, paid), NEW k \in Keys
  PROVE  /\ k # key => EntriesAt(k)' = EntriesAt(k)
         /\ k = key => \E e : e \notin EntriesAt(k) /\ EntriesAt(k)' = EntriesAt(k) \cup {e}
<1> DEFINE n == Len(ledger[p]) + 1
<1>1. /\ \A q \in Payments \ {p} : ledger'[q] = ledger[q]
      /\ ledger'[p] = Append(ledger[p], [key |-> key, externalId |-> ext, intent |-> intent, amount |-> paid])
      /\ [key |-> key, externalId |-> ext, intent |-> intent, amount |-> paid] \in P!Entry
  BY SettleFacts
<1>2. /\ DOMAIN ledger'[p] = DOMAIN ledger[p] \cup {n} /\ n \notin DOMAIN ledger[p]
      /\ \A i \in DOMAIN ledger[p] : ledger'[p][i] = ledger[p][i]
      /\ ledger'[p][n].key = key
  <2>1. /\ DOMAIN ledger'[p] = DOMAIN ledger[p] \cup {n} /\ n \in Nat
        /\ \A i \in DOMAIN ledger[p] : ledger'[p][i] = ledger[p][i] /\ i < n
        /\ ledger'[p][n] = [key |-> key, externalId |-> ext, intent |-> intent, amount |-> paid]
    BY <1>1, AppendFacts DEF P!TypeOK
  <2> QED
    BY <2>1
<1> HIDE DEF n
<1>3. \A q \in Payments : \A i : (i \in DOMAIN ledger'[q] /\ ledger'[q][i].key = k) <=>
         \/ i \in DOMAIN ledger[q] /\ ledger[q][i].key = k
         \/ q = p /\ i = n /\ k = key
  BY <1>1, <1>2
<1>4. \A e : e \in EntriesAt(k)' <=> e \in EntriesAt(k) \/ (e = <<p, n>> /\ k = key)
  BY <1>3 DEF EntriesAt
<1>5. <<p, n>> \notin EntriesAt(k)
  BY <1>2, EntryAt
<1> QED
  BY <1>4, <1>5

\* A step that leaves the ledger alone leaves the entries of every key alone.
LEMMA EntriesStay ==
  ASSUME UNCHANGED ledger, EntriesFinite
  PROVE  EntriesFinite' /\ \A k \in Keys : P!EntriesOf(k)' = P!EntriesOf(k)
<1>1. \A k \in Keys : EntriesAt(k)' = EntriesAt(k)
  BY DEF EntriesAt
<1> QED
  BY <1>1, EntriesCounted DEF EntriesFinite, P!EntriesOf

\* The transaction of a key records it once, with one entry; one at the counter
\* has no key; the others record nothing or, with a void intent, no entry.
LEMMA RecordsStep ==
  ASSUME PaymentsInv, EntriesFinite, P!Next
  PROVE  EntriesFinite' /\ RecordsOnce
<1>1. PICK h \in Handlers :
      \/ UNCHANGED <<ledger, processed>>
      \/ P!ApplyIntent(h) \/ P!WriteIntent(h) \/ P!SettleCash(h)
  BY DEF P!Next, P!CheckUnpaid, P!CreatePayment, P!PublishPayment, P!ReceiveWebhook, P!InsertKey,
     P!CheckCash, P!CreateCash, P!ReadForStatus, P!WriteStatus, P!Abort
<1>2. CASE UNCHANGED <<ledger, processed>>
  BY <1>2, EntriesStay DEF RecordsOnce
<1>3. CASE P!ApplyIntent(h)
  <2>1. /\ UNCHANGED ledger /\ Working(h)
        /\ UNCHANGED processed \/ P!Commit(req[h].webhook)
    BY <1>3 DEF P!ApplyIntent, Working
  <2>2. CASE UNCHANGED processed
    BY <2>1, <2>2, EntriesStay DEF RecordsOnce
  <2>3. CASE P!Commit(req[h].webhook)
    <3>1. PICK k \in Keys : k = req[h].webhook.key
      BY WebhookFacts DEF PaymentsInv
    <3>2. k \notin processed /\ processed' = processed \cup {k}
      BY <2>1, <2>3, <3>1 DEF PaymentsInv, OneAtWork, P!Commit
    <3> QED
      BY <2>1, <3>2, EntriesStay DEF RecordsOnce, P!Replay!Handle
  <2> QED
    BY <2>1, <2>2, <2>3
<1>4. CASE P!WriteIntent(h)
  <2>1. CASE P!RefundRefused(req[h].webhook)
    BY <1>4, <2>1, EntriesStay DEF RecordsOnce, P!WriteIntent
  <2>3. CASE ~P!RefundRefused(req[h].webhook) /\ P!HeldElsewhere(req[h].webhook)
    BY <1>4, <2>3, EntriesStay DEF RecordsOnce, P!WriteIntent
  <2>2. CASE ~P!RefundRefused(req[h].webhook) /\ ~P!HeldElsewhere(req[h].webhook)
    <3>1. PICK w \in Webhooks : w = req[h].webhook /\ w.payment \in Payments /\ w.key \in Keys /\ w.amount \in Nat
      BY WebhookFacts DEF PaymentsInv
    <3>2. PICK k \in Keys, p \in Payments, paid \in Nat :
            k = w.key /\ p = w.payment /\ paid = w.amount
      BY <3>1
    <3>11. PICK intent, ext : intent = w.intent /\ ext = w.externalId /\ ext \in Externals
      BY <3>1, WebhookFacts DEF PaymentsInv
    <3>3. P!Settle(p, k, ext, intent, paid) /\ processed' = processed \cup {k}
      BY <1>4, <2>2, <3>1, <3>2, <3>11 DEF P!WriteIntent, P!Commit
    <3>4. k \notin processed /\ IntentFits(p, intent, paid)
      BY <1>4, <3>1, <3>2, <3>11 DEF P!WriteIntent, PaymentsInv, OneAtWork, Working, RequestsFit, RequestFits
    <3>5. \A c \in Keys \ {k} : EntriesAt(c)' = EntriesAt(c)
      BY <3>3, <3>4, <3>11, EntriesGrow DEF PaymentsInv
    <3>6. PICK e : e \notin EntriesAt(k) /\ EntriesAt(k)' = EntriesAt(k) \cup {e}
      BY <3>3, <3>4, <3>11, EntriesGrow DEF PaymentsInv
    <3>7. IsFiniteSet(EntriesAt(k))' /\ Cardinality(EntriesAt(k))' = Cardinality(EntriesAt(k)) + 1
      BY <3>6, FS_AddElement DEF EntriesFinite
    <3>8. EntriesFinite'
      BY <3>5, <3>7 DEF EntriesFinite
    <3>9. /\ P!EntriesOf(k)' = P!EntriesOf(k) + 1
          /\ \A c \in Keys \ {k} : P!EntriesOf(c)' = P!EntriesOf(c)
      BY <3>5, <3>7, EntriesCounted
    <3>10. P!Replay!Handle(k)
      BY <3>3, <3>4, <3>9 DEF P!Replay!Handle
    <3> QED
      BY <3>8, <3>10 DEF RecordsOnce
  <2> QED
    BY <2>1, <2>2, <2>3
<1>5. CASE P!SettleCash(h)
  <2>1. PICK p \in Payments : p = req[h].payment
    BY WebhookFacts DEF PaymentsInv
  <2>2. PICK paid \in Nat : paid = P!Total(p)
    BY TotalFacts DEF PaymentsInv
  <2>3. P!Settle(p, CashKey, CashKey, "mark_paid", paid) /\ UNCHANGED processed
    BY <1>5, <2>1, <2>2 DEF P!SettleCash
  <2>4. IntentFits(p, "mark_paid", paid)
    BY <2>2 DEF IntentFits
  <2>5. \A k \in Keys : EntriesAt(k)' = EntriesAt(k)
    <3>1. \A k \in Keys : k # CashKey
      BY ConstantsAssumption DEF P!PaymentsAssumption
    <3> QED
      BY <2>3, <2>4, <3>1, EntriesGrow DEF PaymentsInv
  <2> QED
    BY <2>3, <2>5, EntriesCounted DEF EntriesFinite, RecordsOnce
<1> QED
  BY <1>1, <1>2, <1>3, <1>4, <1>5

-----------------------------------------------------------------------------
(* Gateways. *)

\* Money that came in is in the ledger, or the payment was given up first.
Settled ==
  \E i \in DOMAIN entries :
    \/ entries[i].method \in G!Taking
    \/ i = 1 /\ G!IntentOf(entries[i]) \in {"mark_cancelled", "mark_failed"}

\* What has been done about a call that took the payer's money, once the call is
\* on record or answered; and what stands behind the state of the payment.
GatewaysInv ==
  /\ G!TypeOK
  /\ \A c \in sent : amount[c.tx] # G!NotOpen
  /\ state = "PENDING" => entries = <<>>
  /\ state = "PAID" => \E c \in sent : c.method \in G!Taking /\ G!SomOf(amount[c.tx]) = Price
  /\ state # "PENDING" => Settled
  /\ \A c \in G!Call : c.method \in G!Taking \cap named /\ (G!Key(c) \in keys \/ c \in accepted) => Settled

\* Nothing has been opened, sent or delivered.
LEMMA GatewaysInit == G!Init => GatewaysInv
BY DEF G!Init, GatewaysInv, G!TypeOK, Settled, G!NotOpen, G!Key, G!Taking

\* A transaction that was sent has its amount for good.
LEMMA OpenKeeps ==
  ASSUME GatewaysInv, NEW t \in Transactions, NEW tiyin \in Amounts, G!Open(t, tiyin)
  PROVE  GatewaysInv'
<1>1. tiyin \in Nat
  BY ConstantsAssumption DEF G!GatewaysAssumption
<1>2. /\ amount' \in [Transactions -> Nat]
      /\ \A x \in Transactions : amount[x] # G!NotOpen => amount'[x] = amount[x]
  BY <1>1 DEF G!Open, GatewaysInv, G!TypeOK
<1>3. \A c \in sent : c.tx \in Transactions
  BY DEF GatewaysInv, G!TypeOK, G!Call
<1>4. \A c \in sent : amount'[c.tx] = amount[c.tx] /\ amount'[c.tx] # G!NotOpen
  BY <1>2, <1>3 DEF GatewaysInv
<1>5. UNCHANGED <<provider, named, sent, accepted, state, entries, keys>>
  BY DEF G!Open
<1>6. \A c : c.method \in G!Taking => G!Key(c)' = G!Key(c)
  BY DEF G!Key, G!Taking
<1>7. Settled' <=> Settled
  BY <1>5 DEF Settled
<1>8. state' = "PAID" => \E c \in sent' : c.method \in G!Taking /\ G!SomOf(amount'[c.tx]) = Price
  BY <1>4, <1>5 DEF GatewaysInv
<1> QED
  BY <1>2, <1>4, <1>5, <1>6, <1>7, <1>8 DEF GatewaysInv, G!TypeOK

\* A provider makes a call about an open transaction.
LEMMA SendKeeps ==
  ASSUME GatewaysInv, NEW call \in G!Call, G!Send(call)
  PROVE  GatewaysInv'
<1>1. /\ sent' = sent \cup {call} /\ amount[call.tx] # G!NotOpen
      /\ UNCHANGED <<provider, named, amount, accepted, state, entries, keys>>
  BY DEF G!Send
<1>2. Settled' <=> Settled
  BY <1>1 DEF Settled
<1>3. \A c : G!Key(c)' = G!Key(c)
  BY <1>1 DEF G!Key
<1>4. state' = "PAID" => \E c \in sent' : c.method \in G!Taking /\ G!SomOf(amount'[c.tx]) = Price
  BY <1>1 DEF GatewaysInv
<1> QED
  BY <1>1, <1>2, <1>3, <1>4 DEF GatewaysInv, G!TypeOK

\* Two calls about money with one key are one call.
LEMMA KeysDiffer ==
  ASSUME NEW c \in G!Call, NEW d \in G!Call, c.method \in G!Taking, G!Key(c) = G!Key(d)
  PROVE  c = d
<1>1. G!Key(c) = <<c.tx, c.method>>
  BY DEF G!Key, G!Taking
<1>2. c.method # "check"
  BY DEF G!Taking
<1>3. G!Key(d) = <<d.tx, d.method>>
  BY <1>1, <1>2 DEF G!Key
<1>4. c.tx = d.tx /\ c.method = d.method
  <2>1. <<c.tx, c.method>> = <<d.tx, d.method>>
    BY <1>1, <1>3
  <2>2. <<c.tx, c.method>>[1] = <<d.tx, d.method>>[1] /\ <<c.tx, c.method>>[2] = <<d.tx, d.method>>[2]
    BY ONLY <2>1
  <2> QED
    BY ONLY <2>2
<1>5. c = [tx |-> c.tx, method |-> c.method] /\ d = [tx |-> d.tx, method |-> d.method]
  BY DEF G!Call
<1> QED
  BY <1>4, <1>5

\* A call that changes the state has settled the payment, one way or the other.
LEMMA AppliedSettles ==
  ASSUME GatewaysInv, NEW call \in G!Call, G!DeliverAndApply(call)
  PROVE  /\ Settled' /\ entries' \in Seq(G!Call) /\ entries' # <<>>
         /\ state' \in {"PAID", "FAILED", "CANCELLED", "REFUNDED"}
         /\ state' = "PAID" => call.method \in G!Taking
<1>1. /\ entries' = Append(entries, call) /\ state' \in G!StateFor(G!IntentOf(call))
      /\ G!Applicable(call)
  BY DEF G!DeliverAndApply
<1>2. entries \in Seq(G!Call) /\ state \in {"PENDING", "PAID", "FAILED", "CANCELLED", "REFUNDED"}
  BY DEF GatewaysInv, G!TypeOK
<1>3. /\ entries' \in Seq(G!Call) /\ DOMAIN entries' = DOMAIN entries \cup {Len(entries) + 1}
      /\ \A i \in DOMAIN entries : entries'[i] = entries[i]
      /\ entries'[Len(entries) + 1] = call
  BY <1>1, <1>2, AppendFacts
<1>4. /\ G!IntentOf(call) \in {"mark_paid", "mark_failed", "mark_cancelled", "mark_refunded"}
      /\ state' \in {"PAID", "FAILED", "CANCELLED", "REFUNDED"}
      /\ state' = "PAID" => G!IntentOf(call) = "mark_paid"
  BY <1>1 DEF G!StateFor
<1>5. G!IntentOf(call) = "mark_paid" => call.method \in G!Taking
  BY DEF G!IntentOf
<1>6. Settled'
  <2>1. CASE Settled
    BY <1>3, <2>1 DEF Settled
  <2>2. CASE state = "PENDING" /\ G!IntentOf(call) \in {"mark_paid", "mark_failed", "mark_cancelled"}
    <3>1. Len(entries) + 1 = 1
      BY <2>2 DEF GatewaysInv
    <3> QED
      BY <1>3, <1>5, <2>2, <3>1 DEF Settled
  <2>3. CASE state = "PENDING" /\ G!IntentOf(call) = "mark_refunded"
    BY <1>1, <2>3 DEF G!Applicable, G!StateFor, G!ALLOWED_TRANSITIONS, G!States
  <2> QED
    BY <1>4, <2>1, <2>2, <2>3 DEF GatewaysInv
<1>7. entries' # <<>>
  BY <1>3
<1> QED
  BY <1>3, <1>4, <1>5, <1>6, <1>7

\* A call about money whose key is on record, which is void, or which is applied
\* now, finds or leaves the payment settled.
LEMMA DeliverKeeps ==
  ASSUME GatewaysInv, NEW call \in G!Call,
         G!DeliverAgain(call) \/ G!DeliverVoid(call) \/ G!DeliverAndApply(call)
  PROVE  GatewaysInv'
<1>1. /\ call \in sent /\ accepted' \in {accepted, accepted \cup {call}}
      /\ UNCHANGED <<provider, named, amount, sent>>
  BY DEF G!DeliverAgain, G!DeliverVoid, G!DeliverAndApply, G!Answer
<1>2. keys' = keys \/ keys' = keys \cup {G!Key(call)}
  BY DEF G!DeliverAgain, G!DeliverVoid, G!DeliverAndApply
<1>3. \A c : G!Key(c)' = G!Key(c)
  BY <1>1 DEF G!Key
<1>4. CASE G!DeliverAndApply(call)
  <2>1. /\ Settled' /\ entries' \in Seq(G!Call) /\ entries' # <<>>
        /\ state' \in {"PAID", "FAILED", "CANCELLED", "REFUNDED"}
        /\ state' = "PAID" => call.method \in G!Taking
    BY <1>4, AppliedSettles
  <2>2. state' = "PAID" => call \in sent' /\ call.method \in G!Taking /\ G!SomOf(amount'[call.tx]) = Price
    BY <1>1, <1>4, <2>1 DEF G!DeliverAndApply, G!Settles, G!IntentOf, G!Taking
  <2>3. \A c \in sent' : amount'[c.tx] # G!NotOpen
    BY <1>1 DEF GatewaysInv
  <2>4. G!TypeOK'
    BY <1>1, <2>1 DEF GatewaysInv, G!TypeOK
  <2> QED
    BY <2>1, <2>2, <2>3, <2>4 DEF GatewaysInv
<1>5. CASE G!DeliverAgain(call) \/ G!DeliverVoid(call)
  <2>1. UNCHANGED <<state, entries>>
    BY <1>5 DEF G!DeliverAgain, G!DeliverVoid
  <2>2. Settled' <=> Settled
    BY <2>1 DEF Settled
  <2>8. named' = named
    BY <1>1
  <2>3. ASSUME call.method \in G!Taking \cap named PROVE Settled
    <3>1. CASE G!DeliverAgain(call)
      BY <2>3, <3>1 DEF G!DeliverAgain, GatewaysInv
    <3>2. CASE G!DeliverVoid(call)
      <4>1. G!IntentOf(call) = "mark_paid"
        BY <2>3 DEF G!IntentOf, G!Taking
      <4>2. state # "PENDING"
        BY <2>3, <3>2, <4>1 DEF G!DeliverVoid, G!Applicable, G!StateFor, G!ALLOWED_TRANSITIONS, G!States
      <4> QED
        BY <4>2 DEF GatewaysInv
    <3> QED
      BY <1>5, <3>1, <3>2
  <2>4. ASSUME NEW c \in G!Call, c.method \in G!Taking \cap named, G!Key(c)' \in keys' \/ c \in accepted'
        PROVE  Settled'
    <3>1. CASE c = call
      BY <2>2, <2>3, <2>4, <3>1
    <3>2. CASE c # call
      <4>1. G!Key(c) # G!Key(call)
        BY <2>4, <3>2, KeysDiffer
      <4> QED
        BY <1>1, <1>2, <1>3, <2>2, <2>4, <3>2, <4>1 DEF GatewaysInv
    <3> QED
      BY <3>1, <3>2
  <2>5. state' = "PAID" => \E c \in sent' : c.method \in G!Taking /\ G!SomOf(amount'[c.tx]) = Price
    BY <1>1, <2>1 DEF GatewaysInv
  <2>6. G!TypeOK'
    BY <1>1, <2>1 DEF GatewaysInv, G!TypeOK
  <2>7. \A c \in sent' : amount'[c.tx] # G!NotOpen
    BY <1>1 DEF GatewaysInv
  <2> QED
    BY <2>1, <2>2, <2>4, <2>5, <2>6, <2>7, <2>8 DEF GatewaysInv
<1> QED
  BY <1>4, <1>5

\* Every step of Gateways keeps the invariant.
LEMMA GatewaysNext == GatewaysInv /\ G!Next => GatewaysInv'
BY OpenKeeps, SendKeeps, DeliverKeeps DEF G!Next

\* To the nearest so'm: what rounds to the price is within half a so'm of it.
LEMMA Rounding ==
  ASSUME NEW tiyin \in Nat, G!SomOf(tiyin) = Price
  PROVE  2 * tiyin \in (2 * Price - 1) * G!TIYIN_PER_SOM .. (2 * Price + 1) * G!TIYIN_PER_SOM - 1
<1>1. Price \in Nat
  BY ConstantsAssumption DEF G!GatewaysAssumption
<1>2. (tiyin + 50) \div 100 = Price
  BY DEF G!SomOf, G!TIYIN_PER_SOM
<1>3. 100 * Price <= tiyin + 50 /\ tiyin + 50 <= 100 * Price + 99
  BY <1>1, <1>2
<1> QED
  BY <1>1, <1>3 DEF G!TIYIN_PER_SOM

\* So the invariant gives what the shop and the provider agree on.
LEMMA GatewaysAgree == GatewaysInv => G!MoneyAgrees
<1> SUFFICES ASSUME GatewaysInv PROVE G!PaidWasTaken /\ G!TakenIsPaid
  BY DEF G!MoneyAgrees
<1>1. G!PaidWasTaken
  <2>1. \A c \in sent : amount[c.tx] \in Nat
    BY DEF GatewaysInv, G!TypeOK, G!Call
  <2> QED
    BY <2>1, Rounding DEF GatewaysInv, G!PaidWasTaken
<1>2. G!TakenIsPaid
  BY DEF GatewaysInv, G!TypeOK, Settled, G!TakenIsPaid
<1> QED
  BY <1>1, <1>2

-----------------------------------------------------------------------------
(* The theorems. *)

PaymentsGatewaysInv == PaymentsInv /\ MoneyInv /\ EntriesFinite /\ GatewaysInv

\* Both start with their invariants.
LEMMA InvariantInit == Init => PaymentsGatewaysInv
<1> SUFFICES ASSUME Init PROVE PaymentsGatewaysInv
  OBVIOUS
<1>1. EntriesFinite
  <2>1. \A k : EntriesAt(k) = {}
    BY DEF EntriesAt, Init, P!Init
  <2> QED
    BY <2>1, FS_EmptySet DEF EntriesFinite
<1>2. MoneyInv
  <2>1. \A p \in Payments : P!Receipts(p) = {} /\ P!Refunds(p) = {}
    BY DEF Init, P!Init, P!Receipts, P!Refunds
  <2>2. \A p \in Payments : CameIn(p) = 0 /\ WentBack(p) = 0
    BY <2>1, FS_EmptySet DEF CameIn, WentBack
  <2>3. \A p \in Payments, h \in Handlers : ~Alone(h, p)
    BY IdleFacts DEF Init, P!Init, Alone, P!Refunding
  <2>4. EntriesFit
    BY DEF Init, P!Init, EntriesFit
  <2>5. \A p \in Payments : payment[p].state = P!NoRow
    BY DEF Init, P!Init
  <2> QED
    BY <2>2, <2>3, <2>4, <2>5 DEF MoneyInv, NoMoreOut, P!NoRow
<1> QED
  BY <1>1, <1>2, PaymentsInit, GatewaysInit DEF PaymentsGatewaysInv, Init

\* What is at rest keeps its invariant.
LEMMA PaymentsRest == PaymentsInv /\ MoneyInv /\ EntriesFinite /\ UNCHANGED pVars =>
  PaymentsInv' /\ MoneyInv' /\ EntriesFinite' /\ RecordsOnce
<1> SUFFICES ASSUME PaymentsInv, MoneyInv, EntriesFinite, UNCHANGED pVars
             PROVE  PaymentsInv' /\ MoneyInv' /\ EntriesFinite' /\ RecordsOnce
  OBVIOUS
<1>5. MoneyInv'
  <2>1. \A p \in Payments : P!Total(p)' = P!Total(p)
    BY DEF pVars, P!Total
  <2> QED
    BY <2>1, MoneyFrame DEF pVars
<1>1. EntriesFinite' /\ RecordsOnce
  BY EntriesStay DEF pVars, RecordsOnce
<1>2. P!TypeOK' /\ OneAtWork' /\ P!AnsweredIsDurable'
  BY DEF PaymentsInv, pVars, P!TypeOK, OneAtWork, Working, P!AnsweredIsDurable
<1>3. RowsFit' /\ P!OrderReflectsPayments' /\ RefundFollows'
  BY DEF PaymentsInv, pVars, RowsFit, PaidInFull, P!Total, P!Exists, P!OrderReflectsPayments,
     RefundFollows
<1>4. RequestsFit'
  BY DEF PaymentsInv, pVars, RequestsFit, RequestFits, IntentFits, PaidInFull, P!Total, P!Exists,
     P!Published
<1> QED
  BY <1>1, <1>2, <1>3, <1>4, <1>5 DEF PaymentsInv

\* And so do Gateways.
LEMMA GatewaysRest == GatewaysInv /\ UNCHANGED gVars => GatewaysInv'
BY DEF GatewaysInv, gVars, G!TypeOK, Settled, G!Key

\* Every step keeps the invariant, and records a callback once or not at all.
LEMMA InvariantNext ==
  PaymentsGatewaysInv /\ [Next]_<<part, pVars, gVars>> => PaymentsGatewaysInv' /\ RecordsOnce
<1> SUFFICES ASSUME PaymentsGatewaysInv, [Next]_<<part, pVars, gVars>>
             PROVE  PaymentsGatewaysInv' /\ RecordsOnce
  OBVIOUS
<1>1. CASE P!Next /\ UNCHANGED gVars
  BY <1>1, PaymentsNext, MoneyNext, RecordsStep, GatewaysRest DEF PaymentsGatewaysInv
<1>2. CASE G!Next /\ UNCHANGED pVars
  BY <1>2, GatewaysNext, PaymentsRest DEF PaymentsGatewaysInv
<1>3. CASE UNCHANGED <<pVars, gVars>>
  BY <1>3, PaymentsRest, GatewaysRest DEF PaymentsGatewaysInv
<1>4. \/ P!Next /\ UNCHANGED gVars
      \/ G!Next /\ UNCHANGED pVars
      \/ UNCHANGED <<pVars, gVars>>
  BY DEF Next
<1> QED
  BY <1>1, <1>2, <1>3, <1>4

\* Payments and Gateways keep their invariant.
THEOREM PaymentsInvariant == Spec => []PaymentsGatewaysInv
BY InvariantInit, InvariantNext, PTL DEF Spec

\* A provider that got a 2xx reply stops delivering: a callback with such a
\* reply has its key on record.
THEOREM RepliesAreDurable == Spec => []AnsweredIsDurable
<1>1. PaymentsGatewaysInv => AnsweredIsDurable
  BY DEF PaymentsGatewaysInv, PaymentsInv, AnsweredIsDurable
<1> QED
  BY <1>1, PaymentsInvariant, PTL

\* An order that says PAID has a paid payment behind it, and one that says
\* UNPAID has payments to which nothing has happened.
THEOREM OrdersReflectTheirPayments == Spec => []OrderReflectsPayments
<1>1. PaymentsGatewaysInv => OrderReflectsPayments
  BY DEF PaymentsGatewaysInv, PaymentsInv, OrderReflectsPayments
<1> QED
  BY <1>1, PaymentsInvariant, PTL

\* Whatever comes first, the refunds of a payment follow what came in, and are
\* neither more nor larger, but for those that were about to be written together.
THEOREM NoMoreIsRefunded == Spec => []RefundsAreCovered
<1>1. PaymentsGatewaysInv => RefundsAreCovered
  BY MoneyCovered DEF PaymentsGatewaysInv, RefundsAreCovered
<1> QED
  BY <1>1, PaymentsInvariant, PTL

\* What the shop calls paid was taken for the price, to the nearest so'm, and
\* money that was taken, by a call that names the payment, and acknowledged is in
\* the ledger unless the payment was given up first.
THEOREM ShopAndProviderAgree == Spec => []MoneyAgrees
<1>1. PaymentsGatewaysInv => MoneyAgrees
  BY GatewaysAgree DEF PaymentsGatewaysInv, MoneyAgrees
<1> QED
  BY <1>1, PaymentsInvariant, PTL

\* "A payment webhook replay changes nothing": the handlers, their transactions
\* and the unique key together implement a receiver that handles a callback once.
THEOREM PaymentsImplementInbox == Spec => ImplementsInbox
<1>1. Init => P!Replay!Init
  <2> SUFFICES ASSUME Init PROVE P!Replay!Init
    OBVIOUS
  <2>1. processed = {} /\ \A k : EntriesAt(k) = {}
    BY DEF EntriesAt, Init, P!Init
  <2>2. \A k \in Keys : P!EntriesOf(k) = 0
    BY <2>1, EntriesCounted, FS_EmptySet
  <2> QED
    BY <2>1, <2>2 DEF P!Replay!Init
<1>2. RecordsOnce => [P!Replay!Next]_<<processed, [k \in Keys |-> P!EntriesOf(k)]>>
  BY DEF RecordsOnce, P!Replay!Next
<1>3. PaymentsGatewaysInv /\ [Next]_<<part, pVars, gVars>> =>
        [P!Replay!Next]_<<processed, [k \in Keys |-> P!EntriesOf(k)]>>
  BY <1>2, InvariantNext
<1> QED
  BY <1>1, <1>3, PaymentsInvariant, PTL DEF Spec, ImplementsInbox, P!ImplementsInbox, P!Replay!Spec
=============================================================================
