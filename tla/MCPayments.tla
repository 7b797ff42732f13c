----------------------------- MODULE MCPayments -----------------------------
(* Instances of Payments and Gateways for TLC; a behaviour is one of them    *)
(* with the other at rest.                                                   *)
EXTENDS Integers, TLC

CONSTANTS Handlers, Orders, Payments, Keys, Externals, CashKey, Webhooks, OrderTotal, StaffMoves,
          Transactions, Price, Amounts

VARIABLES part,
          order, payment, ledger, processed, answered, req, raced,
          provider, named, amount, sent, accepted, state, entries, keys

P == INSTANCE Payments
G == INSTANCE Gateways WITH processed <- keys

ASSUME ConstantsAssumption == P!PaymentsAssumption /\ G!GatewaysAssumption

pVars == <<order, payment, ledger, processed, answered, req, raced>>
gVars == <<provider, named, amount, sent, accepted, state, entries, keys>>

Init ==
  /\ P!Init /\ G!Init
  /\ \/ part = "payments" /\ provider = "mock"
     \/ part = "gateways"

Next ==
  \/ part = "payments" /\ P!Next /\ UNCHANGED <<part, gVars>>
  \/ part = "gateways" /\ G!Next /\ UNCHANGED <<part, pVars>>

Spec == Init /\ [][Next]_<<part, pVars, gVars>>

AnsweredIsDurable    == P!AnsweredIsDurable
OrderReflectsPayments == P!OrderReflectsPayments
RefundsAreCovered    == P!RefundsAreCovered
ImplementsInbox      == P!ImplementsInbox
MoneyAgrees          == G!MoneyAgrees
CancelUpdatesLedger  == G!CancelUpdatesLedger

-----------------------------------------------------------------------------
(* Payments: one order of 2; a payment with callbacks that it was paid, that *)
(* it was cancelled, one with too small an amount, and refunds of all, of    *)
(* half and of more than there is; and a second payment with one callback    *)
(* that it was paid, by the transaction whose cancellation the first one     *)
(* has.  Gateways: a price of 2 so'm and two transactions, each for 200      *)
(* tiyin, for what rounds to 2 so'm or just does not, or for 2 tiyin.        *)
Callback(key, p, externalId, intent, paid) ==
  [key |-> key, payment |-> p, externalId |-> externalId, intent |-> intent, amount |-> paid]

MCWebhooks ==
  { Callback("perform1", "p1", "x1", "mark_paid", 2),
    Callback("short1", "p1", "x1", "mark_paid", 1),
    Callback("cancel1", "p1", "x2", "mark_cancelled", 0),
    Callback("refund1", "p1", "x1", "mark_refunded", 2),
    Callback("refund2", "p1", "x1", "mark_refunded", 1),
    Callback("refund3", "p1", "x1", "mark_refunded", 3),
    Callback("perform2", "p2", "x2", "mark_paid", 2) }

MCKeys == { w.key : w \in MCWebhooks }

MCOrderTotal == [o \in Orders |-> 2]

MCSymmetry == Permutations(Handlers) \cup Permutations(Transactions)
=============================================================================
