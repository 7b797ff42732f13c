------------------------------- MODULE Gateways -------------------------------
(***************************************************************************)
(* The protocols of the payment providers, and the adapters that turn their *)
(* callbacks into intents (packages/payments/src/providers), over one      *)
(* payment of ours.  A payer may open several transactions for it, each    *)
(* for an amount of its own: the checkout link, with the amount in it, is  *)
(* in the payer's hands.  A call that a provider has sent may be delivered *)
(* any number of times, at any later moment; an answer may be lost.  What  *)
(* the service does with an intent is one step here: Payments has the      *)
(* interleavings.  Amounts are in tiyin, of which a so'm has a hundred;    *)
(* the payment itself is in so'm.                                          *)
(***************************************************************************)
EXTENDS PaymentStates, Integers, Sequences

CONSTANTS
  Transactions,   \* the provider's transactions of this payment
  Price,          \* Payment.amount
  Amounts         \* what a transaction may be for, in tiyin

TIYIN_PER_SOM == 100

\* What is assumed of the constants, wherever they are given values.
GatewaysAssumption ==
  /\ Price \in Nat \ {0}
  /\ Amounts \subseteq Nat
  /\ Price * TIYIN_PER_SOM \in Amounts      \* createPayment

VARIABLES
  provider,    \* the one the payment was made with
  named,       \* the methods whose calls name the payment
  amount,      \* Transactions -> tiyin, or none before the transaction is open
  sent,        \* calls the provider has made
  accepted,    \* calls it has been told are fine
  state,       \* Payment.state
  entries,     \* PaymentTransaction rows: the calls that took effect, in order
  processed    \* ProcessedWebhook

vars == <<provider, named, amount, sent, accepted, state, entries, processed>>

-----------------------------------------------------------------------------
(* The callbacks of each provider, and the order in which it makes them. *)

Providers == {"click", "payme", "mock"}

NotOpen == 0

\* Click says of the second stage whether it went well; a failure is a call with
\* a negative error in it, at either stage.
Methods ==
  [p \in Providers |->
     CASE p = "click" -> {"prepare", "complete", "fail_prepare", "fail_complete"}
       [] p = "payme" -> {"check", "create", "perform", "cancel"}
       [] OTHER       -> {"succeeded", "failed", "refunded"}]

Call == [tx : Transactions, method : UNION { Methods[p] : p \in Providers }]

\* What a provider must have been told before it makes a call; whether a call
\* that waits for an answer is answered is not known to the one that cancels.
After ==
  [m \in UNION { Methods[p] : p \in Providers } |->
     CASE m = "complete" -> {"prepare"}
       [] m = "create"   -> {"check"}
       [] m = "perform"  -> {"create"}
       [] m = "cancel"   -> {"create"}
       [] m = "fail_complete" -> {"prepare"}
       [] OTHER          -> {}]

\* Payme's calls about a transaction may carry its id alone, without the account
\* in which our payment is named.
MayBeUnnamed == {"perform", "cancel"}

\* The call by which a provider takes the payer's money.
Taking == {"complete", "perform", "succeeded"}

-----------------------------------------------------------------------------
(* The adapters: handleWebhook of each provider. *)

\* idempotencyKey.  Payme's check is keyed by its amount, for all transactions
\* alike; Payme's CheckTransaction, and a method nobody knows, are given a key
\* from the clock and mean nothing: they are left out.
Key(call) ==
  IF call.method = "check" THEN <<amount[call.tx], "check">> ELSE <<call.tx, call.method>>

IntentOf(call) ==
  CASE call.method \in Taking -> "mark_paid"
    [] call.method \in {"fail_prepare", "fail_complete", "cancel"} -> "mark_cancelled"
    [] call.method = "failed"   -> "mark_failed"
    [] call.method = "refunded" -> "mark_refunded"
    [] OTHER -> "noop"                  \* check, create and prepare move no money

\* Math.round of so'm with decimals (Click), or of tiyin over a hundred (Payme).
SomOf(tiyin) == (tiyin + TIYIN_PER_SOM \div 2) \div TIYIN_PER_SOM

-----------------------------------------------------------------------------
Init ==
  /\ provider \in Providers
  /\ \E unnamed \in SUBSET MayBeUnnamed : named = Methods[provider] \ unnamed
  /\ amount = [t \in Transactions |-> NotOpen]
  /\ sent = {} /\ accepted = {}
  /\ state = "PENDING"
  /\ entries = <<>> /\ processed = {}

\* The payer opens a transaction: with the amount of the link that
\* createPayment has made, or with another.
Open(t, tiyin) ==
  /\ amount[t] = NotOpen
  /\ amount' = [amount EXCEPT ![t] = tiyin]
  /\ UNCHANGED <<provider, named, sent, accepted, state, entries, processed>>

\* The provider makes a call, once it has been told what it needs to know; a
\* transaction it has itself given up takes no money any more.
Send(call) ==
  /\ call.method \in Methods[provider]
  /\ amount[call.tx] # NotOpen
  /\ call \notin sent
  /\ \A m \in After[call.method] : [tx |-> call.tx, method |-> m] \in accepted
  /\ call.method \in Taking =>
       \A c \in sent : c.tx = call.tx => IntentOf(c) \notin {"mark_cancelled", "mark_failed"}
  /\ call.method = "refunded" => \E c \in accepted : c.tx = call.tx /\ c.method \in Taking
  /\ sent' = sent \cup {call}
  /\ UNCHANGED <<provider, named, amount, accepted, state, entries, processed>>

\* The provider may hear the answer or not.
Answer(call) == accepted' \in {accepted, accepted \cup {call}}

\* A mistake the checks must catch: Payme's tiyin are taken for so'm.
SettlesUnconverted(call) == IntentOf(call) = "mark_paid" => amount[call.tx] = Price

\* applyIntentInTransaction: the amount that is paid is the one that was asked.
Settles(call) == IntentOf(call) = "mark_paid" => SomOf(amount[call.tx]) = Price

\* Whether a call moves the payment; one that does not name it moves nothing.
Applicable(call) ==
  call.method \in named /\ StateFor(IntentOf(call)) \cap ALLOWED_TRANSITIONS[state] # {}

\* A key that is on record is answered from the record.
DeliverAgain(call) ==
  /\ call \in sent
  /\ Key(call) \in processed
  /\ Answer(call)
  /\ UNCHANGED <<provider, named, amount, sent, state, entries, processed>>

\* What names no payment, or what the payment's state does not allow, is put on
\* record, and answered like everything else.
DeliverVoid(call) ==
  /\ call \in sent
  /\ Key(call) \notin processed
  /\ ~Applicable(call)
  /\ processed' = processed \cup {Key(call)}
  /\ Answer(call)
  /\ UNCHANGED <<provider, named, amount, sent, state, entries>>

\* With a wrong amount nothing is recorded, and the provider gets an error.
DeliverAndApply(call) ==
  /\ call \in sent
  /\ Key(call) \notin processed
  /\ Applicable(call) /\ Settles(call)
  /\ processed' = processed \cup {Key(call)}
  /\ state' \in StateFor(IntentOf(call))
  /\ entries' = Append(entries, call)
  /\ Answer(call)
  /\ UNCHANGED <<provider, named, amount, sent>>

Next ==
  \/ \E t \in Transactions, tiyin \in Amounts : Open(t, tiyin)
  \/ \E call \in Call :
       Send(call) \/ DeliverAgain(call) \/ DeliverVoid(call) \/ DeliverAndApply(call)

Spec == Init /\ [][Next]_vars

-----------------------------------------------------------------------------
(* Properties. *)

\* The shape of the state, and the states a payment of one provider can reach.
TypeOK ==
  /\ provider \in Providers /\ named \subseteq Methods[provider]
  /\ amount \in [Transactions -> Nat]
  /\ accepted \subseteq sent /\ sent \subseteq Call
  /\ state \in {"PENDING", "PAID", "FAILED", "CANCELLED", "REFUNDED"}
  /\ entries \in Seq(Call)

\* Whatever is delivered, and in whatever order, a payment is PAID only when the
\* provider has taken its price, to the nearest so'm, in one transaction.
PaidWasTaken ==
  state = "PAID" =>
    \E c \in sent : c.method \in Taking /\ 2 * amount[c.tx] \in
        (2 * Price - 1) * TIYIN_PER_SOM .. (2 * Price + 1) * TIYIN_PER_SOM - 1

\* A provider that was told its payer's money is accounted for keeps it.  The
\* payment then has been paid, by this transaction or another - unless a
\* cancellation was delivered first, after which no payment of any transaction
\* counts and all of them are answered as if they did.  A call that does not name
\* the payment is answered as if it had counted, and is nowhere.
TakenIsPaid ==
  (\E c \in accepted : c.method \in Taking \cap named) =>
    \E i \in DOMAIN entries : \/ entries[i].method \in Taking
                              \/ i = 1 /\ IntentOf(entries[i]) \in {"mark_cancelled", "mark_failed"}

\* So the shop and the provider agree on whether an order was paid for.
MoneyAgrees == PaidWasTaken /\ TakenIsPaid

\* "Payme cancels a performed transaction rather than issuing a separate refund;
\* the cancel arrives as a CancelTransaction webhook, which is where the ledger
\* updates": a cancellation that names the payment and was answered as done, of
\* the transaction that paid, is in the ledger.
CancelUpdatesLedger ==
  \A c \in accepted :
    /\ c.method = "cancel" /\ c.method \in named
    /\ \E i \in DOMAIN entries : entries[i] = [c EXCEPT !.method = "perform"]
    => \E j \in DOMAIN entries : entries[j] = c
=============================================================================
