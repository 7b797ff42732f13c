------------------------------- MODULE Pricing -------------------------------
(***************************************************************************)
(* What a cart costs (apps/api/src/modules/cart/pricing.service.ts and     *)
(* packages/shared/src/money.ts), in minor units of the currency. A rule   *)
(* that may be null is a set of at most one number.                        *)
(***************************************************************************)
EXTENDS Integers, Sequences, FiniteSets, Functions

\* Math.round(amount * percent / 100).
ApplyPercentage(amount, percent) == (2 * amount * percent + 100) \div 200

Total(f) == FoldFunction(+, 0, f)

Least(a, b) == IF a < b THEN a ELSE b

\* A mistake the checks must catch: every part is rounded by itself.
RoundEach(total, weights) ==
  LET sum == Total(weights) IN
  [i \in DOMAIN weights |->
     IF sum <= 0 THEN 0 ELSE (2 * total * weights[i] + sum) \div (2 * sum)]

\* distributeProportionally: the largest remainders get what rounding down left, the
\* first of equal ones before the others.
DistributeProportionally(total, weights) ==
  LET sum   == Total(weights)
      floor == [i \in DOMAIN weights |-> (total * weights[i]) \div sum]
      frac  == [i \in DOMAIN weights |-> (total * weights[i]) % sum]
      rest  == total - Total(floor)
      ahead(i) == { j \in DOMAIN weights : frac[j] > frac[i] \/ (frac[j] = frac[i] /\ j < i) }
  IN
  [i \in DOMAIN weights |->
     IF sum <= 0 \/ total = 0 THEN 0
     ELSE floor[i] + IF Cardinality(ahead(i)) < rest THEN 1 ELSE 0]

-----------------------------------------------------------------------------
(* Lines have a unit price, the delta of a variant, the sum of the         *)
(* modifiers, and a quantity.                                              *)

LineSubtotal(line) == (line.price + line.variant + line.modifiers) * line.quantity

Subtotals(lines) == [i \in DOMAIN lines |-> LineSubtotal(lines[i])]

Subtotal(lines) == Total(Subtotals(lines))

\* A line that priceLine refuses.
BadLine(line) == line.quantity < 1 \/ line.price + line.variant < 0

\* A code below its minimum, or of the kind that is not there yet, is refused.
PromoRefused(promo, subtotal) ==
  \E p \in promo : subtotal < p.minOrderTotal \/ p.type = "BUY_X_GET_Y"

PromoDiscount(promo, subtotal) ==
  LET amount(p) == CASE p.type = "PERCENTAGE" -> ApplyPercentage(subtotal, p.value)
                     [] p.type = "FIXED"      -> p.value
                     [] OTHER                 -> 0
      capped(p) == IF p.maxDiscount = {} THEN amount(p)
                   ELSE Least(amount(p), CHOOSE limit \in p.maxDiscount : TRUE)
  IN
  IF promo = {} THEN 0 ELSE Least(capped(CHOOSE p \in promo : TRUE), subtotal)

LoyaltyDiscount(loyalty, spend, afterPromo) ==
  IF ~loyalty.enabled \/ spend = 0 THEN 0
  ELSE Least(Least(spend, ApplyPercentage(afterPromo, loyalty.maxRedeemPercent)), afterPromo)

\* The threshold for a free delivery looks at the goods after the promo code.
DeliveryFee(order, subtotal, promoDiscount) ==
  IF \/ order.type # "DELIVERY" \/ ~order.delivery.enabled
     \/ \E p \in order.promo : p.type = "FREE_DELIVERY"
     \/ \E limit \in order.delivery.freeAbove : subtotal - promoDiscount >= limit
  THEN 0 ELSE order.delivery.flatFee

LoyaltyEarn(loyalty, total, subtotal) ==
  IF ~loyalty.enabled \/ subtotal < loyalty.minOrderTotal THEN 0
  ELSE ApplyPercentage(total, loyalty.rate)

\* The errors of compute.
Refused(order) ==
  LET subtotal == Subtotal(order.lines) IN
  \/ order.lines = <<>>
  \/ \E i \in DOMAIN order.lines : BadLine(order.lines[i])
  \/ PromoRefused(order.promo, subtotal)
  \/ order.loyalty.enabled /\ order.spend > order.balance
  \/ order.type = "DELIVERY" /\ subtotal < order.delivery.minOrderTotal

Compute(order) ==
  LET subtotal == Subtotal(order.lines)
      promo    == PromoDiscount(order.promo, subtotal)
      loyalty  == LoyaltyDiscount(order.loyalty, order.spend, subtotal - promo)
      fee      == DeliveryFee(order, subtotal, promo)
      total    == subtotal - promo - loyalty + fee
  IN
  [subtotal |-> subtotal, promoDiscount |-> promo, loyaltyDiscount |-> loyalty,
   discounts |-> DistributeProportionally(promo + loyalty, Subtotals(order.lines)),
   deliveryFee |-> fee, total |-> total,
   loyaltyEarn |-> LoyaltyEarn(order.loyalty, total, subtotal)]

-----------------------------------------------------------------------------
\* The orders there can be: moneySchema and percentageSchema let nothing negative in, and
\* only what a variant adds to a price is signed.
IsOrder(order) ==
  /\ order.lines \in Seq([price : Nat, variant : Int, modifiers : Nat, quantity : Int])
  /\ order.promo \subseteq [type : {"PERCENTAGE", "FIXED", "BUY_X_GET_Y", "FREE_DELIVERY"},
                            value : Nat, minOrderTotal : Nat, maxDiscount : SUBSET Nat]
  /\ order.delivery.flatFee \in Nat /\ order.loyalty.maxRedeemPercent \in Nat
  /\ order.spend \in Nat /\ order.balance \in Nat

\* "The sum of lines always equals the order subtotal less the discount", and it does
\* so fairly: no line is discounted below nothing, each by its share to less than one
\* unit, and a dearer line by no less than a cheaper one. Points and code together
\* never take more than the goods are worth, and what is left is what is paid.
AddsUp(order) ==
  LET r == Compute(order)
      w == Subtotals(order.lines)
      off == r.promoDiscount + r.loyaltyDiscount
  IN
  ~Refused(order) =>
    /\ Total(r.discounts) = off
    /\ 0 <= off /\ off <= r.subtotal
    /\ r.loyaltyDiscount <= order.balance
    /\ r.total = Total([i \in DOMAIN w |-> w[i] - r.discounts[i]]) + r.deliveryFee
    /\ \A i \in DOMAIN w :
         /\ 0 <= r.discounts[i] /\ r.discounts[i] <= w[i]
         /\ LET gap == r.discounts[i] * r.subtotal - off * w[i]
            IN  r.subtotal > 0 => gap < r.subtotal /\ -gap < r.subtotal
         /\ \A j \in DOMAIN w : w[i] < w[j] => r.discounts[i] <= r.discounts[j]
=============================================================================
