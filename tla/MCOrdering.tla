----------------------------- MODULE MCOrdering -----------------------------
(* Ordering and Pricing for TLC.  All at once is too much for it, so a       *)
(* behaviour is of one of three parts: goods, which is about a tracked       *)
(* product, a promo code, an edited stock and a midnight, without points;    *)
(* points, which is about two orders that earn and spend them and            *)
(* corrections by staff; and pricing, one order that is calculated.          *)
EXTENDS Ordering, TLC

Price == INSTANCE Pricing

CONSTANT Samples    \* the orders that are calculated

ASSUME SamplesAssumption == \A order \in Samples : Price!IsOrder(order)

VARIABLES part, sample

Parts == {"goods", "points", "pricing"}

\* No order: compute refuses it.
Nothing == [lines |-> <<>>]

Begins(h) == req[h].pc = "idle" /\ req'[h].pc # "idle"

\* Nobody spends or corrects points, and orders are changed once, to be cancelled.
WithoutPoints ==
  \A h \in Handlers : Begins(h) =>
    /\ req'[h].pc \in {"number", "status"} /\ req'[h].points = 0
    /\ req'[h].pc = "status" => req'[h].next = "CANCELLED" /\ Len(history[req'[h].order]) < 2

\* Two orders of one day, without the code, of a product that nobody edits.
WithoutGoods ==
  /\ UNCHANGED <<today, edited>>
  /\ \A h \in Handlers : ~req'[h].promo
  /\ Cardinality({ o \in Orders : Exists(o) \/ \E h \in Handlers : req'[h].order = o }) <= 2

Within ==
  /\ part = "goods" => WithoutPoints
  /\ part = "points" => WithoutGoods

MCInit ==
  /\ Init
  /\ part \in Parts
  /\ IF part = "pricing" THEN sample \in Samples ELSE sample = Nothing

MCNext == part # "pricing" /\ Next /\ UNCHANGED <<part, sample>> /\ Within

MCSpec == MCInit /\ [][MCNext]_<<vars, part, sample>>

ReceiptAddsUp == part = "pricing" => Price!AddsUp(sample)

-----------------------------------------------------------------------------
(* One customer with a point, and a product of two units. *)
MCInitialStock  == [p \in Products |-> 2]
MCInitialPoints == [c \in Customers |-> 1]
MCCorrections   == {-1, 1}

\* Up to three lines of all kinds with a code, a way of delivery and points of all kinds.
MCLine(p, v, m, q) == [price |-> p, variant |-> v, modifiers |-> m, quantity |-> q]

MCLines == {MCLine(1, 0, 0, 1), MCLine(1, 0, 1, 3), MCLine(5, -2, 0, 1), MCLine(5, 0, 2, 1),
            MCLine(2, 0, 0, 10), MCLine(1, -2, 0, 1)}

MCPromo(t, v, m, l) == [type |-> t, value |-> v, minOrderTotal |-> m, maxDiscount |-> l]

MCPromos == { {}, {MCPromo("PERCENTAGE", 10, 0, {})}, {MCPromo("PERCENTAGE", 33, 3, {4})},
              {MCPromo("FIXED", 4, 0, {})}, {MCPromo("FREE_DELIVERY", 0, 5, {})},
              {MCPromo("BUY_X_GET_Y", 0, 0, {})} }

MCDeliveries ==
  { d \in [enabled : BOOLEAN, flatFee : {3}, freeAbove : {{}, {6}}, minOrderTotal : {4}] :
      d.enabled \/ d.freeAbove # {} }

MCLoyalties == { [enabled |-> r > 0, rate |-> 5, minOrderTotal |-> 2, maxRedeemPercent |-> r] :
                 r \in {0, 50, 100} }

MCSamples == [lines : UNION { [1 .. n -> MCLines] : n \in 0 .. 3 },
              type : {"DELIVERY", "PICKUP"}, promo : MCPromos, delivery : MCDeliveries,
              loyalty : MCLoyalties, spend : {0, 5}, balance : {4}]

MCSymmetry == Permutations(Handlers) \cup Permutations(Orders)
=============================================================================
