------------------------------- MODULE MCShop -------------------------------
(* Instances of Cart, Slots and Sheet, what the Mini App shows and the      *)
(* server charges, for TLC. A behaviour is one of them with the others at    *)
(* rest.                                                                     *)
EXTENDS Integers, Sequences, TLC

CONSTANTS r1, r2, t1, t2, Times, Requests, Prices, OldPrice, MaxLines, MaxQuantity, MaxElsewhere,
          Delivery, Code,
          Services, Resources, Performs, Labels, DayOf, MaxTaken,
          Groups, Options, Limits, Variants, MaxEdits

VARIABLES part,
          price, active, cart, made, at, mode, shown, request, elsewhere, stale, disputed,
          early, free, service, resource, slot, date, label, cached, asking, taken,
          booking, offered,
          product, detail, variant, selected, adding, edits, baffled

C == INSTANCE Cart
S == INSTANCE Slots
H == INSTANCE Sheet

ASSUME ConstantsAssumption == S!SlotsAssumption /\ H!SheetAssumption

cVars == <<price, active, cart, made, at, mode, shown, request, elsewhere, stale, disputed>>
sVars == <<early, free, service, resource, slot, date, label, cached, asking, taken,
           booking, offered>>
hVars == <<product, detail, variant, selected, adding, edits, baffled>>

-----------------------------------------------------------------------------
Init ==
  /\ part \in {"cart", "slots", "sheet"}
  /\ C!Init /\ price = OldPrice
  /\ S!Init /\ (part # "slots" => early = FALSE)
  /\ H!Init /\ (part # "sheet" => product = CHOOSE p \in H!Products : TRUE)

Next ==
  \/ part = "cart"  /\ C!Next /\ UNCHANGED <<part, sVars, hVars>>
  \/ part = "slots" /\ S!Next /\ UNCHANGED <<part, cVars, hVars>>
  \/ part = "sheet" /\ H!Next /\ UNCHANGED <<part, cVars, sVars>>

Spec == Init /\ [][Next]_<<part, cVars, sVars, hVars>>

Symmetry == Permutations(Requests) \cup Permutations(Times)

ChargedAsShown    == C!ChargedAsShown
BooksTheOffered   == S!BooksTheOffered
RefusedForAReason == H!RefusedForAReason

-----------------------------------------------------------------------------
\* Two pieces of 7 are delivered for nothing, one of 5 is not delivered at all, and two of
\* 5 with the code are worth less than a delivery for nothing asks.
MCDelivery == [enabled |-> TRUE, flatFee |-> 3, freeAbove |-> {14}, minOrderTotal |-> 6]
MCCode     == [type |-> "FIXED", value |-> 4, minOrderTotal |-> 6, maxDiscount |-> {}]

\* The times are of the first of the days; not everybody does everything.
MCDayOf    == [t \in Times |-> 1]
MCPerforms == {<<"s", 1>>, <<"s", 2>>, <<"t", 1>>}
MCOptions  == [g \in Groups |-> {1, 2, 3}]
MCLimits   == {<<0, 1>>, <<1, 1>>, <<0, 2>>, <<1, 2>>, <<2, 2>>}
=============================================================================
