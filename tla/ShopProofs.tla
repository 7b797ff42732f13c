----------------------------- MODULE ShopProofs -----------------------------
(***************************************************************************)
(* Proofs about the components of MCShop, for every value of their         *)
(* constants: the cart and its page, the booking flow and the product      *)
(* sheet.  Each has an inductive invariant of its own.                     *)
(***************************************************************************)
EXTENDS MCShop, FiniteSetTheorems, TLAPS

allVars == <<part, cVars, sVars, hVars>>

\* A step of MCShop is one of each component, or leaves it alone.
LEMMA ShopStep ==
  ASSUME [Next]_allVars
  PROVE  /\ [C!Next]_(C!vars) /\ [S!Next]_(S!vars) /\ [H!Next]_(H!vars)
         /\ UNCHANGED part
BY DEF Next, allVars, cVars, sVars, hVars, C!vars, S!vars, H!vars

-----------------------------------------------------------------------------
(* The product sheet.                                                        *)

\* As many options of a group are chosen as it allows, and as many as it asks for unless
\* it asks for more than the one the sheet starts with.
Suits(limit, n) == n <= limit[2] /\ (n >= limit[1] \/ limit[1] > 1)

\* A choice that the sheet made for a copy of the product.
Fits(p, v, choice) ==
  /\ p.limits \in [Groups -> Limits]
  /\ \A g \in Groups : Suits(p.limits[g], H!Chosen(g, choice))
  /\ v = H!First \/ v \subseteq p.stock

SheetInv ==
  /\ product \in H!Products
  /\ \A p \in detail : p \in H!Products /\ Fits(p, variant, selected) /\ detail = {p}
  /\ \A a \in adding : a.copy \in H!Products /\ Fits(a.copy, a.variant, a.choice)
  /\ ~baffled

\* The limits of a group, and its options.
LEMMA GroupFacts ==
  /\ \A g \in Groups : IsFiniteSet(Options[g]) /\ Options[g] # {}
  /\ \A g, h \in Groups : g # h => Options[g] \cap Options[h] = {}
  /\ \A l \in Limits : l[1] \in Nat /\ l[2] \in Nat /\ l[2] >= 1 /\ l[1] <= l[2]
<1>1. \A g \in Groups : H!IsFiniteSet(Options[g]) => IsFiniteSet(Options[g])
  BY DEF H!IsFiniteSet, IsFiniteSet
<1>2. \A g \in Groups : H!IsFiniteSet(Options[g]) /\ Options[g] # {}
  BY ConstantsAssumption DEF H!SheetAssumption
<1>3. \A g, h \in Groups : g # h => Options[g] \cap Options[h] = {}
  BY ConstantsAssumption DEF H!SheetAssumption
<1>4. \A l \in Limits : l[1] \in Nat /\ l[2] \in Nat /\ l[2] >= 1 /\ l[1] <= l[2]
  BY ConstantsAssumption DEF H!SheetAssumption
<1> QED
  BY <1>1, <1>2, <1>3, <1>4

\* How many options of a group are chosen.
LEMMA ChosenIs ==
  ASSUME NEW g \in Groups, NEW choice
  PROVE  /\ IsFiniteSet(Options[g] \cap choice)
         /\ H!Chosen(g, choice) = Cardinality(Options[g] \cap choice)
         /\ H!Chosen(g, choice) \in Nat
<1>1. IsFiniteSet(Options[g] \cap choice)
  BY GroupFacts, FS_Subset
<1>2. H!Cardinality(Options[g] \cap choice) = Cardinality(Options[g] \cap choice)
  BY DEF H!Cardinality, Cardinality, H!IsFiniteSet, IsFiniteSet
<1> QED
  BY <1>1, <1>2, FS_CardinalityType DEF H!Chosen

\* One option less, one more, and one instead of the others of its group.
LEMMA ToggleFacts ==
  ASSUME NEW g \in Groups, NEW o \in Options[g], NEW choice
  PROVE  /\ o \in choice => H!Chosen(g, choice \ {o}) = H!Chosen(g, choice) - 1
         /\ o \notin choice => H!Chosen(g, choice \cup {o}) = H!Chosen(g, choice) + 1
         /\ H!Chosen(g, (choice \ Options[g]) \cup {o}) = 1
         /\ \A h \in Groups \ {g} :
              /\ H!Chosen(h, choice \ {o}) = H!Chosen(h, choice)
              /\ H!Chosen(h, choice \cup {o}) = H!Chosen(h, choice)
              /\ H!Chosen(h, (choice \ Options[g]) \cup {o}) = H!Chosen(h, choice)
<1> DEFINE chosen == Options[g] \cap choice
<1>1. IsFiniteSet(chosen) /\ H!Chosen(g, choice) = Cardinality(chosen)
  BY ChosenIs
<1>2. /\ Options[g] \cap (choice \ {o}) = chosen \ {o}
      /\ Options[g] \cap (choice \cup {o}) = chosen \cup {o}
      /\ Options[g] \cap ((choice \ Options[g]) \cup {o}) = {o}
      /\ o \in choice <=> o \in chosen
  OBVIOUS
<1> HIDE DEF chosen
<1>3. o \in choice => H!Chosen(g, choice \ {o}) = H!Chosen(g, choice) - 1
  <2>1. H!Chosen(g, choice \ {o}) = Cardinality(chosen \ {o})
    BY <1>2, ChosenIs
  <2>2. o \in chosen => Cardinality(chosen \ {o}) = Cardinality(chosen) - 1
    BY <1>1, FS_RemoveElement
  <2> QED
    BY <1>1, <1>2, <2>1, <2>2
<1>4. o \notin choice => H!Chosen(g, choice \cup {o}) = H!Chosen(g, choice) + 1
  <2>1. H!Chosen(g, choice \cup {o}) = Cardinality(chosen \cup {o})
    BY <1>2, ChosenIs
  <2>2. o \notin chosen => Cardinality(chosen \cup {o}) = Cardinality(chosen) + 1
    BY <1>1, FS_AddElement
  <2> QED
    BY <1>1, <1>2, <2>1, <2>2
<1>5. H!Chosen(g, (choice \ Options[g]) \cup {o}) = 1
  <2>1. H!Chosen(g, (choice \ Options[g]) \cup {o}) = Cardinality({o})
    BY <1>2, ChosenIs
  <2> QED
    BY <2>1, FS_Singleton
<1>6. ASSUME NEW h \in Groups \ {g}
      PROVE  /\ H!Chosen(h, choice \ {o}) = H!Chosen(h, choice)
             /\ H!Chosen(h, choice \cup {o}) = H!Chosen(h, choice)
             /\ H!Chosen(h, (choice \ Options[g]) \cup {o}) = H!Chosen(h, choice)
  <2>1. Options[g] \cap Options[h] = {}
    BY GroupFacts
  <2>2. /\ Options[h] \cap (choice \ {o}) = Options[h] \cap choice
        /\ Options[h] \cap (choice \cup {o}) = Options[h] \cap choice
        /\ Options[h] \cap ((choice \ Options[g]) \cup {o}) = Options[h] \cap choice
    BY <2>1
  <2> QED
    BY <2>2, ChosenIs
<1> QED
  BY <1>3, <1>4, <1>5, <1>6

\* The sheet starts with what suits every group.
LEMMA StartFits ==
  ASSUME NEW p \in H!Products,
         NEW choice,
         choice = { CHOOSE o \in Options[g] : TRUE : g \in { g \in Groups : p.limits[g][1] > 0 } }
  PROVE  Fits(p, H!First, choice)
<1>1. p.limits \in [Groups -> Limits]
  BY DEF H!Products
<1>2. ASSUME NEW g \in Groups PROVE Suits(p.limits[g], H!Chosen(g, choice))
  <2>1. p.limits[g] \in Limits
    BY <1>1
  <2> DEFINE first == CHOOSE o \in Options[g] : TRUE
  <2>2. first \in Options[g]
    BY GroupFacts
  <2>3. \A h \in Groups \ {g} : (CHOOSE o \in Options[h] : TRUE) \notin Options[g]
    <3> TAKE h \in Groups \ {g}
    <3>1. (CHOOSE o \in Options[h] : TRUE) \in Options[h] /\ Options[g] \cap Options[h] = {}
      BY GroupFacts
    <3> QED
      BY <3>1
  <2>4. CASE p.limits[g][1] > 0
    <3>1. Options[g] \cap choice = {first}
      BY <2>2, <2>3, <2>4
    <3>2. H!Chosen(g, choice) = 1
      BY <3>1, ChosenIs, FS_Singleton
    <3> QED
      BY <2>1, <2>4, <3>2, GroupFacts DEF Suits
  <2>5. CASE ~(p.limits[g][1] > 0)
    <3>1. Options[g] \cap choice = {}
      BY <2>3, <2>5
    <3>2. H!Chosen(g, choice) = 0
      BY <3>1, ChosenIs, FS_EmptySet
    <3> QED
      BY <2>1, <2>5, <3>2, GroupFacts DEF Suits
  <2> QED
    BY <2>4, <2>5
<1> QED
  BY <1>1, <1>2 DEF Fits

\* A tap on an option leaves a choice that suits every group.
LEMMA ToggleKeeps ==
  ASSUME SheetInv, NEW g \in Groups, NEW o \in Options[g], H!ToggleOption(g, o)
  PROVE  SheetInv'
<1>1. UNCHANGED <<product, detail, variant, adding, baffled>>
  BY DEF H!ToggleOption
<1>2. ASSUME NEW p \in detail PROVE Fits(p, variant, selected')
  <2>1. p \in H!Products /\ Fits(p, variant, selected)
    BY DEF SheetInv
  <2>2. \/ o \in selected /\ H!Chosen(g, selected) > p.limits[g][1] /\ selected' = selected \ {o}
        \/ o \notin selected /\ p.limits[g][2] = 1 /\ selected' = (selected \ Options[g]) \cup {o}
        \/ /\ o \notin selected /\ H!Chosen(g, selected) < p.limits[g][2]
           /\ selected' = selected \cup {o}
    BY <1>2 DEF H!ToggleOption, SheetInv
  <2>3. p.limits[g] \in Limits
    BY <2>1 DEF Fits
  <2>4. H!Chosen(g, selected) \in Nat /\ Suits(p.limits[g], H!Chosen(g, selected))
    BY <2>1, ChosenIs DEF Fits
  <2>5. PICK old, new : old = selected /\ new = selected'
    OBVIOUS
  <2>6. /\ o \in old /\ new = old \ {o} => H!Chosen(g, new) = H!Chosen(g, old) - 1
        /\ o \notin old /\ new = old \cup {o} => H!Chosen(g, new) = H!Chosen(g, old) + 1
        /\ new = (old \ Options[g]) \cup {o} => H!Chosen(g, new) = 1
        /\ \A h \in Groups \ {g} : H!Chosen(h, new) = H!Chosen(h, old)
    <3>1. new = old \ {o} \/ new = old \cup {o} \/ new = (old \ Options[g]) \cup {o}
      BY <2>2, <2>5
    <3>2. /\ o \in old => H!Chosen(g, old \ {o}) = H!Chosen(g, old) - 1
          /\ o \notin old => H!Chosen(g, old \cup {o}) = H!Chosen(g, old) + 1
          /\ H!Chosen(g, (old \ Options[g]) \cup {o}) = 1
      BY ToggleFacts
    <3>3. \A h \in Groups \ {g} :
            /\ H!Chosen(h, old \ {o}) = H!Chosen(h, old)
            /\ H!Chosen(h, old \cup {o}) = H!Chosen(h, old)
            /\ H!Chosen(h, (old \ Options[g]) \cup {o}) = H!Chosen(h, old)
      BY ToggleFacts
    <3>4. \A h \in Groups \ {g} : H!Chosen(h, new) = H!Chosen(h, old)
      BY <3>1, <3>3, Zenon
    <3> QED
      BY <3>2, <3>4, Zenon
  <2>7. Suits(p.limits[g], H!Chosen(g, new))
    <3>1. p.limits[g][1] \in Nat /\ p.limits[g][2] \in Nat /\ p.limits[g][1] <= p.limits[g][2]
      BY <2>3, GroupFacts
    <3>2. \/ H!Chosen(g, new) = H!Chosen(g, old) - 1 /\ H!Chosen(g, old) > p.limits[g][1]
          \/ H!Chosen(g, new) = 1 /\ p.limits[g][2] = 1
          \/ H!Chosen(g, new) = H!Chosen(g, old) + 1 /\ H!Chosen(g, old) < p.limits[g][2]
      BY <2>2, <2>5, <2>6
    <3>3. H!Chosen(g, old) \in Nat /\ Suits(p.limits[g], H!Chosen(g, old))
      BY <2>4, <2>5
    <3> QED
      BY <3>1, <3>2, <3>3 DEF Suits
  <2>8. \A h \in Groups : Suits(p.limits[h], H!Chosen(h, new))
    BY <2>1, <2>5, <2>6, <2>7 DEF Fits
  <2> QED
    BY <2>1, <2>5, <2>8 DEF Fits
<1> QED
  BY <1>1, <1>2 DEF SheetInv

\* A copy that suits is one that the server accepts, or there is an excuse.
LEMMA RefusalHasExcuse ==
  ASSUME NEW p \in H!Products, NEW a, a.copy = p, Fits(p, a.variant, a.choice),
         ~H!Accepts(product, a.variant, a.choice)
  PROVE  H!Excuse(a)
<1>1. SUFFICES ASSUME p = product PROVE H!Excuse(a)
  BY DEF H!Excuse
<1>2. CASE ~(a.variant \subseteq p.stock)
  BY <1>1, <1>2 DEF H!Excuse, Fits
<1> DEFINE Allowed(g) ==
       p.limits[g][1] <= H!Chosen(g, a.choice) /\ H!Chosen(g, a.choice) <= p.limits[g][2]
<1>3. CASE \E g \in Groups : ~Allowed(g)
  <2>1. PICK g \in Groups : ~Allowed(g)
    BY <1>3
  <2>2. /\ p.limits[g] \in Limits /\ H!Chosen(g, a.choice) \in Nat
        /\ Suits(p.limits[g], H!Chosen(g, a.choice))
    BY ChosenIs DEF Fits
  <2>3. p.limits[g][1] > 1 /\ H!Chosen(g, a.choice) < p.limits[g][1]
    BY <2>1, <2>2, GroupFacts DEF Suits
  <2> QED
    BY <2>3 DEF H!Excuse
<1> QED
  BY <1>1, <1>2, <1>3 DEF H!Accepts

\* Every step of the sheet keeps the invariant.
LEMMA SheetStep ==
  ASSUME SheetInv, [H!Next]_(H!vars)
  PROVE  SheetInv'
<1>1. CASE UNCHANGED H!vars
  BY <1>1 DEF H!vars, SheetInv
<1>2. CASE H!Load
  <2>1. /\ detail' = {product} /\ UNCHANGED <<product, adding, baffled>> /\ variant' = H!First
        /\ selected' = { CHOOSE o \in Options[g] : TRUE :
                         g \in { g \in Groups : product.limits[g][1] > 0 } }
    BY <1>2 DEF H!Load, H!Restart
  <2>2. product \in H!Products
    BY DEF SheetInv
  <2>3. Fits(product, H!First, selected')
    BY <2>1, <2>2, StartFits
  <2> QED
    BY <2>1, <2>2, <2>3 DEF SheetInv
<1>3. CASE H!Close
  BY <1>3 DEF H!Close, SheetInv
<1>4. CASE \E v \in Variants : H!ChooseVariant(v)
  <2>1. PICK v \in Variants : H!ChooseVariant(v)
    BY <1>4
  <2> QED
    BY <2>1 DEF H!ChooseVariant, SheetInv, Fits
<1>5. CASE H!AddToCart
  <2>1. PICK p \in detail : adding' = {[copy |-> p, variant |-> variant, choice |-> selected]}
    BY <1>5 DEF H!AddToCart
  <2> QED
    BY <1>5, <2>1 DEF H!AddToCart, SheetInv
<1>6. CASE H!Accept
  BY <1>6 DEF H!Accept, SheetInv
<1>7. CASE H!Refuse
  <2>1. ~baffled'
    BY <1>7, RefusalHasExcuse DEF H!Refuse, SheetInv
  <2> QED
    BY <1>7, <2>1 DEF H!Refuse, SheetInv
<1>8. CASE H!Edit
  BY <1>8 DEF H!Edit, SheetInv
<1> QED
  BY <1>1, <1>2, <1>3, <1>4, <1>5, <1>6, <1>7, <1>8, ToggleKeeps DEF H!Next

\* Nothing is shown and nothing chosen at first.
LEMMA SheetInit == H!Init => SheetInv
BY DEF H!Init, SheetInv

\* The server refuses a choice of the sheet only for a reason the sheet does not see to,
\* however the product changes in between, for any groups that staff may have entered.
THEOREM RefusalsHaveReasons == Spec => []RefusedForAReason
<1>1. Init => SheetInv
  BY SheetInit DEF Init
<1>2. SheetInv /\ [Next]_allVars => SheetInv'
  BY ShopStep, SheetStep
<1>3. SheetInv => RefusedForAReason
  BY DEF SheetInv, RefusedForAReason, H!RefusedForAReason
<1> QED
  BY <1>1, <1>2, <1>3, PTL DEF Spec, allVars

-----------------------------------------------------------------------------
(* The booking flow.                                                         *)

\* The answer that is kept for a service and a day holds times of that day, each of which
\* an answer offered.
Known(key) ==
  \A a \in cached[key] :
    /\ DOMAIN a = S!Able(key[1])
    /\ \A r \in S!Able(key[1]) : \A t \in a[r] :
         <<key[1], r, t>> \in offered /\ DayOf[t] = key[2]

\* A time was offered for the service with one of the specialists that are asked for.
WasOffered(s, choice, t) ==
  \E r \in Resources : (choice = {} \/ r \in choice) /\ <<s, r, t>> \in offered

SlotsInv ==
  /\ label \in Labels /\ date = S!Value(label)
  /\ service \subseteq Services /\ \A s \in service : service = {s}
  /\ DOMAIN cached = S!Keys /\ \A key \in S!Keys : Known(key)
  /\ \A t \in slot : DayOf[t] = date /\ \A s \in service : WasOffered(s, resource, t)
  /\ slot # {} => service # {}
  /\ BooksTheOffered

\* The date that is asked for is one that the page keeps answers for.
LEMMA DateIsAKey ==
  ASSUME SlotsInv, NEW s \in service
  PROVE  <<s, date>> \in S!Keys
<1>1. s \in Services /\ label \in Labels /\ Labels \subseteq Int
  BY ConstantsAssumption DEF SlotsInv, S!SlotsAssumption
<1>2. date \in { label - k : k \in {0, 1} }
  BY <1>1 DEF SlotsInv, S!Value
<1> DEFINE dates == { l - k : l \in Labels, k \in {0, 1} }
<1>3. date \in dates
  BY <1>1, <1>2
<1>4. S!Keys = Services \X dates
  BY DEF S!Keys
<1> HIDE DEF dates
<1> QED
  BY <1>1, <1>3, <1>4

\* A time that the page lets the customer choose was offered, for the day that is chosen.
LEMMA SlotsWereOffered ==
  ASSUME SlotsInv, NEW t \in S!Slots
  PROVE  /\ service # {} /\ DayOf[t] = date
         /\ \A s \in service : WasOffered(s, resource, t)
<1>1. PICK a \in S!Answers : \E r \in DOMAIN a : (resource = {} \/ r \in resource) /\ t \in a[r]
  BY DEF S!Slots
<1>2. PICK s \in service : a \in cached[<<s, date>>]
  BY DEF S!Answers
<1>3. Known(<<s, date>>)
  BY DateIsAKey DEF SlotsInv
<1>4. PICK r \in DOMAIN a : (resource = {} \/ r \in resource) /\ t \in a[r]
  BY <1>1
<1>5. DOMAIN a = S!Able(s) /\ <<s, r, t>> \in offered /\ DayOf[t] = date
  BY <1>2, <1>3, <1>4 DEF Known
<1>6. r \in Resources
  BY <1>4, <1>5 DEF S!Able
<1>7. service = {s}
  BY DEF SlotsInv
<1> QED
  BY <1>4, <1>5, <1>6, <1>7 DEF WasOffered

\* An answer keeps every time that was offered, and adds those that it holds.
LEMMA AnswerOffers ==
  ASSUME SlotsInv, NEW key \in S!Keys, S!Answer(key)
  PROVE  /\ offered \subseteq offered'
         /\ DOMAIN cached' = S!Keys /\ \A k \in S!Keys : Known(k)'
<1> DEFINE answer == S!Availability(key[1], key[2])
<1>1. /\ cached' = [cached EXCEPT ![key] = {answer}]
      /\ offered' = offered \cup
           UNION { { <<key[1], r, t>> : t \in answer[r] } : r \in S!Able(key[1]) }
  BY DEF S!Answer
<1>2. /\ DOMAIN answer = S!Able(key[1])
      /\ \A r \in S!Able(key[1]) : \A t \in answer[r] : DayOf[t] = key[2]
  BY DEF S!Availability
<1> HIDE DEF answer
<1>3. \A r \in S!Able(key[1]) : \A t \in answer[r] : <<key[1], r, t>> \in offered'
  BY <1>1
<1>4. DOMAIN cached' = S!Keys /\ offered \subseteq offered'
  BY <1>1 DEF SlotsInv
<1>5. ASSUME NEW k \in S!Keys PROVE Known(k)'
  <2>1. CASE k = key
    <3>1. cached'[k] = {answer}
      BY <1>1, <2>1 DEF SlotsInv
    <3> QED
      BY <1>2, <1>3, <2>1, <3>1 DEF Known
  <2>2. CASE k # key
    <3>1. cached'[k] = cached[k]
      BY <1>1, <2>2 DEF SlotsInv
    <3> QED
      BY <1>4, <3>1 DEF SlotsInv, Known
  <2> QED
    BY <2>1, <2>2
<1> QED
  BY <1>4, <1>5

\* What is known stays known while the answers stay.
LEMMA KnownStays ==
  ASSUME SlotsInv, UNCHANGED <<cached, offered>>
  PROVE  DOMAIN cached' = S!Keys /\ \A key \in S!Keys : Known(key)'
BY DEF SlotsInv, Known

\* So do the choices, and the request, while they do.
LEMMA ChoicesStay ==
  ASSUME SlotsInv, UNCHANGED <<service, resource, slot, date, offered>>
  PROVE  \A t \in slot' : DayOf[t] = date' /\ \A s \in service' : WasOffered(s, resource, t)'
BY DEF SlotsInv, WasOffered

\* Every step of the booking flow keeps the invariant.
LEMMA SlotsStep ==
  ASSUME SlotsInv, [S!Next]_(S!vars)
  PROVE  SlotsInv'
<1> USE DEF SlotsInv
<1>1. CASE UNCHANGED S!vars
  BY <1>1, KnownStays, ChoicesStay DEF S!vars, S!Value, BooksTheOffered, S!BooksTheOffered
<1>2. ASSUME NEW s \in Services, S!ChooseService(s) PROVE SlotsInv'
  <2>1. slot = {}
    BY <1>2 DEF S!ChooseService
  <2> QED
    BY <1>2, <2>1, KnownStays DEF S!ChooseService, S!Value, BooksTheOffered, S!BooksTheOffered
<1>3. CASE S!Back
  BY <1>3, KnownStays DEF S!Back, S!Value, BooksTheOffered, S!BooksTheOffered
<1>4. CASE S!Focus
  BY <1>4, KnownStays, ChoicesStay DEF S!Focus, S!Value, BooksTheOffered, S!BooksTheOffered
<1>5. CASE S!Confirm
  <2>1. PICK s \in service, t \in slot :
          booking' = {[service |-> s, resource |-> resource, time |-> t, label |-> label]}
    BY <1>5 DEF S!Confirm
  <2>2. early \/ DayOf[t] = label
    BY DEF S!Value
  <2>3. PICK r \in Resources : (resource = {} \/ r \in resource) /\ <<s, r, t>> \in offered
    BY DEF WasOffered
  <2>4. BooksTheOffered'
    BY <1>5, <2>1, <2>2, <2>3 DEF S!Confirm, BooksTheOffered, S!BooksTheOffered
  <2> QED
    BY <1>5, <2>4, KnownStays, ChoicesStay DEF S!Confirm, S!Value
<1>6. CASE S!Booked
  BY <1>6, KnownStays DEF S!Booked, S!Value, BooksTheOffered, S!BooksTheOffered
<1>7. CASE S!Refused
  BY <1>7, KnownStays, ChoicesStay DEF S!Refused, S!Value, BooksTheOffered, S!BooksTheOffered
<1>8. ASSUME NEW choice, S!ChooseResource(choice) PROVE SlotsInv'
  BY <1>8, KnownStays DEF S!ChooseResource, S!Value, BooksTheOffered, S!BooksTheOffered
<1>9. ASSUME NEW l \in Labels, S!ChooseDay(l) PROVE SlotsInv'
  BY <1>9, KnownStays DEF S!ChooseDay, S!Value, BooksTheOffered, S!BooksTheOffered
<1>10. ASSUME NEW t \in Times, S!ChooseSlot(t) PROVE SlotsInv'
  <2>1. service # {} /\ DayOf[t] = date /\ \A s \in service : WasOffered(s, resource, t)
    BY <1>10, SlotsWereOffered DEF S!ChooseSlot
  <2>2. \A u \in slot' : DayOf[u] = date' /\ \A s \in service' : WasOffered(s, resource, u)'
    BY <1>10, <2>1 DEF S!ChooseSlot, WasOffered
  <2> QED
    BY <1>10, <2>1, <2>2, KnownStays DEF S!ChooseSlot, S!Value, BooksTheOffered, S!BooksTheOffered
<1>11. ASSUME NEW key \in S!Keys, S!Answer(key) PROVE SlotsInv'
  <2>1. /\ offered \subseteq offered'
        /\ DOMAIN cached' = S!Keys /\ \A k \in S!Keys : Known(k)'
    BY <1>11, AnswerOffers
  <2>2. UNCHANGED <<early, service, resource, slot, date, label, booking>>
    BY <1>11 DEF S!Answer
  <2>3. \A t \in slot' : DayOf[t] = date' /\ \A s \in service' : WasOffered(s, resource, t)'
    BY <2>1, <2>2 DEF WasOffered
  <2>4. BooksTheOffered'
    BY <2>1, <2>2 DEF BooksTheOffered, S!BooksTheOffered
  <2> QED
    BY <2>1, <2>2, <2>3, <2>4 DEF S!Value
<1>12. ASSUME NEW key \in S!Keys, S!NoAnswer(key) PROVE SlotsInv'
  BY <1>12, KnownStays, ChoicesStay DEF S!NoAnswer, S!Value, BooksTheOffered, S!BooksTheOffered
<1>13. ASSUME NEW r \in Resources, NEW t \in Times, S!Take(r, t) PROVE SlotsInv'
  BY <1>13, KnownStays, ChoicesStay DEF S!Take, S!Value, BooksTheOffered, S!BooksTheOffered
<1> QED
  BY <1>1, <1>2, <1>3, <1>4, <1>5, <1>6, <1>7, <1>8, <1>9, <1>10, <1>11, <1>12, <1>13
  DEF S!Next

\* The page starts with nothing chosen and no answer.
LEMMA SlotsInit == S!Init => SlotsInv
BY DEF S!Init, SlotsInv, Known, BooksTheOffered, S!BooksTheOffered

\* What the page sends was offered by an answer of the server, for the service, the
\* specialist and the day that are chosen when it is sent, with any number of services,
\* specialists, days and answers in flight.
THEOREM OffersAreBooked == Spec => []BooksTheOffered
<1>1. Init => SlotsInv
  BY SlotsInit DEF Init
<1>2. SlotsInv /\ [Next]_allVars => SlotsInv'
  BY ShopStep, SlotsStep
<1>3. SlotsInv => BooksTheOffered
  BY DEF SlotsInv
<1> QED
  BY <1>1, <1>2, <1>3, PTL DEF Spec, allVars

-----------------------------------------------------------------------------
(* The cart and its page.                                                    *)

Reading(q) == q.pc \in {"get", "answer"}

\* What is known of a request in progress by how far it is.
Good(q) ==
  /\ q.pc \in C!Writes \cup {"idle", "get", "answer"}
  /\ q.pc = "get" =>
       q = [pc |-> "get", mode |-> q.mode, busy |-> q.busy, clean |-> q.clean]
  /\ q.pc = "answer" =>
       q = [pc |-> "answer", mode |-> q.mode, busy |-> q.busy, clean |-> q.clean,
            summary |-> q.summary]
  /\ Reading(q) => q.mode \in C!Modes /\ q.busy \in BOOLEAN /\ q.clean \in BOOLEAN
  /\ q.pc = "checkout" =>
       q = [pc |-> "checkout", mode |-> q.mode, agreed |-> q.agreed] /\ q.mode \in C!Modes
  /\ q.pc = "commit" => q = [pc |-> "commit", agreed |-> q.agreed, total |-> q.total]
  /\ q.pc = "sum" => q = [pc |-> "sum", page |-> q.page] /\ q.page \in BOOLEAN

CartTypes ==
  /\ DOMAIN request = Requests /\ \A r \in Requests : Good(request[r])
  /\ mode \in C!Modes /\ DOMAIN shown = C!Modes /\ stale \in [C!Modes -> BOOLEAN]

\* An answer that is clean is what the server would answer now, and nothing is being written.
CleanIsCurrent ==
  \A r \in Requests : Reading(request[r]) /\ request[r].clean =>
    /\ ~C!Writing
    /\ request[r].pc = "answer" => request[r].summary \subseteq {C!Summary(request[r].mode)}

\* The copy of a way of fulfilment is true, if anything can be ordered from it, ...
Right(m) == C!Orderable(shown[m]) => shown[m] = {C!Summary(m)}

\* ... or there is a reason for it not to be.
Settled(m) == C!Orderable(shown[m]) => stale[m]

\* The page of the cart neither asks nor expects to, and has no reason for doubt.
Quiet ==
  /\ at = "cart" /\ ~stale[mode] /\ ~C!Getting(mode)
  /\ \A r \in Requests : request[r].pc \in C!Writes => request[r].pc \in {"checkout", "commit"}

PageIsRight == Quiet => Right(mode)

\* A line that is added from the catalog, which asks for nothing when it is there.
Adding(q) == q.pc \in {"add", "write"} \/ (q.pc = "sum" /\ ~q.page)

\* It finds the page of the cart asking, or not to be trusted.
AddsAreSettled ==
  \A r \in Requests : Adding(request[r]) /\ at = "cart" => C!Getting(mode) \/ Settled(mode)

\* What was agreed, if nothing came in between, is what the cart costs, or the order.
AgreedIsDue ==
  \A r \in Requests :
    /\ request[r].pc = "checkout" /\ request[r].agreed # {} =>
         /\ \A s \in Requests \ {r} : request[s].pc \notin C!Writes
         /\ request[r].agreed \subseteq {C!Summary(request[r].mode).total}
    /\ request[r].pc = "commit" => request[r].agreed \subseteq {request[r].total}

CartInv ==
  /\ CartTypes /\ CleanIsCurrent /\ PageIsRight /\ AddsAreSettled /\ AgreedIsDue
  /\ ~disputed

\* What the server would answer, and whether the copy of it is true, depend on the cart, the
\* price and the copy.
LEMMA SummaryStays ==
  ASSUME UNCHANGED <<cart, price>>
  PROVE  /\ \A m : C!Summary(m)' = C!Summary(m)
         /\ shown' = shown => \A m : Right(m)' <=> Right(m)
<1>1. \A m : C!Summary(m)' = C!Summary(m)
  BY DEF C!Summary
<1> QED
  BY <1>1 DEF Right, C!Orderable

\* The requests after something else was changed.
LEMMA DisturbFacts ==
  ASSUME CartTypes, NEW d, d = C!Disturb(request)
  PROVE  /\ DOMAIN d = Requests
         /\ \A r \in Requests :
              /\ Good(d[r]) /\ d[r].pc = request[r].pc
              /\ Reading(request[r]) => d[r].mode = request[r].mode /\ ~d[r].clean
              /\ request[r].pc \in {"checkout", "commit"} => d[r].agreed = {}
              /\ Adding(d[r]) <=> Adding(request[r])
<1>1. DOMAIN d = Requests
  BY DEF C!Disturb
<1>2. ASSUME NEW r \in Requests
      PROVE  /\ Good(d[r]) /\ d[r].pc = request[r].pc
             /\ Reading(request[r]) => d[r].mode = request[r].mode /\ ~d[r].clean
             /\ request[r].pc \in {"checkout", "commit"} => d[r].agreed = {}
             /\ Adding(d[r]) <=> Adding(request[r])
  <2>1. PICK q : q = request[r] /\ Good(q)
    BY DEF CartTypes
  <2>2. d[r] = CASE q.pc \in {"get", "answer"}      -> [q EXCEPT !.clean = FALSE]
                 [] q.pc \in {"checkout", "commit"} -> [q EXCEPT !.agreed = {}]
                 [] OTHER                          -> q
    BY <2>1 DEF C!Disturb
  <2>3. CASE q.pc \in {"get", "answer"}
    <3>1. d[r] = [q EXCEPT !.clean = FALSE]
      BY <2>2, <2>3
    <3> QED
      BY <2>1, <2>3, <3>1 DEF Good, Reading, Adding, C!Writes
  <2>4. CASE q.pc \in {"checkout", "commit"}
    <3>1. d[r] = [q EXCEPT !.agreed = {}]
      BY <2>2, <2>4
    <3> QED
      BY <2>1, <2>4, <3>1 DEF Good, Reading, Adding, C!Writes
  <2>5. CASE q.pc \notin {"get", "answer", "checkout", "commit"}
    <3>1. d[r] = q
      BY <2>2, <2>5
    <3> QED
      BY <2>1, <2>5, <3>1 DEF Reading, Adding
  <2> QED
    BY <2>3, <2>4, <2>5
<1> QED
  BY <1>1, <1>2

\* The requests after one that asks for the cart: it takes the place of what asked for the same.
LEMMA GetFacts ==
  ASSUME CartTypes, NEW r \in Requests, NEW m \in C!Modes, NEW busy \in BOOLEAN,
         ~Reading(request[r]), NEW g, g = C!Get(r, m, request, busy)
  PROVE  /\ DOMAIN g = Requests /\ \A s \in Requests : Good(g[s])
         /\ g[r].pc = "get" /\ g[r].mode = m
         /\ g[r].clean => \A s \in Requests \ {r} : request[s].pc \notin C!Writes
         /\ \A s \in Requests \ {r} : g[s] = request[s] \/ g[s].pc = "idle"
         /\ \A s \in Requests \ {r} : request[s].pc \in C!Writes => g[s] = request[s]
<1> DEFINE own == [pc |-> "get", mode |-> m, busy |-> busy,
                   clean |-> ~\E w \in Requests \ {r} : request[w].pc \in C!Writes]
<1>1. DOMAIN g = Requests /\ g[r] = own
  <2>1. DOMAIN g = Requests
    BY DEF C!Get
  <2>2. g[r] = CASE r = r -> own
                 [] request[r].pc \in {"get", "answer"} /\ request[r].mode = m -> C!Idle
                 [] OTHER -> request[r]
    BY DEF C!Get
  <2> HIDE DEF own
  <2>3. g[r] = own
    BY <2>2 DEF Reading
  <2> QED
    BY <2>1, <2>3
<1>2. /\ own.pc = "get" /\ own.mode = m /\ own.clean \in BOOLEAN /\ own.busy = busy
      /\ own = [pc |-> own.pc, mode |-> own.mode, busy |-> own.busy, clean |-> own.clean]
      /\ own.clean => \A s \in Requests \ {r} : request[s].pc \notin C!Writes
  OBVIOUS
<1> HIDE DEF own
<1>3. Good(own)
  BY <1>2 DEF Good, Reading, C!Writes
<1>4. C!Idle.pc = "idle" /\ Good(C!Idle)
  BY DEF C!Idle, Good, Reading, C!Writes
<1>5. ASSUME NEW s \in Requests \ {r}
      PROVE  /\ g[s] = request[s] \/ g[s] = C!Idle
             /\ request[s].pc \in C!Writes => g[s] = request[s]
  <2>1. PICK q : q = request[s]
    OBVIOUS
  <2>2. s # r
    OBVIOUS
  <2>3. g[s] = CASE s = r -> own
                 [] q.pc \in {"get", "answer"} /\ q.mode = m -> C!Idle
                 [] OTHER -> q
    BY <2>1 DEF C!Get, own
  <2>4. g[s] = IF q.pc \in {"get", "answer"} /\ q.mode = m THEN C!Idle ELSE q
    BY <2>2, <2>3
  <2> QED
    BY <2>1, <2>4 DEF C!Writes
<1> QED
  BY <1>1, <1>2, <1>3, <1>4, <1>5 DEF CartTypes

\* What is in flight after a tap.
LEMMA TapFacts ==
  ASSUME CartTypes, NEW r \in Requests, NEW q, Good(q), q.pc \in C!Writes, C!Tap(r, q)
  PROVE  /\ request[r].pc = "idle" /\ request'[r] = q
         /\ DOMAIN request' = Requests /\ \A s \in Requests : Good(request'[s])
         /\ \A s \in Requests \ {r} :
              /\ request'[s].pc = request[s].pc
              /\ Reading(request[s]) => request'[s].mode = request[s].mode /\ ~request'[s].clean
              /\ request[s].pc \in {"checkout", "commit"} => request'[s].agreed = {}
              /\ Adding(request'[s]) <=> Adding(request[s])
<1> DEFINE d == C!Disturb(request)
<1>1. request[r] = C!Idle /\ request' = [d EXCEPT ![r] = q]
  BY DEF C!Tap
<1>2. /\ DOMAIN d = Requests
      /\ \A s \in Requests :
           /\ Good(d[s]) /\ d[s].pc = request[s].pc
           /\ Reading(request[s]) => d[s].mode = request[s].mode /\ ~d[s].clean
           /\ request[s].pc \in {"checkout", "commit"} => d[s].agreed = {}
           /\ Adding(d[s]) <=> Adding(request[s])
  BY DisturbFacts
<1> HIDE DEF d
<1> QED
  BY <1>1, <1>2 DEF C!Idle

\* A tap keeps the invariant: what is shown is doubted if something else is being written,
\* and all that was asked for or agreed before it is.
LEMMA TapKeeps ==
  ASSUME CartInv, NEW r \in Requests, NEW q, Good(q), q.pc \in C!Writes \ {"commit"}, C!Tap(r, q),
         UNCHANGED <<price, cart, at, mode, shown, disputed>>,
         Adding(q) => at # "cart",
         q.pc = "checkout" /\ q.agreed # {} =>
           ~C!Writing /\ q.agreed \subseteq {C!Summary(q.mode).total}
  PROVE  CartInv'
<1>1. /\ request[r].pc = "idle" /\ request'[r] = q
      /\ DOMAIN request' = Requests /\ \A s \in Requests : Good(request'[s])
      /\ \A s \in Requests \ {r} :
           /\ request'[s].pc = request[s].pc
           /\ Reading(request[s]) => request'[s].mode = request[s].mode /\ ~request'[s].clean
           /\ request[s].pc \in {"checkout", "commit"} => request'[s].agreed = {}
           /\ Adding(request'[s]) <=> Adding(request[s])
  BY TapFacts DEF CartInv
<1>2. stale' = IF C!Writing THEN C!Doubt ELSE stale
  BY DEF C!Tap
<1>3. /\ stale' \in [C!Modes -> BOOLEAN]
      /\ C!Writing => \A m \in C!Modes : stale'[m] <=> C!Orderable(shown[m])
      /\ ~C!Writing => stale' = stale
  BY <1>2 DEF C!Doubt, CartInv, CartTypes, C!Orderable
<1>4. /\ \A m : C!Summary(m)' = C!Summary(m)
      /\ \A m : Right(m)' <=> Right(m)
  BY SummaryStays
<1>5. CartTypes'
  BY <1>1, <1>3 DEF CartInv, CartTypes
<1>6. CleanIsCurrent'
  BY <1>1 DEF CleanIsCurrent, Reading, C!Writes
<1>7. PageIsRight'
  <2>1. SUFFICES ASSUME Quiet' PROVE Right(mode)
    BY <1>4 DEF PageIsRight
  <2>2. q.pc = "checkout"
    BY <1>1, <2>1 DEF Quiet
  <2>3. CASE C!Writing
    BY <1>3, <2>1, <2>3 DEF Quiet, Right, CartInv, CartTypes
  <2>4. CASE ~C!Writing
    <3>1. \A s \in Requests : Reading(request[s]) =>
            s # r /\ request'[s].pc = request[s].pc /\ request'[s].mode = request[s].mode
      BY <1>1 DEF Reading
    <3>2. C!Getting(mode) => C!Getting(mode)'
      BY <3>1 DEF C!Getting, Reading
    <3>3. Quiet
      BY <1>3, <2>1, <2>4, <3>2 DEF Quiet, C!Writing
    <3> QED
      BY <3>3 DEF CartInv, PageIsRight
  <2> QED
    BY <2>3, <2>4
<1>8. AddsAreSettled'
  <2>1. SUFFICES ASSUME NEW s \in Requests, Adding(request'[s]), at = "cart" PROVE Settled(mode)'
    BY DEF AddsAreSettled
  <2>2. Adding(request[s])
    BY <1>1, <2>1
  <2>3. C!Writing
    BY <2>2 DEF Adding, C!Writing, C!Writes
  <2> QED
    BY <1>3, <2>3 DEF Settled, CartInv, CartTypes, C!Orderable
<1>9. AgreedIsDue'
  <2>1. ~C!Writing => \A s \in Requests \ {r} : request'[s].pc \notin C!Writes
    BY <1>1 DEF C!Writing
  <2> QED
    BY <1>1, <1>4, <2>1 DEF AgreedIsDue
<1> QED
  BY <1>5, <1>6, <1>7, <1>8, <1>9 DEF CartInv

\* So do staff, whatever they change.
LEMMA StaffKeeps ==
  ASSUME CartInv, C!Unsettle, UNCHANGED <<at, mode, shown, disputed>>
  PROVE  CartInv'
<1>1. /\ DOMAIN request' = Requests
      /\ \A r \in Requests :
           /\ Good(request'[r]) /\ request'[r].pc = request[r].pc
           /\ Reading(request[r]) => request'[r].mode = request[r].mode /\ ~request'[r].clean
           /\ request[r].pc \in {"checkout", "commit"} => request'[r].agreed = {}
           /\ Adding(request'[r]) <=> Adding(request[r])
  <2>1. PICK new : new = request'
    OBVIOUS
  <2>2. new = C!Disturb(request)
    BY <2>1 DEF C!Unsettle
  <2> QED
    BY <2>1, <2>2, DisturbFacts DEF CartInv
<1>2. /\ stale' \in [C!Modes -> BOOLEAN]
      /\ \A m \in C!Modes : stale'[m] <=> C!Orderable(shown[m])
  BY DEF C!Unsettle, C!Doubt, C!Orderable
<1>3. CartTypes'
  BY <1>1, <1>2 DEF CartInv, CartTypes
<1>4. CleanIsCurrent'
  BY <1>1 DEF CleanIsCurrent, Reading
<1>5. ~C!Orderable(shown[mode]) \/ stale'[mode]
  BY <1>2 DEF CartInv, CartTypes
<1>6. Settled(mode)' /\ (Quiet' => Right(mode)')
  BY <1>5 DEF Settled, Quiet, Right, C!Orderable
<1>7. AgreedIsDue'
  BY <1>1 DEF AgreedIsDue
<1> QED
  BY <1>3, <1>4, <1>6, <1>7 DEF CartInv, PageIsRight, AddsAreSettled

\* A write goes on, and changes the cart: nothing was clean or agreed while it was on its way.
LEMMA WriteKeeps ==
  ASSUME CartInv, NEW r \in Requests, request[r].pc \in {"add", "write", "set", "promo"},
         NEW q, Good(q), q.pc \in {"write", "sum"}, Adding(q) => Adding(request[r]),
         C!Continue(r, q), UNCHANGED <<at, mode, shown, disputed>>
  PROVE  CartInv'
<1>1. /\ DOMAIN request' = Requests /\ stale' = stale /\ request'[r] = q
      /\ \A s \in Requests \ {r} : request'[s] = request[s]
  BY DEF C!Continue, CartInv, CartTypes
<1>2. CartTypes'
  BY <1>1 DEF CartInv, CartTypes
<1>3. request[r].pc \in C!Writes /\ q.pc \in C!Writes \ {"checkout", "commit"}
  BY DEF C!Writes
<1>4. CleanIsCurrent'
  BY <1>1, <1>3 DEF CartInv, CleanIsCurrent, Reading, C!Writing, C!Writes
<1>5. PageIsRight'
  BY <1>1, <1>3 DEF PageIsRight, Quiet
<1>6. AddsAreSettled'
  <2>1. SUFFICES ASSUME NEW s \in Requests, Adding(request'[s]), at = "cart"
                 PROVE  C!Getting(mode)' \/ Settled(mode)'
    BY DEF AddsAreSettled
  <2>2. C!Getting(mode) \/ Settled(mode)
    BY <1>1, <2>1 DEF CartInv, AddsAreSettled
  <2>3. C!Getting(mode) => C!Getting(mode)'
    <3>1. \A w \in Requests : request[w].pc \in {"get", "answer"} => request'[w] = request[w]
      BY <1>1
    <3> QED
      BY <3>1 DEF C!Getting
  <2>4. Settled(mode) => Settled(mode)'
    BY <1>1 DEF Settled, C!Orderable
  <2> QED
    BY <2>2, <2>3, <2>4
<1>7. AgreedIsDue'
  BY <1>1, <1>3 DEF CartInv, AgreedIsDue, C!Writes
<1> QED
  BY <1>2, <1>4, <1>5, <1>6, <1>7 DEF CartInv

\* A write that fails leaves every copy in doubt.
LEMMA FailKeeps ==
  ASSUME CartInv, NEW r \in Requests, request[r].pc \in C!Writes, C!Fail(r),
         UNCHANGED <<price, cart, at, mode, shown, disputed>>
  PROVE  CartInv'
<1>1. /\ DOMAIN request' = Requests /\ request'[r] = C!Idle
      /\ \A s \in Requests \ {r} : request'[s] = request[s]
  BY DEF C!Fail, CartInv, CartTypes
<1>2. /\ Good(C!Idle) /\ C!Idle.pc = "idle" /\ "idle" \notin C!Writes
      /\ ~Reading(C!Idle) /\ ~Adding(C!Idle)
  BY DEF C!Idle, Good, Reading, Adding, C!Writes
<1>3. /\ stale' \in [C!Modes -> BOOLEAN]
      /\ \A m \in C!Modes : stale'[m] <=> C!Orderable(shown[m])
  BY DEF C!Fail, C!Doubt, C!Orderable
<1>4. CartTypes'
  BY <1>1, <1>2, <1>3 DEF CartInv, CartTypes
<1>5. CleanIsCurrent'
  BY <1>1, <1>2 DEF CartInv, CleanIsCurrent, C!Writing
<1>6. ~C!Orderable(shown[mode]) \/ stale'[mode]
  BY <1>3 DEF CartInv, CartTypes
<1>7. Settled(mode)' /\ (Quiet' => Right(mode)')
  BY <1>6 DEF Settled, Quiet, Right, C!Orderable
<1>8. AgreedIsDue'
  <2>1. \A m : C!Summary(m)' = C!Summary(m)
    BY SummaryStays
  <2>2. \A s \in Requests : request'[s].pc \in C!Writes => request'[s] = request[s]
    BY <1>1, <1>2
  <2>3. \A s \in Requests : request'[s].pc \in {"checkout", "commit"} => request'[s] = request[s]
    BY <2>2 DEF C!Writes
  <2> QED
    BY <2>1, <2>2, <2>3 DEF CartInv, AgreedIsDue
<1> QED
  BY <1>4, <1>5, <1>7, <1>8 DEF CartInv, PageIsRight, AddsAreSettled

\* A request that ends without a write, and is none that the page has yet to follow up.
LEMMA EndKeeps ==
  ASSUME CartInv, NEW r \in Requests, request[r].pc \in {"sum", "checkout", "commit"},
         request[r].pc = "sum" /\ at = "cart" => Adding(request[r]),
         C!Continue(r, C!Idle), UNCHANGED <<price, cart, at, mode, shown, disputed>>
  PROVE  CartInv'
<1>1. /\ DOMAIN request' = Requests /\ request'[r] = C!Idle /\ stale' = stale
      /\ \A s \in Requests \ {r} : request'[s] = request[s]
  BY DEF C!Continue, CartInv, CartTypes
<1>2. /\ Good(C!Idle) /\ C!Idle.pc = "idle" /\ "idle" \notin C!Writes
      /\ ~Reading(C!Idle) /\ ~Adding(C!Idle)
  BY DEF C!Idle, Good, Reading, Adding, C!Writes
<1>3. /\ \A m : C!Summary(m)' = C!Summary(m)
      /\ \A m : Right(m)' <=> Right(m)
  BY SummaryStays
<1>4. CartTypes'
  BY <1>1, <1>2 DEF CartInv, CartTypes
<1>5. CleanIsCurrent'
  BY <1>1, <1>2, <1>3 DEF CartInv, CleanIsCurrent, C!Writing
<1>6. C!Getting(mode) => C!Getting(mode)'
  <2>1. \A s \in Requests : request[s].pc \in {"get", "answer"} => request'[s] = request[s]
    BY <1>1
  <2> QED
    BY <2>1 DEF C!Getting
<1>7. Settled(mode)' <=> Settled(mode)
  BY <1>1 DEF Settled, C!Orderable
<1>8. PageIsRight'
  <2>1. SUFFICES ASSUME Quiet' PROVE Right(mode)
    BY <1>3 DEF PageIsRight
  <2>2. at = "cart" /\ ~stale[mode] /\ ~C!Getting(mode)
    BY <1>1, <1>6, <2>1 DEF Quiet
  <2>3. CASE request[r].pc = "sum"
    <3>1. Settled(mode)
      BY <2>2, <2>3 DEF CartInv, AddsAreSettled
    <3> QED
      BY <2>2, <3>1 DEF Settled, Right
  <2>4. CASE request[r].pc # "sum"
    <3>1. Quiet
      BY <1>1, <2>1, <2>2, <2>4 DEF Quiet
    <3> QED
      BY <3>1 DEF CartInv, PageIsRight
  <2> QED
    BY <2>3, <2>4
<1>9. AddsAreSettled'
  BY <1>1, <1>2, <1>6, <1>7 DEF CartInv, AddsAreSettled
<1>10. AgreedIsDue'
  <2>1. \A s \in Requests : request'[s].pc \in C!Writes => request'[s] = request[s]
    BY <1>1, <1>2
  <2>2. \A s \in Requests : request'[s].pc \in {"checkout", "commit"} => request'[s] = request[s]
    BY <2>1 DEF C!Writes
  <2> QED
    BY <1>3, <2>1, <2>2 DEF CartInv, AgreedIsDue
<1> QED
  BY <1>4, <1>5, <1>8, <1>9, <1>10 DEF CartInv

\* The page asks for the cart, of itself or after a write.
LEMMA GetKeeps ==
  ASSUME CartInv, NEW r \in Requests, NEW m \in C!Modes, NEW busy \in BOOLEAN,
         request[r].pc \in C!Writes \cup {"idle"}, request' = C!Get(r, m, request, busy),
         cart' = cart \/ request[r].pc \in C!Writes,
         mode' = m, ~disputed', UNCHANGED <<price, shown, stale>>
  PROVE  CartInv'
<1>0. PICK new : new = request'
  OBVIOUS
<1>1. /\ DOMAIN request' = Requests /\ \A s \in Requests : Good(request'[s])
      /\ request'[r].pc = "get" /\ request'[r].mode = m
      /\ request'[r].clean => \A s \in Requests \ {r} : request[s].pc \notin C!Writes
      /\ \A s \in Requests \ {r} : request'[s] = request[s] \/ request'[s].pc = "idle"
      /\ \A s \in Requests \ {r} : request[s].pc \in C!Writes => request'[s] = request[s]
  <2>2. new = C!Get(r, m, request, busy)
    BY <1>0
  <2>3. ~Reading(request[r])
    BY DEF Reading, C!Writes
  <2> QED
    BY <1>0, <2>2, <2>3, GetFacts DEF CartInv
<1>2. \A s \in Requests : request'[s].pc \in C!Writes => s # r /\ request'[s] = request[s]
  BY <1>1 DEF C!Writes
<1>3. CartTypes'
  BY <1>1 DEF CartInv, CartTypes
<1>4. CleanIsCurrent'
  <2>1. SUFFICES ASSUME NEW s \in Requests, Reading(new[s]), new[s].clean
                 PROVE  /\ ~C!Writing'
                        /\ new[s].pc = "answer" =>
                             new[s].summary \subseteq {C!Summary(new[s].mode)'}
    BY <1>0 DEF CleanIsCurrent
  <2>2. CASE s = r
    BY <1>0, <1>1, <1>2, <2>1, <2>2 DEF C!Writing
  <2>3. CASE s # r
    <3>1. new[s] = request[s]
      BY <1>0, <1>1, <2>1, <2>3 DEF Reading
    <3>2. /\ ~C!Writing
          /\ request[s].pc = "answer" => request[s].summary \subseteq {C!Summary(request[s].mode)}
      BY <2>1, <3>1 DEF CartInv, CleanIsCurrent
    <3>3. cart' = cart /\ ~C!Writing'
      BY <1>2, <3>2 DEF C!Writing
    <3>4. \A k : C!Summary(k)' = C!Summary(k)
      BY <3>3, SummaryStays
    <3> QED
      BY <3>1, <3>2, <3>3, <3>4
  <2> QED
    BY <2>2, <2>3
<1>5. C!Getting(mode)'
  BY <1>1 DEF C!Getting
<1>6. PageIsRight' /\ AddsAreSettled'
  BY <1>5 DEF PageIsRight, Quiet, AddsAreSettled
<1>7. AgreedIsDue'
  <2>1. \A s \in Requests : request'[s].pc \in {"checkout", "commit"} =>
          s # r /\ request'[s] = request[s]
    BY <1>2 DEF C!Writes
  <2>2. ASSUME NEW s \in Requests, new[s].pc = "checkout", new[s].agreed # {}
        PROVE  /\ \A w \in Requests \ {s} : new[w].pc \notin C!Writes
               /\ new[s].agreed \subseteq {C!Summary(new[s].mode)'.total}
    <3>1. s # r /\ new[s] = request[s]
      BY <1>0, <2>1, <2>2
    <3>2. /\ \A w \in Requests \ {s} : request[w].pc \notin C!Writes
          /\ request[s].agreed \subseteq {C!Summary(request[s].mode).total}
      BY <2>2, <3>1 DEF CartInv, AgreedIsDue
    <3>3. cart' = cart
      BY <3>1, <3>2
    <3>4. \A k : C!Summary(k)' = C!Summary(k)
      BY <3>3, SummaryStays
    <3> QED
      BY <1>0, <1>2, <3>1, <3>2, <3>4
  <2>3. ASSUME NEW s \in Requests, new[s].pc = "commit" PROVE new[s].agreed \subseteq {new[s].total}
    BY <1>0, <2>1, <2>3 DEF CartInv, AgreedIsDue
  <2> QED
    BY <1>0, <2>2, <2>3 DEF AgreedIsDue
<1> QED
  BY <1>3, <1>4, <1>6, <1>7 DEF CartInv

\* The page that appears asks, is asking already, or is in doubt of what it shows.
LEMMA RevalidateKeeps ==
  ASSUME CartInv, NEW m \in C!Modes, C!Revalidate(m), mode' = m,
         UNCHANGED <<price, cart, shown, disputed>>
  PROVE  CartInv'
<1>1. CASE \E r \in Requests : request[r] = C!Idle /\ request' = C!Get(r, m, request, FALSE)
           /\ UNCHANGED stale
  <2>1. PICK r \in Requests : request[r] = C!Idle /\ request' = C!Get(r, m, request, FALSE)
    BY <1>1
  <2>2. request[r].pc = "idle"
    BY <2>1 DEF C!Idle
  <2> QED
    BY <1>1, <2>1, <2>2, GetKeeps DEF CartInv
<1>2. CASE UNCHANGED request /\ UNCHANGED stale /\ C!Getting(m)
  BY <1>2 DEF CartInv, CartTypes, CleanIsCurrent, C!Writing, C!Getting, PageIsRight, Quiet,
              AddsAreSettled, AgreedIsDue, C!Summary
<1>3. CASE UNCHANGED request /\ stale' = [stale EXCEPT ![m] = C!Orderable(shown[m])]
  <2>1. stale' \in [C!Modes -> BOOLEAN] /\ (stale'[m] <=> C!Orderable(shown[m]))
    BY <1>3 DEF CartInv, CartTypes, C!Orderable
  <2>2. Settled(mode)' /\ (Quiet' => Right(mode)')
    BY <2>1 DEF Settled, Quiet, Right, C!Orderable
  <2>3. CartTypes' /\ AddsAreSettled' /\ PageIsRight'
    BY <1>3, <2>1, <2>2 DEF CartInv, CartTypes, AddsAreSettled, PageIsRight
  <2>4. \A k : C!Summary(k)' = C!Summary(k)
    BY SummaryStays
  <2>5. CleanIsCurrent' /\ AgreedIsDue'
    BY <1>3, <2>4 DEF CartInv, CleanIsCurrent, C!Writing, AgreedIsDue
  <2> QED
    BY <2>3, <2>5 DEF CartInv
<1> QED
  BY <1>1, <1>2, <1>3 DEF C!Revalidate

\* The page is left.
LEMMA CatalogKeeps ==
  ASSUME CartInv, C!OpenCatalog
  PROVE  CartInv'
<1>1. /\ UNCHANGED <<price, cart, shown, request, stale, disputed>>
      /\ at' = "catalog" /\ mode' \in C!Modes
  BY DEF C!OpenCatalog, C!Modes
<1>2. \A k : C!Summary(k)' = C!Summary(k)
  BY <1>1, SummaryStays
<1> QED
  BY <1>1, <1>2 DEF CartInv, CartTypes, CleanIsCurrent, C!Writing, PageIsRight, Quiet,
                    AddsAreSettled, AgreedIsDue

\* The order is priced as the cart is now, which is what was agreed.
LEMMA PriceOrderKeeps ==
  ASSUME CartInv, NEW r \in Requests, C!PriceOrder(r)
  PROVE  CartInv'
<1>1. UNCHANGED <<price, cart, at, mode, shown, disputed>> /\ request[r].pc = "checkout"
  BY DEF C!PriceOrder
<1>2. CASE C!Continue(r, C!Idle)
  BY <1>1, <1>2, EndKeeps
<1>3. CASE /\ cart.lines # <<>>
           /\ C!Continue(r, [pc |-> "commit", agreed |-> request[r].agreed,
                total |-> C!Compute(C!Order(cart, price, request[r].mode)).total])
  <2> DEFINE due == C!Compute(C!Order(cart, price, request[r].mode)).total
             q   == [pc |-> "commit", agreed |-> request[r].agreed, total |-> due]
  <2>1. /\ DOMAIN request' = Requests /\ request'[r] = q /\ stale' = stale
        /\ \A s \in Requests \ {r} : request'[s] = request[s]
    BY <1>3 DEF C!Continue, CartInv, CartTypes
  <2>2. due = C!Summary(request[r].mode).total
    BY <1>3 DEF C!Summary
  <2> HIDE DEF due
  <2>3. q.pc = "commit" /\ Good(q) /\ ~Adding(q) /\ q.agreed = request[r].agreed /\ q.total = due
    BY DEF Good, Reading, Adding, C!Writes
  <2> HIDE DEF q
  <2>4. \A s \in Requests : Reading(request'[s]) => request'[s] = request[s]
    BY <2>1, <2>3 DEF Reading
  <2>5. \A s \in Requests : request'[s].pc \in C!Writes <=> request[s].pc \in C!Writes
    BY <1>1, <2>1, <2>3 DEF C!Writes
  <2>6. /\ \A k : C!Summary(k)' = C!Summary(k)
        /\ \A k : Right(k)' <=> Right(k)
    BY <1>1, SummaryStays
  <2>7. CartTypes'
    BY <1>1, <2>1, <2>3 DEF CartInv, CartTypes
  <2>8. CleanIsCurrent'
    BY <2>4, <2>5, <2>6 DEF CartInv, CleanIsCurrent, C!Writing
  <2>9. C!Getting(mode)' <=> C!Getting(mode)
    <3>1. \A s \in Requests : Reading(request[s]) \/ Reading(request'[s]) => request'[s] = request[s]
      BY <1>1, <2>1, <2>3 DEF Reading
    <3> QED
      BY <1>1, <3>1 DEF C!Getting, Reading
  <2>10. PageIsRight'
    BY <1>1, <2>1, <2>5, <2>6, <2>9 DEF CartInv, PageIsRight, Quiet
  <2>11. AddsAreSettled'
    BY <1>1, <2>1, <2>3, <2>9 DEF CartInv, AddsAreSettled, Settled, C!Orderable
  <2>12. AgreedIsDue'
    <3>1. request[r].agreed # {} => request[r].agreed \subseteq {due}
      BY <1>1, <2>2 DEF CartInv, AgreedIsDue
    <3> QED
      BY <1>1, <2>1, <2>3, <2>5, <2>6, <3>1 DEF CartInv, AgreedIsDue
  <2> QED
    BY <1>1, <2>7, <2>8, <2>10, <2>11, <2>12 DEF CartInv
<1> QED
  BY <1>2, <1>3 DEF C!PriceOrder

\* The server reads the cart for an answer.
LEMMA GetCartKeeps ==
  ASSUME CartInv, NEW r \in Requests, C!GetCart(r)
  PROVE  CartInv'
<1> DEFINE old == request[r]
           now == IF C!SummaryFails(old.mode) THEN {} ELSE {C!Summary(old.mode)}
           q   == [pc |-> "answer", mode |-> old.mode, busy |-> old.busy, clean |-> old.clean,
                   summary |-> now]
<1>1. /\ UNCHANGED <<price, cart, at, mode, shown, disputed>> /\ old.pc = "get"
      /\ C!Continue(r, q)
  BY DEF C!GetCart
<1>2. /\ DOMAIN request' = Requests /\ request'[r] = q /\ stale' = stale
      /\ \A s \in Requests \ {r} : request'[s] = request[s]
  BY <1>1 DEF C!Continue, CartInv, CartTypes
<1>3. now \subseteq {C!Summary(old.mode)}
  OBVIOUS
<1>4. Good(old)
  BY DEF CartInv, CartTypes
<1> HIDE DEF now
<1>5. /\ q.pc = "answer" /\ Good(q) /\ ~Adding(q) /\ q.pc \notin C!Writes
      /\ q.mode = old.mode /\ q.clean = old.clean /\ q.summary = now
  BY <1>1, <1>4 DEF Good, Reading, Adding, C!Writes
<1> HIDE DEF q
<1>6. /\ \A k : C!Summary(k)' = C!Summary(k)
      /\ \A k : Right(k)' <=> Right(k)
  BY <1>1, SummaryStays
<1>7. /\ \A s \in Requests : request'[s].pc \in C!Writes <=> request[s].pc \in C!Writes
      /\ \A s \in Requests : request'[s].pc \in C!Writes => request'[s] = request[s]
  BY <1>1, <1>2, <1>5 DEF C!Writes
<1>8. CartTypes'
  BY <1>1, <1>2, <1>5 DEF CartInv, CartTypes
<1>9. CleanIsCurrent'
  <2>1. PICK new : new = request'
    OBVIOUS
  <2>2. ASSUME NEW s \in Requests, Reading(new[s]), new[s].clean
        PROVE  /\ ~C!Writing'
               /\ new[s].pc = "answer" => new[s].summary \subseteq {C!Summary(new[s].mode)'}
    <3>1. Reading(request[s]) /\ request[s].clean
      BY <1>1, <1>2, <1>5, <2>1, <2>2 DEF Reading
    <3>2. ~C!Writing'
      BY <1>7, <3>1 DEF CartInv, CleanIsCurrent, C!Writing
    <3>3. CASE s = r
      BY <1>2, <1>3, <1>5, <1>6, <2>1, <3>2, <3>3
    <3>4. CASE s # r
      BY <1>2, <1>6, <2>1, <3>1, <3>2, <3>4 DEF CartInv, CleanIsCurrent
    <3> QED
      BY <3>3, <3>4
  <2> QED
    BY <2>1, <2>2 DEF CleanIsCurrent
<1>10. C!Getting(mode)' <=> C!Getting(mode)
  <2>1. \A s \in Requests : /\ Reading(request'[s]) <=> Reading(request[s])
                            /\ Reading(request[s]) => request'[s].mode = request[s].mode
    BY <1>1, <1>2, <1>5 DEF Reading
  <2> QED
    BY <1>1, <2>1 DEF C!Getting, Reading
<1>11. PageIsRight'
  BY <1>1, <1>2, <1>6, <1>7, <1>10 DEF CartInv, PageIsRight, Quiet
<1>12. AddsAreSettled'
  BY <1>1, <1>2, <1>5, <1>10 DEF CartInv, AddsAreSettled, Settled, C!Orderable
<1>13. AgreedIsDue'
  <2>1. \A s \in Requests : request'[s].pc \in {"checkout", "commit"} => request'[s] = request[s]
    BY <1>7 DEF C!Writes
  <2> QED
    BY <1>6, <1>7, <2>1 DEF CartInv, AgreedIsDue
<1> QED
  BY <1>1, <1>8, <1>9, <1>11, <1>12, <1>13 DEF CartInv

\* The answer is shown: it is true if it is clean, and doubted if it is not.
LEMMA ShowKeeps ==
  ASSUME CartInv, NEW r \in Requests, C!Show(r)
  PROVE  CartInv'
<1> DEFINE q == request[r]
<1>1. /\ UNCHANGED <<price, cart, disputed>> /\ q.pc = "answer"
      /\ request' = [request EXCEPT ![r] = C!Idle]
  BY DEF C!Show
<1>2. /\ DOMAIN request' = Requests /\ request'[r] = C!Idle
      /\ \A s \in Requests \ {r} : request'[s] = request[s]
  BY <1>1 DEF CartInv, CartTypes
<1>3. /\ Good(C!Idle) /\ C!Idle.pc = "idle" /\ "idle" \notin C!Writes
      /\ ~Reading(C!Idle) /\ ~Adding(C!Idle)
  BY DEF C!Idle, Good, Reading, Adding, C!Writes
<1>4. /\ \/ q.busy /\ at' = "catalog" /\ mode' = "DELIVERY"
         \/ ~q.busy /\ UNCHANGED <<at, mode>>
      /\ shown' = IF q.summary = {} THEN shown ELSE [shown EXCEPT ![q.mode] = q.summary]
      /\ stale' = [stale EXCEPT ![q.mode] =
                    (q.summary = {} \/ ~q.clean) /\ C!Orderable(shown'[q.mode])]
  BY DEF C!Show
<1>5. q.mode \in C!Modes /\ q.clean \in BOOLEAN /\ mode' \in C!Modes
  BY <1>1, <1>4 DEF CartInv, CartTypes, Good, Reading, C!Modes
<1>6. /\ DOMAIN shown' = C!Modes /\ \A m \in C!Modes : m # q.mode => shown'[m] = shown[m]
      /\ q.summary # {} => shown'[q.mode] = q.summary
  BY <1>4, <1>5 DEF CartInv, CartTypes
<1>7. /\ stale' \in [C!Modes -> BOOLEAN]
      /\ \A m \in C!Modes : m # q.mode => stale'[m] = stale[m]
      /\ stale'[q.mode] <=> (q.summary = {} \/ ~q.clean) /\ C!Orderable(shown'[q.mode])
  BY <1>4, <1>5 DEF CartInv, CartTypes, C!Orderable
<1>8. q.clean => ~C!Writing /\ q.summary \subseteq {C!Summary(q.mode)}
  BY <1>1 DEF CartInv, CleanIsCurrent, Reading
<1>9. \A k : C!Summary(k)' = C!Summary(k)
  BY <1>1, SummaryStays
<1> HIDE DEF q
<1>10. /\ \A s \in Requests : request'[s].pc \in C!Writes <=> request[s].pc \in C!Writes
       /\ \A s \in Requests : request'[s].pc \in C!Writes => request'[s] = request[s]
  BY <1>1, <1>2, <1>3 DEF C!Writes, q
<1>11. CartTypes'
  BY <1>2, <1>3, <1>5, <1>6, <1>7 DEF CartInv, CartTypes
<1>12. CleanIsCurrent'
  BY <1>2, <1>3, <1>9, <1>10 DEF CartInv, CleanIsCurrent, C!Writing
<1>13. ASSUME at' = "cart" PROVE at = "cart" /\ mode' = mode
  BY <1>4, <1>13
<1>14. ASSUME at' = "cart", mode # q.mode
       PROVE  /\ C!Getting(mode)' <=> C!Getting(mode)
              /\ Right(mode)' <=> Right(mode)
              /\ Settled(mode)' <=> Settled(mode)
  <2>1. mode' = mode /\ shown'[mode] = shown[mode] /\ stale'[mode] = stale[mode]
    BY <1>6, <1>7, <1>13, <1>14 DEF CartInv, CartTypes
  <2>2. \A s \in Requests : (Reading(request'[s]) /\ request'[s].mode = mode) <=>
                            (Reading(request[s]) /\ request[s].mode = mode)
    BY <1>2, <1>3, <1>14 DEF q
  <2>3. C!Getting(mode)' <=> C!Getting(mode)
    BY <2>1, <2>2 DEF C!Getting, Reading
  <2> QED
    BY <1>9, <2>1, <2>3 DEF Right, Settled, C!Orderable
<1>15. PageIsRight'
  <2>1. SUFFICES ASSUME Quiet' PROVE Right(mode)'
    BY DEF PageIsRight
  <2>2. at' = "cart" /\ ~stale'[mode'] /\ ~C!Getting(mode)' /\ mode' = mode
    BY <1>13, <2>1 DEF Quiet
  <2>3. CASE mode = q.mode
    <3>1. \/ ~C!Orderable(shown'[mode])
          \/ q.summary # {} /\ q.clean
      BY <1>7, <1>5, <2>2, <2>3
    <3>2. q.summary # {} /\ q.clean => shown'[mode] = {C!Summary(mode)}
      BY <1>6, <1>8, <2>3
    <3> QED
      BY <1>9, <2>2, <3>1, <3>2 DEF Right, C!Orderable
  <2>4. CASE mode # q.mode
    <3>1. ~C!Getting(mode) /\ (Right(mode)' <=> Right(mode))
      BY <1>14, <2>2, <2>4
    <3>2. at = "cart" /\ ~stale[mode]
      BY <1>7, <1>13, <2>2, <2>4 DEF CartInv, CartTypes
    <3>3. Quiet
      BY <1>10, <2>1, <3>1, <3>2 DEF Quiet
    <3> QED
      BY <3>1, <3>3 DEF CartInv, PageIsRight
  <2> QED
    BY <2>3, <2>4
<1>16. AddsAreSettled'
  <2>1. SUFFICES ASSUME NEW s \in Requests, Adding(request'[s]), at' = "cart"
                 PROVE  C!Getting(mode)' \/ Settled(mode)'
    BY DEF AddsAreSettled
  <2>2. Adding(request[s]) /\ C!Writing
    BY <1>2, <1>3, <2>1 DEF Adding, C!Writing, C!Writes
  <2>3. CASE mode = q.mode
    <3>1. stale'[mode] <=> C!Orderable(shown'[mode])
      BY <1>7, <1>8, <2>2, <2>3
    <3> QED
      BY <1>13, <2>1, <3>1 DEF Settled, C!Orderable
  <2>4. CASE mode # q.mode
    BY <1>13, <1>14, <2>1, <2>2, <2>4 DEF CartInv, AddsAreSettled
  <2> QED
    BY <2>3, <2>4
<1>17. AgreedIsDue'
  <2>1. \A s \in Requests : request'[s].pc \in {"checkout", "commit"} => request'[s] = request[s]
    BY <1>10 DEF C!Writes
  <2> QED
    BY <1>9, <1>10, <2>1 DEF CartInv, AgreedIsDue
<1> QED
  BY <1>1, <1>11, <1>12, <1>15, <1>16, <1>17 DEF CartInv

\* What the server does for a line that is added.
LEMMA AddingKeeps ==
  ASSUME CartInv, NEW r \in Requests, C!Find(r) \/ C!AddItem(r)
  PROVE  CartInv'
<1>1. request[r].pc \in {"add", "write"} /\ UNCHANGED <<price, at, mode, shown, disputed>>
  BY DEF C!Find, C!AddItem
<1>2. Adding(request[r])
  BY <1>1 DEF Adding
<1>3. request[r].pc \in C!Writes
  BY <1>1 DEF C!Writes
<1>4. ASSUME NEW row, NEW n, C!Continue(r, [pc |-> "write", row |-> row, quantity |-> n])
      PROVE  CartInv'
  <2> DEFINE q == [pc |-> "write", row |-> row, quantity |-> n]
  <2>1. q.pc = "write" /\ Good(q)
    BY DEF Good, Reading, C!Writes
  <2>2. C!Continue(r, q)
    BY <1>4
  <2> HIDE DEF q
  <2> QED
    BY <1>1, <1>2, <2>1, <2>2, WriteKeeps
<1>5. ASSUME C!Continue(r, [pc |-> "sum", page |-> FALSE]) PROVE CartInv'
  <2> DEFINE q == [pc |-> "sum", page |-> FALSE]
  <2>1. q.pc = "sum" /\ Good(q)
    BY DEF Good, Reading, C!Writes
  <2>2. C!Continue(r, q)
    BY <1>5
  <2> HIDE DEF q
  <2> QED
    BY <1>1, <1>2, <2>1, <2>2, WriteKeeps
<1>6. CASE C!Find(r)
  BY <1>4, <1>6 DEF C!Find
<1>7. CASE C!AddItem(r)
  <2>1. C!Continue(r, [pc |-> "sum", page |-> FALSE]) \/ (C!Fail(r) /\ UNCHANGED cart)
    BY <1>7 DEF C!AddItem
  <2> QED
    BY <1>1, <1>3, <1>5, <2>1, FailKeeps
<1> QED
  BY <1>6, <1>7

\* What it does for a tap of the page, which asks for the cart afterwards.
LEMMA ChangeKeeps ==
  ASSUME CartInv, NEW r \in Requests, C!UpdateItem(r) \/ C!SetPromo(r)
  PROVE  CartInv'
<1>1. request[r].pc \in {"set", "promo"} /\ UNCHANGED <<price, at, mode, shown, disputed>>
  BY DEF C!UpdateItem, C!SetPromo
<1>2. request[r].pc \in C!Writes
  BY <1>1 DEF C!Writes
<1>3. (C!Fail(r) /\ UNCHANGED cart) \/ C!Continue(r, [pc |-> "sum", page |-> TRUE])
  BY DEF C!UpdateItem, C!SetPromo
<1>4. CASE C!Continue(r, [pc |-> "sum", page |-> TRUE])
  <2> DEFINE q == [pc |-> "sum", page |-> TRUE]
  <2>1. q.pc = "sum" /\ Good(q) /\ ~Adding(q)
    BY DEF Good, Reading, Adding, C!Writes
  <2>2. C!Continue(r, q)
    BY <1>4
  <2> HIDE DEF q
  <2> QED
    BY <1>1, <2>1, <2>2, WriteKeeps
<1> QED
  BY <1>1, <1>2, <1>3, <1>4, FailKeeps

\* The summary that every change is answered with.
LEMMA SummariseKeeps ==
  ASSUME CartInv, NEW r \in Requests, C!Summarise(r)
  PROVE  CartInv'
<1>1. /\ request[r].pc = "sum" /\ request[r].pc \in C!Writes
      /\ UNCHANGED <<price, cart, at, mode, shown, disputed>>
  BY DEF C!Summarise, C!Writes
<1>2. CASE C!Fail(r)
  BY <1>1, <1>2, FailKeeps
<1>3. CASE /\ request' = IF request[r].page /\ at = "cart" THEN C!Get(r, mode, request, FALSE)
                         ELSE [request EXCEPT ![r] = C!Idle]
           /\ UNCHANGED stale
  <2>1. CASE request[r].page /\ at = "cart"
    <3>1. mode \in C!Modes /\ request' = C!Get(r, mode, request, FALSE)
      BY <1>3, <2>1 DEF CartInv, CartTypes
    <3>2. ~disputed' /\ mode' = mode /\ UNCHANGED <<price, shown, stale>>
      BY <1>1, <1>3 DEF CartInv
    <3> QED
      BY <1>1, <3>1, <3>2, GetKeeps
  <2>2. CASE ~(request[r].page /\ at = "cart")
    <3>1. at = "cart" => Adding(request[r])
      BY <1>1, <2>2 DEF Adding
    <3>2. C!Continue(r, C!Idle)
      BY <1>3, <2>2 DEF C!Continue
    <3> QED
      BY <1>1, <3>1, <3>2, EndKeeps
  <2> QED
    BY <2>1, <2>2
<1> QED
  BY <1>2, <1>3 DEF C!Summarise

\* The order is made, for what was agreed.
LEMMA CommitKeeps ==
  ASSUME CartInv, NEW r \in Requests, C!CommitOrder(r)
  PROVE  CartInv'
<1>1. /\ request[r].pc = "commit" /\ request[r].pc \in C!Writes
      /\ disputed' = (disputed \/ ~request[r].agreed \subseteq {request[r].total})
      /\ request' = C!Get(r, mode, request, TRUE)
      /\ UNCHANGED <<price, active, made, at, mode, shown, elsewhere, stale>>
  BY DEF C!CommitOrder, C!Writes
<1>2. ~disputed' /\ mode \in C!Modes
  BY <1>1 DEF CartInv, AgreedIsDue, CartTypes
<1> QED
  BY <1>1, <1>2, GetKeeps

\* The taps of the page, and that on the order with the sum on its button.
LEMMA TapsKeep ==
  ASSUME CartInv, NEW r \in Requests,
         C!AddToCart(r) \/ C!UpdateQuantity(r) \/ C!ApplyPromo(r) \/ C!Checkout(r)
  PROVE  CartInv'
<1>1. UNCHANGED <<price, active, cart, made, at, mode, shown, elsewhere, disputed>>
  BY DEF C!AddToCart, C!UpdateQuantity, C!ApplyPromo, C!Checkout
<1>2. CASE C!AddToCart(r)
  <2> DEFINE q == [pc |-> "add"]
  <2>1. C!Tap(r, q) /\ at # "cart"
    BY <1>2 DEF C!AddToCart
  <2>2. q.pc = "add" /\ q.pc \in C!Writes /\ Good(q)
    BY DEF Good, Reading, C!Writes
  <2> HIDE DEF q
  <2> QED
    BY <1>1, <2>1, <2>2, TapKeeps
<1>3. CASE C!UpdateQuantity(r)
  <2>1. PICK id, n : C!Tap(r, [pc |-> "set", id |-> id, quantity |-> n])
    BY <1>3 DEF C!UpdateQuantity
  <2> DEFINE q == [pc |-> "set", id |-> id, quantity |-> n]
  <2>2. q.pc = "set" /\ q.pc \in C!Writes /\ Good(q) /\ ~Adding(q)
    BY DEF Good, Reading, Adding, C!Writes
  <2>3. C!Tap(r, q)
    BY <2>1
  <2> HIDE DEF q
  <2> QED
    BY <1>1, <2>2, <2>3, TapKeeps
<1>4. CASE C!ApplyPromo(r)
  <2> DEFINE q == [pc |-> "promo"]
  <2>1. C!Tap(r, q)
    BY <1>4 DEF C!ApplyPromo
  <2>2. q.pc = "promo" /\ q.pc \in C!Writes /\ Good(q) /\ ~Adding(q)
    BY DEF Good, Reading, Adding, C!Writes
  <2> HIDE DEF q
  <2> QED
    BY <1>1, <2>1, <2>2, TapKeeps
<1>5. CASE C!Checkout(r)
  <2> DEFINE excused == stale[mode] \/ C!Writing \/ C!Getting(mode)
             agreed  == IF excused THEN {} ELSE { s.total : s \in shown[mode] }
             q       == [pc |-> "checkout", mode |-> mode, agreed |-> agreed]
  <2>1. C!Tap(r, q) /\ at = "cart" /\ C!Orderable(shown[mode])
    BY <1>5 DEF C!Checkout, C!Usable
  <2>2. agreed # {} => ~C!Writing /\ agreed \subseteq {C!Summary(mode).total}
    <3>1. SUFFICES ASSUME ~excused PROVE shown[mode] = {C!Summary(mode)}
      OBVIOUS
    <3>2. Quiet
      BY <2>1, <3>1 DEF Quiet, C!Writing
    <3> QED
      BY <2>1, <3>2 DEF CartInv, PageIsRight, Right
  <2> HIDE DEF agreed
  <2>3. mode \in C!Modes
    BY DEF CartInv, CartTypes
  <2>4. /\ q.pc = "checkout" /\ q.pc \in C!Writes /\ Good(q) /\ ~Adding(q)
        /\ q.agreed = agreed /\ q.mode = mode
    BY <2>3 DEF Good, Reading, Adding, C!Writes
  <2> HIDE DEF q
  <2> QED
    BY <1>1, <2>1, <2>2, <2>4, TapKeeps
<1> QED
  BY <1>2, <1>3, <1>4, <1>5

\* Every step of the cart and its page keeps the invariant.
LEMMA CartStep ==
  ASSUME CartInv, [C!Next]_(C!vars)
  PROVE  CartInv'
<1>1. CASE UNCHANGED C!vars
  BY <1>1 DEF C!vars, CartInv, CartTypes, CleanIsCurrent, C!Writing, C!Getting, PageIsRight, Quiet,
              Right, C!Orderable, AddsAreSettled, Settled, AgreedIsDue, C!Summary
<1>2. CASE C!OpenCart
  <2>1. mode \in C!Modes
    BY DEF CartInv, CartTypes
  <2> QED
    BY <1>2, <2>1, RevalidateKeeps DEF C!OpenCart
<1>3. CASE C!OpenCatalog
  BY <1>3, CatalogKeeps
<1>4. CASE C!Focus
  <2>1. PICK r \in Requests : request[r] = C!Idle /\ request' = C!Get(r, mode, request, FALSE)
    BY <1>4 DEF C!Focus
  <2>2. mode \in C!Modes /\ request[r].pc = "idle" /\ ~disputed
    BY <2>1 DEF CartInv, CartTypes, C!Idle
  <2> QED
    BY <1>4, <2>1, <2>2, GetKeeps DEF C!Focus
<1>5. ASSUME NEW m \in C!Modes, C!SetFulfillment(m) PROVE CartInv'
  BY <1>5, RevalidateKeeps DEF C!SetFulfillment
<1>6. ASSUME NEW r \in Requests, C!RejectOrder(r) PROVE CartInv'
  BY <1>6, EndKeeps DEF C!RejectOrder
<1>7. CASE C!SetPrice \/ C!SetActive \/ C!StaffOrder \/ C!StaffCheckout
  <2>1. C!Unsettle /\ UNCHANGED <<at, mode, shown, disputed>>
    BY <1>7 DEF C!SetPrice, C!SetActive, C!StaffOrder, C!StaffCheckout, C!Elsewhere
  <2> QED
    BY <2>1, StaffKeeps
<1> QED
  BY <1>1, <1>2, <1>3, <1>4, <1>5, <1>6, <1>7, TapsKeep, AddingKeeps, ChangeKeeps, SummariseKeeps,
     GetCartKeeps, ShowKeeps, PriceOrderKeeps, CommitKeeps
  DEF C!Next

\* Nothing is shown and nothing asked for at first.
LEMMA CartInit == C!Init => CartInv
<1> SUFFICES ASSUME C!Init PROVE CartInv
  OBVIOUS
<1>1. /\ DOMAIN request = Requests /\ \A r \in Requests : request[r] = C!Idle
      /\ at = "catalog" /\ mode \in C!Modes /\ DOMAIN shown = C!Modes
      /\ stale \in [C!Modes -> BOOLEAN] /\ ~disputed
  BY DEF C!Init, C!Modes
<1>2. Good(C!Idle) /\ C!Idle.pc = "idle" /\ ~Reading(C!Idle)
  BY DEF C!Idle, Good, Reading, C!Writes
<1> QED
  BY <1>1, <1>2 DEF CartInv, CartTypes, CleanIsCurrent, PageIsRight, Quiet, AddsAreSettled,
                    AgreedIsDue

\* A customer who lets the page finish pays the sum on the button that was tapped, for any
\* number of requests in flight, any prices, rules of delivery and code, and any changes by staff.
THEOREM ButtonIsHonest == Spec => []ChargedAsShown
<1>1. Init => CartInv
  BY CartInit DEF Init
<1>2. CartInv /\ [Next]_allVars => CartInv'
  BY ShopStep, CartStep
<1>3. CartInv => ChargedAsShown
  BY DEF CartInv, ChargedAsShown, C!ChargedAsShown
<1> QED
  BY <1>1, <1>2, <1>3, PTL DEF Spec, allVars
=============================================================================
