------------------------------- MODULE Sheet -------------------------------
(***************************************************************************)
(* The product sheet of the Mini App (ProductSheet in                      *)
(* apps/miniapp/src/app/[slug]/catalog/page.tsx), which lets a customer    *)
(* choose a variant and options, and the checks of the server that gets    *)
(* the choice (addItem in apps/api/src/modules/cart/cart.service.ts). Of   *)
(* the groups of options only their sizes and limits matter, of a variant  *)
(* whether it is in stock.                                                 *)
(***************************************************************************)
EXTENDS Integers, FiniteSets

CONSTANTS
  Groups,     \* groups of options
  Options,    \* Groups -> set of options, all distinct
  Limits,     \* the pairs <<minSelect, maxSelect>> that staff give a group
  Variants,   \* the product's variants, numbers in their order
  MaxEdits    \* bound: changes that staff make

\* What is assumed of the constants: what createModifierGroupSchema lets through.
SheetAssumption ==
  /\ \A g \in Groups : IsFiniteSet(Options[g]) /\ Options[g] # {}
  /\ \A g, h \in Groups : g # h => Options[g] \cap Options[h] = {}
  /\ \A l \in Limits : l[1] \in Nat /\ l[2] \in Nat \ {0} /\ l[1] <= l[2]

VARIABLES
  product,    \* what the server has: [limits: Groups -> pair, stock: set of variants]
  detail,     \* the copy of the page, a set of at most one
  variant,    \* the choice of the sheet, a set of at most one
  selected,   \* set of options
  adding,     \* the request to add, a set of at most one
  edits,      \* bound: changes by staff
  baffled     \* ghost: a choice was refused for no reason that excuses it

vars == <<product, detail, variant, selected, adding, edits, baffled>>

-----------------------------------------------------------------------------
Chosen(group, choice) == Cardinality(Options[group] \cap choice)

Products == [limits : [Groups -> Limits], stock : SUBSET Variants]

\* assertModifierSelection and assertStock of addItem.
Accepts(p, v, choice) ==
  /\ \A g \in Groups : p.limits[g][1] <= Chosen(g, choice) /\ Chosen(g, choice) <= p.limits[g][2]
  /\ v \subseteq p.stock

First == { v \in Variants : \A w \in Variants : v <= w }

\* The sheet starts anew when its copy of the product changes: with the first variant and
\* one option of every group that needs some.
Restart(p) ==
  /\ variant' = First
  /\ selected' = { CHOOSE o \in Options[g] : TRUE : g \in { g \in Groups : p.limits[g][1] > 0 } }

Init ==
  /\ product \in Products
  /\ detail = {} /\ variant = {} /\ selected = {} /\ adding = {}
  /\ edits = 0 /\ baffled = FALSE

\* The product is loaded, when the sheet opens or the window gets the focus.
Load ==
  /\ detail # {product}
  /\ detail' = {product}
  /\ Restart(product)
  /\ UNCHANGED <<product, adding, edits, baffled>>

Close ==
  /\ detail # {}
  /\ detail' = {} /\ variant' = {} /\ selected' = {}
  /\ UNCHANGED <<product, adding, edits, baffled>>

ChooseVariant(v) ==
  /\ \E p \in detail : v \in p.stock
  /\ variant' = {v}
  /\ UNCHANGED <<product, detail, selected, adding, edits, baffled>>

\* A mistake the checks must catch: a group that is full takes one more.
ToggleFreely(g, o) ==
  /\ \E p \in detail :
       LET limit == p.limits[g] IN
       \/ /\ o \in selected /\ Chosen(g, selected) > limit[1] /\ limit[2] # 1
          /\ selected' = selected \ {o}
       \/ /\ o \notin selected
          /\ selected' = selected \cup {o}
  /\ UNCHANGED <<product, detail, variant, adding, edits, baffled>>

\* A group never goes below its minimum, a single choice replaces the other, and a group
\* that is full takes no more. A radio button that is on cannot be switched off.
ToggleOption(g, o) ==
  /\ \E p \in detail :
       LET limit == p.limits[g] IN
       \/ /\ o \in selected /\ Chosen(g, selected) > limit[1] /\ limit[2] # 1
          /\ selected' = selected \ {o}
       \/ /\ o \notin selected /\ limit[2] = 1
          /\ selected' = (selected \ Options[g]) \cup {o}
       \/ /\ o \notin selected /\ limit[2] # 1 /\ Chosen(g, selected) < limit[2]
          /\ selected' = selected \cup {o}
  /\ UNCHANGED <<product, detail, variant, adding, edits, baffled>>

\* The button of the sheet, which a product with nothing in stock does not have.
AddToCart ==
  /\ adding = {}
  /\ \E p \in detail :
       /\ Variants = {} \/ p.stock # {}
       /\ adding' = {[copy |-> p, variant |-> variant, choice |-> selected]}
  /\ UNCHANGED <<product, detail, variant, selected, edits, baffled>>

\* The item is added and the sheet closed.
Accept ==
  /\ \E a \in adding : Accepts(product, a.variant, a.choice)
  /\ adding' = {} /\ detail' = {} /\ variant' = {} /\ selected' = {}
  /\ UNCHANGED <<product, edits, baffled>>

\* What the sheet itself does not see to: a product changed since it was loaded, a group
\* that needs more than the one option chosen for it, and the first variant, in stock or not.
Excuse(a) ==
  \/ a.copy # product
  \/ \E g \in Groups : a.copy.limits[g][1] > 1 /\ Chosen(g, a.choice) < a.copy.limits[g][1]
  \/ a.variant = First /\ ~First \subseteq product.stock

Refuse ==
  /\ \E a \in adding :
       /\ ~Accepts(product, a.variant, a.choice)
       /\ baffled' = (baffled \/ ~Excuse(a))
  /\ adding' = {}
  /\ UNCHANGED <<product, detail, variant, selected, edits>>

\* Staff change the groups, or sell or take in stock.
Edit ==
  /\ edits < MaxEdits /\ edits' = edits + 1
  /\ product' \in Products \ {product}
  /\ UNCHANGED <<detail, variant, selected, adding, baffled>>

Next ==
  \/ Load \/ Close
  \/ \E v \in Variants : ChooseVariant(v)
  \/ \E g \in Groups : \E o \in Options[g] : ToggleOption(g, o)
  \/ AddToCart \/ Accept \/ Refuse \/ Edit

Spec == Init /\ [][Next]_vars

-----------------------------------------------------------------------------
(* Properties.                                                             *)

\* "This only avoids handing the customer an error they could not have anticipated": the
\* server refuses a choice of the sheet only when the product has changed since the sheet
\* loaded it, when a group needs two options or more, or when the variant that the sheet
\* starts with is out of stock - the sheet starts with one option and with any variant.
\* Quantities are left out: the sheet does not know how many there are.
RefusedForAReason == ~baffled
=============================================================================
