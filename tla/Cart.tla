-------------------------------- MODULE Cart --------------------------------
(***************************************************************************)
(* The cart of one customer (apps/api/src/modules/cart/cart.service.ts,    *)
(* checkout in orders.service.ts) and the page that shows it               *)
(* (apps/miniapp/src/app/[slug]/cart/page.tsx). The page shows a copy of   *)
(* the server's calculation, one for each way of fulfilment; every tap is  *)
(* a request, and the server answers them in any order.                    *)
(***************************************************************************)
EXTENDS Pricing

CONSTANTS
  Requests,     \* requests in flight at a time
  Prices,       \* what staff may set the price of the product to
  Delivery,     \* the delivery settings: [enabled, flatFee, freeAbove, minOrderTotal]
  Code,         \* the promo code: [type, value, minOrderTotal, maxDiscount]
  MaxLines,     \* bound: lines ever made
  MaxQuantity,  \* bound: of a line
  MaxElsewhere  \* bound: changes that staff make

VARIABLES
  price,     \* of the product
  active,    \* the promo code is active
  cart,      \* [lines: rows [id, quantity, staff], promo: the code is applied]
  made,      \* lines ever made
  at,        \* the page: "cart" or "catalog"
  mode,      \* the way of fulfilment that the page has selected
  shown,     \* Modes -> the last summary, as a set of at most one
  request,   \* Requests -> the request in progress
  elsewhere, \* ghost: changes by staff
  stale,     \* ghost: Modes -> there is a reason for the copy not to be true
  disputed   \* ghost: an order cost what its button did not say, and nothing excuses it

vars == <<price, active, cart, made, at, mode, shown, request, elsewhere, stale, disputed>>

-----------------------------------------------------------------------------
Modes == {"DELIVERY", "PICKUP"}

Idle == [pc |-> "idle"]

Order(c, p, m) ==
  [lines |-> [i \in DOMAIN c.lines |->
      [price |-> p, variant |-> 0, modifiers |-> 0, quantity |-> c.lines[i].quantity]],
   type |-> m, promo |-> IF c.promo THEN {Code} ELSE {},
   delivery |-> Delivery,
   loyalty |-> [enabled |-> FALSE, rate |-> 0, minOrderTotal |-> 0, maxRedeemPercent |-> 50],
   spend |-> 0, balance |-> 0]

\* The calculation throws: an inactive code, or one of the errors of compute.
Unpriceable(c, p, m) == (c.promo /\ ~active) \/ Refused(Order(c, p, m))

\* summary: an empty cart is not priced.
Summary(m) ==
  [lines |-> cart.lines,
   total |-> IF cart.lines = <<>> THEN 0 ELSE Compute(Order(cart, price, m)).total]

SummaryFails(m) == cart.lines # <<>> /\ Unpriceable(cart, price, m)

Ids == { cart.lines[i].id : i \in DOMAIN cart.lines }

-----------------------------------------------------------------------------
(* What the page does with requests.                                       *)

Writes == {"add", "write", "set", "promo", "sum", "checkout", "commit"}

Writing == \E r \in Requests : request[r].pc \in Writes

Getting(m) == \E r \in Requests : request[r].pc \in {"get", "answer"} /\ request[r].mode = m

\* A copy that nothing can be ordered from cannot mislead.
Orderable(s) == \E c \in s : c.lines # <<>>

Doubt == [m \in Modes |-> Orderable(shown[m])]

\* Whatever is in flight may now be answered from before the change.
Disturb(q) ==
  [r \in Requests |-> CASE q[r].pc \in {"get", "answer"}      -> [q[r] EXCEPT !.clean = FALSE]
                        [] q[r].pc \in {"checkout", "commit"} -> [q[r] EXCEPT !.agreed = {}]
                        [] OTHER                              -> q[r]]

\* A request that writes is sent.
Tap(r, q) ==
  /\ request[r] = Idle
  /\ request' = [Disturb(request) EXCEPT ![r] = q]
  /\ stale' = IF Writing THEN Doubt ELSE stale

\* SWR: the answer to an older request of the same key is dropped.
Get(r, m, q, busy) ==
  [s \in Requests |->
     CASE s = r -> [pc |-> "get", mode |-> m, busy |-> busy,
                    clean |-> ~\E w \in Requests \ {r} : request[w].pc \in Writes]
       [] q[s].pc \in {"get", "answer"} /\ q[s].mode = m -> Idle
       [] OTHER -> q[s]]

\* A page that appears, a key that changes, a window that gets the focus: SWR asks
\* again, unless it has just done so.
Revalidate(m) ==
  \/ /\ ~Getting(m)
     /\ \E r \in Requests : request[r] = Idle /\ request' = Get(r, m, request, FALSE)
     /\ UNCHANGED stale
  \/ /\ Getting(m)
     /\ UNCHANGED <<request, stale>>
  \/ /\ shown[m] # {}
     /\ stale' = [stale EXCEPT ![m] = Orderable(shown[m])]
     /\ UNCHANGED request

Init ==
  /\ price \in Prices /\ active = TRUE
  /\ cart = [lines |-> <<>>, promo |-> FALSE] /\ made = 0
  /\ at = "catalog" /\ mode = "DELIVERY" /\ shown = [m \in Modes |-> {}]
  /\ request = [r \in Requests |-> Idle]
  /\ elsewhere = 0
  /\ stale = [m \in Modes |-> FALSE]
  /\ disputed = FALSE

OpenCart ==
  /\ at = "catalog"
  /\ at' = "cart"
  /\ Revalidate(mode)
  /\ UNCHANGED <<price, active, cart, made, mode, shown, elsewhere, disputed>>

\* The page forgets the selected way of fulfilment with its state, the cache stays.
OpenCatalog ==
  /\ at = "cart"
  /\ at' = "catalog" /\ mode' = "DELIVERY"
  /\ UNCHANGED <<price, active, cart, made, shown, request, elsewhere, stale, disputed>>

SetFulfillment(m) ==
  /\ at = "cart" /\ shown[mode] # {} /\ m # mode
  /\ mode' = m
  /\ Revalidate(m)
  /\ UNCHANGED <<price, active, cart, made, at, shown, elsewhere, disputed>>

Focus ==
  /\ at = "cart" /\ ~Getting(mode)
  /\ \E r \in Requests : request[r] = Idle /\ request' = Get(r, mode, request, FALSE)
  /\ UNCHANGED <<price, active, cart, made, at, mode, shown, elsewhere, stale, disputed>>

-----------------------------------------------------------------------------
(* The taps.                                                               *)

Usable == at = "cart" /\ Orderable(shown[mode])

AddToCart(r) ==
  /\ at = "catalog"
  /\ Tap(r, [pc |-> "add"])
  /\ UNCHANGED <<price, active, cart, made, at, mode, shown, elsewhere, disputed>>

UpdateQuantity(r) ==
  /\ Usable
  /\ \E s \in shown[mode] : \E i \in DOMAIN s.lines, step \in {-1, 1} :
       /\ s.lines[i].quantity + step <= MaxQuantity
       /\ Tap(r, [pc |-> "set", id |-> s.lines[i].id,
            quantity |-> s.lines[i].quantity + step])
  /\ UNCHANGED <<price, active, cart, made, at, mode, shown, elsewhere, disputed>>

ApplyPromo(r) ==
  /\ Usable
  /\ Tap(r, [pc |-> "promo"])
  /\ UNCHANGED <<price, active, cart, made, at, mode, shown, elsewhere, disputed>>

\* The tap is being answered, or the page refreshed after it.
Busy == \E r \in Requests :
          \/ request[r].pc \in {"checkout", "commit"}
          \/ request[r].pc \in {"get", "answer"} /\ request[r].busy

\* agreed is the sum on the button, unless there is an excuse for another one.
Checkout(r) ==
  /\ Usable
  /\ ~Busy
  /\ LET excused == stale[mode] \/ Writing \/ Getting(mode) IN
     Tap(r, [pc |-> "checkout", mode |-> mode,
             agreed |-> IF excused THEN {} ELSE { s.total : s \in shown[mode] }])
  /\ UNCHANGED <<price, active, cart, made, at, mode, shown, elsewhere, disputed>>

-----------------------------------------------------------------------------
(* The server, and what the page does with the answer.                     *)

\* An error after a write leaves the page with what it had.
Fail(r) ==
  /\ request' = [request EXCEPT ![r] = Idle]
  /\ stale' = Doubt

Continue(r, q) == request' = [request EXCEPT ![r] = q] /\ UNCHANGED stale

SetQuantity(id, quantity) ==
  [cart EXCEPT !.lines = [i \in DOMAIN @ |->
     IF @[i].id = id THEN [@[i] EXCEPT !.quantity = quantity] ELSE @[i]]]

\* addItem: the line of the same selection, if there is one.
Find(r) ==
  /\ request[r].pc = "add"
  /\ IF cart.lines = <<>> THEN Continue(r, [pc |-> "write", row |-> {}, quantity |-> 1])
     ELSE /\ cart.lines[1].quantity < MaxQuantity
          /\ Continue(r, [pc |-> "write", row |-> {cart.lines[1].id},
                          quantity |-> cart.lines[1].quantity + 1])
  /\ UNCHANGED <<price, active, cart, made, at, mode, shown, elsewhere, disputed>>

\* ... gets the sum of what was read and what is added, or a line is made.
AddItem(r) ==
  /\ request[r].pc = "write"
  /\ \/ /\ request[r].row = {} /\ made < MaxLines
        /\ made' = made + 1
        /\ cart' = [cart EXCEPT !.lines =
                      Append(@, [id |-> made + 1, quantity |-> 1, staff |-> FALSE])]
        /\ Continue(r, [pc |-> "sum", page |-> FALSE])
     \/ /\ request[r].row # {} /\ request[r].row \subseteq Ids
        /\ \E id \in request[r].row : cart' = SetQuantity(id, request[r].quantity)
        /\ Continue(r, [pc |-> "sum", page |-> FALSE])
        /\ UNCHANGED made
     \/ /\ ~request[r].row \subseteq Ids
        /\ Fail(r)
        /\ UNCHANGED <<cart, made>>
  /\ UNCHANGED <<price, active, at, mode, shown, elsewhere, disputed>>

\* updateItem: none is a deletion.
UpdateItem(r) ==
  /\ request[r].pc = "set"
  /\ IF request[r].id \notin Ids THEN Fail(r) /\ UNCHANGED cart
     ELSE /\ cart' = IF request[r].quantity > 0 THEN SetQuantity(request[r].id, request[r].quantity)
                     ELSE [cart EXCEPT !.lines = SelectSeq(@, LAMBDA l : l.id # request[r].id)]
          /\ Continue(r, [pc |-> "sum", page |-> TRUE])
  /\ UNCHANGED <<price, active, made, at, mode, shown, elsewhere, disputed>>

SetPromo(r) ==
  /\ request[r].pc = "promo"
  /\ IF ~active THEN Fail(r) /\ UNCHANGED cart
     ELSE /\ cart' = [cart EXCEPT !.promo = TRUE]
          /\ Continue(r, [pc |-> "sum", page |-> TRUE])
  /\ UNCHANGED <<price, active, made, at, mode, shown, elsewhere, disputed>>

\* Every change answers with the summary, as if for a delivery; the page asks again.
Summarise(r) ==
  /\ request[r].pc = "sum"
  /\ IF SummaryFails("DELIVERY") THEN Fail(r)
     ELSE /\ request' = IF request[r].page /\ at = "cart" THEN Get(r, mode, request, FALSE)
                        ELSE [request EXCEPT ![r] = Idle]
          /\ UNCHANGED stale
  /\ UNCHANGED <<price, active, cart, made, at, mode, shown, elsewhere, disputed>>

GetCart(r) ==
  /\ request[r].pc = "get"
  /\ LET q == request[r] IN
     Continue(r, [pc |-> "answer", mode |-> q.mode, busy |-> q.busy, clean |-> q.clean,
                  summary |-> IF SummaryFails(q.mode) THEN {} ELSE {Summary(q.mode)}])
  /\ UNCHANGED <<price, active, cart, made, at, mode, shown, elsewhere, disputed>>

\* After an error SWR keeps what it has; after a checkout the page is left.
Show(r) ==
  /\ request[r].pc = "answer"
  /\ LET q == request[r] IN
     /\ shown' = IF q.summary = {} THEN shown ELSE [shown EXCEPT ![q.mode] = q.summary]
     /\ stale' = [stale EXCEPT ![q.mode] =
                  (q.summary = {} \/ ~q.clean) /\ Orderable(shown'[q.mode])]
     /\ IF q.busy THEN at' = "catalog" /\ mode' = "DELIVERY" ELSE UNCHANGED <<at, mode>>
  /\ request' = [request EXCEPT ![r] = Idle]
  /\ UNCHANGED <<price, active, cart, made, elsewhere, disputed>>

\* A mistake the checks must catch: the order is priced as the cart is by default.
PriceOrderAnyhow(r) ==
  /\ request[r].pc = "checkout"
  /\ IF cart.lines = <<>> \/ Unpriceable(cart, price, "DELIVERY")
     THEN Continue(r, Idle)
     ELSE Continue(r, [pc |-> "commit", agreed |-> request[r].agreed,
                       total |-> Compute(Order(cart, price, "DELIVERY")).total])
  /\ UNCHANGED <<price, active, cart, made, at, mode, shown, elsewhere, disputed>>

\* checkout: "the authoritative price. Whatever the client displayed is irrelevant".
PriceOrder(r) ==
  /\ request[r].pc = "checkout"
  /\ IF cart.lines = <<>> \/ Unpriceable(cart, price, request[r].mode)
     THEN Continue(r, Idle)
     ELSE Continue(r, [pc |-> "commit", agreed |-> request[r].agreed,
                       total |-> Compute(Order(cart, price, request[r].mode)).total])
  /\ UNCHANGED <<price, active, cart, made, at, mode, shown, elsewhere, disputed>>

\* The order is made and all lines go, with those added meanwhile.
CommitOrder(r) ==
  /\ request[r].pc = "commit"
  /\ disputed' = (disputed \/ ~request[r].agreed \subseteq {request[r].total})
  /\ cart' = [lines |-> <<>>, promo |-> FALSE]
  /\ request' = Get(r, mode, request, TRUE)
  /\ UNCHANGED <<price, active, made, at, mode, shown, elsewhere, stale>>

\* A transaction that fails, for want of stock for example.
RejectOrder(r) ==
  /\ request[r].pc = "commit"
  /\ Continue(r, Idle)
  /\ UNCHANGED <<price, active, cart, made, at, mode, shown, elsewhere, disputed>>

-----------------------------------------------------------------------------
(* Staff.                                                                  *)

Unsettle ==
  /\ request' = Disturb(request)
  /\ stale' = Doubt

Elsewhere == elsewhere < MaxElsewhere /\ elsewhere' = elsewhere + 1 /\ Unsettle

SetPrice ==
  /\ price' \in Prices \ {price}
  /\ Elsewhere
  /\ UNCHANGED <<active, cart, made, at, mode, shown, disputed>>

SetActive ==
  /\ active' = ~active
  /\ Elsewhere
  /\ UNCHANGED <<price, cart, made, at, mode, shown, disputed>>

\* createByStaff clears the customer's own cart, fills it ...
StaffOrder ==
  /\ made < MaxLines /\ made' = made + 1
  /\ cart' = [lines |-> <<[id |-> made + 1, quantity |-> 1, staff |-> TRUE]>>, promo |-> FALSE]
  /\ Elsewhere
  /\ UNCHANGED <<price, active, at, mode, shown, disputed>>

\* ... and checks it out.
StaffCheckout ==
  /\ \E i \in DOMAIN cart.lines : cart.lines[i].staff
  /\ cart' = [lines |-> <<>>, promo |-> FALSE]
  /\ Unsettle
  /\ UNCHANGED <<price, active, made, at, mode, shown, elsewhere, disputed>>

Next ==
  \/ OpenCart \/ OpenCatalog \/ Focus
  \/ \E m \in Modes : SetFulfillment(m)
  \/ \E r \in Requests :
       \/ AddToCart(r) \/ UpdateQuantity(r) \/ ApplyPromo(r) \/ Checkout(r)
       \/ Find(r) \/ AddItem(r) \/ UpdateItem(r) \/ SetPromo(r) \/ Summarise(r)
       \/ GetCart(r) \/ Show(r)
       \/ PriceOrder(r) \/ CommitOrder(r) \/ RejectOrder(r)
  \/ SetPrice \/ SetActive \/ StaffOrder \/ StaffCheckout

Spec == Init /\ [][Next]_vars

-----------------------------------------------------------------------------
(* Properties.                                                             *)

\* "The displayed total and the charged total [are] the same number" (cart/page.tsx): a
\* customer who lets the page finish pays the sum on the button that was tapped. It may
\* differ only when staff changed something, when requests overlapped, when a request
\* before it had failed, or when the page was shown again without asking.
ChargedAsShown == ~disputed
=============================================================================
