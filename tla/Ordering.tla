------------------------------- MODULE Ordering -------------------------------
(***************************************************************************)
(* Checkout, order status changes and loyalty points                       *)
(* (apps/api/src/modules/orders/orders.service.ts, cart.service.ts and     *)
(* loyalty.service.ts) over their PostgreSQL tables.                       *)
(* Transactions are READ COMMITTED: a plain SELECT sees what is committed  *)
(* and waits for nobody; an UPDATE, and a SELECT ... FOR UPDATE, wait for  *)
(* the transaction that has the row.  What a transaction has written stays *)
(* in its request until it commits.                                        *)
(***************************************************************************)
EXTENDS OrderPipeline, Integers, Sequences, FiniteSets, SequencesExt

CONSTANTS
  Handlers,      \* request handlers, and drainers of the event outbox
  Orders,        \* ids of Order rows; every checkout that commits uses a fresh one
  Customers,
  Products,      \* those with trackInventory
  Quantities,    \* what addItem and updateItem may be asked for
  MaxLine,       \* bound: units of a product in one cart
  InitialStock,  \* Products -> units
  Counts,        \* the units staff may type in for a product
  InitialPoints, \* Customers -> points, already in the ledger
  Cashback,      \* Order.loyaltyEarned; 0 when the module was off at checkout
  UsageLimit,    \* PromoCode.usageLimit of the one code modelled
  Requested,     \* the statuses updateStatus is asked for
  Corrections,   \* amounts of manual adjustments
  LastDay,       \* bound: UTC days 0 .. LastDay
  MaxHistory,    \* bound: an order with this many statuses takes no request
  MaxEntries     \* bound: an account with this many entries takes no correction

\* What is assumed of the constants, wherever they are given values.
ASSUME OrderingAssumption ==
  /\ Orders # {} /\ Customers # {} /\ Products # {}
  /\ Quantities \subseteq Nat \ {0}
  /\ InitialStock \in [Products -> Nat] /\ Counts \subseteq Nat
  /\ InitialPoints \in [Customers -> Nat]
  /\ Cashback \in Nat /\ UsageLimit \in Nat
  /\ Requested \subseteq OrderStatuses /\ Corrections \subseteq Int \ {0}
  /\ MaxLine \in Nat /\ LastDay \in Nat /\ MaxHistory \in Nat /\ MaxEntries \in Nat

VARIABLES
  today,     \* UTC day of the servers' clock
  cart,      \* Customers -> product -> quantity, 0 for no line
  orders,    \* Order rows with their items
  history,   \* OrderStatusHistory, per order in insertion order
  sequence,  \* OrderSequence: last number given out on a day
  stock,     \* Product.stockQuantity
  edited,    \* ghost: the products whose stock staff have typed in
  balance,   \* LoyaltyAccount.balance, and Customer.loyaltyBalance with it
  ledger,    \* LoyaltyTransaction, per customer in insertion order
  req        \* what each handler is doing

vars == <<today, cart, orders, history, sequence, stock, edited, balance, ledger, req>>

-----------------------------------------------------------------------------
(* Tables. *)

NoRow == "ABSENT"

Days == 0 .. LastDay

Lines == [Products -> 0 .. MaxLine]

Empty == [p \in Products |-> 0]

Ordered(lines) == { p \in Products : lines[p] > 0 }

OrderRow ==
  [status : OrderStatuses \cup {NoRow}, customer : Customers \cup {NoRow}, day : Days,
   number : Nat, lines : Lines, promo : BOOLEAN]

StatusChange == [from : OrderStatuses \cup {NoRow}, to : OrderStatuses]

Entry == [type : {"EARN", "SPEND", "ADJUSTMENT"}, order : Orders \cup {NoRow}, amount : Int]

Exists(o) == orders[o].status # NoRow

\* How often an order's row has been written with a status.  Every write of
\* CANCELLED returns the goods of the order once, and every write of COMPLETED
\* emits ORDER_COMPLETED once.
TimesSet(o, status) == Cardinality({ i \in DOMAIN history[o] : history[o][i].to = status })

\* PromoUsage; PromoCode.usageCount is incremented with every row of it.
PromoUsage == { o \in Orders : Exists(o) /\ orders[o].promo }

\* resolvePromo, as far as it depends on what others do.
PromoUsable == Cardinality(PromoUsage) < UsageLimit

\* What spendLoyalty and adjust refuse is a balance below zero.
Affordable(c, amount) == balance[c] + amount >= 0

\* A mistake the checks must catch: nothing stops a second accrual.
NeverEarned(c, o) == FALSE

\* The unique index (orderId, type) has an EARN row for the order.
Earned(c, o) == \E i \in DOMAIN ledger[c] : ledger[c][i].type = "EARN" /\ ledger[c][i].order = o

-----------------------------------------------------------------------------
(* Requests and the rows they have locked. *)

InCheckout == {"read_balance", "spend", "stock", "take"}   \* the number is taken

Pcs == {"idle", "number", "status", "adjust", "accrue"} \cup InCheckout

Request ==
  [pc : Pcs, customer : Customers \cup {NoRow}, order : Orders \cup {NoRow},
   lines : Lines, points : Nat, promo : BOOLEAN, day : Days, number : Nat,
   seenBalance : Int,                   \* balance as read
   product : Products \cup {NoRow}, after : Int,     \* the line at hand
   taken : [Products -> Int],           \* stock written so far, not committed
   done : SUBSET Products,              \* the lines that are written
   next : OrderStatuses, seen : OrderStatuses, amount : Int]

Idle ==
  [pc |-> "idle", customer |-> NoRow, order |-> NoRow, lines |-> Empty, points |-> 0,
   promo |-> FALSE, day |-> 0, number |-> 0, seenBalance |-> 0,
   product |-> NoRow, after |-> 0, taken |-> Empty, done |-> {},
   next |-> "NEW", seen |-> "NEW", amount |-> 0]

Begin(h, r) == req[h].pc = "idle" /\ req' = [req EXCEPT ![h] = r]

Goto(h, pc) == req' = [req EXCEPT ![h].pc = pc]

Finish(h) == req' = [req EXCEPT ![h] = Idle]

\* A mistake the checks must catch: the number is taken in a transaction of its own.
NobodyHoldsSequence(h, day) == FALSE

\* The upsert of the sequence row locks it until the checkout ends.
SequenceLocked(h, day) ==
  \E g \in Handlers \ {h} : req[g].pc \in InCheckout /\ req[g].day = day

\* A mistake the checks must catch: only checkouts lock the account.
AccountLockedBySpending(h, c) ==
  \E g \in Handlers \ {h} :
    req[g].customer = c /\ req[g].pc \in {"stock", "take"} /\ req[g].points > 0

\* By an adjustment or accrual FOR UPDATE, or by a checkout that has spent.
AccountLocked(h, c) ==
  \E g \in Handlers \ {h} :
    /\ req[g].customer = c
    /\ \/ req[g].pc \in {"adjust", "accrue"}
       \/ req[g].pc \in {"stock", "take"} /\ req[g].points > 0

PromoLocked(h) == \E g \in Handlers \ {h} : req[g].pc \in InCheckout /\ req[g].promo

ProductLocked(h, p) == \E g \in Handlers \ {h} : p \in req[g].done

Init ==
  /\ today = 0
  /\ cart = [c \in Customers |-> Empty]
  /\ orders = [o \in Orders |-> [status |-> NoRow, customer |-> NoRow, day |-> 0,
                                 number |-> 0, lines |-> Empty, promo |-> FALSE]]
  /\ history = [o \in Orders |-> <<>>]
  /\ sequence = [d \in Days |-> 0]
  /\ stock = InitialStock
  /\ edited = {}
  /\ balance = InitialPoints
  /\ ledger = [c \in Customers |->
                 IF InitialPoints[c] = 0 THEN <<>>
                 ELSE <<[type |-> "ADJUSTMENT", order |-> NoRow, amount |-> InitialPoints[c]]>>]
  /\ req = [h \in Handlers |-> Idle]

Midnight ==
  /\ today < LastDay
  /\ today' = today + 1
  /\ UNCHANGED <<cart, orders, history, sequence, stock, edited, balance, ledger, req>>

-----------------------------------------------------------------------------
\* updateProduct of the catalog sets what staff saw or typed, and writes no
\* InventoryTransaction.
EditProduct(p, count) ==
  /\ \A g \in Handlers : p \notin req[g].done        \* waits for the row
  /\ stock' = [stock EXCEPT ![p] = count]
  /\ edited' = edited \cup {p}
  /\ UNCHANGED <<today, cart, orders, history, sequence, balance, ledger, req>>

(***************************************************************************)
(* The cart.  addItem adds to the line there is, and compares only what it *)
(* adds with the stock; updateItem and removeItem set a line.  A staff     *)
(* order is a clear, some addItem and a checkout for its customer.         *)
(***************************************************************************)
AddItem(c, p, quantity) ==
  /\ quantity <= stock[p]
  /\ cart[c][p] + quantity <= MaxLine
  /\ cart' = [cart EXCEPT ![c][p] = @ + quantity]
  /\ UNCHANGED <<today, orders, history, sequence, stock, edited, balance, ledger, req>>

UpdateItem(c, p, quantity) ==
  /\ cart[c][p] > 0
  /\ quantity <= stock[p]                       \* 0 removes the line
  /\ quantity <= MaxLine
  /\ cart' = [cart EXCEPT ![c][p] = quantity]
  /\ UNCHANGED <<today, orders, history, sequence, stock, edited, balance, ledger, req>>

ClearCart(c) ==
  /\ cart[c] # Empty
  /\ cart' = [cart EXCEPT ![c] = Empty]
  /\ UNCHANGED <<today, orders, history, sequence, stock, edited, balance, ledger, req>>

(***************************************************************************)
(* checkout.  Before its transaction it reads the cart, prices it with the *)
(* balance as it is, and validates the promo code: one step here.          *)
(***************************************************************************)
BeginCheckout(h, c, points, promo) ==
  /\ cart[c] # Empty
  /\ points <= balance[c]
  /\ promo => PromoUsable
  /\ Begin(h, [Idle EXCEPT !.pc = "number", !.customer = c, !.lines = cart[c],
                           !.points = points, !.promo = promo, !.day = today])
  /\ UNCHANGED <<today, cart, orders, history, sequence, stock, edited, balance, ledger>>

\* nextOrderNumber looks at the clock and waits for the sequence row of that
\* day; the order, its promo usage and the count of the code are written next.
TakeNumber(h, o, day) ==
  LET q == req[h] IN
  /\ q.pc = "number"
  /\ day \in q.day .. today
  /\ ~Exists(o)
  /\ \A g \in Handlers : req[g].pc \in InCheckout => req[g].order # o
  /\ ~SequenceLocked(h, day)
  /\ q.promo => ~PromoLocked(h)
  /\ req' = [req EXCEPT ![h] = [q EXCEPT !.pc = IF q.points > 0 THEN "read_balance" ELSE "stock",
                                         !.order = o, !.day = day,
                                         !.number = sequence[day] + 1]]
  /\ UNCHANGED <<today, cart, orders, history, sequence, stock, edited, balance, ledger>>

\* spendLoyalty looks at the balance without locking the account ...
ReadBalance(h) ==
  LET q == req[h] IN
  /\ q.pc = "read_balance"
  /\ IF Affordable(q.customer, -q.points)
     THEN req' = [req EXCEPT ![h].pc = "spend", ![h].seenBalance = balance[q.customer]]
     ELSE Finish(h)
  /\ UNCHANGED <<today, cart, orders, history, sequence, stock, edited, balance, ledger>>

\* ... and then writes the entry and the difference, which lock it.
SpendPoints(h) ==
  /\ req[h].pc = "spend"
  /\ ~AccountLocked(h, req[h].customer)
  /\ Goto(h, "stock")
  /\ UNCHANGED <<today, cart, orders, history, sequence, stock, edited, balance, ledger>>

\* reserveStock, line by line: a read that decides ...
ReadStock(h, p) ==
  LET q == req[h] IN
  /\ q.pc = "stock"
  /\ p \in Ordered(q.lines) \ q.done
  /\ IF stock[p] < q.lines[p]
     THEN Finish(h)
     ELSE req' = [req EXCEPT ![h].pc = "take", ![h].product = p,
                             ![h].after = stock[p] - q.lines[p]]
  /\ UNCHANGED <<today, cart, orders, history, sequence, stock, edited, balance, ledger>>

\* ... and a write of the result.
TakeStock(h) ==
  LET q == req[h] IN
  /\ q.pc = "take"
  /\ ~ProductLocked(h, q.product)
  /\ req' = [req EXCEPT ![h].pc = "stock", ![h].taken[q.product] = q.after,
                        ![h].done = @ \cup {q.product}]
  /\ UNCHANGED <<today, cart, orders, history, sequence, stock, edited, balance, ledger>>

\* The cart is emptied of all it holds by now, and everything is committed.
CommitCheckout(h) ==
  LET q == req[h] IN
  /\ q.pc = "stock"
  /\ q.done = Ordered(q.lines)
  /\ orders' = [orders EXCEPT ![q.order] =
                  [status |-> "NEW", customer |-> q.customer, day |-> q.day,
                   number |-> q.number, lines |-> q.lines, promo |-> q.promo]]
  /\ history' = [history EXCEPT ![q.order] = <<[from |-> NoRow, to |-> "NEW"]>>]
  /\ sequence' = [sequence EXCEPT ![q.day] = q.number]
  /\ stock' = [p \in Products |-> IF p \in q.done THEN q.taken[p] ELSE stock[p]]
  /\ IF q.points > 0
     THEN /\ balance' = [balance EXCEPT ![q.customer] = q.seenBalance - q.points]
          /\ ledger' = [ledger EXCEPT ![q.customer] =
                Append(@, [type |-> "SPEND", order |-> q.order, amount |-> -q.points])]
     ELSE UNCHANGED <<balance, ledger>>
  /\ cart' = [cart EXCEPT ![q.customer] = Empty]
  /\ Finish(h)
  /\ UNCHANGED <<today, edited>>

(***************************************************************************)
(* updateStatus: a read that decides, then a transaction that names the    *)
(* row and returns the goods when the order is cancelled.                  *)
(***************************************************************************)
ReadForStatus(h, o, next) ==
  /\ Exists(o)
  /\ Len(history[o]) < MaxHistory
  /\ next \in DEFAULT_PIPELINE[orders[o].status]
  /\ Begin(h, [Idle EXCEPT !.pc = "status", !.order = o, !.next = next,
                           !.seen = orders[o].status])
  /\ UNCHANGED <<today, cart, orders, history, sequence, stock, edited, balance, ledger>>

WriteStatus(h) ==
  LET q == req[h]
      lines == orders[q.order].lines
  IN
  /\ q.pc = "status"
  /\ orders' = [orders EXCEPT ![q.order].status = q.next]
  /\ history' = [history EXCEPT ![q.order] = Append(@, [from |-> q.seen, to |-> q.next])]
  /\ IF q.next = "CANCELLED"
     THEN /\ \A p \in Ordered(lines) : ~ProductLocked(h, p)
          /\ stock' = [p \in Products |-> stock[p] + lines[p]]     \* releaseStock
     ELSE UNCHANGED stock
  /\ Finish(h)
  /\ UNCHANGED <<today, cart, sequence, edited, balance, ledger>>

(***************************************************************************)
(* Points: adjust by staff, and accrueForOrder by the handler of           *)
(* ORDER_COMPLETED, which may be run again and again.  Both lock the       *)
(* account, look at it, and post.                                          *)
(***************************************************************************)
LockForAdjust(h, c, amount) ==
  /\ Len(ledger[c]) < MaxEntries
  /\ ~AccountLocked(h, c)
  /\ Affordable(c, amount)
  /\ Begin(h, [Idle EXCEPT !.pc = "adjust", !.customer = c, !.amount = amount,
                           !.seenBalance = balance[c]])
  /\ UNCHANGED <<today, cart, orders, history, sequence, stock, edited, balance, ledger>>

LockForAccrual(h, o) ==
  LET c == orders[o].customer IN
  /\ Cashback > 0
  /\ TimesSet(o, "COMPLETED") > 0
  /\ ~AccountLocked(h, c)
  /\ Begin(h, [Idle EXCEPT !.pc = "accrue", !.customer = c, !.order = o, !.amount = Cashback,
                           !.seenBalance = balance[c]])
  /\ UNCHANGED <<today, cart, orders, history, sequence, stock, edited, balance, ledger>>

\* post: the entry, the balance and its copy in one commit.
Post(h, type, order) ==
  LET q == req[h] IN
  /\ ledger' = [ledger EXCEPT ![q.customer] =
                  Append(@, [type |-> type, order |-> order, amount |-> q.amount])]
  /\ balance' = [balance EXCEPT ![q.customer] = q.seenBalance + q.amount]

PostAdjustment(h) ==
  /\ req[h].pc = "adjust"
  /\ Post(h, "ADJUSTMENT", NoRow)
  /\ Finish(h)
  /\ UNCHANGED <<today, cart, orders, history, sequence, stock, edited>>

\* A second accrual of one order is refused by the unique index.
PostAccrual(h) ==
  LET q == req[h] IN
  /\ q.pc = "accrue"
  /\ IF Earned(q.customer, q.order)
     THEN UNCHANGED <<balance, ledger>>
     ELSE Post(h, "EARN", q.order)
  /\ Finish(h)
  /\ UNCHANGED <<today, cart, orders, history, sequence, stock, edited>>

\* A refusal, a timeout or a crash: the transaction rolls back.
Abort(h) ==
  /\ req[h].pc # "idle"
  /\ Finish(h)
  /\ UNCHANGED <<today, cart, orders, history, sequence, stock, edited, balance, ledger>>

-----------------------------------------------------------------------------
Checkout(h) ==
  \/ \E c \in Customers, promo \in BOOLEAN :
       \E points \in 0 .. balance[c] : BeginCheckout(h, c, points, promo)
  \/ \E o \in Orders, day \in Days : TakeNumber(h, o, day)
  \/ ReadBalance(h)
  \/ SpendPoints(h)
  \/ \E p \in Products : ReadStock(h, p)
  \/ TakeStock(h)
  \/ CommitCheckout(h)

UpdateStatus(h) ==
  \/ \E o \in Orders, next \in Requested : ReadForStatus(h, o, next)
  \/ WriteStatus(h)

Loyalty(h) ==
  \/ \E c \in Customers, amount \in Corrections : LockForAdjust(h, c, amount)
  \/ \E o \in Orders : LockForAccrual(h, o)
  \/ PostAdjustment(h)
  \/ PostAccrual(h)

Next ==
  \/ Midnight
  \/ \E p \in Products, count \in Counts : EditProduct(p, count)
  \/ \E c \in Customers, p \in Products, quantity \in Quantities : AddItem(c, p, quantity)
  \/ \E c \in Customers, p \in Products, quantity \in Quantities \cup {0} :
       UpdateItem(c, p, quantity)
  \/ \E c \in Customers : ClearCart(c)
  \/ \E h \in Handlers : Checkout(h) \/ UpdateStatus(h) \/ Loyalty(h) \/ Abort(h)

Spec == Init /\ [][Next]_vars

-----------------------------------------------------------------------------
(* Properties. *)

\* The shape of the state; stock and balances are never negative.
TypeOK ==
  /\ today \in Days
  /\ cart \in [Customers -> Lines]
  /\ orders \in [Orders -> OrderRow]
  /\ history \in [Orders -> Seq(StatusChange)]
  /\ sequence \in [Days -> Nat]
  /\ stock \in [Products -> Nat]
  /\ edited \subseteq Products
  /\ balance \in [Customers -> Nat]
  /\ ledger \in [Customers -> Seq(Entry)]
  /\ req \in [Handlers -> Request]

\* Units of a product in orders that were not cancelled.
Sold(p) ==
  MapThenFoldSet(+, 0, LAMBDA o : orders[o].lines[p], LAMBDA S : CHOOSE o \in S : TRUE,
                 { o \in Orders : Exists(o) /\ TimesSet(o, "CANCELLED") = 0 })

\* "Either the customer has an order and the stock is reserved, or nothing
\* happened": every unit in stock or in an order is one there was, although
\* reserveStock reads without a lock - as long as no order is cancelled twice,
\* all orders are of one day, whose sequence row keeps checkouts apart, and
\* nobody has typed in another stock.
ReservedStock ==
  /\ \A o \in Orders : TimesSet(o, "CANCELLED") <= 1
  /\ \A o1, o2 \in Orders : Exists(o1) /\ Exists(o2) => orders[o1].day = orders[o2].day
  => \A p \in Products \ edited : stock[p] + Sold(p) <= InitialStock[p]

\* "Safe to run twice": an order earns cashback at most once, and only if it was
\* completed, however often its event is handled and its status written.
EarnedOnce ==
  \A c \in Customers : \A i \in DOMAIN ledger[c] :
    ledger[c][i].type = "EARN" =>
      /\ TimesSet(ledger[c][i].order, "COMPLETED") > 0
      /\ \A j \in DOMAIN ledger[c] :
           ledger[c][j].type = "EARN" /\ ledger[c][j].order = ledger[c][i].order => i = j

EntrySum(c) == FoldSeq(LAMBDA e, total : e.amount + total, 0, ledger[c])

\* Two writers of one account that both lock it never lose an entry: the
\* balance of a customer who has not spent points at a checkout is the sum of
\* the ledger.
LockedWritersAgree ==
  \A c \in Customers :
    (\A i \in DOMAIN ledger[c] : ledger[c][i].type # "SPEND") => balance[c] = EntrySum(c)

\* I5: "loyalty balance always equals the sum of its ledger".
BalanceIsLedger == \A c \in Customers : balance[c] = EntrySum(c)
=============================================================================
