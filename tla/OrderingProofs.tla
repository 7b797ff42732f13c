--------------------------- MODULE OrderingProofs ---------------------------
(***************************************************************************)
(* Proofs about Ordering, for every set of handlers, orders, customers and *)
(* products, every stock, every amount of cashback and every bound, and    *)
(* about Pricing, for every order.  Three invariants of Ordering, each     *)
(* inductive once PointsInv is known:                                      *)
(* PointsInv: what the request of a handler has seen to, next to the shape *)
(* of the state.  A checkout has an order of its own that is not there     *)
(* yet, what it will write of stock and points is not negative, and an     *)
(* accrual is of an order that was completed.                              *)
(* AccountsInv: an account has one holder, the balance that he read is the *)
(* one that is there, and balances are the sums of their ledgers.          *)
(* GoodsInv: a number of a day has one holder, what he read of a stock he  *)
(* may still take, and stock and orders together never exceed what there   *)
(* was.                                                                    *)
(***************************************************************************)
EXTENDS MCOrdering, FiniteSetTheorems, SequenceTheorems, TLAPS

-----------------------------------------------------------------------------
Completed(o) ==
  \E i \in DOMAIN history[o] : history[o][i].to = "COMPLETED"

\* An order has a customer and a history from the start, and none before.
OrdersFit ==
  \A o \in Orders :
    IF Exists(o) THEN orders[o].customer \in Customers ELSE history[o] = <<>>

\* What a checkout has taken and will write.
CheckoutFits(q) ==
  /\ q.order \in Orders /\ ~Exists(q.order)
  /\ q.customer \in Customers
  /\ q.pc \in {"stock", "take"} /\ q.points > 0 => q.seenBalance - q.points >= 0
  /\ q.pc = "spend" => q.seenBalance - q.points >= 0
  /\ q.pc = "take" => q.product \in Products /\ q.after >= 0
  /\ \A p \in q.done : q.taken[p] >= 0

RequestFits(q) ==
  /\ q.pc \in InCheckout => CheckoutFits(q)
  /\ q.pc = "number" => q.customer \in Customers /\ q.done = {}
  /\ q.pc = "status" => q.order \in Orders /\ Exists(q.order)
  /\ q.pc = "adjust" => q.customer \in Customers /\ q.seenBalance + q.amount >= 0
  /\ q.pc = "accrue" =>
       /\ q.customer \in Customers /\ q.seenBalance + q.amount >= 0
       /\ q.order \in Orders /\ Completed(q.order)

\* No two checkouts have one order.
OwnOrders ==
  \A g, h \in Handlers :
    /\ req[g].pc \in InCheckout /\ req[h].pc \in InCheckout
    /\ req[g].order = req[h].order
    => g = h

RequestsFit == OwnOrders /\ \A h \in Handlers : RequestFits(req[h])

\* EarnedOnce, in a form that speaks of entries one by one.
LedgerFits ==
  \A c \in Customers : \A i \in DOMAIN ledger[c] :
    ledger[c][i].type = "EARN" =>
      /\ ledger[c][i].order \in Orders /\ Completed(ledger[c][i].order)
      /\ \A j \in DOMAIN ledger[c] :
           ledger[c][j].type = "EARN" /\ ledger[c][j].order = ledger[c][i].order => i = j

PointsInv == TypeOK /\ OrdersFit /\ RequestsFit /\ LedgerFits

-----------------------------------------------------------------------------
(* Facts about the operators. *)

\* What appending does to a sequence, index by index.
LEMMA AppendFacts ==
  ASSUME NEW S, NEW s \in Seq(S), NEW e \in S
  PROVE  /\ Append(s, e) \in Seq(S)
         /\ DOMAIN Append(s, e) = DOMAIN s \cup {Len(s) + 1}
         /\ Len(s) + 1 \notin DOMAIN s
         /\ \A i \in DOMAIN s : Append(s, e)[i] = s[i]
         /\ Append(s, e)[Len(s) + 1] = e
OBVIOUS

\* What the constants give.
LEMMA ConstantFacts ==
  /\ Quantities \subseteq Nat \ {0} /\ InitialStock \in [Products -> Nat] /\ Counts \subseteq Nat
  /\ InitialPoints \in [Customers -> Nat] /\ Cashback \in Nat /\ Corrections \subseteq Int
  /\ Requested \subseteq OrderStatuses /\ MaxLine \in Nat /\ LastDay \in Nat
BY OrderingAssumption

\* An empty cart is one.
LEMMA EmptyFacts ==
  Empty \in Lines /\ Empty \in [Products -> Int] /\ 0 \in Days
BY ConstantFacts DEF Empty, Lines, Days

\* An idle handler has a request like any other.
LEMMA IdleFacts ==
  Idle \in Request /\ Idle.pc = "idle" /\ Idle.done = {}
BY EmptyFacts DEF Idle, Request, Pcs, OrderStatuses

\* Requests that the steps below make, from an idle one and from that of a checkout.
Adjusting(c, amount, seen) ==
  [Idle EXCEPT !.pc = "adjust", !.customer = c, !.amount = amount, !.seenBalance = seen]

Accruing(c, o, amount, seen) ==
  [Idle EXCEPT !.pc = "accrue", !.customer = c, !.order = o, !.amount = amount,
                      !.seenBalance = seen]

Numbered(q, pc, o, day, n) == [q EXCEPT !.pc = pc, !.order = o, !.day = day, !.number = n]

Spending(q, seen) == [q EXCEPT !.pc = "spend", !.seenBalance = seen]

\* A correction is a request.
LEMMA AdjustingFacts ==
  ASSUME NEW c \in Customers, NEW amount \in Int, NEW seen \in Int
  PROVE  LET r == Adjusting(c, amount, seen)
         IN /\ r \in Request /\ r.pc = "adjust" /\ r.customer = c
            /\ r.seenBalance = seen /\ r.amount = amount
<1>1. "adjust" \in Pcs
  BY DEF Pcs
<1> QED
  BY <1>1, IdleFacts DEF Adjusting, Request

\* And so is an accrual.
LEMMA AccruingFacts ==
  ASSUME NEW c \in Customers, NEW o \in Orders, NEW amount \in Int, NEW seen \in Int
  PROVE  LET r == Accruing(c, o, amount, seen)
         IN /\ r \in Request /\ r.pc = "accrue" /\ r.customer = c /\ r.order = o
            /\ r.seenBalance = seen /\ r.amount = amount
<1>1. "accrue" \in Pcs
  BY DEF Pcs
<1> QED
  BY <1>1, IdleFacts DEF Accruing, Request

\* And a checkout with a number.
LEMMA NumberedFacts ==
  ASSUME NEW q \in Request, NEW pc \in Pcs, NEW o \in Orders,
         NEW day \in Days, NEW n \in Nat
  PROVE  LET r == Numbered(q, pc, o, day, n)
         IN /\ r \in Request /\ r.pc = pc /\ r.customer = q.customer /\ r.order = o
            /\ r.points = q.points /\ r.done = q.done
BY DEF Numbered, Request

\* And one that has read the balance.
LEMMA SpendingFacts ==
  ASSUME NEW q \in Request, NEW seen \in Int
  PROVE  LET r == Spending(q, seen)
         IN /\ r \in Request /\ r.pc = "spend" /\ r.customer = q.customer
            /\ r.order = q.order /\ r.seenBalance = seen /\ r.points = q.points
            /\ r.done = q.done /\ r.taken = q.taken
<1>1. "spend" \in Pcs
  BY DEF Pcs, InCheckout
<1> QED
  BY <1>1 DEF Spending, Request

\* What a request is made of.
LEMMA RequestFacts ==
  ASSUME TypeOK, NEW h \in Handlers
  PROVE  /\ req[h] \in Request /\ req[h].points \in Nat /\ req[h].lines \in Lines
         /\ req[h].day \in Days /\ req[h].number \in Nat /\ req[h].seenBalance \in Int
         /\ req[h].after \in Int /\ req[h].taken \in [Products -> Int] /\ req[h].done \subseteq Products
         /\ req[h].next \in OrderStatuses /\ req[h].seen \in OrderStatuses
         /\ req[h].amount \in Int /\ req[h].promo \in BOOLEAN
BY DEF TypeOK, Request

\* An order was completed when a status of its history says so.
LEMMA CompletedCounted ==
  ASSUME TypeOK, NEW o \in Orders
  PROVE  TimesSet(o, "COMPLETED") > 0 <=> Completed(o)
<1> DEFINE T == { i \in DOMAIN history[o] : history[o][i].to = "COMPLETED" }
<1>1. IsFiniteSet(DOMAIN history[o])
  <2>1. history[o] \in Seq(StatusChange)
    BY DEF TypeOK
  <2>2. DOMAIN history[o] = 1 .. Len(history[o]) /\ Len(history[o]) \in Nat
    BY <2>1
  <2> QED
    BY <2>2, FS_Interval
<1>2. IsFiniteSet(T)
  BY <1>1, FS_Subset
<1>3. TimesSet(o, "COMPLETED") = Cardinality(T)
  BY DEF TimesSet
<1>4. Cardinality(T) \in Nat /\ (Cardinality(T) = 0 <=> T = {})
  BY <1>2, FS_CardinalityType, FS_EmptySet
<1>5. T # {} <=> Completed(o)
  BY DEF Completed
<1> QED
  BY <1>3, <1>4, <1>5

-----------------------------------------------------------------------------
(* Sums.  The properties fold over finite sets, by elements that are chosen; what is needed of *)
(* a fold is that the order makes no difference.  There is no induction over sets here:        *)
(* each lemma looks at a smallest set that would be an exception.                              *)

\* The partial sums of weights, as the folds of the community modules make them: over the
\* sets of indices, by an element that is chosen.
IsPartialSums(sums, w) ==
  sums = [t \in SUBSET DOMAIN w |->
            IF t = {} THEN 0 ELSE LET x == CHOOSE x \in t : TRUE IN w[x] + sums[t \ {x}]]

\* The sum of a function's values.
Total(w) == (CHOOSE sums : IsPartialSums(sums, w))[DOMAIN w]

\* A set of finite sets has one without a proper subset in it.
LEMMA SmallestOf ==
  ASSUME NEW D, IsFiniteSet(D), NEW T, T \subseteq SUBSET D, T # {}
  PROVE  \E s \in T : \A t \in T : ~(t \subseteq s /\ t # s)
<1>1. IsWellFoundedOn(StrictSubsetOrdering(D), SUBSET D)
  BY FS_StrictSubsetOrderingWellFounded, FS_FiniteSubsetsOfFinite
<1>2. PICK s \in T : \A t \in T : ~(<<t, s>> \in StrictSubsetOrdering(D))
  BY <1>1, WFMin
<1>3. ASSUME NEW t \in T, t \subseteq s, t # s PROVE <<t, s>> \in StrictSubsetOrdering(D)
  <2>1. t \in SUBSET D /\ s \in SUBSET D
    OBVIOUS
  <2> QED
    BY <2>1, <1>3 DEF StrictSubsetOrdering
<1>4. \A t \in T : ~(t \subseteq s /\ t # s)
  BY <1>2, <1>3
<1> QED
  BY <1>4

\* One step of the partial sums.
LEMMA PartialSumStep ==
  ASSUME NEW w, NEW sums, IsPartialSums(sums, w), NEW t, t \subseteq DOMAIN w
  PROVE  /\ t = {} => sums[t] = 0
         /\ t # {} => LET x == CHOOSE x \in t : TRUE IN x \in t /\ sums[t] = w[x] + sums[t \ {x}]
<1>1. sums[t] = IF t = {} THEN 0 ELSE LET x == CHOOSE x \in t : TRUE IN w[x] + sums[t \ {x}]
  BY DEF IsPartialSums
<1>2. CASE t # {}
  <2> DEFINE x == CHOOSE x \in t : TRUE
  <2>1. x \in t
    BY <1>2
  <2>2. sums[t] = w[x] + sums[t \ {x}]
    BY <1>1, <1>2
  <2> QED
    BY <1>2, <2>1, <2>2
<1> QED
  BY <1>1, <1>2

\* Weights that agree on a set have one sum there.
LEMMA SumsAgree ==
  ASSUME NEW w, NEW v, NEW a, NEW b, IsPartialSums(a, w), IsPartialSums(b, v),
         NEW s, IsFiniteSet(s), s \subseteq DOMAIN w, s \subseteq DOMAIN v,
         \A x \in s : w[x] = v[x]
  PROVE  a[s] = b[s]
<1> DEFINE T == { t \in SUBSET s : a[t] # b[t] }
<1>1. SUFFICES ASSUME T # {} PROVE FALSE
  OBVIOUS
<1>2. \E t \in T : \A u \in T : ~(u \subseteq t /\ u # t)
  <2>1. T \subseteq SUBSET s
    OBVIOUS
  <2> HIDE DEF T
  <2> QED
    BY <1>1, <2>1, SmallestOf
<1>3. PICK t \in T : \A u \in T : ~(u \subseteq t /\ u # t)
  BY <1>2
<1>4. t \subseteq DOMAIN w /\ t \subseteq DOMAIN v /\ a[t] # b[t] /\ t \subseteq s
  OBVIOUS
<1>5. t # {}
  BY <1>4, PartialSumStep
<1> DEFINE x == CHOOSE x \in t : TRUE
<1>6. x \in t /\ a[t] = w[x] + a[t \ {x}]
  BY <1>4, <1>5, PartialSumStep
<1>7. b[t] = v[x] + b[t \ {x}]
  BY <1>4, <1>5, PartialSumStep
<1> HIDE DEF x
<1>8. a[t \ {x}] = b[t \ {x}]
  <2>1. t \ {x} \notin T
    BY <1>3, <1>6
  <2> QED
    BY <1>4, <2>1
<1> QED
  BY <1>4, <1>6, <1>7, <1>8
\* Weights on fewer indices.
On(w, t) == [x \in t |-> w[x]]

\* Finitely many weights have partial sums: were there a set of them that has none, one that
\* all of whose subsets do could be given its own.
LEMMA SumsExist ==
  ASSUME NEW w, IsFiniteSet(DOMAIN w)
  PROVE  \E sums : IsPartialSums(sums, On(w, DOMAIN w))
<1> DEFINE D == DOMAIN w
           T == { t \in SUBSET D : ~\E sums : IsPartialSums(sums, On(w, t)) }
<1>1. SUFFICES ASSUME T # {} PROVE FALSE
  OBVIOUS
<1>2. \E t \in T : \A u \in T : ~(u \subseteq t /\ u # t)
  <2>1. T \subseteq SUBSET D
    OBVIOUS
  <2> HIDE DEF T
  <2> QED
    BY <1>1, <2>1, SmallestOf
<1>3. PICK t \in T : \A u \in T : ~(u \subseteq t /\ u # t)
  BY <1>2
<1> DEFINE F(u) == CHOOSE sums : IsPartialSums(sums, On(w, u))
           V(u) == IF u = {} THEN 0
                   ELSE LET x == CHOOSE x \in u : TRUE IN w[x] + F(u \ {x})[u \ {x}]
           g == [u \in SUBSET t |-> V(u)]
<1>4. ASSUME NEW u, u \subseteq t, u # t PROVE IsPartialSums(F(u), On(w, u))
  <2>1. u \notin T /\ u \in SUBSET D
    BY <1>3, <1>4
  <2>2. \E sums : IsPartialSums(sums, On(w, u))
    BY <2>1
  <2> QED
    BY <2>2
<1>5. t \subseteq D /\ DOMAIN On(w, t) = t /\ \A u : DOMAIN On(w, u) = u
  BY DEF On
<1> HIDE DEF F
<1>6. ASSUME NEW u, u \subseteq t, u # t PROVE F(u)[u] = V(u)
  <2>1. IsPartialSums(F(u), On(w, u)) /\ DOMAIN On(w, u) = u
    BY <1>4, <1>5, <1>6
  <2>2. CASE u = {}
    BY <2>1, <2>2, PartialSumStep
  <2>3. CASE u # {}
    <3> DEFINE y == CHOOSE x \in u : TRUE
    <3>1. y \in u /\ F(u)[u] = On(w, u)[y] + F(u)[u \ {y}]
      BY <2>1, <2>3, PartialSumStep
    <3>2. V(u) = w[y] + F(u \ {y})[u \ {y}]
      BY <2>3
    <3> HIDE DEF y, V
    <3>3. On(w, u)[y] = w[y]
      BY <3>1 DEF On
    <3>4. IsPartialSums(F(u \ {y}), On(w, u \ {y}))
      BY <1>4, <1>6
    <3>5. F(u)[u \ {y}] = F(u \ {y})[u \ {y}]
      <4>1. IsFiniteSet(u \ {y})
        BY <1>5, <1>6, FS_Subset
      <4>2. \A x \in u \ {y} : On(w, u)[x] = On(w, u \ {y})[x]
        BY DEF On
      <4>3. DOMAIN On(w, u \ {y}) = u \ {y}
        BY <1>5
      <4> DEFINE r == u \ {y}
                 all == On(w, u)
                 less == On(w, r)
                 a == F(u)
                 b == F(r)
      <4>4. /\ IsPartialSums(a, all) /\ IsPartialSums(b, less) /\ IsFiniteSet(r)
            /\ r \subseteq DOMAIN all /\ r \subseteq DOMAIN less
            /\ \A x \in r : all[x] = less[x]
        BY <2>1, <3>4, <4>1, <4>2, <4>3
      <4> HIDE DEF r, all, less, a, b
      <4>5. a[r] = b[r]
        BY <4>4, SumsAgree
      <4> QED
        BY <4>5 DEF r, a, b
    <3> QED
      BY <3>1, <3>2, <3>3, <3>5
  <2> QED
    BY <2>2, <2>3
<1>7. ASSUME NEW u \in SUBSET t
      PROVE  g[u] = IF u = {} THEN 0
                    ELSE LET x == CHOOSE x \in u : TRUE IN On(w, t)[x] + g[u \ {x}]
  <2>1. CASE u = {}
    BY <2>1
  <2>2. CASE u # {}
    <3> DEFINE x == CHOOSE x \in u : TRUE
    <3>1. x \in u
      BY <2>2
    <3>2. g[u] = w[x] + F(u \ {x})[u \ {x}]
      BY <2>2
    <3>3. g[u \ {x}] = V(u \ {x})
      OBVIOUS
    <3> HIDE DEF x, V, g
    <3>4. F(u \ {x})[u \ {x}] = V(u \ {x})
      BY <1>6, <3>1
    <3>5. On(w, t)[x] = w[x]
      BY <3>1 DEF On
    <3>6. g[u] = On(w, t)[x] + g[u \ {x}]
      BY <3>2, <3>3, <3>4, <3>5
    <3> QED
      BY <2>2, <3>6 DEF x
  <2> QED
    BY <2>1, <2>2
<1>8. IsPartialSums(g, On(w, t))
  <2>1. g = [u \in SUBSET t |-> g[u]]
    OBVIOUS
  <2> DEFINE body(u) == IF u = {} THEN 0
                        ELSE LET x == CHOOSE x \in u : TRUE IN On(w, t)[x] + g[u \ {x}]
  <2>2. \A u \in SUBSET t : g[u] = body(u)
    BY <1>7
  <2>3. g = [u \in SUBSET t |-> body(u)]
    <3> HIDE DEF body
    <3> QED
      BY <2>2
  <2> HIDE DEF g
  <2> QED
    BY <2>3, <1>5 DEF IsPartialSums
<1> QED
  BY <1>3, <1>8
\* Sums of integers are integers, and may be taken in any order.
LEMMA SumsAreIntegers ==
  ASSUME NEW D, IsFiniteSet(D), NEW w \in [D -> Int], NEW sums, IsPartialSums(sums, w),
         NEW s \in SUBSET D
  PROVE  sums[s] \in Int
<1> DEFINE T == { t \in SUBSET D : sums[t] \notin Int }
<1>1. SUFFICES ASSUME T # {} PROVE FALSE
  OBVIOUS
<1>2. \E t \in T : \A u \in T : ~(u \subseteq t /\ u # t)
  <2>1. T \subseteq SUBSET D
    OBVIOUS
  <2> HIDE DEF T
  <2> QED
    BY <1>1, <2>1, SmallestOf
<1>3. PICK t \in T : \A u \in T : ~(u \subseteq t /\ u # t)
  BY <1>2
<1>4. t \subseteq DOMAIN w /\ sums[t] \notin Int
  OBVIOUS
<1>5. t # {}
  <2>1. t = {} => sums[t] = 0
    BY <1>4, PartialSumStep
  <2> QED
    BY <1>4, <2>1
<1> DEFINE x == CHOOSE x \in t : TRUE
<1>6. x \in t /\ sums[t] = w[x] + sums[t \ {x}]
  BY <1>4, <1>5, PartialSumStep
<1> HIDE DEF x
<1>7. sums[t \ {x}] \in Int
  <2>1. t \ {x} \notin T
    BY <1>3, <1>6
  <2> QED
    BY <1>4, <2>1
<1> QED
  BY <1>4, <1>6, <1>7

\* Whichever element is taken first.
LEMMA SumsInAnyOrder ==
  ASSUME NEW D, IsFiniteSet(D), NEW w \in [D -> Int], NEW sums, IsPartialSums(sums, w),
         NEW s \in SUBSET D, NEW e \in s
  PROVE  sums[s] = w[e] + sums[s \ {e}]
<1> DEFINE T == { t \in SUBSET D : \E y \in t : sums[t] # w[y] + sums[t \ {y}] }
<1>1. SUFFICES ASSUME T # {} PROVE FALSE
  OBVIOUS
<1>2. \E t \in T : \A u \in T : ~(u \subseteq t /\ u # t)
  <2>1. T \subseteq SUBSET D
    OBVIOUS
  <2> HIDE DEF T
  <2> QED
    BY <1>1, <2>1, SmallestOf
<1>3. PICK t \in T : \A u \in T : ~(u \subseteq t /\ u # t)
  BY <1>2
<1>4. PICK y \in t : sums[t] # w[y] + sums[t \ {y}]
  OBVIOUS
<1>5. t \in SUBSET D /\ t # {} /\ t \subseteq DOMAIN w
  OBVIOUS
<1> DEFINE x == CHOOSE x \in t : TRUE
<1>6. x \in t /\ sums[t] = w[x] + sums[t \ {x}]
  BY <1>5, PartialSumStep
<1> HIDE DEF x
<1>7. x # y
  BY <1>4, <1>6
<1>8. sums[t \ {x}] = w[y] + sums[(t \ {x}) \ {y}]
  <2>1. t \ {x} \notin T
    BY <1>3, <1>6
  <2>2. t \ {x} \in SUBSET D /\ y \in t \ {x}
    BY <1>5, <1>7
  <2> QED
    BY <2>1, <2>2
<1>9. sums[t \ {y}] = w[x] + sums[(t \ {y}) \ {x}]
  <2>1. t \ {y} \notin T
    BY <1>3, <1>4
  <2>2. t \ {y} \in SUBSET D /\ x \in t \ {y}
    BY <1>5, <1>6, <1>7
  <2> QED
    BY <2>1, <2>2
<1> DEFINE rest == sums[(t \ {x}) \ {y}]
<1>10. rest = sums[(t \ {y}) \ {x}] /\ rest \in Int /\ w[x] \in Int /\ w[y] \in Int
  <2>1. (t \ {x}) \ {y} = (t \ {y}) \ {x} /\ (t \ {x}) \ {y} \in SUBSET D
    BY <1>5
  <2>2. rest \in Int
    BY <2>1, SumsAreIntegers
  <2> QED
    BY <1>5, <1>6, <2>1, <2>2
<1> HIDE DEF rest
<1>11. sums[t \ {x}] = w[y] + rest /\ sums[t \ {y}] = w[x] + rest
  BY <1>8, <1>9, <1>10 DEF rest
<1>12. w[x] + (w[y] + rest) = w[y] + (w[x] + rest)
  BY <1>10
<1> QED
  BY <1>4, <1>6, <1>11, <1>12

\* What a total is: of none it is 0, of more any one of them and the total of the others.
LEMMA TotalFacts ==
  ASSUME NEW D, IsFiniteSet(D), NEW w \in [D -> Int]
  PROVE  /\ Total(w) \in Int
         /\ D = {} => Total(w) = 0
         /\ \A x \in D : Total(w) = w[x] + Total(On(w, D \ {x}))
         /\ \A sums : IsPartialSums(sums, w) => Total(w) = sums[D]
<1> DEFINE all == CHOOSE sums : IsPartialSums(sums, w)
<1>1. IsPartialSums(all, w)
  <2>1. w = On(w, DOMAIN w)
    BY DEF On
  <2> QED
    BY <2>1, SumsExist
<1>2. Total(w) = all[D]
  BY DEF Total
<1> HIDE DEF all
<1>3. Total(w) \in Int /\ (D = {} => Total(w) = 0)
  BY <1>1, <1>2, SumsAreIntegers, PartialSumStep
<1>4. ASSUME NEW sums, IsPartialSums(sums, w) PROVE Total(w) = sums[D]
  BY <1>1, <1>2, <1>4, SumsAgree
<1>5. ASSUME NEW x \in D PROVE Total(w) = w[x] + Total(On(w, D \ {x}))
  <2> DEFINE r == D \ {x}
             v == On(w, r)
             less == CHOOSE sums : IsPartialSums(sums, v)
  <2>1. IsFiniteSet(r) /\ v \in [r -> Int] /\ DOMAIN v = r
    BY FS_Subset DEF On
  <2>2. IsPartialSums(less, v)
    <3>1. v = On(v, DOMAIN v)
      BY DEF On
    <3> QED
      BY <2>1, <3>1, SumsExist
  <2>3. Total(v) = less[r]
    BY <2>1 DEF Total
  <2>4. \A y \in r : v[y] = w[y]
    BY DEF On
  <2> HIDE DEF less, v
  <2>5. less[r] = all[r]
    BY <1>1, <2>1, <2>2, <2>4, SumsAgree
  <2>6. all[D] = w[x] + all[r]
    BY <1>1, SumsInAnyOrder
  <2> QED
    BY <1>2, <2>3, <2>5, <2>6 DEF v
<1> QED
  BY <1>3, <1>4, <1>5

\* What EntrySum and Sold are, for any entries and rows.
SumOf(entries) == FoldSeq(LAMBDA e, total : e.amount + total, 0, entries)

SoldOf(rows, D, p) ==
  MapThenFoldSet(+, 0, LAMBDA o : rows[o].lines[p], LAMBDA S : CHOOSE o \in S : TRUE, D)

Amounts(entries) == [i \in DOMAIN entries |-> entries[i].amount]

Units(rows, D, p) == [o \in D |-> rows[o].lines[p]]

\* The fold over a ledger is a total.
LEMMA SumIsTotal ==
  ASSUME NEW entries \in Seq(Entry)
  PROVE  /\ SumOf(entries) = Total(Amounts(entries))
         /\ Amounts(entries) \in [DOMAIN entries -> Int] /\ IsFiniteSet(DOMAIN entries)
<1> DEFINE w == Amounts(entries)
           D == DOMAIN entries
           Iter(it) == it = [s \in SUBSET D |->
                               IF s = {} THEN 0
                               ELSE LET x == CHOOSE x \in s : TRUE
                                    IN entries[x].amount + it[s \ {x}]]
           fold == CHOOSE it : Iter(it)
<1>1. SumOf(entries) = fold[D]
  BY DEF SumOf, FoldSeq, FoldFunction, FoldFunctionOnSet, MapThenFoldSet
<1>2. DOMAIN w = D /\ w \in [D -> Int] /\ IsFiniteSet(D) /\ \A x \in D : w[x] = entries[x].amount
  <2>1. D = 1 .. Len(entries) /\ \A x \in D : entries[x] \in Entry
    OBVIOUS
  <2>2. \A x \in D : entries[x].amount \in Int
    BY <2>1 DEF Entry
  <2>3. IsFiniteSet(D)
    BY <2>1, FS_Interval
  <2> QED
    BY <2>2, <2>3 DEF Amounts
<1>3. ASSUME NEW it PROVE Iter(it) <=> IsPartialSums(it, w)
  <2> DEFINE b1(s) == IF s = {} THEN 0
                      ELSE LET x == CHOOSE x \in s : TRUE IN entries[x].amount + it[s \ {x}]
             b2(s) == IF s = {} THEN 0
                      ELSE LET x == CHOOSE x \in s : TRUE IN w[x] + it[s \ {x}]
  <2>1. ASSUME NEW s \in SUBSET D PROVE b1(s) = b2(s)
    <3>1. CASE s = {}
      BY <3>1
    <3>2. CASE s # {}
      <4> DEFINE x == CHOOSE x \in s : TRUE
      <4>1. x \in s
        BY <3>2
      <4> HIDE DEF x
      <4>2. w[x] = entries[x].amount
        BY <1>2, <4>1
      <4> QED
        BY <3>2, <4>2 DEF x
    <3> QED
      BY <3>1, <3>2
  <2> HIDE DEF w
  <2>2. IsPartialSums(it, w) <=> it = [s \in SUBSET D |-> b2(s)]
    BY <1>2 DEF IsPartialSums
  <2>3. Iter(it) <=> it = [s \in SUBSET D |-> b1(s)]
    OBVIOUS
  <2>4. [s \in SUBSET D |-> b1(s)] = [s \in SUBSET D |-> b2(s)]
    <3> HIDE DEF b1, b2
    <3> QED
      BY <2>1
  <2> HIDE DEF b1, b2, Iter
  <2> QED
    BY <2>2, <2>3, <2>4
<1>4. \E it : Iter(it)
  <2>1. On(w, DOMAIN w) = w
    BY <1>2 DEF On
  <2> HIDE DEF w, Iter
  <2> QED
    BY <1>2, <1>3, <2>1, SumsExist
<1>5. Iter(fold)
  <2> HIDE DEF Iter
  <2> QED
    BY <1>4
<1>6. IsPartialSums(fold, w)
  <2> HIDE DEF fold, Iter
  <2> QED
    BY <1>3, <1>5
<1> HIDE DEF fold, w
<1> QED
  BY <1>1, <1>2, <1>6, TotalFacts DEF w

\* And so is that over orders.
LEMMA SoldIsTotal ==
  ASSUME NEW rows, NEW D, IsFiniteSet(D), NEW p, \A o \in D : rows[o].lines[p] \in Int
  PROVE  SoldOf(rows, D, p) = Total(Units(rows, D, p))
<1> DEFINE w == Units(rows, D, p)
           Iter(it) == it = [s \in SUBSET D |->
                               IF s = {} THEN 0
                               ELSE LET x == CHOOSE x \in s : TRUE
                                    IN rows[x].lines[p] + it[s \ {x}]]
           fold == CHOOSE it : Iter(it)
<1>1. SoldOf(rows, D, p) = fold[D]
  BY DEF SoldOf, MapThenFoldSet
<1>2. DOMAIN w = D /\ w \in [D -> Int] /\ IsFiniteSet(D) /\ \A x \in D : w[x] = rows[x].lines[p]
  BY DEF Units
<1>3. ASSUME NEW it PROVE Iter(it) <=> IsPartialSums(it, w)
  <2> DEFINE b1(s) == IF s = {} THEN 0
                      ELSE LET x == CHOOSE x \in s : TRUE IN rows[x].lines[p] + it[s \ {x}]
             b2(s) == IF s = {} THEN 0
                      ELSE LET x == CHOOSE x \in s : TRUE IN w[x] + it[s \ {x}]
  <2>1. ASSUME NEW s \in SUBSET D PROVE b1(s) = b2(s)
    <3>1. CASE s = {}
      BY <3>1
    <3>2. CASE s # {}
      <4> DEFINE x == CHOOSE x \in s : TRUE
      <4>1. x \in s
        BY <3>2
      <4> HIDE DEF x
      <4>2. w[x] = rows[x].lines[p]
        BY <1>2, <4>1
      <4> QED
        BY <3>2, <4>2 DEF x
    <3> QED
      BY <3>1, <3>2
  <2> HIDE DEF w
  <2>2. IsPartialSums(it, w) <=> it = [s \in SUBSET D |-> b2(s)]
    BY <1>2 DEF IsPartialSums
  <2>3. Iter(it) <=> it = [s \in SUBSET D |-> b1(s)]
    OBVIOUS
  <2>4. [s \in SUBSET D |-> b1(s)] = [s \in SUBSET D |-> b2(s)]
    <3> HIDE DEF b1, b2
    <3> QED
      BY <2>1
  <2> HIDE DEF b1, b2, Iter
  <2> QED
    BY <2>2, <2>3, <2>4
<1>4. \E it : Iter(it)
  <2>1. On(w, DOMAIN w) = w
    BY <1>2 DEF On
  <2> HIDE DEF w, Iter
  <2> QED
    BY <1>2, <1>3, <2>1, SumsExist
<1>5. Iter(fold)
  <2> HIDE DEF Iter
  <2> QED
    BY <1>4
<1>6. IsPartialSums(fold, w)
  <2> HIDE DEF fold, Iter
  <2> QED
    BY <1>3, <1>5
<1> HIDE DEF fold, w
<1> QED
  BY <1>1, <1>2, <1>6, TotalFacts DEF w

\* What an entry adds to the sum of a ledger.
LEMMA SumFacts ==
  ASSUME NEW entries \in Seq(Entry)
  PROVE  /\ SumOf(entries) \in Int
         /\ entries = <<>> => SumOf(entries) = 0
         /\ \A e \in Entry : SumOf(Append(entries, e)) = SumOf(entries) + e.amount
<1>1. /\ SumOf(entries) = Total(Amounts(entries))
      /\ Amounts(entries) \in [DOMAIN entries -> Int] /\ IsFiniteSet(DOMAIN entries)
  BY SumIsTotal
<1>2. SumOf(entries) \in Int /\ (entries = <<>> => SumOf(entries) = 0)
  BY <1>1, TotalFacts
<1>3. ASSUME NEW e \in Entry PROVE SumOf(Append(entries, e)) = SumOf(entries) + e.amount
  <2> DEFINE more == Append(entries, e)
             n == Len(entries) + 1
             w == Amounts(more)
  <2>1. /\ more \in Seq(Entry) /\ DOMAIN more = DOMAIN entries \cup {n} /\ n \notin DOMAIN entries
        /\ \A i \in DOMAIN entries : more[i] = entries[i]
        /\ more[n] = e
    BY AppendFacts
  <2> HIDE DEF more, n
  <2>2. SumOf(more) = Total(w) /\ w \in [DOMAIN more -> Int] /\ IsFiniteSet(DOMAIN more)
    BY <2>1, SumIsTotal
  <2>3. n \in DOMAIN more /\ DOMAIN more \ {n} = DOMAIN entries
    BY <2>1
  <2>4. w[n] = e.amount
    BY <2>1, <2>3 DEF Amounts
  <2>5. On(w, DOMAIN entries) = Amounts(entries)
    BY <2>1 DEF On, Amounts
  <2> HIDE DEF w
  <2>6. Total(w) = w[n] + Total(On(w, DOMAIN more \ {n}))
    BY <2>2, <2>3, TotalFacts
  <2>7. e.amount \in Int
    BY DEF Entry
  <2> QED
    BY <1>1, <1>2, <2>2, <2>3, <2>4, <2>5, <2>6, <2>7 DEF more
<1> QED
  BY <1>2, <1>3

\* What an order adds to the units sold, and that only the lines matter.
LEMMA SoldFacts ==
  ASSUME NEW rows, NEW D, IsFiniteSet(D), NEW p, \A o \in D : rows[o].lines[p] \in Int
  PROVE  /\ SoldOf(rows, D, p) \in Int
         /\ D = {} => SoldOf(rows, D, p) = 0
         /\ \A x \in D : SoldOf(rows, D, p) = rows[x].lines[p] + SoldOf(rows, D \ {x}, p)
         /\ \A others : (\A o \in D : others[o].lines[p] = rows[o].lines[p])
                          => SoldOf(others, D, p) = SoldOf(rows, D, p)
<1> DEFINE w == Units(rows, D, p)
<1>1. w \in [D -> Int]
  BY DEF Units
<1>2. SoldOf(rows, D, p) = Total(w)
  BY SoldIsTotal
<1>3. SoldOf(rows, D, p) \in Int /\ (D = {} => SoldOf(rows, D, p) = 0)
  <2> HIDE DEF w
  <2> QED
    BY <1>1, <1>2, TotalFacts
<1>4. ASSUME NEW x \in D
      PROVE  SoldOf(rows, D, p) = rows[x].lines[p] + SoldOf(rows, D \ {x}, p)
  <2>1. w[x] = rows[x].lines[p] /\ On(w, D \ {x}) = Units(rows, D \ {x}, p)
    BY DEF Units, On
  <2> HIDE DEF w
  <2>2. Total(w) = w[x] + Total(On(w, D \ {x}))
    BY <1>1, TotalFacts
  <2>3. IsFiniteSet(D \ {x})
    BY FS_Subset
  <2>4. SoldOf(rows, D \ {x}, p) = Total(Units(rows, D \ {x}, p))
    BY <2>3, SoldIsTotal
  <2> QED
    BY <1>2, <2>1, <2>2, <2>4
<1>5. ASSUME NEW others, \A o \in D : others[o].lines[p] = rows[o].lines[p]
      PROVE  SoldOf(others, D, p) = SoldOf(rows, D, p)
  <2>1. SoldOf(others, D, p) = Total(Units(others, D, p))
    BY <1>5, SoldIsTotal
  <2>2. Units(others, D, p) = Units(rows, D, p)
    BY <1>5 DEF Units
  <2> QED
    BY <1>2, <2>1, <2>2
<1> QED
  BY <1>3, <1>4, <1>5

\* One order more, when it is known to be there.
LEMMA SoldSplits ==
  ASSUME NEW rows, NEW D, IsFiniteSet(D), NEW p, \A o \in D : rows[o].lines[p] \in Int,
         NEW x \in D
  PROVE  SoldOf(rows, D, p) = rows[x].lines[p] + SoldOf(rows, D \ {x}, p)
<1> DEFINE whole == SoldOf(rows, D, p)
           less(y) == rows[y].lines[p] + SoldOf(rows, D \ {y}, p)
<1>1. \A y \in D : whole = less(y)
  BY SoldFacts
<1> HIDE DEF whole, less
<1>2. whole = less(x)
  BY <1>1
<1> QED
  BY <1>2 DEF whole, less

-----------------------------------------------------------------------------
(* What steps do to requests, orders and ledgers. *)

\* What a request has seen to survives steps that keep the orders it is about.
LEMMA RequestFrame ==
  ASSUME NEW g \in Handlers, RequestFits(req[g]), req'[g] = req[g],
         req[g].pc \in InCheckout => ~Exists(req[g].order)',
         \A o \in Orders : (Exists(o) => Exists(o)') /\ (Completed(o) => Completed(o)')
  PROVE  RequestFits(req[g])'
BY DEF RequestFits, CheckoutFits, InCheckout

\* A step that only gives h another request, which fits.
LEMMA RequestStep ==
  ASSUME PointsInv, NEW h \in Handlers, NEW r \in Request, req' = [req EXCEPT ![h] = r],
         RequestFits(r),
         r.pc \in InCheckout =>
           \A g \in Handlers \ {h} : req[g].pc \in InCheckout => req[g].order # r.order,
         UNCHANGED <<orders, history>>
  PROVE  req' \in [Handlers -> Request] /\ RequestsFit' /\ OrdersFit'
<1>1. /\ req' \in [Handlers -> Request]
      /\ \A g \in Handlers : req'[g] = IF g = h THEN r ELSE req[g]
  BY DEF PointsInv, TypeOK
<1>2. OwnOrders'
  <2> SUFFICES ASSUME NEW f \in Handlers, NEW g \in Handlers,
                      req'[f].pc \in InCheckout, req'[g].pc \in InCheckout,
                      req'[f].order = req'[g].order
               PROVE  f = g
    BY DEF OwnOrders, InCheckout
  <2> QED
    BY <1>1 DEF PointsInv, RequestsFit, OwnOrders
<1>3. ASSUME NEW g \in Handlers PROVE RequestFits(req[g])'
  <2>0. \A o : (Exists(o)' <=> Exists(o)) /\ (Completed(o)' <=> Completed(o))
    BY DEF Exists, Completed
  <2>1. CASE g = h
    BY <1>1, <2>0, <2>1 DEF RequestFits, CheckoutFits, InCheckout
  <2>2. CASE g # h
    <3>1. RequestFits(req[g]) /\ req'[g] = req[g]
      BY <1>1, <2>2 DEF PointsInv, RequestsFit
    <3>2. req[g].pc \in InCheckout => ~Exists(req[g].order)'
      BY <2>0, <3>1 DEF RequestFits, CheckoutFits
    <3> QED
      BY <2>0, <3>1, <3>2, RequestFrame
  <2> QED
    BY <2>1, <2>2
<1>4. OrdersFit'
  BY DEF PointsInv, OrdersFit, Exists
<1> QED
  BY <1>1, <1>2, <1>3, <1>4 DEF RequestsFit

\* A step that leaves histories and ledgers alone.
LEMMA LedgerFrame ==
  ASSUME LedgerFits, UNCHANGED ledger, \A o \in Orders : Completed(o) => Completed(o)'
  PROVE  LedgerFits'
BY DEF LedgerFits

\* A handler that is done has no request; its order, if it made one, is there now.
LEMMA FinishStep ==
  ASSUME PointsInv, NEW h \in Handlers, Finish(h),
         \A o \in Orders : (Exists(o) => Exists(o)') /\ (Completed(o) => Completed(o)'),
         \A g \in Handlers \ {h} :
           req[g].pc \in InCheckout => orders'[req[g].order].status = NoRow
  PROVE  req' \in [Handlers -> Request] /\ RequestsFit'
<1>1. /\ req' \in [Handlers -> Request]
      /\ \A g \in Handlers : req'[g] = IF g = h THEN Idle ELSE req[g]
  BY IdleFacts DEF PointsInv, TypeOK, Finish
<1>2. "idle" \notin InCheckout
  BY DEF InCheckout
<1>3. OwnOrders'
  <2> SUFFICES ASSUME NEW f \in Handlers, NEW g \in Handlers,
                      req'[f].pc \in InCheckout, req'[g].pc \in InCheckout,
                      req'[f].order = req'[g].order
               PROVE  f = g
    BY DEF OwnOrders, InCheckout
  <2> QED
    BY <1>1, <1>2, IdleFacts DEF PointsInv, RequestsFit, OwnOrders
<1>4. ASSUME NEW g \in Handlers PROVE RequestFits(req[g])'
  <2>1. CASE g = h
    BY <1>1, <1>2, <2>1, IdleFacts DEF RequestFits, InCheckout
  <2>2. CASE g # h
    <3>1. RequestFits(req[g]) /\ req'[g] = req[g]
      BY <1>1, <2>2 DEF PointsInv, RequestsFit
    <3>2. req[g].pc \in InCheckout => ~Exists(req[g].order)'
      BY <2>2, <3>1 DEF Exists
    <3> QED
      BY <2>2, <3>1, <3>2, RequestFrame
  <2> QED
    BY <2>1, <2>2
<1> QED
  BY <1>1, <1>3, <1>4 DEF RequestsFit

\* The same for a handler that has changed no order.
LEMMA DoneStep ==
  ASSUME PointsInv, NEW h \in Handlers, Finish(h), UNCHANGED <<orders, history>>
  PROVE  req' \in [Handlers -> Request] /\ RequestsFit' /\ OrdersFit'
<1>1. \A o : (Exists(o)' <=> Exists(o)) /\ (Completed(o)' <=> Completed(o))
  BY DEF Exists, Completed
<1>2. \A g \in Handlers : req[g].pc \in InCheckout => orders'[req[g].order].status = NoRow
  BY DEF PointsInv, RequestsFit, RequestFits, CheckoutFits, Exists
<1>3. OrdersFit'
  BY DEF PointsInv, OrdersFit, Exists
<1> QED
  BY <1>1, <1>2, <1>3, FinishStep

\* An entry more in one ledger: an EARN is of an order that was completed, and
\* the first.
LEMMA PostKeeps ==
  ASSUME PointsInv, NEW c \in Customers, NEW e \in Entry,
         ledger' = [ledger EXCEPT ![c] = Append(ledger[c], e)],
         e.type = "EARN" => e.order \in Orders /\ Completed(e.order)' /\ ~Earned(c, e.order),
         \A o \in Orders : Completed(o) => Completed(o)'
  PROVE  ledger' \in [Customers -> Seq(Entry)] /\ LedgerFits'
<1> DEFINE n == Len(ledger[c]) + 1
<1>1. ledger \in [Customers -> Seq(Entry)] /\ LedgerFits
  BY DEF PointsInv, TypeOK
<1>2. /\ Append(ledger[c], e) \in Seq(Entry)
      /\ DOMAIN Append(ledger[c], e) = DOMAIN ledger[c] \cup {n} /\ n \notin DOMAIN ledger[c]
      /\ \A i \in DOMAIN ledger[c] : Append(ledger[c], e)[i] = ledger[c][i]
      /\ Append(ledger[c], e)[n] = e
  BY <1>1, AppendFacts
<1> HIDE DEF n
<1>3. /\ ledger' \in [Customers -> Seq(Entry)]
      /\ ledger'[c] = Append(ledger[c], e) /\ \A d \in Customers \ {c} : ledger'[d] = ledger[d]
  BY <1>1, <1>2
<1>4. LedgerFits'
  <2> SUFFICES ASSUME NEW d \in Customers, NEW i \in DOMAIN ledger'[d], ledger'[d][i].type = "EARN"
               PROVE  /\ ledger'[d][i].order \in Orders /\ Completed(ledger[d][i].order)'
                      /\ \A j \in DOMAIN ledger'[d] :
                           ledger'[d][j].type = "EARN" /\ ledger'[d][j].order = ledger'[d][i].order => i = j
    BY DEF LedgerFits
  <2>1. CASE d # c
    <3>1. ledger'[d] = ledger[d]
      BY <1>3, <2>1
    <3>2. PICK o \in Orders : o = ledger[d][i].order /\ Completed(o) /\ Completed(o)'
      BY <1>1, <3>1 DEF LedgerFits
    <3>3. Completed(ledger[d][i].order)'
      BY <3>1, <3>2 DEF Completed
    <3> QED
      BY <1>1, <3>1, <3>2, <3>3 DEF LedgerFits
  <2>2. CASE d = c /\ i = n
    <3>1. e.type = "EARN" /\ ledger'[d][i] = e
      BY <1>2, <1>3, <2>2
    <3>2. \A j \in DOMAIN ledger[c] : ~(ledger[c][j].type = "EARN" /\ ledger[c][j].order = e.order)
      BY <3>1 DEF Earned
    <3>3. Completed(ledger[d][i].order)'
      BY <3>1 DEF Completed
    <3> QED
      BY <1>2, <1>3, <2>2, <3>1, <3>2, <3>3
  <2>3. CASE d = c /\ i # n
    <3>1. i \in DOMAIN ledger[c] /\ ledger'[d][i] = ledger[c][i] /\ ledger[c][i].type = "EARN"
      BY <1>2, <1>3, <2>3
    <3>2. PICK o \in Orders : o = ledger[c][i].order /\ Completed(o) /\ Completed(o)'
      BY <1>1, <3>1 DEF LedgerFits
    <3>4. ledger'[d][i].order = o /\ Completed(ledger[d][i].order)'
      BY <3>1, <3>2 DEF Completed
    <3>3. ASSUME NEW j \in DOMAIN ledger'[d], ledger'[d][j].type = "EARN",
                 ledger'[d][j].order = ledger'[d][i].order
          PROVE  i = j
      <4>1. CASE j = n
        <5>1. e.type = "EARN" /\ e.order = ledger[c][i].order
          BY <1>2, <1>3, <2>3, <3>1, <3>3, <4>1
        <5> QED
          BY <3>1, <5>1 DEF Earned
      <4>2. CASE j # n
        BY <1>1, <1>2, <1>3, <2>3, <3>1, <3>3, <4>2 DEF LedgerFits
      <4> QED
        BY <4>1, <4>2
    <3> QED
      BY <3>2, <3>3, <3>4
  <2> QED
    BY <2>1, <2>2, <2>3
<1> QED
  BY <1>3, <1>4

-----------------------------------------------------------------------------
(* The steps, one by one. *)

\* The invariant holds before the first order.
LEMMA PointsInit == Init => PointsInv
<1> SUFFICES ASSUME Init PROVE PointsInv
  OBVIOUS
<1>1. \A c \in Customers : [type |-> "ADJUSTMENT", order |-> NoRow, amount |-> InitialPoints[c]] \in Entry
  BY ConstantFacts DEF Entry
<1>2. /\ ledger = [c \in Customers |->
                     IF InitialPoints[c] = 0 THEN <<>>
                     ELSE <<[type |-> "ADJUSTMENT", order |-> NoRow, amount |-> InitialPoints[c]]>>]
      /\ history = [o \in Orders |-> <<>>] /\ req = [h \in Handlers |-> Idle]
      /\ orders = [o \in Orders |-> [status |-> NoRow, customer |-> NoRow, day |-> 0,
                                     number |-> 0, lines |-> Empty, promo |-> FALSE]]
  BY DEF Init
<1>3. ledger \in [Customers -> Seq(Entry)]
  BY <1>1, <1>2
<1>4. orders \in [Orders -> OrderRow]
  BY <1>2, EmptyFacts DEF OrderRow
<1>5. TypeOK
  <2>1. history \in [Orders -> Seq(StatusChange)] /\ req \in [Handlers -> Request]
    BY <1>2, IdleFacts
  <2>2. cart \in [Customers -> Lines] /\ today \in Days /\ sequence \in [Days -> Nat]
    BY EmptyFacts DEF Init
  <2>3. stock \in [Products -> Nat] /\ edited \subseteq Products /\ balance \in [Customers -> Nat]
    BY ConstantFacts DEF Init
  <2> QED
    BY <1>3, <1>4, <2>1, <2>2, <2>3 DEF TypeOK
<1>6. OrdersFit
  BY <1>2 DEF OrdersFit, Exists
<1>7. RequestsFit
  BY <1>2, IdleFacts DEF RequestsFit, OwnOrders, RequestFits, InCheckout
<1>8. LedgerFits
  BY <1>1, <1>2 DEF LedgerFits
<1> QED
  BY <1>5, <1>6, <1>7, <1>8 DEF PointsInv

\* Steps of no handler: the clock, the cart and the stock that staff type in.
LEMMA OutsideKeeps ==
  ASSUME PointsInv,
         \/ Midnight
         \/ \E p \in Products, count \in Counts : EditProduct(p, count)
         \/ \E c \in Customers, p \in Products, quantity \in Quantities : AddItem(c, p, quantity)
         \/ \E c \in Customers, p \in Products, quantity \in Quantities \cup {0} :
              UpdateItem(c, p, quantity)
         \/ \E c \in Customers : ClearCart(c)
  PROVE  PointsInv'
<1>1. UNCHANGED <<orders, history, sequence, balance, ledger, req>>
  BY DEF Midnight, EditProduct, AddItem, UpdateItem, ClearCart
<1>2. OrdersFit' /\ RequestsFit' /\ LedgerFits'
  BY <1>1 DEF PointsInv, OrdersFit, RequestsFit, OwnOrders, RequestFits, CheckoutFits, LedgerFits, Completed,
     Exists
<1>3. ASSUME NEW c \in Customers, NEW p \in Products, NEW n \in 0 .. MaxLine,
             cart' = [cart EXCEPT ![c][p] = n]
      PROVE  cart' \in [Customers -> Lines]
  BY <1>3 DEF PointsInv, TypeOK, Lines
<1>4. cart' \in [Customers -> Lines] /\ today' \in Days
  <2>1. CASE Midnight
    BY <2>1, ConstantFacts DEF PointsInv, TypeOK, Midnight, Days
  <2>2. CASE \E p \in Products, count \in Counts : EditProduct(p, count)
    BY <2>2 DEF PointsInv, TypeOK, EditProduct
  <2>3. CASE \E c \in Customers, p \in Products, quantity \in Quantities : AddItem(c, p, quantity)
    <3>1. PICK c \in Customers, p \in Products, quantity \in Quantities : AddItem(c, p, quantity)
      BY <2>3
    <3>2. cart[c][p] \in 0 .. MaxLine
      BY DEF PointsInv, TypeOK, Lines
    <3>3. cart[c][p] + quantity \in 0 .. MaxLine
      BY <3>1, <3>2, ConstantFacts DEF AddItem
    <3>4. cart' = [cart EXCEPT ![c][p] = cart[c][p] + quantity] /\ UNCHANGED today
      BY <3>1 DEF AddItem
    <3> QED
      BY <1>3, <3>3, <3>4 DEF PointsInv, TypeOK
  <2>4. CASE \E c \in Customers, p \in Products, quantity \in Quantities \cup {0} :
               UpdateItem(c, p, quantity)
    <3>1. PICK c \in Customers, p \in Products, quantity \in Quantities \cup {0} :
            UpdateItem(c, p, quantity)
      BY <2>4
    <3>2. quantity \in 0 .. MaxLine /\ UNCHANGED today
      BY <3>1, ConstantFacts DEF UpdateItem
    <3> QED
      BY <1>3, <3>1, <3>2 DEF UpdateItem, PointsInv, TypeOK
  <2>5. CASE \E c \in Customers : ClearCart(c)
    BY <2>5, EmptyFacts DEF PointsInv, TypeOK, ClearCart
  <2> QED
    BY <2>1, <2>2, <2>3, <2>4, <2>5
<1>5. stock' \in [Products -> Nat] /\ edited' \subseteq Products
  BY ConstantFacts DEF PointsInv, TypeOK, Midnight, EditProduct, AddItem,
     UpdateItem, ClearCart
<1> QED
  BY <1>1, <1>2, <1>4, <1>5 DEF PointsInv, TypeOK

\* A step that only gives h another request keeps everything.
LEMMA OnlyRequest ==
  ASSUME PointsInv, NEW h \in Handlers, NEW r \in Request, req' = [req EXCEPT ![h] = r],
         RequestFits(r),
         r.pc \in InCheckout =>
           \A g \in Handlers \ {h} : req[g].pc \in InCheckout => req[g].order # r.order,
         UNCHANGED <<today, cart, orders, history, sequence, stock, edited, balance, ledger>>
  PROVE  PointsInv'
<1>1. req' \in [Handlers -> Request] /\ RequestsFit' /\ OrdersFit'
  BY RequestStep
<1>2. LedgerFits'
  BY LedgerFrame DEF PointsInv, Completed
<1> QED
  BY <1>1, <1>2 DEF PointsInv, TypeOK

\* And so does one that only ends it.
LEMMA OnlyDone ==
  ASSUME PointsInv, NEW h \in Handlers, Finish(h),
         UNCHANGED <<today, cart, orders, history, sequence, stock, edited, balance, ledger>>
  PROVE  PointsInv'
<1>1. req' \in [Handlers -> Request] /\ RequestsFit' /\ OrdersFit'
  BY DoneStep
<1>2. LedgerFits'
  BY LedgerFrame DEF PointsInv, Completed
<1> QED
  BY <1>1, <1>2 DEF PointsInv, TypeOK

\* Requests that begin: a checkout with the cart and points as they are, a change
\* of status, and a correction or an accrual with the account locked.
LEMMA BeginKeeps ==
  ASSUME PointsInv, NEW h \in Handlers,
         \/ \E c \in Customers, promo \in BOOLEAN :
              \E points \in 0 .. balance[c] : BeginCheckout(h, c, points, promo)
         \/ \E o \in Orders, next \in Requested : ReadForStatus(h, o, next)
         \/ \E c \in Customers, amount \in Corrections : LockForAdjust(h, c, amount)
         \/ \E o \in Orders : LockForAccrual(h, o)
  PROVE  PointsInv'
<1>1. UNCHANGED <<today, cart, orders, history, sequence, stock, edited, balance, ledger>>
  BY DEF BeginCheckout, ReadForStatus, LockForAdjust, LockForAccrual
<1>2. TypeOK /\ OrdersFit
  BY DEF PointsInv
<1>3. \E r \in Request :
        req' = [req EXCEPT ![h] = r] /\ RequestFits(r) /\ r.pc \notin InCheckout
  <2>1. ASSUME NEW c \in Customers, NEW promo \in BOOLEAN, NEW points \in 0 .. balance[c],
               BeginCheckout(h, c, points, promo)
        PROVE  \E r \in Request :
                 req' = [req EXCEPT ![h] = r] /\ RequestFits(r) /\ r.pc \notin InCheckout
    <3> DEFINE r == [Idle EXCEPT !.pc = "number", !.customer = c, !.lines = cart[c],
                                        !.points = points, !.promo = promo, !.day = today]
    <3>1. cart[c] \in Lines /\ today \in Days /\ points \in Nat
      BY <1>2 DEF TypeOK
    <3>2. r \in Request /\ r.pc = "number" /\ r.customer = c /\ r.done = {}
      BY <3>1, IdleFacts DEF Request, Pcs
    <3>3. RequestFits(r) /\ r.pc \notin InCheckout
      BY <3>2 DEF RequestFits, InCheckout
    <3>4. req' = [req EXCEPT ![h] = r]
      BY <2>1 DEF BeginCheckout, Begin
    <3> QED
      BY <3>2, <3>3, <3>4
  <2>2. ASSUME NEW o \in Orders, NEW next \in Requested, ReadForStatus(h, o, next)
        PROVE  \E r \in Request :
                 req' = [req EXCEPT ![h] = r] /\ RequestFits(r) /\ r.pc \notin InCheckout
    <3> DEFINE r == [Idle EXCEPT !.pc = "status", !.order = o, !.next = next,
                                        !.seen = orders[o].status]
    <3>1. Exists(o) /\ next \in OrderStatuses
      BY <2>2, ConstantFacts DEF ReadForStatus
    <3>2. orders[o].status \in OrderStatuses
      BY <1>2, <3>1 DEF TypeOK, OrderRow, Exists
    <3>3. r \in Request /\ r.pc = "status" /\ r.order = o
      BY <3>1, <3>2, IdleFacts DEF Request, Pcs
    <3>4. RequestFits(r) /\ r.pc \notin InCheckout
      BY <3>1, <3>3 DEF RequestFits, InCheckout
    <3>5. req' = [req EXCEPT ![h] = r]
      BY <2>2 DEF ReadForStatus, Begin
    <3> QED
      BY <3>3, <3>4, <3>5
  <2>3. ASSUME NEW c \in Customers, NEW amount \in Corrections, LockForAdjust(h, c, amount)
        PROVE  \E r \in Request :
                 req' = [req EXCEPT ![h] = r] /\ RequestFits(r) /\ r.pc \notin InCheckout
    <3> DEFINE r == Adjusting(c, amount, balance[c])
    <3>1. balance[c] \in Nat /\ amount \in Int /\ balance[c] + amount >= 0
      BY <1>2, <2>3, ConstantFacts DEF TypeOK, LockForAdjust, Affordable
    <3>5. balance[c] \in Int
      BY <3>1
    <3>2. /\ r \in Request /\ r.pc = "adjust" /\ r.customer = c
          /\ r.seenBalance = balance[c] /\ r.amount = amount
      BY <3>1, <3>5, AdjustingFacts
    <3>3. RequestFits(r) /\ r.pc \notin InCheckout
      BY <3>1, <3>2 DEF RequestFits, InCheckout
    <3>4. req' = [req EXCEPT ![h] = r]
      BY <2>3 DEF LockForAdjust, Begin, Adjusting
    <3> QED
      BY <3>2, <3>3, <3>4
  <2>4. ASSUME NEW o \in Orders, LockForAccrual(h, o)
        PROVE  \E r \in Request :
                 req' = [req EXCEPT ![h] = r] /\ RequestFits(r) /\ r.pc \notin InCheckout
    <3> DEFINE c == orders[o].customer
               r == Accruing(c, o, Cashback, balance[c])
    <3>1. Completed(o)
      BY <1>2, <2>4, CompletedCounted DEF LockForAccrual
    <3>2. c \in Customers
      BY <1>2, <3>1 DEF OrdersFit, Completed
    <3>3. balance[c] \in Nat /\ Cashback \in Nat
      BY <1>2, <3>2, ConstantFacts DEF TypeOK
    <3>7. balance[c] \in Int /\ Cashback \in Int
      BY <3>3
    <3>4. /\ r \in Request /\ r.pc = "accrue" /\ r.customer = c /\ r.order = o
          /\ r.seenBalance = balance[c] /\ r.amount = Cashback
      BY <3>2, <3>7, AccruingFacts
    <3>5. RequestFits(r) /\ r.pc \notin InCheckout
      BY <3>1, <3>2, <3>3, <3>4 DEF RequestFits, InCheckout
    <3>6. req' = [req EXCEPT ![h] = r]
      BY <2>4 DEF LockForAccrual, Begin, Accruing
    <3> QED
      BY <3>4, <3>5, <3>6
  <2> QED
    BY <2>1, <2>2, <2>3, <2>4
<1>4. PICK r \in Request :
        req' = [req EXCEPT ![h] = r] /\ RequestFits(r) /\ r.pc \notin InCheckout
  BY <1>3
<1> QED
  BY <1>1, <1>4, OnlyRequest

\* The checkout takes an order that no other has and that is not there yet.
LEMMA TakeNumberKeeps ==
  ASSUME PointsInv, NEW h \in Handlers, NEW o \in Orders, NEW day \in Days, TakeNumber(h, o, day)
  PROVE  PointsInv'
<1> DEFINE q == req[h]
           pc == IF q.points > 0 THEN "read_balance" ELSE "stock"
           r == Numbered(q, pc, o, day, sequence[day] + 1)
<1>1. /\ q.pc = "number" /\ ~Exists(o) /\ req' = [req EXCEPT ![h] = r]
      /\ \A g \in Handlers : req[g].pc \in InCheckout => req[g].order # o
      /\ UNCHANGED <<today, cart, orders, history, sequence, stock, edited, balance, ledger>>
  BY DEF TakeNumber, Numbered
<1>2. q \in Request /\ sequence[day] \in Nat /\ q.customer \in Customers /\ q.done = {} /\ q.points \in Nat
  BY <1>1, RequestFacts DEF PointsInv, TypeOK, RequestsFit, RequestFits
<1>5. /\ pc \in Pcs /\ pc \in {"read_balance", "stock"} /\ sequence[day] + 1 \in Nat
      /\ (pc = "stock" => ~(q.points > 0))
  BY <1>2 DEF Pcs, InCheckout
<1> HIDE DEF pc
<1>3. /\ r \in Request /\ r.order = o /\ r.customer = q.customer /\ r.done = {}
      /\ r.pc = pc /\ r.points = q.points
  BY <1>2, <1>5, NumberedFacts
<1>4. RequestFits(r)
  BY <1>1, <1>2, <1>3, <1>5 DEF RequestFits, CheckoutFits, InCheckout
<1> HIDE DEF r
<1> QED
  BY <1>1, <1>3, <1>4, OnlyRequest

\* The next step of a checkout that goes on: the same order, and what it has seen to.
LEMMA CheckoutKeeps ==
  ASSUME PointsInv, NEW h \in Handlers,
         \/ ReadBalance(h) \/ SpendPoints(h)
         \/ \E p \in Products : ReadStock(h, p)
         \/ TakeStock(h)
  PROVE  PointsInv'
<1> DEFINE q == req[h]
<1>1. UNCHANGED <<today, cart, orders, history, sequence, stock, edited, balance, ledger>>
  BY DEF ReadBalance, SpendPoints, ReadStock, TakeStock
<1>2. q.pc \in InCheckout /\ CheckoutFits(q) /\ q \in Request
  BY RequestFacts DEF ReadBalance, SpendPoints, ReadStock, TakeStock,
     InCheckout, PointsInv, RequestsFit, RequestFits
<1>3. \A g \in Handlers \ {h} : req[g].pc \in InCheckout => req[g].order # q.order
  BY <1>2 DEF PointsInv, RequestsFit, OwnOrders
<1>4. ASSUME NEW r \in Request, req' = [req EXCEPT ![h] = r], r.pc \in InCheckout,
             r.order = q.order, CheckoutFits(r)
      PROVE  PointsInv'
  <2>1. RequestFits(r)
    BY <1>4 DEF RequestFits, InCheckout
  <2>2. \A g \in Handlers \ {h} : req[g].pc \in InCheckout => req[g].order # r.order
    BY <1>3, <1>4
  <2> QED
    BY <1>1, <1>4, <2>1, <2>2, OnlyRequest
<1>5. CASE ReadBalance(h)
  <2>1. CASE Affordable(q.customer, -q.points)
    <3> DEFINE r == Spending(q, balance[q.customer])
    <3>1. balance[q.customer] \in Nat /\ q.points \in Nat
      BY <1>2, RequestFacts DEF CheckoutFits, PointsInv, TypeOK
    <3>2. balance[q.customer] - q.points >= 0
      BY <2>1, <3>1 DEF Affordable
    <3>6. balance[q.customer] \in Int
      BY <3>1
    <3>3. /\ r \in Request /\ r.pc = "spend" /\ r.order = q.order /\ r.customer = q.customer
          /\ r.seenBalance = balance[q.customer] /\ r.points = q.points /\ r.done = q.done /\ r.taken = q.taken
      BY <1>2, <3>6, SpendingFacts
    <3>4. CheckoutFits(r) /\ r.pc \in InCheckout
      BY <1>2, <3>2, <3>3 DEF CheckoutFits, InCheckout
    <3>5. req' = [req EXCEPT ![h] = r]
      BY <1>2, <1>5, <2>1 DEF ReadBalance, Spending
    <3> HIDE DEF r
    <3> QED
      BY <1>4, <3>3, <3>4, <3>5
  <2>2. CASE ~Affordable(q.customer, -q.points)
    BY <1>1, <1>5, <2>2, OnlyDone DEF ReadBalance
  <2> QED
    BY <2>1, <2>2
<1>6. CASE SpendPoints(h)
  <2> DEFINE r == [q EXCEPT !.pc = "stock"]
  <2>1. /\ r \in Request /\ r.pc = "stock" /\ r.order = q.order /\ r.customer = q.customer
        /\ r.seenBalance = q.seenBalance /\ r.points = q.points /\ r.done = q.done /\ r.taken = q.taken
    BY <1>2 DEF Request, Pcs, InCheckout
  <2>2. CheckoutFits(r) /\ r.pc \in InCheckout
    BY <1>2, <1>6, <2>1 DEF CheckoutFits, InCheckout, SpendPoints
  <2>3. req' = [req EXCEPT ![h] = r]
    BY <1>2, <1>6 DEF SpendPoints, Goto
  <2> HIDE DEF r
  <2> QED
    BY <1>4, <2>1, <2>2, <2>3
<1>7. CASE \E p \in Products : ReadStock(h, p)
  <2>1. PICK p \in Products : ReadStock(h, p)
    BY <1>7
  <2>2. CASE stock[p] < q.lines[p]
    BY <1>1, <2>1, <2>2, OnlyDone DEF ReadStock
  <2>3. CASE ~(stock[p] < q.lines[p])
    <3> DEFINE r == [q EXCEPT !.pc = "take", !.product = p, !.after = stock[p] - q.lines[p]]
    <3>1. stock[p] \in Nat /\ q.lines[p] \in Nat
      BY RequestFacts DEF PointsInv, TypeOK, Lines
    <3>2. stock[p] - q.lines[p] \in Int /\ stock[p] - q.lines[p] >= 0
      BY <2>3, <3>1
    <3>3. /\ r \in Request /\ r.pc = "take" /\ r.order = q.order /\ r.customer = q.customer
          /\ r.seenBalance = q.seenBalance /\ r.points = q.points /\ r.done = q.done /\ r.taken = q.taken
          /\ r.product = p /\ r.after = stock[p] - q.lines[p]
      BY <1>2, <3>2 DEF Request, Pcs, InCheckout
    <3>4. CheckoutFits(r) /\ r.pc \in InCheckout
      BY <1>2, <2>1, <3>2, <3>3 DEF CheckoutFits, InCheckout, ReadStock
    <3>5. req' = [req EXCEPT ![h] = r]
      BY <1>2, <2>1, <2>3 DEF ReadStock
    <3> HIDE DEF r
    <3> QED
      BY <1>4, <3>3, <3>4, <3>5
  <2> QED
    BY <2>2, <2>3
<1>8. CASE TakeStock(h)
  <2> DEFINE r == [q EXCEPT !.pc = "stock", !.taken[q.product] = q.after, !.done = @ \cup {q.product}]
  <2>1. q.product \in Products /\ q.after >= 0 /\ q.after \in Int /\ q.taken \in [Products -> Int]
    BY <1>2, <1>8, RequestFacts DEF CheckoutFits, TakeStock, PointsInv
  <2>2. /\ r \in Request /\ r.pc = "stock" /\ r.order = q.order /\ r.customer = q.customer
        /\ r.seenBalance = q.seenBalance /\ r.points = q.points /\ r.done = q.done \cup {q.product}
        /\ r.taken = [q.taken EXCEPT ![q.product] = q.after]
    BY <1>2, <2>1 DEF Request, Pcs, InCheckout
  <2>3. \A p \in r.done : r.taken[p] >= 0
    <3>1. q.done \subseteq Products /\ \A p \in q.done : q.taken[p] >= 0
      BY <1>2, RequestFacts DEF CheckoutFits, PointsInv
    <3> QED
      BY <2>1, <2>2, <3>1
  <2>4. CheckoutFits(r) /\ r.pc \in InCheckout
    BY <1>2, <1>8, <2>2, <2>3 DEF CheckoutFits, InCheckout, TakeStock
  <2>5. req' = [req EXCEPT ![h] = r]
    BY <1>2, <1>8 DEF TakeStock
  <2> HIDE DEF r
  <2> QED
    BY <1>4, <2>2, <2>4, <2>5
<1> QED
  BY <1>5, <1>6, <1>7, <1>8

\* The checkout commits: the order is there, its goods and its points are gone.
LEMMA CommitKeeps ==
  ASSUME PointsInv, NEW h \in Handlers, CommitCheckout(h)
  PROVE  PointsInv'
<1> DEFINE q == req[h]
           e == [type |-> "SPEND", order |-> q.order, amount |-> -q.points]
           row == [status |-> "NEW", customer |-> q.customer, day |-> q.day, number |-> q.number,
                   lines |-> q.lines, promo |-> q.promo]
           new == [from |-> NoRow, to |-> "NEW"]
<1>1. q.pc = "stock" /\ Finish(h) /\ UNCHANGED <<today, edited>>
  BY DEF CommitCheckout
<1>2. q.pc \in InCheckout /\ CheckoutFits(q) /\ TypeOK /\ OrdersFit /\ LedgerFits
  BY <1>1 DEF PointsInv, RequestsFit, RequestFits, InCheckout
<1>3. /\ q.order \in Orders /\ ~Exists(q.order) /\ history[q.order] = <<>>
      /\ q.customer \in Customers
  BY <1>2 DEF CheckoutFits, OrdersFit
<1>4. /\ orders' = [orders EXCEPT ![q.order] = row]
      /\ history' = [history EXCEPT ![q.order] = <<new>>]
      /\ sequence' = [sequence EXCEPT ![q.day] = q.number]
      /\ stock' = [p \in Products |-> IF p \in q.done THEN q.taken[p] ELSE stock[p]]
      /\ cart' = [cart EXCEPT ![q.customer] = Empty]
  BY DEF CommitCheckout
<1>5. row \in OrderRow /\ row.status = "NEW" /\ row.customer = q.customer
  BY <1>2, <1>3, RequestFacts DEF OrderRow, OrderStatuses
<1>6. new \in StatusChange /\ <<new>> \in Seq(StatusChange)
  BY DEF StatusChange, OrderStatuses
<1> HIDE DEF row, new
<1>7. /\ orders' \in [Orders -> OrderRow]
      /\ orders'[q.order] = row /\ \A o \in Orders \ {q.order} : orders'[o] = orders[o]
      /\ history' \in [Orders -> Seq(StatusChange)]
      /\ \A o \in Orders \ {q.order} : history'[o] = history[o]
  BY <1>2, <1>3, <1>4, <1>5, <1>6 DEF TypeOK
<1>8. \A o \in Orders : (Exists(o) => Exists(o)') /\ (Completed(o) => Completed(o)')
  BY <1>3, <1>7 DEF Exists, Completed
<1>9. OrdersFit'
  <2> SUFFICES ASSUME NEW o \in Orders
               PROVE  IF Exists(o)' THEN orders'[o].customer \in Customers ELSE history'[o] = <<>>
    BY DEF OrdersFit
  <2>1. CASE o = q.order
    BY <1>3, <1>5, <1>7, <2>1 DEF Exists, NoRow
  <2>2. CASE o # q.order
    BY <1>2, <1>7, <2>2 DEF OrdersFit, Exists
  <2> QED
    BY <2>1, <2>2
<1>10. req' \in [Handlers -> Request] /\ RequestsFit'
  <2>1. ASSUME NEW g \in Handlers \ {h}, req[g].pc \in InCheckout
        PROVE  orders'[req[g].order].status = NoRow
    <3>1. req[g].order \in Orders /\ ~Exists(req[g].order) /\ req[g].order # q.order
      BY <1>2, <2>1 DEF PointsInv, RequestsFit, OwnOrders, RequestFits, CheckoutFits
    <3> QED
      BY <1>7, <3>1 DEF Exists
  <2> QED
    BY <1>1, <1>8, <2>1, FinishStep
<1>11. /\ sequence' \in [Days -> Nat] /\ cart' \in [Customers -> Lines]
       /\ stock' \in [Products -> Nat]
  <2>1. sequence' \in [Days -> Nat] /\ cart' \in [Customers -> Lines]
    BY <1>2, <1>4, RequestFacts, EmptyFacts DEF TypeOK
  <2>2. \A p \in q.done : q.taken[p] \in Nat
    BY <1>2, RequestFacts DEF CheckoutFits
  <2>3. stock' \in [Products -> Nat]
    BY <1>2, <1>4, <2>2 DEF TypeOK
  <2> QED
    BY <2>1, <2>3
<1>12. balance' \in [Customers -> Nat] /\ ledger' \in [Customers -> Seq(Entry)] /\ LedgerFits'
  <2>1. CASE q.points > 0
    <3>1. /\ balance' = [balance EXCEPT ![q.customer] = q.seenBalance - q.points]
          /\ ledger' = [ledger EXCEPT ![q.customer] = Append(ledger[q.customer], e)]
      BY <1>2, <1>3, <2>1 DEF CommitCheckout
    <3>2. q.seenBalance - q.points \in Nat
      BY <1>1, <1>2, <2>1, RequestFacts DEF CheckoutFits
    <3>3. balance' \in [Customers -> Nat]
      BY <1>2, <3>1, <3>2 DEF TypeOK
    <3>4. -q.points \in Int
      BY <1>2, RequestFacts
    <3>5. e \in Entry /\ e.type = "SPEND"
      BY <1>3, <3>4 DEF Entry
    <3> HIDE DEF e
    <3>6. ledger' \in [Customers -> Seq(Entry)] /\ LedgerFits'
      BY <1>3, <1>8, <3>1, <3>5, PostKeeps
    <3> QED
      BY <3>3, <3>6
  <2>2. CASE ~(q.points > 0)
    <3>1. UNCHANGED <<balance, ledger>>
      BY <2>2 DEF CommitCheckout
    <3> QED
      BY <1>2, <1>8, <3>1, LedgerFrame DEF TypeOK
  <2> QED
    BY <2>1, <2>2
<1>13. TypeOK'
  BY <1>1, <1>2, <1>7, <1>10, <1>11, <1>12 DEF TypeOK
<1> QED
  BY <1>9, <1>10, <1>12, <1>13 DEF PointsInv

\* A status is written, and the goods of a cancelled order go back.
LEMMA WriteStatusKeeps ==
  ASSUME PointsInv, NEW h \in Handlers, WriteStatus(h)
  PROVE  PointsInv'
<1> DEFINE q == req[h]
           new == [from |-> q.seen, to |-> q.next]
<1>1. /\ q.pc = "status" /\ Finish(h)
      /\ UNCHANGED <<today, cart, sequence, edited, balance, ledger>>
  BY DEF WriteStatus
<1>2. /\ q.order \in Orders /\ Exists(q.order)
      /\ TypeOK /\ OrdersFit /\ LedgerFits
  BY <1>1 DEF PointsInv, RequestsFit, RequestFits
<1>3. /\ orders' = [orders EXCEPT ![q.order].status = q.next]
      /\ history' = [history EXCEPT ![q.order] = Append(history[q.order], new)]
  BY <1>2 DEF WriteStatus, TypeOK
<1>4. q.next \in OrderStatuses /\ q.seen \in OrderStatuses
  BY <1>2, RequestFacts
<1>5. new \in StatusChange
  BY <1>4 DEF StatusChange
<1>6. q.next # NoRow
  BY <1>4 DEF OrderStatuses, NoRow
<1> HIDE DEF new
<1>7. /\ orders' \in [Orders -> OrderRow]
      /\ orders'[q.order].status = q.next /\ orders'[q.order].customer = orders[q.order].customer
      /\ \A o \in Orders \ {q.order} : orders'[o] = orders[o]
  BY <1>2, <1>3, <1>4 DEF TypeOK, OrderRow
<1>8. /\ history' \in [Orders -> Seq(StatusChange)]
      /\ \A o \in Orders \ {q.order} : history'[o] = history[o]
      /\ \A o \in Orders : o = q.order /\ Completed(o) => Completed(o)'
  <2>1. history[q.order] \in Seq(StatusChange)
    BY <1>2 DEF TypeOK
  <2>2. /\ Append(history[q.order], new) \in Seq(StatusChange)
        /\ DOMAIN history[q.order] \subseteq DOMAIN Append(history[q.order], new)
        /\ \A i \in DOMAIN history[q.order] : Append(history[q.order], new)[i] = history[q.order][i]
    BY <1>5, <2>1, AppendFacts
  <2>3. /\ history' \in [Orders -> Seq(StatusChange)]
        /\ history'[q.order] = Append(history[q.order], new)
        /\ \A o \in Orders \ {q.order} : history'[o] = history[o]
    BY <1>2, <1>3, <2>2 DEF TypeOK
  <2>4. ASSUME Completed(q.order) PROVE \E i \in DOMAIN history'[q.order] : history'[q.order][i].to = "COMPLETED"
    BY <2>2, <2>3, <2>4 DEF Completed
  <2>5. ASSUME NEW o \in Orders, o = q.order, Completed(o) PROVE Completed(o)'
    BY <2>4, <2>5 DEF Completed
  <2> QED
    BY <1>2, <2>3, <2>5
<1>9. \A o \in Orders : (Exists(o) => Exists(o)') /\ (Completed(o) => Completed(o)')
  BY <1>6, <1>7, <1>8 DEF Exists, Completed
<1>10. OrdersFit'
  BY <1>2, <1>7, <1>8, <1>9 DEF OrdersFit, Exists
<1>11. req' \in [Handlers -> Request] /\ RequestsFit'
  <2>1. ASSUME NEW g \in Handlers \ {h}, req[g].pc \in InCheckout
        PROVE  orders'[req[g].order].status = NoRow
    <3>1. req[g].order \in Orders /\ ~Exists(req[g].order)
      BY <2>1 DEF PointsInv, RequestsFit, RequestFits, CheckoutFits
    <3> QED
      BY <1>2, <1>7, <3>1 DEF Exists
  <2> QED
    BY <1>1, <1>9, <2>1, FinishStep
<1>12. LedgerFits'
  BY <1>1, <1>2, <1>9, LedgerFrame
<1>13. stock' \in [Products -> Nat]
  <2>1. orders[q.order].lines \in Lines /\ stock \in [Products -> Nat]
    BY <1>2 DEF TypeOK, OrderRow
  <2>2. \A p \in Products : orders[q.order].lines[p] \in Nat
    BY <2>1 DEF Lines
  <2>3. stock' = stock \/ stock' = [p \in Products |-> stock[p] + orders[q.order].lines[p]]
    BY DEF WriteStatus
  <2> QED
    BY <2>1, <2>2, <2>3
<1>14. TypeOK'
  BY <1>1, <1>2, <1>7, <1>8, <1>11, <1>13 DEF TypeOK
<1> QED
  BY <1>10, <1>11, <1>12, <1>14 DEF PointsInv

\* A correction, or an accrual that the unique index lets through, is posted.
LEMMA PostingKeeps ==
  ASSUME PointsInv, NEW h \in Handlers, PostAdjustment(h) \/ PostAccrual(h)
  PROVE  PointsInv'
<1> DEFINE q == req[h]
<1>1. /\ Finish(h)
      /\ UNCHANGED <<today, cart, orders, history, sequence, stock, edited>>
  BY DEF PostAdjustment, PostAccrual
<1>2. TypeOK /\ LedgerFits
  BY DEF PointsInv
<1>3. q.customer \in Customers /\ q.seenBalance + q.amount \in Nat /\ q.amount \in Int
  BY <1>2, RequestFacts DEF PointsInv, RequestsFit, RequestFits, PostAdjustment, PostAccrual
<1>4. req' \in [Handlers -> Request] /\ RequestsFit' /\ OrdersFit'
  BY <1>1, DoneStep
<1>5. \A o \in Orders : Completed(o) => Completed(o)'
  BY <1>1 DEF Completed
<1>6. ASSUME NEW type \in {"EARN", "ADJUSTMENT"}, NEW o \in Orders \cup {NoRow},
             Post(h, type, o),
             type = "EARN" => o \in Orders /\ Completed(o) /\ ~Earned(q.customer, o)
      PROVE  balance' \in [Customers -> Nat] /\ ledger' \in [Customers -> Seq(Entry)] /\ LedgerFits'
  <2> DEFINE e == [type |-> type, order |-> o, amount |-> q.amount]
  <2>1. balance' \in [Customers -> Nat]
    BY <1>2, <1>3, <1>6 DEF Post, TypeOK
  <2>2. ledger' = [ledger EXCEPT ![q.customer] = Append(ledger[q.customer], e)]
    BY <1>2, <1>3, <1>6 DEF Post, TypeOK
  <2>3. e \in Entry /\ e.type = type /\ e.order = o
    BY <1>3, <1>6 DEF Entry
  <2> HIDE DEF e
  <2>4. PICK f \in Entry : f = e /\ f.type = type /\ f.order = o
    BY <2>3
  <2>5. f.type = "EARN" => f.order \in Orders /\ Completed(f.order)' /\ ~Earned(q.customer, f.order)
    BY <1>5, <1>6, <2>4
  <2>6. ledger' \in [Customers -> Seq(Entry)] /\ LedgerFits'
    BY <1>3, <1>5, <2>2, <2>4, <2>5, PostKeeps
  <2> QED
    BY <2>1, <2>6
<1>7. balance' \in [Customers -> Nat] /\ ledger' \in [Customers -> Seq(Entry)] /\ LedgerFits'
  <2>1. CASE PostAdjustment(h)
    BY <1>6, <2>1 DEF PostAdjustment
  <2>2. CASE PostAccrual(h)
    <3>1. q.order \in Orders /\ Completed(q.order)
      BY <2>2 DEF PointsInv, RequestsFit, RequestFits, PostAccrual
    <3>2. CASE Earned(q.customer, q.order)
      BY <1>2, <1>5, <2>2, <3>2, LedgerFrame DEF PostAccrual, TypeOK
    <3>3. CASE ~Earned(q.customer, q.order)
      BY <1>6, <2>2, <3>1, <3>3 DEF PostAccrual
    <3> QED
      BY <3>2, <3>3
  <2> QED
    BY <2>1, <2>2
<1>8. TypeOK'
  BY <1>1, <1>2, <1>4, <1>7 DEF TypeOK
<1> QED
  BY <1>4, <1>7, <1>8 DEF PointsInv

\* Every step keeps the invariant.
LEMMA PointsNext ==
  ASSUME PointsInv, [Next]_(vars)
  PROVE  PointsInv'
<1>1. CASE UNCHANGED vars
  BY <1>1 DEF vars, PointsInv, TypeOK, OrdersFit, RequestsFit, OwnOrders, RequestFits,
     CheckoutFits, LedgerFits, Completed, Exists
<1>2. CASE Next
  <2>1. ASSUME NEW h \in Handlers,
               Checkout(h) \/ UpdateStatus(h) \/ Loyalty(h) \/ Abort(h)
        PROVE  PointsInv'
    <3>1. CASE Checkout(h)
      BY <3>1, BeginKeeps, TakeNumberKeeps, CheckoutKeeps, CommitKeeps DEF Checkout
    <3>2. CASE UpdateStatus(h)
      BY <3>2, BeginKeeps, WriteStatusKeeps DEF UpdateStatus
    <3>3. CASE Loyalty(h)
      BY <3>3, BeginKeeps, PostingKeeps DEF Loyalty
    <3>4. CASE Abort(h)
      BY <3>4, OnlyDone DEF Abort
    <3> QED
      BY <2>1, <3>1, <3>2, <3>3, <3>4
  <2> QED
    BY <1>2, <2>1, OutsideKeeps DEF Next
<1> QED
  BY <1>1, <1>2

-----------------------------------------------------------------------------
(* Accounts.  Whoever adjusts or accrues has locked the account, so the balance that he read *)
(* is still the balance when he writes; only a checkout may write one that it read before.    *)

Spent(c) == \E i \in DOMAIN ledger[c] : ledger[c][i].type = "SPEND"

\* A request that has the lock of an account.
Holding(q, c) ==
  /\ q.customer = c
  /\ \/ q.pc \in {"adjust", "accrue"}
     \/ q.pc \in {"stock", "take"} /\ q.points > 0

AccountsHeld ==
  \A g, h \in Handlers : \A c \in Customers :
    Holding(req[g], c) /\ Holding(req[h], c) => g = h

SeenIsBalance ==
  \A h \in Handlers :
    req[h].pc \in {"adjust", "accrue"} => req[h].seenBalance = balance[req[h].customer]

\* LockedWritersAgree, as a sum of entries that are given.
BalancesAgree == \A c \in Customers : ~Spent(c) => balance[c] = SumOf(ledger[c])

AccountsInv == AccountsHeld /\ SeenIsBalance /\ BalancesAgree

\* A step of one handler is a step of nobody else.
LEMMA OthersWait ==
  ASSUME PointsInv, NEW h \in Handlers,
         Checkout(h) \/ UpdateStatus(h) \/ Loyalty(h) \/ Abort(h)
  PROVE  \A g \in Handlers \ {h} : req'[g] = req[g]
<1>1. req \in [Handlers -> Request]
  BY DEF PointsInv, TypeOK
<1>2. CASE Checkout(h)
  BY <1>1, <1>2 DEF Checkout, BeginCheckout, TakeNumber, ReadBalance, SpendPoints, ReadStock,
     TakeStock, CommitCheckout, Begin, Goto, Finish
<1>3. CASE UpdateStatus(h)
  BY <1>1, <1>3 DEF UpdateStatus, ReadForStatus, WriteStatus, Begin, Finish
<1>4. CASE Loyalty(h)
  BY <1>1, <1>4 DEF Loyalty, LockForAdjust, LockForAccrual, PostAdjustment, PostAccrual, Begin,
     Finish
<1>5. CASE Abort(h)
  BY <1>1, <1>5 DEF Abort, Finish
<1> QED
  BY <1>2, <1>3, <1>4, <1>5

\* What a checkout under way does to its request: it ends, or goes on with what it has, locks
\* an account that was free, reads a stock, or takes what it has read.
LEMMA CheckoutMoves ==
  ASSUME PointsInv, NEW h \in Handlers,
         \/ ReadBalance(h) \/ SpendPoints(h)
         \/ \E p \in Products : ReadStock(h, p)
         \/ TakeStock(h)
  PROVE  LET q == req[h]
             r == req'[h]
         IN \/ r.pc = "idle" /\ r.done = {}
            \/ /\ q.pc \in InCheckout /\ r.pc \in InCheckout
               /\ r.customer = q.customer /\ r.points = q.points /\ r.day = q.day /\ r.lines = q.lines
               /\ r.pc \in {"stock", "take"} =>
                    q.pc \in {"stock", "take"} \/ ~AccountLocked(h, q.customer)
               /\ r.pc = "take" =>
                    r.product \in Products /\ r.after = stock[r.product] - r.lines[r.product]
               /\ \A p \in r.done :
                    \/ p \in q.done /\ r.taken[p] = q.taken[p]
                    \/ q.pc = "take" /\ q.product = p /\ r.taken[p] = q.after
<1> DEFINE q == req[h]
           r == req'[h]
<1>1. req \in [Handlers -> Request] /\ q \in Request
  BY DEF PointsInv, TypeOK
<1>2. CASE Finish(h)
  BY <1>1, <1>2, IdleFacts DEF Finish
<1>3. CASE ReadBalance(h) /\ ~Finish(h)
  <2>1. req' = [req EXCEPT ![h].pc = "spend", ![h].seenBalance = balance[q.customer]]
    BY <1>3 DEF ReadBalance
  <2>2. r = [q EXCEPT !.pc = "spend", !.seenBalance = balance[q.customer]]
    BY <1>1, <2>1
  <2>3. /\ r.pc = "spend" /\ r.customer = q.customer /\ r.points = q.points /\ r.day = q.day
        /\ r.lines = q.lines /\ r.done = q.done /\ r.taken = q.taken
    BY <1>1, <2>2 DEF Request
  <2> QED
    BY <1>3, <2>3 DEF ReadBalance, InCheckout
<1>4. CASE SpendPoints(h)
  <2>1. r = [q EXCEPT !.pc = "stock"]
    BY <1>1, <1>4 DEF SpendPoints, Goto
  <2>2. /\ r.pc = "stock" /\ r.customer = q.customer /\ r.points = q.points /\ r.day = q.day
        /\ r.lines = q.lines /\ r.done = q.done /\ r.taken = q.taken
    BY <1>1, <2>1 DEF Request
  <2> QED
    BY <1>4, <2>2 DEF SpendPoints, InCheckout
<1>5. CASE (\E p \in Products : ReadStock(h, p)) /\ ~Finish(h)
  <2>1. PICK p \in Products : ReadStock(h, p)
    BY <1>5
  <2>2. req' = [req EXCEPT ![h].pc = "take", ![h].product = p, ![h].after = stock[p] - q.lines[p]]
    BY <1>5, <2>1 DEF ReadStock
  <2>3. r = [q EXCEPT !.pc = "take", !.product = p, !.after = stock[p] - q.lines[p]]
    BY <1>1, <2>2
  <2>4. /\ r.pc = "take" /\ r.customer = q.customer /\ r.points = q.points /\ r.day = q.day
        /\ r.lines = q.lines /\ r.done = q.done /\ r.taken = q.taken
        /\ r.product = p /\ r.after = stock[p] - q.lines[p]
    BY <1>1, <2>3 DEF Request
  <2> QED
    BY <2>1, <2>4 DEF ReadStock, InCheckout
<1>6. CASE TakeStock(h)
  <2>1. q.pc = "take" /\ q.product \in Products
    BY <1>6 DEF TakeStock, PointsInv, RequestsFit, RequestFits, CheckoutFits, InCheckout
  <2>2. req' = [req EXCEPT ![h].pc = "stock", ![h].taken[q.product] = q.after,
                           ![h].done = q.done \cup {q.product}]
    BY <1>1, <1>6 DEF TakeStock
  <2>3. r = [q EXCEPT !.pc = "stock", !.taken[q.product] = q.after,
                      !.done = q.done \cup {q.product}]
    BY <1>1, <2>2
  <2>4. /\ r.pc = "stock" /\ r.customer = q.customer /\ r.points = q.points /\ r.day = q.day
        /\ r.lines = q.lines /\ r.done = q.done \cup {q.product}
        /\ r.taken = [q.taken EXCEPT ![q.product] = q.after]
    BY <1>1, <2>3 DEF Request
  <2>5. q.taken \in [Products -> Int] /\ q.done \subseteq Products
    BY <1>1 DEF Request
  <2>6. \A p \in r.done :
          \/ p \in q.done /\ r.taken[p] = q.taken[p]
          \/ q.pc = "take" /\ q.product = p /\ r.taken[p] = q.after
    BY <2>1, <2>4, <2>5
  <2>7. q.pc \in InCheckout /\ r.pc \in InCheckout /\ r.pc # "take" /\ q.pc \in {"stock", "take"}
    BY <2>1, <2>4 DEF InCheckout
  <2> HIDE DEF r, q
  <2> QED
    BY <2>4, <2>6, <2>7 DEF r, q
<1> QED
  BY <1>2, <1>3, <1>4, <1>5, <1>6

\* What taking a number does to it.
LEMMA NumberMoves ==
  ASSUME PointsInv, NEW h \in Handlers, NEW o \in Orders, NEW day \in Days, TakeNumber(h, o, day)
  PROVE  LET r == req'[h]
         IN /\ r.pc \in {"read_balance", "stock"} /\ r.done = {} /\ r.day = day
            /\ r.pc = "stock" => ~(r.points > 0)
            /\ ~SequenceLocked(h, day)
<1> DEFINE q == req[h]
           r == req'[h]
           pc == IF q.points > 0 THEN "read_balance" ELSE "stock"
<1>1. req \in [Handlers -> Request] /\ q \in Request /\ q.done = {}
  BY DEF PointsInv, TypeOK, RequestsFit, RequestFits, TakeNumber
<1>2. r = [q EXCEPT !.pc = pc, !.order = o, !.day = day, !.number = sequence[day] + 1]
  BY <1>1 DEF TakeNumber
<1>3. pc \in {"read_balance", "stock"} /\ (pc = "stock" => ~(q.points > 0))
  OBVIOUS
<1> HIDE DEF pc
<1>4. r.pc = pc /\ r.done = q.done /\ r.day = day /\ r.points = q.points
  BY <1>1, <1>2 DEF Request
<1> QED
  BY <1>1, <1>3, <1>4 DEF TakeNumber

\* And what other steps do to it: a request begins, without a lock or with that of an account
\* whose balance it has just read, or it ends.
LEMMA OtherMoves ==
  ASSUME PointsInv, NEW h \in Handlers
  PROVE  /\ \A c \in Customers, promo \in BOOLEAN : \A points \in 0 .. balance[c] :
              BeginCheckout(h, c, points, promo) => req'[h].pc = "number" /\ req'[h].done = {}
         /\ \A o \in Orders, next \in Requested :
              ReadForStatus(h, o, next) => req'[h].pc = "status" /\ req'[h].done = {}
         /\ (\/ \E c \in Customers, amount \in Corrections : LockForAdjust(h, c, amount)
             \/ \E o \in Orders : LockForAccrual(h, o))
            => /\ req'[h].pc \in {"adjust", "accrue"} /\ req'[h].done = {}
               /\ ~AccountLocked(h, req'[h].customer)
               /\ req'[h].seenBalance = balance[req'[h].customer]
         /\ Finish(h) => req'[h].pc = "idle" /\ req'[h].done = {}
<1>1. req \in [Handlers -> Request] /\ Idle \in Request /\ Idle.done = {} /\ Idle.pc = "idle"
  BY IdleFacts DEF PointsInv, TypeOK
<1>2. ASSUME NEW c \in Customers, NEW promo \in BOOLEAN, NEW points \in 0 .. balance[c],
             BeginCheckout(h, c, points, promo)
      PROVE  req'[h].pc = "number" /\ req'[h].done = {}
  <2>1. req'[h] = [Idle EXCEPT !.pc = "number", !.customer = c, !.lines = cart[c],
                               !.points = points, !.promo = promo, !.day = today]
    BY <1>1, <1>2 DEF BeginCheckout, Begin
  <2> QED
    BY <1>1, <2>1 DEF Request
<1>3. ASSUME NEW o \in Orders, NEW next \in Requested, ReadForStatus(h, o, next)
      PROVE  req'[h].pc = "status" /\ req'[h].done = {}
  <2>1. req'[h] = [Idle EXCEPT !.pc = "status", !.order = o, !.next = next,
                               !.seen = orders[o].status]
    BY <1>1, <1>3 DEF ReadForStatus, Begin
  <2> QED
    BY <1>1, <2>1 DEF Request
<1>4. ASSUME NEW c \in Customers, NEW amount \in Corrections, LockForAdjust(h, c, amount)
      PROVE  /\ req'[h].pc = "adjust" /\ req'[h].done = {} /\ ~AccountLocked(h, req'[h].customer)
             /\ req'[h].seenBalance = balance[req'[h].customer]
  <2>1. req'[h] = [Idle EXCEPT !.pc = "adjust", !.customer = c, !.amount = amount,
                               !.seenBalance = balance[c]]
    BY <1>1, <1>4 DEF LockForAdjust, Begin
  <2>2. /\ req'[h].pc = "adjust" /\ req'[h].done = {} /\ req'[h].customer = c
        /\ req'[h].seenBalance = balance[c]
    BY <1>1, <2>1 DEF Request
  <2> QED
    BY <1>4, <2>2 DEF LockForAdjust
<1>5. ASSUME NEW o \in Orders, LockForAccrual(h, o)
      PROVE  /\ req'[h].pc = "accrue" /\ req'[h].done = {} /\ ~AccountLocked(h, req'[h].customer)
             /\ req'[h].seenBalance = balance[req'[h].customer]
  <2> DEFINE c == orders[o].customer
  <2>1. req'[h] = [Idle EXCEPT !.pc = "accrue", !.customer = c, !.order = o, !.amount = Cashback,
                               !.seenBalance = balance[c]]
    BY <1>1, <1>5 DEF LockForAccrual, Begin
  <2>2. /\ req'[h].pc = "accrue" /\ req'[h].done = {} /\ req'[h].customer = c
        /\ req'[h].seenBalance = balance[c]
    BY <1>1, <2>1 DEF Request
  <2> QED
    BY <1>5, <2>2 DEF LockForAccrual
<1>6. ASSUME Finish(h) PROVE req'[h].pc = "idle" /\ req'[h].done = {}
  BY <1>1, <1>6 DEF Finish
<1> QED
  BY <1>2, <1>3, <1>4, <1>5, <1>6

\* A lock that is taken was free.
LEMMA HeldStep ==
  ASSUME AccountsHeld, NEW h \in Handlers, \A g \in Handlers \ {h} : req'[g] = req[g],
         \A c \in Customers : Holding(req'[h], c) => Holding(req[h], c) \/ ~AccountLocked(h, c)
  PROVE  AccountsHeld'
<1> SUFFICES ASSUME NEW f \in Handlers, NEW g \in Handlers, NEW c \in Customers,
                    Holding(req'[f], c), Holding(req'[g], c), f # g
             PROVE  FALSE
  BY DEF AccountsHeld, Holding
<1>1. \A e \in Handlers \ {h} : Holding(req[e], c) => AccountLocked(h, c)
  BY DEF AccountLocked, Holding
<1>2. CASE f = h
  <2>1. Holding(req[g], c) /\ (Holding(req[h], c) \/ ~AccountLocked(h, c))
    BY <1>2
  <2> QED
    BY <1>1, <1>2, <2>1 DEF AccountsHeld
<1>3. CASE g = h
  <2>1. Holding(req[f], c) /\ (Holding(req[h], c) \/ ~AccountLocked(h, c))
    BY <1>3
  <2> QED
    BY <1>1, <1>3, <2>1 DEF AccountsHeld
<1>4. CASE f # h /\ g # h
  BY <1>4 DEF AccountsHeld
<1> QED
  BY <1>2, <1>3, <1>4

\* While no ledger is written, requests alone matter.
LEMMA AccountsRest ==
  ASSUME SeenIsBalance, BalancesAgree, NEW h \in Handlers,
         \A g \in Handlers \ {h} : req'[g] = req[g], UNCHANGED <<balance, ledger>>,
         req'[h].pc \in {"adjust", "accrue"} => req'[h].seenBalance = balance[req'[h].customer]
  PROVE  SeenIsBalance' /\ BalancesAgree'
BY DEF SeenIsBalance, BalancesAgree, Spent

\* In the beginning the points of a customer are the one entry of his ledger.
LEMMA AccountsInit == Init => AccountsInv
<1> SUFFICES ASSUME Init PROVE AccountsInv
  OBVIOUS
<1>1. \A h \in Handlers : req[h].pc = "idle"
  BY IdleFacts DEF Init
<1>2. AccountsHeld /\ SeenIsBalance
  BY <1>1 DEF AccountsHeld, Holding, SeenIsBalance
<1>3. ASSUME NEW c \in Customers PROVE balance[c] = SumOf(ledger[c])
  <2> DEFINE e == [type |-> "ADJUSTMENT", order |-> NoRow, amount |-> InitialPoints[c]]
  <2>1. balance[c] = InitialPoints[c] /\ InitialPoints[c] \in Nat
    BY ConstantFacts DEF Init
  <2>2. ledger[c] = IF InitialPoints[c] = 0 THEN <<>> ELSE <<e>>
    BY DEF Init
  <2>3. <<>> \in Seq(Entry) /\ e \in Entry /\ e.amount = InitialPoints[c]
    BY <2>1 DEF Entry
  <2> HIDE DEF e
  <2>4. <<e>> = Append(<<>>, e)
    BY <2>3
  <2>5. SumOf(<<>>) = 0 /\ SumOf(Append(<<>>, e)) = SumOf(<<>>) + e.amount
    BY <2>3, SumFacts
  <2> QED
    BY <2>1, <2>2, <2>3, <2>4, <2>5
<1> QED
  BY <1>2, <1>3 DEF AccountsInv, BalancesAgree

\* An entry that is posted by whoever holds the account is in the balance too.
LEMMA PostAgrees ==
  ASSUME PointsInv, AccountsInv, NEW h \in Handlers, PostAdjustment(h) \/ PostAccrual(h),
         \A g \in Handlers \ {h} : req'[g] = req[g]
  PROVE  AccountsInv'
<1> DEFINE q == req[h]
           c == q.customer
<1>1. /\ c \in Customers /\ q.pc \in {"adjust", "accrue"} /\ q.amount \in Int
      /\ (q.pc = "accrue" => q.order \in Orders)
      /\ ledger \in [Customers -> Seq(Entry)] /\ balance \in [Customers -> Nat]
  BY RequestFacts DEF PointsInv, TypeOK, RequestsFit, RequestFits, PostAdjustment, PostAccrual
<1>2. req'[h].pc = "idle"
  BY OtherMoves DEF PostAdjustment, PostAccrual
<1>3. AccountsHeld'
  BY <1>2, HeldStep DEF AccountsInv, Holding
<1>4. CASE UNCHANGED <<balance, ledger>>
  BY <1>2, <1>3, <1>4, AccountsRest DEF AccountsInv
<1>5. ASSUME NEW type \in {"EARN", "ADJUSTMENT"}, NEW o \in Orders \cup {NoRow}, Post(h, type, o)
      PROVE  AccountsInv'
  <2> DEFINE e == [type |-> type, order |-> o, amount |-> q.amount]
  <2>1. e \in Entry /\ e.type = type /\ e.amount = q.amount
    BY <1>1 DEF Entry
  <2>2. /\ ledger' = [ledger EXCEPT ![c] = Append(ledger[c], e)]
        /\ balance' = [balance EXCEPT ![c] = q.seenBalance + q.amount]
    BY <1>1, <1>5 DEF Post
  <2>3. q.seenBalance = balance[c]
    BY <1>1 DEF AccountsInv, SeenIsBalance
  <2> HIDE DEF e
  <2>4. /\ ledger'[c] = Append(ledger[c], e) /\ balance'[c] = balance[c] + e.amount
        /\ \A d \in Customers \ {c} : ledger'[d] = ledger[d] /\ balance'[d] = balance[d]
    BY <1>1, <2>1, <2>2, <2>3
  <2>5. BalancesAgree'
    <3> SUFFICES ASSUME NEW d \in Customers, ~Spent(d)' PROVE balance'[d] = SumOf(ledger'[d])
      BY DEF BalancesAgree
    <3>1. CASE d = c
      <4>1. /\ DOMAIN ledger[c] \subseteq DOMAIN ledger'[c]
            /\ \A i \in DOMAIN ledger[c] : ledger'[c][i] = ledger[c][i]
        BY <1>1, <2>1, <2>4, AppendFacts
      <4>2. ~Spent(c)
        BY <3>1, <4>1 DEF Spent
      <4>3. balance[c] = SumOf(ledger[c])
        BY <1>1, <4>2 DEF AccountsInv, BalancesAgree
      <4>4. SumOf(Append(ledger[c], e)) = SumOf(ledger[c]) + e.amount
        BY <1>1, <2>1, SumFacts
      <4> QED
        BY <2>4, <3>1, <4>3, <4>4
    <3>2. CASE d # c
      BY <2>4, <3>2 DEF AccountsInv, BalancesAgree, Spent
    <3> QED
      BY <3>1, <3>2
  <2>6. SeenIsBalance'
    <3> SUFFICES ASSUME NEW g \in Handlers, req'[g].pc \in {"adjust", "accrue"}
                 PROVE  req'[g].seenBalance = balance'[req'[g].customer]
      BY DEF SeenIsBalance
    <3>1. g # h /\ req'[g] = req[g]
      BY <1>2
    <3>2. req[g].customer \in Customers
      BY <3>1 DEF PointsInv, RequestsFit, RequestFits
    <3>3. req[g].customer # c
      BY <1>1, <3>1 DEF AccountsInv, AccountsHeld, Holding
    <3> QED
      BY <2>4, <3>1, <3>2, <3>3 DEF AccountsInv, SeenIsBalance
  <2> QED
    BY <1>3, <2>5, <2>6 DEF AccountsInv
<1>6. CASE PostAdjustment(h)
  BY <1>5, <1>6 DEF PostAdjustment
<1>7. CASE PostAccrual(h)
  BY <1>1, <1>4, <1>5, <1>7 DEF PostAccrual
<1> QED
  BY <1>6, <1>7

\* A checkout that has spent points leaves the customer out of LockedWritersAgree, and holds
\* his account when it does.
LEMMA CommitAgrees ==
  ASSUME PointsInv, AccountsInv, NEW h \in Handlers, CommitCheckout(h),
         \A g \in Handlers \ {h} : req'[g] = req[g]
  PROVE  AccountsInv'
<1> DEFINE q == req[h]
           c == q.customer
<1>1. /\ c \in Customers /\ q.order \in Orders /\ q.pc = "stock" /\ q.points \in Nat
      /\ ledger \in [Customers -> Seq(Entry)] /\ balance \in [Customers -> Nat]
  BY RequestFacts DEF PointsInv, TypeOK, RequestsFit, RequestFits, CheckoutFits, CommitCheckout,
     InCheckout
<1>2. req'[h].pc = "idle"
  BY OtherMoves DEF CommitCheckout
<1>3. AccountsHeld'
  BY <1>2, HeldStep DEF AccountsInv, Holding
<1>4. CASE ~(q.points > 0)
  BY <1>2, <1>3, <1>4, AccountsRest DEF AccountsInv, CommitCheckout
<1>5. CASE q.points > 0
  <2> DEFINE e == [type |-> "SPEND", order |-> q.order, amount |-> -q.points]
  <2>1. e \in Entry /\ e.type = "SPEND"
    BY <1>1 DEF Entry
  <2>2. /\ ledger' = [ledger EXCEPT ![c] = Append(ledger[c], e)]
        /\ balance' = [balance EXCEPT ![c] = q.seenBalance - q.points]
    BY <1>1, <1>5 DEF CommitCheckout
  <2> HIDE DEF e
  <2>3. /\ ledger'[c] = Append(ledger[c], e)
        /\ \A d \in Customers \ {c} : ledger'[d] = ledger[d] /\ balance'[d] = balance[d]
    BY <1>1, <2>1, <2>2
  <2>4. \E i \in DOMAIN ledger'[c] : ledger'[c][i].type = "SPEND"
    <3>1. \E i \in DOMAIN ledger'[c] : ledger'[c][i] = e
      BY <1>1, <2>1, <2>3, AppendFacts
    <3> QED
      BY <2>1, <3>1
  <2>5. BalancesAgree'
    <3> SUFFICES ASSUME NEW d \in Customers, ~Spent(d)' PROVE balance'[d] = SumOf(ledger'[d])
      BY DEF BalancesAgree
    <3>1. d # c
      BY <2>4 DEF Spent
    <3> QED
      BY <2>3, <3>1 DEF AccountsInv, BalancesAgree, Spent
  <2>6. SeenIsBalance'
    <3> SUFFICES ASSUME NEW g \in Handlers, req'[g].pc \in {"adjust", "accrue"}
                 PROVE  req'[g].seenBalance = balance'[req'[g].customer]
      BY DEF SeenIsBalance
    <3>1. g # h /\ req'[g] = req[g]
      BY <1>2
    <3>2. req[g].customer \in Customers
      BY <3>1 DEF PointsInv, RequestsFit, RequestFits
    <3>3. req[g].customer # c
      BY <1>1, <1>5, <3>1 DEF AccountsInv, AccountsHeld, Holding
    <3> QED
      BY <2>3, <3>1, <3>2, <3>3 DEF AccountsInv, SeenIsBalance
  <2> QED
    BY <1>3, <2>5, <2>6 DEF AccountsInv
<1> QED
  BY <1>4, <1>5

\* Every step keeps it.
LEMMA AccountsNext ==
  ASSUME PointsInv, AccountsInv, [Next]_vars
  PROVE  AccountsInv'
<1>1. CASE UNCHANGED <<balance, ledger, req>>
  BY <1>1 DEF AccountsInv, AccountsHeld, SeenIsBalance, BalancesAgree, Spent, Holding
<1>2. ASSUME NEW h \in Handlers,
             Checkout(h) \/ UpdateStatus(h) \/ Loyalty(h) \/ Abort(h)
      PROVE  AccountsInv'
  <2>1. \A g \in Handlers \ {h} : req'[g] = req[g]
    BY <1>2, OthersWait
  <2>2. ASSUME UNCHANGED <<balance, ledger>>,
               \A c \in Customers : Holding(req'[h], c) => Holding(req[h], c) \/ ~AccountLocked(h, c),
               req'[h].pc \in {"adjust", "accrue"} => req'[h].seenBalance = balance[req'[h].customer]
        PROVE  AccountsInv'
    BY <2>1, <2>2, HeldStep, AccountsRest DEF AccountsInv
  <2>3. CASE \E c \in Customers, promo \in BOOLEAN :
               \E points \in 0 .. balance[c] : BeginCheckout(h, c, points, promo)
    <3>1. req'[h].pc = "number" /\ UNCHANGED <<balance, ledger>>
      BY <2>3, OtherMoves DEF BeginCheckout
    <3> QED
      BY <2>2, <3>1 DEF Holding
  <2>4. CASE \E o \in Orders, next \in Requested : ReadForStatus(h, o, next)
    <3>1. req'[h].pc = "status" /\ UNCHANGED <<balance, ledger>>
      BY <2>4, OtherMoves DEF ReadForStatus
    <3> QED
      BY <2>2, <3>1 DEF Holding
  <2>5. CASE \E o \in Orders, day \in Days : TakeNumber(h, o, day)
    <3>1. /\ req'[h].pc \in {"read_balance", "stock"}
          /\ req'[h].pc = "stock" => ~(req'[h].points > 0)
          /\ UNCHANGED <<balance, ledger>>
      BY <2>5, NumberMoves DEF TakeNumber
    <3> QED
      BY <2>2, <3>1 DEF Holding
  <2>6. CASE \/ ReadBalance(h) \/ SpendPoints(h)
             \/ \E p \in Products : ReadStock(h, p)
             \/ TakeStock(h)
    <3> DEFINE q == req[h]
               r == req'[h]
    <3>1. UNCHANGED <<balance, ledger>>
      BY <2>6 DEF ReadBalance, SpendPoints, ReadStock, TakeStock
    <3>2. \/ r.pc = "idle"
          \/ /\ r.pc \in InCheckout /\ r.customer = q.customer /\ r.points = q.points
             /\ r.pc \in {"stock", "take"} =>
                  q.pc \in {"stock", "take"} \/ ~AccountLocked(h, q.customer)
      BY <2>6, CheckoutMoves
    <3> HIDE DEF q, r
    <3>3. \A c \in Customers : Holding(r, c) => Holding(q, c) \/ ~AccountLocked(h, c)
      BY <3>2 DEF Holding, InCheckout
    <3>4. r.pc \notin {"adjust", "accrue"}
      BY <3>2 DEF InCheckout
    <3> QED
      BY <2>2, <3>1, <3>3, <3>4 DEF q, r
  <2>7. CASE CommitCheckout(h)
    BY <2>1, <2>7, CommitAgrees
  <2>8. CASE WriteStatus(h) \/ Abort(h)
    <3>1. req'[h].pc = "idle" /\ UNCHANGED <<balance, ledger>>
      BY <2>8, OtherMoves DEF WriteStatus, Abort
    <3> QED
      BY <2>2, <3>1 DEF Holding
  <2>9. CASE \/ \E c \in Customers, amount \in Corrections : LockForAdjust(h, c, amount)
             \/ \E o \in Orders : LockForAccrual(h, o)
    <3>1. /\ ~AccountLocked(h, req'[h].customer)
          /\ req'[h].seenBalance = balance[req'[h].customer]
          /\ UNCHANGED <<balance, ledger>>
      BY <2>9, OtherMoves DEF LockForAdjust, LockForAccrual
    <3> QED
      BY <2>2, <3>1 DEF Holding
  <2>10. CASE PostAdjustment(h) \/ PostAccrual(h)
    BY <2>1, <2>10, PostAgrees
  <2> QED
    BY <1>2, <2>3, <2>4, <2>5, <2>6, <2>7, <2>8, <2>9, <2>10 DEF Checkout, UpdateStatus, Loyalty
<1> QED
  BY <1>1, <1>2 DEF Next, vars, Midnight, EditProduct, AddItem, UpdateItem, ClearCart

-----------------------------------------------------------------------------
(* Stock.  A checkout reads a stock without a lock and writes what is left of it.  What it     *)
(* has read may only have grown meanwhile: other checkouts of the day wait for its number,     *)
(* and a cancellation adds.                                                                    *)

\* TimesSet and Sold for any histories and rows.
Times(changes, status) == Cardinality({ i \in DOMAIN changes : changes[i].to = status })

Selling(rows, changes) ==
  { o \in Orders : rows[o].status # NoRow /\ Times(changes[o], "CANCELLED") = 0 }

CancelledOnce == \A o \in Orders : Times(history[o], "CANCELLED") <= 1

OneDay(rows, day) == \A o \in Orders : rows[o].status # NoRow => rows[o].day = day

SameDay == \A o1, o2 \in Orders : Exists(o1) /\ Exists(o2) => orders[o1].day = orders[o2].day

\* The row of the day's sequence has one holder.
NumbersHeld ==
  \A g, h \in Handlers :
    req[g].pc \in InCheckout /\ req[h].pc \in InCheckout /\ req[g].day = req[h].day => g = h

\* What a checkout leaves of a product, with what it takes of it, is still there, until there
\* is an order of another day.
ReadsHold ==
  \A h \in Handlers :
    req[h].pc \in InCheckout /\ OneDay(orders, req[h].day) =>
    \A p \in Products \ edited :
      /\ req[h].pc = "take" /\ req[h].product = p => req[h].after + req[h].lines[p] <= stock[p]
      /\ p \in req[h].done => req[h].taken[p] + req[h].lines[p] <= stock[p]

FewOrders == IsFiniteSet({ o \in Orders : Exists(o) })

\* ReservedStock, as a sum of rows that are given.
StockCovers ==
  CancelledOnce /\ SameDay =>
    \A p \in Products \ edited :
      stock[p] + SoldOf(orders, Selling(orders, history), p) <= InitialStock[p]

GoodsInv == NumbersHeld /\ ReadsHold /\ FewOrders /\ StockCovers

\* How often a status was set, entry by entry.
LEMMA TimesFacts ==
  ASSUME NEW s \in Seq(StatusChange), NEW status
  PROVE  /\ Times(s, status) \in Nat
         /\ s = <<>> => Times(s, status) = 0
         /\ \A e \in StatusChange :
              Times(Append(s, e), status) = IF e.to = status THEN Times(s, status) + 1
                                            ELSE Times(s, status)
<1> DEFINE T == { i \in DOMAIN s : s[i].to = status }
<1>1. IsFiniteSet(T)
  <2>1. DOMAIN s = 1 .. Len(s) /\ Len(s) \in Nat
    OBVIOUS
  <2>2. IsFiniteSet(DOMAIN s)
    BY <2>1, FS_Interval
  <2> QED
    BY <2>2, FS_Subset
<1>2. Times(s, status) = Cardinality(T)
  BY DEF Times
<1>3. Cardinality(T) \in Nat /\ (T = {} => Cardinality(T) = 0)
  BY <1>1, FS_CardinalityType, FS_EmptySet
<1>4. s = <<>> => T = {}
  OBVIOUS
<1>5. ASSUME NEW e \in StatusChange
      PROVE  Times(Append(s, e), status) = IF e.to = status THEN Times(s, status) + 1
                                           ELSE Times(s, status)
  <2> DEFINE more == Append(s, e)
             n == Len(s) + 1
             U == { i \in DOMAIN more : more[i].to = status }
  <2>1. /\ DOMAIN more = DOMAIN s \cup {n} /\ n \notin DOMAIN s
        /\ \A i \in DOMAIN s : more[i] = s[i]
        /\ more[n] = e
    BY AppendFacts
  <2>2. Times(more, status) = Cardinality(U)
    BY DEF Times
  <2> HIDE DEF more, n
  <2>3. CASE e.to = status
    <3>1. U = T \cup {n} /\ n \notin T
      BY <2>1, <2>3
    <3>2. Cardinality(T \cup {n}) = Cardinality(T) + 1
      BY <1>1, <3>1, FS_AddElement
    <3> QED
      BY <1>2, <2>2, <2>3, <3>1, <3>2 DEF more
  <2>4. CASE e.to # status
    <3>1. U = T
      BY <2>1, <2>4
    <3> QED
      BY <1>2, <2>2, <2>4, <3>1 DEF more
  <2> QED
    BY <2>3, <2>4
<1> QED
  BY <1>2, <1>3, <1>4, <1>5

\* The orders that count are finitely many, with units that are numbers.
LEMMA SellingFacts ==
  ASSUME PointsInv, FewOrders
  PROVE  /\ IsFiniteSet(Selling(orders, history))
         /\ Selling(orders, history) \subseteq Orders
         /\ \A o \in Orders, p \in Products : orders[o].lines[p] \in Nat
         /\ \A p \in Products : SoldOf(orders, Selling(orders, history), p) \in Int
<1>1. IsFiniteSet(Selling(orders, history)) /\ Selling(orders, history) \subseteq Orders
  <2>1. Selling(orders, history) \subseteq { o \in Orders : Exists(o) }
    BY DEF Selling, Exists
  <2> QED
    BY <2>1, FS_Subset DEF FewOrders, Selling
<1>2. ASSUME NEW o \in Orders, NEW p \in Products PROVE orders[o].lines[p] \in Nat
  BY DEF PointsInv, TypeOK, OrderRow, Lines
<1>3. ASSUME NEW p \in Products PROVE SoldOf(orders, Selling(orders, history), p) \in Int
  <2>1. \A o \in Selling(orders, history) : orders[o].lines[p] \in Int
    BY <1>1, <1>2
  <2> QED
    BY <1>1, <2>1, SoldFacts
<1> QED
  BY <1>1, <1>2, <1>3

\* In the beginning nothing is sold.
LEMMA GoodsInit == Init => GoodsInv
<1> SUFFICES ASSUME Init PROVE GoodsInv
  OBVIOUS
<1>1. \A h \in Handlers : req[h].pc = "idle"
  BY IdleFacts DEF Init
<1>2. NumbersHeld /\ ReadsHold
  BY <1>1 DEF NumbersHeld, ReadsHold, InCheckout
<1>3. \A o \in Orders : orders[o].status = NoRow
  BY DEF Init
<1>4. { o \in Orders : Exists(o) } = {} /\ Selling(orders, history) = {}
  BY <1>3 DEF Exists, Selling
<1>5. FewOrders
  BY <1>4, FS_EmptySet DEF FewOrders
<1>6. ASSUME NEW p \in Products
      PROVE  stock[p] + SoldOf(orders, Selling(orders, history), p) <= InitialStock[p]
  <2>1. stock[p] = InitialStock[p] /\ InitialStock[p] \in Nat
    BY ConstantFacts DEF Init
  <2>2. \A o \in {} : orders[o].lines[p] \in Int
    OBVIOUS
  <2>3. SoldOf(orders, {}, p) = 0
    BY <2>2, FS_EmptySet, SoldFacts
  <2> QED
    BY <1>4, <2>1, <2>3
<1> QED
  BY <1>2, <1>5, <1>6 DEF GoodsInv, StockCovers

\* Orders and histories that stay, with a stock that changes only where it was edited, count
\* as before.
LEMMA CoverRests ==
  ASSUME FewOrders, StockCovers, UNCHANGED <<orders, history>>, edited \subseteq edited',
         \A p \in Products \ edited' : stock'[p] = stock[p]
  PROVE  FewOrders' /\ StockCovers'
<1>1. FewOrders'
  BY DEF FewOrders, Exists
<1>2. CancelledOnce' => CancelledOnce
  BY DEF CancelledOnce
<1>3. SameDay' => SameDay
  BY DEF SameDay, Exists
<1>4. \A p \in Products \ edited' : p \in Products \ edited
  OBVIOUS
<1>5. StockCovers'
  <2> SUFFICES ASSUME CancelledOnce', SameDay', NEW p \in Products \ edited'
               PROVE  stock'[p] + SoldOf(orders', Selling(orders', history'), p) <= InitialStock[p]
    BY DEF StockCovers
  <2>1. stock[p] + SoldOf(orders, Selling(orders, history), p) <= InitialStock[p]
    BY <1>2, <1>3, <1>4 DEF StockCovers
  <2>2. orders' = orders /\ history' = history /\ stock'[p] = stock[p]
    OBVIOUS
  <2> QED
    BY <2>1, <2>2
<1> QED
  BY <1>1, <1>5

\* What other handlers have read holds while stocks of products that nobody edited only grow.
LEMMA ReadsRest ==
  ASSUME PointsInv, ReadsHold, NEW g \in Handlers, req'[g] = req[g],
         req'[g].pc \in InCheckout, OneDay(orders', req'[g].day),
         \A day : OneDay(orders', day) => OneDay(orders, day),
         edited \subseteq edited',
         \A p \in Products \ edited' : stock'[p] \in Int /\ stock[p] <= stock'[p],
         NEW p \in Products \ edited'
  PROVE  /\ req'[g].pc = "take" /\ req'[g].product = p
              => req'[g].after + req'[g].lines[p] <= stock'[p]
         /\ p \in req'[g].done => req'[g].taken[p] + req'[g].lines[p] <= stock'[p]
<1> DEFINE q == req[g]
<1>1. OneDay(orders, q.day)
  OBVIOUS
<1>2. /\ q.pc = "take" /\ q.product = p => q.after + q.lines[p] <= stock[p]
      /\ p \in q.done => q.taken[p] + q.lines[p] <= stock[p]
  BY <1>1 DEF ReadsHold
<1>3. /\ q.after \in Int /\ q.lines[p] \in Nat /\ q.taken[p] \in Int /\ stock[p] \in Nat
      /\ stock'[p] \in Int /\ stock[p] <= stock'[p]
  BY RequestFacts DEF PointsInv, TypeOK, Lines
<1> QED
  BY <1>2, <1>3

\* A step of requests alone: whoever is in a checkout now either has just taken a free number
\* and nothing else, or goes on with his own.
LEMMA GoodsRequestStep ==
  ASSUME PointsInv, GoodsInv, NEW h \in Handlers, \A g \in Handlers \ {h} : req'[g] = req[g],
         UNCHANGED <<orders, history, stock, edited>>,
         LET q == req[h]
             r == req'[h]
         IN \/ r.pc \notin InCheckout
            \/ /\ r.pc \in {"read_balance", "stock"} /\ r.done = {}
               /\ ~SequenceLocked(h, r.day)
            \/ /\ q.pc \in InCheckout /\ r.day = q.day /\ r.lines = q.lines
               /\ r.pc = "take" =>
                    r.product \in Products /\ r.after = stock[r.product] - r.lines[r.product]
               /\ \A p \in r.done :
                    \/ p \in q.done /\ r.taken[p] = q.taken[p]
                    \/ q.pc = "take" /\ q.product = p /\ r.taken[p] = q.after
  PROVE  GoodsInv'
<1>1. FewOrders' /\ StockCovers'
  BY CoverRests DEF GoodsInv
<1>2. \A g \in Handlers \ {h} : req[g].pc \in InCheckout => SequenceLocked(h, req[g].day)
  BY DEF SequenceLocked
<1>3. req'[h].pc \in InCheckout =>
        \A g \in Handlers \ {h} : req[g].pc \in InCheckout => req[g].day # req'[h].day
  BY <1>2 DEF GoodsInv, NumbersHeld
<1>4. NumbersHeld'
  BY <1>3 DEF GoodsInv, NumbersHeld
<1>5. ReadsHold'
  <2> SUFFICES ASSUME NEW g \in Handlers, req'[g].pc \in InCheckout, OneDay(orders', req'[g].day),
                      NEW p \in Products \ edited'
               PROVE  /\ req'[g].pc = "take" /\ req'[g].product = p
                           => req'[g].after + req'[g].lines[p] <= stock'[p]
                      /\ p \in req'[g].done => req'[g].taken[p] + req'[g].lines[p] <= stock'[p]
    BY DEF ReadsHold
  <2>1. stock \in [Products -> Nat]
    BY DEF PointsInv, TypeOK
  <2>2. CASE g # h
    BY <2>1, <2>2, ReadsRest DEF GoodsInv
  <2>3. CASE g = h
    <3> DEFINE q == req[h]
               r == req'[h]
    <3>1. q.lines \in Lines /\ stock[p] \in Nat
      BY <2>1, RequestFacts DEF PointsInv
    <3>2. CASE r.pc \in {"read_balance", "stock"} /\ r.done = {}
      BY <2>3, <3>2
    <3>3. CASE /\ q.pc \in InCheckout /\ r.day = q.day /\ r.lines = q.lines
               /\ r.pc = "take" =>
                    r.product \in Products /\ r.after = stock[r.product] - r.lines[r.product]
               /\ \A x \in r.done :
                    \/ x \in q.done /\ r.taken[x] = q.taken[x]
                    \/ q.pc = "take" /\ q.product = x /\ r.taken[x] = q.after
      <4>1. OneDay(orders, q.day) /\ p \in Products \ edited
        BY <2>3, <3>3
      <4>2. /\ q.pc = "take" /\ q.product = p => q.after + q.lines[p] <= stock[p]
            /\ p \in q.done => q.taken[p] + q.lines[p] <= stock[p]
        BY <3>3, <4>1 DEF GoodsInv, ReadsHold
      <4>3. q.lines[p] \in Nat
        BY <3>1 DEF Lines
      <4> HIDE DEF q, r
      <4>4. r.pc = "take" /\ r.product = p => r.after + r.lines[p] <= stock[p]
        BY <3>1, <3>3, <4>3
      <4>5. p \in r.done => r.taken[p] + r.lines[p] <= stock[p]
        BY <3>3, <4>2
      <4> QED
        BY <2>3, <4>4, <4>5 DEF r
    <3> QED
      BY <2>3, <3>2, <3>3
  <2> QED
    BY <2>2, <2>3
<1> QED
  BY <1>1, <1>4, <1>5 DEF GoodsInv

\* A commit: what the checkout wrote of a stock is at most what is there less what it took, and
\* a checkout of another day has lost its condition.
LEMMA GoodsCommit ==
  ASSUME PointsInv, GoodsInv, NEW h \in Handlers, CommitCheckout(h),
         \A g \in Handlers \ {h} : req'[g] = req[g]
  PROVE  GoodsInv'
<1> DEFINE q == req[h]
           row == [status |-> "NEW", customer |-> q.customer, day |-> q.day, number |-> q.number,
                   lines |-> q.lines, promo |-> q.promo]
           new == [from |-> NoRow, to |-> "NEW"]
           D == Selling(orders, history)
<1>1. /\ q.pc = "stock" /\ q.done = Ordered(q.lines) /\ UNCHANGED edited
      /\ q.order \in Orders /\ ~Exists(q.order) /\ q.lines \in Lines /\ TypeOK
  BY RequestFacts DEF CommitCheckout, PointsInv, RequestsFit, RequestFits, CheckoutFits, InCheckout
<1>2. PICK o \in Orders : o = q.order
  BY <1>1
<1>3. PICK lines \in Lines : lines = q.lines
  BY <1>1
<1>4. PICK day : day = q.day
  OBVIOUS
<1>5. /\ orders' = [orders EXCEPT ![o] = row] /\ history' = [history EXCEPT ![o] = <<new>>]
      /\ stock' = [p \in Products |-> IF p \in q.done THEN q.taken[p] ELSE stock[p]]
  BY <1>2 DEF CommitCheckout
<1>6. row.status # NoRow /\ row.day = day /\ row.lines = lines
  BY <1>3, <1>4 DEF NoRow
<1>7. new \in StatusChange /\ new.to # "CANCELLED"
  BY DEF StatusChange, OrderStatuses
<1> HIDE DEF row, new
<1>8. /\ orders'[o].status # NoRow /\ orders'[o].day = day /\ orders'[o].lines = lines
      /\ history'[o] = <<new>> /\ orders[o].status = NoRow
      /\ \A x \in Orders \ {o} : orders'[x] = orders[x] /\ history'[x] = history[x]
  BY <1>1, <1>2, <1>5, <1>6 DEF TypeOK, Exists
<1>9. Times(<<new>>, "CANCELLED") = 0
  <2> DEFINE none == <<>>
  <2>0. none \in Seq(StatusChange)
    OBVIOUS
  <2>1. PICK s \in Seq(StatusChange) : s = none
    BY <2>0
  <2>2. Append(s, new) = <<new>>
    BY <1>7, <2>1
  <2>3. Times(s, "CANCELLED") = 0 /\ Times(Append(s, new), "CANCELLED") = Times(s, "CANCELLED")
    BY <1>7, <2>1, TimesFacts
  <2> QED
    BY <2>2, <2>3
<1>10. req'[h].pc = "idle"
  BY OtherMoves DEF CommitCheckout
<1>11. NumbersHeld'
  BY <1>10 DEF GoodsInv, NumbersHeld, InCheckout
<1>12. ReadsHold'
  <2> SUFFICES ASSUME NEW g \in Handlers, req'[g].pc \in InCheckout, OneDay(orders', req'[g].day)
               PROVE  FALSE
    BY DEF ReadsHold
  <2>1. g # h /\ req'[g] = req[g]
    BY <1>10 DEF InCheckout
  <2>2. req[g].day # day
    BY <1>1, <1>4, <2>1 DEF GoodsInv, NumbersHeld, InCheckout
  <2> QED
    BY <1>8, <2>1, <2>2 DEF OneDay
<1>13. FewOrders'
  <2>1. { x \in Orders : orders'[x].status # NoRow } = { x \in Orders : Exists(x) } \cup {o}
    BY <1>8 DEF Exists
  <2>2. IsFiniteSet({ x \in Orders : Exists(x) } \cup {o})
    BY FS_AddElement DEF GoodsInv, FewOrders
  <2> QED
    BY <2>1, <2>2 DEF FewOrders, Exists
<1>14. StockCovers'
  <2> SUFFICES ASSUME CancelledOnce', SameDay', NEW p \in Products \ edited
               PROVE  stock'[p] + SoldOf(orders', Selling(orders', history'), p) <= InitialStock[p]
    BY <1>1 DEF StockCovers
  <2>1. CancelledOnce
    <3> SUFFICES ASSUME NEW x \in Orders PROVE Times(history[x], "CANCELLED") <= 1
      BY DEF CancelledOnce
    <3>1. CASE x = o
      <4>1. history[x] = <<>> /\ history[x] \in Seq(StatusChange)
        BY <1>1, <1>2, <3>1 DEF PointsInv, OrdersFit, TypeOK
      <4>2. Times(history[x], "CANCELLED") = 0
        BY <4>1, TimesFacts
      <4> QED
        BY <4>2
    <3>2. CASE x # o
      BY <1>8, <3>2 DEF CancelledOnce
    <3> QED
      BY <3>1, <3>2
  <2>2. SameDay /\ OneDay(orders, day)
    BY <1>8 DEF SameDay, OneDay, Exists
  <2>3. stock[p] + SoldOf(orders, D, p) <= InitialStock[p]
    BY <2>1, <2>2 DEF GoodsInv, StockCovers
  <2>4. Selling(orders', history') = D \cup {o} /\ o \notin D
    BY <1>8, <1>9 DEF Selling
  <2>5. /\ IsFiniteSet(D) /\ D \subseteq Orders /\ SoldOf(orders, D, p) \in Int
        /\ \A x \in Orders : orders[x].lines[p] \in Nat
    BY SellingFacts DEF GoodsInv
  <2>6. lines[p] \in Nat /\ stock[p] \in Nat /\ q.taken[p] \in Int
    BY <1>1, RequestFacts DEF Lines, TypeOK
  <2> HIDE DEF D
  <2>7. PICK rows : rows = orders'
    OBVIOUS
  <2>8. SoldOf(rows, D \cup {o}, p) = lines[p] + SoldOf(rows, D, p)
    <3>1. PICK more : more = D \cup {o}
      OBVIOUS
    <3>2. IsFiniteSet(more)
      BY <2>5, <3>1, FS_AddElement
    <3>3. o \in more /\ more \ {o} = D
      BY <2>4, <3>1
    <3>4. \A x \in more : rows[x].lines[p] \in Int
      BY <1>8, <2>5, <2>6, <2>7, <3>1
    <3>5. o \in more
      BY <3>3
    <3>6. SoldOf(rows, more, p) = rows[o].lines[p] + SoldOf(rows, more \ {o}, p)
      BY <3>2, <3>4, <3>5, SoldSplits
    <3> QED
      BY <1>8, <2>7, <3>1, <3>3, <3>6
  <2>9. SoldOf(rows, D, p) = SoldOf(orders, D, p)
    <3>1. \A x \in D : rows[x].lines[p] = orders[x].lines[p]
      BY <1>8, <2>4, <2>5, <2>7
    <3>2. \A x \in D : orders[x].lines[p] \in Int
      BY <2>5
    <3> QED
      BY <2>5, <3>1, <3>2, SoldFacts
  <2>10. stock'[p] + lines[p] <= stock[p]
    <3>1. CASE p \in q.done
      <4>1. q.taken[p] + lines[p] <= stock[p]
        BY <1>1, <1>3, <1>4, <2>2, <3>1 DEF GoodsInv, ReadsHold, InCheckout
      <4> QED
        BY <1>5, <3>1, <4>1
    <3>2. CASE p \notin q.done
      <4>1. ~(lines[p] > 0)
        BY <1>1, <1>3, <3>2 DEF Ordered
      <4> QED
        BY <1>5, <2>6, <3>2, <4>1
    <3> QED
      BY <3>1, <3>2
  <2>11. stock'[p] \in Int /\ InitialStock[p] \in Nat
    BY <1>5, <2>6, ConstantFacts
  <2>12. stock'[p] + (lines[p] + SoldOf(orders, D, p)) <= InitialStock[p]
    BY <2>3, <2>5, <2>6, <2>10, <2>11
  <2> QED
    BY <2>4, <2>7, <2>8, <2>9, <2>12
<1> QED
  BY <1>11, <1>12, <1>13, <1>14 DEF GoodsInv

\* A status: an order that is cancelled for the first time returns the goods that counted, and
\* no other status moves goods.
LEMMA GoodsStatus ==
  ASSUME PointsInv, GoodsInv, NEW h \in Handlers, WriteStatus(h),
         \A g \in Handlers \ {h} : req'[g] = req[g]
  PROVE  GoodsInv'
<1> DEFINE q == req[h]
           D == Selling(orders, history)
<1>1. /\ UNCHANGED edited /\ q.order \in Orders /\ Exists(q.order) /\ TypeOK
      /\ q.next \in OrderStatuses /\ q.seen \in OrderStatuses
  BY RequestFacts DEF WriteStatus, PointsInv, RequestsFit, RequestFits
<1>2. PICK o \in Orders : o = q.order
  BY <1>1
<1>3. PICK new : new = [from |-> q.seen, to |-> q.next]
  OBVIOUS
<1>4. new \in StatusChange /\ new.to = q.next /\ q.next # NoRow
  BY <1>1, <1>3 DEF StatusChange, OrderStatuses, NoRow
<1>5. /\ orders' = [orders EXCEPT ![o].status = q.next]
      /\ history' = [history EXCEPT ![o] = Append(history[o], new)]
  BY <1>1, <1>2, <1>3 DEF WriteStatus, TypeOK
<1>6. /\ orders'[o].status # NoRow /\ orders[o].status # NoRow
      /\ orders'[o].day = orders[o].day /\ orders'[o].lines = orders[o].lines
      /\ history'[o] = Append(history[o], new) /\ history[o] \in Seq(StatusChange)
      /\ \A x \in Orders \ {o} : orders'[x] = orders[x] /\ history'[x] = history[x]
  BY <1>1, <1>2, <1>4, <1>5 DEF TypeOK, OrderRow, Exists
<1>7. /\ \A x \in Orders : (orders'[x].status # NoRow) = (orders[x].status # NoRow)
      /\ \A x \in Orders : orders'[x].day = orders[x].day /\ orders'[x].lines = orders[x].lines
  BY <1>6
<1>8. Times(history'[o], "CANCELLED") = IF q.next = "CANCELLED" THEN Times(history[o], "CANCELLED") + 1
                                        ELSE Times(history[o], "CANCELLED")
  BY <1>4, <1>6, TimesFacts
<1>9. Times(history[o], "CANCELLED") \in Nat
  BY <1>6, TimesFacts
<1>10. /\ stock \in [Products -> Nat] /\ orders[o].lines \in Lines
       /\ \A p \in Products : orders[o].lines[p] \in Nat
  BY <1>1 DEF TypeOK, OrderRow, Lines
<1>11. /\ q.next = "CANCELLED" => \A p \in Products : stock'[p] = stock[p] + orders[o].lines[p]
       /\ q.next # "CANCELLED" => stock' = stock
  BY <1>2 DEF WriteStatus
<1>12. req'[h].pc = "idle"
  BY OtherMoves DEF WriteStatus
<1>13. NumbersHeld'
  BY <1>12 DEF GoodsInv, NumbersHeld, InCheckout
<1>14. ReadsHold'
  <2> SUFFICES ASSUME NEW g \in Handlers, req'[g].pc \in InCheckout, OneDay(orders', req'[g].day),
                      NEW p \in Products \ edited'
               PROVE  /\ req'[g].pc = "take" /\ req'[g].product = p
                           => req'[g].after + req'[g].lines[p] <= stock'[p]
                      /\ p \in req'[g].done => req'[g].taken[p] + req'[g].lines[p] <= stock'[p]
    BY DEF ReadsHold
  <2>1. req'[g] = req[g]
    BY <1>12 DEF InCheckout
  <2>2. \A day : OneDay(orders', day) => OneDay(orders, day)
    BY <1>7 DEF OneDay
  <2>3. \A x \in Products \ edited' : stock'[x] \in Int /\ stock[x] <= stock'[x]
    BY <1>10, <1>11
  <2>4. edited \subseteq edited'
    BY <1>1
  <2> QED
    BY <2>1, <2>2, <2>3, <2>4, ReadsRest DEF GoodsInv
<1>15. FewOrders'
  BY <1>7 DEF GoodsInv, FewOrders, Exists
<1>16. StockCovers'
  <2> SUFFICES ASSUME CancelledOnce', SameDay', NEW p \in Products \ edited
               PROVE  stock'[p] + SoldOf(orders', Selling(orders', history'), p) <= InitialStock[p]
    BY <1>1 DEF StockCovers
  <2>1. CancelledOnce
    <3> SUFFICES ASSUME NEW x \in Orders PROVE Times(history[x], "CANCELLED") <= 1
      BY DEF CancelledOnce
    <3>1. CASE x = o
      <4>1. Times(history'[o], "CANCELLED") <= 1
        BY DEF CancelledOnce
      <4> QED
        BY <1>8, <1>9, <3>1, <4>1
    <3>2. CASE x # o
      BY <1>6, <3>2 DEF CancelledOnce
    <3> QED
      BY <3>1, <3>2
  <2>2. SameDay
    BY <1>7 DEF SameDay, Exists
  <2>3. stock[p] + SoldOf(orders, D, p) <= InitialStock[p]
    BY <2>1, <2>2 DEF GoodsInv, StockCovers
  <2>4. /\ IsFiniteSet(D) /\ D \subseteq Orders /\ SoldOf(orders, D, p) \in Int
        /\ \A x \in Orders : orders[x].lines[p] \in Nat
    BY SellingFacts DEF GoodsInv
  <2>5. CASE q.next = "CANCELLED"
    <3>1. Times(history'[o], "CANCELLED") <= 1
      BY DEF CancelledOnce
    <3>2. Times(history[o], "CANCELLED") = 0
      BY <1>8, <1>9, <2>5, <3>1
    <3>3. o \in D
      BY <1>6, <3>2 DEF Selling
    <3>4. Selling(orders', history') = D \ {o}
      <4>1. Times(history'[o], "CANCELLED") = 1
        BY <1>8, <2>5, <3>2
      <4>2. Times(history'[o], "CANCELLED") # 0
        BY <4>1
      <4> QED
        BY <1>6, <1>7, <4>2 DEF Selling
    <3> HIDE DEF D
    <3>5. \A x \in D : orders[x].lines[p] \in Int
      BY <2>4
    <3>6. SoldOf(orders, D, p) = orders[o].lines[p] + SoldOf(orders, D \ {o}, p)
      <4>1. PICK rows, all : rows = orders /\ all = D
        OBVIOUS
      <4>2. IsFiniteSet(all)
        BY <2>4, <4>1
      <4>3. \A x \in all : rows[x].lines[p] \in Int
        BY <3>5, <4>1
      <4>4. o \in all
        BY <3>3, <4>1
      <4>5. SoldOf(rows, all, p) = rows[o].lines[p] + SoldOf(rows, all \ {o}, p)
        BY <4>2, <4>3, <4>4, SoldSplits
      <4> QED
        BY <4>1, <4>5
    <3>7. IsFiniteSet(D \ {o}) /\ \A x \in D \ {o} : orders[x].lines[p] \in Int
      BY <2>4, FS_Subset
    <3>8. \A x \in D \ {o} : orders'[x].lines[p] = orders[x].lines[p]
      BY <1>7, <2>4
    <3>9. /\ SoldOf(orders, D \ {o}, p) \in Int
          /\ SoldOf(orders', D \ {o}, p) = SoldOf(orders, D \ {o}, p)
      BY <3>7, <3>8, SoldFacts
    <3>10. stock'[p] = stock[p] + orders[o].lines[p]
      BY <1>11, <2>5
    <3>11. stock[p] \in Nat /\ orders[o].lines[p] \in Nat /\ InitialStock[p] \in Nat
      BY <1>10, ConstantFacts
    <3> QED
      BY <2>3, <3>4, <3>6, <3>9, <3>10, <3>11
  <2>6. CASE q.next # "CANCELLED"
    <3>1. Selling(orders', history') = D
      BY <1>6, <1>7, <1>8, <2>6 DEF Selling
    <3>2. stock' = stock
      BY <1>11, <2>6
    <3> HIDE DEF D
    <3>3. \A x \in D : orders[x].lines[p] \in Int /\ orders'[x].lines[p] = orders[x].lines[p]
      BY <1>7, <2>4
    <3>4. SoldOf(orders', D, p) = SoldOf(orders, D, p)
      BY <2>4, <3>3, SoldFacts
    <3> QED
      BY <2>3, <3>1, <3>2, <3>4
  <2> QED
    BY <2>5, <2>6
<1> QED
  BY <1>13, <1>14, <1>15, <1>16 DEF GoodsInv

\* A step that leaves orders and requests, and stocks but for products that are edited with it.
LEMMA GoodsOutside ==
  ASSUME PointsInv, GoodsInv, UNCHANGED <<orders, history, req>>, edited \subseteq edited',
         \A p \in Products \ edited' : stock'[p] = stock[p]
  PROVE  GoodsInv'
<1>1. FewOrders' /\ StockCovers'
  BY CoverRests DEF GoodsInv
<1>2. NumbersHeld'
  BY DEF GoodsInv, NumbersHeld
<1>3. \A p \in Products \ edited' : p \in Products \ edited
  OBVIOUS
<1>4. ReadsHold'
  BY <1>3 DEF GoodsInv, ReadsHold, OneDay
<1> QED
  BY <1>1, <1>2, <1>4 DEF GoodsInv

\* Every step keeps GoodsInv.
LEMMA GoodsNext ==
  ASSUME PointsInv, GoodsInv, [Next]_vars
  PROVE  GoodsInv'
<1>1. CASE UNCHANGED <<orders, history, stock, edited, req>>
  BY <1>1, GoodsOutside
<1>2. CASE \E p \in Products, count \in Counts : EditProduct(p, count)
  <2>1. PICK p \in Products, count \in Counts : EditProduct(p, count)
    BY <1>2
  <2>2. /\ edited' = edited \cup {p} /\ UNCHANGED <<orders, history, req>>
        /\ stock' = [stock EXCEPT ![p] = count]
    BY <2>1 DEF EditProduct
  <2>3. stock \in [Products -> Nat]
    BY DEF PointsInv, TypeOK
  <2>4. \A x \in Products \ edited' : stock'[x] = stock[x]
    BY <2>2, <2>3
  <2> QED
    BY <2>2, <2>4, GoodsOutside
<1>3. ASSUME NEW h \in Handlers,
             Checkout(h) \/ UpdateStatus(h) \/ Loyalty(h) \/ Abort(h)
      PROVE  GoodsInv'
  <2>1. \A g \in Handlers \ {h} : req'[g] = req[g]
    BY <1>3, OthersWait
  <2>2. ASSUME UNCHANGED <<orders, history, stock, edited>>, req'[h].pc \notin InCheckout
        PROVE  GoodsInv'
    BY <2>1, <2>2, GoodsRequestStep
  <2>3. CASE \E c \in Customers, promo \in BOOLEAN :
               \E points \in 0 .. balance[c] : BeginCheckout(h, c, points, promo)
    <3>1. req'[h].pc = "number" /\ UNCHANGED <<orders, history, stock, edited>>
      BY <2>3, OtherMoves DEF BeginCheckout
    <3> QED
      BY <2>2, <3>1 DEF InCheckout
  <2>4. CASE \E o \in Orders, next \in Requested : ReadForStatus(h, o, next)
    <3>1. req'[h].pc = "status" /\ UNCHANGED <<orders, history, stock, edited>>
      BY <2>4, OtherMoves DEF ReadForStatus
    <3> QED
      BY <2>2, <3>1 DEF InCheckout
  <2>5. CASE \E o \in Orders, day \in Days : TakeNumber(h, o, day)
    <3>1. /\ req'[h].pc \in {"read_balance", "stock"} /\ req'[h].done = {}
          /\ ~SequenceLocked(h, req'[h].day)
          /\ UNCHANGED <<orders, history, stock, edited>>
      BY <2>5, NumberMoves DEF TakeNumber
    <3> QED
      BY <2>1, <3>1, GoodsRequestStep
  <2>6. CASE \/ ReadBalance(h) \/ SpendPoints(h)
             \/ \E p \in Products : ReadStock(h, p)
             \/ TakeStock(h)
    <3> DEFINE q == req[h]
               r == req'[h]
    <3>1. UNCHANGED <<orders, history, stock, edited>>
      BY <2>6 DEF ReadBalance, SpendPoints, ReadStock, TakeStock
    <3>2. \/ r.pc = "idle"
          \/ /\ q.pc \in InCheckout /\ r.day = q.day /\ r.lines = q.lines
             /\ r.pc = "take" =>
                  r.product \in Products /\ r.after = stock[r.product] - r.lines[r.product]
             /\ \A p \in r.done :
                  \/ p \in q.done /\ r.taken[p] = q.taken[p]
                  \/ q.pc = "take" /\ q.product = p /\ r.taken[p] = q.after
      BY <2>6, CheckoutMoves
    <3>3. CASE r.pc = "idle"
      BY <2>2, <3>1, <3>3 DEF InCheckout
    <3>4. CASE r.pc # "idle"
      BY <2>1, <3>1, <3>2, <3>4, GoodsRequestStep
    <3> QED
      BY <3>3, <3>4
  <2>7. CASE CommitCheckout(h)
    BY <2>1, <2>7, GoodsCommit
  <2>8. CASE WriteStatus(h)
    BY <2>1, <2>8, GoodsStatus
  <2>9. CASE \/ \E c \in Customers, amount \in Corrections : LockForAdjust(h, c, amount)
             \/ \E o \in Orders : LockForAccrual(h, o)
    <3>1. req'[h].pc \in {"adjust", "accrue"} /\ UNCHANGED <<orders, history, stock, edited>>
      BY <2>9, OtherMoves DEF LockForAdjust, LockForAccrual
    <3> QED
      BY <2>2, <3>1 DEF InCheckout
  <2>10. CASE PostAdjustment(h) \/ PostAccrual(h) \/ Abort(h)
    <3>1. req'[h].pc = "idle" /\ UNCHANGED <<orders, history, stock, edited>>
      BY <2>10, OtherMoves DEF PostAdjustment, PostAccrual, Abort
    <3> QED
      BY <2>2, <3>1 DEF InCheckout
  <2> QED
    BY <1>3, <2>3, <2>4, <2>5, <2>6, <2>7, <2>8, <2>9, <2>10 DEF Checkout, UpdateStatus, Loyalty
<1> QED
  BY <1>1, <1>2, <1>3 DEF Next, vars, Midnight, AddItem, UpdateItem, ClearCart

-----------------------------------------------------------------------------
(* What an order costs.  Rounding down leaves a rest, of less than one unit for each weight  *)
(* that has a remainder; so there are as many to round up as the rest says, and the order in *)
(* which they are taken is a ranking in which each index has a rank of its own.               *)

\* The total of some of the weights.
LEMMA TotalOn ==
  ASSUME NEW D, IsFiniteSet(D), NEW w \in [D -> Int], NEW t \in SUBSET D
  PROVE  /\ Total(On(w, t)) \in Int
         /\ t = {} => Total(On(w, t)) = 0
         /\ \A x \in t : Total(On(w, t)) = w[x] + Total(On(w, t \ {x}))
<1> DEFINE v == On(w, t)
<1>1. v \in [t -> Int] /\ IsFiniteSet(t) /\ \A x \in t : v[x] = w[x]
  BY FS_Subset DEF On
<1>2. ASSUME NEW x \in t PROVE On(v, t \ {x}) = On(w, t \ {x})
  BY <1>1 DEF On
<1> HIDE DEF v
<1>3. Total(v) \in Int /\ (t = {} => Total(v) = 0)
  BY <1>1, TotalFacts
<1>4. ASSUME NEW x \in t PROVE Total(v) = w[x] + Total(On(w, t \ {x}))
  <2> DEFINE less(y) == v[y] + Total(On(v, t \ {y}))
  <2>1. \A y \in t : Total(v) = less(y)
    BY <1>1, TotalFacts
  <2> HIDE DEF less
  <2>2. Total(v) = less(x)
    BY <2>1
  <2> QED
    BY <1>1, <1>2, <2>2 DEF less
<1> QED
  BY <1>3, <1>4 DEF v

\* A linear combination of two functions.
IsLinear(D, c, u, v, w) == \A x \in D : w[x] = c * u[x] + v[x]

\* Totals are linear.
LEMMA TotalIsLinear ==
  ASSUME NEW D, IsFiniteSet(D), NEW u \in [D -> Int], NEW v \in [D -> Int], NEW w \in [D -> Int],
         NEW c \in Int, IsLinear(D, c, u, v, w)
  PROVE  Total(w) = c * Total(u) + Total(v)
<1> DEFINE T == { t \in SUBSET D : Total(On(w, t)) # c * Total(On(u, t)) + Total(On(v, t)) }
<1>1. On(w, D) = w /\ On(u, D) = u /\ On(v, D) = v
  BY DEF On
<1>2. SUFFICES ASSUME T # {} PROVE FALSE
  BY <1>1
<1>3. \E t \in T : \A s \in T : ~(s \subseteq t /\ s # t)
  <2>1. T \subseteq SUBSET D
    OBVIOUS
  <2> HIDE DEF T
  <2> QED
    BY <1>2, <2>1, SmallestOf
<1>4. PICK t \in T : \A s \in T : ~(s \subseteq t /\ s # t)
  BY <1>3
<1>5. t \in SUBSET D /\ Total(On(w, t)) # c * Total(On(u, t)) + Total(On(v, t))
  OBVIOUS
<1>6. t # {}
  <2>1. SUFFICES ASSUME t = {} PROVE FALSE
    OBVIOUS
  <2>2. Total(On(w, t)) = 0 /\ Total(On(u, t)) = 0 /\ Total(On(v, t)) = 0
    BY <1>5, <2>1, TotalOn
  <2> QED
    BY <1>5, <2>2
<1>7. PICK x \in t : TRUE
  BY <1>6
<1> DEFINE r == t \ {x}
           W == Total(On(w, r))
           U == Total(On(u, r))
           V == Total(On(v, r))
<1>8. r \in SUBSET D /\ r \notin T
  BY <1>4, <1>5, <1>7
<1>9. W = c * U + V
  BY <1>8
<1>10. Total(On(w, t)) = w[x] + W /\ Total(On(u, t)) = u[x] + U /\ Total(On(v, t)) = v[x] + V
  BY <1>5, <1>7, TotalOn
<1>11. U \in Int /\ V \in Int
  BY <1>8, TotalOn
<1> HIDE DEF W, U, V
<1>12. u[x] \in Int /\ v[x] \in Int /\ w[x] = c * u[x] + v[x]
  BY <1>5, <1>7 DEF IsLinear
<1>13. c * (u[x] + U) = c * u[x] + c * U /\ c * u[x] \in Int /\ c * U \in Int
  BY <1>11, <1>12
<1> QED
  BY <1>5, <1>9, <1>10, <1>11, <1>12, <1>13

\* Totals of what is not negative are not.
LEMMA TotalNotNegative ==
  ASSUME NEW D, IsFiniteSet(D), NEW w \in [D -> Int], \A x \in D : w[x] >= 0
  PROVE  Total(w) >= 0
<1> DEFINE T == { t \in SUBSET D : ~(Total(On(w, t)) >= 0) }
<1>1. On(w, D) = w
  BY DEF On
<1>2. SUFFICES ASSUME T # {} PROVE FALSE
  BY <1>1
<1>3. \E t \in T : \A s \in T : ~(s \subseteq t /\ s # t)
  <2>1. T \subseteq SUBSET D
    OBVIOUS
  <2> HIDE DEF T
  <2> QED
    BY <1>2, <2>1, SmallestOf
<1>4. PICK t \in T : \A s \in T : ~(s \subseteq t /\ s # t)
  BY <1>3
<1>5. t \in SUBSET D /\ ~(Total(On(w, t)) >= 0)
  OBVIOUS
<1>6. t # {}
  <2>1. t = {} => Total(On(w, t)) = 0
    BY <1>5, TotalOn
  <2> QED
    BY <1>5, <2>1
<1>7. PICK x \in t : TRUE
  BY <1>6
<1>8. t \ {x} \in SUBSET D /\ t \ {x} \notin T
  BY <1>4, <1>5, <1>7
<1>9. Total(On(w, t \ {x})) >= 0 /\ Total(On(w, t \ {x})) \in Int
  BY <1>8, TotalOn
<1>10. Total(On(w, t)) = w[x] + Total(On(w, t \ {x}))
  BY <1>5, <1>7, TotalOn
<1> QED
  BY <1>5, <1>7, <1>9, <1>10

\* The total of ones is how many there are.
LEMMA TotalCounts ==
  ASSUME NEW D, IsFiniteSet(D), NEW A \in SUBSET D
  PROVE  Total([x \in D |-> IF x \in A THEN 1 ELSE 0]) = Cardinality(A)
<1> DEFINE w == [x \in D |-> IF x \in A THEN 1 ELSE 0]
           T == { t \in SUBSET D : Total(On(w, t)) # Cardinality(A \cap t) }
<1>1. w \in [D -> Int] /\ On(w, D) = w /\ A \cap D = A
  BY DEF On
<1>2. \A x \in D : w[x] = IF x \in A THEN 1 ELSE 0
  OBVIOUS
<1> HIDE DEF w
<1>3. SUFFICES ASSUME T # {} PROVE FALSE
  BY <1>1 DEF w
<1>4. \E t \in T : \A s \in T : ~(s \subseteq t /\ s # t)
  <2>1. T \subseteq SUBSET D
    OBVIOUS
  <2> HIDE DEF T
  <2> QED
    BY <1>3, <2>1, SmallestOf
<1>5. PICK t \in T : \A s \in T : ~(s \subseteq t /\ s # t)
  BY <1>4
<1>6. t \in SUBSET D /\ Total(On(w, t)) # Cardinality(A \cap t)
  OBVIOUS
<1>7. t # {}
  <2>1. t = {} => Total(On(w, t)) = 0
    BY <1>1, <1>6, TotalOn
  <2>2. t = {} => A \cap t = {}
    OBVIOUS
  <2> QED
    BY <1>6, <2>1, <2>2, FS_EmptySet
<1>8. PICK x \in t : TRUE
  BY <1>7
<1>9. t \ {x} \in SUBSET D /\ t \ {x} \notin T
  BY <1>5, <1>6, <1>8
<1>10. Total(On(w, t \ {x})) = Cardinality(A \cap (t \ {x}))
  BY <1>9
<1>11. Total(On(w, t)) = w[x] + Total(On(w, t \ {x}))
  BY <1>1, <1>6, <1>8, TotalOn
<1>12. IsFiniteSet(A \cap t) /\ Cardinality(A \cap t) \in Nat
  BY <1>6, FS_Subset, FS_CardinalityType
<1>13. Cardinality((A \cap t) \ {x}) = IF x \in A THEN Cardinality(A \cap t) - 1
                                       ELSE Cardinality(A \cap t)
  BY <1>8, <1>12, FS_RemoveElement
<1>14. (A \cap t) \ {x} = A \cap (t \ {x})
  OBVIOUS
<1> QED
  BY <1>2, <1>6, <1>8, <1>10, <1>11, <1>12, <1>13, <1>14

\* The fold of Pricing is a total.
LEMMA FoldIsTotal == ASSUME NEW w PROVE Price!Total(w) = Total(w)
BY DEF Price!Total, Price!FoldFunction, Price!FoldFunctionOnSet, Price!MapThenFoldSet, Total,
       IsPartialSums

\* Indices are ranked by what is left over, and equal ones by themselves.
Ahead(D, frac, i) == { j \in D : frac[j] > frac[i] \/ (frac[j] = frac[i] /\ j < i) }

Rank(D, frac, i) == Cardinality(Ahead(D, frac, i))

First(D, frac, k) == { i \in D : Rank(D, frac, i) < k }

\* As many indices are among the first k as k says, and whoever is ahead of one of them is too.
LEMMA FirstOnes ==
  ASSUME NEW n \in Nat, NEW frac \in [1 .. n -> Int], NEW k \in 0 .. n
  PROVE  /\ Cardinality(First(1 .. n, frac, k)) = k
         /\ \A i \in First(1 .. n, frac, k) :
              /\ \A j \in 1 .. n : frac[j] > frac[i] => j \in First(1 .. n, frac, k)
              /\ Cardinality({ j \in 1 .. n : frac[j] > frac[i] }) < k
<1> DEFINE D == 1 .. n
           before(i) == Ahead(D, frac, i)
           rank(i) == Rank(D, frac, i)
           A == { i \in D : rank(i) < k }
           B == { i \in D : rank(i) >= k }
<1>1. IsFiniteSet(D) /\ Cardinality(D) = n
  BY FS_Interval
<1>2. ASSUME NEW i \in D PROVE IsFiniteSet(before(i)) /\ rank(i) \in 0 .. (n - 1)
  <2>1. before(i) \subseteq D \ {i}
    BY DEF Ahead
  <2>2. IsFiniteSet(D \ {i}) /\ Cardinality(D \ {i}) = n - 1
    BY <1>1, FS_RemoveElement
  <2> HIDE DEF D
  <2>3. IsFiniteSet(before(i)) /\ Cardinality(before(i)) <= n - 1 /\ Cardinality(before(i)) \in Nat
    BY <2>1, <2>2, FS_Subset, FS_CardinalityType
  <2> QED
    BY <2>3 DEF Rank
<1>3. ASSUME NEW i \in D, NEW j \in D, j \in before(i) PROVE rank(j) < rank(i)
  <2>1. before(j) \cup {j} \subseteq before(i) /\ j \notin before(j)
    BY <1>3 DEF Ahead
  <2>2. IsFiniteSet(before(i)) /\ IsFiniteSet(before(j)) /\ rank(i) \in Nat /\ rank(j) \in Nat
    BY <1>2
  <2>3. /\ Cardinality(before(j) \cup {j}) = Cardinality(before(j)) + 1
        /\ Cardinality(before(j) \cup {j}) <= Cardinality(before(i))
    <3> HIDE DEF before, D
    <3> QED
      BY <2>1, <2>2, FS_AddElement, FS_Subset
  <2> QED
    BY <2>2, <2>3 DEF Rank
<1>4. ASSUME NEW i \in D, NEW j \in D, i # j PROVE rank(i) # rank(j)
  <2>1. i \in before(j) \/ j \in before(i)
    BY <1>4 DEF Ahead
  <2>2. rank(i) \in Nat /\ rank(j) \in Nat
    BY <1>2
  <2> QED
    BY <1>3, <2>1, <2>2
<1>5. IsFiniteSet(A) /\ IsFiniteSet(B) /\ A \cup B = D /\ A \cap B = {}
  <2>1. A \subseteq D /\ B \subseteq D
    OBVIOUS
  <2>2. A \cup B = D /\ A \cap B = {}
    BY <1>2
  <2> QED
    BY <1>1, <2>1, <2>2, FS_Subset
<1>6. Cardinality(A) + Cardinality(B) = n
  <2> HIDE DEF A, B, D
  <2>1. Cardinality(A \cup B) = Cardinality(A) + Cardinality(B) - Cardinality(A \cap B)
    BY <1>5, FS_Union
  <2>2. Cardinality(A \cap B) = 0
    BY <1>5, FS_EmptySet
  <2>3. Cardinality(A) \in Nat /\ Cardinality(B) \in Nat /\ Cardinality(A \cup B) = n
    BY <1>1, <1>5, FS_CardinalityType
  <2> QED
    BY <2>1, <2>2, <2>3
<1>7. Cardinality(A) <= k
  <2> DEFINE f == [i \in A |-> rank(i)]
             R == 0 .. (k - 1)
  <2>1. f \in [A -> R]
    BY <1>2
  <2>2. \A i, j \in A : f[i] = f[j] => i = j
    BY <1>4
  <2>3. IsFiniteSet(R) /\ Cardinality(R) = k
    BY FS_Interval
  <2> HIDE DEF f, R, A
  <2>4. f \in Injection(A, R)
    BY <2>1, <2>2 DEF Injection, IsInjective
  <2> QED
    BY <2>3, <2>4, FS_Injection
<1>8. Cardinality(B) <= n - k
  <2> DEFINE f == [i \in B |-> rank(i)]
             R == k .. (n - 1)
  <2>1. f \in [B -> R]
    BY <1>2
  <2>2. \A i, j \in B : f[i] = f[j] => i = j
    BY <1>4
  <2>3. IsFiniteSet(R) /\ Cardinality(R) = n - k
    BY FS_Interval
  <2> HIDE DEF f, R, B
  <2>4. f \in Injection(B, R)
    BY <2>1, <2>2 DEF Injection, IsInjective
  <2> QED
    BY <2>3, <2>4, FS_Injection
<1>9. Cardinality(A) = k
  <2>1. Cardinality(A) \in Nat /\ Cardinality(B) \in Nat
    BY <1>5, FS_CardinalityType
  <2> HIDE DEF A, B
  <2> QED
    BY <1>6, <1>7, <1>8, <2>1
<1>10. ASSUME NEW i \in A, NEW j \in D, frac[j] > frac[i] PROVE j \in A
  <2>1. j \in before(i)
    BY <1>10 DEF Ahead
  <2>2. rank(j) < rank(i) /\ rank(i) < k /\ rank(i) \in Nat /\ rank(j) \in Nat
    BY <1>2, <1>3, <2>1
  <2> QED
    BY <2>2
<1>11. ASSUME NEW i \in A PROVE Cardinality({ j \in D : frac[j] > frac[i] }) < k
  <2> DEFINE M == { j \in D : frac[j] > frac[i] }
  <2>1. M \subseteq before(i)
    BY DEF Ahead
  <2>2. IsFiniteSet(before(i)) /\ rank(i) < k /\ rank(i) \in Nat
    BY <1>2
  <2>3. Cardinality(M) <= Cardinality(before(i)) /\ Cardinality(M) \in Nat
    <3> HIDE DEF M, before
    <3> QED
      BY <2>1, <2>2, FS_Subset, FS_CardinalityType
  <2> QED
    BY <2>2, <2>3 DEF Rank
<1>12. A = First(1 .. n, frac, k)
  BY DEF First
<1> HIDE DEF A
<1> QED
  BY <1>9, <1>10, <1>11, <1>12


\* Division with a remainder.
LEMMA Division ==
  ASSUME NEW a \in Int, NEW b \in Int, b > 0
  PROVE  /\ a \div b \in Int /\ a % b \in Int /\ a = b * (a \div b) + (a % b)
         /\ 0 <= a % b /\ a % b < b
  OBVIOUS

\* Rounding down total * x / sum gives q and leaves r.
Splits(sum, total, x, q, r) ==
  q \in Int /\ r \in Int /\ total * x = sum * q + r /\ 0 <= r /\ r < sum

\* So it is for each of the weights.
SplitsAll(D, sum, total, w, floor, frac) ==
  \A i \in D : Splits(sum, total, w[i], floor[i], frac[i])

\* What a weight x gets is its share of the total to less than one unit, and no more than x.
FairPart(sum, total, x, d) ==
  /\ 0 <= d /\ d <= x
  /\ sum > 0 => d * sum - total * x < sum /\ -(d * sum - total * x) < sum

\* One is added to the share that is rounded down only where something is left over.
LEMMA ShareFacts ==
  ASSUME NEW sum \in Int, sum > 0, NEW total \in Nat, total <= sum, NEW x \in Nat,
         NEW fl, NEW fr, Splits(sum, total, x, fl, fr),
         NEW d, d = fl \/ (d = fl + 1 /\ fr > 0)
  PROVE  FairPart(sum, total, x, d)
<1> DEFINE one == d - fl
<1>0. /\ fl \in Int /\ fr \in Int /\ total * x = sum * fl + fr /\ 0 <= fr /\ fr < sum
      /\ one \in {0, 1} /\ (one = 1 => fr > 0) /\ d = fl + one /\ d \in Int
  BY DEF Splits
<1> HIDE DEF one
<1>1. (fl + one) * sum = sum * fl + one * sum
  BY <1>0
<1>2. one * sum = IF one = 1 THEN sum ELSE 0
  BY <1>0
<1> DEFINE whole == sum * fl
           share == total * x
<1>3. whole \in Int /\ share \in Int /\ share = whole + fr
  BY <1>0
<1>4. (fl + one) * sum - share = IF one = 1 THEN sum - fr ELSE -fr
  <2> HIDE DEF whole, share
  <2> QED
    BY <1>0, <1>1, <1>2, <1>3 DEF whole
<1>5. 0 <= fl
  <2>1. SUFFICES ASSUME fl <= -1 PROVE FALSE
    BY <1>0
  <2>2. whole <= -sum
    BY <1>0, <2>1
  <2>3. share >= 0
    BY <1>0
  <2> HIDE DEF whole, share
  <2> QED
    BY <1>0, <1>3, <2>2, <2>3
<1>6. fl + one <= x
  <2>1. SUFFICES ASSUME fl + one >= x + 1 PROVE FALSE
    BY <1>0
  <2>2. (fl + one) * sum >= (x + 1) * sum
    BY <1>0, <2>1
  <2>3. (x + 1) * sum = x * sum + sum /\ share <= x * sum /\ x * sum \in Int
    BY <1>0
  <2>4. (fl + one) * sum \in Int
    BY <1>0
  <2> DEFINE more == (fl + one) * sum
             most == x * sum
  <2> HIDE DEF whole, share, more, most
  <2>5. more >= most + sum /\ share <= most /\ more \in Int /\ most \in Int
    BY <2>2, <2>3, <2>4 DEF more, most
  <2>6. more - share < sum
    BY <1>0, <1>3, <1>4, <2>4 DEF more
  <2> QED
    BY <1>0, <1>3, <2>5, <2>6
<1>7. (fl + one) * sum - share < sum /\ -((fl + one) * sum - share) < sum
  BY <1>0, <1>4
<1> QED
  BY <1>0, <1>5, <1>6, <1>7 DEF share, FairPart

\* Of two weights the larger has no smaller a whole share, and with the same one more left.
LEMMA LargerShare ==
  ASSUME NEW sum \in Int, sum > 0, NEW total \in Int, total > 0,
         NEW x \in Int, NEW y \in Int, x < y,
         NEW fx, NEW rx, Splits(sum, total, x, fx, rx),
         NEW fy, NEW ry, Splits(sum, total, y, fy, ry)
  PROVE  fx <= fy /\ (fx = fy => rx < ry)
<1>0. /\ fx \in Int /\ rx \in Int /\ total * x = sum * fx + rx /\ 0 <= rx /\ rx < sum
      /\ fy \in Int /\ ry \in Int /\ total * y = sum * fy + ry /\ 0 <= ry /\ ry < sum
  BY DEF Splits
<1>1. total * x < total * y /\ total * x \in Int /\ total * y \in Int
  OBVIOUS
<1>2. sum * fx + rx < sum * fy + ry /\ sum * fx \in Int /\ sum * fy \in Int
  BY <1>0, <1>1
<1>3. fx <= fy
  <2>1. SUFFICES ASSUME fx >= fy + 1 PROVE FALSE
    BY <1>0
  <2>2. sum * fx >= sum * (fy + 1) /\ sum * (fy + 1) = sum * fy + sum
    BY <1>0, <2>1
  <2> QED
    BY <1>0, <1>2, <2>2
<1>4. fx = fy => rx < ry
  BY <1>0, <1>2
<1> QED
  BY <1>3, <1>4

\* What all weights together are not given by rounding down, and what is left over of each.
IsRest(sum, rest, left) == sum * rest = left

\* What rounding down leaves over is at most one for each weight that has a remainder.
LEMMA RestFits ==
  ASSUME NEW D, IsFiniteSet(D), NEW sum \in Int, sum > 0, NEW frac \in [D -> Int],
         \A i \in D : 0 <= frac[i] /\ frac[i] < sum,
         NEW rest \in Int, IsRest(sum, rest, Total(frac))
  PROVE  0 <= rest /\ rest <= Cardinality({ i \in D : frac[i] > 0 })
<1> DEFINE F == { i \in D : frac[i] > 0 }
           ones == [i \in D |-> IF i \in F THEN 1 ELSE 0]
           none == [i \in D |-> IF i \in {} THEN 1 ELSE 0]
           cap == [i \in D |-> IF i \in F THEN sum - 1 ELSE 0]
           slack == [i \in D |-> cap[i] - frac[i]]
           k == Cardinality(F)
<1>1. F \in SUBSET D /\ IsFiniteSet(F) /\ k \in Nat
  <2>1. F \in SUBSET D
    OBVIOUS
  <2> HIDE DEF F
  <2> QED
    BY <2>1, FS_Subset, FS_CardinalityType
<1>2. Total(ones) = k
  <2> HIDE DEF F
  <2> QED
    BY <1>1, TotalCounts
<1>3. Total(none) = 0
  <2>1. Total(none) = Cardinality({})
    <3>1. {} \in SUBSET D
      OBVIOUS
    <3> QED
      BY <3>1, TotalCounts
  <2> QED
    BY <2>1, FS_EmptySet
<1>4. /\ ones \in [D -> Int] /\ none \in [D -> Int] /\ cap \in [D -> Int] /\ slack \in [D -> Int]
      /\ IsLinear(D, sum - 1, ones, none, cap) /\ IsLinear(D, 1, slack, frac, cap)
      /\ \A i \in D : slack[i] >= 0
  BY DEF IsLinear
<1> HIDE DEF F, ones, none, cap, slack, k
<1>5. Total(cap) = (sum - 1) * Total(ones) + Total(none)
  BY <1>4, TotalIsLinear
<1>6. Total(cap) = 1 * Total(slack) + Total(frac)
  BY <1>4, TotalIsLinear
<1>7. Total(slack) >= 0 /\ Total(frac) >= 0
  BY <1>4, TotalNotNegative
<1>8. Total(slack) \in Int /\ Total(frac) \in Int
  BY <1>4, TotalFacts
<1>13. sum * rest = Total(frac)
  BY DEF IsRest
<1>9. (sum - 1) * k = sum * k - k /\ sum * k \in Int /\ sum * rest \in Int
  BY <1>1
<1>10. sum * rest >= 0 /\ sum * rest <= sum * k
  BY <1>1, <1>2, <1>3, <1>5, <1>6, <1>7, <1>8, <1>9, <1>13
<1>11. 0 <= rest
  BY <1>10
<1>12. rest <= k
  <2>1. SUFFICES ASSUME rest >= k + 1 PROVE FALSE
    BY <1>1
  <2>2. sum * rest >= sum * (k + 1) /\ sum * (k + 1) = sum * k + sum
    BY <1>1, <2>1
  <2> QED
    BY <1>1, <1>9, <1>10, <2>2
<1> QED
  BY <1>11, <1>12 DEF k, F

\* The shares of a total, rounded down, and what that leaves over are all of it.
LEMMA SharesAddUp ==
  ASSUME NEW D, IsFiniteSet(D), NEW w \in [D -> Int], NEW sum \in Int, NEW total \in Int,
         NEW floor \in [D -> Int], NEW frac \in [D -> Int],
         SplitsAll(D, sum, total, w, floor, frac)
  PROVE  total * Total(w) = sum * Total(floor) + Total(frac)
<1> DEFINE share == [i \in D |-> total * w[i]]
           none == [i \in D |-> IF i \in {} THEN 1 ELSE 0]
<1>1. Total(none) = 0
  <2>1. Total(none) = Cardinality({})
    <3>1. {} \in SUBSET D
      OBVIOUS
    <3> QED
      BY <3>1, TotalCounts
  <2> QED
    BY <2>1, FS_EmptySet
<1>2. /\ share \in [D -> Int] /\ none \in [D -> Int]
      /\ IsLinear(D, total, w, none, share)
  BY DEF IsLinear
<1>3. IsLinear(D, sum, floor, frac, share)
  BY DEF SplitsAll, Splits, IsLinear
<1> HIDE DEF share, none
<1>4. Total(share) = total * Total(w) + Total(none)
  BY <1>2, TotalIsLinear
<1>5. Total(share) = sum * Total(floor) + Total(frac)
  BY <1>2, <1>3, TotalIsLinear
<1>6. Total(floor) \in Int /\ Total(frac) \in Int
  BY TotalFacts
<1>7. total * Total(w) \in Int
  BY TotalFacts
<1> QED
  BY <1>1, <1>4, <1>5, <1>6, <1>7

\* So the rest times the sum is what is left over together.
LEMMA RestIs ==
  ASSUME NEW D, IsFiniteSet(D), NEW w \in [D -> Int], NEW total \in Int,
         NEW floor \in [D -> Int], NEW frac \in [D -> Int],
         SplitsAll(D, Total(w), total, w, floor, frac)
  PROVE  IsRest(Total(w), total - Total(floor), Total(frac))
<1>1. Total(w) \in Int /\ Total(floor) \in Int /\ Total(frac) \in Int
  BY TotalFacts
<1>2. total * Total(w) = Total(w) * Total(floor) + Total(frac)
  BY <1>1, SharesAddUp
<1>3. PICK sum \in Int : sum = Total(w)
  BY <1>1
<1>4. PICK whole \in Int : whole = Total(floor)
  BY <1>1
<1>5. PICK left \in Int : left = Total(frac)
  BY <1>1
<1>6. total * sum = sum * whole + left
  BY <1>2, <1>3, <1>4, <1>5
<1>7. sum * (total - whole) = left
  BY <1>6
<1> QED
  BY <1>3, <1>4, <1>5, <1>7 DEF IsRest

\* Instances of the operators of FiniteSets.
LEMMA CountIsCardinality == ASSUME NEW S PROVE Price!Cardinality(S) = Cardinality(S)
BY DEF Price!Cardinality, Price!IsFiniteSet, Cardinality, IsFiniteSet

\* What a distribution of a total over weights has to be: it adds up, each part is fair, and
\* a larger weight never gets the smaller part.
IsDistribution(D, total, w, d) ==
  /\ d \in [D -> Int]
  /\ Total(d) = total
  /\ \A i \in D : FairPart(Total(w), total, w[i], d[i])
  /\ \A i \in D, j \in D : w[i] < w[j] => d[i] <= d[j]

\* Nothing at all is distributed by giving nothing to each.
LEMMA NothingDistributed ==
  ASSUME NEW D, IsFiniteSet(D), NEW w \in [D -> Nat]
  PROVE  IsDistribution(D, 0, w, [i \in D |-> 0])
<1> DEFINE none == [i \in D |-> IF i \in {} THEN 1 ELSE 0]
<1>1. Total(none) = Cardinality({})
  <2>1. {} \in SUBSET D
    OBVIOUS
  <2> QED
    BY <2>1, TotalCounts
<1>2. Total(none) = 0
  BY <1>1, FS_EmptySet
<1>3. none = [i \in D |-> 0]
  OBVIOUS
<1>4. \A i \in D : none[i] = 0 /\ w[i] \in Nat
  OBVIOUS
<1>5. none \in [D -> Int]
  OBVIOUS
<1>6. w \in [D -> Int]
  OBVIOUS
<1> HIDE DEF none
<1>7. Total(w) \in Int
  BY <1>6, TotalFacts
<1>8. ASSUME NEW i \in D PROVE FairPart(Total(w), 0, w[i], none[i])
  <2>1. 0 * Total(w) = 0 /\ 0 * w[i] = 0
    BY <1>4, <1>7
  <2> QED
    BY <1>4, <1>7, <2>1 DEF FairPart
<1> QED
  BY <1>2, <1>3, <1>4, <1>5, <1>8 DEF IsDistribution

\* What distributeProportionally computes first: shares rounded down, and what is left over.
Floors(total, w) == [i \in DOMAIN w |-> (total * w[i]) \div Total(w)]

Lefts(total, w) == [i \in DOMAIN w |-> (total * w[i]) % Total(w)]

\* As many as the rest says, of those with most left over, get one more.
LEMMA DistributeIs ==
  ASSUME NEW n \in Nat, NEW w \in [1 .. n -> Nat], NEW total \in Nat, Total(w) > 0, total > 0
  PROVE  Price!DistributeProportionally(total, w)
           = [i \in 1 .. n |->
                Floors(total, w)[i]
                  + IF i \in First(1 .. n, Lefts(total, w), total - Total(Floors(total, w)))
                    THEN 1 ELSE 0]
<1> DEFINE floor == Floors(total, w)
           frac == Lefts(total, w)
           rest == total - Total(floor)
           ahead(i) == { j \in DOMAIN w : frac[j] > frac[i] \/ (frac[j] = frac[i] /\ j < i) }
<1>1. DOMAIN w = 1 .. n
  OBVIOUS
<1>2. Total(w) \in Int
  <2>1. IsFiniteSet(1 .. n)
    BY FS_Interval
  <2>2. w \in [1 .. n -> Int]
    OBVIOUS
  <2> QED
    BY <2>1, <2>2, TotalFacts
<1>3. ~(Total(w) <= 0 \/ total = 0)
  BY <1>2
<1>4. \A i \in 1 .. n : (Price!Cardinality(ahead(i)) < rest) <=> i \in First(1 .. n, frac, rest)
  BY <1>1, CountIsCardinality DEF First, Rank, Ahead
<1>5. Price!DistributeProportionally(total, w)
        = [i \in DOMAIN w |->
             IF Total(w) <= 0 \/ total = 0 THEN 0
             ELSE floor[i] + IF Price!Cardinality(ahead(i)) < rest THEN 1 ELSE 0]
  BY FoldIsTotal, Zenon DEF Price!DistributeProportionally, Floors, Lefts
<1> HIDE DEF floor, frac, ahead, rest
<1>6. \A i \in 1 .. n :
        (IF Total(w) <= 0 \/ total = 0 THEN 0
         ELSE floor[i] + IF Price!Cardinality(ahead(i)) < rest THEN 1 ELSE 0)
        = floor[i] + IF i \in First(1 .. n, frac, rest) THEN 1 ELSE 0
  BY <1>3, <1>4
<1>7. Price!DistributeProportionally(total, w)
        = [i \in 1 .. n |-> floor[i] + IF i \in First(1 .. n, frac, rest) THEN 1 ELSE 0]
  BY <1>1, <1>5, <1>6
<1> QED
  BY <1>7 DEF floor, frac, rest

\* Those in A are as many as the rest, have something left over, and are with all that
\* have more.
RoundsUp(D, rest, frac, A) ==
  /\ Cardinality(A) = rest
  /\ \A i \in A : frac[i] > 0
  /\ \A i \in A, j \in D : frac[j] > frac[i] => j \in A

\* The first ones are such, of any weights.
LEMMA FirstRoundUp ==
  ASSUME NEW n \in Nat, NEW w \in [1 .. n -> Int], Total(w) > 0, NEW total \in Int,
         NEW floor \in [1 .. n -> Int], NEW frac \in [1 .. n -> Int],
         SplitsAll(1 .. n, Total(w), total, w, floor, frac),
         NEW rest, rest = total - Total(floor)
  PROVE  RoundsUp(1 .. n, rest, frac, First(1 .. n, frac, rest))
<1> DEFINE D == 1 .. n
           F == { i \in D : frac[i] > 0 }
           A == First(D, frac, rest)
<1>1. IsFiniteSet(D) /\ Cardinality(D) = n
  BY FS_Interval
<1>3. Total(w) \in Int /\ Total(floor) \in Int /\ Total(frac) \in Int
  BY <1>1, TotalFacts
<1>5. rest \in Int /\ IsRest(Total(w), rest, Total(frac))
  <2>1. rest \in Int
    BY <1>3
  <2>2. IsRest(Total(w), total - Total(floor), Total(frac))
    BY <1>1, RestIs, ZenonT(30)
  <2> QED
    BY <2>1, <2>2
<1>6. \A i \in D : 0 <= frac[i] /\ frac[i] < Total(w)
  BY DEF SplitsAll, Splits
<1>7. 0 <= rest /\ rest <= Cardinality(F)
  BY <1>1, <1>3, <1>5, <1>6, RestFits
<1>8. Cardinality(F) \in Nat /\ Cardinality(F) <= n
  <2>1. F \subseteq D
    OBVIOUS
  <2> HIDE DEF D, F
  <2> QED
    BY <1>1, <2>1, FS_Subset, FS_CardinalityType
<1>9. rest \in 0 .. n
  BY <1>5, <1>7, <1>8
<1>11. /\ Cardinality(A) = rest
       /\ \A i \in A : /\ \A j \in D : frac[j] > frac[i] => j \in A
                       /\ Cardinality({ j \in D : frac[j] > frac[i] }) < rest
  <2>1. PICK k \in 0 .. n : k = rest
    BY <1>9
  <2>2. /\ Cardinality(First(1 .. n, frac, k)) = k
        /\ \A i \in First(1 .. n, frac, k) :
             /\ \A j \in 1 .. n : frac[j] > frac[i] => j \in First(1 .. n, frac, k)
             /\ Cardinality({ j \in 1 .. n : frac[j] > frac[i] }) < k
    BY FirstOnes
  <2>3. A = First(1 .. n, frac, k)
    BY <2>1
  <2> QED
    BY <2>1, <2>2, <2>3
<1>12. ASSUME NEW i \in A PROVE frac[i] > 0
  <2>1. SUFFICES ASSUME ~(frac[i] > 0) PROVE FALSE
    OBVIOUS
  <2>2. i \in D /\ frac[i] = 0
    BY <1>6, <2>1 DEF First
  <2>3. F = { j \in D : frac[j] > frac[i] }
    BY <2>2
  <2>4. Cardinality({ j \in D : frac[j] > frac[i] }) < rest
    BY <1>11
  <2> HIDE DEF F
  <2> QED
    BY <1>5, <1>7, <1>8, <2>3, <2>4
<1> QED
  BY <1>11, <1>12 DEF RoundsUp

\* One more for those in A.
OneMore(D, floor, A, d) ==
  /\ floor \in [D -> Int] /\ d \in [D -> Int] /\ A \in SUBSET D
  /\ \A i \in D : d[i] = floor[i] + IF i \in A THEN 1 ELSE 0

\* Which adds as many to the total.
LEMMA TotalWithMore ==
  ASSUME NEW D, IsFiniteSet(D), NEW floor, NEW A, NEW d, OneMore(D, floor, A, d)
  PROVE  Total(d) = Total(floor) + Cardinality(A)
<1>0. floor \in [D -> Int] /\ d \in [D -> Int] /\ A \in SUBSET D
  BY DEF OneMore
<1> DEFINE extra == [i \in D |-> IF i \in A THEN 1 ELSE 0]
<1>1. Total(extra) = Cardinality(A)
  BY <1>0, TotalCounts
<1>2. extra \in [D -> Int] /\ IsLinear(D, 1, floor, extra, d)
  BY DEF IsLinear, OneMore
<1> HIDE DEF extra
<1>3. Total(d) = 1 * Total(floor) + Total(extra)
  BY <1>0, <1>2, TotalIsLinear
<1>4. Total(floor) \in Int
  BY <1>0, TotalFacts
<1> QED
  BY <1>1, <1>3, <1>4

\* distributeProportionally, for all weights and every total up to their sum.
THEOREM DiscountsAddUp ==
  ASSUME NEW n \in Nat, NEW w \in [1 .. n -> Nat], NEW total \in Nat, total <= Total(w)
  PROVE  IsDistribution(1 .. n, total, w, Price!DistributeProportionally(total, w))
<1> DEFINE D == 1 .. n
           sum == Total(w)
           d == Price!DistributeProportionally(total, w)
<1>1. IsFiniteSet(D) /\ w \in [D -> Int] /\ w \in [D -> Nat]
  <2>1. IsFiniteSet(D)
    BY FS_Interval
  <2>2. w \in [D -> Int] /\ w \in [D -> Nat]
    OBVIOUS
  <2> QED
    BY <2>1, <2>2
<1>2. sum \in Int /\ sum >= 0
  <2>1. \A i \in D : w[i] >= 0
    OBVIOUS
  <2> HIDE DEF D
  <2> QED
    BY <1>1, <2>1, TotalFacts, TotalNotNegative
<1>3. CASE total = 0
  <2>1. d = [i \in D |-> 0]
    BY <1>3 DEF Price!DistributeProportionally
  <2>2. IsDistribution(D, 0, w, [i \in D |-> 0])
    <3> HIDE DEF D
    <3> QED
      BY <1>1, NothingDistributed
  <2> HIDE DEF d
  <2> QED
    BY <1>3, <2>1, <2>2 DEF d
<1>4. CASE total > 0
  <2> DEFINE floor == Floors(total, w)
             frac == Lefts(total, w)
             A == First(D, frac, total - Total(floor))
  <2>1. sum > 0
    BY <1>2, <1>4
  <2>2. d = [i \in D |-> floor[i] + IF i \in A THEN 1 ELSE 0]
    BY <1>4, <2>1, DistributeIs
  <2>3. ASSUME NEW i \in D
        PROVE  w[i] \in Nat /\ Splits(sum, total, w[i], floor[i], frac[i])
    <3> DEFINE s == total * w[i]
    <3>1. w[i] \in Nat /\ s \in Int
      OBVIOUS
    <3>2. floor[i] = s \div sum /\ frac[i] = s % sum
      BY DEF Floors, Lefts
    <3> HIDE DEF s, floor, frac, sum
    <3>3. s \div sum \in Int /\ s % sum \in Int /\ s = sum * (s \div sum) + (s % sum)
          /\ 0 <= s % sum /\ s % sum < sum
      BY <1>2, <2>1, <3>1, Division
    <3> QED
      BY <3>1, <3>2, <3>3 DEF s, Splits
  <2>4. floor \in [D -> Int] /\ frac \in [D -> Int]
    <3>1. \A i \in D : floor[i] \in Int /\ frac[i] \in Int
      BY <2>3 DEF Splits
    <3>2. floor = [i \in D |-> floor[i]] /\ frac = [i \in D |-> frac[i]]
      BY DEF Floors, Lefts
    <3> QED
      BY <3>1, <3>2
  <2> HIDE DEF d, floor, frac, sum
  <2>5. Total(floor) \in Int
    <3> HIDE DEF D
    <3> QED
      BY <1>1, <2>4, TotalFacts
  <2>8. RoundsUp(D, total - Total(floor), frac, A)
    <3>1. SplitsAll(1 .. n, Total(w), total, w, floor, frac)
      BY <2>3 DEF SplitsAll, sum
    <3>2. Total(w) > 0
      BY <2>1 DEF sum
    <3>0. total \in Int /\ n \in Nat
      OBVIOUS
    <3>3. PICK rest : rest = total - Total(floor)
      OBVIOUS
    <3>4. RoundsUp(1 .. n, rest, frac, First(1 .. n, frac, rest))
      BY <1>1, <2>4, <3>0, <3>1, <3>2, <3>3, FirstRoundUp, ZenonT(30)
    <3> QED
      BY <3>3, <3>4
  <2>6. A \in SUBSET D
    BY DEF First
  <2> HIDE DEF A
  <2>7. ASSUME NEW i \in D
        PROVE  /\ d[i] = floor[i] + IF i \in A THEN 1 ELSE 0
               /\ floor[i] \in Int /\ d[i] \in Int
    BY <2>2, <2>4
  <2>10. d \in [D -> Int]
    <3>1. d = [i \in D |-> d[i]]
      BY <2>2
    <3> QED
      BY <2>7, <3>1
  <2>11. Total(d) = total
    <3>1. OneMore(D, floor, A, d)
      BY <2>4, <2>6, <2>7, <2>10 DEF OneMore
    <3>2. Total(d) = Total(floor) + Cardinality(A)
      <4> HIDE DEF D
      <4> QED
        BY <1>1, <3>1, TotalWithMore
    <3> QED
      BY <2>5, <2>8, <3>2 DEF RoundsUp
  <2>12. ASSUME NEW i \in D PROVE FairPart(sum, total, w[i], d[i])
    <3>1. Splits(sum, total, w[i], floor[i], frac[i]) /\ w[i] \in Nat
      BY <2>3
    <3>2. d[i] = floor[i] \/ (d[i] = floor[i] + 1 /\ frac[i] > 0)
      BY <2>7, <2>8 DEF RoundsUp
    <3>3. total <= sum
      BY DEF sum
    <3> QED
      BY <1>2, <2>1, <3>1, <3>2, <3>3, ShareFacts
  <2>13. ASSUME NEW i \in D, NEW j \in D, w[i] < w[j] PROVE d[i] <= d[j]
    <3>1. Splits(sum, total, w[i], floor[i], frac[i]) /\ w[i] \in Int
      BY <2>3
    <3>2. Splits(sum, total, w[j], floor[j], frac[j]) /\ w[j] \in Int
      BY <2>3
    <3>3. floor[i] <= floor[j] /\ (floor[i] = floor[j] => frac[i] < frac[j])
      BY <1>2, <1>4, <2>1, <2>13, <3>1, <3>2, LargerShare
    <3>4. floor[i] = floor[j] /\ i \in A => j \in A
      <4>1. frac[i] \in Int /\ frac[j] \in Int
        BY <2>4
      <4> QED
        BY <2>8, <3>3, <4>1 DEF RoundsUp
    <3> QED
      BY <2>7, <3>3, <3>4
  <2> QED
    BY <2>10, <2>11, <2>12, <2>13 DEF IsDistribution, sum, d
<1> QED
  BY <1>3, <1>4

\* A percentage of an amount is an amount.
LEMMA PercentageFacts ==
  ASSUME NEW amount \in Nat, NEW percent \in Nat
  PROVE  Price!ApplyPercentage(amount, percent) \in Nat
<1>1. 2 * amount * percent \in Nat
  OBVIOUS
<1>2. PICK x \in Nat : x = 2 * amount * percent
  BY <1>1
<1>3. (x + 100) \div 200 \in Nat
  OBVIOUS
<1> QED
  BY <1>2, <1>3 DEF Price!ApplyPercentage

\* A promo code takes no more than the goods are worth.
LEMMA PromoFacts ==
  ASSUME NEW promo, NEW subtotal \in Nat,
         promo \subseteq [type : {"PERCENTAGE", "FIXED", "BUY_X_GET_Y", "FREE_DELIVERY"},
                          value : Nat, minOrderTotal : Nat, maxDiscount : SUBSET Nat]
  PROVE  Price!PromoDiscount(promo, subtotal) \in Nat
         /\ Price!PromoDiscount(promo, subtotal) <= subtotal
<1>1. CASE promo = {}
  BY <1>1 DEF Price!PromoDiscount
<1>2. CASE promo # {}
  <2> DEFINE p == CHOOSE q \in promo : TRUE
             amount == CASE p.type = "PERCENTAGE" -> Price!ApplyPercentage(subtotal, p.value)
                         [] p.type = "FIXED"      -> p.value
                         [] OTHER                 -> 0
             limit == CHOOSE l \in p.maxDiscount : TRUE
             capped == IF p.maxDiscount = {} THEN amount ELSE Price!Least(amount, limit)
  <2>1. p \in promo
    BY <1>2
  <2>2. p.value \in Nat /\ p.maxDiscount \subseteq Nat
    BY <2>1
  <2>3. Price!PromoDiscount(promo, subtotal) = Price!Least(capped, subtotal)
    BY <1>2 DEF Price!PromoDiscount
  <2> HIDE DEF p
  <2>4. amount \in Nat
    BY <2>2, PercentageFacts
  <2>5. p.maxDiscount # {} => limit \in Nat
    BY <2>2
  <2> HIDE DEF amount, limit
  <2>6. capped \in Nat
    BY <2>4, <2>5 DEF Price!Least
  <2> HIDE DEF capped
  <2> QED
    BY <2>3, <2>6 DEF Price!Least
<1> QED
  BY <1>1, <1>2

\* Points take no more than the code has left, than is asked for, and than there are.
LEMMA PointsFacts ==
  ASSUME NEW loyalty, loyalty.maxRedeemPercent \in Nat, NEW spend \in Nat, NEW held \in Nat,
         NEW left \in Nat, ~(loyalty.enabled /\ spend > held)
  PROVE  Price!LoyaltyDiscount(loyalty, spend, left) \in Nat
         /\ Price!LoyaltyDiscount(loyalty, spend, left) <= left
         /\ Price!LoyaltyDiscount(loyalty, spend, left) <= held
<1>1. PICK cap \in Nat : cap = Price!ApplyPercentage(left, loyalty.maxRedeemPercent)
  BY PercentageFacts
<1>2. Price!LoyaltyDiscount(loyalty, spend, left)
        = IF ~loyalty.enabled \/ spend = 0 THEN 0 ELSE Price!Least(Price!Least(spend, cap), left)
  BY <1>1 DEF Price!LoyaltyDiscount
<1> QED
  BY <1>2 DEF Price!Least

\* The lines of an order that is not refused are worth something or nothing.
LEMMA LineFacts ==
  ASSUME NEW line, line \in [price : Nat, variant : Int, modifiers : Nat, quantity : Int],
         ~Price!BadLine(line)
  PROVE  Price!LineSubtotal(line) \in Nat
<1>1. PICK each \in Nat : each = line.price + line.variant + line.modifiers
  BY DEF Price!BadLine
<1>2. PICK quantity \in Nat : quantity = line.quantity
  BY DEF Price!BadLine
<1>3. each * quantity \in Nat
  OBVIOUS
<1> QED
  BY <1>1, <1>2, <1>3 DEF Price!LineSubtotal

\* Every order that is calculated adds up.
LEMMA OrdersAddUp ==
  ASSUME NEW order, Price!IsOrder(order)
  PROVE  Price!AddsUp(order)
<1> DEFINE w == Price!Subtotals(order.lines)
           s == Price!Subtotal(order.lines)
           promo == Price!PromoDiscount(order.promo, s)
           points == Price!LoyaltyDiscount(order.loyalty, order.spend, s - promo)
           fee == Price!DeliveryFee(order, s, promo)
           d == Price!DistributeProportionally(promo + points, w)
           n == Len(order.lines)
           D == 1 .. n
           paid == [i \in D |-> w[i] - d[i]]
<1>1. SUFFICES ASSUME ~Price!Refused(order) PROVE Price!AddsUp(order)
  BY DEF Price!AddsUp
<1>2. n \in Nat /\ DOMAIN order.lines = D
  BY DEF Price!IsOrder
<1>3. \A i \in D : Price!LineSubtotal(order.lines[i]) \in Nat
  <2>1. TAKE i \in D
  <2>2. order.lines[i] \in [price : Nat, variant : Int, modifiers : Nat, quantity : Int]
    <3> DEFINE Rows == [price : Nat, variant : Int, modifiers : Nat, quantity : Int]
    <3>1. order.lines \in Seq(Rows)
      BY DEF Price!IsOrder
    <3> HIDE DEF Rows
    <3>2. order.lines[i] \in Rows
      BY <3>1, ElementOfSeq
    <3> QED
      BY <3>2 DEF Rows
  <2>3. ~Price!BadLine(order.lines[i])
    BY <1>1, <1>2 DEF Price!Refused
  <2> QED
    BY <2>2, <2>3, LineFacts
<1>4. w \in [D -> Nat] /\ w \in [D -> Int] /\ DOMAIN w = D
  BY <1>2, <1>3 DEF Price!Subtotals
<1>5. IsFiniteSet(D)
  BY <1>2, FS_Interval
<1>6. s = Total(w)
  BY FoldIsTotal DEF Price!Subtotal
<1>7. s \in Nat
  <2>1. \A i \in D : w[i] >= 0
    BY <1>4
  <2> HIDE DEF D, w, s
  <2>2. Total(w) \in Int /\ Total(w) >= 0
    BY <1>4, <1>5, <2>1, TotalFacts, TotalNotNegative
  <2> QED
    BY <1>6, <2>2
<1> HIDE DEF w, s, n
<1>8. promo \in Nat /\ promo <= s
  BY <1>7, PromoFacts DEF Price!IsOrder
<1>9. /\ order.spend \in Nat /\ order.balance \in Nat /\ order.loyalty.maxRedeemPercent \in Nat
      /\ ~(order.loyalty.enabled /\ order.spend > order.balance)
  BY <1>1 DEF Price!Refused, Price!IsOrder
<1> HIDE DEF promo
<1>10. points \in Nat /\ points <= s - promo /\ points <= order.balance
  <2>1. PICK left \in Nat : left = s - promo
    BY <1>7, <1>8
  <2> QED
    BY <1>9, <2>1, PointsFacts
<1> HIDE DEF points, d
<1>11. IsDistribution(D, promo + points, w, d)
  <2>1. PICK off \in Nat : off = promo + points
    BY <1>8, <1>10
  <2>2. off <= Total(w)
    BY <1>6, <1>7, <1>8, <1>10, <2>1
  <2>3. IsDistribution(1 .. n, off, w, Price!DistributeProportionally(off, w))
    BY <1>2, <1>4, <2>2, DiscountsAddUp
  <2> QED
    BY <2>1, <2>3 DEF d
<1>12. d \in [D -> Int] /\ Total(d) = promo + points
  BY <1>11 DEF IsDistribution
<1>13. paid \in [D -> Int] /\ IsLinear(D, 1, paid, d, w)
  BY <1>4, <1>12 DEF IsLinear
<1>14. Total(w) = 1 * Total(paid) + Total(d)
  <2> HIDE DEF D, paid
  <2> QED
    BY <1>4, <1>5, <1>12, <1>13, TotalIsLinear
<1>15. Total(paid) = s - promo - points
  <2>1. Total(paid) \in Int
    <3> HIDE DEF D, paid
    <3> QED
      BY <1>5, <1>13, TotalFacts
  <2> QED
    BY <1>6, <1>7, <1>8, <1>10, <1>12, <1>14, <2>1
<1>16. \A i \in D : FairPart(s, promo + points, w[i], d[i])
  BY <1>6, <1>11 DEF IsDistribution
<1>17. \A i \in D, j \in D : w[i] < w[j] => d[i] <= d[j]
  BY <1>11 DEF IsDistribution
<1> DEFINE r == Price!Compute(order)
<1>18. /\ r.subtotal = s /\ r.promoDiscount = promo /\ r.loyaltyDiscount = points
       /\ r.discounts = d /\ r.deliveryFee = fee
       /\ r.total = s - promo - points + fee
  BY DEF Price!Compute, s, promo, points, fee, d, w
<1> HIDE DEF r, D, fee
<1>19. Price!Total(d) = promo + points /\ Price!Total(paid) = s - promo - points
  BY <1>12, <1>15, FoldIsTotal
<1>20. paid = [i \in DOMAIN w |-> w[i] - r.discounts[i]]
  BY <1>4, <1>18 DEF paid
<1> HIDE DEF paid
<1>21. /\ 0 <= promo + points /\ promo + points <= s /\ points <= order.balance
       /\ s - promo - points + fee = Price!Total(paid) + fee
  BY <1>7, <1>8, <1>10, <1>19
<1>22. ASSUME NEW i \in D
       PROVE  /\ 0 <= d[i] /\ d[i] <= w[i]
              /\ s > 0 => /\ d[i] * s - (promo + points) * w[i] < s
                          /\ -(d[i] * s - (promo + points) * w[i]) < s
  BY <1>16 DEF FairPart
<1> QED
  BY <1>4, <1>17, <1>18, <1>19, <1>20, <1>21, <1>22 DEF Price!AddsUp, r, w

-----------------------------------------------------------------------------
(* The results. *)

\* Every behaviour keeps the invariant: stock and balances are never negative, whichever
\* requests run at the same time and stop half-way, and no two checkouts write one order.
THEOREM OrderingInvariant == Spec => []PointsInv
<1> QED
  BY PointsInit, PointsNext, PTL DEF Spec

\* accrueForOrder is "safe to run twice": an order earns its cashback at most once,
\* and only if it was completed, however often ORDER_COMPLETED is handled.
THEOREM OrdersEarnOnce == Spec => []EarnedOnce
<1>1. PointsInv => EarnedOnce
  BY CompletedCounted DEF PointsInv, LedgerFits, EarnedOnce
<1> QED
  BY <1>1, OrderingInvariant, PTL

\* "Two writers of one account that both lock it never lose an entry": whoever corrects a
\* balance or credits a cashback at the same time, the balance of a customer who never spent
\* points at a checkout is the sum of the ledger.
THEOREM LockedWritersKeepSums == Spec => []LockedWritersAgree
<1>1. Init => PointsInv /\ AccountsInv
  BY PointsInit, AccountsInit
<1>2. (PointsInv /\ AccountsInv) /\ [Next]_vars => (PointsInv /\ AccountsInv)'
  BY PointsNext, AccountsNext
<1>3. AccountsInv => LockedWritersAgree
  BY DEF AccountsInv, BalancesAgree, LockedWritersAgree, Spent, EntrySum, SumOf
<1> QED
  BY <1>1, <1>2, <1>3, PTL DEF Spec

\* "Either the customer has an order and the stock is reserved, or nothing happened": for any
\* number of checkouts and cancellations at once, of any products and quantities, what is in
\* stock and what orders hold never exceeds what there was - while orders are of one day, none
\* is cancelled twice, and nobody typed in another stock.
THEOREM StockIsReserved == Spec => []ReservedStock
<1>1. Init => PointsInv /\ GoodsInv
  BY PointsInit, GoodsInit
<1>2. (PointsInv /\ GoodsInv) /\ [Next]_vars => (PointsInv /\ GoodsInv)'
  BY PointsNext, GoodsNext
<1>3. GoodsInv => ReservedStock
  BY DEF GoodsInv, StockCovers, ReservedStock, CancelledOnce, SameDay, Sold, SoldOf, Selling,
     TimesSet, Times, Exists
<1> QED
  BY <1>1, <1>2, <1>3, PTL DEF Spec

\* A calculated order adds up: its parts of the discount are what is taken off, fair and no
\* more than each line is worth, and the total is what the lines leave and the delivery.
\* pricing.service.ts, compute; money.ts, distributeProportionally.
THEOREM ReceiptsAddUp == MCSpec => []ReceiptAddsUp
<1>1. MCInit => (part = "pricing" => sample \in Samples)
  BY DEF MCInit
<1>2. (part = "pricing" => sample \in Samples) /\ [MCNext]_<<vars, part, sample>>
        => (part = "pricing" => sample \in Samples)'
  BY DEF MCNext
<1>3. (part = "pricing" => sample \in Samples) => ReceiptAddsUp
  BY SamplesAssumption, OrdersAddUp DEF ReceiptAddsUp
<1> QED
  BY <1>1, <1>2, <1>3, PTL DEF MCSpec
=============================================================================
