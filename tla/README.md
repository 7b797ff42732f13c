# BizBot OS in TLA+

BizBot OS lets a small business run a Telegram shop and an appointment book: a
NestJS API and a worker (both may run in several processes) over PostgreSQL,
Redis and BullMQ, and three Next.js front ends. Nearly all of its correctness
rests on what concurrent request handlers do to shared rows under READ
COMMITTED, and on callbacks and events that arrive more than once. That is what
these modules model. Paths below are relative to `src/`; services are in
`apps/api/src/modules/`.

## 1. Inventory

| Component | State | Operations | Interacts with | What is hard | What makes it correct |
|---|---|---|---|---|---|
| bookings (`bookings/bookings.service.ts`) | Booking, BookingStatusHistory, ResourceDayLock, Customer.bookingCount | getAvailability, create, updateStatus, cancelByCustomer | availability engine, outbox, reminders | conflict query and insert in one transaction under a day lock; status changes decided on an earlier read; one exclusion constraint | no double booking (I3); what is offered can be booked; final statuses stay |
| availability (`bookings/availability.engine.ts`, `packages/shared/src/time.ts`) | none (pure) | computeAvailability, workingWindows, slots | bookings | buffers, split shifts, weekday and day boundary in the tenant's zone | offered = accepted by create |
| payments (`payments/payments.service.ts`) | Payment, PaymentTransaction, ProcessedWebhook, Order.paymentStatus | createForOrder, handleWebhook, markCashPaid | providers, orders, outbox | callbacks repeated, reordered, concurrent; a crash between deduplication and settlement | a replay changes nothing (I4); a 2xx is durable; amounts match; no more goes back than came in |
| payment providers (`packages/payments`) | none | adapters for Payme, Click, mock, cash | payments | dialogues of two to four calls, each repeated until answered, and not all of them naming our payment; two units of money | what is PAID was taken, what was taken and acknowledged is PAID |
| orders (`orders/orders.service.ts`) | Order, OrderItem, OrderStatusHistory, OrderSequence, Product.stockQuantity, InventoryTransaction, PromoUsage | checkout, createByStaff, updateStatus | cart, loyalty, outbox | one long transaction that reads before it writes absolute values | unique numbers; stock reserved and returned once; all or nothing |
| cart and pricing (`cart/`) | Cart, CartItem | addItem, updateItem, removeItem, clear, applyPromo, summary, compute | orders, loyalty, the Mini App | a page with cached totals; checks that are stale by checkout; rounding | charged = shown; the receipt adds up (I2) |
| loyalty (`loyalty/loyalty.service.ts`) | LoyaltyAccount, LoyaltyTransaction, Customer.loyaltyBalance | adjust, accrueForOrder, post; spendLoyalty in orders | orders, outbox | two writers of a balance, one of which does not lock | balance = sum of ledger (I5); one cashback per order |
| outbox (`events/`) | DomainEvent, EventHandlerRun | emit, drain, process, finalize | every component writes to it; timeline, loyalty and notification handlers | overlapping drainers, crash after claiming, retries, order | no event lost; handlers run at least once |
| notifications and reminders (`notifications/`, `infra/queue.service.ts`) | Notification, BullMQ jobs | send, scheduleReminders, cancelReminders, sendReminder | outbox, Redis, Telegram | a row written before the message goes out; jobs that stall, are restored or cannot be removed | one message per occasion, none for a closed booking, none missing |
| sessions (`auth/token.service.ts`, `apps/admin/src/lib`) | RefreshToken families, a cookie per browser | login, refresh, logout, changePassword | the tabs of a browser | two refreshes with one token; lost answers | reuse ends the family, an honest tab does not; what is ended stays ended |
| logins (`auth/auth.service.ts`) | counters in Redis, User.failedLoginCount, lockedUntil | login | Redis | read at the start, counted after a slow check; INCR and EXPIRE apart | wrong passwords are counted, each once; a lock is earned; a throttle ends |
| tenants and modules (`tenants/`, `infra/tenant-cache.service.ts`, `packages/rbac`) | Tenant, TenantModule, Redis cache | create, update, updateSettings, advanceOnboarding, setModule, purge, recommendTemplate | every request | checks on an earlier read; a load that began before an invalidation | modules have what they depend on; no stale context |
| members and roles (`members/`, `packages/rbac`) | TenantMember, MemberInvite | changeRole, remove, invite | guards | two owners demoting each other | always one owner |
| tenant guard (`packages/database`) | an async context | rewriting of every query | every component | a query is sent when it is awaited; nested and included rows; data of updates | tenants are isolated (I1) |
| catalog (`catalog/catalog.service.ts`, the products page) | Product, Category, ModifierGroup, links | create, update, archive, delete | orders sell what it edits | handlers without transactions; a form that sends back what it was opened with, from a list that may be old | links are somebody's choice; a sale is not undone by a form |
| services, employees, branches (`catalog/services.service.ts`, `branches/`) | Service, Employee, Resource, ServiceEmployee | create, update, archive, deactivate | bookings | count, then write, next to look up, then insert | nobody is retired under a booking made before |
| customers (`crm/`) | Customer, notes, tags | upsertFromTelegram, setPhone, markBlocked | telegram | two first messages at a time | one customer per Telegram user |
| telegram (`telegram/`) | TelegramBot, TelegramUpdate, clients per process | connect, disconnect, webhook, route, send | Telegram, notifications | a row, a webhook and caches changed one after the other; repeated updates | a bot that is shown as active hears; an update is heard once |
| Mini App (`apps/miniapp`) | SWR caches, choices | cart, product sheet, booking flow, own bookings | shop controller | answers of earlier requests; choices that outlive what they were made from | what is sent is what was shown |
| back office (`apps/admin`) | SWR caches, forms | orders, bookings, products, onboarding | the API | as above, and tables of its own for what comes next | what is offered is allowed |
| integrations, analytics, audit, Telegram identity, web site, ui, contracts, config, seed | rows, or none | one write each; queries; wording | | nothing that happens over time | |

How they meet: checkout calls the cart and spends points in its own
transaction; payments write the status of an order; every state change writes a
DomainEvent in its transaction, and a drainer later runs the handlers
(cashback, notifications with their reminders, timeline). The front ends keep
copies of what the API answered, and every request passes the guards, which read
a cached context of its business. Which property guards which hazard is in
`PROJECT.json`, at the line of the code.

## 2. Modules

| Module | Models |
|---|---|
| `Availability` | the engine and the time helpers, as operators |
| `BookingStates` | the statuses of a booking and its table of transitions |
| `Booking` (extends both) | the booking service |
| `ResourceCalendar` | abstract: reservations of a resource that never overlap; refined by `Booking` |
| `OrderPipeline` | the order statuses |
| `PaymentStates` | the states of a payment and what an intent makes of them |
| `Payments` (extends both) | the payment service and its effect on orders |
| `Inbox` | abstract: a receiver in which a message is done, with its effect, once; refined by `Payments` |
| `Gateways` (extends `PaymentStates`) | the dialogues of Payme, Click and the mock with their adapters |
| `Ordering` (extends `OrderPipeline`) | cart, checkout, status changes, stock, promo limit, points |
| `Outbox` | emitting, draining, retries and crashes of the event dispatcher |
| `Delivery` | abstract: what is emitted is handled by everyone who wants it; refuted for `Outbox` |
| `Reminders` | messages about appointments: rows, delayed jobs, workers |
| `Bots`, `Updates` | connecting a bot; what Telegram sends to it |
| `Pricing` | the calculation of an order, as operators |
| `Cart` (extends `Pricing`) | the cart, its page and checkout |
| `Sheet`, `Slots` | the product sheet and the booking flow of the Mini App |
| `Sessions`, `Login` | refresh tokens with the tabs that use them; throttling |
| `Roles`, `Members` | permissions of the roles; changes of members |
| `Modules`, `Tenancy` | modules, dependencies and templates; a business and its cached context |
| `Onboarding` (extends `Modules`) | the page that creates a business |
| `TenantGuard` | the rewriting of queries and the context it takes the tenant from |
| `Catalog` | a product, its links, and the page that edits it |
| `Staff` | retiring services and employees while customers book |
| `Desk` (extends `OrderPipeline`, `BookingStates`) | the pages on which orders and bookings move along |
| `MCBooking`, `MCPayments`, `MCOrdering`, `MCOutbox`, `MCAccess`, `MCTelegram`, `MCShop`, `MCOffice` | instances for TLC |
| `BookingProofs`, `OutboxProofs`, `OrderingProofs` | theorems about `Booking`, `Outbox`, `Ordering` and `Pricing` |
| `AccessProofs` | theorems about `Sessions`, `Members` and `Tenancy` |
| `PaymentsProofs`, `TelegramProofs` | about `Payments` and `Gateways`; about `Reminders`, `Bots` and `Updates` |
| `ShopProofs` | about `Cart`, `Slots` and `Sheet` |
| `OfficeProofs` | about `Login`, `TenantGuard`, `Catalog`, `Staff`, `Desk` and `Onboarding` |

An MC module that has several parts instantiates modules that share no state
with each other; a behaviour is one part with the others at rest, chosen by the
variable `part`. `MCOrdering` extends `Ordering` and lets a behaviour be about goods or
about points, since TLC cannot do both at a time; its third part is one order that
`Pricing` calculates. Constants of an instantiated module are checked by the
`ConstantsAssumption` of its MC module, and given their values in its `.cfg`, so that
the theorems about the MC modules are about all values.

### Plan for what is left, in order

1. Composition: `Ordering` with `Outbox`, so that the cashback is driven by the
   outbox rather than by the fact that the order was completed.
2. Refinement of smaller abstract specifications by more components: a bot that is
   connected or not (`Bots`), an account that is credited (`Ordering`).

## 3. How the modules correspond to the code

**Steps.** A handler (`Handlers`) is one request in one API process, or one
run of an event handler. One action is what it does between two points where
another transaction's commit can become visible: a read outside a transaction,
a statement inside one, the commit. `req[h]` is the handler's local state and
`req[h].pc` where it is. Row locks are explicit where the code takes them or
PostgreSQL does (`dayLock` in `Booking`; operators such as `SequenceLocked`,
`AccountLocked`, `ProductLocked` in `Ordering`, computed from what each request
has written). What a transaction has written is invisible to others until it
commits. A crash, a timeout, a constraint error and a refusal inside a
transaction are all `Abort` (or the refusing branch of the step): the
transaction rolls back and the handler is idle again. A request refused before
it changed or locked anything is no step.

**Booking.** `create` is `BeginCreate` (checks outside the transaction),
`TakeDayLock`, `CheckConflict`, `InsertBooking`; `updateStatus` and `cancelByCustomer` are a
read that decides and a write by id, which is why statuses can be stale.
`ConstraintRefuses` is the exclusion constraint `booking_no_overlap`. Time is in
ticks and the zone is a constant offset (the product's zones have no daylight
saving). The clock only moves forward; `getAvailability` is the operator
`Offered`, evaluated in every state by the properties.

**Payments.** A webhook is what an adapter makes of it: key, payment, the provider's
transaction id, intent, amount. `ReceiveWebhook` is the unlocked look at ProcessedWebhook, `InsertKey`
the insert that waits for an uncommitted copy of the same key (`InFlight`),
`ApplyIntent` the read and decision, and `WriteIntent` (`Settle`) the writes and
the 2xx. A refund above the price is refused by the row and fails; a transaction id
that another payment has is refused by a unique index, and the handler answers that
as it answers a repetition, without a record. `markCashPaid` makes a payment and applies `mark_paid` to it
without a key. `updateStatus` of the order service runs beside them, stale read
included, towards the statuses of `StaffMoves`. `raced` is a ghost: the refunds that
were let through while another of the payment was about to be written.

**Ordering.** `checkout` is `BeginCheckout` (cart, price, promo code),
`TakeNumber` (the upsert of OrderSequence, which locks the day's row to the end),
`ReadBalance`/`SpendPoints`, `ReadStock`/`TakeStock` per product and
`CommitCheckout`. `WriteStatus` returns the goods in the transaction that
cancels. Loyalty writers lock the account, read it and post. Columns that follow from
others are not variables: PromoCode.usageCount from PromoUsage, `Customer.loyaltyBalance` from
the account, and orderCount, totalSpent and InventoryTransaction from orders and
histories; in each case the code writes both in one transaction. A product with variants is several
products to this model, and the lines of one product are one line: reserveStock
reads its own earlier writes. The reads of checkout before its transaction are
one step; the checks in the transaction do not rely on them, except the promo
limit. `edited` is a ghost variable.

**Outbox.** A drainer is one process's `draining` flag, or the drain with which a
worker starts; it runs one drain at a time. Each statement of a drain is a
transaction of its own and an action: `Select` (candidates), `Claim` (the
conditional update), `Reread` (every candidate that is PROCESSING by now, whoever
claimed it), then per row and consumer `Check`, `Handle`, `Record`, and
`Finalize`. A consumer may throw before or after its work is done; a failing
recordRun of a success is the latter, since it is inside the try. `EndEarly` is a
dead process or an error of any other statement, which ends the whole drain.
`dropped` and `ended` are ghosts. Drains end early at most `MaxEnded` times and a
consumer fails as often as `MaxFailures` allows it. Events are
numbered by occurredAt and may become visible in any order. No caller gives
`emit` a later availableAt.

**Gateways.** A transaction of the payer is opened for an amount; `sent` are the
calls the provider has made, any of which may be delivered again at any moment.
A delivery is the adapter, the key it makes and the intent applied, in one step.
What a provider says next follows from what it was told (`After`). Payme's Perform
and Cancel may come without the account that names our payment (`paymentIdFrom`,
`payme.ts:204-207`): a behaviour chooses the methods that name it (`named`), and the
others are recorded and answered without effect (`payments.service.ts:237`).

**Reminders.** One action per statement, command to Redis or call of Telegram.
A drainer tells the customer and queues or withdraws jobs; a worker takes a due
job, looks at the booking (`Check`), writes the row (`Record`), sends (`Send`) and
writes the outcome (`Update`). `Stall` takes a job from a worker that is dead or
slow. `excused` marks reminders that the queue, a process or the time lost.

**Bots, Updates.** The three stores of a bot are the row (`bot`), Telegram's
webhooks (`hook`) and a client per process (`client`); a request changes one at
a time. Updates are recorded (`processed`) before anything is done about them.

**Pricing, Cart, Sheet, Slots.** `Compute` follows `compute` rule by rule, and
`IsOrder` is what the schemas let through, with whole percentages only. Shares
of a discount are exact here and doubles in the code, so that of equal
remainders another than the first may be rounded up there; nothing that is said
of a receipt depends on which. In `Cart` every tap is a request and every statement of the server a step; the
page has one summary for each way of fulfilment, answered from some earlier
moment, and what SWR does with keys, focus and overtaken answers is modelled
from how the pages use it. A request that is refused leaves the page as it was.
`stale` and `disputed` are ghosts, as is `offered` in `Slots` and `baffled` in `Sheet`.

**Sessions, Login.** A refresh is `Read`, then `Consume` and `Issue`, or
`EndFamily`; a tab can be reloaded at any time, which forgets its request but
not the cookie. A login reads both limits, verifies, and then counts with INCR,
EXPIRE and the write of the user's row, each a step. Ghosts tally the wrong passwords
of a window (`guesses`) and since an account's last login (`wrong`), and those whose
login died before it could count them (`missed`, `unwritten`).

**Members, Tenancy, TenantGuard.** The guards, the reads, the count and the
write of a change of members are steps. In `Tenancy` a writer changes the
database and then deletes the entry, a reader misses, loads and stores. In
`TenantGuard` a query is written (`Read`, `Write`, `Create`) in one scope and
sent (`Send`) in the same, another or none; `reply` holds the rows that it got, and
what was `attached` to them: included, cascaded or nested, which is found by an id and
not by the guard. The data of an update goes out as the caller wrote it. Two tables
stand for rows linked by a foreign key; `Employee` is at both ends of the link.

**Catalog, Staff, Desk, Onboarding.** As above: a request per editor, manager,
customer or tap; a step per statement; a page with the copy it shows. In `Desk`
a behaviour has one page (orders, bookings, or the bookings of a customer), and
`Elsewhere` is everybody else who changes the row by the service's table. In `Catalog`
an answer may be lost and a reload may fail without a word (`products/page.tsx:168-179`);
the page then keeps its list, and its form where the answer was lost. What is still in
the form of the category is not modelled: any may be sent. `Onboarding` is about the
page; what a creation writes is left out, but for the modules a business starts with,
which are `Tenancy`'s.
`withDependencies` of `Modules` is two rounds where the code walks the graph until
nothing is added; `DependenciesClosed` proves that two are enough for the table of
dependencies there is.

**Left out everywhere**: tenants other than one (but in `TenantGuard`), wording, snapshots, audit rows (but for the amount mismatch), paging.

## 4. Runs

All bounds are CONSTANTS of the module, named in its header: days, clock,
statuses per row (`MaxHistory`), entries per account (`MaxEntries`), units in a
line (`MaxLine`), tokens, changes, edits, times. They are guards of the inputs
only, never of a step that has begun, except in `Cart`, where an addition that
would exceed one waits for ever. Deadlock is not checked because a bounded
instance runs out of ids and bounds; a waiting handler can always abort.
Handlers are interchangeable, and so are order ids in `Ordering`, tabs, writers
and times, hence the symmetry sets; no run with symmetry checks liveness.

| Run | Shows | Instance |
|---|---|---|
| `booking` | no double booking, the checked span stays free unless a stale write revives a booking, offered = bookable, refinement of `ResourceCalendar` | 2 handlers, 2 rows, 2 specialists (branch hours, split shift, buffer, time off), 2 services, zone off UTC |
| `payments` | a 2xx is durable, the order agrees with its payments, no more is refunded than came in, refinement of `Inbox`; money and payment agree for every provider | 2 handlers, 2 payments of one order, 7 callbacks (three refunds of one payment with keys of their own, one of them above the price; a transaction id that two payments claim), cash, staff who cancel, crashes; 2 transactions of 1 payment at Click, Payme and the mock, with and without the account in Payme's calls |
| `ordering` | reserved stock; one cashback per order, writers that lock agree with the ledger; a receipt adds up | 2 handlers, 3 orders, 2 units, promo code for one use, 2 days; 2 orders, 1 point, corrections of -1 and 1; orders of up to 3 lines with every kind of promo code, delivery and points |
| `outbox` | an event is PROCESSED only when all its consumers handled it, one that is PROCESSING is in some drainer's hands, and every event is handled in the end, retries past the last attempt included, unless a drain that had it ended early | 2 drainers, 2 events, 2 consumers of which one can fail twice, 2 attempts, 1 drain that ends early |
| `access` | an ended session stays dead but for a rotation that was under way, an undisturbed family has one live token and is never taken for reused, an owner remains unless one change overtakes another; modules have what they depend on, a cached context is fresh unless a race or a death excuses it | 2 tabs of a browser, 2 requests, 3 tokens, 2 families; 3 users, platform staff, 2 requests; 2 writers, 1 reader; tabs and writers symmetric |
| `telegram` | a reminder is sent once, not after the booking was closed, and comes in the end; a connected bot hears, a process speaks as the bot of the row; an update is heard once | 1 booking with 2 offsets, 2 drainers, 2 workers, 2 attempts; 2 tokens, 2 processes, 2 requests; 3 updates, 2 deliveries |
| `shop` | the sum on the button is charged, what is booked was offered, a selection is refused for a reason | a cart of 1 line, 2 requests; 2 services, 2 specialists, 2 days, 2 times; a group of 3 options with 5 limits, 2 variants |
| `office` | wrong passwords are counted, each once, and a throttle ends; queries reach rows of their tenant only; links and stock are what was chosen and entered; the desk offers what is allowed; onboarding recommends for the answers shown; what is retired is free | 2 logins, a limit of 1; 2 tenants, 2 tables, 2 nested scopes; 2 editors of 2 groups; 1 page and 1 program that enter a stock, and sales; the three pages of the desk with 1 row each; 2 recommendations; 1 employee, 2 customers, 2 managers |
| `booking_any_slot` (violated) | the merged list offers starts that a booking without a specialist refuses | as `booking` |
| `payments_cancel` (violated) | Payme's cancellation of a performed transaction is answered as done and changes nothing | as `payments` |
| `points_ledger` (violated) | I5: a checkout overwrites a concurrent adjustment | as `ordering` |
| `outbox_crash` (violated) | events claimed by a drainer that dies stay PROCESSING: delivery is not at-least-once | as `outbox` |

Many properties have an excuse in them ("unless ..."), carried by a ghost variable.
Each excuse is a gap in the code that TLC found when the property was stated without
it, and the model goes through the gap like the code does. Such a property says that
nothing else breaks what it is about; it does not say that the gap is harmless, and
where the gap is the hazard itself, the hazard is bounded and not caught. In
`PROJECT.json` the `note` of a hazard says what is left out. That is so of

- overlaps that the code does nothing against: the second of two refunds (`raced`), two
  changes of members or modules (`overtaken`), two rotations of one token (`forked`) or
  one that a revocation overtakes (`ended`), a cache load that a change overtakes
  (`excused`), a login in the middle of another attempt or a count written over from an
  older one (`crossed`, `overtaken`), connects that overlap (`upset`) or a client older
  than another process's change (`foreign`), changes of a cart and by staff (`stale`),
  a booking made during a retirement (`crossed`), answers changed under a recommendation
  (`disturbed`);
- failures: drains that end early (`dropped`), lost answers of a refresh (`disturbed`), a
  counter without a time to live (`orphaned`), reminders and updates that a queue or a
  process lost (`excused`), a rewriting cut short (`bruised`);
- data that the code takes as it comes: a form whose row is out of date (`moved`), the
  day before UTC has caught up (`early`), updates and links across tenants (`mixed`),
  calls that do not name their payment (`named`).

Most of these are set by exactly the overlap or failure that the property's comment
names and end with it. Three are wider. `upset` of `Bots` is never cleared: once two
requests overlapped or one ended half done, nothing more is said of the webhook, although
a later connect repairs it. `excused` of `Reminders` covers any error of the queue and
any attempt that failed or stalled, also one after which the retry still sends.
`overtaken` of `Members` and of `Tenancy` stays for the rest of the behaviour.

Why the bounds are enough: each property speaks of two rows or two requests at a
time, so two handlers and two rows (three orders where a limit of one use must
be exceeded by more than one) contain a smallest violation; in `Outbox` two
attempts are enough to pass through PENDING again and FAILED, and the batch
holds both events, so the limit of a batch never bites; the mutants of
`PROJECT.json` confirm that breaking a guard, a lock or a check is seen within
them. In the modules of several parts two requests are enough because a race needs
one to overtake another; a third would only repeat it. `MaxLoginAttempts` is 1,
so that a second failure is one too many, and the account of `Login` may be tried with
`2 * MaxLoginAttempts` wrong passwords, which is what locks it. Staff of `Payments` only
cancel (`StaffMoves`): no property looks at the status of an order. In the stock part of
`Catalog` the page is one and the other actor who enters a stock a program, since two
pages have over a million states; `StockIsAsEntered` is for any number of both. `Reminders` has
an offset that the settings list and one that they do not. The booking instance
is one local day because a block never leaves its
day; that this is so for all days is a theorem (`OverlapMeansSameDay`).

Read together, the properties of `Ordering` say what really protects the stock:
not the read in reserveStock but the order-number row, which every checkout
locks first. `ReservedStock` therefore has three conditions, and each is a gap
in the code: checkouts on both sides of a UTC midnight lock different rows, two
stale cancellations return goods twice, and an edit of the product overwrites
the stock. In the same way `LockedWritersAgree` holds exactly for the customers who
never spent points at a checkout.

### Seen while modelling, without a run

Where the code differs from a document or comment, or does what its reader
would not expect. Each is in the model as the code has it.

*Bookings.* `docs/architecture/09-booking-engine.md:80` promises an event for every
transition, the code emits one for creation, completion and cancellation only.
`00-overview.md` credits I3 to the day lock alone, but a stale `updateStatus`,
which takes no lock, is stopped only by the exclusion constraint. The same stale
write takes a booking out of CANCELLED or COMPLETED (`bookings.service.ts:317-332`;
the document, lines 75-78, has no such arrow). Time off entered after a customer
saw a start is not looked at by `create`. A booking names a specialist without a
check that he offers the service.

*Payments.* A mismatch of amounts leaves the payment PENDING: its FAILED state is
rolled back by its own error (`payments.service.ts:303-320`; `08-payments.md:74` says
it fails the payment). A settlement sets ACCEPTED whatever the order's status
(350-353; `01-domain-model.md:107-108` has transitions validated). Money taken at
the counter and a callback on its way can both be charged, and a failed payment
sets the order to FAILED although another one is paid. PROCESSING is never
reached, and the refund, cancel and status calls of the providers have no caller.
Two refunds with keys of their own that both read PAID are both entered. A callback
whose transaction id another payment has is answered as handled and is not on record.
A Payme call without `account` is acknowledged and has no effect, a performance included
(`payme.ts:204-207`, `payments.service.ts:237`; the tests at `providers.spec.ts:247-263`
send such calls to the adapter alone, and `guides/payments.md` has PerformTransaction
mean mark_paid).
Payme's CheckPerformTransaction allows everything, and a performance that follows
a cancellation is answered as a success while the payment stays CANCELLED. The
key of CheckTransaction contains the time (`guides/payments.md:104`: never), a repeated
call gets the stored answer with the old JSON-RPC id, and the mock does not settle
at once (line 126: it does).

*Orders, points, stock.* An item added while its cart is checked out is deleted
unordered, and a checkout sent twice makes two orders of one cart. A cancelled order
gives back goods but not points. A checkout does not look again whether a product
is active. `01-domain-model.md:128-130` has stockQuantity follow the ledger; `updateProduct`
writes it without, and a return can be lost to a concurrent checkout
(`orders.service.ts:524`, `559-567`, `620-623`). A staff order empties and fills the
customer's own cart, and fails for a pickup below the minimum for deliveries.

*Events.* `event-dispatcher.service.ts:61` says that two workers cannot take the same
rows, but both read every candidate the other claimed (`Reread`), so a consumer may
handle one event twice at once and a stale `Finalize` may put a PROCESSED event
back to PENDING; lines 23-24 and `06-domain-events.md` section 4 promise order per
aggregate, and nothing keeps a retried event before the later ones. Messages about
an event and timeline rows repeat with their handler.

*Messages and Telegram.* `queue.service.ts:55-56` calls the outbox the safety net of
a failed `add`; the run that called it succeeds, so nothing comes again. The
dictionary lacks the keys of the messages about orders, so a business without templates
of its own sends none (`notifications.service.ts:70-72`). Nothing takes back the mark
of a customer who blocked the bot. With polling, the default, a bot is shown as
ACTIVE and nothing fetches its updates. Buttons of the menu other than the Mini
App's get the default answer (`telegram-update.router.ts:166`). A shared contact
whose phone another record has is refused, so the two stay two
(`customers.service.ts:155-156`).

*Cart and Mini App.* The threshold of free delivery is judged after the discount,
which is what makes the fee appear that the comment wants to avoid
(`pricing.service.ts:243-245`). A change of the cart is written before the summary,
as if for a delivery, refuses it; the page then shows the old one
(`cart/page.tsx:290-292`). There is no way to take a code off. In the product sheet a
group that needs two options starts with one, the first variant is chosen in stock
or not, and quantities are not compared with the stock. The page of services takes the
date of a day in UTC, and does not refresh after a refusal as its comment has it
(`services/page.tsx:87-88`).

*Businesses.* The onboarding page lists the recommended modules as those to be
switched on (`onboarding/page.tsx:258`), creation switches on the template's. Picking
SERVICE fills in answers for which BEAUTY is recommended (lines 163-164: they
confirm the choice). A retry after a lost answer makes a second business with slug -2.
The cache under the slug is never filled, and a stale load can outlive an
invalidation for the rest of its minute (`tenant-cache.service.ts:24-26`: takes
effect immediately). No code accepts an invitation, deactivates a member or writes
the overrides of a permission; SUSPENDED and DELETED are never written. Two default
branches come of two requests at once, none of a crash between them
(`branches.service.ts:31`: exactly one).

*Tenant guard.* It scopes where clauses and stamps what is created. The data of an
update is sent as it is, and two controllers pass a body on without a schema
(`branches.controller.ts:31`, `69`); links are made with ids that are not looked up
(`branches.service.ts:173-180`); and what an include reads is found by a foreign key,
which is an id alone. `02-tenant-isolation.md:95-102` says that filters do not help with
such links, and has ids resolved through the guarded client and composite foreign keys
instead; `OwnRowsOnly` therefore tells the rows of an answer from what is attached to
them.

*Back office.* A page that keeps its old list after a silent failure of the reload, or
after a lost answer, fills its next form from it. The flow of order statuses offers DELIVERING for orders to be picked up,
and it is the only button from READY; bookings have no button for NO_SHOW or a
cancellation; the button of an order row stays enabled while its status is changed.
An emptied description cannot be saved, an archived product's open form can.
`deleteCategory` counts products and not services; `updateCategory` refuses a category
as its own parent, but not two as each other's; an archived service can be booked again
after PATCH isActive; updateProduct does not compare oldPrice with price. The windows of
analytics share their boundary, its days are UTC's, and "paidOrders" counts unpaid ones.

## 5. Fairness

`Outbox`, `Login` and `Reminders` state liveness; everything else is a safety
property, and a handler may stop at any point.

- `Outbox` assumes weak fairness of each drainer's next step, because the 2 s
  interval starts a drain in every running process and a process that died is
  started again, and of the clock that ends a backoff. Nothing is assumed of
  emitters or of drains ending early. A consumer fails a bounded number of times
  (`MaxFailures`); without that bound no retry could promise anything.
- `Login` (`ThrottleEnds`) assumes that a process works on what it has begun and
  that Redis drops a key whose time to live is over. Nobody has to try again, and
  a process may die between two steps.
- `Reminders` (`ReminderComes`) assumes that time passes, that a worker which is
  alive works on (`Step`), and that some worker takes a due job, which is what
  BullMQ does while the worker process runs. Weak fairness of `Step` is enough:
  nothing but the worker's own step, or a stall, which is excused, disables it.

No run with symmetry checks liveness.

## 6. Proofs

Every safety property that a passing run checks, and both refinements, are theorems
checked by TLAPS, for every value of the constants: any number of handlers, rows,
tabs, tenants, products and bounds. Nearly all rest on an
inductive invariant, since none of the properties is inductive by itself: what
matters is what a request that is half way knows and holds, and the properties
speak of rows. The invariants were checked by TLC on the instances above before
they were proved.

| Theorems | Inductive invariant | What it adds to the property |
|---|---|---|
| `NeverDoubleBooked`, `CheckHolds`, `TypeCorrect`, `LocksAreScoped` (`BookingProofs`) | `Inv` | two creations whose spans overlap hold the same lock: see below |
| `Implements` | `Inv` | every step of `Booking` is one of `ResourceCalendar` under `Held`, or changes nothing of it |
| `OffersAreKept`, `NothingIsHidden` | TypeOK | `getAvailability` and `create` are one predicate of a slot (`OfferedIs`), for any hours, buffers, time off and bookings |
| `RepliesAreDurable`, `OrdersReflectTheirPayments`, `NoMoreIsRefunded`, `PaymentsImplementInbox` (`PaymentsProofs`) | `PaymentsInv` | one handler at most is in the transaction of a key that is not on record; what it read still stands where its write relies on it; a row that may be refunded has more receipts than refunds, those that raced left out |
| `ShopAndProviderAgree` | `GatewaysInv` | what a call about money that is on record or was answered has done to the ledger |
| `OrdersEarnOnce`, `OrderingInvariant` (`OrderingProofs`) | `PointsInv` | a checkout has an order of its own that is not there yet, what it will write is not negative, an accrual is of a completed order |
| `LockedWritersKeepSums` | `AccountsInv` | an account has one holder, and the balance he read is the one that is there |
| `StockIsReserved` | `GoodsInv` | a day's sequence row has one holder, and what he read of a stock he may still take, until there is an order of another day |
| `ReceiptsAddUp`, `DiscountsAddUp` | none: a calculation | largest remainders round up as many shares as the rest of the discount has units: see below |
| `ProcessedEventsAreHandled`, `ClaimedEventsAreHeld` (`OutboxProofs`) | `OutboxInv` | the consumers a drain has gone past have handled its row; a run on record was preceded by its work |
| `EndedFamiliesDie`, `FamiliesHaveOneHeir`, `CalmTabsStayIn` (`AccessProofs`) | `SessionsInv` | a family has one claim to its next token, and an undisturbed one is in one hand: a cookie, a request or an answer |
| `AnOwnerRemains` | `MembersInv` | a request that has counted owners, and that nothing has outrun, leaves one |
| `DependenciesStayMet`, `CacheStaysFresh` | `TenancyInv` | what a writer saw still stands, and a load that nothing has outrun has the current row |
| `RemindersComeOnce`, `ClosedAreNotRemindedOf` (`TelegramProofs`) | `RemindersInv` | one worker at most is about to send, and one that has looked knows of a booking closed since |
| `ConnectedBotsHear`, `ProcessesSpeakAsBot` | `BotsInv` | what the request in progress has done so far; which client a process is about to keep |
| `UpdatesAreHeardOnce` | `UpdatesInv` | one delivery at most works on an update, which is recorded and unheard |
| `ButtonIsHonest` (`ShopProofs`) | `CartInv` | an answer that nothing came between is what the server would answer now, and a sum agreed on is the one due |
| `OffersAreBooked` | `SlotsInv` | a chosen time was in an answer for the service, specialist and day chosen now |
| `RefusalsHaveReasons` | `SheetInv` | a selection suits the copy of the product it was made for |
| `TenantsAreIsolated` (`OfficeProofs`) | `GuardInv` | a query that waits was written in the scope that is open, for its tenant; a link and its row that no query mixed have one tenant |
| `WrongPasswordsCount` | `LoginInv` | the tallies of wrong passwords are the counters and what the logins in flight have yet to count; a login that has read a row nobody reset since has read no more than was tried |
| `ChoicesSurvive`, `StockIsAsEntered` | `LinksInv`, `StockInv` | the links between two statements of a rewriting; what a list, an untouched form and a body on its way have of the stock |
| `OffersAreHonoured` | `DeskInv` | a copy of a row that was not changed since is what the row is; a change asked for is allowed while the row is what it was on the page |
| `ShownIsForTheAnswers` | `OnboardingInv` | what is awaited was asked for the answers on the page, unless one was changed under it |
| `RetiredAreFree` | `StaffInv` | every booking with what is being retired, made or in the making, is known to have crossed its retirement |

**The argument for bookings.** NoDoubleBooking alone would nearly be inductive,
since the constraint is looked at in every step that writes a row.
CheckedSpanStaysFree is not: it needs that two creations whose spans overlap hold the
same lock. `Inv` therefore adds `LockInv` (a request between the conflict query and
the insert holds the lock of its own resource and day, and no one else does),
`BlocksInv` (what a request or a row holds is a block of an appointment inside working
hours), from which `OverlapMeansSameDay` gives one day and so one lock; `FreshIds`
(two creations never use one id), `TargetExists` (a status write names an existing
row) and `HistoryEndsAtStatus`, so that a row that occupies again after having been
free shows it in its history.

**The argument for stock.** `ReadStock` looks without a lock and `TakeStock` writes
what it computed, so a stock could be written back to what it was before another
checkout. It is not, because a checkout holds the sequence row of its day from
before it reads until it commits (`NumbersHeld`). What it has read can therefore only
have grown by cancellations while all orders are of one day and nobody edits
the product (`ReadsHold`); at the commit, what it leaves and what it takes is at most
what is there, and the sum of `StockCovers` stays covered. The first order of another
day makes `ReservedStock` true for good by its condition, which is why `ReadsHold`
ends there as well.

**Sums.** Balances, stocks and ledgers are compared with folds over sets and
sequences, and a fold is defined by elements that are chosen. That the order makes
no difference is proved without induction: if two sums of some subset differed, there
would be a smallest such subset, and taking one element out of it would give a
smaller one. The last
element of a ledger, or an order more or less, is then one term more or less
(`SumFacts`, `SoldFacts`).

**The argument for receipts.** Rounding down the shares of a discount leaves a rest.
Times the sum of the weights it is the total of the remainders (`RestIs`), each of which
is less than that sum, so the rest is at most the number of shares with a remainder
(`RestFits`). The remainders, and the indices where they are equal, rank the lines, each
with a rank of its own, so exactly as many have a rank below the rest as the rest
says (`FirstOnes`), and all of them have a remainder. Hence the parts add up, no line gets
more than it is worth, and of two lines the dearer has the larger share, or the same and
the larger remainder (`LargerShare`).

**Assumptions.** They are the `...Assumption` of each module, and say what the code or
its database guarantees of the constants: durations and the slot step are positive,
buffers are natural numbers, the resource 0 stands for "any" and the tables of hours have
the right shape; one key of a callback has one content; amounts and prices are
natural numbers; no tab, tenant, account or row has the name that stands for none;
the three kinds of rows of the desk are different ones, and so are programs and
pages; there are finitely many login handlers, events and consumers; groups of
options are disjoint, not empty, and ask for no more than they allow, which is what
`createModifierGroupSchema` accepts; amounts and percentages are not negative, as
`moneySchema` and `percentageSchema` say. TLC evaluates them in the runs. The two theorems
about availability have a hypothesis of their own, `ZoneIsNear`: getAvailability finds
the weekday at noon UTC (`bookings.service.ts:83`), so a zone twelve or more hours east,
or more than twelve west, would get the hours of another weekday.

**Left to TLC.** Liveness (`LostOnlyByEndingEarly`, `ThrottleEnds`, `ReminderComes`),
which is outside the prover's reach, and the violations. The TypeOK of each module is a
conjunct of its invariant and not a property of a run.

## 7. Not modelled

- Integrations, Telegram identity, password hashing, the vault: cryptography
  around one row or one string.
- Analytics and audit: aggregates over a snapshot and an append-only log.
- Contracts, configuration, i18n, ui, web site, seed, deployment: no behaviour of
  their own.
- In modelled parts: registration and access tokens; the slug, the content and the trial
  of a new business; variants, updateCategory and
  updateModifierGroup of the catalog; schedules, time off and branches as rows
  (their effect on availability is in `Availability`); notes, tags and segments of
  customers; bot replies; the polling mode, which has no receiver; pages that
  only read or send one form.
