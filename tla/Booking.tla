------------------------------- MODULE Booking -------------------------------
(***************************************************************************)
(* The booking service (apps/api/src/modules/bookings/bookings.service.ts) *)
(* over its PostgreSQL tables.  Request handlers run concurrently; a       *)
(* handler's step is what it does between two points where another         *)
(* handler's committed work can come in: a read outside a transaction, a   *)
(* statement under READ COMMITTED, a commit.  A request that is refused    *)
(* without having changed or locked anything is no step at all.            *)
(***************************************************************************)
EXTENDS Availability, BookingStates, Sequences, FiniteSets

CONSTANTS
  Handlers,       \* request handlers of the API processes
  Bookings,       \* row ids; every creation that commits uses a fresh one
  Customers,
  Resources,      \* numbered 1, 2, ... in the order of their names
  Services,
  Duration,       \* Services -> ticks
  ServiceBuffer,  \* Services -> [before, after]
  ResourceBuffer, \* Resources -> [before, after]
  Qualified,      \* Services -> resources that can perform it
  BusinessHours,  \* weekday -> windows of the tenant
  BranchHours,    \* Resources -> weekday -> windows of its branch ({}: none)
  Schedule,       \* Resources -> weekday -> its own windows
  TimeOff,        \* Resources -> spans it is away
  MinLead,        \* bookingSettings.minLeadTimeMinutes
  MaxAdvance,     \* bookingSettings.maxAdvanceDays
  CancelDeadline, \* bookingSettings.cancellationDeadlineMinutes
  AutoConfirm,    \* bookingSettings.autoConfirm
  LastDay,        \* bound: local days 0 .. LastDay are modelled
  MaxNow,         \* bound on the clock
  MaxHistory      \* bound: a booking with this many statuses takes no request

Weekdays == 0 .. 6
Days == 0 .. LastDay
Instants == ZonedTimeToUtc(0, 0) .. ZonedTimeToUtc(LastDay + 1, 0)
Spans == [from : Instants, to : Instants]
Buffers == [before : Nat, after : Nat]
AnyResource == 0

ASSUME BookingAssumption ==
  /\ Bookings # {} /\ Customers # {} /\ Resources # {}
  /\ Resources \subseteq Nat \ {AnyResource}
  /\ Duration \in [Services -> Nat \ {0}]
  /\ ServiceBuffer \in [Services -> Buffers]
  /\ ResourceBuffer \in [Resources -> Buffers]
  /\ Qualified \in [Services -> SUBSET Resources]
  /\ BusinessHours \in [Weekdays -> SUBSET TimeRange]
  /\ BranchHours \in [Resources -> [Weekdays -> SUBSET TimeRange]]
  /\ Schedule \in [Resources -> [Weekdays -> SUBSET TimeRange]]
  /\ TimeOff \in [Resources -> SUBSET Spans]
  /\ MinLead \in Nat /\ MaxAdvance \in Nat /\ CancelDeadline \in Nat
  /\ AutoConfirm \in BOOLEAN
  /\ LastDay \in Nat /\ MaxNow \in Int /\ MaxHistory \in Nat \ {0}

VARIABLES
  now,          \* the clock
  rows,         \* the Booking table
  history,      \* BookingStatusHistory, per booking in insertion order
  bookingCount, \* Customer.bookingCount
  outbox,       \* domain events written about each booking, in order
  dayLock,      \* ResourceDayLock rows locked FOR UPDATE, and by whom
  req           \* what each handler is doing

vars == <<now, rows, history, bookingCount, outbox, dayLock, req>>

-----------------------------------------------------------------------------
(* Rows. *)

NoRow == "ABSENT"

Row == [status : Statuses \cup {NoRow}, customer : Customers,
        resource : Resources, startsAt : Instants, from : Instants, to : Instants]

StatusChange == [from : Statuses \cup {NoRow}, to : Statuses]

EventTypes == {"BOOKING_CREATED", "BOOKING_COMPLETED", "BOOKING_CANCELLED"}

Exists(b) == rows[b].status # NoRow

Occupies(b) == Exists(b) /\ rows[b].status \notin FreeStatuses

\* The rows that block a span of a resource.
Blockers(r, from, to) ==
  { b \in Bookings : /\ Occupies(b)
                     /\ rows[b].resource = r
                     /\ RangesOverlap(rows[b].from, rows[b].to, from, to) }

\* A mistake the checks must catch: only new rows are looked at.
ConstraintOnInsertOnly(b, r, from, to, status) ==
  ~Exists(b) /\ status \notin FreeStatuses /\ Blockers(r, from, to) # {}

\* booking_no_overlap: the exclusion constraint refuses a row that occupies a
\* span another occupying row overlaps.
ConstraintRefuses(b, r, from, to, status) ==
  status \notin FreeStatuses /\ Blockers(r, from, to) \ {b} # {}

-----------------------------------------------------------------------------
(* What a request computes before its transaction. *)

BufferBefore(svc, r) == Larger(ServiceBuffer[svc].before, ResourceBuffer[r].before)

BufferAfter(svc, r) == Larger(ServiceBuffer[svc].after, ResourceBuffer[r].after)

BlockAt(svc, r, t) == Slot(t, BufferBefore(svc, r), Duration[svc], BufferAfter(svc, r))

\* Slots of one resource on a local day whose business hours are those of
\* `weekday`; the engine itself picks the resource's shifts by the date.
SlotsOf(svc, r, day, weekday, blocked, t0, lead, horizon) ==
  ComputeAvailability(day,
    WorkingWindows(BusinessHours[weekday], BranchHours[r][weekday],
                   Schedule[r][WeekdayOf(day)]),
    BufferBefore(svc, r), Duration[svc], BufferAfter(svc, r),
    blocked, t0, lead, horizon)

\* resourcesForService: a named resource is taken as it is.
ResourcesForService(svc, choice) ==
  IF choice = AnyResource THEN Qualified[svc] ELSE {choice} \cap Resources

\* resolveResource: of several candidates, the first by name.
ResolveResource(svc, choice) ==
  { r \in ResourcesForService(svc, choice) :
      \A q \in ResourcesForService(svc, choice) : r <= q }

\* The starts assertWithinWorkingHours admits: the engine run with nothing
\* blocked and with a clock and a horizon that reject nothing.  Hours and
\* services do not change here, so neither does this set.
WorkingSlots ==
  UNION { { [service |-> svc, resource |-> r, slot |-> s] :
              s \in SlotsOf(svc, r, day, WeekdayOf(day), {}, ZonedTimeToUtc(0, 0),
                            0, (LastDay + 2) * TicksPerDay) } :
          svc \in Services, r \in Resources, day \in Days }

\* assertWithinWorkingHours: the start is on the grid of its own local day.
WithinWorkingHours(svc, r, t) ==
  \E w \in WorkingSlots : w.service = svc /\ w.resource = r /\ w.slot.startsAt = t

\* A mistake the checks must catch: the lead time is exclusive here.
AcceptsTimeStrictly(svc, r, t) ==
  t > now + MinLead /\ t <= now + MaxAdvance /\ WithinWorkingHours(svc, r, t)

\* The checks create makes before it opens its transaction.
AcceptsTime(svc, r, t) ==
  /\ t >= now + MinLead
  /\ t <= now + MaxAdvance
  /\ WithinWorkingHours(svc, r, t)

\* A mistake the checks must catch: the weekday is that of local midnight, in UTC.
OfferedByUtcWeekday(svc, r, day) ==
  SlotsOf(svc, r, day, WeekdayOf(ZonedTimeToUtc(day, 0) \div TicksPerDay),
          { [from |-> rows[b].from, to |-> rows[b].to] :
              b \in { a \in Bookings : Occupies(a) /\ rows[a].resource = r } } \cup TimeOff[r],
          now, MinLead, MaxAdvance)

\* getAvailability: the bookings around the day and the time off are taken
\* out.  The weekday is that of noon UTC on the requested date.
Offered(svc, r, day) ==
  LET near == { b \in Bookings :
                  /\ Occupies(b) /\ rows[b].resource = r
                  /\ rows[b].from < (day + 2) * TicksPerDay
                  /\ rows[b].to > (day - 1) * TicksPerDay }
  IN  SlotsOf(svc, r, day, LocalWeekday(day * TicksPerDay + TicksPerDay \div 2),
              { [from |-> rows[b].from, to |-> rows[b].to] : b \in near } \cup TimeOff[r],
              now, MinLead, MaxAdvance)

-----------------------------------------------------------------------------
(* Handlers and the day lock. *)

CreatePcs == {"lock", "check", "insert"}

Request ==
  [pc : {"idle", "cancel", "write"} \cup CreatePcs, booking : Bookings,
   customer : Customers, resource : Resources,
   startsAt : Instants, from : Instants, to : Instants,
   seen : Statuses, next : Statuses]

DayLock == [resource : Resources, day : Int, holder : Handlers]

\* A mistake the checks must catch: the lock is for the day in UTC.
UtcDay(q) == q.startsAt \div TicksPerDay

Day(q) == LocalDay(q.startsAt)

Locked(r, day) == \E l \in dayLock : l.resource = r /\ l.day = day

Idle ==
  [pc |-> "idle", booking |-> CHOOSE b \in Bookings : TRUE,
   customer |-> CHOOSE c \in Customers : TRUE, resource |-> CHOOSE r \in Resources : TRUE,
   startsAt |-> ZonedTimeToUtc(0, 0), from |-> ZonedTimeToUtc(0, 0),
   to |-> ZonedTimeToUtc(0, 0), seen |-> "PENDING", next |-> "PENDING"]

\* The end of a request: its transaction, if any, is over and its locks go.
Finish(h) ==
  /\ req' = [req EXCEPT ![h] = Idle]
  /\ dayLock' = { l \in dayLock : l.holder # h }

Goto(h, pc) == req' = [req EXCEPT ![h].pc = pc]

InitialStatus == IF AutoConfirm THEN "CONFIRMED" ELSE "PENDING"

\* A mistake the checks must catch: the row blocks from the start, not the buffer.
NewRowUnbuffered(q) ==
  [status |-> InitialStatus, customer |-> q.customer, resource |-> q.resource,
   startsAt |-> q.startsAt, from |-> q.startsAt, to |-> q.to]

\* The columns of a new row.
NewRow(q) == [status |-> InitialStatus, customer |-> q.customer, resource |-> q.resource,
              startsAt |-> q.startsAt, from |-> q.from, to |-> q.to]

-----------------------------------------------------------------------------
Init ==
  /\ now = ZonedTimeToUtc(0, 0)
  /\ rows = [b \in Bookings |->
               [status |-> NoRow, customer |-> Idle.customer, resource |-> Idle.resource,
                startsAt |-> Idle.startsAt, from |-> Idle.from, to |-> Idle.to]]
  /\ history = [b \in Bookings |-> <<>>]
  /\ bookingCount = [c \in Customers |-> 0]
  /\ outbox = [b \in Bookings |-> <<>>]
  /\ dayLock = {}
  /\ req = [h \in Handlers |-> Idle]

Tick ==
  /\ now < MaxNow
  /\ now' = now + 1
  /\ UNCHANGED <<rows, history, bookingCount, outbox, dayLock, req>>

(***************************************************************************)
(* create.  Everything before the transaction reads only data that does    *)
(* not change here, so it is one step with the clock it looked at.         *)
(***************************************************************************)
BeginCreate(h, b, c, svc, choice, t) ==
  /\ req[h].pc = "idle"
  /\ ~Exists(b)
  /\ \A g \in Handlers : req[g].pc \in CreatePcs => req[g].booking # b
  /\ \E r \in ResolveResource(svc, choice) :
       /\ AcceptsTime(svc, r, t)
       /\ LET s == BlockAt(svc, r, t) IN
          req' = [req EXCEPT ![h] =
                    [Idle EXCEPT !.pc = "lock", !.booking = b, !.customer = c,
                       !.resource = r, !.startsAt = t, !.from = s.from, !.to = s.to]]
  /\ UNCHANGED <<now, rows, history, bookingCount, outbox, dayLock>>

\* INSERT ... ON CONFLICT DO NOTHING, then SELECT ... FOR UPDATE: either one
\* waits for the transaction that has the row.
TakeDayLock(h) ==
  LET q == req[h] IN
  /\ q.pc = "lock"
  /\ ~Locked(q.resource, Day(q))
  /\ dayLock' = dayLock \cup {[resource |-> q.resource, day |-> Day(q), holder |-> h]}
  /\ Goto(h, "check")
  /\ UNCHANGED <<now, rows, history, bookingCount, outbox>>

\* The conflict query; a hit aborts the transaction with BOOKING_SLOT_TAKEN.
CheckConflict(h) ==
  LET q == req[h] IN
  /\ q.pc = "check"
  /\ IF Blockers(q.resource, q.from, q.to) = {}
     THEN Goto(h, "insert") /\ UNCHANGED dayLock
     ELSE Finish(h)
  /\ UNCHANGED <<now, rows, history, bookingCount, outbox>>

\* The rest of the transaction and its commit.  The insert is where the
\* exclusion constraint can still abort it.
InsertBooking(h) ==
  LET q == req[h] IN
  /\ q.pc = "insert"
  /\ IF ConstraintRefuses(q.booking, q.resource, q.from, q.to, InitialStatus)
     THEN UNCHANGED <<rows, history, bookingCount, outbox>>
     ELSE /\ rows' = [rows EXCEPT ![q.booking] = NewRow(q)]
          /\ history' = [history EXCEPT ![q.booking] =
                            Append(@, [from |-> NoRow, to |-> InitialStatus])]
          /\ bookingCount' = [bookingCount EXCEPT ![q.customer] = @ + 1]
          /\ outbox' = [outbox EXCEPT ![q.booking] = Append(@, "BOOKING_CREATED")]
  /\ Finish(h)
  /\ UNCHANGED now

(***************************************************************************)
(* updateStatus: a read that decides, then an unconditional write.         *)
(***************************************************************************)
ReadForStatus(h, b, next) ==
  /\ req[h].pc = "idle"
  /\ Exists(b)
  /\ Len(history[b]) < MaxHistory
  /\ next \in ALLOWED_TRANSITIONS[rows[b].status]
  /\ req' = [req EXCEPT ![h] = [Idle EXCEPT !.pc = "write", !.booking = b,
                                  !.seen = rows[b].status, !.next = next]]
  /\ UNCHANGED <<now, rows, history, bookingCount, outbox, dayLock>>

\* cancelByCustomer: its own read and deadline check ...
CheckCancel(h, b) ==
  /\ req[h].pc = "idle"
  /\ Exists(b)
  /\ Len(history[b]) < MaxHistory
  /\ "CANCELLED" \in ALLOWED_TRANSITIONS[rows[b].status]
  /\ now <= rows[b].startsAt - CancelDeadline
  /\ req' = [req EXCEPT ![h] = [Idle EXCEPT !.pc = "cancel", !.booking = b]]
  /\ UNCHANGED <<now, rows, history, bookingCount, outbox, dayLock>>

\* ... then updateStatus, which reads and checks again.
ReadForCancel(h) ==
  LET b == req[h].booking IN
  /\ req[h].pc = "cancel"
  /\ IF "CANCELLED" \in ALLOWED_TRANSITIONS[rows[b].status]
     THEN /\ req' = [req EXCEPT ![h].pc = "write", ![h].seen = rows[b].status,
                                ![h].next = "CANCELLED"]
          /\ UNCHANGED dayLock
     ELSE Finish(h)
  /\ UNCHANGED <<now, rows, history, bookingCount, outbox>>

EventsOf(next) ==
  CASE next = "COMPLETED" -> <<"BOOKING_COMPLETED">>
    [] next = "CANCELLED" -> <<"BOOKING_CANCELLED">>
    [] OTHER              -> <<>>

\* The update names the row and nothing else; only the exclusion constraint
\* can refuse it, when it makes the row occupy its span again.
WriteStatus(h) ==
  LET q == req[h]
      b == q.booking
  IN
  /\ q.pc = "write"
  /\ IF ConstraintRefuses(b, rows[b].resource, rows[b].from, rows[b].to, q.next)
     THEN UNCHANGED <<rows, history, outbox>>
     ELSE /\ rows' = [rows EXCEPT ![b].status = q.next]
          /\ history' = [history EXCEPT ![b] = Append(@, [from |-> q.seen, to |-> q.next])]
          /\ outbox' = [outbox EXCEPT ![b] = @ \o EventsOf(q.next)]
  /\ Finish(h)
  /\ UNCHANGED <<now, bookingCount>>

\* A request that ends early: the 10 s transaction timeout, a lost connection,
\* a dead process.  PostgreSQL rolls back and releases the locks.
Abort(h) ==
  /\ req[h].pc # "idle"
  /\ Finish(h)
  /\ UNCHANGED <<now, rows, history, bookingCount, outbox>>

-----------------------------------------------------------------------------
Create(h) ==
  \E b \in Bookings, c \in Customers, svc \in Services,
     choice \in Resources \cup {AnyResource}, t \in Instants :
    BeginCreate(h, b, c, svc, choice, t)

UpdateStatus(h) ==
  \E b \in Bookings, next \in Statuses : ReadForStatus(h, b, next)

CancelByCustomer(h) == \E b \in Bookings : CheckCancel(h, b)

\* What a handler that has begun does next.
Proceed(h) ==
  \/ TakeDayLock(h)
  \/ CheckConflict(h)
  \/ InsertBooking(h)
  \/ ReadForCancel(h)
  \/ WriteStatus(h)

Next ==
  \/ Tick
  \/ \E h \in Handlers :
       Create(h) \/ UpdateStatus(h) \/ CancelByCustomer(h) \/ Proceed(h) \/ Abort(h)

Spec == Init /\ [][Next]_vars

-----------------------------------------------------------------------------
(* Properties. *)

\* The shape of the state.
TypeOK ==
  /\ now \in Int
  /\ rows \in [Bookings -> Row]
  /\ history \in [Bookings -> Seq(StatusChange)]
  /\ bookingCount \in [Customers -> Nat]
  /\ outbox \in [Bookings -> Seq(EventTypes)]
  /\ dayLock \subseteq DayLock
  /\ req \in [Handlers -> Request]

\* I3: no two bookings that occupy one resource overlap, buffers included,
\* whatever creations, cancellations and stale status writes interleave
\* (create and updateStatus together with booking_no_overlap).
NoDoubleBooking ==
  \A b1, b2 \in Bookings :
    b1 # b2 /\ Occupies(b1) /\ Occupies(b2) /\ rows[b1].resource = rows[b2].resource
      => ~RangesOverlap(rows[b1].from, rows[b1].to, rows[b2].from, rows[b2].to)

\* A booking that left its slot once: CANCELLED or NO_SHOW is in its history.
WasFree(b) == \E i \in DOMAIN history[b] : history[b][i].to \in FreeStatuses

\* The day lock does what create relies on: once the conflict query under the
\* lock has found the span free, nothing can fill it before the insert, except
\* a booking that a stale status write brings back from CANCELLED or NO_SHOW,
\* because updateStatus takes no lock.
CheckedSpanStaysFree ==
  \A h \in Handlers :
    req[h].pc = "insert" =>
      \A b \in Blockers(req[h].resource, req[h].from, req[h].to) : WasFree(b)

Quiescent == \A h \in Handlers : req[h].pc = "idle"

\* What getAvailability shows and what create accepts agree: a slot shown for a
\* resource passes every check of create, finds no conflict, and would occupy
\* exactly the span shown (the two run the engine on different inputs: another
\* way to find the weekday, nothing blocked, a neutralised clock and horizon).
\* Both depend on the table and the clock alone, so it is enough to compare
\* them between requests: every handler can go idle from every state.
OfferedIsAccepted ==
  Quiescent =>
  \A svc \in Services, r \in Resources, day \in Days :
    \A s \in Offered(svc, r, day) :
      /\ AcceptsTime(svc, r, s.startsAt)
      /\ BlockAt(svc, r, s.startsAt) = s
      /\ Blockers(r, s.from, s.to) = {}

\* The other way round: a start that create would accept is shown, unless it
\* falls in the resource's time off, which only getAvailability looks at.
BookableIsOffered ==
  Quiescent =>
  \A svc \in Services, r \in Resources, day \in Days :
    LET shown == Offered(svc, r, day) IN
    \A t \in { i \in Instants : LocalDay(i) = day } :
      LET s == BlockAt(svc, r, t) IN
      /\ AcceptsTime(svc, r, t)
      /\ Blockers(r, s.from, s.to) = {}
      /\ \A o \in TimeOff[r] : ~RangesOverlap(s.from, s.to, o.from, o.to)
      => s \in shown

\* The reservations the table holds, and the promise it keeps to the rest of
\* the program: every step of the service takes a free span, gives one back, or
\* leaves the calendar alone.
Held ==
  { [booking |-> b, resource |-> rows[b].resource,
     from |-> rows[b].from, to |-> rows[b].to] : b \in { c \in Bookings : Occupies(c) } }

\* The spans some service, started within working hours, occupies.
Reservations ==
  { [booking |-> b, resource |-> w.resource, from |-> w.slot.from, to |-> w.slot.to] :
      b \in Bookings, w \in WorkingSlots }

Calendar == INSTANCE ResourceCalendar WITH Reservation <- Reservations, held <- Held

ImplementsCalendar == Calendar!Spec

\* A day lock is held by exactly one request, and only while that request is
\* inside its transaction: no way out of create (a conflict, a constraint error,
\* the 10 s timeout, a dead process) leaves a lock behind.
LockDiscipline ==
  /\ \A l, m \in dayLock : l.resource = m.resource /\ l.day = m.day => l = m
  /\ \A h \in Handlers :
       { [resource |-> l.resource, day |-> l.day] : l \in { k \in dayLock : k.holder = h } }
         = IF req[h].pc \in {"check", "insert"}
           THEN {[resource |-> req[h].resource, day |-> Day(req[h])]} ELSE {}

\* A customer who does not care which specialist serves them: a start in the
\* merged list is one that a creation without a resource accepts.
AnySlotIsBookable ==
  \A svc \in Services, day \in Days :
    \A r \in ResourcesForService(svc, AnyResource) : \A s \in Offered(svc, r, day) :
      \E q \in ResolveResource(svc, AnyResource) :
        /\ AcceptsTime(svc, q, s.startsAt)
        /\ LET k == BlockAt(svc, q, s.startsAt) IN Blockers(q, k.from, k.to) = {}
=============================================================================
