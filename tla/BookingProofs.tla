---------------------------- MODULE BookingProofs ----------------------------
(***************************************************************************)
(* Proofs about Booking, for every set of handlers, resources, services,   *)
(* hours and bounds.  The inductive invariant Inv adds to the properties   *)
(* what the code relies on without saying so: the target of a status write *)
(* exists, the lock held is the one for the request's resource and day, a  *)
(* block never leaves the local day its lock is for, a creation's row id   *)
(* is its own, and the last entry of a booking's history is its status.    *)
(***************************************************************************)
EXTENDS Booking, TLAPS

-----------------------------------------------------------------------------
(* Arithmetic of local days. *)

\* A local time of day leads back to the day it was computed from.
LEMMA LocalDayOfTime ==
  ASSUME NEW d \in Int, NEW m \in TimeOfDay
  PROVE  /\ LocalDay(ZonedTimeToUtc(d, m)) = d
         /\ TimeOfDayFromMinutes(m) = m
         /\ ZonedTimeToUtc(d, m) \in Int
<1> DEFINE T == TicksPerDay
<1>1. T \in Nat \ {0} /\ TzOffset \in Int /\ m \in 0 .. (T - 1)
  BY TimeAssumption DEF TimeOfDay
<1>2. d * T \in Int
  BY <1>1
<1>3. ZonedTimeToUtc(d, m) + TzOffset = d * T + m
  BY <1>1, <1>2 DEF ZonedTimeToUtc
<1>4. (d * T + m) \div T = d
  BY <1>1
<1>5. m % T = m
  BY <1>1
<1> QED
  BY <1>1, <1>2, <1>3, <1>4, <1>5 DEF ZonedTimeToUtc, LocalDay, TimeOfDayFromMinutes

\* The block of x lies inside the local day of its start.
InOneDay(x) ==
  /\ x.startsAt \in Int /\ x.from \in Int /\ x.to \in Int
  /\ ZonedTimeToUtc(LocalDay(x.startsAt), 0) <= x.from
  /\ x.from < x.to
  /\ x.to < ZonedTimeToUtc(LocalDay(x.startsAt) + 1, 0)

\* Blocks of two different local days cannot overlap, so a lock per local day
\* is enough.
LEMMA OverlapMeansSameDay ==
  ASSUME NEW x, NEW y, InOneDay(x), InOneDay(y), RangesOverlap(x.from, x.to, y.from, y.to)
  PROVE  LocalDay(x.startsAt) = LocalDay(y.startsAt)
<1> DEFINE dx == LocalDay(x.startsAt)
           dy == LocalDay(y.startsAt)
           T == TicksPerDay
<1>1. T \in Nat \ {0} /\ TzOffset \in Int
  BY TimeAssumption
<1>2. dx \in Int /\ dy \in Int
  BY <1>1 DEF InOneDay, LocalDay
<1>3. /\ dx * T - TzOffset < (dy + 1) * T - TzOffset
      /\ dy * T - TzOffset < (dx + 1) * T - TzOffset
  <2>1. ZonedTimeToUtc(dx, 0) < ZonedTimeToUtc(dy + 1, 0)
    BY <1>1, <1>2 DEF InOneDay, RangesOverlap, ZonedTimeToUtc
  <2>2. ZonedTimeToUtc(dy, 0) < ZonedTimeToUtc(dx + 1, 0)
    BY <1>1, <1>2 DEF InOneDay, RangesOverlap, ZonedTimeToUtc
  <2> QED
    BY <1>1, <1>2, <2>1, <2>2 DEF ZonedTimeToUtc
<1>4. dx * T < (dy + 1) * T /\ dy * T < (dx + 1) * T
  <2> HIDE DEF dx, dy, T
  <2> QED
    BY <1>1, <1>2, <1>3
<1>5. dx < dy + 1 /\ dy < dx + 1
  <2> HIDE DEF dx, dy, T
  <2>1. ASSUME NEW a \in Int, NEW b \in Int, a * T < b * T PROVE a < b
    BY <1>1, <2>1
  <2> QED
    BY <1>2, <1>4, <2>1
<1> QED
  BY <1>2, <1>5

-----------------------------------------------------------------------------
(* What the availability engine returns. *)

\* Windows stay windows when they are intersected.
LEMMA IntersectType ==
  ASSUME NEW A \in SUBSET TimeRange, NEW B \in SUBSET TimeRange
  PROVE  IntersectRanges(A, B) \in SUBSET TimeRange
<1> SUFFICES ASSUME NEW w \in IntersectRanges(A, B) PROVE w \in TimeRange
  OBVIOUS
<1>1. PICK p \in A \X B :
        w = Window(TimeOfDayFromMinutes(Larger(p[1].start, p[2].start)),
                   TimeOfDayFromMinutes(Smaller(p[1].end, p[2].end)))
  BY DEF IntersectRanges
<1>2. p[1] \in TimeRange /\ p[2] \in TimeRange
  OBVIOUS
<1>3. /\ Larger(p[1].start, p[2].start) \in Int
      /\ Smaller(p[1].end, p[2].end) \in Int
  BY <1>2, TimeAssumption DEF TimeRange, TimeOfDay, Larger, Smaller
<1>4. \A n \in Int : n % TicksPerDay \in TimeOfDay
  BY TimeAssumption DEF TimeOfDay
<1> QED
  BY <1>1, <1>3, <1>4 DEF Window, TimeRange, TimeOfDayFromMinutes

\* The windows a slot is cut from.
LEMMA WorkingWindowsType ==
  ASSUME NEW r \in Resources, NEW w \in Weekdays, NEW v \in Weekdays
  PROVE  WorkingWindows(BusinessHours[w], BranchHours[r][w], Schedule[r][v])
           \in SUBSET TimeRange
<1>1. /\ BusinessHours[w] \in SUBSET TimeRange
      /\ BranchHours[r][w] \in SUBSET TimeRange
      /\ Schedule[r][v] \in SUBSET TimeRange
  BY BookingAssumption
<1> QED
  BY <1>1, IntersectType DEF WorkingWindows

\* The buffers of a block are never negative, and its service takes time.
LEMMA BufferType ==
  ASSUME NEW svc \in Services, NEW r \in Resources
  PROVE  /\ BufferBefore(svc, r) \in Nat
         /\ BufferAfter(svc, r) \in Nat
         /\ Duration[svc] \in Nat \ {0}
BY BookingAssumption DEF BufferBefore, BufferAfter, Larger, Buffers

\* Whatever the engine is given to subtract, a slot it returns starts and ends,
\* buffers included, inside the local day it was asked for.
LEMMA SlotShape ==
  ASSUME NEW svc \in Services, NEW r \in Resources, NEW day \in Days,
         NEW w \in Weekdays, NEW blocked, NEW t0, NEW lead, NEW horizon,
         NEW s \in SlotsOf(svc, r, day, w, blocked, t0, lead, horizon)
  PROVE  /\ s = BlockAt(svc, r, s.startsAt)
         /\ LocalDay(s.startsAt) = day
         /\ InOneDay(s)
         /\ s.startsAt \in Instants /\ s.from \in Instants /\ s.to \in Instants
<1> DEFINE before == BufferBefore(svc, r)
           after == BufferAfter(svc, r)
           dur == Duration[svc]
           T == TicksPerDay
<1>1. T \in Nat \ {0} /\ TzOffset \in Int /\ day \in Nat /\ day <= LastDay /\ LastDay \in Nat
  BY TimeAssumption, BookingAssumption DEF Days
<1>2. before \in Nat /\ after \in Nat /\ dur \in Nat \ {0}
  BY BufferType
<1>3. WeekdayOf(day) \in Weekdays
  BY <1>1 DEF WeekdayOf, Weekdays
<1>4. PICK win \in WorkingWindows(BusinessHours[w], BranchHours[r][w],
                                  Schedule[r][WeekdayOf(day)]) :
        \E m \in StartsInWindow(win, before, dur, after) :
          s = Slot(ZonedTimeToUtc(day, TimeOfDayFromMinutes(m)), before, dur, after)
  BY DEF SlotsOf, ComputeAvailability
<1>4a. PICK m \in StartsInWindow(win, before, dur, after) :
        s = Slot(ZonedTimeToUtc(day, TimeOfDayFromMinutes(m)), before, dur, after)
  BY <1>4
<1>5. win.start \in 0 .. (T - 1) /\ win.end \in 0 .. (T - 1)
  BY <1>3, <1>4, WorkingWindowsType DEF TimeRange, TimeOfDay
<1>6. m \in Int /\ m - before >= 0 /\ m + dur + after <= T - 1
  <2> HIDE DEF before, after, dur, T
  <2> QED
    BY <1>1, <1>2, <1>4a, <1>5 DEF StartsInWindow
<1>7. m \in TimeOfDay
  BY <1>1, <1>2, <1>6 DEF TimeOfDay
<1>8. /\ TimeOfDayFromMinutes(m) = m
      /\ LocalDay(ZonedTimeToUtc(day, m)) = day
      /\ ZonedTimeToUtc(day, m) \in Int
  BY <1>1, <1>7, LocalDayOfTime
<1>8a. day * T \in Int /\ (day + 1) * T = day * T + T
  BY <1>1
<1>9. s = [startsAt |-> day * T + m - TzOffset,
           from |-> day * T + m - TzOffset - before,
           to |-> day * T + m - TzOffset + dur + after]
  <2>1. s = Slot(ZonedTimeToUtc(day, m), before, dur, after)
    BY <1>4a, <1>8
  <2> QED
    BY <1>1, <1>2, <1>6, <1>8a, <2>1 DEF Slot, ZonedTimeToUtc
<1>10. s = BlockAt(svc, r, s.startsAt) /\ LocalDay(s.startsAt) = day
  BY <1>4a, <1>8 DEF Slot, BlockAt
<1>12. /\ day * T - TzOffset <= s.from
       /\ s.from <= s.startsAt
       /\ s.startsAt < s.to
       /\ s.to < day * T + T - TzOffset
       /\ s.from \in Int /\ s.to \in Int /\ s.startsAt \in Int
  <2> DEFINE start == day * T
  <2>1. start \in Int /\ T \in Int /\ TzOffset \in Int
    BY <1>1, <1>8a
  <2>2. /\ s.startsAt = start + m - TzOffset
        /\ s.from = start + m - TzOffset - before
        /\ s.to = start + m - TzOffset + dur + after
    BY <1>9
  <2> HIDE DEF before, after, dur, T, start
  <2>3. /\ start - TzOffset <= s.from
        /\ s.from <= s.startsAt
        /\ s.startsAt < s.to
        /\ s.to < start + T - TzOffset
        /\ s.from \in Int /\ s.to \in Int /\ s.startsAt \in Int
    BY <1>2, <1>6, <2>1, <2>2
  <2> QED
    BY <2>3 DEF start
<1>13. InOneDay(s)
  BY <1>1, <1>10, <1>8a, <1>12 DEF InOneDay, ZonedTimeToUtc
<1>14. 0 <= day * T /\ day * T + T <= (LastDay + 1) * T /\ (LastDay + 1) * T \in Int
  <2>1. (LastDay + 1) * T = LastDay * T + T /\ LastDay * T \in Int
    BY <1>1
  <2>2. day * T <= LastDay * T
    BY <1>1
  <2> QED
    BY <1>1, <1>8a, <2>1, <2>2
<1>15. s.startsAt \in Instants /\ s.from \in Instants /\ s.to \in Instants
  <2>1. Instants = (0 - TzOffset) .. ((LastDay + 1) * T - TzOffset)
    BY <1>1 DEF Instants, ZonedTimeToUtc
  <2> HIDE DEF T
  <2> QED
    BY <1>1, <1>8a, <1>12, <1>14, <2>1
<1> QED
  BY <1>10, <1>13, <1>15

\* What assertWithinWorkingHours lets through.
LEMMA WorkingSlotShape ==
  ASSUME NEW x \in WorkingSlots
  PROVE  /\ x.service \in Services /\ x.resource \in Resources
         /\ x.slot = BlockAt(x.service, x.resource, x.slot.startsAt)
         /\ InOneDay(x.slot)
         /\ x.slot.startsAt \in Instants /\ x.slot.from \in Instants /\ x.slot.to \in Instants
<1>1. PICK svc \in Services, r \in Resources, day \in Days :
        \E s \in SlotsOf(svc, r, day, WeekdayOf(day), {}, ZonedTimeToUtc(0, 0),
                         0, (LastDay + 2) * TicksPerDay) :
          x = [service |-> svc, resource |-> r, slot |-> s]
  BY DEF WorkingSlots
<1>2. WeekdayOf(day) \in Weekdays
  BY BookingAssumption DEF WeekdayOf, Weekdays, Days
<1> QED
  BY <1>1, <1>2, SlotShape

-----------------------------------------------------------------------------
(* Type correctness. *)

\* Reading or writing one field of one handler's request.
LEMMA IdleType == Idle \in Request /\ Idle.pc = "idle"
<1>1. /\ (CHOOSE b \in Bookings : TRUE) \in Bookings
      /\ (CHOOSE c \in Customers : TRUE) \in Customers
      /\ (CHOOSE r \in Resources : TRUE) \in Resources
  BY BookingAssumption
<1>2. ZonedTimeToUtc(0, 0) \in Instants
  <2>1. /\ TicksPerDay \in Nat \ {0} /\ TzOffset \in Int /\ LastDay \in Nat
        /\ (LastDay + 1) * TicksPerDay \in Nat
    BY TimeAssumption, BookingAssumption
  <2> QED
    BY <2>1 DEF Instants, ZonedTimeToUtc
<1> QED
  BY <1>1, <1>2 DEF Idle, Request, Statuses

\* A new booking starts in a status of the enum (autoConfirm or not).
LEMMA InitialStatusType == InitialStatus \in Statuses
BY DEF InitialStatus, Statuses

\* The transition table leads to statuses only.
LEMMA AllowedType == \A s \in Statuses : ALLOWED_TRANSITIONS[s] \subseteq Statuses
BY DEF ALLOWED_TRANSITIONS, Statuses

\* The part of the state the requests live in.
TypeReq ==
  /\ dayLock \subseteq DayLock
  /\ req \in [Handlers -> Request]

\* Ending a request keeps the types and changes nobody else's request or lock.
LEMMA FinishFacts ==
  ASSUME TypeOK, NEW h \in Handlers, Finish(h)
  PROVE  /\ TypeReq'
         /\ req'[h] = Idle
         /\ \A g \in Handlers \ {h} : req'[g] = req[g]
         /\ dayLock' = { l \in dayLock : l.holder # h }
BY IdleType DEF Finish, TypeOK, TypeReq

\* The block create computes is the block of the working slot it found.
LEMMA AcceptedSlot ==
  ASSUME NEW svc \in Services, NEW r \in Resources, NEW t, WithinWorkingHours(svc, r, t)
  PROVE  \E w \in WorkingSlots : /\ w.resource = r
                                 /\ w.slot = BlockAt(svc, r, t)
                                 /\ w.slot.startsAt = t
<1>1. PICK w \in WorkingSlots : w.service = svc /\ w.resource = r /\ w.slot.startsAt = t
  BY DEF WithinWorkingHours
<1> QED
  BY <1>1, WorkingSlotShape

\* The record a creation starts with.
Lock(b, c, r, t, s) ==
  [Idle EXCEPT !.pc = "lock", !.booking = b, !.customer = c,
     !.resource = r, !.startsAt = t, !.from = s.from, !.to = s.to]

\* What one BeginCreate step does, unfolded once for the proofs below.
LEMMA BeginCreateFacts ==
  ASSUME TypeOK, NEW h \in Handlers, NEW b \in Bookings, NEW c \in Customers,
         NEW svc \in Services, NEW choice \in Resources \cup {AnyResource},
         NEW t \in Instants, BeginCreate(h, b, c, svc, choice, t)
  PROVE  /\ req[h].pc = "idle" /\ ~Exists(b)
         /\ \A g \in Handlers : req[g].pc \in CreatePcs => req[g].booking # b
         /\ UNCHANGED <<now, rows, history, bookingCount, outbox, dayLock>>
         /\ \E r \in Resources, w \in WorkingSlots :
              /\ w.resource = r /\ w.slot.startsAt = t
              /\ req' = [req EXCEPT ![h] = Lock(b, c, r, t, w.slot)]
              /\ Lock(b, c, r, t, w.slot) \in Request
<1>1. PICK r \in ResolveResource(svc, choice) :
        /\ AcceptsTime(svc, r, t)
        /\ req' = [req EXCEPT ![h] = Lock(b, c, r, t, BlockAt(svc, r, t))]
  BY DEF BeginCreate, Lock
<1>2. r \in Resources
  BY BookingAssumption DEF ResolveResource, ResourcesForService
<1>3. PICK w \in WorkingSlots :
        w.resource = r /\ w.slot = BlockAt(svc, r, t) /\ w.slot.startsAt = t
  BY <1>1, <1>2, AcceptedSlot DEF AcceptsTime
<1>4. Lock(b, c, r, t, w.slot) \in Request
  BY <1>2, <1>3, WorkingSlotShape, IdleType DEF Lock, Request, CreatePcs
<1> QED
  BY <1>1, <1>2, <1>3, <1>4 DEF BeginCreate

\* A request that updates a booking has seen its row, and rows never vanish.
TargetExists ==
  \A h \in Handlers : req[h].pc \in {"cancel", "write"} => Exists(req[h].booking)

\* The empty tables and idle handlers are well typed.
LEMMA TypeInit == Init => TypeOK
<1>1. ASSUME Init PROVE TypeOK
  <2>1. rows \in [Bookings -> Row]
    BY <1>1, IdleType DEF Init, Row, Request, Idle
  <2>2. now \in Int
    BY <1>1, TimeAssumption DEF Init, ZonedTimeToUtc
  <2> QED
    BY <1>1, <2>1, <2>2, IdleType DEF Init, TypeOK
<1> QED
  BY <1>1


\* A step that leaves the tables alone keeps their types.
LEMMA TypeOfRequests ==
  ASSUME TypeOK, UNCHANGED <<now, rows, history, bookingCount, outbox>>,
         dayLock' \subseteq DayLock, req' \in [Handlers -> Request]
  PROVE  TypeOK'
BY DEF TypeOK

\* Appending to one of a family of logs keeps the family typed.
LEMMA AppendType ==
  ASSUME NEW S, NEW D, NEW f \in [D -> Seq(S)], NEW d \in D, NEW e \in S
  PROVE  [f EXCEPT ![d] = Append(f[d], e)] \in [D -> Seq(S)]
<1>1. Append(f[d], e) \in Seq(S)
  OBVIOUS
<1> QED
  BY <1>1

\* So does concatenating: updateStatus may emit no event or one.
LEMMA ConcatType ==
  ASSUME NEW S, NEW D, NEW f \in [D -> Seq(S)], NEW d \in D, NEW s \in Seq(S)
  PROVE  [f EXCEPT ![d] = f[d] \o s] \in [D -> Seq(S)]
<1>1. f[d] \o s \in Seq(S)
  OBVIOUS
<1> QED
  BY <1>1

\* Whatever the next status, what updateStatus emits are booking events.
LEMMA EventsOfType == \A s : EventsOf(s) \in Seq(EventTypes)
<1> TAKE s
<1>1. CASE s = "COMPLETED"
  BY <1>1 DEF EventsOf, EventTypes
<1>2. CASE s = "CANCELLED"
  BY <1>2 DEF EventsOf, EventTypes
<1>3. CASE s # "COMPLETED" /\ s # "CANCELLED"
  <2>1. EventsOf(s) = <<>>
    BY <1>3 DEF EventsOf
  <2>2. <<>> \in Seq(EventTypes)
    OBVIOUS
  <2> QED
    BY <2>1, <2>2
<1> QED
  BY <1>1, <1>2, <1>3

\* What a committed insert does; a refused one changes no table.
Inserted(h) ==
  LET q == req[h] IN
  /\ ~ConstraintRefuses(q.booking, q.resource, q.from, q.to, InitialStatus)
  /\ rows' = [rows EXCEPT ![q.booking] = NewRow(q)]
  /\ history' = [history EXCEPT ![q.booking] =
                    Append(history[q.booking], [from |-> NoRow, to |-> InitialStatus])]
  /\ bookingCount' = [bookingCount EXCEPT ![q.customer] = bookingCount[q.customer] + 1]
  /\ outbox' = [outbox EXCEPT ![q.booking] = Append(outbox[q.booking], "BOOKING_CREATED")]

\* The two outcomes of an insert: refused by the constraint, or written whole.
LEMMA InsertFacts ==
  ASSUME NEW h \in Handlers, InsertBooking(h)
  PROVE  /\ req[h].pc = "insert" /\ Finish(h) /\ UNCHANGED now
         /\ Inserted(h) \/ UNCHANGED <<rows, history, bookingCount, outbox>>
BY DEF InsertBooking, Inserted

\* The same for a status update.
Updated(h) ==
  LET q == req[h]
      b == q.booking
  IN
  /\ ~ConstraintRefuses(b, rows[b].resource, rows[b].from, rows[b].to, q.next)
  /\ rows' = [rows EXCEPT ![b] = [rows[b] EXCEPT !.status = q.next]]
  /\ history' = [history EXCEPT ![b] = Append(history[b], [from |-> q.seen, to |-> q.next])]
  /\ outbox' = [outbox EXCEPT ![b] = outbox[b] \o EventsOf(q.next)]

\* The two outcomes of a status write: refused by the constraint, or written whole.
LEMMA WriteFacts ==
  ASSUME NEW h \in Handlers, WriteStatus(h)
  PROVE  /\ req[h].pc = "write" /\ Finish(h) /\ UNCHANGED <<now, bookingCount>>
         /\ Updated(h) \/ UNCHANGED <<rows, history, outbox>>
BY DEF WriteStatus, Updated

\* No step of a handler, of the clock or of a rollback spoils a type.
LEMMA TypeStep == TypeOK /\ TargetExists /\ [Next]_vars => TypeOK'
<1> SUFFICES ASSUME TypeOK, TargetExists, [Next]_vars PROVE TypeOK'
  OBVIOUS
<1>0. req \in [Handlers -> Request] /\ dayLock \subseteq DayLock
  BY DEF TypeOK
<1>1. CASE Tick
  <2>1. now' \in Int
    BY <1>1 DEF Tick, TypeOK
  <2> QED
    BY <1>1, <2>1 DEF Tick, TypeOK
<1>2. ASSUME NEW h \in Handlers, Create(h) PROVE TypeOK'
  <2>1. PICK b \in Bookings, c \in Customers, svc \in Services,
             choice \in Resources \cup {AnyResource}, t \in Instants :
          BeginCreate(h, b, c, svc, choice, t)
    BY <1>2 DEF Create
  <2>2. /\ UNCHANGED <<now, rows, history, bookingCount, outbox, dayLock>>
        /\ req' \in [Handlers -> Request]
    BY <1>0, <2>1, BeginCreateFacts
  <2> QED
    BY <1>0, <2>2, TypeOfRequests
<1>3. ASSUME NEW h \in Handlers, UpdateStatus(h) PROVE TypeOK'
  <2>1. PICK b \in Bookings, next \in Statuses : ReadForStatus(h, b, next)
    BY <1>3 DEF UpdateStatus
  <2>2. rows[b].status \in Statuses
    BY <2>1 DEF ReadForStatus, Exists, TypeOK, Row
  <2>3. [Idle EXCEPT !.pc = "write", !.booking = b,
                     !.seen = rows[b].status, !.next = next] \in Request
    BY <2>2, IdleType DEF Request
  <2> QED
    BY <1>0, <2>1, <2>3, TypeOfRequests DEF ReadForStatus
<1>4. ASSUME NEW h \in Handlers, CancelByCustomer(h) PROVE TypeOK'
  <2>1. PICK b \in Bookings : CheckCancel(h, b)
    BY <1>4 DEF CancelByCustomer
  <2>2. [Idle EXCEPT !.pc = "cancel", !.booking = b] \in Request
    BY IdleType DEF Request
  <2> QED
    BY <1>0, <2>1, <2>2, TypeOfRequests DEF CheckCancel
<1>5. ASSUME NEW h \in Handlers, TakeDayLock(h) PROVE TypeOK'
  <2>1. req[h] \in Request
    BY <1>0
  <2>2. Day(req[h]) \in Int
    BY <2>1, TimeAssumption DEF Day, LocalDay, Request, Instants, ZonedTimeToUtc
  <2>3. [req[h] EXCEPT !.pc = "check"] \in Request
    BY <2>1 DEF Request, CreatePcs
  <2>4. dayLock' \subseteq DayLock
    BY <1>0, <1>5, <2>1, <2>2 DEF TakeDayLock, Request, DayLock
  <2> QED
    BY <1>0, <1>5, <2>3, <2>4, TypeOfRequests DEF TakeDayLock, Goto
<1>6. ASSUME NEW h \in Handlers, CheckConflict(h) PROVE TypeOK'
  <2>0. UNCHANGED <<now, rows, history, bookingCount, outbox>>
    BY <1>6 DEF CheckConflict
  <2>1. CASE Finish(h)
    BY <2>0, <2>1, FinishFacts, TypeOfRequests DEF TypeReq
  <2>2. CASE Goto(h, "insert") /\ UNCHANGED dayLock
    <3>1. [req[h] EXCEPT !.pc = "insert"] \in Request
      BY <1>0 DEF Request, CreatePcs
    <3> QED
      BY <1>0, <2>0, <2>2, <3>1, TypeOfRequests DEF Goto
  <2> QED
    BY <1>6, <2>1, <2>2 DEF CheckConflict
<1>7. ASSUME NEW h \in Handlers, InsertBooking(h) PROVE TypeOK'
  <2>1. TypeReq' /\ now' = now
    BY <1>7, InsertFacts, FinishFacts
  <2>2. req[h].booking \in Bookings /\ req[h].customer \in Customers
    BY <1>0 DEF Request
  <2>3. NewRow(req[h]) \in Row
    BY <1>0, InitialStatusType DEF NewRow, Row, Request
  <2>4. [from |-> NoRow, to |-> InitialStatus] \in StatusChange
    BY InitialStatusType DEF StatusChange
  <2>5. "BOOKING_CREATED" \in EventTypes
    BY DEF EventTypes
  <2>6. CASE UNCHANGED <<rows, history, bookingCount, outbox>>
    BY <2>1, <2>6 DEF TypeOK, TypeReq
  <2>7. CASE Inserted(h)
    <3>1. rows' \in [Bookings -> Row]
      BY <2>2, <2>3, <2>7 DEF Inserted, TypeOK
    <3>2. history' \in [Bookings -> Seq(StatusChange)]
      BY <2>2, <2>4, <2>7, AppendType DEF Inserted, TypeOK
    <3>3. bookingCount' \in [Customers -> Nat]
      BY <2>2, <2>7 DEF Inserted, TypeOK
    <3>4. outbox' \in [Bookings -> Seq(EventTypes)]
      BY <2>2, <2>5, <2>7, AppendType DEF Inserted, TypeOK
    <3> QED
      BY <2>1, <3>1, <3>2, <3>3, <3>4 DEF TypeOK, TypeReq
  <2> QED
    BY <1>7, <2>6, <2>7, InsertFacts
<1>8. ASSUME NEW h \in Handlers, ReadForCancel(h) PROVE TypeOK'
  <2>1. req[h] \in Request /\ rows[req[h].booking].status \in Statuses
    BY <1>8 DEF TypeOK, Request, ReadForCancel, TargetExists, Exists, Row
  <2>2. "CANCELLED" \in Statuses
    BY DEF Statuses
  <2>3. [req[h] EXCEPT !.pc = "write", !.seen = rows[req[h].booking].status,
                       !.next = "CANCELLED"] \in Request
    BY <2>1, <2>2 DEF Request
  <2>4. CASE Finish(h)
    BY <1>8, <2>4, FinishFacts, TypeOfRequests DEF ReadForCancel, TypeReq
  <2>5. CASE ~Finish(h)
    BY <1>0, <1>8, <2>3, <2>5, TypeOfRequests DEF ReadForCancel
  <2> QED
    BY <2>4, <2>5
<1>9. ASSUME NEW h \in Handlers, WriteStatus(h) PROVE TypeOK'
  <2> DEFINE q == req[h]
  <2>1. q.booking \in Bookings /\ q.next \in Statuses /\ q.seen \in Statuses
    BY <1>0 DEF Request
  <2>2. TypeReq' /\ UNCHANGED <<now, bookingCount>>
    BY <1>9, WriteFacts, FinishFacts
  <2>3. [rows[q.booking] EXCEPT !.status = q.next] \in Row
    BY <2>1 DEF TypeOK, Row
  <2>4. [from |-> q.seen, to |-> q.next] \in StatusChange
    BY <2>1 DEF StatusChange
  <2>6. CASE UNCHANGED <<rows, history, outbox>>
    BY <2>2, <2>6 DEF TypeOK, TypeReq
  <2>7. CASE Updated(h)
    <3>1. rows' \in [Bookings -> Row]
      BY <2>1, <2>3, <2>7 DEF Updated, TypeOK
    <3>2. history' \in [Bookings -> Seq(StatusChange)]
      BY <2>1, <2>4, <2>7, AppendType DEF Updated, TypeOK
    <3>3. outbox' \in [Bookings -> Seq(EventTypes)]
      BY <2>1, <2>7, ConcatType, EventsOfType DEF Updated, TypeOK
    <3> QED
      BY <2>2, <3>1, <3>2, <3>3 DEF TypeOK, TypeReq
  <2> QED
    BY <1>9, <2>6, <2>7, WriteFacts
<1>10. ASSUME NEW h \in Handlers, Abort(h) PROVE TypeOK'
  BY <1>10, FinishFacts, TypeOfRequests DEF Abort, TypeReq
<1>11. CASE UNCHANGED vars
  BY <1>11 DEF vars, TypeOK
<1> QED
  BY <1>1, <1>2, <1>3, <1>4, <1>5, <1>6, <1>7, <1>8, <1>9, <1>10, <1>11 DEF Next, Proceed

\* Rows never vanish.
LEMMA RowsStay ==
  ASSUME TypeOK, [Next]_vars, NEW b \in Bookings, Exists(b)
  PROVE  Exists(b)'
<1>0. rows \in [Bookings -> Row] /\ req \in [Handlers -> Request]
  BY DEF TypeOK
<1>1. ASSUME NEW h \in Handlers, InsertBooking(h) PROVE Exists(b)'
  <2>1. NewRow(req[h]).status # NoRow
    BY InitialStatusType DEF NewRow, Statuses, NoRow
  <2> QED
    BY <1>0, <1>1, <2>1 DEF InsertBooking, Exists
<1>2. ASSUME NEW h \in Handlers, WriteStatus(h) PROVE Exists(b)'
  <2>1. req[h].next # NoRow
    BY <1>0 DEF Request, Statuses, NoRow
  <2>2. CASE UNCHANGED rows
    BY <2>2 DEF Exists
  <2>3. CASE rows' = [rows EXCEPT ![req[h].booking] =
                        [rows[req[h].booking] EXCEPT !.status = req[h].next]]
    <3>1. CASE b = req[h].booking
      <4>1. rows'[b] = [rows[b] EXCEPT !.status = req[h].next]
        BY <1>0, <2>3, <3>1
      <4>2. rows[b] \in Row
        BY <1>0
      <4>3. rows'[b].status = req[h].next
        BY <4>1, <4>2 DEF Row
      <4> QED
        BY <2>1, <4>3 DEF Exists
    <3>2. CASE b # req[h].booking
      BY <1>0, <2>3, <3>2 DEF Exists
    <3> QED
      BY <3>1, <3>2
  <2> QED
    BY <1>2, <2>2, <2>3 DEF WriteStatus
<1>3. CASE UNCHANGED rows
  BY <1>3 DEF Exists
<1> QED
  BY ZenonT(40), <1>1, <1>2, <1>3 DEF Next, Proceed, Tick, Create, BeginCreate, UpdateStatus,
     ReadForStatus, CancelByCustomer, CheckCancel, TakeDayLock, CheckConflict,
     ReadForCancel, Abort, vars

-----------------------------------------------------------------------------
(* What a step does, seen from the handler that takes it. *)

Frame(h) == \A g \in Handlers \ {h} : req'[g] = req[g]

TablesSame == UNCHANGED <<rows, history, bookingCount, outbox>>

\* Some service, started within working hours, occupies the block of x.
Fits(x) ==
  \E w \in WorkingSlots : /\ w.resource = x.resource
                          /\ w.slot.startsAt = x.startsAt
                          /\ w.slot.from = x.from
                          /\ w.slot.to = x.to

Begins(h) ==
  /\ TablesSame /\ UNCHANGED dayLock /\ Frame(h)
  /\ req[h].pc = "idle" /\ req'[h].pc = "lock"
  /\ Fits(req'[h])
  /\ ~Exists(req'[h].booking)
  /\ \A g \in Handlers : req[g].pc \in CreatePcs => req[g].booking # req'[h].booking

Targets(h) ==
  /\ TablesSame /\ UNCHANGED dayLock /\ Frame(h)
  /\ req[h].pc \in {"idle", "cancel"} /\ req'[h].pc \in {"cancel", "write"}
  /\ Exists(req'[h].booking)

Locks(h) ==
  /\ TablesSame /\ Frame(h)
  /\ req[h].pc = "lock" /\ req'[h] = [req[h] EXCEPT !.pc = "check"]
  /\ ~Locked(req[h].resource, Day(req[h]))
  /\ dayLock' = dayLock \cup
       {[resource |-> req[h].resource, day |-> Day(req[h]), holder |-> h]}

Checks(h) ==
  /\ TablesSame /\ UNCHANGED dayLock /\ Frame(h)
  /\ req[h].pc = "check" /\ req'[h] = [req[h] EXCEPT !.pc = "insert"]
  /\ Blockers(req[h].resource, req[h].from, req[h].to) = {}

Inserts(h) == req[h].pc = "insert" /\ Finish(h) /\ Inserted(h)

Updates(h) == req[h].pc = "write" /\ Finish(h) /\ Updated(h)

Quits(h) == Finish(h) /\ TablesSame

\* Every step of the service is of one of these shapes.
LEMMA StepShape ==
  ASSUME TypeOK, TargetExists, [Next]_vars
  PROVE  \/ TablesSame /\ UNCHANGED <<dayLock, req>>
         \/ \E h \in Handlers : \/ Begins(h) \/ Targets(h) \/ Locks(h) \/ Checks(h)
                                \/ Inserts(h) \/ Updates(h) \/ Quits(h)
<1>0. req \in [Handlers -> Request]
  BY DEF TypeOK
<1>1. ASSUME NEW h \in Handlers, Create(h) PROVE Begins(h)
  <2>1. PICK b \in Bookings, c \in Customers, svc \in Services,
             choice \in Resources \cup {AnyResource}, t \in Instants :
          BeginCreate(h, b, c, svc, choice, t)
    BY <1>1 DEF Create
  <2>2. PICK r \in Resources, w \in WorkingSlots :
          /\ w.resource = r /\ w.slot.startsAt = t
          /\ req' = [req EXCEPT ![h] = Lock(b, c, r, t, w.slot)]
          /\ Lock(b, c, r, t, w.slot) \in Request
    BY <2>1, BeginCreateFacts
  <2>3. req'[h] = Lock(b, c, r, t, w.slot) /\ Frame(h)
    BY <1>0, <2>2 DEF Frame
  <2>4. /\ req'[h].pc = "lock" /\ req'[h].booking = b /\ req'[h].resource = r
        /\ req'[h].startsAt = t /\ req'[h].from = w.slot.from /\ req'[h].to = w.slot.to
    BY <2>3, IdleType DEF Lock, Request
  <2>5. Fits(req'[h])
    BY <2>2, <2>4 DEF Fits
  <2> QED
    BY <2>1, <2>3, <2>4, <2>5, BeginCreateFacts DEF Begins, TablesSame
<1>2. ASSUME NEW h \in Handlers, UpdateStatus(h) PROVE Targets(h)
  <2>1. PICK b \in Bookings, next \in Statuses : ReadForStatus(h, b, next)
    BY <1>2 DEF UpdateStatus
  <2>2. req'[h] = [Idle EXCEPT !.pc = "write", !.booking = b,
                     !.seen = rows[b].status, !.next = next] /\ Frame(h)
    BY <1>0, <2>1 DEF ReadForStatus, Frame
  <2>3. req'[h].pc = "write" /\ req'[h].booking = b
    BY <2>2, IdleType DEF Request
  <2> QED
    BY <2>1, <2>2, <2>3 DEF ReadForStatus, Targets, TablesSame
<1>3. ASSUME NEW h \in Handlers, CancelByCustomer(h) PROVE Targets(h)
  <2>1. PICK b \in Bookings : CheckCancel(h, b)
    BY <1>3 DEF CancelByCustomer
  <2>2. req'[h] = [Idle EXCEPT !.pc = "cancel", !.booking = b] /\ Frame(h)
    BY <1>0, <2>1 DEF CheckCancel, Frame
  <2>3. req'[h].pc = "cancel" /\ req'[h].booking = b
    BY <2>2, IdleType DEF Request
  <2> QED
    BY <2>1, <2>2, <2>3 DEF CheckCancel, Targets, TablesSame
<1>4. ASSUME NEW h \in Handlers, TakeDayLock(h) PROVE Locks(h)
  BY <1>0, <1>4 DEF TakeDayLock, Locks, Goto, Frame, TablesSame
<1>5. ASSUME NEW h \in Handlers, CheckConflict(h) PROVE Quits(h) \/ Checks(h)
  BY <1>0, <1>5 DEF CheckConflict, Quits, Checks, Goto, Frame, TablesSame
<1>6. ASSUME NEW h \in Handlers, InsertBooking(h) PROVE Quits(h) \/ Inserts(h)
  BY <1>6, InsertFacts DEF Quits, Inserts, TablesSame
<1>7. ASSUME NEW h \in Handlers, ReadForCancel(h) PROVE Quits(h) \/ Targets(h)
  <2>1. CASE Finish(h)
    BY <1>7, <2>1 DEF ReadForCancel, Quits, TablesSame
  <2>2. CASE ~Finish(h)
    <3>1. /\ req'[h] = [req[h] EXCEPT !.pc = "write", !.seen = rows[req[h].booking].status,
                                     !.next = "CANCELLED"]
          /\ Frame(h) /\ UNCHANGED dayLock
      BY <1>0, <1>7, <2>2 DEF ReadForCancel, Frame
    <3>2. req'[h].pc = "write" /\ req'[h].booking = req[h].booking
      BY <1>0, <3>1 DEF Request
    <3> QED
      BY <1>7, <3>1, <3>2 DEF ReadForCancel, Targets, TablesSame, TargetExists
  <2> QED
    BY <2>1, <2>2
<1>8. ASSUME NEW h \in Handlers, WriteStatus(h) PROVE Quits(h) \/ Updates(h)
  BY <1>8, WriteFacts DEF Quits, Updates, TablesSame
<1>9. ASSUME NEW h \in Handlers, Abort(h) PROVE Quits(h)
  BY <1>9 DEF Abort, Quits, TablesSame
<1>10. CASE Tick \/ UNCHANGED vars
  BY <1>10 DEF Tick, vars, TablesSame
<1> QED
  BY <1>1, <1>2, <1>3, <1>4, <1>5, <1>6, <1>7, <1>8, <1>9, <1>10 DEF Next, Proceed

\* The tables after an insert: one new row, everything else as it was.
LEMMA InsertedTables ==
  ASSUME TypeOK, NEW h \in Handlers, Inserted(h)
  PROVE  LET b == req[h].booking IN
         /\ b \in Bookings
         /\ rows'[b] = NewRow(req[h]) /\ rows'[b].status # NoRow
         /\ \A a \in Bookings \ {b} : rows'[a] = rows[a] /\ history'[a] = history[a]
         /\ history'[b] = Append(history[b], [from |-> NoRow, to |-> InitialStatus])
<1>1. req[h] \in Request /\ rows \in [Bookings -> Row] /\ history \in [Bookings -> Seq(StatusChange)]
  BY DEF TypeOK
<1>2. req[h].booking \in Bookings
  BY <1>1 DEF Request
<1>3. rows'[req[h].booking] = NewRow(req[h])
  BY <1>1, <1>2 DEF Inserted
<1>4. NewRow(req[h]).status # NoRow
  BY InitialStatusType DEF NewRow, Statuses, NoRow
<1>5. rows'[req[h].booking].status # NoRow
  BY <1>3, <1>4
<1> QED
  BY <1>1, <1>2, <1>3, <1>5 DEF Inserted

\* The tables after a status update: one row has another status.
LEMMA UpdatedTables ==
  ASSUME TypeOK, NEW h \in Handlers, Updated(h)
  PROVE  LET b == req[h].booking IN
         /\ b \in Bookings
         /\ rows'[b].status = req[h].next /\ rows'[b].status # NoRow
         /\ rows'[b].resource = rows[b].resource
         /\ rows'[b].startsAt = rows[b].startsAt
         /\ rows'[b].from = rows[b].from
         /\ rows'[b].to = rows[b].to
         /\ \A a \in Bookings \ {b} : rows'[a] = rows[a] /\ history'[a] = history[a]
         /\ history'[b] = Append(history[b], [from |-> req[h].seen, to |-> req[h].next])
<1> DEFINE b == req[h].booking
<1>1. req[h] \in Request /\ rows \in [Bookings -> Row] /\ history \in [Bookings -> Seq(StatusChange)]
  BY DEF TypeOK
<1>2. b \in Bookings /\ req[h].next # NoRow
  BY <1>1 DEF Request, Statuses, NoRow
<1>3. rows'[b] = [rows[b] EXCEPT !.status = req[h].next]
  BY <1>1, <1>2 DEF Updated
<1>4. /\ rows'[b].status = req[h].next
      /\ rows'[b].resource = rows[b].resource
      /\ rows'[b].startsAt = rows[b].startsAt
      /\ rows'[b].from = rows[b].from
      /\ rows'[b].to = rows[b].to
  <2>1. rows[b] \in Row
    BY <1>1, <1>2
  <2> QED
    BY <1>3, <2>1 DEF Row
<1>5. rows'[b].status # NoRow
  BY <1>2, <1>4
<1>6. /\ \A a \in Bookings \ {b} : rows'[a] = rows[a] /\ history'[a] = history[a]
      /\ history'[b] = Append(history[b], [from |-> req[h].seen, to |-> req[h].next])
  BY <1>1, <1>2 DEF Updated
<1> QED
  BY <1>2, <1>4, <1>5, <1>6

\* A handler whose request ended is idle, the others are where they were.
LEMMA Finished ==
  ASSUME TypeOK, NEW h \in Handlers, Finish(h)
  PROVE  /\ Frame(h) /\ req'[h].pc = "idle"
         /\ dayLock' = { l \in dayLock : l.holder # h }
BY FinishFacts, IdleType DEF Frame

-----------------------------------------------------------------------------
(* The invariant, part by part. *)

\* What pc values a request can have after a step.
LEMMA TargetStep == TypeOK /\ TargetExists /\ [Next]_vars => TargetExists'
<1> SUFFICES ASSUME TypeOK, TargetExists, [Next]_vars,
                    NEW g \in Handlers, req'[g].pc \in {"cancel", "write"}
             PROVE  rows'[req'[g].booking].status # NoRow
  BY DEF TargetExists, Exists
<1>0. req \in [Handlers -> Request] /\ req' \in [Handlers -> Request]
  BY TypeStep DEF TypeOK
<1>1. Exists(req'[g].booking)
  <2>1. CASE req'[g] = req[g]
    BY <2>1 DEF TargetExists
  <2>2. ASSUME NEW h \in Handlers, Begins(h) PROVE Exists(req'[g].booking)
    BY <2>1, <2>2 DEF Begins, Frame
  <2>3. ASSUME NEW h \in Handlers, Targets(h) PROVE Exists(req'[g].booking)
    BY <2>1, <2>3 DEF Targets, Frame
  <2>4. ASSUME NEW h \in Handlers, Locks(h) PROVE Exists(req'[g].booking)
    BY <1>0, <2>1, <2>4 DEF Locks, Frame, Request
  <2>5. ASSUME NEW h \in Handlers, Checks(h) PROVE Exists(req'[g].booking)
    BY <1>0, <2>1, <2>5 DEF Checks, Frame, Request
  <2>6. ASSUME NEW h \in Handlers, Finish(h) PROVE Exists(req'[g].booking)
    BY <2>1, <2>6, Finished DEF Frame
  <2> QED
    BY <2>1, <2>2, <2>3, <2>4, <2>5, <2>6, StepShape DEF Inserts, Updates, Quits
<1>2. req'[g].booking \in Bookings
  BY <1>0 DEF Request
<1>3. \A b \in Bookings : rows[b].status # NoRow => rows'[b].status # NoRow
  BY RowsStay DEF Exists
<1> QED
  BY <1>1, <1>2, <1>3 DEF Exists

\* A day lock belongs to the transaction that took it.
LockInv ==
  /\ \A l, m \in dayLock : l.resource = m.resource /\ l.day = m.day => l = m
  /\ \A l \in dayLock : /\ req[l.holder].pc \in {"check", "insert"}
                        /\ l.resource = req[l.holder].resource
                        /\ l.day = Day(req[l.holder])
  /\ \A h \in Handlers :
       req[h].pc \in {"check", "insert"} =>
         [resource |-> req[h].resource, day |-> Day(req[h]), holder |-> h] \in dayLock

\* TakeDayLock is the only way to a lock, and every way out gives it back.
LEMMA LockStep == TypeOK /\ TargetExists /\ LockInv /\ [Next]_vars => LockInv'
<1> SUFFICES ASSUME TypeOK, TargetExists, LockInv, [Next]_vars PROVE LockInv'
  OBVIOUS
<1>0. /\ req \in [Handlers -> Request] /\ req' \in [Handlers -> Request]
      /\ dayLock \subseteq DayLock
      /\ \A l \in dayLock : l.holder \in Handlers
  BY TypeStep DEF TypeOK, DayLock
<1>1. CASE UNCHANGED <<dayLock, req>>
  BY <1>1 DEF LockInv, Day
<1>2. ASSUME NEW h \in Handlers, Begins(h) \/ Targets(h) PROVE LockInv'
  <2>1. /\ UNCHANGED dayLock /\ Frame(h)
        /\ req[h].pc \notin {"check", "insert"} /\ req'[h].pc \notin {"check", "insert"}
    BY <1>2 DEF Begins, Targets
  <2>2. \A l \in dayLock : l.holder # h
    BY <2>1 DEF LockInv
  <2> QED
    BY <1>0, <2>1, <2>2 DEF LockInv, Frame, Day
<1>3. ASSUME NEW h \in Handlers, Locks(h) PROVE LockInv'
  <2> DEFINE new == [resource |-> req[h].resource, day |-> Day(req[h]), holder |-> h]
  <2>1. /\ Frame(h) /\ req'[h].pc = "check" /\ req[h].pc = "lock"
        /\ req'[h].resource = req[h].resource /\ Day(req'[h]) = Day(req[h])
        /\ dayLock' = dayLock \cup {new}
    BY <1>0, <1>3 DEF Locks, Request, Day, CreatePcs
  <2>2. \A l \in dayLock : l.holder # h /\ ~(l.resource = new.resource /\ l.day = new.day)
    BY <1>3, <2>1 DEF LockInv, Locks, Locked
  <2>3. \A l, m \in dayLock' : l.resource = m.resource /\ l.day = m.day => l = m
    BY <2>1, <2>2 DEF LockInv
  <2>4. \A l \in dayLock' : /\ req'[l.holder].pc \in {"check", "insert"}
                            /\ l.resource = req'[l.holder].resource
                            /\ l.day = Day(req'[l.holder])
    BY <1>0, <2>1, <2>2 DEF LockInv, Frame
  <2>5. \A g \in Handlers :
          req'[g].pc \in {"check", "insert"} =>
            [resource |-> req'[g].resource, day |-> Day(req'[g]), holder |-> g] \in dayLock'
    BY <1>0, <2>1 DEF LockInv, Frame
  <2> QED
    BY <2>3, <2>4, <2>5 DEF LockInv, Day
<1>4. ASSUME NEW h \in Handlers, Checks(h) PROVE LockInv'
  <2>1. /\ Frame(h) /\ req'[h].pc = "insert" /\ req[h].pc = "check"
        /\ req'[h].resource = req[h].resource /\ Day(req'[h]) = Day(req[h])
        /\ dayLock' = dayLock
    BY <1>0, <1>4 DEF Checks, Request, Day, CreatePcs
  <2>2. \A g \in Handlers : /\ req'[g].resource = req[g].resource
                            /\ Day(req'[g]) = Day(req[g])
                            /\ req'[g].pc \in {"check", "insert"}
                                 <=> req[g].pc \in {"check", "insert"}
    BY <2>1 DEF Frame
  <2> QED
    BY <1>0, <2>1, <2>2 DEF LockInv, Day
<1>5. ASSUME NEW h \in Handlers, Finish(h) PROVE LockInv'
  <2>1. /\ Frame(h) /\ req'[h].pc = "idle"
        /\ dayLock' = { l \in dayLock : l.holder # h }
    BY <1>5, Finished
  <2> QED
    BY <1>0, <2>1 DEF LockInv, Frame, Day
<1> QED
  BY <1>1, <1>2, <1>3, <1>4, <1>5, StepShape DEF Inserts, Updates, Quits

\* The form the property has in the model.
LEMMA LockInvGives == TypeOK /\ LockInv => LockDiscipline
<1> SUFFICES ASSUME TypeOK, LockInv, NEW h \in Handlers
             PROVE  { [resource |-> l.resource, day |-> l.day] :
                        l \in { k \in dayLock : k.holder = h } }
                    = IF req[h].pc \in {"check", "insert"}
                      THEN {[resource |-> req[h].resource, day |-> Day(req[h])]} ELSE {}
  BY DEF LockInv, LockDiscipline
<1> DEFINE mine == { k \in dayLock : k.holder = h }
           lock == [resource |-> req[h].resource, day |-> Day(req[h]), holder |-> h]
<1>1. CASE req[h].pc \in {"check", "insert"}
  <2>1. lock \in mine
    BY <1>1 DEF LockInv
  <2>2. \A l \in mine : l.resource = req[h].resource /\ l.day = Day(req[h])
    BY DEF LockInv
  <2>3. { [resource |-> l.resource, day |-> l.day] : l \in mine }
          = {[resource |-> req[h].resource, day |-> Day(req[h])]}
    <3>1. lock.resource = req[h].resource /\ lock.day = Day(req[h])
      OBVIOUS
    <3> HIDE DEF mine, lock
    <3> QED
      BY <2>1, <2>2, <3>1
  <2> QED
    BY <1>1, <2>3
<1>2. CASE req[h].pc \notin {"check", "insert"}
  BY <1>2 DEF LockInv
<1> QED
  BY <1>1, <1>2

\* Every row, and every row a creation is about to insert, has a block that a
\* service started within working hours occupies.
BlocksInv ==
  /\ \A b \in Bookings : Exists(b) => Fits(rows[b])
  /\ \A h \in Handlers : req[h].pc \in CreatePcs => Fits(req[h])

\* The block of a working slot lies inside one local day.
LEMMA FitsOneDay == ASSUME NEW x, Fits(x) PROVE InOneDay(x)
BY WorkingSlotShape DEF Fits, InOneDay

\* Rows and requests keep the span of the working slot they were given.
LEMMA BlocksStep == TypeOK /\ TargetExists /\ BlocksInv /\ [Next]_vars => BlocksInv'
<1> SUFFICES ASSUME TypeOK, TargetExists, BlocksInv, [Next]_vars PROVE BlocksInv'
  OBVIOUS
<1>0. req \in [Handlers -> Request]
  BY DEF TypeOK
<1>1. ASSUME NEW b \in Bookings, Exists(b)' PROVE Fits(rows'[b])
  <2>1. CASE TablesSame
    BY <1>1, <2>1 DEF TablesSame, BlocksInv, Exists
  <2>2. ASSUME NEW h \in Handlers, Inserts(h) PROVE Fits(rows'[b])
    <3>1. CASE b = req[h].booking
      <4>1. Fits(req[h])
        BY <2>2 DEF Inserts, BlocksInv, CreatePcs
      <4>2. rows'[b] = NewRow(req[h])
        BY <2>2, <3>1, InsertedTables DEF Inserts
      <4> QED
        BY <4>1, <4>2 DEF Fits, NewRow
    <3>2. CASE b # req[h].booking
      BY <1>1, <2>2, <3>2, InsertedTables DEF Inserts, BlocksInv, Exists
    <3> QED
      BY <3>1, <3>2
  <2>3. ASSUME NEW h \in Handlers, Updates(h) PROVE Fits(rows'[b])
    <3>1. CASE b = req[h].booking
      <4>1. Exists(b)
        BY <2>3, <3>1 DEF Updates, TargetExists
      <4>2. Fits(rows[b])
        BY <4>1 DEF BlocksInv
      <4>3. /\ rows'[b].resource = rows[b].resource
            /\ rows'[b].startsAt = rows[b].startsAt
            /\ rows'[b].from = rows[b].from /\ rows'[b].to = rows[b].to
        BY <2>3, <3>1, UpdatedTables DEF Updates
      <4> QED
        BY <4>2, <4>3 DEF Fits
    <3>2. CASE b # req[h].booking
      BY <1>1, <2>3, <3>2, UpdatedTables DEF Updates, BlocksInv, Exists
    <3> QED
      BY <3>1, <3>2
  <2> QED
    BY <2>1, <2>2, <2>3, StepShape DEF Begins, Targets, Locks, Checks, Quits
<1>2. ASSUME NEW g \in Handlers, req'[g].pc \in CreatePcs PROVE Fits(req'[g])
  <2>1. CASE req'[g] = req[g]
    BY <1>2, <2>1 DEF BlocksInv
  <2>2. ASSUME NEW h \in Handlers, Begins(h) PROVE Fits(req'[g])
    BY <2>1, <2>2 DEF Begins, Frame
  <2>3. ASSUME NEW h \in Handlers, Targets(h) PROVE Fits(req'[g])
    BY <1>2, <2>1, <2>3 DEF Targets, Frame, CreatePcs
  <2>4. ASSUME NEW h \in Handlers, Locks(h) \/ Checks(h) PROVE Fits(req'[g])
    <3>1. CASE g = h
      <4>1. /\ req'[g].resource = req[g].resource /\ req'[g].startsAt = req[g].startsAt
            /\ req'[g].from = req[g].from /\ req'[g].to = req[g].to
            /\ req[g].pc \in CreatePcs
        BY <1>0, <2>4, <3>1 DEF Locks, Checks, Request, CreatePcs
      <4> QED
        BY <4>1 DEF BlocksInv, Fits
    <3>2. CASE g # h
      BY <2>1, <2>4, <3>2 DEF Locks, Checks, Frame
    <3> QED
      BY <3>1, <3>2
  <2>5. ASSUME NEW h \in Handlers, Finish(h) PROVE Fits(req'[g])
    BY <1>2, <2>1, <2>5, Finished DEF Frame, CreatePcs
  <2> QED
    BY <2>1, <2>2, <2>3, <2>4, <2>5, StepShape DEF Inserts, Updates, Quits
<1> QED
  BY <1>1, <1>2 DEF BlocksInv, Fits

\* The id of a row about to be inserted is nobody else's.
FreshIds ==
  /\ \A h \in Handlers : req[h].pc \in CreatePcs => ~Exists(req[h].booking)
  /\ \A g, h \in Handlers :
       req[g].pc \in CreatePcs /\ req[h].pc \in CreatePcs /\ req[g].booking = req[h].booking
         => g = h

\* Two creations under way never share a row id, and none reuses one.
LEMMA FreshStep == TypeOK /\ TargetExists /\ FreshIds /\ [Next]_vars => FreshIds'
<1> SUFFICES ASSUME TypeOK, TargetExists, FreshIds, [Next]_vars PROVE FreshIds'
  OBVIOUS
<1>0. req \in [Handlers -> Request]
  BY DEF TypeOK
<1>1. CASE TablesSame /\ UNCHANGED req
  BY <1>1 DEF FreshIds, TablesSame, Exists
<1>2. ASSUME NEW h \in Handlers, Begins(h) PROVE FreshIds'
  BY <1>2 DEF Begins, FreshIds, TablesSame, Exists, Frame, CreatePcs
<1>3. ASSUME NEW h \in Handlers, Targets(h) PROVE FreshIds'
  <2>1. \A g \in Handlers : req'[g].pc \in CreatePcs => req'[g] = req[g]
    BY <1>3 DEF Targets, Frame, CreatePcs
  <2> QED
    BY <1>3, <2>1 DEF Targets, FreshIds, TablesSame, Exists
<1>4. ASSUME NEW h \in Handlers, Locks(h) \/ Checks(h) PROVE FreshIds'
  <2>1. \A g \in Handlers : /\ req'[g].pc \in CreatePcs => req[g].pc \in CreatePcs
                            /\ req'[g].booking = req[g].booking
    BY <1>0, <1>4 DEF Locks, Checks, Frame, Request, CreatePcs
  <2> QED
    BY <1>4, <2>1 DEF Locks, Checks, FreshIds, TablesSame, Exists
<1>5. ASSUME NEW h \in Handlers, Finish(h),
             TablesSame \/ Inserts(h) \/ Updates(h)
      PROVE  FreshIds'
  <2>1. \A g \in Handlers : req'[g].pc \in CreatePcs => g # h /\ req'[g] = req[g]
    BY <1>5, Finished DEF Frame, CreatePcs
  <2>2. ASSUME NEW g \in Handlers, req'[g].pc \in CreatePcs
        PROVE  rows'[req'[g].booking].status = NoRow
    <3>1. /\ g # h /\ req'[g] = req[g] /\ req[g].pc \in CreatePcs
          /\ rows[req[g].booking].status = NoRow /\ req[g].booking \in Bookings
      BY <1>0, <2>1, <2>2 DEF FreshIds, Exists, Request
    <3>2. CASE TablesSame
      BY <3>1, <3>2 DEF TablesSame
    <3>3. CASE Inserts(h)
      <4>1. req[g].booking # req[h].booking
        BY <3>1, <3>3 DEF Inserts, FreshIds, CreatePcs
      <4> QED
        BY <3>1, <3>3, <4>1, InsertedTables DEF Inserts
    <3>4. CASE Updates(h)
      <4>1. req[g].booking # req[h].booking
        BY <3>1, <3>4 DEF Updates, TargetExists, Exists
      <4> QED
        BY ZenonT(40), <3>1, <3>4, <4>1, UpdatedTables DEF Updates
    <3> QED
      BY <1>5, <3>2, <3>3, <3>4
  <2> QED
    BY <2>1, <2>2 DEF FreshIds, Exists
<1> QED
  BY <1>1, <1>2, <1>3, <1>4, <1>5, StepShape DEF Inserts, Updates, Quits

\* The last status recorded is the status of the row.
HistoryEndsAtStatus ==
  \A b \in Bookings :
    Exists(b) => Len(history[b]) > 0 /\ history[b][Len(history[b])].to = rows[b].status

\* The last entry of a log that has just been appended to.
LEMMA LastOfAppend ==
  ASSUME NEW S, NEW s \in Seq(S), NEW e \in S
  PROVE  LET t == Append(s, e) IN
         /\ Len(t) > 0 /\ t[Len(t)] = e
         /\ \A i \in DOMAIN s : i \in DOMAIN t /\ t[i] = s[i]
OBVIOUS

\* updateStatus and create write the status and its history entry together.
LEMMA HistoryStep ==
  TypeOK /\ TargetExists /\ HistoryEndsAtStatus /\ [Next]_vars => HistoryEndsAtStatus'
<1> SUFFICES ASSUME TypeOK, TargetExists, HistoryEndsAtStatus, [Next]_vars,
                    NEW b \in Bookings, Exists(b)'
             PROVE  Len(history'[b]) > 0 /\ history'[b][Len(history'[b])].to = rows'[b].status
  BY DEF HistoryEndsAtStatus
<1>0. req \in [Handlers -> Request] /\ history[b] \in Seq(StatusChange)
  BY DEF TypeOK
<1>1. CASE rows'[b] = rows[b] /\ history'[b] = history[b]
  BY <1>1 DEF HistoryEndsAtStatus, Exists
<1>2. ASSUME NEW h \in Handlers, Inserts(h), b = req[h].booking
      PROVE  Len(history'[b]) > 0 /\ history'[b][Len(history'[b])].to = rows'[b].status
  <2>0. /\ history'[b] = Append(history[b], [from |-> NoRow, to |-> InitialStatus])
        /\ rows'[b] = NewRow(req[h])
    BY <1>2, InsertedTables DEF Inserts
  <2>1. rows'[b].status = InitialStatus
    BY <2>0 DEF NewRow
  <2>2. [from |-> NoRow, to |-> InitialStatus] \in StatusChange
    BY InitialStatusType DEF StatusChange
  <2> QED
    BY <1>0, <2>0, <2>1, <2>2, LastOfAppend
<1>3. ASSUME NEW h \in Handlers, Updates(h), b = req[h].booking
      PROVE  Len(history'[b]) > 0 /\ history'[b][Len(history'[b])].to = rows'[b].status
  <2>1. /\ history'[b] = Append(history[b], [from |-> req[h].seen, to |-> req[h].next])
        /\ rows'[b].status = req[h].next
    BY <1>3, UpdatedTables DEF Updates
  <2>2. [from |-> req[h].seen, to |-> req[h].next] \in StatusChange
    BY <1>0 DEF StatusChange, Request
  <2> QED
    BY <1>0, <2>1, <2>2, LastOfAppend
<1>4. CASE TablesSame
  BY <1>1, <1>4 DEF TablesSame
<1>5. ASSUME NEW h \in Handlers, Inserts(h) \/ Updates(h), b # req[h].booking
      PROVE  rows'[b] = rows[b] /\ history'[b] = history[b]
  BY <1>5, InsertedTables, UpdatedTables DEF Inserts, Updates
<1> QED
  BY <1>1, <1>2, <1>3, <1>4, <1>5, StepShape DEF Begins, Targets, Locks, Checks, Quits

-----------------------------------------------------------------------------
(* The inductive invariant. *)

Inv ==
  /\ TypeOK /\ TargetExists /\ LockInv /\ BlocksInv /\ FreshIds /\ HistoryEndsAtStatus
  /\ CheckedSpanStaysFree /\ NoDoubleBooking

\* Two transactions between their conflict query and their insert never work
\* on overlapping spans of one resource: they would hold the same day lock.
LEMMA InsertersApart ==
  ASSUME Inv, NEW g \in Handlers, NEW h \in Handlers,
         req[g].pc = "insert", req[h].pc = "insert", req[g].resource = req[h].resource,
         RangesOverlap(req[g].from, req[g].to, req[h].from, req[h].to)
  PROVE  g = h
<1>1. InOneDay(req[g]) /\ InOneDay(req[h])
  BY FitsOneDay DEF Inv, BlocksInv, CreatePcs
<1>2. Day(req[g]) = Day(req[h])
  BY <1>1, OverlapMeansSameDay DEF Day
<1> DEFINE lg == [resource |-> req[g].resource, day |-> Day(req[g]), holder |-> g]
           lh == [resource |-> req[h].resource, day |-> Day(req[h]), holder |-> h]
<1>3. lg \in dayLock /\ lh \in dayLock
  BY DEF Inv, LockInv
<1>4. lg = lh
  BY <1>2, <1>3 DEF Inv, LockInv
<1> QED
  BY <1>4

\* Nobody but a stale status write fills a span another creation has checked:
\* an insert there would need the same day lock.
LEMMA CheckedStep == Inv /\ [Next]_vars => CheckedSpanStaysFree'
<1> SUFFICES ASSUME Inv, [Next]_vars,
                    NEW h \in Handlers, req'[h].pc = "insert",
                    NEW b \in Bookings,
                    rows'[b].status # NoRow, rows'[b].status \notin FreeStatuses,
                    rows'[b].resource = req'[h].resource,
                    RangesOverlap(rows'[b].from, rows'[b].to, req'[h].from, req'[h].to)
             PROVE  \E i \in DOMAIN history'[b] : history'[b][i].to \in FreeStatuses
  BY DEF CheckedSpanStaysFree, Blockers, Occupies, Exists, WasFree
<1>0. /\ TypeOK /\ TargetExists /\ req \in [Handlers -> Request]
      /\ history[b] \in Seq(StatusChange)
  BY DEF Inv, TypeOK
<1>1. ASSUME rows'[b] = rows[b], history'[b] = history[b], req'[h] = req[h]
      PROVE  \E i \in DOMAIN history'[b] : history'[b][i].to \in FreeStatuses
  BY <1>1 DEF Inv, CheckedSpanStaysFree, Blockers, Occupies, Exists, WasFree
<1>2. ASSUME NEW g \in Handlers, Checks(g), g = h PROVE FALSE
  <2>1. /\ req'[h].resource = req[h].resource
        /\ req'[h].from = req[h].from /\ req'[h].to = req[h].to
    BY <1>0, <1>2 DEF Checks, Request, CreatePcs
  <2>2. b \notin Blockers(req[h].resource, req[h].from, req[h].to) /\ rows'[b] = rows[b]
    BY <1>2 DEF Checks, TablesSame
  <2> QED
    BY <2>1, <2>2 DEF Blockers, Occupies, Exists
<1>3. ASSUME NEW g \in Handlers, Begins(g) \/ Targets(g) \/ Locks(g) \/ Quits(g) \/ (Checks(g) /\ g # h)
      PROVE  /\ rows'[b] = rows[b] /\ history'[b] = history[b] /\ req'[h] = req[h]
  <2>1. TablesSame /\ Frame(g)
    BY <1>0, <1>3, Finished DEF Begins, Targets, Locks, Quits, Checks
  <2>2. g # h
    BY <1>0, <1>3, Finished DEF Begins, Targets, Locks, Quits, Request, CreatePcs
  <2> QED
    BY <2>1, <2>2 DEF TablesSame, Frame
<1>4. ASSUME NEW g \in Handlers, Inserts(g)
      PROVE  \E i \in DOMAIN history'[b] : history'[b][i].to \in FreeStatuses
  <2>1. g # h /\ req'[h] = req[h] /\ req[h].pc = "insert"
    BY <1>0, <1>4, Finished DEF Inserts, Frame
  <2>2. CASE b = req[g].booking
    <3>1. rows'[b] = NewRow(req[g])
      BY <1>0, <1>4, <2>2, InsertedTables DEF Inserts
    <3>2. /\ req[g].resource = req[h].resource
          /\ RangesOverlap(req[g].from, req[g].to, req[h].from, req[h].to)
      BY <2>1, <3>1 DEF NewRow
    <3> QED
      BY <1>4, <2>1, <3>2, InsertersApart DEF Inserts
  <2>3. CASE b # req[g].booking
    BY <1>0, <1>1, <1>4, <2>1, <2>3, InsertedTables DEF Inserts
  <2> QED
    BY <2>2, <2>3
<1>5. ASSUME NEW g \in Handlers, Updates(g)
      PROVE  \E i \in DOMAIN history'[b] : history'[b][i].to \in FreeStatuses
  <2>1. req'[h] = req[h] /\ req[h].pc = "insert"
    BY <1>0, <1>5, Finished DEF Updates, Frame
  <2>2. CASE b = req[g].booking
    <3>1. /\ rows'[b].resource = rows[b].resource
          /\ rows'[b].from = rows[b].from /\ rows'[b].to = rows[b].to
          /\ history'[b] = Append(history[b], [from |-> req[g].seen, to |-> req[g].next])
      BY <1>0, <1>5, <2>2, UpdatedTables DEF Updates
    <3>2. [from |-> req[g].seen, to |-> req[g].next] \in StatusChange
      BY <1>0 DEF StatusChange, Request
    <3>3. \A i \in DOMAIN history[b] :
            i \in DOMAIN history'[b] /\ history'[b][i] = history[b][i]
      BY <1>0, <3>1, <3>2, LastOfAppend
    <3>4. Exists(b)
      BY <1>0, <1>5, <2>2 DEF Updates, TargetExists
    <3>5. \E i \in DOMAIN history[b] : history[b][i].to \in FreeStatuses
      <4>1. CASE rows[b].status \in FreeStatuses
        <5>1. /\ Len(history[b]) > 0
              /\ history[b][Len(history[b])].to \in FreeStatuses
          BY <3>4, <4>1 DEF Inv, HistoryEndsAtStatus
        <5> QED
          BY <1>0, <5>1
      <4>2. CASE rows[b].status \notin FreeStatuses
        BY <2>1, <3>1, <3>4, <4>2
           DEF Inv, CheckedSpanStaysFree, Blockers, Occupies, WasFree
      <4> QED
        BY <4>1, <4>2
    <3> QED
      BY <3>3, <3>5
  <2>3. CASE b # req[g].booking
    BY <1>0, <1>1, <1>5, <2>1, <2>3, UpdatedTables DEF Updates
  <2> QED
    BY <2>2, <2>3
<1>6. CASE TablesSame /\ UNCHANGED req
  BY <1>1, <1>6 DEF TablesSame
<1> QED
  BY <1>0, <1>1, <1>2, <1>3, <1>4, <1>5, <1>6, StepShape

\* What the exclusion constraint admits overlaps no other row.
LEMMA AdmittedFits ==
  ASSUME NEW b, NEW r, NEW from, NEW to, NEW s,
         ~ConstraintRefuses(b, r, from, to, s), s \notin FreeStatuses
  PROVE  \A a \in Bookings \ {b} :
           Occupies(a) /\ rows[a].resource = r
             => ~RangesOverlap(rows[a].from, rows[a].to, from, to)
BY DEF ConstraintRefuses, Blockers

\* Two occupying rows of one resource after a step.
Apart(r1, r2) ==
  r1.resource = r2.resource => ~RangesOverlap(r1.from, r1.to, r2.from, r2.to)

\* Overlap does not depend on the order of the two rows.
LEMMA ApartSymmetric ==
  ASSUME NEW r1, NEW r2, Apart(r1, r2)
  PROVE  Apart(r2, r1)
BY DEF Apart, RangesOverlap

\* A changed row that occupies its span stays apart from the unchanged ones.
LEMMA ChangedRowApart ==
  ASSUME Inv, NEW h \in Handlers, Inserts(h) \/ Updates(h),
         rows'[req[h].booking].status \notin FreeStatuses,
         NEW a \in Bookings \ {req[h].booking}, Occupies(a)
  PROVE  Apart(rows[a], rows'[req[h].booking])
<1> DEFINE b == req[h].booking
<1>0. TypeOK
  BY DEF Inv
<1>1. CASE Inserts(h)
  <2>1. rows'[b] = NewRow(req[h])
    BY <1>0, <1>1, InsertedTables DEF Inserts
  <2>2. ~ConstraintRefuses(b, req[h].resource, req[h].from, req[h].to, InitialStatus)
    BY <1>1 DEF Inserts, Inserted
  <2>3. InitialStatus \notin FreeStatuses
    BY DEF InitialStatus, FreeStatuses
  <2> QED
    BY <2>1, <2>2, <2>3, AdmittedFits DEF NewRow, Apart
<1>2. CASE Updates(h)
  <2>1. /\ rows'[b].status = req[h].next /\ rows'[b].resource = rows[b].resource
        /\ rows'[b].from = rows[b].from /\ rows'[b].to = rows[b].to
    BY <1>0, <1>2, UpdatedTables DEF Updates
  <2>2. ~ConstraintRefuses(b, rows[b].resource, rows[b].from, rows[b].to, req[h].next)
    BY <1>2 DEF Updates, Updated
  <2> QED
    BY <2>1, <2>2, AdmittedFits DEF Apart
<1> QED
  BY <1>1, <1>2

\* Neither an insert nor a revived booking gets past the exclusion constraint.
LEMMA DoubleStep == Inv /\ [Next]_vars => NoDoubleBooking'
<1> SUFFICES ASSUME Inv, [Next]_vars, NEW b1 \in Bookings, NEW b2 \in Bookings, b1 # b2,
                    rows'[b1].status # NoRow, rows'[b1].status \notin FreeStatuses,
                    rows'[b2].status # NoRow, rows'[b2].status \notin FreeStatuses
             PROVE  Apart(rows'[b1], rows'[b2])
  BY DEF NoDoubleBooking, Occupies, Exists, Apart
<1>0. TypeOK /\ TargetExists
  BY DEF Inv
<1>1. ASSUME rows'[b1] = rows[b1], rows'[b2] = rows[b2]
      PROVE  Apart(rows'[b1], rows'[b2])
  BY <1>1 DEF Inv, NoDoubleBooking, Occupies, Exists, Apart
<1>2. ASSUME NEW h \in Handlers, Inserts(h) \/ Updates(h)
      PROVE  Apart(rows'[b1], rows'[b2])
  <2>1. \A a \in Bookings \ {req[h].booking} : rows'[a] = rows[a]
    BY <1>0, <1>2, InsertedTables, UpdatedTables DEF Inserts, Updates
  <2>2. CASE b1 = req[h].booking
    <3>1. Occupies(b2) /\ rows'[b2] = rows[b2]
      BY <2>1, <2>2 DEF Occupies, Exists
    <3>2. Apart(rows[b2], rows'[b1])
      BY <1>2, <2>2, <3>1, ChangedRowApart
    <3> QED
      BY <3>1, <3>2, ApartSymmetric
  <2>3. CASE b2 = req[h].booking
    <3>1. Occupies(b1) /\ rows'[b1] = rows[b1]
      BY <2>1, <2>3 DEF Occupies, Exists
    <3> QED
      BY <1>2, <2>3, <3>1, ChangedRowApart
  <2> QED
    BY <1>1, <2>1, <2>2, <2>3
<1> QED
  BY <1>0, <1>1, <1>2, StepShape DEF Begins, Targets, Locks, Checks, Quits, TablesSame

\* Nothing is booked and nobody is busy at first.
LEMMA InvInit == Init => Inv
<1> SUFFICES ASSUME Init PROVE Inv
  OBVIOUS
<1>1. TypeOK
  BY TypeInit
<1>2. \A h \in Handlers : req[h].pc = "idle"
  BY IdleType DEF Init
<1>3. \A b \in Bookings : ~Exists(b)
  BY DEF Init, Exists
<1>4. dayLock = {}
  BY DEF Init
<1> QED
  BY <1>1, <1>2, <1>3, <1>4
     DEF Inv, TargetExists, LockInv, BlocksInv, FreshIds, HistoryEndsAtStatus,
         CheckedSpanStaysFree, NoDoubleBooking, Occupies, CreatePcs

\* The invariant is inductive.
LEMMA InvStep == Inv /\ [Next]_vars => Inv'
BY TypeStep, TargetStep, LockStep, BlocksStep, FreshStep, HistoryStep, CheckedStep, DoubleStep
   DEF Inv

\* Every reachable state of the booking service satisfies the inductive
\* invariant; the theorems below read their property off it.
THEOREM Invariance == Spec => []Inv
BY InvInit, InvStep, PTL DEF Spec

-----------------------------------------------------------------------------
(* The results. *)

\* The state of the booking service and of its tables keeps its shape.
THEOREM TypeCorrect == Spec => []TypeOK
<1>1. Inv => TypeOK
  BY DEF Inv
<1> QED
  BY <1>1, Invariance, PTL

\* The day lock of create and the exclusion constraint of the table together
\* keep every resource free of overlapping bookings, however creations,
\* cancellations, stale status writes and aborts interleave.
THEOREM NeverDoubleBooked == Spec => []NoDoubleBooking
<1>1. Inv => NoDoubleBooking
  BY DEF Inv
<1> QED
  BY <1>1, Invariance, PTL

\* A creation that found its span free under the day lock inserts into a free
\* span, unless a status write has brought a cancelled booking back into it.
THEOREM CheckHolds == Spec => []CheckedSpanStaysFree
<1>1. Inv => CheckedSpanStaysFree
  BY DEF Inv
<1> QED
  BY <1>1, Invariance, PTL

\* No request leaves a day lock behind, and no two requests hold the same one.
THEOREM LocksAreScoped == Spec => []LockDiscipline
<1>1. Inv => LockDiscipline
  BY LockInvGives DEF Inv
<1> QED
  BY <1>1, Invariance, PTL

-----------------------------------------------------------------------------
(* The booking table implements the resource calendar. *)

Reservation(b, x) == [booking |-> b, resource |-> x.resource, from |-> x.from, to |-> x.to]

\* The span of a row that fits working hours is one the calendar knows.
LEMMA FittingIsReservation ==
  ASSUME NEW b \in Bookings, NEW x, Fits(x)
  PROVE  Reservation(b, x) \in Reservations
<1>1. PICK w \in WorkingSlots :
        w.resource = x.resource /\ w.slot.from = x.from /\ w.slot.to = x.to
  BY DEF Fits
<1> QED
  BY <1>1 DEF Reservations, Reservation

\* A step that changes one row changes the held reservations by that row's.
LEMMA HeldChange ==
  ASSUME NEW b \in Bookings, \A a \in Bookings \ {b} : rows'[a] = rows[a]
  PROVE  /\ Occupies(b) => Reservation(b, rows[b]) \in Held
         /\ \A y \in Held : y.booking = b => Occupies(b) /\ y = Reservation(b, rows[b])
         /\ Held' = { y \in Held : y.booking # b } \cup
                      (IF rows'[b].status # NoRow /\ rows'[b].status \notin FreeStatuses
                       THEN {Reservation(b, rows'[b])} ELSE {})
BY DEF Held, Occupies, Exists, Reservation

\* One insert takes a free reservation, one status write gives one back or
\* takes one again; nothing else touches the calendar.
LEMMA CalendarStep == Inv /\ [Next]_vars => [Calendar!Next]_Held
<1> SUFFICES ASSUME Inv, [Next]_vars, Held' # Held PROVE Calendar!Next
  OBVIOUS
<1>0. TypeOK /\ TargetExists
  BY DEF Inv
<1>1. rows' # rows
  BY DEF Held, Occupies, Exists
<1>2. PICK h \in Handlers : Inserts(h) \/ Updates(h)
  BY <1>0, <1>1, StepShape DEF Begins, Targets, Locks, Checks, Quits, TablesSame
<1> DEFINE b == req[h].booking
           x == Reservation(b, rows'[b])
<1>3. /\ b \in Bookings /\ rows'[b].status # NoRow
      /\ \A a \in Bookings \ {b} : rows'[a] = rows[a]
  BY <1>0, <1>2, InsertedTables, UpdatedTables DEF Inserts, Updates
<1>4. Fits(rows'[b])
  <2>1. BlocksInv'
    BY <1>0, BlocksStep DEF Inv
  <2> QED
    BY <1>3, <2>1 DEF BlocksInv, Exists
<1>5. x \in Reservations
  BY <1>3, <1>4, FittingIsReservation
<1>6. CASE rows'[b].status \notin FreeStatuses
  <2>1. ~Occupies(b)
    <3>1. CASE Inserts(h)
      BY <3>1 DEF Inserts, Inv, FreshIds, CreatePcs, Occupies
    <3>2. CASE Updates(h) /\ Occupies(b)
      <4>1. Reservation(b, rows'[b]) = Reservation(b, rows[b])
        BY <1>0, <3>2, UpdatedTables DEF Updates, Reservation
      <4>2. Held' = Held
        BY SMTT(30), <1>3, <1>6, <3>2, <4>1, HeldChange
      <4> QED
        BY <4>2
    <3> QED
      BY <1>2, <3>1, <3>2
  <2>2. Held' = Held \cup {x} /\ \A y \in Held : y.booking # b
    BY <1>3, <1>6, <2>1, HeldChange
  <2>3. ASSUME NEW y \in Held PROVE ~Calendar!Collides(x, y)
    <3>1. PICK a \in Bookings : Occupies(a) /\ y = Reservation(a, rows[a])
      BY DEF Held, Reservation
    <3>2. a # b
      BY <2>1, <3>1
    <3>3. Apart(rows[a], rows'[b])
      BY <1>2, <1>6, <3>1, <3>2, ChangedRowApart
    <3> QED
      BY <3>1, <3>3 DEF Apart, RangesOverlap, Reservation, Calendar!Collides
  <2>4. Calendar!Take(x)
    BY <2>2, <2>3 DEF Calendar!Take, Reservation
  <2> QED
    BY <1>5, <2>4 DEF Calendar!Next
<1>7. CASE rows'[b].status \in FreeStatuses
  <2>1. Held' = { y \in Held : y.booking # b }
    BY <1>3, <1>7, HeldChange
  <2>2. Occupies(b)
    BY <1>3, <2>1, HeldChange
  <2>3. Updates(h)
    BY <1>2, <2>2 DEF Inserts, Inv, FreshIds, CreatePcs, Occupies
  <2>4. x = Reservation(b, rows[b])
    BY <1>0, <2>3, UpdatedTables DEF Updates, Reservation
  <2>5. x \in Held /\ Held' = Held \ {x}
    BY <1>3, <2>1, <2>2, <2>4, HeldChange DEF Reservation
  <2> QED
    BY <1>5, <2>5 DEF Calendar!Next, Calendar!GiveBack
<1> QED
  BY <1>6, <1>7

\* Every behaviour of the booking service is one of the resource calendar.
THEOREM Implements == Spec => ImplementsCalendar
<1>1. Init => Calendar!Init
  BY DEF Init, Calendar!Init, Held, Occupies, Exists
<1>2. Spec => [][Calendar!Next]_Held
  BY CalendarStep, Invariance, PTL DEF Spec
<1> QED
  BY <1>1, <1>2, PTL DEF Spec, ImplementsCalendar, Calendar!Spec

-----------------------------------------------------------------------------
(* What is shown and what is accepted.                                       *)

\* The zone is less than half a day from UTC, so that noon UTC falls on the same date of the
\* tenant's calendar, which is what getAvailability relies on to find the weekday.
ZoneIsNear == 0 <= TicksPerDay \div 2 + TzOffset /\ TicksPerDay \div 2 + TzOffset < TicksPerDay

\* The weekday that getAvailability finds is the one that create finds.
LEMMA NoonIsToday ==
  ASSUME ZoneIsNear, NEW day \in Days
  PROVE  LocalWeekday(day * TicksPerDay + TicksPerDay \div 2) = WeekdayOf(day)
<1> DEFINE noon == TicksPerDay \div 2 + TzOffset
<1>1. TicksPerDay \in Nat \ {0} /\ TzOffset \in Int /\ day \in Int /\ TicksPerDay \div 2 \in Int
  BY TimeAssumption, BookingAssumption DEF Days
<1>2. noon \in TimeOfDay
  BY <1>1 DEF ZoneIsNear, TimeOfDay
<1>3. ZonedTimeToUtc(day, noon) = day * TicksPerDay + TicksPerDay \div 2
  <2>1. day * TicksPerDay \in Int
    BY <1>1
  <2> QED
    BY <1>1, <2>1 DEF ZonedTimeToUtc
<1> HIDE DEF noon
<1>4. LocalDay(ZonedTimeToUtc(day, noon)) = day
  BY <1>1, <1>2, LocalDayOfTime
<1> QED
  BY <1>3, <1>4 DEF LocalWeekday

\* A booking that is in the way of a block of a day is one that getAvailability reads for it.
LEMMA OverlapIsNear ==
  ASSUME TypeOK, ZoneIsNear, NEW s, InOneDay(s), NEW b \in Bookings,
         RangesOverlap(rows[b].from, rows[b].to, s.from, s.to)
  PROVE  /\ rows[b].from < (LocalDay(s.startsAt) + 2) * TicksPerDay
         /\ rows[b].to > (LocalDay(s.startsAt) - 1) * TicksPerDay
<1> DEFINE T == TicksPerDay
           day == LocalDay(s.startsAt)
<1>1. T \in Nat \ {0} /\ TzOffset \in Int /\ T \div 2 \in Nat /\ T \div 2 <= T
  BY TimeAssumption
<1>2. day \in Int
  BY <1>1 DEF InOneDay, LocalDay
<1>3. rows[b].from \in Int /\ rows[b].to \in Int /\ s.from \in Int /\ s.to \in Int
  <2>1. Instants \subseteq Int
    BY <1>1, BookingAssumption DEF Instants, ZonedTimeToUtc
  <2>2. rows[b] \in Row
    BY DEF TypeOK
  <2> QED
    BY <2>1, <2>2 DEF Row, InOneDay
<1>4. ZonedTimeToUtc(day, 0) <= s.from /\ s.to < ZonedTimeToUtc(day + 1, 0)
  BY DEF InOneDay
<1>5. -T <= TzOffset /\ TzOffset <= T
  BY <1>1 DEF ZoneIsNear
<1> HIDE DEF day, T
<1>6. PICK start \in Int : start = day * T
  BY <1>1, <1>2
<1>7. (day + 1) * T = start + T /\ (day + 2) * T = start + 2 * T /\ (day - 1) * T = start - T
  BY <1>1, <1>2, <1>6
<1>8. start - TzOffset <= s.from /\ s.to < start + T - TzOffset
  BY <1>1, <1>4, <1>6, <1>7 DEF ZonedTimeToUtc, T
<1>9. rows[b].from < s.to /\ s.from < rows[b].to
  BY DEF RangesOverlap
<1>10. rows[b].from < start + 2 * T /\ rows[b].to > start - T
  BY <1>1, <1>3, <1>5, <1>6, <1>8, <1>9
<1> QED
  BY <1>7, <1>10 DEF T, day

\* The starts on the grid of a day, before the engine looks at the clock and the calendar.
Grid(svc, r, day, weekday) ==
  { Slot(ZonedTimeToUtc(day, TimeOfDayFromMinutes(m)),
         BufferBefore(svc, r), Duration[svc], BufferAfter(svc, r)) :
      m \in UNION { StartsInWindow(w, BufferBefore(svc, r), Duration[svc], BufferAfter(svc, r)) :
                      w \in WorkingWindows(BusinessHours[weekday], BranchHours[r][weekday],
                                           Schedule[r][WeekdayOf(day)]) } }

\* A slot is a start on the grid that the clock, the horizon and the calendar admit.
LEMMA SlotsAreOnGrid ==
  ASSUME NEW svc, NEW r, NEW day, NEW weekday, NEW blocked, NEW t0, NEW lead, NEW horizon, NEW s
  PROVE  s \in SlotsOf(svc, r, day, weekday, blocked, t0, lead, horizon) <=>
           /\ s \in Grid(svc, r, day, weekday)
           /\ s.startsAt >= t0 + lead /\ s.startsAt <= t0 + horizon
           /\ \A b \in blocked : ~RangesOverlap(s.from, s.to, b.from, b.to)
BY DEF SlotsOf, ComputeAvailability, Grid

\* assertWithinWorkingHours takes the grid as it is: its clock and horizon reject nothing.
LEMMA GridIsWorking ==
  ASSUME NEW svc \in Services, NEW r \in Resources, NEW day \in Days,
         NEW s \in Grid(svc, r, day, WeekdayOf(day))
  PROVE  /\ s = BlockAt(svc, r, s.startsAt) /\ LocalDay(s.startsAt) = day /\ InOneDay(s)
         /\ WithinWorkingHours(svc, r, s.startsAt)
<1> DEFINE t0 == ZonedTimeToUtc(0, 0)
           horizon == (LastDay + 2) * TicksPerDay
<1>1. TicksPerDay \in Nat \ {0} /\ TzOffset \in Int /\ LastDay \in Nat
  BY TimeAssumption, BookingAssumption
<1>2. WeekdayOf(day) \in Weekdays
  BY <1>1 DEF WeekdayOf, Weekdays, Days
<1>3. s \in SlotsOf(svc, r, day, WeekdayOf(day), {}, s.startsAt, 0, 0)
  <2>1. s.startsAt \in Int
    <3>1. PICK m : s = Slot(ZonedTimeToUtc(day, TimeOfDayFromMinutes(m)),
                            BufferBefore(svc, r), Duration[svc], BufferAfter(svc, r)) /\ m \in Int
      <4>1. \A w \in WorkingWindows(BusinessHours[WeekdayOf(day)], BranchHours[r][WeekdayOf(day)],
                                    Schedule[r][WeekdayOf(day)]) :
              w.start \in Int /\ w.end \in Int
        BY <1>1, <1>2, WorkingWindowsType DEF TimeRange, TimeOfDay
      <4> QED
        BY <4>1 DEF Grid, StartsInWindow
    <3>2. day * TicksPerDay \in Int /\ m % TicksPerDay \in Int
      BY <1>1, <3>1 DEF Days
    <3> QED
      BY <1>1, <3>1, <3>2 DEF Slot, ZonedTimeToUtc, TimeOfDayFromMinutes
  <2> QED
    BY <2>1, SlotsAreOnGrid
<1>4. /\ s = BlockAt(svc, r, s.startsAt) /\ LocalDay(s.startsAt) = day /\ InOneDay(s)
      /\ s.startsAt \in Instants
  BY <1>2, <1>3, SlotShape
<1>5. s.startsAt >= t0 + 0 /\ s.startsAt <= t0 + horizon
  <2>1. t0 \in Int /\ ZonedTimeToUtc(LastDay + 1, 0) <= t0 + horizon /\ horizon \in Int
        /\ ZonedTimeToUtc(LastDay + 1, 0) \in Int
    <3>1. PICK span \in Int : span = LastDay * TicksPerDay
      BY <1>1
    <3>2. (LastDay + 1) * TicksPerDay = span + TicksPerDay /\ horizon = span + 2 * TicksPerDay
      BY <1>1, <3>1
    <3> HIDE DEF horizon
    <3> QED
      BY <1>1, <3>2 DEF ZonedTimeToUtc
  <2> HIDE DEF horizon
  <2> QED
    BY <1>4, <2>1 DEF Instants
<1>6. s \in SlotsOf(svc, r, day, WeekdayOf(day), {}, t0, 0, horizon)
  <2> HIDE DEF t0, horizon
  <2> QED
    BY <1>5, SlotsAreOnGrid
<1>7. [service |-> svc, resource |-> r, slot |-> s] \in WorkingSlots
  <2> DEFINE found(a, q, d) ==
        { [service |-> a, resource |-> q, slot |-> x] :
            x \in SlotsOf(a, q, d, WeekdayOf(d), {}, t0, 0, horizon) }
  <2>1. [service |-> svc, resource |-> r, slot |-> s] \in found(svc, r, day)
    BY <1>6
  <2>2. WorkingSlots = UNION { found(a, q, d) : a \in Services, q \in Resources, d \in Days }
    BY DEF WorkingSlots
  <2>3. \A a \in Services, q \in Resources, d \in Days : found(a, q, d) \subseteq WorkingSlots
    <3> HIDE DEF found
    <3> QED
      BY <2>2
  <2>4. found(svc, r, day) \subseteq WorkingSlots
    <3> HIDE DEF found
    <3> QED
      BY <2>3
  <2> QED
    BY <2>1, <2>4
<1> QED
  BY <1>4, <1>7 DEF WithinWorkingHours

\* A start within working hours is on the grid of its local day.
LEMMA WorkingIsOnGrid ==
  ASSUME NEW svc, NEW r, NEW t, WithinWorkingHours(svc, r, t)
  PROVE  /\ svc \in Services /\ r \in Resources /\ LocalDay(t) \in Days
         /\ BlockAt(svc, r, t) \in Grid(svc, r, LocalDay(t), WeekdayOf(LocalDay(t)))
         /\ InOneDay(BlockAt(svc, r, t)) /\ BlockAt(svc, r, t).startsAt = t
<1>1. PICK w \in WorkingSlots : w.service = svc /\ w.resource = r /\ w.slot.startsAt = t
  BY DEF WithinWorkingHours
<1>2. PICK v \in Services, q \in Resources, day \in Days :
        \E s \in SlotsOf(v, q, day, WeekdayOf(day), {}, ZonedTimeToUtc(0, 0),
                         0, (LastDay + 2) * TicksPerDay) :
          w = [service |-> v, resource |-> q, slot |-> s]
  BY DEF WorkingSlots
<1>3. PICK s \in SlotsOf(svc, r, day, WeekdayOf(day), {}, ZonedTimeToUtc(0, 0),
                         0, (LastDay + 2) * TicksPerDay) :
        w = [service |-> svc, resource |-> r, slot |-> s]
  BY <1>1, <1>2
<1>4. s.startsAt = t /\ svc \in Services /\ r \in Resources
  BY <1>1, <1>2, <1>3
<1>5. WeekdayOf(day) \in Weekdays
  BY BookingAssumption DEF WeekdayOf, Weekdays, Days
<1>6. s = BlockAt(svc, r, t) /\ LocalDay(t) = day /\ InOneDay(s)
  BY <1>3, <1>4, <1>5, SlotShape
<1>7. s \in Grid(svc, r, day, WeekdayOf(day))
  BY <1>3, SlotsAreOnGrid
<1> QED
  BY <1>4, <1>6, <1>7

\* What getAvailability takes out for a resource and a day.
Near(r, day) ==
  { b \in Bookings : /\ Occupies(b) /\ rows[b].resource = r
                     /\ rows[b].from < (day + 2) * TicksPerDay
                     /\ rows[b].to > (day - 1) * TicksPerDay }

\* A slot is shown if it is on the grid of create, in time, and in nobody's way.
LEMMA OfferedIs ==
  ASSUME TypeOK, ZoneIsNear, NEW svc \in Services, NEW r \in Resources, NEW day \in Days, NEW s
  PROVE  s \in Offered(svc, r, day) <=>
           /\ s \in Grid(svc, r, day, WeekdayOf(day))
           /\ s.startsAt >= now + MinLead /\ s.startsAt <= now + MaxAdvance
           /\ Blockers(r, s.from, s.to) = {}
           /\ \A o \in TimeOff[r] : ~RangesOverlap(s.from, s.to, o.from, o.to)
<1> DEFINE spans == { [from |-> rows[b].from, to |-> rows[b].to] : b \in Near(r, day) }
           blocked == spans \cup TimeOff[r]
<1>1. Offered(svc, r, day) = SlotsOf(svc, r, day, WeekdayOf(day), blocked, now, MinLead, MaxAdvance)
  BY NoonIsToday DEF Offered, Near
<1>2. s \in Offered(svc, r, day) <=>
        /\ s \in Grid(svc, r, day, WeekdayOf(day))
        /\ s.startsAt >= now + MinLead /\ s.startsAt <= now + MaxAdvance
        /\ \A b \in blocked : ~RangesOverlap(s.from, s.to, b.from, b.to)
  <2> HIDE DEF blocked
  <2> QED
    BY <1>1, SlotsAreOnGrid
<1>3. ASSUME s \in Grid(svc, r, day, WeekdayOf(day))
      PROVE  Blockers(r, s.from, s.to) = {} <=>
               \A b \in Near(r, day) : ~RangesOverlap(s.from, s.to, rows[b].from, rows[b].to)
  <2>1. LocalDay(s.startsAt) = day /\ InOneDay(s)
    BY <1>3, GridIsWorking
  <2>2. \A b \in Bookings : RangesOverlap(rows[b].from, rows[b].to, s.from, s.to) <=>
                            RangesOverlap(s.from, s.to, rows[b].from, rows[b].to)
    BY DEF RangesOverlap
  <2>3. \A b \in Blockers(r, s.from, s.to) : b \in Near(r, day)
    BY <2>1, OverlapIsNear DEF Blockers, Near
  <2> QED
    BY <2>2, <2>3 DEF Blockers, Near
<1>4. (\A b \in blocked : ~RangesOverlap(s.from, s.to, b.from, b.to)) <=>
        /\ \A b \in Near(r, day) : ~RangesOverlap(s.from, s.to, rows[b].from, rows[b].to)
        /\ \A o \in TimeOff[r] : ~RangesOverlap(s.from, s.to, o.from, o.to)
  <2>1. (\A x \in spans : ~RangesOverlap(s.from, s.to, x.from, x.to)) <=>
          \A b \in Near(r, day) : ~RangesOverlap(s.from, s.to, rows[b].from, rows[b].to)
    <3>1. ASSUME NEW b \in Near(r, day)
          PROVE  \E x \in spans : x.from = rows[b].from /\ x.to = rows[b].to
      <4>1. [from |-> rows[b].from, to |-> rows[b].to] \in spans
        OBVIOUS
      <4> HIDE DEF spans
      <4> QED
        BY <4>1
    <3>2. ASSUME NEW x \in spans
          PROVE  \E b \in Near(r, day) : x.from = rows[b].from /\ x.to = rows[b].to
      OBVIOUS
    <3> HIDE DEF spans
    <3> QED
      BY <3>1, <3>2
  <2> HIDE DEF spans
  <2> QED
    BY <2>1
<1> HIDE DEF blocked
<1> QED
  BY <1>2, <1>3, <1>4

\* In a zone near UTC, a slot that getAvailability shows passes every check of create, finds
\* nothing in its way and would occupy the span that is shown, for any hours, buffers, time off
\* and bookings.
THEOREM OffersAreKept == ZoneIsNear => (Spec => []OfferedIsAccepted)
<1> SUFFICES ASSUME ZoneIsNear PROVE Spec => []OfferedIsAccepted
  OBVIOUS
<1>1. TypeOK => OfferedIsAccepted
  <2> SUFFICES ASSUME TypeOK, NEW svc \in Services, NEW r \in Resources, NEW day \in Days,
                      NEW s \in Offered(svc, r, day)
               PROVE  /\ AcceptsTime(svc, r, s.startsAt)
                      /\ BlockAt(svc, r, s.startsAt) = s
                      /\ Blockers(r, s.from, s.to) = {}
    BY DEF OfferedIsAccepted
  <2> QED
    BY OfferedIs, GridIsWorking DEF AcceptsTime
<1> QED
  BY <1>1, TypeCorrect, PTL

\* The other way round: nothing that create would take is hidden, but what falls into the time
\* off of the resource.
THEOREM NothingIsHidden == ZoneIsNear => (Spec => []BookableIsOffered)
<1> SUFFICES ASSUME ZoneIsNear PROVE Spec => []BookableIsOffered
  OBVIOUS
<1>1. TypeOK => BookableIsOffered
  <2> SUFFICES ASSUME TypeOK, NEW svc \in Services, NEW r \in Resources, NEW day \in Days,
                      NEW t \in Instants, LocalDay(t) = day, NEW s, s = BlockAt(svc, r, t),
                      AcceptsTime(svc, r, t), Blockers(r, s.from, s.to) = {},
                      \A o \in TimeOff[r] : ~RangesOverlap(s.from, s.to, o.from, o.to)
               PROVE  s \in Offered(svc, r, day)
    BY DEF BookableIsOffered
  <2>1. s \in Grid(svc, r, day, WeekdayOf(day)) /\ s.startsAt = t
    BY WorkingIsOnGrid DEF AcceptsTime
  <2> QED
    BY <2>1, OfferedIs DEF AcceptsTime
<1> QED
  BY <1>1, TypeCorrect, PTL
=============================================================================
