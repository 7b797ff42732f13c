---------------------------- MODULE Availability ----------------------------
(***************************************************************************)
(* The availability engine of the booking module                           *)
(* (apps/api/src/modules/bookings/availability.engine.ts) and the time     *)
(* helpers it uses (packages/shared/src/time.ts): a pure computation of    *)
(* the appointment starts a resource can offer on one local day.           *)
(*                                                                         *)
(* Time is counted in ticks.  An instant is a number of ticks since the    *)
(* epoch in UTC; a time of day is a number of ticks since local midnight,  *)
(* below TicksPerDay.  The tenant's zone is a constant offset: the code    *)
(* asks the runtime's zone data, which for the zones the product serves    *)
(* (no daylight saving) is the same thing.                                 *)
(***************************************************************************)
EXTENDS Integers

CONSTANTS
  TicksPerDay,   \* length of a local day
  TzOffset,      \* the tenant's zone, ticks east of UTC
  SlotStep       \* bookingSettings.slotStepMinutes

ASSUME TimeAssumption ==
  /\ TicksPerDay \in Nat \ {0}
  /\ TzOffset \in Int
  /\ SlotStep \in Nat \ {0}

-----------------------------------------------------------------------------
(* Time helpers. *)

TimeOfDay == 0 .. (TicksPerDay - 1)

Window(start, end) == [start |-> start, end |-> end]

TimeRange == [start : TimeOfDay, end : TimeOfDay]

Larger(a, b) == IF a >= b THEN a ELSE b

Smaller(a, b) == IF a <= b THEN a ELSE b

\* A count of minutes printed as "HH:mm" wraps at midnight.
TimeOfDayFromMinutes(m) == m % TicksPerDay

\* "YYYY-MM-DD" of an instant on the tenant's calendar, as a day number.
LocalDay(t) == (t + TzOffset) \div TicksPerDay

\* Day 0 of the model falls on weekday 0.
WeekdayOf(day) == day % 7

LocalWeekday(t) == WeekdayOf(LocalDay(t))

\* The UTC instant of a wall-clock time on a local date.
ZonedTimeToUtc(day, timeOfDay) == day * TicksPerDay + timeOfDay - TzOffset

\* Half-open ranges of instants, as rangesOverlap, the conflict query and the
\* exclusion constraint compare them.
RangesOverlap(aStart, aEnd, bStart, bEnd) == aStart < bEnd /\ bStart < aEnd

-----------------------------------------------------------------------------
(* The engine. *)

\* Business 09-22 with resource 10-19 gives 10-19; an empty piece is dropped.
IntersectRanges(A, B) ==
  { Window(TimeOfDayFromMinutes(Larger(p[1].start, p[2].start)),
           TimeOfDayFromMinutes(Smaller(p[1].end, p[2].end))) :
      p \in { q \in A \X B : Larger(q[1].start, q[2].start)
                               < Smaller(q[1].end, q[2].end) } }

\* The windows in which an appointment's block must fit.  A branch without
\* hours of its own keeps the business's; a business or a resource without
\* hours on that weekday is closed.
WorkingWindows(business, branch, schedule) ==
  IntersectRanges(IF branch = {} THEN business ELSE IntersectRanges(business, branch),
                  schedule)

\* The starts on a window's grid whose block, buffers included, stays inside.
StartsInWindow(w, before, duration, after) ==
  { m \in w.start .. w.end :
      /\ (m - w.start) % SlotStep = 0
      /\ m - before >= w.start
      /\ m + duration + after <= w.end }

\* The appointment that starts at an instant, and the span it occupies.
Slot(startsAt, before, duration, after) ==
  [startsAt |-> startsAt,
   from     |-> startsAt - before,
   to       |-> startsAt + duration + after]

\* computeAvailability: `blocked` holds spans [from, to], `lead` and `horizon`
\* are relative to `now`.
ComputeAvailability(day, windows, before, duration, after, blocked, now, lead, horizon) ==
  { s \in { Slot(ZonedTimeToUtc(day, TimeOfDayFromMinutes(m)), before, duration, after) :
              m \in UNION { StartsInWindow(w, before, duration, after) : w \in windows } } :
      /\ s.startsAt >= now + lead
      /\ s.startsAt <= now + horizon
      /\ \A b \in blocked : ~RangesOverlap(s.from, s.to, b.from, b.to) }
=============================================================================
