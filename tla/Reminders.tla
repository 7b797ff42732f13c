----------------------------- MODULE Reminders -----------------------------
(***************************************************************************)
(* Messages about appointments (apps/api/src/modules/notifications,        *)
(* events/handlers/notification.handler.ts, infra/queue.service.ts): the   *)
(* events of a booking tell the customer and queue or withdraw delayed     *)
(* jobs, and a worker turns a due job into a message, unless the booking   *)
(* has changed meanwhile. Statements, commands to Redis and calls of       *)
(* Telegram are atomic, and nothing more than one of them is.              *)
(***************************************************************************)
EXTENDS Integers, Sequences

CONSTANTS
  Bookings,
  StartsAt,      \* Bookings -> the time of the appointment
  Offsets,       \* reminderOffsetsMinutes: how long before, in the order configured
  Listed,        \* the offsets that cancelReminders knows: 1440, 120, 60, 30
  Drainers,      \* runs of the handler of events at a time, taken in order
  Workers,       \* reminder jobs at a time, taken in order
  MaxAttempts,   \* attempts of a job: 5
  MaxTime        \* bound: the clock

\* What is assumed of the constants, wherever they are given values.
RemindersAssumption ==
  /\ StartsAt \in [Bookings -> Nat]
  /\ Offsets \in Seq(Nat) /\ Listed \in Seq(Nat)
  /\ MaxAttempts \in Nat \ {0} /\ MaxTime \in Nat
  /\ Drainers \subseteq Nat /\ Workers \subseteq Nat \ {0}

VARIABLES
  now,
  booking,   \* Bookings -> status, "NONE" before it is made
  event,     \* Bookings -> created, cancelled -> "none", "pending", "handled"
  job,       \* delayed jobs of the queue, by booking and offset
  row,       \* Notification rows of reminders: status, "NONE" when there is none
  drainer,   \* Drainers -> the run in progress
  worker,    \* Workers -> the reminder in progress
  blocked,   \* Customer.botBlocked
  told,      \* ghost: reminders that reached Telegram
  excused    \* ghost: reminders lost to the queue, a process or the time

vars == <<now, booking, event, job, row, drainer, worker, blocked, told, excused>>

-----------------------------------------------------------------------------
OffsetSet == { Offsets[i] : i \in DOMAIN Offsets }

Reminders == Bookings \X OffsetSet

RunAt(r) == StartsAt[r[1]] - r[2]

\* ENDED stands for NO_SHOW and COMPLETED.
Closed == {"CANCELLED", "ENDED"}

NoJob == [state |-> "none", attempts |-> 0, owner |-> 0, stalled |-> FALSE]

IdleDrainer == [pc |-> "idle", booking |-> "none", type |-> "none", todo |-> <<>>]

IdleWorker == [pc |-> "idle", reminder |-> <<>>, closed |-> FALSE]

Init ==
  /\ now = 0
  /\ booking = [b \in Bookings |-> "NONE"]
  /\ event = [b \in Bookings |-> [created |-> "none", cancelled |-> "none"]]
  /\ job = [r \in Reminders |-> NoJob]
  /\ row = [r \in Reminders |-> "NONE"]
  /\ drainer = [d \in Drainers |-> IdleDrainer]
  /\ worker = [w \in Workers |-> IdleWorker]
  /\ blocked = FALSE
  /\ told = [r \in Reminders |-> 0]
  /\ excused = {}

Tick ==
  /\ now < MaxTime
  /\ now' = now + 1
  /\ UNCHANGED <<booking, event, job, row, drainer, worker, blocked, told, excused>>

\* A booking is made, and announced in the same transaction.
Book(b) ==
  /\ booking[b] = "NONE"
  /\ now < StartsAt[b]
  /\ booking' = [booking EXCEPT ![b] = "CONFIRMED"]
  /\ event' = [event EXCEPT ![b].created = "pending"]
  /\ UNCHANGED <<now, job, row, drainer, worker, blocked, told, excused>>

\* It is closed; only a cancellation is announced to this handler.
Close(b, status) ==
  /\ booking[b] = "CONFIRMED"
  /\ booking' = [booking EXCEPT ![b] = status]
  /\ event' = IF status = "CANCELLED" THEN [event EXCEPT ![b].cancelled = "pending"] ELSE event
  /\ worker' = [w \in Workers |->
       IF worker[w].pc # "idle" /\ worker[w].reminder[1] = b
       THEN [worker[w] EXCEPT !.closed = TRUE] ELSE worker[w]]
  /\ UNCHANGED <<now, job, row, drainer, blocked, told, excused>>

-----------------------------------------------------------------------------
(* The handler of events. Two drainers can have one event (Outbox). *)

\* The message about the event itself. Its row is unlike any other, for
\* scheduledFor is the time of writing: a repeated run sends it again.
Tell(d, b, type) ==
  /\ drainer[d] = IdleDrainer
  /\ \A e \in Drainers : drainer[e] = IdleDrainer => d <= e
  /\ event[b][type] = "pending"
  /\ drainer' = [drainer EXCEPT ![d] =
       [pc |-> type, booking |-> b, type |-> type,
        todo |-> IF type = "created" THEN Offsets ELSE Listed]]
  /\ \/ UNCHANGED blocked
     \/ blocked' = TRUE
  /\ UNCHANGED <<now, booking, event, job, row, worker, told, excused>>

Rest(d) == drainer' = [drainer EXCEPT ![d].todo = Tail(@)]

\* scheduleReminders, one offset: a due one is skipped, a queued one is left as it
\* is, and an error of the queue is swallowed.
Schedule(d, queued) ==
  /\ drainer[d].pc = "created"
  /\ drainer[d].todo # <<>>
  /\ LET r == <<drainer[d].booking, Head(drainer[d].todo)>> IN
     /\ job' = IF queued /\ RunAt(r) > now /\ job[r].state = "none"
               THEN [job EXCEPT ![r] = [NoJob EXCEPT !.state = "delayed"]] ELSE job
     /\ excused' = IF ~queued THEN excused \cup {r} ELSE excused
  /\ Rest(d)
  /\ UNCHANGED <<now, booking, event, row, worker, blocked, told>>

\* cancelReminders, one offset. BullMQ refuses to remove a job that is being worked
\* on, and the run throws.
Unschedule(d) ==
  /\ drainer[d].pc = "cancelled"
  /\ drainer[d].todo # <<>>
  /\ LET r == <<drainer[d].booking, Head(drainer[d].todo)>> IN
     /\ r \in Reminders => job[r].state # "active"
     /\ job' = IF r \in Reminders THEN [job EXCEPT ![r] = NoJob] ELSE job
  /\ Rest(d)
  /\ UNCHANGED <<now, booking, event, row, worker, blocked, told, excused>>

Handled(d) ==
  /\ drainer[d].pc # "idle"
  /\ drainer[d].todo = <<>>
  /\ event' = [event EXCEPT ![drainer[d].booking][drainer[d].type] = "handled"]
  /\ drainer' = [drainer EXCEPT ![d] = IdleDrainer]
  /\ UNCHANGED <<now, booking, job, row, worker, blocked, told, excused>>

\* The handler throws and will be run again.
Throw(d) ==
  /\ drainer[d].pc # "idle"
  /\ drainer' = [drainer EXCEPT ![d] = IdleDrainer]
  /\ UNCHANGED <<now, booking, event, job, row, worker, blocked, told, excused>>

-----------------------------------------------------------------------------
(* The processor of jobs. *)

Fire(w, r) ==
  /\ worker[w] = IdleWorker
  /\ \A v \in Workers : worker[v] = IdleWorker => w <= v
  /\ job[r].state = "delayed"
  /\ RunAt(r) <= now
  /\ job' = [job EXCEPT ![r].state = "active", ![r].owner = w]
  /\ worker' = [worker EXCEPT ![w] = [IdleWorker EXCEPT !.pc = "check", !.reminder = r]]
  /\ UNCHANGED <<now, booking, event, row, drainer, blocked, told, excused>>

\* The job ends, if it is still this worker's.
Settle(w, state) ==
  LET r == worker[w].reminder IN
  /\ job' = IF job[r].state = "active" /\ job[r].owner = w
            THEN [job EXCEPT ![r].state = state, ![r].owner = 0] ELSE job
  /\ worker' = [worker EXCEPT ![w] = IdleWorker]

\* A mistake the checks must catch: only the time is looked at.
CheckTime(w) ==
  LET r == worker[w].reminder IN
  /\ worker[w].pc = "check"
  /\ IF StartsAt[r[1]] < now
     THEN Settle(w, "done")
     ELSE /\ worker' = [worker EXCEPT ![w].pc = "record"]
          /\ UNCHANGED job
  /\ excused' = IF StartsAt[r[1]] < now THEN excused \cup {r} ELSE excused
  /\ UNCHANGED <<now, booking, event, row, drainer, blocked, told>>

\* sendReminder: the booking as it is now.
Check(w) ==
  LET r == worker[w].reminder IN
  /\ worker[w].pc = "check"
  /\ IF booking[r[1]] \in Closed \/ StartsAt[r[1]] < now
     THEN Settle(w, "done")
     ELSE /\ worker' = [worker EXCEPT ![w].pc = "record"]
          /\ UNCHANGED job
  /\ excused' = IF StartsAt[r[1]] < now THEN excused \cup {r} ELSE excused
  /\ UNCHANGED <<now, booking, event, row, drainer, blocked, told>>

\* A mistake the checks must catch: the rows are not unique.
RecordAnyway(w) ==
  LET r == worker[w].reminder IN
  /\ worker[w].pc = "record"
  /\ IF blocked
     THEN row' = [row EXCEPT ![r] = "SKIPPED"] /\ Settle(w, "done")
     ELSE /\ row' = [row EXCEPT ![r] = "QUEUED"]
          /\ worker' = [worker EXCEPT ![w].pc = "send"]
          /\ UNCHANGED job
  /\ UNCHANGED <<now, booking, event, drainer, blocked, told, excused>>

\* send, record: one row per booking, template and time. A second one throws.
Record(w) ==
  LET r == worker[w].reminder IN
  /\ worker[w].pc = "record"
  /\ row[r] = "NONE"
  /\ IF blocked
     THEN row' = [row EXCEPT ![r] = "SKIPPED"] /\ Settle(w, "done")
     ELSE /\ row' = [row EXCEPT ![r] = "QUEUED"]
          /\ worker' = [worker EXCEPT ![w].pc = "send"]
          /\ UNCHANGED job
  /\ UNCHANGED <<now, booking, event, drainer, blocked, told, excused>>

\* sendToCustomer: the flag once more, then Telegram, which delivers, refuses or
\* cannot be reached. A refusal by the customer is remembered for good.
Send(w, result) ==
  LET r == worker[w].reminder IN
  /\ worker[w].pc = "send"
  /\ blocked => result = "blocked"
  /\ told' = IF result = "delivered" THEN [told EXCEPT ![r] = @ + 1] ELSE told
  /\ blocked' = (blocked \/ result = "blocked")
  /\ worker' = [worker EXCEPT ![w].pc = IF result = "delivered" THEN "sent" ELSE "unsent"]
  /\ UNCHANGED <<now, booking, event, job, row, drainer, excused>>

\* A mistake the checks must catch: a message that did not go out is not noted.
UpdateSent(w) ==
  /\ worker[w].pc \in {"sent", "unsent"}
  /\ row' = IF worker[w].pc = "sent" THEN [row EXCEPT ![worker[w].reminder] = "SENT"] ELSE row
  /\ Settle(w, "done")
  /\ UNCHANGED <<now, booking, event, drainer, blocked, told, excused>>

\* send: what became of it.
Update(w) ==
  /\ worker[w].pc \in {"sent", "unsent"}
  /\ row' = [row EXCEPT ![worker[w].reminder] =
               IF worker[w].pc = "sent" THEN "SENT" ELSE "FAILED"]
  /\ Settle(w, "done")
  /\ UNCHANGED <<now, booking, event, drainer, blocked, told, excused>>

\* The job throws and is tried again, a few times.
Retry(w) ==
  LET r == worker[w].reminder
      last == job[r].attempts + 1 >= MaxAttempts
  IN
  /\ job' = IF job[r].state = "active" /\ job[r].owner = w
            THEN [job EXCEPT ![r].state = IF last THEN "failed" ELSE "delayed",
                             ![r].owner = 0, ![r].attempts = @ + 1]
            ELSE job
  /\ worker' = [worker EXCEPT ![w] = IdleWorker]
  /\ excused' = excused \cup {r}
  /\ UNCHANGED <<now, booking, event, row, drainer, blocked, told>>

\* A statement fails.
Fail(w) == worker[w].pc # "idle" /\ Retry(w)

\* The row is there already.
Duplicate(w) == worker[w].pc = "record" /\ row[worker[w].reminder] # "NONE" /\ Retry(w)

\* A worker that is dead, or so slow that its lock on the job runs out: the job is
\* given to another one, once.
Stall(r, dead) ==
  LET w == job[r].owner IN
  /\ job[r].state = "active"
  /\ job' = [job EXCEPT ![r].state = IF job[r].stalled THEN "failed" ELSE "delayed",
                        ![r].owner = 0, ![r].stalled = TRUE]
  /\ worker' = IF dead THEN [worker EXCEPT ![w] = IdleWorker] ELSE worker
  /\ excused' = excused \cup {r}
  /\ UNCHANGED <<now, booking, event, row, drainer, blocked, told>>

Step(w) ==
  \/ Check(w) \/ Record(w) \/ Duplicate(w) \/ Update(w)
  \/ \E result \in {"delivered", "blocked", "error"} : Send(w, result)

Next ==
  \/ Tick
  \/ \E b \in Bookings : Book(b) \/ \E s \in Closed : Close(b, s)
  \/ \E d \in Drainers :
       \/ \E b \in Bookings, type \in {"created", "cancelled"} : Tell(d, b, type)
       \/ \E queued \in BOOLEAN : Schedule(d, queued)
       \/ Unschedule(d) \/ Handled(d) \/ Throw(d)
  \/ \E w \in Workers : (\E r \in Reminders : Fire(w, r)) \/ Step(w) \/ Fail(w)
  \/ \E r \in Reminders, dead \in BOOLEAN : Stall(r, dead)

\* Time passes, and a worker that is alive takes what is due and works on.
Fairness ==
  /\ WF_vars(Tick)
  /\ \A w \in Workers : WF_vars(Step(w))
  /\ \A r \in Reminders : WF_vars(\E w \in Workers : Fire(w, r))

Spec == Init /\ [][Next]_vars /\ Fairness

-----------------------------------------------------------------------------
\* The run of a drainer and the reminder of a worker, with what is left of them.
Runs ==
  [pc : {"idle", "created", "cancelled"}, booking : Bookings \cup {"none"},
   type : {"none", "created", "cancelled"}, todo : Seq(Nat)]

Rounds ==
  [pc : {"idle", "check", "record", "send", "sent", "unsent"},
   reminder : Reminders \cup {<<>>}, closed : BOOLEAN]

TypeOK ==
  /\ now \in 0 .. MaxTime
  /\ booking \in [Bookings -> Closed \cup {"NONE", "CONFIRMED"}]
  /\ row \in [Reminders -> {"NONE", "QUEUED", "SENT", "FAILED", "SKIPPED"}]
  /\ drainer \in [Drainers -> Runs]
  /\ \A d \in Drainers : drainer[d].pc = "created" =>
                           drainer[d].booking \in Bookings /\ drainer[d].todo \in Seq(OffsetSet)
  /\ worker \in [Workers -> Rounds]
  /\ \A w \in Workers : worker[w].pc # "idle" => worker[w].reminder \in Reminders
  /\ told \in [Reminders -> Nat]
  /\ blocked \in BOOLEAN
  /\ excused \subseteq Reminders

\* "A job that somehow runs twice cannot produce two messages": neither a retry
\* nor a second worker with the same job reminds a customer again.
RemindedOnce == \A r \in Reminders : told[r] <= 1

\* No reminder of an appointment goes out once it is closed, whatever jobs were
\* left, restored by a late run or could not be removed: the one way is a booking
\* closed between the look and the message.
NoReminderOfClosed ==
  [][ \A r \in Reminders : told'[r] > told[r] =>
        \/ booking[r[1]] \notin Closed
        \/ \E w \in Workers : worker[w].pc = "send" /\ worker[w].reminder = r
                              /\ worker[w].closed ]_vars

\* A reminder that lay ahead when the booking was announced gets its row, with the
\* outcome, unless the booking is closed first, or the queue, a process or the
\* time lost it.
ReminderComes ==
  \A r \in Reminders :
    (booking[r[1]] = "CONFIRMED" /\ event[r[1]].created = "handled" /\ now < RunAt(r))
    ~> (row[r] \in {"SENT", "FAILED", "SKIPPED"} \/ booking[r[1]] \in Closed \/ r \in excused)
=============================================================================
