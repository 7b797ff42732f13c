-------------------------------- MODULE Staff --------------------------------
(***************************************************************************)
(* Who can be booked for what: a service, the employees that offer it, the *)
(* bookable resource of each, and how a service is archived and an         *)
(* employee retired while customers book                                   *)
(* (apps/api/src/modules/catalog/services.service.ts,                      *)
(* apps/api/src/modules/branches/branches.service.ts). A retirement counts *)
(* the upcoming bookings and then writes; a booking looks its service and  *)
(* resource up and then inserts. Neither takes a lock the other one knows. *)
(* When a booking may start is Booking.tla's; schedules, names and         *)
(* branches are left out.                                                  *)
(***************************************************************************)
EXTENDS Integers, FiniteSets

CONSTANTS
  Employees,    \* ids of employees
  Customers,    \* bookings being made, at a time
  Managers,     \* requests of the back office, at a time
  MaxUpcoming   \* bound: upcoming bookings

\* What is assumed of the constants, wherever they are given values.
StaffAssumption == MaxUpcoming \in Nat

VARIABLES
  service,   \* the Service row: active, archived
  employee,  \* Employees -> the Employee row, its resource, its link to the service
  upcoming,  \* bookings still to come: whose, and whether they crossed a retirement
  making,    \* Customers -> the booking in progress
  managing   \* Managers -> the request in progress

vars == <<service, employee, upcoming, making, managing>>

-----------------------------------------------------------------------------
TheService == "service"
Subjects == Employees \cup {TheService}

Nobody == "nobody"
NotMaking == [pc |-> "idle", who |-> Nobody, crossed |-> {}]
NotManaging == [pc |-> "idle", what |-> Nobody, offer |-> {}]

Unhired == [hired |-> FALSE, active |-> FALSE, bookable |-> FALSE, offers |-> FALSE]

\* Requests that have counted the bookings of a subject and not yet retired it.
Retiring(x) == \E m \in Managers : managing[m].what = x /\ managing[m].pc \in {"counted", "resource"}

Concerns(b, x) == x = TheService \/ b.who = x

Init ==
  /\ service = [active |-> TRUE, archived |-> FALSE]
  /\ employee = [e \in Employees |-> Unhired]
  /\ upcoming = {}
  /\ making = [c \in Customers |-> NotMaking]
  /\ managing = [m \in Managers |-> NotManaging]

-----------------------------------------------------------------------------
(* Employees.                                                                *)

\* createEmployee: the employee, the resource and the links in one transaction.
createEmployee(e, offers) ==
  /\ ~employee[e].hired
  /\ employee' = [employee EXCEPT ![e] = [hired |-> TRUE, active |-> TRUE, bookable |-> TRUE, offers |-> offers]]
  /\ UNCHANGED <<service, upcoming, making, managing>>

\* updateEmployee and updateService with the links: all of the old ones go, ...
ClearLinks(m, what, offer) ==
  LET changed == IF what = TheService THEN Employees ELSE {what} IN
  /\ managing[m] = NotManaging
  /\ \A e \in changed : what = TheService \/ employee[e].hired
  /\ \A e \in offer : employee[e].hired
  /\ employee' = [e \in Employees |-> IF e \in changed THEN [employee[e] EXCEPT !.offers = FALSE] ELSE employee[e]]
  /\ managing' = [managing EXCEPT ![m] = [pc |-> "link", what |-> what, offer |-> offer \cap changed]]
  /\ UNCHANGED <<service, upcoming, making>>

\* ... and the new ones come, or the process dies in between or finds one of them there.
CreateLinks(m) ==
  LET offer == managing[m].offer IN
  /\ managing[m].pc = "link"
  /\ \/ /\ \A e \in offer : ~employee[e].offers
        /\ employee' = [e \in Employees |-> [employee[e] EXCEPT !.offers = @ \/ e \in offer]]
     \/ UNCHANGED employee
  /\ managing' = [managing EXCEPT ![m] = NotManaging]
  /\ UNCHANGED <<service, upcoming, making>>

-----------------------------------------------------------------------------
(* Retirement.                                                               *)

Counts(m, x) ==
  /\ managing[m] = NotManaging
  /\ x \in Employees => employee[x].hired
  /\ managing' = [managing EXCEPT ![m] = [NotManaging EXCEPT !.pc = "counted", !.what = x]]
  /\ making' = [c \in Customers |->
                  IF making[c] # NotMaking /\ Concerns(making[c], x)
                  THEN [making[c] EXCEPT !.crossed = @ \cup {x}] ELSE making[c]]
  /\ UNCHANGED <<service, employee, upcoming>>

\* A mistake the checks must catch: nothing is looked for.
CountNothing(m, x) == Counts(m, x)

\* archive, deactivateEmployee: refused while there are upcoming bookings.
CountUpcoming(m, x) ==
  /\ \A b \in upcoming : ~Concerns(b, x)
  /\ Counts(m, x)

archive(m) ==
  /\ managing[m].pc = "counted"
  /\ managing[m].what = TheService
  /\ service' = [active |-> FALSE, archived |-> TRUE]
  /\ managing' = [managing EXCEPT ![m] = NotManaging]
  /\ UNCHANGED <<employee, upcoming, making>>

\* deactivateEmployee: the employee first, ...
deactivateEmployee(m) ==
  /\ managing[m].pc = "counted"
  /\ managing[m].what \in Employees
  /\ employee' = [employee EXCEPT ![managing[m].what].active = FALSE]
  /\ managing' = [managing EXCEPT ![m].pc = "resource"]
  /\ UNCHANGED <<service, upcoming, making>>

\* ... then the resource, without which nobody can book them.
deactivateResource(m) ==
  /\ managing[m].pc = "resource"
  /\ employee' = [employee EXCEPT ![managing[m].what].bookable = FALSE]
  /\ managing' = [managing EXCEPT ![m] = NotManaging]
  /\ UNCHANGED <<service, upcoming, making>>

\* The process dies half way: an employee who is gone can still be booked.
Die(m) ==
  /\ managing[m].pc \in {"counted", "resource"}
  /\ managing' = [managing EXCEPT ![m] = NotManaging]
  /\ UNCHANGED <<service, employee, upcoming, making>>

\* updateService with isActive, which neither counts nor asks whether it is archived.
switchService(on) ==
  /\ service.active # on
  /\ service' = [service EXCEPT !.active = on]
  /\ UNCHANGED <<employee, upcoming, making, managing>>

-----------------------------------------------------------------------------
(* Booking.                                                                  *)

\* resolveResource: one that was chosen needs to be active, "any" needs the link too.
Resolved(named) == { e \in Employees : employee[e].bookable /\ (named \/ employee[e].offers) }

\* create: service and resource are looked up, ...
LookUp(c) ==
  /\ making[c] = NotMaking
  /\ Cardinality(upcoming) < MaxUpcoming
  /\ service.active
  /\ \E named \in BOOLEAN : \E e \in Resolved(named) :
       making' = [making EXCEPT ![c] =
                    [pc |-> "insert", who |-> e,
                     crossed |-> { x \in Subjects : Retiring(x) /\ (x = TheService \/ x = e) }]]
  /\ UNCHANGED <<service, employee, upcoming, managing>>

\* ... and the booking is made, whatever happened to them since, unless the slot is taken.
Insert(c) ==
  /\ making[c].pc = "insert"
  /\ upcoming' \in {upcoming, upcoming \cup {[id |-> c, who |-> making[c].who, crossed |-> making[c].crossed]}}
  /\ making' = [making EXCEPT ![c] = NotMaking]
  /\ UNCHANGED <<service, employee, managing>>

\* It is cancelled, or its time comes.
Over(b) ==
  /\ b \in upcoming
  /\ upcoming' = upcoming \ {b}
  /\ UNCHANGED <<service, employee, making, managing>>

Next ==
  \/ \E e \in Employees, offers \in BOOLEAN : createEmployee(e, offers)
  \/ \E m \in Managers :
       \/ \E x \in Subjects, offer \in SUBSET Employees : ClearLinks(m, x, offer)
       \/ CreateLinks(m)
       \/ \E x \in Subjects : CountUpcoming(m, x)
       \/ archive(m) \/ deactivateEmployee(m) \/ deactivateResource(m) \/ Die(m)
  \/ \E on \in BOOLEAN : switchService(on)
  \/ \E c \in Customers : LookUp(c) \/ Insert(c)
  \/ \E b \in upcoming : Over(b)

Spec == Init /\ [][Next]_vars

-----------------------------------------------------------------------------
(* What is promised.                                                         *)

Retired(x) == IF x = TheService THEN service.archived ELSE ~employee[x].bookable

\* At the moment a service is archived or the resource of an employee closed, the only
\* upcoming bookings with them are those that were being made while their retirement
\* was: nobody who had booked before it, and nobody who began after it
\* (ServicesService.archive, deactivateEmployee, BookingsService.create).
RetiredIsFree ==
  [][\A x \in Subjects :
       ~Retired(x) /\ Retired(x)' =>
         \A b \in upcoming : Concerns(b, x) => x \in b.crossed]_vars
=============================================================================
