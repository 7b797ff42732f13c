-------------------------------- MODULE Desk --------------------------------
(***************************************************************************)
(* The desk: the pages of the back office on which staff move orders and   *)
(* bookings along, each button offering the next status after the one the  *)
(* page shows (apps/admin/src/app/orders/page.tsx, bookings/page.tsx), and *)
(* the services that check the change against the row as it is by then.    *)
(* The pages have a table of their own for what comes next; they refresh   *)
(* on a timer and after a change that succeeded. A third page is that of a *)
(* customer in the Mini App, who can cancel her bookings until a deadline  *)
(* (apps/miniapp/src/app/[slug]/bookings/page.tsx). A behaviour is of one  *)
(* of the three pages.                                                     *)
(***************************************************************************)
EXTENDS OrderPipeline, BookingStates, Integers, Sequences

CONSTANTS
  Orders,     \* ids, on the page of orders
  Bookings,   \* ids, on the page of bookings
  Mine,       \* ids, on the page of the customer who made these bookings
  Requests,   \* changes of status under way, at a time
  MaxChanges  \* bound: changes of each row

Nothing == "nothing"

\* What is assumed of the constants, wherever they are given values.
DeskAssumption ==
  /\ MaxChanges \in [Orders \cup Bookings \cup Mine -> Nat]
  /\ Orders \cap Bookings = {} /\ Orders \cap Mine = {} /\ Bookings \cap Mine = {}
  /\ Nothing \notin Orders \cup Bookings \cup Mine

VARIABLES
  row,      \* id -> its status in the database, and how often it was changed
  list,     \* id -> the row as the table of the page shows it
  detail,   \* id -> an order as the view of one order shows it, or NotRead;
            \* a booking as it was when the customer asked to cancel it
  opened,   \* the order viewed, or the booking to be cancelled if confirmed, or Nothing
  busy,     \* what the page takes to be changing: updating, busy
  request   \* Requests -> the change under way

vars == <<row, list, detail, opened, busy, request>>

-----------------------------------------------------------------------------
\* What is on the page.
Things == DOMAIN row

NotRead == [status |-> Nothing, changes |-> 0]
Idle == [pc |-> "idle", id |-> Nothing, next |-> Nothing, shown |-> 0, found |-> 0]

\* The orders page: the next status in the pipeline.
STATUS_FLOW == <<"NEW", "ACCEPTED", "PREPARING", "READY", "DELIVERING", "COMPLETED">>

\* The bookings page.
NEXT_STATUS ==
  [s \in Statuses |->
     CASE s = "PENDING"     -> "CONFIRMED"
       [] s = "CONFIRMED"   -> "ARRIVED"
       [] s = "ARRIVED"     -> "IN_PROGRESS"
       [] s = "IN_PROGRESS" -> "COMPLETED"
       [] OTHER             -> Nothing]

\* A mistake the checks must catch: one status too far.
SkipOne(s) == {STATUS_FLOW[i + 2] : i \in {j \in 1..(Len(STATUS_FLOW) - 2) : STATUS_FLOW[j] = s}}

nextStatus(s) == {STATUS_FLOW[i + 1] : i \in {j \in 1..(Len(STATUS_FLOW) - 1) : STATUS_FLOW[j] = s}}

Offered(x) ==
  IF x \in Orders THEN nextStatus(list[x].status) ELSE {NEXT_STATUS[list[x].status]} \ {Nothing}

\* The view of one order can cancel it, too.
OfferedInDetail(x) ==
  nextStatus(detail[x].status)
  \cup (IF detail[x].status \in {Nothing, "COMPLETED", "CANCELLED"} THEN {} ELSE {"CANCELLED"})

\* BookingCard: a booking that is over has no button. That one which has begun has none
\* either is left out: the deadline refuses it.
OfferedToCustomer(x) ==
  IF list[x].status \in {"CANCELLED", "NO_SHOW", "COMPLETED"} THEN {} ELSE {"CANCELLED"}

Allowed(x) ==
  IF x \in Orders THEN DEFAULT_PIPELINE[row[x].status] ELSE ALLOWED_TRANSITIONS[row[x].status]

Changed(x, s) == [row EXCEPT ![x] = [status |-> s, changes |-> @.changes + 1]]

Init ==
  /\ \E shown \in {Orders, Bookings, Mine} :
       row \in [shown -> [status : IF shown = Orders THEN OrderStatuses ELSE Statuses, changes : {0}]]
  /\ list = row
  /\ detail = [x \in Things |-> NotRead]
  /\ opened = Nothing
  /\ busy = Nothing
  /\ request = [r \in Requests |-> Idle]

-----------------------------------------------------------------------------
(* The page.                                                                 *)

\* useSWR: the list is read again, on a timer or when the window gets the focus.
RefreshList == list' = row /\ UNCHANGED <<row, detail, opened, busy, request>>

\* A row is clicked: what was read of that order before is shown ...
Open(o) ==
  /\ opened = Nothing
  /\ opened' = o
  /\ UNCHANGED <<row, list, detail, busy, request>>

\* ... until it has been read again, once.
ReadDetail ==
  /\ opened \in Orders
  /\ detail' = [detail EXCEPT ![opened] = row[opened]]
  /\ UNCHANGED <<row, list, opened, busy, request>>

Close ==
  /\ opened # Nothing
  /\ opened' = Nothing
  /\ UNCHANGED <<row, list, detail, busy, request>>

\* changeStatus.
changeStatus(r, x, next, seen) ==
  /\ request[r] = Idle
  /\ request' = [request EXCEPT ![r] = [Idle EXCEPT !.pc = "sent", !.id = x, !.next = next,
                                                    !.shown = seen.changes]]
  /\ busy' = x
  /\ UNCHANGED <<row, list, detail, opened>>

\* The button of a row: that of an order stays enabled while one is being changed, that
\* of a booking until another one is clicked.
PressInList(r) ==
  \E x \in Things \ Mine : \E next \in Offered(x) :
    /\ opened = Nothing
    /\ x \in Bookings => busy # x
    /\ changeStatus(r, x, next, list[x])

PressInDetail(r) ==
  /\ opened \in Orders
  /\ busy = Nothing
  /\ \E next \in OfferedInDetail(opened) : changeStatus(r, opened, next, detail[opened])

\* A customer asks to cancel, and is asked whether she is sure ...
AskToCancel(x) ==
  /\ opened = Nothing
  /\ OfferedToCustomer(x) # {}
  /\ opened' = x
  /\ detail' = [detail EXCEPT ![x] = list[x]]
  /\ UNCHANGED <<row, list, busy, request>>

\* ... which she is, whatever the list shows meanwhile.
ConfirmCancel(r) ==
  /\ opened \in Mine
  /\ busy = Nothing
  /\ changeStatus(r, opened, "CANCELLED", detail[opened])

\* The change was made: everything shown is read again, which can fail.
Succeed(r) ==
  /\ request[r].pc = "made" /\ request[r].id \notin Mine
  /\ \/ /\ list' = row
        /\ detail' = [x \in Things |-> IF x = opened THEN row[x] ELSE detail[x]]
     \/ UNCHANGED <<list, detail>>
  /\ request' = [request EXCEPT ![r] = Idle]
  /\ busy' = Nothing
  /\ UNCHANGED <<row, opened>>

\* On the customer's page the question is closed, too.
Cancelled(r) ==
  /\ request[r].pc = "made" /\ request[r].id \in Mine
  /\ list' \in {row, list}
  /\ request' = [request EXCEPT ![r] = Idle]
  /\ busy' = Nothing
  /\ opened' = Nothing
  /\ UNCHANGED <<row, detail>>

\* It was refused, or the request or its answer got lost: a message, and nothing is read.
Fail(r) ==
  /\ request[r].pc \in {"sent", "made", "refused", "late"}
  /\ request' = [request EXCEPT ![r] = Idle]
  /\ busy' = Nothing
  /\ UNCHANGED <<row, list, detail, opened>>

-----------------------------------------------------------------------------
(* The services.                                                             *)

\* cancelByCustomer: the row is read, then the deadline is looked at.
CheckCustomer(r) ==
  LET q == request[r] IN
  /\ q.pc = "sent" /\ q.id \in Mine
  /\ \E pc \in IF "CANCELLED" \in Allowed(q.id) THEN {"checked", "late"} ELSE {"refused"} :
       request' = [request EXCEPT ![r].pc = pc, ![r].found = row[q.id].changes]
  /\ UNCHANGED <<row, list, detail, opened, busy>>

\* updateStatus: the row is read and the change checked, ...
Check(r) ==
  LET q == request[r] IN
  /\ q.pc = IF q.id \in Mine THEN "checked" ELSE "sent"
  /\ request' = [request EXCEPT ![r].pc = IF q.next \in Allowed(q.id) THEN "write" ELSE "refused",
                                ![r].found = row[q.id].changes]
  /\ UNCHANGED <<row, list, detail, opened, busy>>

\* ... and made, whatever the row has become.
Write(r) ==
  LET q == request[r] IN
  /\ q.pc = "write"
  /\ row[q.id].changes < MaxChanges[q.id]
  /\ row' = Changed(q.id, q.next)
  /\ request' = [request EXCEPT ![r].pc = "made"]
  /\ UNCHANGED <<list, detail, opened, busy>>

\* Somebody else changes the row: other staff, or the customer of a booking.
Elsewhere(x) ==
  /\ row[x].changes < MaxChanges[x]
  /\ \E s \in Allowed(x) : row' = Changed(x, s)
  /\ UNCHANGED <<list, detail, opened, busy, request>>

\* A payment sets the status of its order, whatever it was.
Settle(o) ==
  /\ row[o].changes < MaxChanges[o]
  /\ row' = Changed(o, "ACCEPTED")
  /\ UNCHANGED <<list, detail, opened, busy, request>>

Next ==
  \/ RefreshList \/ ReadDetail \/ Close
  \/ \E o \in Things \cap Orders : Open(o) \/ Settle(o)
  \/ \E x \in Things \cap Mine : AskToCancel(x)
  \/ \E r \in Requests :
       \/ PressInList(r) \/ PressInDetail(r) \/ ConfirmCancel(r)
       \/ CheckCustomer(r) \/ Check(r) \/ Write(r) \/ Succeed(r) \/ Cancelled(r) \/ Fail(r)
  \/ \E x \in Things : Elsewhere(x)

Spec == Init /\ [][Next]_vars

-----------------------------------------------------------------------------
(* What is promised.                                                         *)

\* A status the desk offered is refused only when the row has been changed since it was
\* read for the page: the tables of the pages offer nothing that the tables of the
\* services do not allow (STATUS_FLOW, NEXT_STATUS and the filter of the customer's page
\* on one side, DEFAULT_PIPELINE and ALLOWED_TRANSITIONS on the other). A cancellation
\* past the deadline is refused for that reason, which is "late" here.
RefusedOnlyIfStale ==
  \A r \in Requests : request[r].pc = "refused" => request[r].found # request[r].shown
=============================================================================
