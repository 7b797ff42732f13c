------------------------------- MODULE Slots -------------------------------
(***************************************************************************)
(* The booking flow of the Mini App                                        *)
(* (apps/miniapp/src/app/[slug]/services/page.tsx): a service, a           *)
(* specialist or any, a day and a time, while the answers about free times *)
(* arrive for each service and day by themselves and grow old.             *)
(***************************************************************************)
EXTENDS Integers, FiniteSets

CONSTANTS
  Services, Resources,
  Performs,   \* the pairs <<service, resource>> that can be booked
  Labels,     \* the days that the page offers, by their local date
  Times,      \* the times that may be free
  DayOf,      \* Times -> the local day of a time
  MaxTaken    \* bound: times that are booked, here or by others

\* What is assumed of the constants, wherever they are given values.
SlotsAssumption ==
  Performs \subseteq Services \X Resources /\ Labels \subseteq Int /\ DayOf \in [Times -> Int]

VARIABLES
  early,      \* it is so early that the day has not begun in UTC
  free,       \* Resources -> the times that are free
  service, resource, slot,  \* the choices, sets of at most one
  date,       \* the date that is asked for
  label,      \* the day of the button that is highlighted
  cached,     \* <<service, date>> -> the last answer, a set of at most one
  asking,     \* the keys that a request is in flight for
  taken,      \* bound: times booked so far
  booking,    \* the request to book with the day highlighted when it was sent, or none
  offered     \* ghost: the <<service, resource, time>> that an answer held

vars == <<early, free, service, resource, slot, date, label, cached, asking, taken,
          booking, offered>>

-----------------------------------------------------------------------------
\* The date that the button of a day stands for: the day in UTC.
Value(l) == IF early THEN l - 1 ELSE l

Keys == Services \X { l - k : l \in Labels, k \in {0, 1} }

Able(s) == { r \in Resources : <<s, r>> \in Performs }

\* The resources of a service with their free times of a day, and all together.
Availability(s, d) ==
  [r \in Able(s) |-> { t \in free[r] : DayOf[t] = d }]

\* SWR asks for a key that appears. If it does not, having just asked, that is like
\* a request without an answer.
Ask(key) == asking' = asking \cup {key}

\* What the page has for the choices made.
Answers == UNION { cached[<<s, date>>] : s \in service }

Slots ==
  UNION { IF resource = {} THEN UNION { a[r] : r \in DOMAIN a }
          ELSE UNION { a[r] : r \in resource \cap DOMAIN a } : a \in Answers }

Init ==
  /\ early \in BOOLEAN
  /\ free = [r \in Resources |-> Times]
  /\ service = {} /\ resource = {} /\ slot = {}
  /\ label \in { l \in Labels : \A k \in Labels : l <= k } /\ date = Value(label)
  /\ cached = [k \in Keys |-> {}] /\ asking = {}
  /\ taken = 0 /\ booking = {} /\ offered = {}

ChooseService(s) ==
  /\ service = {}
  /\ service' = {s}
  /\ Ask(<<s, date>>)
  /\ UNCHANGED <<early, free, resource, slot, date, label, cached, taken, booking, offered>>

Back ==
  /\ service # {}
  /\ service' = {} /\ slot' = {} /\ resource' = {}
  /\ UNCHANGED <<early, free, date, label, cached, asking, taken, booking, offered>>

\* A mistake the checks must catch: the time stays when the specialist changes.
ChooseResourceOnly(choice) ==
  /\ \E a \in Answers :
       /\ Cardinality(DOMAIN a) > 1
       /\ \A r \in choice : r \in DOMAIN a /\ a[r] # {}
  /\ resource' = choice
  /\ UNCHANGED <<early, free, service, slot, date, label, cached, asking, taken, booking,
                 offered>>

\* One of several specialists, or none in particular.
ChooseResource(choice) ==
  /\ \E a \in Answers :
       /\ Cardinality(DOMAIN a) > 1
       /\ \A r \in choice : r \in DOMAIN a /\ a[r] # {}
  /\ resource' = choice /\ slot' = {}
  /\ UNCHANGED <<early, free, service, date, label, cached, asking, taken, booking, offered>>

ChooseDay(l) ==
  /\ service # {}
  /\ label' = l /\ date' = Value(l) /\ slot' = {}
  /\ \E s \in service : Ask(<<s, date'>>)
  /\ UNCHANGED <<early, free, service, resource, cached, taken, booking, offered>>

ChooseSlot(t) ==
  /\ t \in Slots
  /\ slot' = {t}
  /\ UNCHANGED <<early, free, service, resource, date, label, cached, asking, taken, booking,
                 offered>>

\* The window gets the focus.
Focus ==
  /\ \E s \in service : asking' = asking \cup {<<s, date>>}
  /\ UNCHANGED <<early, free, service, resource, slot, date, label, cached, taken, booking,
                 offered>>

Answer(key) ==
  /\ key \in asking
  /\ asking' = asking \ {key}
  /\ cached' = [cached EXCEPT ![key] = {Availability(key[1], key[2])}]
  /\ offered' = offered \cup
       UNION { { <<key[1], r, t>> : t \in Availability(key[1], key[2])[r] } : r \in Able(key[1]) }
  /\ UNCHANGED <<early, free, service, resource, slot, date, label, taken, booking>>

\* An error keeps what the page has.
NoAnswer(key) ==
  /\ key \in asking
  /\ asking' = asking \ {key}
  /\ UNCHANGED <<early, free, service, resource, slot, date, label, cached, taken, booking,
                 offered>>

Confirm ==
  /\ booking = {}
  /\ \E s \in service, t \in slot :
       booking' = {[service |-> s, resource |-> resource, time |-> t, label |-> label]}
  /\ UNCHANGED <<early, free, service, resource, slot, date, label, cached, asking, taken,
                 offered>>

\* The server books the time and the page is left, ...
Booked ==
  /\ taken < MaxTaken /\ taken' = taken + 1
  /\ \E b \in booking : \E r \in Able(b.service) :
       /\ (b.resource = {} \/ r \in b.resource) /\ b.time \in free[r]
       /\ free' = [free EXCEPT ![r] = @ \ {b.time}]
  /\ booking' = {} /\ service' = {} /\ resource' = {} /\ slot' = {}
  /\ label' \in { l \in Labels : \A k \in Labels : l <= k } /\ date' = Value(label')
  /\ UNCHANGED <<early, cached, asking, offered>>

\* ... or refuses it, and the time stays chosen.
Refused ==
  /\ \E b \in booking : \A r \in Able(b.service) :
       (b.resource = {} \/ r \in b.resource) => b.time \notin free[r]
  /\ booking' = {}
  /\ UNCHANGED <<early, free, service, resource, slot, date, label, cached, asking, taken,
                 offered>>

\* Somebody else books.
Take(r, t) ==
  /\ taken < MaxTaken /\ taken' = taken + 1
  /\ t \in free[r]
  /\ free' = [free EXCEPT ![r] = @ \ {t}]
  /\ UNCHANGED <<early, service, resource, slot, date, label, cached, asking, booking, offered>>

Next ==
  \/ \E s \in Services : ChooseService(s)
  \/ Back \/ Focus \/ Confirm \/ Booked \/ Refused
  \/ \E r \in Resources : ChooseResource({r})
  \/ ChooseResource({})
  \/ \E l \in Labels : ChooseDay(l)
  \/ \E t \in Times : ChooseSlot(t)
  \/ \E key \in Keys : Answer(key) \/ NoAnswer(key)
  \/ \E r \in Resources, t \in Times : Take(r, t)

Spec == Init /\ [][Next]_vars

-----------------------------------------------------------------------------
(* Properties.                                                             *)

\* What is sent is what the customer was offered: the time was free for this service with
\* this specialist, or with some specialist when none is chosen, in an answer of the
\* server, however the choices were changed in between; and it is a time of the day
\* that was highlighted, unless the page is used while UTC is still on the day before.
BooksTheOffered ==
  \A b \in booking :
    /\ \E r \in Resources :
         (b.resource = {} \/ r \in b.resource) /\ <<b.service, r, b.time>> \in offered
    /\ early \/ DayOf[b.time] = b.label
=============================================================================
