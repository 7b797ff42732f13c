-------------------------- MODULE ResourceCalendar --------------------------
(***************************************************************************)
(* What the booking module promises about time: every resource has a       *)
(* calendar of held spans, a span is taken only while nothing overlapping  *)
(* is held for that resource, and it may be given back.  Nothing here      *)
(* knows of locks, transactions, statuses or the order of requests.        *)
(***************************************************************************)
EXTENDS Integers

CONSTANT Reservation   \* records with fields booking, resource, from, to

VARIABLE held          \* the reservations in force

Collides(x, y) ==
  /\ x.resource = y.resource
  /\ x.from < y.to
  /\ y.from < x.to

Init == held = {}

Take(x) ==
  /\ \A y \in held : y.booking # x.booking /\ ~Collides(x, y)
  /\ held' = held \cup {x}

GiveBack(x) ==
  /\ x \in held
  /\ held' = held \ {x}

Next == \E x \in Reservation : Take(x) \/ GiveBack(x)

Spec == Init /\ [][Next]_held

\* No two reservations of one resource overlap.
Exclusive ==
  \A x, y \in held : x.booking # y.booking => ~Collides(x, y)
=============================================================================
