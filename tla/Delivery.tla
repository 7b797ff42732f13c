------------------------------ MODULE Delivery ------------------------------
(***************************************************************************)
(* What an outbox promises to the rest of the program: a consumer handles  *)
(* no event that was not emitted, an event is never taken back, and every  *)
(* consumer that wants it handles it eventually, at least once.            *)
(***************************************************************************)
CONSTANT Wanted      \* pairs of an event and a consumer that wants it

VARIABLES
  emitted,           \* the events that were emitted
  handled            \* the wanted pairs that have been handled

Emittable == { w[1] : w \in Wanted }

Init == emitted = {} /\ handled = {}

Emit(e) ==
  /\ e \notin emitted
  /\ emitted' = emitted \cup {e}
  /\ UNCHANGED handled

Handle(w) ==
  /\ w[1] \in emitted
  /\ w \notin handled
  /\ handled' = handled \cup {w}
  /\ UNCHANGED emitted

Next == (\E e \in Emittable : Emit(e)) \/ (\E w \in Wanted : Handle(w))

vars == <<emitted, handled>>

Safety == Init /\ [][Next]_vars

Spec == Safety /\ \A w \in Wanted : WF_vars(Handle(w))
=============================================================================
