------------------------------ MODULE MCBooking ------------------------------
(* Instances of Booking for TLC: a day of six four-hour ticks in a zone one  *)
(* tick east of UTC, open for its first four; a specialist, and a   *)
(* second one with a split shift, a preparation buffer and time off; a short *)
(* and a long service.                                                       *)
EXTENDS Booking, TLC

CONSTANTS cut, colour, b1, b2

MCDuration == (cut :> 1) @@ (colour :> 2)
MCServiceBuffer == [s \in Services |-> [before |-> 0, after |-> 0]]
MCResourceBuffer ==
  [r \in Resources |-> [before |-> IF r = 2 THEN 1 ELSE 0, after |-> 0]]
MCQualified == (cut :> Resources) @@ (colour :> {1})
MCBusinessHours ==
  [w \in Weekdays |-> IF w = 0 THEN {Window(0, 4)} ELSE {}]
MCBranchHours ==
  [r \in Resources |-> [w \in Weekdays |-> IF r = 1 THEN {Window(0, 2)} ELSE {}]]
MCSchedule ==
  [r \in Resources |->
     [w \in Weekdays |-> IF r = 1 THEN {Window(0, 5)} ELSE {Window(0, 2), Window(2, 4)}]]
MCTimeOff == [r \in Resources |-> IF r = 2 THEN {[from |-> 1, to |-> 2]} ELSE {}]
HandlerSymmetry == Permutations(Handlers)
=============================================================================
