--------------------------- MODULE BookingStates ---------------------------
(***************************************************************************)
(* The statuses of a booking, the table a change of status is checked      *)
(* against, and the statuses in which it does not hold its resource        *)
(* (apps/api/src/modules/bookings/bookings.service.ts)                     *)
(***************************************************************************)

Statuses == {"PENDING", "CONFIRMED", "ARRIVED", "IN_PROGRESS",
             "COMPLETED", "CANCELLED", "NO_SHOW"}

ALLOWED_TRANSITIONS ==
  [s \in Statuses |->
     CASE s = "PENDING"     -> {"CONFIRMED", "CANCELLED"}
       [] s = "CONFIRMED"   -> {"ARRIVED", "IN_PROGRESS", "COMPLETED",
                                "CANCELLED", "NO_SHOW"}
       [] s = "ARRIVED"     -> {"IN_PROGRESS", "COMPLETED", "CANCELLED", "NO_SHOW"}
       [] s = "IN_PROGRESS" -> {"COMPLETED", "CANCELLED"}
       [] OTHER             -> {}]

\* The statuses that do not occupy the resource.
FreeStatuses == {"CANCELLED", "NO_SHOW"}
=============================================================================
