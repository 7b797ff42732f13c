---------------------------- MODULE OrderPipeline ----------------------------
(***************************************************************************)
(* The statuses of an order and the table the order service checks a       *)
(* change of status against (apps/api/src/modules/orders/orders.service.ts)*)
(***************************************************************************)

OrderStatuses == {"NEW", "ACCEPTED", "PREPARING", "READY", "DELIVERING",
                  "COMPLETED", "CANCELLED"}

DEFAULT_PIPELINE ==
  [s \in OrderStatuses |->
     CASE s = "NEW"        -> {"ACCEPTED", "CANCELLED"}
       [] s = "ACCEPTED"   -> {"PREPARING", "READY", "DELIVERING", "COMPLETED", "CANCELLED"}
       [] s = "PREPARING"  -> {"READY", "DELIVERING", "COMPLETED", "CANCELLED"}
       [] s = "READY"      -> {"DELIVERING", "COMPLETED", "CANCELLED"}
       [] s = "DELIVERING" -> {"COMPLETED", "CANCELLED"}
       [] OTHER            -> {}]
=============================================================================
