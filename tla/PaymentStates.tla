---------------------------- MODULE PaymentStates ----------------------------
(* The states of a payment, and what a provider's callback may ask of it     *)
(* (apps/api/src/modules/payments/payments.service.ts).                      *)

States == {"PENDING", "PROCESSING", "PAID", "FAILED", "CANCELLED", "EXPIRED",
           "REFUNDED", "PARTIALLY_REFUNDED"}

Intents == {"mark_paid", "mark_failed", "mark_cancelled", "mark_refunded", "noop"}

ALLOWED_TRANSITIONS ==
  [s \in States |->
     CASE s = "PENDING"            -> {"PROCESSING", "PAID", "FAILED", "CANCELLED", "EXPIRED"}
       [] s = "PROCESSING"         -> {"PAID", "FAILED", "CANCELLED", "EXPIRED"}
       [] s = "PAID"               -> {"REFUNDED", "PARTIALLY_REFUNDED"}
       [] s = "PARTIALLY_REFUNDED" -> {"REFUNDED"}
       [] OTHER                    -> {}]

\* stateFor: at most one state.
StateFor(intent) ==
  CASE intent = "mark_paid"      -> {"PAID"}
    [] intent = "mark_failed"    -> {"FAILED"}
    [] intent = "mark_cancelled" -> {"CANCELLED"}
    [] intent = "mark_refunded"  -> {"REFUNDED"}
    [] OTHER                     -> {}
=============================================================================
