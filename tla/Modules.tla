------------------------------ MODULE Modules ------------------------------
(***************************************************************************)
(* The modules a business can switch on, what they depend on, and the      *)
(* templates a business starts from (packages/rbac/src/modules.ts,         *)
(* templates.ts).                                                          *)
(***************************************************************************)
EXTENDS Integers, FiniteSets

CORE_MODULES == {"CRM", "TELEGRAM", "ANALYTICS"}

comingSoon == {"MARKETING", "POS", "FINANCE", "SUPPLIERS", "AI", "AUTOMATION"}

MODULES ==
  CORE_MODULES \cup comingSoon \cup
  {"CATALOG", "SERVICES", "ORDERS", "BOOKING", "PAYMENTS", "DELIVERY", "BRANCHES",
   "EMPLOYEES", "INVENTORY", "LOYALTY", "PROMOCODES", "MESSAGES"}

AVAILABLE_MODULES == MODULES \ comingSoon

requires(m) ==
  CASE m \in {"ORDERS", "LOYALTY", "MESSAGES", "MARKETING", "AI"} -> {"CRM"}
    [] m = "BOOKING"   -> {"SERVICES", "CRM"}
    [] m = "DELIVERY"  -> {"ORDERS"}
    [] m = "INVENTORY" -> {"CATALOG"}
    [] m = "POS"       -> {"CATALOG", "ORDERS", "PAYMENTS"}
    [] m = "SUPPLIERS" -> {"INVENTORY"}
    [] OTHER           -> {}

missingDependencies(m, enabled) == requires(m) \ enabled

dependentsOf(m, enabled) == { d \in enabled : m \in requires(d) }

Closed(enabled) == \A m \in enabled : missingDependencies(m, enabled) = {}

\* With what the modules of a set depend on themselves.
Pulled(modules) == modules \cup UNION { requires(m) : m \in modules }

\* The selection, the core modules and everything they depend on. No chain of
\* dependencies is longer than two, as the theorems about this definition show.
withDependencies(selection) == Pulled(Pulled(CORE_MODULES \cup selection))

-----------------------------------------------------------------------------
\* What the modules of a template have in common.
Base == {"CRM", "MESSAGES", "ANALYTICS", "TELEGRAM"}

TEMPLATES ==
  [ONLINE_STORE |-> Base \cup {"CATALOG", "ORDERS", "PAYMENTS", "DELIVERY", "INVENTORY",
                               "PROMOCODES", "LOYALTY"},
   RESTAURANT |-> Base \cup {"CATALOG", "ORDERS", "PAYMENTS", "DELIVERY", "BRANCHES",
                             "INVENTORY", "LOYALTY", "PROMOCODES"},
   BEAUTY |-> Base \cup {"SERVICES", "BOOKING", "EMPLOYEES", "BRANCHES", "PAYMENTS",
                         "LOYALTY", "PROMOCODES"},
   SERVICE |-> Base \cup {"SERVICES", "BOOKING", "EMPLOYEES", "BRANCHES", "PAYMENTS"},
   CUSTOM |-> Base]

Answers ==
  [sellsProducts : BOOLEAN, takesBookings : BOOLEAN, servesFood : BOOLEAN,
   delivers : BOOLEAN, branchCount : 1 .. 2, hasEmployeeSchedules : BOOLEAN,
   tracksStock : BOOLEAN]

recommendedTemplate(a) ==
  CASE a.servesFood -> "RESTAURANT"
    [] ~a.servesFood /\ a.takesBookings /\ a.hasEmployeeSchedules -> "BEAUTY"
    [] ~a.servesFood /\ a.takesBookings /\ ~a.hasEmployeeSchedules -> "SERVICE"
    [] ~a.servesFood /\ ~a.takesBookings /\ a.sellsProducts -> "ONLINE_STORE"
    [] OTHER -> "CUSTOM"

\* The answers refine the template, first with what is sold, then with what needs it.
recommendedModules(a) ==
  LET sold == TEMPLATES[recommendedTemplate(a)]
              \cup (IF a.sellsProducts THEN {"CATALOG", "ORDERS"} ELSE {})
              \cup (IF a.takesBookings THEN {"SERVICES", "BOOKING"} ELSE {})
      delivery == IF a.delivers /\ "ORDERS" \in sold THEN {"DELIVERY"} ELSE {}
      stock    == IF a.tracksStock /\ "CATALOG" \in sold THEN {"INVENTORY"} ELSE {}
  IN  (sold \ {"DELIVERY", "INVENTORY"}) \cup delivery \cup stock
      \cup (IF a.branchCount > 1 THEN {"BRANCHES"} ELSE {})
      \cup (IF a.hasEmployeeSchedules THEN {"EMPLOYEES"} ELSE {})
=============================================================================
