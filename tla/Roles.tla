------------------------------- MODULE Roles -------------------------------
(***************************************************************************)
(* Roles and permissions (packages/rbac/src/roles.ts, permissions.ts).     *)
(***************************************************************************)
EXTENDS Integers

PERMISSIONS ==
  {"customer:read", "customer:write", "customer:delete", "customer:export",
   "product:read", "product:write", "product:delete",
   "service:read", "service:write", "service:delete",
   "order:read", "order:write", "order:status", "order:cancel", "order:refund",
   "booking:read", "booking:write", "booking:cancel", "booking:reassign",
   "employee:read", "employee:write", "branch:read", "branch:write",
   "inventory:read", "inventory:write", "loyalty:read", "loyalty:adjust",
   "promo:read", "promo:write", "message:read", "message:write", "message:assign",
   "analytics:read", "analytics:financial", "settings:read", "settings:write",
   "integration:read", "integration:write", "member:read", "member:invite",
   "member:role", "audit:read", "tenant:delete", "tenant:billing"}

RANK ==
  [OWNER |-> 100, ADMIN |-> 80, MANAGER |-> 60, ACCOUNTANT |-> 50, OPERATOR |-> 40,
   COURIER |-> 30, EMPLOYEE |-> 20, CUSTOM |-> 10]

ROLES == DOMAIN RANK

\* The base permissions of a role. CUSTOM has none but those granted to it.
MATRIX ==
  [OWNER |-> PERMISSIONS,
   ADMIN |-> PERMISSIONS \ {"integration:write", "member:role", "tenant:delete",
                            "tenant:billing"},
   MANAGER |-> PERMISSIONS \ {"customer:delete", "customer:export", "product:delete",
                              "service:delete", "order:refund", "employee:write",
                              "branch:write", "analytics:financial", "settings:write",
                              "integration:read", "integration:write", "member:read",
                              "member:invite", "member:role", "audit:read",
                              "tenant:delete", "tenant:billing"},
   ACCOUNTANT |-> {"customer:read", "order:read", "product:read", "service:read",
                   "inventory:read", "loyalty:read", "analytics:read",
                   "analytics:financial"},
   OPERATOR |-> {"customer:read", "customer:write", "product:read", "service:read",
                 "order:read", "order:status", "booking:read", "loyalty:read",
                 "message:read", "message:write", "branch:read"},
   COURIER |-> {"order:read", "order:status"},
   EMPLOYEE |-> {"booking:read", "service:read", "product:read", "customer:read"},
   CUSTOM |-> {}]

\* Overrides of a membership, as [grant, revoke]; a revocation wins.
effectivePermissions(role, overrides) ==
  (MATRIX[role] \cup overrides.grant) \ overrides.revoke

canAssignRole(actorRole, targetRole) ==
  actorRole = "OWNER" \/ RANK[actorRole] > RANK[targetRole]
=============================================================================
