------------------------------- MODULE Members -------------------------------
(***************************************************************************)
(* The members of a business                                               *)
(* (apps/api/src/modules/members/members.service.ts) and the part of the   *)
(* guards that lets an actor reach them (common/guards/tenant.guard.ts,    *)
(* permissions.guard.ts). A request reads the actor's membership, then the *)
(* member's, then counts the other owners, and writes by id: four          *)
(* statements outside any transaction.                                     *)
(***************************************************************************)
EXTENDS Roles, FiniteSets

CONSTANTS
  Users,      \* people who are, were or can be members
  Staff,      \* platform staff, who act with the role OWNER where they are no members
  Handlers,   \* requests in flight at a time
  NewRoles,   \* bound: the roles given
  MaxInvites  \* bound: invitations

\* What is assumed of the constants, wherever they are given values.
MembersAssumption ==
  /\ NewRoles \subseteq ROLES \ {"CUSTOM"}
  /\ MaxInvites \in Nat

VARIABLES
  member,     \* Users -> role of the membership, or NoMember
  invites,    \* MemberInvite rows, as pairs of a user and a role
  change,     \* Handlers -> the request in progress
  overtaken   \* ghost: a change was written although, since its reads, another one
              \* had taken an owner away

vars == <<member, invites, change, overtaken>>

-----------------------------------------------------------------------------
NoMember == "NONE"

NoOverrides == [grant |-> {}, revoke |-> {}]

Owners == { u \in Users : member[u] = "OWNER" }

\* The role with which TenantGuard lets a user through.
RoleOf(u) ==
  IF u \in Users /\ member[u] # NoMember THEN member[u]
  ELSE IF u \in Staff THEN "OWNER" ELSE NoMember

\* PermissionsGuard. Nothing ever writes overrides of a membership.
May(u, permission) ==
  /\ RoleOf(u) # NoMember
  /\ permission \in effectivePermissions(RoleOf(u), NoOverrides)

Idle == [pc |-> "idle", op |-> "none", role |-> NoMember, target |-> "none",
         new |-> NoMember, late |-> FALSE]

Init ==
  /\ member \in [Users -> NewRoles \cup {NoMember}]
  /\ Owners # {}
  /\ invites = {}
  /\ change = [h \in Handlers |-> Idle]
  /\ overtaken = FALSE

-----------------------------------------------------------------------------
\* The guards of changeRole and remove let the actor in.
Begin(h, actor, target, op, new) ==
  /\ change[h] = Idle
  /\ May(actor, "member:role")
  /\ change' = [change EXCEPT ![h] = [pc |-> "read", op |-> op, role |-> RoleOf(actor),
                                      target |-> target, new |-> new, late |-> FALSE]]
  /\ UNCHANGED <<member, invites, overtaken>>

\* The new role of the member if the request goes through.
Outcome(h) == IF change[h].op = "remove" THEN NoMember ELSE change[h].new

\* findFirstOrThrow and the checks on ranks. The last owner is looked for before
\* an owner is removed or made something else.
Read(h) ==
  LET target == change[h].target IN
  /\ change[h].pc = "read"
  /\ member[target] # NoMember
  /\ canAssignRole(change[h].role, member[target])
  /\ change[h].op = "role" => canAssignRole(change[h].role, change[h].new)
  /\ change' = [change EXCEPT ![h].pc =
       IF member[target] = "OWNER" /\ Outcome(h) # "OWNER" THEN "count" ELSE "write"]
  /\ UNCHANGED <<member, invites, overtaken>>

\* A mistake the checks must catch: the member himself is counted.
CountAll(h) ==
  /\ change[h].pc = "count"
  /\ Owners # {}
  /\ change' = [change EXCEPT ![h].pc = "write"]
  /\ UNCHANGED <<member, invites, overtaken>>

\* assertNotLastOwner.
Count(h) ==
  /\ change[h].pc = "count"
  /\ Owners \ {change[h].target} # {}
  /\ change' = [change EXCEPT ![h].pc = "write"]
  /\ UNCHANGED <<member, invites, overtaken>>

\* update or delete by id; a row that is gone is an error. When an owner goes,
\* requests that have read but not written are late from now on.
Write(h) ==
  LET target == change[h].target IN
  /\ change[h].pc = "write"
  /\ member[target] # NoMember
  /\ member' = [member EXCEPT ![target] = Outcome(h)]
  /\ overtaken' = (overtaken \/ change[h].late)
  /\ change' = [g \in Handlers |->
       IF g = h THEN Idle
       ELSE IF Owners \ Owners' # {} /\ change[g].pc \in {"count", "write"} THEN [change[g] EXCEPT !.late = TRUE]
       ELSE change[g]]
  /\ UNCHANGED invites

\* A refusal, an error, or the end of the process.
Fail(h) ==
  /\ change[h] # Idle
  /\ change' = [change EXCEPT ![h] = Idle]
  /\ UNCHANGED <<member, invites, overtaken>>

\* invite: only by someone who outranks the role. A member cannot be invited; two
\* pending invitations of one person can be, the unique index being over acceptedAt
\* too, which is null. The reads before the insert only refuse.
Invite(actor, u, role) ==
  /\ Cardinality(invites) < MaxInvites
  /\ May(actor, "member:invite")
  /\ canAssignRole(RoleOf(actor), role)
  /\ member[u] = NoMember
  /\ role # "OWNER"
  /\ invites' = invites \cup {<<u, role>>}
  /\ UNCHANGED <<member, change, overtaken>>

Next ==
  \/ \E actor \in Users \cup Staff, target \in Users :
       \/ \E h \in Handlers :
            \/ \E new \in NewRoles : Begin(h, actor, target, "role", new)
            \/ Begin(h, actor, target, "remove", NoMember)
       \/ \E role \in NewRoles : Invite(actor, target, role)
  \/ \E h \in Handlers : Read(h) \/ Count(h) \/ Write(h) \/ Fail(h)

Spec == Init /\ [][Next]_vars

-----------------------------------------------------------------------------
\* A request that has passed the guards.
Changes ==
  [pc : {"read", "count", "write"}, op : {"role", "remove"}, role : ROLES \cup {NoMember},
   target : Users, new : NewRoles \cup {NoMember}, late : BOOLEAN]

TypeOK ==
  /\ member \in [Users -> ROLES \cup {NoMember}]
  /\ invites \subseteq Users \X ROLES
  /\ overtaken \in BOOLEAN
  /\ change \in [Handlers -> {Idle} \cup Changes]

\* A business keeps an owner through every role change and removal. The check
\* holds no lock, so the one way to lose the last owner is a change written on
\* reads after which another one took an owner away.
OwnerRemains == Owners = {} => overtaken
=============================================================================
