------------------------------ MODULE MCAccess ------------------------------
(* Instances of Sessions, Members and Tenancy, which every request passes,   *)
(* for TLC. They share no state, so a behaviour is one of them with the      *)
(* others at rest.                                                           *)
EXTENDS TLC

CONSTANTS t1, t2, Tabs, Browsers, BrowserOf, Requests, MaxTokens, MaxFamilies,
          Users, Staff, Handlers, NewRoles, MaxInvites,
          w1, w2, Templates, Switched, Writers, Readers, MaxUpdates

VARIABLES part,
          tokens, cookie, request, reused, ended, forked, disturbed,
          member, invites, change, overtaken,
          tenant, enabled, cache, writer, reader, outrun, excused

\* All tabs are in one browser.
OneBrowser == [t \in Tabs |-> CHOOSE b \in Browsers : TRUE]

S == INSTANCE Sessions
M == INSTANCE Members
T == INSTANCE Tenancy WITH overtaken <- outrun

ASSUME ConstantsAssumption == S!SessionsAssumption /\ M!MembersAssumption /\ T!TenancyAssumption

sVars == <<tokens, cookie, request, reused, ended, forked, disturbed>>
mVars == <<member, invites, change, overtaken>>
tVars == <<tenant, enabled, cache, writer, reader, outrun, excused>>

Init ==
  /\ part \in {"sessions", "members", "tenancy"}
  /\ S!Init /\ T!Init
  /\ M!Init /\ (part # "members" => member = [u \in Users |-> "OWNER"])

Next ==
  \/ part = "sessions" /\ S!Next /\ UNCHANGED <<part, mVars, tVars>>
  \/ part = "members"  /\ M!Next /\ UNCHANGED <<part, sVars, tVars>>
  \/ part = "tenancy"  /\ T!Next /\ UNCHANGED <<part, sVars, mVars>>

Spec == Init /\ [][Next]_<<part, sVars, mVars, tVars>>

Symmetry == Permutations(Tabs) \cup Permutations(Writers)

EndedStaysDead       == S!EndedStaysDead
OneLiveToken         == S!OneLiveToken
ReuseOnlyIfDisturbed == S!ReuseOnlyIfDisturbed
OwnerRemains         == M!OwnerRemains
DependenciesMet      == T!DependenciesMet
CacheIsFresh         == T!CacheIsFresh
=============================================================================
