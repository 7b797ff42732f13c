---------------------------- MODULE AccessProofs ----------------------------
(***************************************************************************)
(* Proofs about Sessions, Members and Tenancy, for every set of tabs,      *)
(* browsers, requests, users, handlers, writers and readers and every      *)
(* bound. They share no state, so the inductive invariant AccessInv is one *)
(* part for each. What it adds to the properties:                          *)
(*   Sessions: the one claim to the next token of a family (HeirsAreUnique)*)
(*     and the one hand that holds an undisturbed family (Undisturbed):    *)
(*     a cookie with a good token, the request that presents it, or the    *)
(*     answer that brings it;                                              *)
(*   Members: a counted request that nothing has outrun leaves an owner    *)
(*     behind (OwnersLeft);                                                *)
(*   Tenancy: what a writer saw when it looked still stands (ChecksStand), *)
(*     and a load that nothing has outrun holds the current row            *)
(*     (FreshLoads).                                                       *)
(***************************************************************************)
EXTENDS MCAccess, FiniteSetTheorems, SequenceTheorems, TLAPS

-----------------------------------------------------------------------------
(* Members: the owner of a tenant. *)

\* RoleOf answers one of the roles, or that the user is no member.
LEMMA RoleType ==
  ASSUME M!TypeOK, NEW u PROVE M!RoleOf(u) \in M!ROLES \cup {M!NoMember}
BY DEF M!TypeOK, M!RoleOf, M!ROLES, M!RANK

\* A request that is late from now on is still a request.
LEMMA LateChange ==
  ASSUME NEW c \in M!Changes PROVE [c EXCEPT !.late = TRUE] \in M!Changes
BY DEF M!Changes

\* The two role changes of rbac and the invitation keep every variable of Members
\* in its type.
LEMMA MembersTypeStep == M!TypeOK /\ M!Next => M!TypeOK'
<1> SUFFICES ASSUME M!TypeOK, M!Next PROVE M!TypeOK'
  OBVIOUS
<1> USE DEF M!TypeOK
<1>1. ASSUME NEW h \in Handlers, NEW actor, NEW target \in Users, NEW op \in {"role", "remove"},
             NEW new \in NewRoles \cup {M!NoMember}, M!Begin(h, actor, target, op, new)
      PROVE M!TypeOK'
  BY <1>1, RoleType DEF M!Begin, M!Changes
<1>2. ASSUME NEW actor, NEW target \in Users, NEW role \in NewRoles, M!Invite(actor, target, role)
      PROVE M!TypeOK'
  BY <1>2, ConstantsAssumption DEF M!Invite, M!MembersAssumption
<1>3. ASSUME NEW h \in Handlers, M!Read(h) PROVE M!TypeOK'
  BY <1>3 DEF M!Read, M!Changes, M!Idle
<1>4. ASSUME NEW h \in Handlers, M!Count(h) PROVE M!TypeOK'
  BY <1>4 DEF M!Count, M!Changes, M!Idle
<1>5. ASSUME NEW h \in Handlers, M!Write(h) PROVE M!TypeOK'
  <2>1. M!Outcome(h) \in M!ROLES \cup {M!NoMember}
    BY <1>5, ConstantsAssumption DEF M!Write, M!Outcome, M!Changes, M!Idle, M!MembersAssumption
  <2>2. \A g \in Handlers :
          change'[g] \in {M!Idle, change[g], [change[g] EXCEPT !.late = TRUE]}
    BY <1>5 DEF M!Write
  <2>3. \A g \in Handlers : change[g].pc \in {"count", "write"} =>
          [change[g] EXCEPT !.late = TRUE] \in M!Changes
    <3> SUFFICES ASSUME NEW g \in Handlers, change[g].pc \in {"count", "write"}
                 PROVE [change[g] EXCEPT !.late = TRUE] \in M!Changes
      OBVIOUS
    <3>1. change[g] # M!Idle
      BY DEF M!Idle
    <3>2. change[g] \in M!Changes
      BY <3>1
    <3> QED
      BY <3>2, LateChange
  <2>4. \A g \in Handlers : change'[g] \in {M!Idle} \cup M!Changes
    BY <1>5, <2>2, <2>3 DEF M!Write
  <2>5. change' \in [Handlers -> {M!Idle} \cup M!Changes]
    BY <1>5, <2>4 DEF M!Write
  <2> QED
    BY <1>5, <2>1, <2>5 DEF M!Write
<1>6. ASSUME NEW h \in Handlers, M!Fail(h) PROVE M!TypeOK'
  BY <1>6 DEF M!Fail
<1> QED
  BY <1>1, <1>2, <1>3, <1>4, <1>5, <1>6 DEF M!Next

\* What the count leaves behind.
SomebodyElse(h) ==
  M!Outcome(h) = "OWNER" \/ \E u \in M!Owners : u # change[h].target

\* A tenant has an owner, and each counted request that nothing has outrun
\* leaves one behind.
OwnersLeft ==
  /\ M!Owners # {}
  /\ \A h \in Handlers : change[h].pc = "write" /\ ~change[h].late => SomebodyElse(h)

MembersInv == M!TypeOK /\ (overtaken \/ OwnersLeft)

\* As long as no write has outrun a count of the owners, what a counted request
\* relies on stays true: another owner is there, so its write leaves one.
LEMMA MembersStep == MembersInv /\ M!Next => MembersInv'
<1> SUFFICES ASSUME MembersInv, M!Next, ~overtaken' PROVE OwnersLeft'
  BY MembersTypeStep DEF MembersInv
<1> USE DEF MembersInv, OwnersLeft
<1>t. M!TypeOK'
  BY MembersTypeStep
<1>o. ~overtaken
  BY DEF M!Next, M!Begin, M!Invite, M!Read, M!Count, M!Write, M!Fail, M!TypeOK
<1>1. ASSUME NEW h \in Handlers, NEW actor, NEW target \in Users, NEW op \in {"role", "remove"},
             NEW new \in NewRoles \cup {M!NoMember}, M!Begin(h, actor, target, op, new)
      PROVE OwnersLeft'
  BY <1>1, <1>o DEF M!Begin, M!TypeOK, SomebodyElse, M!Owners, M!Outcome
<1>2. ASSUME NEW actor, NEW target \in Users, NEW role \in NewRoles, M!Invite(actor, target, role)
      PROVE OwnersLeft'
  BY <1>2, <1>o DEF M!Invite, M!TypeOK, SomebodyElse, M!Owners, M!Outcome
<1>3. ASSUME NEW h \in Handlers, M!Read(h) PROVE OwnersLeft'
  BY <1>3, <1>o DEF M!Read, M!TypeOK, SomebodyElse, M!Owners, M!Outcome, M!Idle, M!Changes
<1>4. ASSUME NEW h \in Handlers, M!Count(h) PROVE OwnersLeft'
  BY <1>4, <1>o DEF M!Count, M!TypeOK, SomebodyElse, M!Owners, M!Outcome, M!Idle, M!Changes
<1>5. ASSUME NEW h \in Handlers, M!Write(h) PROVE OwnersLeft'
  BY <1>5, <1>o DEF M!Write, M!TypeOK, SomebodyElse, M!Owners, M!Outcome, M!Idle, M!Changes
<1>6. ASSUME NEW h \in Handlers, M!Fail(h) PROVE OwnersLeft'
  BY <1>6, <1>o DEF M!Fail, M!TypeOK, SomebodyElse, M!Owners, M!Outcome, M!Idle, M!Changes
<1> QED
  BY <1>1, <1>2, <1>3, <1>4, <1>5, <1>6 DEF M!Next

-----------------------------------------------------------------------------
(* Tenancy: the modules of a tenant and the cached context. *)

\* A module requires modules that can be switched on.
LEMMA RequiresType == \A m : T!requires(m) \subseteq T!AVAILABLE_MODULES
BY DEF T!requires, T!AVAILABLE_MODULES, T!MODULES, T!CORE_MODULES, T!comingSoon

\* The rounds of withDependencies reach the end of every chain of dependencies: the
\* result holds the selection, the core modules and all they need.
THEOREM DependenciesClosed ==
  ASSUME NEW selection PROVE T!Closed(T!withDependencies(selection))
<1>1. \A m, n, k : n \in T!requires(m) /\ k \in T!requires(n) => T!requires(k) = {}
  BY DEF T!requires
<1>2. SUFFICES ASSUME NEW m \in T!withDependencies(selection), NEW n \in T!requires(m)
               PROVE n \in T!withDependencies(selection)
  BY DEF T!Closed, T!missingDependencies
<1> DEFINE core == T!CORE_MODULES \cup selection
<1>3. T!requires(m) = {} \/ m \in T!Pulled(core)
  <2>1. CASE m \in core
    BY <2>1 DEF T!Pulled
  <2>2. CASE m \notin core
    BY <1>1, <2>2 DEF T!withDependencies, T!Pulled
  <2> QED
    BY <2>1, <2>2
<1> QED
  BY <1>2, <1>3 DEF T!withDependencies, T!Pulled

\* The templates of onboarding choose modules that can be switched on.
LEMMA TemplatesType ==
  \A t \in DOMAIN T!TEMPLATES : T!TEMPLATES[t] \subseteq T!AVAILABLE_MODULES
BY DEF T!TEMPLATES, T!Base, T!AVAILABLE_MODULES, T!MODULES, T!CORE_MODULES, T!comingSoon

\* What withDependencies makes of a template holds the core modules, and only
\* modules that can be switched on.
LEMMA DependenciesType ==
  ASSUME NEW t \in DOMAIN T!TEMPLATES
  PROVE  /\ T!CORE_MODULES \subseteq T!withDependencies(T!TEMPLATES[t])
         /\ T!withDependencies(T!TEMPLATES[t]) \subseteq T!AVAILABLE_MODULES
<1>1. T!CORE_MODULES \subseteq T!AVAILABLE_MODULES
  BY DEF T!AVAILABLE_MODULES, T!MODULES, T!CORE_MODULES, T!comingSoon
<1> QED
  BY <1>1, TemplatesType, RequiresType DEF T!withDependencies, T!Pulled

\* The part of the type invariant that is about the writers.
Writings ==
  [pc : {"idle", "switch", "invalidate"}, op : {"none", "tenant", "module"},
   module : Switched \cup {"none"}, on : BOOLEAN, late : BOOLEAN]

WritersFit ==
  /\ writer \in [Writers -> Writings]
  /\ \A w \in Writers : writer[w].pc = "switch" =>
       writer[w].module \in Switched /\ (writer[w].on \/ writer[w].module \notin T!CORE_MODULES)

\* A writer that is late from now on is still a writer.
LEMMA LateWriter ==
  ASSUME NEW c \in Writings PROVE [c EXCEPT !.late = TRUE] \in Writings
BY DEF Writings

\* A step of one writer, which writes or ends, leaves the others where they were,
\* and a late mark is all that is put on them.
LEMMA WritersStep ==
  ASSUME WritersFit, NEW w \in Writers, T!Written(w) \/ T!Finish(w) \/ writer' = writer
  PROVE  /\ WritersFit'
         /\ T!Written(w) => writer'[w].pc = "invalidate"
         /\ \A v \in Writers : writer'[v].pc = "switch" => writer'[v] = writer[v]
         /\ \A v \in Writers : v # w => writer'[v] = writer[v]
<1> USE DEF WritersFit, Writings, T!IdleWriter
<1>1. CASE T!Written(w)
  <2>1. \A v \in Writers : v # w => writer'[v] = writer[v]
    BY <1>1 DEF T!Written
  <2>2. writer'[w] = [pc |-> "invalidate", op |-> "tenant", module |-> "none",
                      on |-> FALSE, late |-> FALSE]
    BY <1>1 DEF T!Written
  <2> QED
    BY <1>1, <2>1, <2>2 DEF T!Written
<1>4. T!Written(w) => writer'[w].pc = "invalidate"
  BY DEF T!Written
<1>5. T!Finish(w) => writer'[w].pc = "idle"
  BY DEF T!Finish
<1>2. CASE T!Finish(w)
  <2>1. ~T!Written(w)
    BY <1>2, <1>4, <1>5
  <2> QED
    BY <1>2, <2>1 DEF T!Finish
<1>3. CASE writer' = writer
  BY <1>3, <1>4
<1> QED
  BY <1>1, <1>2, <1>3

\* What the writers and the readers do keeps every variable of Tenancy in its type.
LEMMA TenancyTypeStep == T!TypeOK /\ T!Next => T!TypeOK'
<1> SUFFICES ASSUME T!TypeOK, T!Next PROVE T!TypeOK'
  OBVIOUS
<1> USE ConstantsAssumption DEF T!TypeOK, T!TenancyAssumption, T!Statuses, T!IdleWriter, T!Finish, T!Written
<1>w. WritersFit
  BY DEF WritersFit, Writings
<1>a. tenant # T!Absent => tenant.status # "ABSENT" \/ tenant.profile # 0
  BY DEF T!Absent
<1>1. ASSUME NEW w \in Writers, T!Update(w) PROVE T!TypeOK'
  <2>1. WritersFit'
    BY <1>1, <1>w, WritersStep DEF T!Update
  <2>2. tenant' \in [status : T!Statuses, profile : 0 .. MaxUpdates]
    BY <1>1 DEF T!Update
  <2>3. T!CORE_MODULES \subseteq enabled /\ tenant'.profile # 0
    BY <1>1 DEF T!Update
  <2> QED
    BY <1>1, <2>1, <2>2, <2>3 DEF T!Update, T!Absent, WritersFit, Writings
<1>2. ASSUME NEW w \in Writers, T!UpdateSettings(w) PROVE T!TypeOK'
  BY <1>2 DEF T!UpdateSettings
<1>3. ASSUME NEW w \in Writers, T!CompleteOnboarding(w) PROVE T!TypeOK'
  BY <1>3 DEF T!CompleteOnboarding, T!Absent
<1>4. ASSUME NEW w \in Writers, T!Purge(w) PROVE T!TypeOK'
  <2>1. WritersFit'
    BY <1>4, <1>w, WritersStep DEF T!Purge
  <2>2. tenant' = T!Absent /\ enabled' = {} /\ UNCHANGED <<cache, reader, outrun, excused>>
    BY <1>4 DEF T!Purge
  <2>3. T!Absent \in [status : T!Statuses, profile : 0 .. MaxUpdates]
    BY DEF T!Absent
  <2> QED
    BY <2>1, <2>2, <2>3 DEF WritersFit, Writings
<1>5. ASSUME NEW w \in Writers, NEW m \in Switched, NEW on \in BOOLEAN, T!Look(w, m, on)
      PROVE T!TypeOK'
  BY <1>5 DEF T!Look
<1>6. ASSUME NEW w \in Writers, T!Switch(w) PROVE T!TypeOK'
  <2>1. writer[w].module \in Switched /\ (writer[w].on \/ writer[w].module \notin T!CORE_MODULES)
    BY <1>6 DEF T!Switch
  <2>2. enabled' \subseteq T!MODULES \ T!comingSoon /\ T!CORE_MODULES \subseteq enabled'
    BY <1>6, <2>1 DEF T!Switch, T!AVAILABLE_MODULES
  <2>3. outrun' \in BOOLEAN
    BY <1>6 DEF T!Switch
  <2>4. WritersFit'
    <3>1. writer'[w].pc = "invalidate" /\ writer'[w] \in Writings
      BY <1>6 DEF T!Switch, Writings
    <3>2. \A v \in Writers : v # w => writer'[v] \in {writer[v], [writer[v] EXCEPT !.late = TRUE]}
      BY <1>6 DEF T!Switch
    <3>3. \A v \in Writers : [writer[v] EXCEPT !.late = TRUE] \in Writings
      BY <1>w, LateWriter DEF WritersFit
    <3>4. \A v \in Writers : writer'[v] \in Writings
      BY <1>w, <3>1, <3>2, <3>3 DEF WritersFit, Writings
    <3>5. writer' \in [Writers -> Writings]
      BY <1>6, <3>4 DEF T!Switch
    <3>6. ASSUME NEW v \in Writers, writer'[v].pc = "switch"
          PROVE writer'[v].module = writer[v].module /\ writer'[v].on = writer[v].on /\ writer[v].pc = "switch"
      BY <1>w, <3>1, <3>2, <3>6 DEF WritersFit, Writings
    <3> QED
      BY <1>w, <3>5, <3>6 DEF WritersFit, Writings
  <2> QED
    BY <1>6, <2>2, <2>3, <2>4 DEF T!Switch, WritersFit, Writings
<1>7. ASSUME NEW w \in Writers, T!Invalidate(w) PROVE T!TypeOK'
  BY <1>7 DEF T!Invalidate, T!Values, T!NoEntry
<1>8. ASSUME NEW w \in Writers, T!WriterFails(w) PROVE T!TypeOK'
  BY <1>8 DEF T!WriterFails
<1>9. ASSUME NEW r \in Readers, T!Miss(r) PROVE T!TypeOK'
  BY <1>9 DEF T!Miss
<1>10. ASSUME NEW r \in Readers, T!Load(r) PROVE T!TypeOK'
  <2>1. T!Loaded \in T!Values
    <3>1. /\ tenant.status \in T!Statuses /\ tenant.profile \in Nat
          /\ enabled \in SUBSET T!MODULES
      BY ConstantsAssumption
    <3> QED
      BY <3>1 DEF T!Loaded, T!Context, T!Values
  <2> QED
    BY <1>10, <2>1 DEF T!Load
<1>11. ASSUME NEW r \in Readers, T!Store(r) PROVE T!TypeOK'
  BY <1>11 DEF T!Store, T!Values, T!NoEntry, T!IdleReader
<1>12. ASSUME NEW r \in Readers, T!ReaderFails(r) PROVE T!TypeOK'
  BY <1>12 DEF T!ReaderFails, T!Values, T!NoEntry, T!IdleReader
<1>13. CASE T!Expire
  BY <1>13 DEF T!Expire, T!Values, T!NoEntry
<1> QED
  BY <1>1, <1>2, <1>3, <1>4, <1>5, <1>6, <1>7, <1>8, <1>9, <1>10, <1>11, <1>12, <1>13
  DEF T!Next

\* What the look of a writer found still holds of the modules that are on.
Standing(w) ==
  IF writer[w].on THEN T!missingDependencies(writer[w].module, enabled) = {}
  ELSE T!dependentsOf(writer[w].module, enabled) = {}

ChecksStand ==
  /\ T!Closed(enabled)
  /\ \A w \in Writers : writer[w].pc = "switch" /\ ~writer[w].late /\ tenant # T!Absent => Standing(w)

\* A switch whose check still stands keeps the modules that are on closed under
\* their dependencies.
LEMMA SwitchKeepsClosed ==
  ASSUME NEW w \in Writers, T!Closed(enabled), Standing(w), T!Switch(w)
  PROVE T!Closed(enabled')
BY DEF T!Closed, Standing, T!Switch, T!missingDependencies, T!dependentsOf

\* Until a switch has outrun a check, every writer that has looked has seen what is
\* still so, and the modules that are on are closed.
LEMMA ChecksStep == T!TypeOK /\ (outrun \/ ChecksStand) /\ T!Next => (outrun' \/ ChecksStand')
<1>o. ASSUME outrun, T!Next PROVE outrun'
  BY <1>o DEF T!Next, T!Update, T!UpdateSettings, T!CompleteOnboarding, T!Purge, T!Look, T!Switch,
         T!Invalidate, T!WriterFails, T!Miss, T!Load, T!Store, T!ReaderFails, T!Expire
<1> SUFFICES ASSUME T!TypeOK, ChecksStand, T!Next, ~outrun' PROVE ChecksStand'
  BY <1>o
<1> USE DEF ChecksStand, Standing, T!IdleWriter, T!Finish, T!Written
<1>w. WritersFit
  BY DEF T!TypeOK, WritersFit, Writings
<1>1. ASSUME NEW w \in Writers,
             T!Update(w) \/ T!UpdateSettings(w) \/ T!CompleteOnboarding(w)
             \/ T!Invalidate(w) \/ T!WriterFails(w)
      PROVE ChecksStand'
  <2>1. T!Written(w) \/ T!Finish(w)
    BY <1>1 DEF T!Update, T!UpdateSettings, T!CompleteOnboarding, T!Invalidate, T!WriterFails
  <2>2. \A v \in Writers : writer'[v].pc = "switch" => writer'[v] = writer[v]
    BY <2>1, <1>w, WritersStep
  <2>3. enabled' = enabled /\ (tenant' # T!Absent => tenant # T!Absent)
    BY <1>1 DEF T!Update, T!UpdateSettings, T!CompleteOnboarding, T!Invalidate, T!WriterFails
  <2> QED
    BY <2>2, <2>3
<1>2. ASSUME NEW w \in Writers, T!Purge(w) PROVE ChecksStand'
  BY <1>2 DEF T!Purge, T!Closed
<1>3. ASSUME NEW w \in Writers, NEW m \in Switched, NEW on \in BOOLEAN, T!Look(w, m, on)
      PROVE ChecksStand'
  BY <1>3 DEF T!TypeOK, T!Look
<1>4. ASSUME NEW w \in Writers, T!Switch(w) PROVE ChecksStand'
  <2>1. ~writer[w].late
    BY <1>4 DEF T!Switch
  <2>2. T!Closed(enabled')
    BY <1>4, <2>1, SwitchKeepsClosed DEF T!Switch
  <2>3. ASSUME NEW v \in Writers, writer'[v].pc = "switch", ~writer'[v].late
        PROVE writer'[v] = writer[v] /\ enabled' = enabled
    BY <1>4, <2>3 DEF T!Switch, T!TypeOK
  <2> QED
    BY <1>4, <2>2, <2>3 DEF T!Switch
<1>5. ASSUME NEW r \in Readers, T!Miss(r) \/ T!Load(r) \/ T!Store(r) \/ T!ReaderFails(r)
      PROVE ChecksStand'
  BY <1>5 DEF T!Miss, T!Load, T!Store, T!ReaderFails
<1>6. CASE T!Expire
  BY <1>6 DEF T!Expire
<1> QED
  BY <1>1, <1>2, <1>3, <1>4, <1>5, <1>6 DEF T!Next

\* A reader that is not late holds what the database says, or a deletion of the entry
\* is still to come.
FreshLoads ==
  /\ T!CacheIsFresh
  /\ \A r \in Readers : reader[r].pc = "store" /\ ~reader[r].late
       => reader[r].value = T!Loaded \/ T!Pending

\* Every copy of a tenant in the cache, and every copy on its way there, is
\* current, or its deletion is still to come.
LEMMA FreshStep == T!TypeOK /\ FreshLoads /\ T!Next => FreshLoads'
<1> SUFFICES ASSUME T!TypeOK, FreshLoads, T!Next PROVE FreshLoads'
  OBVIOUS
<1>w. WritersFit
  BY DEF T!TypeOK, WritersFit, Writings
<1> USE DEF FreshLoads, T!CacheIsFresh, T!Pending
<1>1. ASSUME NEW w \in Writers,
             T!Update(w) \/ T!UpdateSettings(w) \/ T!CompleteOnboarding(w) \/ T!Purge(w) \/ T!Switch(w)
      PROVE FreshLoads'
  <2>1. writer'[w].pc = "invalidate" /\ UNCHANGED <<cache, reader>>
    <3>1. CASE T!Switch(w)
      BY <1>w, <3>1 DEF T!Switch, T!IdleWriter, WritersFit, Writings
    <3>2. CASE ~T!Switch(w)
      BY <1>1, <1>w, <3>2, WritersStep
      DEF T!Update, T!UpdateSettings, T!CompleteOnboarding, T!Purge
    <3> QED
      BY <3>1, <3>2
  <2> QED
    BY <2>1
<1>2. ASSUME NEW w \in Writers, NEW m \in Switched, NEW on \in BOOLEAN, T!Look(w, m, on)
      PROVE FreshLoads'
  <2>1. T!Pending => T!Pending'
    BY <1>2 DEF T!Look, T!TypeOK, T!IdleWriter
  <2> QED
    BY <1>2, <2>1 DEF T!Look, T!Loaded
<1>3. ASSUME NEW w \in Writers, T!Invalidate(w) PROVE FreshLoads'
  BY <1>3 DEF T!Invalidate, T!TypeOK
<1>4. ASSUME NEW w \in Writers, T!WriterFails(w) PROVE FreshLoads'
  <2>1. CASE writer[w].pc = "invalidate"
    <3>1. excused'
      BY <1>4, <2>1 DEF T!WriterFails
    <3>2. \A r \in Readers : reader'[r].pc = "store" => reader'[r].late
      BY <1>4, <2>1 DEF T!WriterFails, T!TypeOK
    <3> QED
      BY <3>1, <3>2
  <2>2. CASE writer[w].pc # "invalidate"
    <3>1. T!Pending => T!Pending'
      BY <1>4, <1>w, <2>2, WritersStep DEF T!WriterFails
    <3>2. reader' = reader /\ (excused' = excused)
      BY <1>4, <2>2 DEF T!WriterFails, T!TypeOK
    <3> QED
      BY <1>4, <3>1, <3>2 DEF T!WriterFails, T!Loaded
  <2> QED
    BY <2>1, <2>2
<1>5. ASSUME NEW r \in Readers, T!Miss(r) \/ T!Load(r) \/ T!Store(r) \/ T!ReaderFails(r)
      PROVE FreshLoads'
  <2>1. T!Loaded' = T!Loaded /\ (T!Pending' <=> T!Pending)
    BY <1>5 DEF T!Miss, T!Load, T!Store, T!ReaderFails, T!Loaded
  <2>2. CASE T!Store(r)
    BY <2>1, <2>2 DEF T!Store, T!TypeOK, T!IdleReader
  <2>3. CASE ~T!Store(r)
    BY <1>5, <2>1, <2>3 DEF T!Miss, T!Load, T!ReaderFails, T!TypeOK, T!IdleReader
  <2> QED
    BY <2>2, <2>3
<1>6. CASE T!Expire
  <2>1. T!Loaded' = T!Loaded /\ (T!Pending' <=> T!Pending)
    BY <1>6 DEF T!Expire, T!Loaded
  <2> QED
    BY <1>6, <2>1 DEF T!Expire
<1> QED
  BY <1>1, <1>2, <1>3, <1>4, <1>5, <1>6 DEF T!Next

-----------------------------------------------------------------------------
(* Sessions: families of refresh tokens. *)

\* Marking tokens revoked or consumed changes neither their number nor their families.
LEMMA RevokedKeeps ==
  ASSUME S!TypeOK, NEW X, tokens' = S!Revoked(X)
  PROVE  /\ tokens' \in Seq(S!Rows) /\ S!Tokens' = S!Tokens
         /\ \A t \in S!Tokens : /\ S!Family(t)' = S!Family(t)
                                /\ tokens'[t].consumed = tokens[t].consumed
                                /\ tokens'[t].revoked = (tokens[t].revoked \/ t \in X)
<1>1. S!Tokens = 1 .. Len(tokens) /\ Len(tokens) \in Nat
  BY DEF S!TypeOK, S!Tokens
<1>2. \A t \in S!Tokens : tokens[t] \in S!Rows
  BY DEF S!TypeOK, S!Tokens
<1>3. \A t \in S!Tokens :
        tokens'[t] = IF t \in X THEN [tokens[t] EXCEPT !.revoked = TRUE] ELSE tokens[t]
  BY DEF S!Revoked
<1>4. \A t \in S!Tokens : tokens'[t] \in S!Rows
  BY <1>2, <1>3 DEF S!Rows
<1>5. tokens' \in Seq(S!Rows) /\ Len(tokens') = Len(tokens)
  BY <1>1, <1>4 DEF S!Revoked
<1> QED
  BY <1>1, <1>2, <1>3, <1>5 DEF S!Family, S!Tokens, S!Rows

\* Consuming one token leaves the others, the families and the revocations alone.
LEMMA ConsumedKeeps ==
  ASSUME S!TypeOK, NEW x \in S!Tokens, tokens' = [tokens EXCEPT ![x].consumed = TRUE]
  PROVE  /\ tokens' \in Seq(S!Rows) /\ S!Tokens' = S!Tokens
         /\ \A t \in S!Tokens : /\ S!Family(t)' = S!Family(t)
                                /\ tokens'[t].consumed = (tokens[t].consumed \/ t = x)
                                /\ tokens'[t].revoked = tokens[t].revoked
<1>1. S!Tokens = 1 .. Len(tokens) /\ Len(tokens) \in Nat
  BY DEF S!TypeOK, S!Tokens
<1>2. \A t \in S!Tokens : tokens[t] \in S!Rows
  BY DEF S!TypeOK, S!Tokens
<1>3. tokens' = [s \in S!Tokens |-> IF s = x THEN [tokens[s] EXCEPT !.consumed = TRUE] ELSE tokens[s]]
  <2>1. tokens \in [S!Tokens -> S!Rows]
    BY <1>1 DEF S!TypeOK
  <2> QED
    BY <2>1
<1>4. \A t \in S!Tokens : tokens'[t] \in S!Rows
  BY <1>2, <1>3 DEF S!Rows
<1>5. tokens' \in Seq(S!Rows) /\ Len(tokens') = Len(tokens)
  <2> DEFINE row == [tokens[x] EXCEPT !.consumed = TRUE]
  <2>1. tokens' = [tokens EXCEPT ![x] = row]
    OBVIOUS
  <2>2. row \in S!Rows
    BY <1>2 DEF S!Rows
  <2> QED
    BY <1>1, <2>1, <2>2, ExceptSeq DEF S!TypeOK
<1> QED
  BY <1>1, <1>2, <1>3, <1>5 DEF S!Family, S!Tokens, S!Rows

\* The token a request issues is the last one, of the family of the token presented or
\* of a family of its own.
LEMMA IssueAdds ==
  ASSUME S!TypeOK, NEW r \in Requests, S!Issue(r), NEW new, new = Len(tokens) + 1
  PROVE  /\ tokens' \in Seq(S!Rows) /\ S!Tokens' = S!Tokens \cup {new}
         /\ new \notin S!Tokens /\ new \in Nat \ {0}
         /\ \A t \in S!Tokens : tokens'[t] = tokens[t] /\ S!Family(t)' = S!Family(t)
         /\ S!Family(new)' = IF request[r].op = "login" THEN new ELSE S!Family(request[r].token)
         /\ S!Live(new)'
<1> DEFINE row == [family |-> IF request[r].token = S!None THEN new ELSE S!Family(request[r].token),
                   consumed |-> FALSE, revoked |-> FALSE]
<1>1. S!Tokens = 1 .. Len(tokens) /\ Len(tokens) \in Nat
  BY DEF S!TypeOK, S!Tokens
<1>2. /\ request[r].op \in {"login", "refresh"}
      /\ request[r].op = "refresh" => request[r].token \in S!Tokens
      /\ request[r].op = "login" <=> request[r].token = S!None
  BY <1>1 DEF S!Issue, S!TypeOK, S!Fits, S!None
<1>3. row \in S!Rows
  BY <1>1, <1>2 DEF S!Rows, S!TypeOK, S!Family
<1>4. tokens' = Append(tokens, row)
  BY DEF S!Issue
<1> HIDE DEF row
<1>5. tokens' \in Seq(S!Rows) /\ Len(tokens') = new /\ tokens'[new] = row
      /\ \A t \in S!Tokens : tokens'[t] = tokens[t]
  BY <1>1, <1>3, <1>4 DEF S!TypeOK
<1>6. S!Tokens' = S!Tokens \cup {new} /\ new \notin S!Tokens /\ new \in Nat \ {0}
  BY <1>1, <1>5 DEF S!Tokens
<1> QED
  BY <1>2, <1>5, <1>6 DEF S!Family, S!Live, row

\* One request moves on, and no token is lost.
LEMMA RequestStep ==
  ASSUME S!TypeOK, NEW r \in Requests, NEW q \in S!Rounds, request' = [request EXCEPT ![r] = q],
         S!Tokens \subseteq S!Tokens', \A t \in S!Tokens : S!Family(t)' = S!Family(t), S!Fits(q)'
  PROVE  request' \in [Requests -> S!Rounds] /\ \A p \in Requests : S!Fits(request[p])'
<1>1. request' \in [Requests -> S!Rounds]
  BY DEF S!TypeOK
<1>2. ASSUME NEW p \in Requests PROVE S!Fits(request[p])'
  <2>1. CASE p = r
    <3>1. request'[p] = q
      BY <2>1 DEF S!TypeOK
    <3> QED
      BY <3>1 DEF S!Fits
  <2>2. CASE p # r
    <3>1. request'[p] = request[p] /\ S!Fits(request[p])
      BY <2>2 DEF S!TypeOK
    <3> QED
      BY <3>1 DEF S!Fits
  <2> QED
    BY <2>1, <2>2
<1> QED
  BY <1>1, <1>2

\* A request is over.
LEMMA IdleStep ==
  ASSUME S!TypeOK, NEW r \in Requests, request' = [request EXCEPT ![r] = S!Idle],
         S!Tokens' = S!Tokens, \A t \in S!Tokens : S!Family(t)' = S!Family(t)
  PROVE  request' \in [Requests -> S!Rounds] /\ \A p \in Requests : S!Fits(request[p])'
<1>1. S!Idle \in S!Rounds /\ S!Fits(S!Idle)'
  BY DEF S!Idle, S!Rounds, S!Fits, S!None
<1> QED
  BY <1>1, RequestStep

\* The work of a request is done: it answers, or is over when nobody waits.
LEMMA DoneStep ==
  ASSUME S!TypeOK, NEW r \in Requests, NEW new \in Nat, S!Done(r, new), S!Tokens \subseteq S!Tokens',
         new \in S!Tokens' \cup {S!None}, request[r].op # "none", request[r].pc # "idle",
         \A t \in S!Tokens : S!Family(t)' = S!Family(t),
         request[r].op \in {"login", "refresh"} <=> new # S!None,
         request[r].op = "refresh" => S!Family(new)' = S!Family(request[r].token)
  PROVE  request' \in [Requests -> S!Rounds] /\ \A p \in Requests : S!Fits(request[p])'
<1>1. request[r] \in S!Rounds /\ S!Fits(request[r])
  BY DEF S!TypeOK
<1>2. CASE request[r].tab = S!Gone
  <2>1. S!Idle \in S!Rounds /\ S!Fits(S!Idle)'
    BY DEF S!Idle, S!Rounds, S!Fits, S!None
  <2>2. request' = [request EXCEPT ![r] = S!Idle]
    BY <1>2 DEF S!Done
  <2> QED
    BY <2>1, <2>2, RequestStep
<1>3. CASE request[r].tab # S!Gone
  <2>1. PICK q : q = [request[r] EXCEPT !.pc = "answer", !.new = new]
    OBVIOUS
  <2>2. q \in S!Rounds
    BY <1>1, <2>1 DEF S!Rounds
  <2>3. /\ q.op = request[r].op /\ q.tab = request[r].tab /\ q.token = request[r].token
        /\ q.pc = "answer" /\ q.new = new
    BY <1>1, <2>1 DEF S!Rounds
  <2>4. S!Fits(q)'
    <3>1. q.op = "refresh" => q.token \in S!Tokens /\ S!Family(q.token)' = S!Family(q.token)
      BY <1>1, <2>3 DEF S!Fits
    <3> QED
      BY <1>1, <1>3, <2>3, <3>1 DEF S!Fits
  <2>5. request' = [request EXCEPT ![r] = q]
    BY <1>3, <2>1 DEF S!Done
  <2> QED
    BY <2>2, <2>4, <2>5, RequestStep
<1> QED
  BY <1>2, <1>3

\* The requests of the tabs and their steps keep every variable of Sessions in its type.
LEMMA SendType ==
  ASSUME S!TypeOK, NEW r \in Requests, NEW tab \in Tabs, NEW op, NEW pc, NEW t \in S!Tokens \cup {S!None},
         S!Send(r, tab, op, pc, t),
         \/ op = "login" /\ pc = "issue" /\ t = S!None
         \/ op = "refresh" /\ pc = "read" /\ t # S!None
         \/ op = "logout" /\ (IF t = S!None THEN pc = "answer" ELSE pc = "revoke")
         \/ op = "password" /\ pc = "revoke" /\ t = S!None
  PROVE  S!TypeOK'
<1> DEFINE q == [op |-> op, pc |-> pc, tab |-> tab, token |-> t, new |-> S!None]
<1>1. S!Tokens' = S!Tokens /\ S!Tokens \subseteq Nat
  BY DEF S!TypeOK, S!Tokens, S!Send
<1>0. tab # S!Gone
  BY ConstantsAssumption DEF S!SessionsAssumption
<1>2. q \in S!Rounds
  BY <1>1 DEF S!Rounds, S!None
<1>3. request' = [request EXCEPT ![r] = q]
  BY DEF S!Send
<1>4. S!Fits(q)'
  BY <1>0, <1>1 DEF S!Fits
<1>5. request' \in [Requests -> S!Rounds] /\ \A p \in Requests : S!Fits(request[p])'
  <2> HIDE DEF q
  <2>1. \A s \in S!Tokens : S!Family(s)' = S!Family(s)
    BY DEF S!Send, S!Family
  <2> QED
    BY <1>1, <1>2, <1>3, <1>4, <2>1, RequestStep
<1>6. disturbed' \subseteq disturbed \cup (IF t = S!None THEN {} ELSE {S!Family(t)})
  BY DEF S!Send, S!Presented
<1>7. S!Families' = S!Families /\ \A s \in S!Tokens : S!Family(s)' = S!Family(s)
  BY <1>1 DEF S!Send, S!Families, S!Family
<1> QED
  BY <1>1, <1>5, <1>6, <1>7 DEF S!TypeOK, S!Send, S!Families, S!Family

\* A step of the API that leaves the number of tokens and their families alone.
LEMMA SessionsFrame ==
  ASSUME S!TypeOK, tokens' \in Seq(S!Rows), S!Tokens' = S!Tokens,
         \A t \in S!Tokens : S!Family(t)' = S!Family(t),
         cookie' \in [Browsers -> S!Tokens \cup {S!None}],
         request' \in [Requests -> S!Rounds], \A r \in Requests : S!Fits(request[r])',
         reused' \cup ended' \cup forked' \cup disturbed' \subseteq S!Families
  PROVE  S!TypeOK'
<1>1. S!Families' = S!Families
  BY DEF S!Families
<1>2. \A t \in S!Tokens : S!Family(t) \in S!Tokens
  BY DEF S!TypeOK, S!Tokens
<1>3. \A t \in S!Tokens : S!Family(t)' \in 1 .. t /\ S!Family(S!Family(t))' = S!Family(t)'
  <2> TAKE t \in S!Tokens
  <2>1. S!Family(t)' = S!Family(t) /\ S!Family(t) \in S!Tokens
    BY <1>2
  <2>2. S!Family(S!Family(t))' = S!Family(S!Family(t))
    BY <2>1 DEF S!Family
  <2> QED
    BY <2>1, <2>2 DEF S!TypeOK
<1> QED
  BY <1>1, <1>3 DEF S!TypeOK

\* The tabs, the API and the answers keep every variable of Sessions in its type,
\* and every token a request holds among the tokens that were issued.
LEMMA SessionsTypeStep == S!TypeOK /\ S!Next => S!TypeOK'
<1> SUFFICES ASSUME S!TypeOK, S!Next PROVE S!TypeOK'
  OBVIOUS
<1>0. S!Tokens \subseteq Nat \ {0} /\ \A t \in S!Tokens : S!Family(t) \in S!Families
  BY DEF S!TypeOK, S!Tokens, S!Families
<1>1. ASSUME NEW r \in Requests, NEW tab \in Tabs,
             S!Login(r, tab) \/ S!Refresh(r, tab) \/ S!Logout(r, tab) \/ S!ChangePassword(r, tab)
      PROVE S!TypeOK'
  <2>1. cookie[BrowserOf[tab]] \in S!Tokens \cup {S!None} /\ S!None \in S!Tokens \cup {S!None}
    BY ConstantsAssumption DEF S!TypeOK, S!SessionsAssumption
  <2>2. CASE S!Login(r, tab)
    BY <2>1, <2>2, SendType DEF S!Login
  <2>3. CASE S!Refresh(r, tab)
    BY <2>1, <2>3, SendType DEF S!Refresh
  <2>4. CASE S!Logout(r, tab)
    BY <2>1, <2>4, SendType DEF S!Logout
  <2>5. CASE S!ChangePassword(r, tab)
    BY <2>1, <2>5, SendType DEF S!ChangePassword
  <2> QED
    BY <1>1, <2>2, <2>3, <2>4, <2>5
<1>i. S!Idle \in S!Rounds
  BY DEF S!Idle, S!Rounds, S!None
<1>m. \A r \in Requests : S!Missed(r) \subseteq S!Families
  BY <1>0 DEF S!Missed, S!TypeOK, S!Fits
<1>2. ASSUME NEW tab \in Tabs, S!Reload(tab) PROVE S!TypeOK'
  <2>1. request' \in [Requests -> S!Rounds] /\ \A r \in Requests : S!Fits(request[r])'
    <3>1. \A t \in S!Tokens : S!Family(t)' = S!Family(t) /\ S!Tokens' = S!Tokens
      BY <1>2 DEF S!Reload, S!Family, S!Tokens
    <3>2. ASSUME NEW r \in Requests PROVE request'[r] \in S!Rounds /\ S!Fits(request[r])'
      <4>1. request[r] \in S!Rounds /\ S!Fits(request[r])
        BY DEF S!TypeOK
      <4>2. CASE request'[r] = request[r]
        BY <3>1, <4>1, <4>2 DEF S!Fits
      <4>3. CASE request'[r] = S!Idle
        BY <1>i, <4>3 DEF S!Idle, S!Fits, S!None
      <4>4. CASE request[r].pc # "answer" /\ request[r].tab # S!Gone
                 /\ request'[r] = [request[r] EXCEPT !.tab = S!Gone]
        <5>1. /\ request'[r] \in S!Rounds /\ request'[r].pc = request[r].pc /\ request'[r].op = request[r].op
              /\ request'[r].token = request[r].token /\ request'[r].new = request[r].new
              /\ request[r] # S!Idle
          BY <4>1, <4>4 DEF S!Rounds, S!Idle
        <5> QED
          BY <3>1, <4>1, <4>4, <5>1 DEF S!Fits, S!Idle
      <4> QED
        BY <1>2, <4>2, <4>3, <4>4, ConstantsAssumption DEF S!Reload, S!SessionsAssumption
    <3> QED
      BY <1>2, <3>2 DEF S!Reload
  <2>2. disturbed' \subseteq S!Families
    BY <1>2, <1>m DEF S!Reload, S!TypeOK
  <2> QED
    BY <1>2, <2>1, <2>2, SessionsFrame DEF S!Reload, S!TypeOK, S!Tokens, S!Family
<1>3. ASSUME NEW r \in Requests, S!Read(r) PROVE S!TypeOK'
  <2>1. request' \in [Requests -> S!Rounds] /\ \A p \in Requests : S!Fits(request[p])'
    <3>1. PICK q : request' = [request EXCEPT ![r] = q] /\ \E pc \in {"reused", "consume"} :
                     q = [request[r] EXCEPT !.pc = pc]
      BY <1>3 DEF S!Read
    <3>2. request[r] \in S!Rounds /\ S!Fits(request[r]) /\ request[r].op = "refresh"
      BY <1>3 DEF S!Read, S!TypeOK
    <3>3. S!Tokens' = S!Tokens /\ \A t \in S!Tokens : S!Family(t)' = S!Family(t)
      BY <1>3 DEF S!Read, S!Tokens, S!Family
    <3>4. q \in S!Rounds /\ S!Fits(q)'
      BY <1>3, <3>1, <3>2, <3>3 DEF S!Read, S!Rounds, S!Fits, S!Idle
    <3> QED
      BY <3>1, <3>3, <3>4, RequestStep
  <2> QED
    BY <1>3, <2>1, SessionsFrame DEF S!Read, S!TypeOK, S!Tokens, S!Family
<1>4. ASSUME NEW r \in Requests, S!EndFamily(r) PROVE S!TypeOK'
  <2>1. PICK X : tokens' = S!Revoked(X)
    BY <1>4 DEF S!EndFamily
  <2>2. request' \in [Requests -> S!Rounds] /\ \A p \in Requests : S!Fits(request[p])'
    BY <1>4, <2>1, RevokedKeeps, IdleStep DEF S!EndFamily
  <2>3. reused' \cup ended' \subseteq S!Families
    BY <1>4, <1>0 DEF S!EndFamily, S!TypeOK, S!Fits, S!Quiet
  <2> QED
    BY <1>4, <2>1, <2>2, <2>3, RevokedKeeps, SessionsFrame DEF S!EndFamily, S!TypeOK
<1>5. ASSUME NEW r \in Requests, S!Consume(r) PROVE S!TypeOK'
  <2>1. request[r].token \in S!Tokens
    BY <1>5 DEF S!Consume, S!TypeOK, S!Fits
  <2>2. tokens' = [tokens EXCEPT ![request[r].token].consumed = TRUE]
    BY <1>5 DEF S!Consume
  <2>3. request' \in [Requests -> S!Rounds] /\ \A p \in Requests : S!Fits(request[p])'
    <3>1. PICK q : request' = [request EXCEPT ![r] = q] /\ q = [request[r] EXCEPT !.pc = "issue"]
      BY <1>5 DEF S!Consume
    <3>2. /\ request[r] \in S!Rounds /\ S!Fits(request[r])
          /\ request[r].op = "refresh" /\ request[r].pc = "consume"
      BY <1>5 DEF S!Consume, S!TypeOK
    <3>3. S!Tokens' = S!Tokens /\ \A t \in S!Tokens : S!Family(t)' = S!Family(t)
      BY <2>1, <2>2, ConsumedKeeps
    <3>4. q \in S!Rounds /\ S!Fits(q)'
      BY <3>1, <3>2, <3>3 DEF S!Rounds, S!Fits, S!Idle
    <3> QED
      BY <3>1, <3>3, <3>4, RequestStep
  <2>4. forked' \subseteq S!Families
    BY <1>5, <1>0, <2>1 DEF S!Consume, S!TypeOK
  <2> QED
    BY <1>5, <2>1, <2>2, <2>3, <2>4, ConsumedKeeps, SessionsFrame DEF S!Consume, S!TypeOK
<1>6. ASSUME NEW r \in Requests, S!RevokeOne(r) \/ S!RevokeAll(r) PROVE S!TypeOK'
  <2>1. PICK X : tokens' = S!Revoked(X)
    BY <1>6 DEF S!RevokeOne, S!RevokeAll
  <2>2. request' \in [Requests -> S!Rounds] /\ \A p \in Requests : S!Fits(request[p])'
    <3>1. S!Tokens' = S!Tokens /\ \A t \in S!Tokens : S!Family(t)' = S!Family(t)
      BY <2>1, RevokedKeeps
    <3>2. request[r].op \in {"logout", "password"} /\ request[r].pc = "revoke" /\ S!Done(r, S!None)
      BY <1>6 DEF S!RevokeOne, S!RevokeAll
    <3> QED
      BY <3>1, <3>2, DoneStep DEF S!None
  <2>3. ended' \cup disturbed' \subseteq S!Families
    BY <1>6, <1>0 DEF S!RevokeOne, S!RevokeAll, S!TypeOK, S!Quiet
  <2> QED
    BY <1>6, <2>1, <2>2, <2>3, RevokedKeeps, SessionsFrame DEF S!RevokeOne, S!RevokeAll, S!TypeOK
<1>7. ASSUME NEW r \in Requests, S!Issue(r) PROVE S!TypeOK'
  <2>1. PICK new : new = Len(tokens) + 1
    OBVIOUS
  <2>2. request' \in [Requests -> S!Rounds] /\ \A p \in Requests : S!Fits(request[p])'
    <3>1. request[r].op # "none" /\ request[r].pc # "idle" /\ S!Done(r, new)
      BY <1>7, <2>1 DEF S!Issue, S!TypeOK, S!Fits, S!Idle
    <3>2. /\ S!Tokens \subseteq S!Tokens' /\ new \in S!Tokens' /\ new \in Nat \ {0}
          /\ \A t \in S!Tokens : S!Family(t)' = S!Family(t)
          /\ request[r].op = "refresh" => S!Family(new)' = S!Family(request[r].token)
      BY <1>7, <2>1, IssueAdds
    <3>3. request[r].op \in {"login", "refresh"}
      BY <1>7 DEF S!Issue, S!TypeOK, S!Fits
    <3> QED
      BY <3>1, <3>2, <3>3, DoneStep DEF S!None
  <2>4. S!Families \subseteq S!Families'
    BY <1>7, <2>1, IssueAdds DEF S!Families
  <2>5. \A t \in S!Tokens' : S!Family(t)' \in 1 .. t /\ S!Family(S!Family(t))' = S!Family(t)'
    <3>1. \A t \in S!Tokens : S!Family(t) \in S!Tokens
      BY DEF S!TypeOK, S!Tokens
    <3>2. \A t \in S!Tokens : S!Family(t)' \in 1 .. t /\ S!Family(S!Family(t))' = S!Family(t)'
      <4> TAKE t \in S!Tokens
      <4>1. S!Family(t)' = S!Family(t) /\ S!Family(t) \in S!Tokens
        BY <1>7, <2>1, <3>1, IssueAdds
      <4>2. S!Family(S!Family(t))' = S!Family(S!Family(t))
        BY <1>7, <2>1, <4>1, IssueAdds DEF S!Family
      <4> QED
        BY <4>1, <4>2 DEF S!TypeOK
    <3>3. S!Family(new)' \in 1 .. new /\ S!Family(S!Family(new))' = S!Family(new)'
      <4>1. CASE request[r].op = "login"
        <5>1. S!Family(new)' = new /\ new \in Nat \ {0}
          BY <1>7, <2>1, <4>1, IssueAdds
        <5> QED
          BY <5>1 DEF S!Family
      <4>2. CASE request[r].op # "login"
        <5>1. request[r].token \in S!Tokens
          BY <1>7, <4>2 DEF S!Issue, S!TypeOK, S!Fits
        <5> DEFINE f == S!Family(request[r].token)
        <5>2. f \in S!Tokens /\ S!Family(f) = f /\ f \in Nat \ {0} /\ f < new
          BY <3>1, <5>1, <2>1 DEF S!TypeOK, S!Tokens
        <5>3. tokens'[new].family = f
          BY <1>7, <2>1, <4>2, IssueAdds DEF S!Family
        <5>4. tokens'[f].family = f
          BY <1>7, <2>1, <5>2, IssueAdds DEF S!Family
        <5>5. new \in Nat
          BY <1>7, <2>1, IssueAdds
        <5> QED
          BY <5>2, <5>3, <5>4, <5>5 DEF S!Family
      <4> QED
        BY <4>1, <4>2
    <3> QED
      BY <1>7, <2>1, <3>2, <3>3, IssueAdds
  <2> QED
    BY <1>7, <2>1, <2>2, <2>4, <2>5, IssueAdds DEF S!Issue, S!TypeOK
<1>8. ASSUME NEW r \in Requests, S!Answer(r) PROVE S!TypeOK'
  <2>1. request' \in [Requests -> S!Rounds] /\ \A p \in Requests : S!Fits(request[p])'
    BY <1>8, IdleStep DEF S!Answer, S!Tokens, S!Family
  <2>2. cookie' \in [Browsers -> S!Tokens \cup {S!None}]
    BY <1>8 DEF S!Answer, S!TypeOK, S!Fits
  <2> QED
    BY <1>8, <2>1, <2>2, SessionsFrame DEF S!Answer, S!TypeOK, S!Tokens, S!Family
<1>9. ASSUME NEW r \in Requests, S!Fail(r) PROVE S!TypeOK'
  <2>1. request' \in [Requests -> S!Rounds] /\ \A p \in Requests : S!Fits(request[p])'
    BY <1>9, IdleStep DEF S!Fail, S!Tokens, S!Family
  <2>2. disturbed' \subseteq S!Families
    BY <1>9, <1>m DEF S!Fail, S!TypeOK
  <2> QED
    BY <1>9, <2>1, <2>2, SessionsFrame DEF S!Fail, S!TypeOK, S!Tokens, S!Family
<1> QED
  BY <1>1, <1>2, <1>3, <1>4, <1>5, <1>6, <1>7, <1>8, <1>9 DEF S!Next

\* Nothing of the family can be rotated and no rotation is about to extend it.
Rotates(r) == request[r].op = "refresh" /\ request[r].pc \in {"consume", "issue"}

Dead(f) ==
  /\ \A t \in S!Tokens : S!Family(t) = f => ~S!Live(t)
  /\ \A r \in Requests : Rotates(r) => S!Family(request[r].token) # f

EndedDead == \A f \in ended : Dead(f)

\* A request whose work is done rotates no longer.
LEMMA DoneRotates ==
  ASSUME S!TypeOK, NEW r \in Requests, NEW new, S!Done(r, new)
  PROVE  \A q \in Requests : /\ q # r => request'[q] = request[q]
                             /\ q = r => request'[q].pc \in {"idle", "answer"}
                             /\ Rotates(q)' => Rotates(q) /\ request'[q] = request[q]
<1>1. \A q \in Requests : q # r => request'[q] = request[q]
  BY DEF S!Done, S!TypeOK
<1>2. request'[r].pc \in {"idle", "answer"}
  BY DEF S!Done, S!TypeOK, S!Rounds, S!Idle
<1>3. ~Rotates(r)'
  BY <1>2 DEF Rotates
<1> QED
  BY <1>1, <1>2, <1>3 DEF Rotates

\* Revoking every token of a family that no rotation is at work in leaves it dead.
LEMMA QuietIsDead ==
  ASSUME S!TypeOK, NEW X \in SUBSET S!Tokens, NEW f \in S!Quiet(X), tokens' = S!Revoked(X),
         \A t \in S!Tokens : S!Family(t) = f => t \in X,
         \A r \in Requests : Rotates(r)' => Rotates(r) /\ request'[r].token = request[r].token
  PROVE  Dead(f)'
<1>1. \A r \in Requests : Rotates(r) => S!Family(request[r].token) # f
  BY DEF S!Quiet, S!Rotating, S!InFlight, Rotates
<1>2. \A r \in Requests : Rotates(r) => request[r].token \in S!Tokens
  BY DEF S!TypeOK, S!Fits, Rotates
<1>3. S!Tokens' = S!Tokens /\ \A t \in S!Tokens : S!Family(t)' = S!Family(t)
  BY RevokedKeeps
<1>4. ASSUME NEW r \in Requests, Rotates(r)' PROVE S!Family(request[r].token)' # f
  BY <1>1, <1>2, <1>3, <1>4 DEF S!Family
<1>5. ASSUME NEW t \in S!Tokens', S!Family(t)' = f PROVE ~S!Live(t)'
  BY <1>3, <1>5, RevokedKeeps DEF S!Live
<1> QED
  BY <1>4, <1>5 DEF Dead

\* A family that is dead stays so in a step that revokes or consumes tokens and lets no
\* further request rotate.
LEMMA DeadFrame ==
  ASSUME S!TypeOK, NEW f, Dead(f), S!Tokens' = S!Tokens,
         \A t \in S!Tokens : S!Family(t)' = S!Family(t) /\ (S!Live(t)' => S!Live(t)),
         \A r \in Requests : Rotates(r)' => Rotates(r) /\ request'[r].token = request[r].token
  PROVE  Dead(f)'
<1>1. \A r \in Requests : Rotates(r) => request[r].token \in S!Tokens
  BY DEF S!TypeOK, S!Fits, Rotates
<1>2. ASSUME NEW r \in Requests, Rotates(r)' PROVE S!Family(request[r].token)' # f
  BY <1>1, <1>2 DEF S!Family, Dead
<1> QED
  BY <1>2 DEF Dead

\* No step brings a family back that was ended: its tokens stay revoked, and no
\* request is about to issue one more.
LEMMA EndedStep == S!TypeOK /\ EndedDead /\ S!Next => EndedDead'
<1> SUFFICES ASSUME S!TypeOK, EndedDead, S!Next PROVE EndedDead'
  OBVIOUS
<1>t. S!TypeOK'
  BY SessionsTypeStep
<1>f. \A t \in S!Tokens : S!Family(t) \in S!Families
  BY DEF S!Families
<1>1. ASSUME NEW r \in Requests, NEW tab \in Tabs,
             S!Login(r, tab) \/ S!Refresh(r, tab) \/ S!Logout(r, tab) \/ S!ChangePassword(r, tab)
      PROVE EndedDead'
  <2>1. UNCHANGED <<tokens, ended>> /\ \A q \in Requests : Rotates(q)' => Rotates(q) /\ request'[q] = request[q]
    BY <1>1 DEF S!Login, S!Refresh, S!Logout, S!ChangePassword, S!Send, S!TypeOK, Rotates
  <2> QED
    BY <2>1, DeadFrame DEF EndedDead, S!Tokens, S!Family, S!Live
<1>2. ASSUME NEW tab \in Tabs, S!Reload(tab) PROVE EndedDead'
  <2>1. UNCHANGED <<tokens, ended>> /\ \A q \in Requests : Rotates(q)' => Rotates(q) /\ request'[q].token = request[q].token
    BY <1>2 DEF S!Reload, S!TypeOK, S!Rounds, S!Idle, Rotates
  <2> QED
    BY <2>1, DeadFrame DEF EndedDead, S!Tokens, S!Family, S!Live
<1>3. ASSUME NEW r \in Requests, S!Read(r) PROVE EndedDead'
  <2>1. UNCHANGED <<tokens, ended>>
    BY <1>3 DEF S!Read
  <2>2. request[r].token \in S!Tokens
    BY <1>3 DEF S!Read, S!TypeOK, S!Fits
  <2>3. \A q \in Requests : Rotates(q)' =>
          request'[q].token = request[q].token /\ (Rotates(q) \/ (q = r /\ S!Live(request[r].token)))
    BY <1>3 DEF S!Read, S!TypeOK, S!Rounds, Rotates, S!Live
  <2> QED
    BY <2>1, <2>2, <2>3 DEF EndedDead, Dead, S!Tokens, S!Family, S!Live
<1>4. ASSUME NEW r \in Requests, S!EndFamily(r) PROVE EndedDead'
  <2>1. PICK f : f = S!Family(request[r].token)
    OBVIOUS
  <2>2. PICK X : X = { s \in S!Tokens : S!Family(s) = f }
    OBVIOUS
  <2>3. tokens' = S!Revoked(X) /\ ended' = ended \cup S!Quiet(X)
    BY <1>4, <2>1, <2>2 DEF S!EndFamily
  <2>4. \A q \in Requests : Rotates(q)' => Rotates(q) /\ request'[q].token = request[q].token
    BY <1>4 DEF S!EndFamily, S!TypeOK, S!Idle, Rotates
  <2>5. \A g \in S!Quiet(X) : Dead(g)'
    <3> TAKE g \in S!Quiet(X)
    <3>1. g = f
      BY <2>2 DEF S!Quiet
    <3> QED
      BY <2>2, <2>3, <2>4, <3>1, QuietIsDead
  <2>6. \A g \in ended : Dead(g)'
    BY <2>3, <2>4, RevokedKeeps, DeadFrame DEF EndedDead, S!Live
  <2> QED
    BY <2>3, <2>5, <2>6 DEF EndedDead
<1>5. ASSUME NEW r \in Requests, S!Consume(r) PROVE EndedDead'
  <2>1. request[r].token \in S!Tokens
    BY <1>5 DEF S!Consume, S!TypeOK, S!Fits
  <2>2. tokens' = [tokens EXCEPT ![request[r].token].consumed = TRUE] /\ ended' = ended
    BY <1>5 DEF S!Consume
  <2>3. \A q \in Requests : Rotates(q)' => Rotates(q) /\ request'[q].token = request[q].token
    BY <1>5 DEF S!Consume, S!TypeOK, S!Rounds, Rotates
  <2>4. /\ S!Tokens' = S!Tokens
        /\ \A t \in S!Tokens : S!Family(t)' = S!Family(t) /\ (S!Live(t)' => S!Live(t))
    BY <2>1, <2>2, ConsumedKeeps DEF S!Live
  <2> QED
    BY <2>2, <2>3, <2>4, DeadFrame DEF EndedDead
<1>6. ASSUME NEW r \in Requests, S!RevokeOne(r) \/ S!RevokeAll(r) PROVE EndedDead'
  <2>1. PICK X \in SUBSET S!Tokens : /\ tokens' = S!Revoked(X)
                                     /\ \/ ended' = ended
                                        \/ X = S!Tokens /\ ended' = ended \cup S!Quiet(X)
    <3>1. CASE S!RevokeOne(r)
      <4>1. {request[r].token} \in SUBSET S!Tokens
        BY <3>1 DEF S!RevokeOne, S!TypeOK, S!Fits
      <4> QED
        BY <3>1, <4>1 DEF S!RevokeOne
    <3>2. CASE S!RevokeAll(r)
      BY <3>2 DEF S!RevokeAll
    <3> QED
      BY <1>6, <3>1, <3>2
  <2>2. \A q \in Requests : Rotates(q)' => Rotates(q) /\ request'[q].token = request[q].token
    BY <1>6, DoneRotates DEF S!RevokeOne, S!RevokeAll, S!TypeOK
  <2>3. \A g \in ended : Dead(g)'
    BY <2>1, <2>2, RevokedKeeps, DeadFrame DEF EndedDead, S!Live
  <2>4. X = S!Tokens => \A g \in S!Quiet(X) : Dead(g)'
    BY <2>1, <2>2, QuietIsDead
  <2> QED
    BY <2>1, <2>3, <2>4 DEF EndedDead
<1>7. ASSUME NEW r \in Requests, S!Issue(r) PROVE EndedDead'
  <2>1. PICK new : new = Len(tokens) + 1
    OBVIOUS
  <2>2. ended' = ended
    BY <1>7 DEF S!Issue
  <2>3. \A q \in Requests : Rotates(q)' => Rotates(q) /\ request'[q].token = request[q].token
    BY <1>7, DoneRotates DEF S!Issue
  <2>4. \A q \in Requests : Rotates(q) => request[q].token \in S!Tokens
    BY DEF S!TypeOK, S!Fits, Rotates
  <2>5. ASSUME NEW f \in ended PROVE Dead(f)'
    <3>1. S!Family(new)' # f
      <4>1. CASE request[r].op = "login"
        BY <1>7, <2>1, <4>1, IssueAdds DEF S!TypeOK, S!Families, S!Tokens
      <4>2. CASE request[r].op # "login"
        BY <1>7, <2>1, <4>2, IssueAdds DEF S!Issue, S!TypeOK, S!Fits, EndedDead, Dead, Rotates
      <4> QED
        BY <4>1, <4>2
    <3>2. \A t \in S!Tokens' : S!Family(t)' = f => ~S!Live(t)'
      BY <1>7, <2>1, <3>1, IssueAdds DEF EndedDead, Dead, S!Live
    <3>3. ASSUME NEW q \in Requests, Rotates(q)' PROVE S!Family(request[q].token)' # f
      BY <1>7, <2>1, <2>3, <2>4, <3>3, IssueAdds DEF EndedDead, Dead, S!Family
    <3> QED
      BY <3>2, <3>3 DEF Dead
  <2> QED
    BY <2>2, <2>5 DEF EndedDead
<1>8. ASSUME NEW r \in Requests, S!Answer(r) \/ S!Fail(r) PROVE EndedDead'
  <2>1. UNCHANGED <<tokens, ended>> /\ \A q \in Requests : Rotates(q)' => Rotates(q) /\ request'[q].token = request[q].token
    BY <1>8 DEF S!Answer, S!Fail, S!TypeOK, S!Idle, Rotates
  <2> QED
    BY <2>1, DeadFrame DEF EndedDead, S!Tokens, S!Family, S!Live
<1> QED
  BY <1>1, <1>2, <1>3, <1>4, <1>5, <1>6, <1>7, <1>8 DEF S!Next

\* A family of which no token was consumed twice has one unconsumed token, or one
\* rotation that has consumed the last one and has not issued the next.
Unused(t, f) == t \in S!Tokens /\ S!Family(t) = f /\ ~tokens[t].consumed

Issuing(r, f) ==
  request[r].op = "refresh" /\ request[r].pc = "issue" /\ S!Family(request[r].token) = f

OneHeir(f) ==
  /\ \A s, t \in S!Tokens : Unused(s, f) /\ Unused(t, f) => s = t
  /\ \A q, r \in Requests : Issuing(q, f) /\ Issuing(r, f) => q = r
  /\ \A t \in S!Tokens, r \in Requests : ~(Unused(t, f) /\ Issuing(r, f))

HeirsAreUnique == \A f \in S!Families \ forked : OneHeir(f)

\* A step that leaves the consumed tokens alone and starts no rotation in the
\* family leaves it one heir.
LEMMA HeirFrame ==
  ASSUME S!TypeOK, NEW f, OneHeir(f), S!Tokens' = S!Tokens,
         \A t \in S!Tokens : S!Family(t)' = S!Family(t) /\ tokens'[t].consumed = tokens[t].consumed,
         \A r \in Requests : Issuing(r, f)' => Issuing(r, f)
  PROVE  OneHeir(f)'
BY DEF OneHeir, Unused

\* The consumption of a token is the claim to its successor: unless two claims of
\* one token went through, no step gives a family a second heir.
LEMMA HeirStep == S!TypeOK /\ HeirsAreUnique /\ S!Next => HeirsAreUnique'
<1> SUFFICES ASSUME S!TypeOK, HeirsAreUnique, S!Next PROVE HeirsAreUnique'
  OBVIOUS
<1>f. \A t \in S!Tokens : S!Family(t) \in S!Families
  BY DEF S!Families
<1>i. \A r \in Requests : \A f : Issuing(r, f) => request[r].token \in S!Tokens
  BY DEF S!TypeOK, S!Fits, Issuing
<1>1. ASSUME tokens' = tokens, forked' = forked,
             \A r \in Requests : \A f : Issuing(r, f)' => Issuing(r, f)
      PROVE HeirsAreUnique'
  <2>1. S!Families' = S!Families
    BY <1>1 DEF S!Families, S!Tokens, S!Family
  <2> QED
    BY <1>1, <2>1, HeirFrame DEF HeirsAreUnique, S!Tokens, S!Family
<1>2. ASSUME NEW r \in Requests, NEW tab \in Tabs,
             S!Login(r, tab) \/ S!Refresh(r, tab) \/ S!Logout(r, tab) \/ S!ChangePassword(r, tab)
      PROVE HeirsAreUnique'
  <2>1. UNCHANGED <<tokens, forked>> /\ \A q \in Requests : \A f : Issuing(q, f)' => Issuing(q, f)
    BY <1>2 DEF S!Login, S!Refresh, S!Logout, S!ChangePassword, S!Send, S!TypeOK, Issuing, S!Family
  <2> QED
    BY <2>1, <1>1
<1>3. ASSUME NEW tab \in Tabs, S!Reload(tab) PROVE HeirsAreUnique'
  <2>1. UNCHANGED <<tokens, forked>> /\ \A q \in Requests : \A f : Issuing(q, f)' => Issuing(q, f)
    BY <1>3 DEF S!Reload, S!TypeOK, S!Rounds, S!Idle, Issuing, S!Family
  <2> QED
    BY <2>1, <1>1
<1>4. ASSUME NEW r \in Requests, S!Read(r) \/ S!Answer(r) \/ S!Fail(r) PROVE HeirsAreUnique'
  <2>1. UNCHANGED <<tokens, forked>> /\ \A q \in Requests : \A f : Issuing(q, f)' => Issuing(q, f)
    <3>1. UNCHANGED <<tokens, forked>> /\ \A q \in Requests : q # r => request'[q] = request[q]
      BY <1>4 DEF S!Read, S!Answer, S!Fail, S!TypeOK
    <3>2. request'[r].pc # "issue"
      BY <1>4 DEF S!Read, S!Answer, S!Fail, S!TypeOK, S!Rounds, S!Idle
    <3> QED
      BY <3>1, <3>2 DEF Issuing, S!Family
  <2> QED
    BY <2>1, <1>1
<1>5. ASSUME NEW r \in Requests, S!EndFamily(r) \/ S!RevokeOne(r) \/ S!RevokeAll(r) PROVE HeirsAreUnique'
  <2>1. PICK X : tokens' = S!Revoked(X)
    BY <1>5 DEF S!EndFamily, S!RevokeOne, S!RevokeAll
  <2>2. /\ S!Tokens' = S!Tokens
        /\ \A t \in S!Tokens : S!Family(t)' = S!Family(t) /\ tokens'[t].consumed = tokens[t].consumed
    BY <2>1, RevokedKeeps
  <2>3. S!Families' = S!Families /\ forked' = forked
    BY <1>5, <2>2 DEF S!Families, S!EndFamily, S!RevokeOne, S!RevokeAll
  <2>4. \A q \in Requests : request'[q].op = "refresh" /\ request'[q].pc = "issue" => request'[q] = request[q]
    <3>1. CASE S!EndFamily(r)
      BY <3>1 DEF S!EndFamily, S!TypeOK, S!Idle
    <3>2. CASE S!RevokeOne(r) \/ S!RevokeAll(r)
      BY <3>2, DoneRotates DEF S!RevokeOne, S!RevokeAll, Rotates
    <3> QED
      BY <1>5, <3>1, <3>2
  <2>5. \A q \in Requests : \A f : Issuing(q, f)' => Issuing(q, f)
    <3> SUFFICES ASSUME NEW q \in Requests, NEW f, Issuing(q, f)' PROVE Issuing(q, f)
      OBVIOUS
    <3>1. request'[q] = request[q] /\ request[q].token \in S!Tokens
      BY <2>4 DEF S!TypeOK, S!Fits, Issuing
    <3> QED
      BY <2>2, <3>1 DEF Issuing, S!Family
  <2> QED
    BY <2>2, <2>3, <2>5, HeirFrame DEF HeirsAreUnique
<1>6. ASSUME NEW r \in Requests, S!Consume(r) PROVE HeirsAreUnique'
  <2>1. PICK x : x = request[r].token
    OBVIOUS
  <2>2. x \in S!Tokens /\ tokens' = [tokens EXCEPT ![x].consumed = TRUE]
    BY <1>6, <2>1 DEF S!Consume, S!TypeOK, S!Fits
  <2>3. /\ S!Tokens' = S!Tokens
        /\ \A t \in S!Tokens : S!Family(t)' = S!Family(t)
                               /\ tokens'[t].consumed = (tokens[t].consumed \/ t = x)
    BY <2>2, ConsumedKeeps
  <2>4. S!Families' = S!Families
    BY <2>3 DEF S!Families
  <2>5. \A q \in Requests : \A f : Issuing(q, f)' => Issuing(q, f) \/ (q = r /\ f = S!Family(x))
    <3> SUFFICES ASSUME NEW q \in Requests, NEW f, Issuing(q, f)'
                 PROVE Issuing(q, f) \/ (q = r /\ f = S!Family(x))
      OBVIOUS
    <3>1. CASE q = r
      <4>1. request'[q].token = x
        BY <1>6, <2>1, <3>1 DEF S!Consume, S!TypeOK, S!Rounds
      <4> QED
        BY <2>2, <2>3, <3>1, <4>1 DEF Issuing, S!Family
    <3>2. CASE q # r
      <4>1. request'[q] = request[q]
        BY <1>6, <3>2 DEF S!Consume, S!TypeOK
      <4>2. request[q].token \in S!Tokens
        BY <4>1 DEF S!TypeOK, S!Fits, Issuing
      <4> QED
        BY <2>3, <4>1, <4>2 DEF Issuing, S!Family
    <3> QED
      BY <3>1, <3>2
  <2>6. ASSUME NEW f \in S!Families \ forked' PROVE OneHeir(f)'
    <3>1. OneHeir(f) /\ (f = S!Family(x) => Unused(x, f))
      BY <1>6, <2>1, <2>2, <2>6 DEF S!Consume, HeirsAreUnique, Unused
    <3>2. \A t \in S!Tokens : Unused(t, f)' => Unused(t, f) /\ t # x
      BY <2>3 DEF Unused
    <3> QED
      BY <2>2, <2>3, <2>5, <3>1, <3>2 DEF OneHeir
  <2> QED
    BY <2>4, <2>6 DEF HeirsAreUnique
<1>7. ASSUME NEW r \in Requests, S!Issue(r) PROVE HeirsAreUnique'
  <2>1. PICK new : new = Len(tokens) + 1
    OBVIOUS
  <2>2. PICK g : g = S!Family(new)'
    OBVIOUS
  <2>3. /\ S!Tokens' = S!Tokens \cup {new} /\ new \notin S!Tokens
        /\ \A t \in S!Tokens : tokens'[t] = tokens[t] /\ S!Family(t)' = S!Family(t)
        /\ g = (IF request[r].op = "login" THEN new ELSE S!Family(request[r].token))
    BY <1>7, <2>1, <2>2, IssueAdds
  <2>4. \A t \in S!Tokens : S!Family(t) # new
    BY <2>1 DEF S!TypeOK, S!Tokens
  <2>5. S!Families' = S!Families \cup {g} /\ forked' = forked
    BY <1>7, <2>2, <2>3 DEF S!Families, S!Issue
  <2>6. request[r].op = "login" \/ Issuing(r, g)
    BY <1>7, <2>3 DEF S!Issue, S!TypeOK, S!Fits, Issuing
  <2>7. \A q \in Requests : \A f : Issuing(q, f)' => Issuing(q, f) /\ q # r
    <3> SUFFICES ASSUME NEW q \in Requests, NEW f, Issuing(q, f)' PROVE Issuing(q, f) /\ q # r
      OBVIOUS
    <3>1. q # r /\ request'[q] = request[q]
      BY <1>7 DEF S!Issue, S!Done, S!TypeOK, S!Rounds, S!Idle, Issuing
    <3>2. request[q].token \in S!Tokens
      BY <3>1 DEF S!TypeOK, S!Fits, Issuing
    <3> QED
      BY <2>3, <3>1, <3>2 DEF Issuing, S!Family
  <2>8. ASSUME NEW f \in S!Families' \ forked' PROVE OneHeir(f)'
    <3>1. CASE request[r].op = "login" /\ f = new
      <4>1. \A t \in S!Tokens' : Unused(t, f)' => t = new
        BY <2>3, <2>4, <3>1 DEF Unused
      <4>2. \A q \in Requests : ~Issuing(q, f)'
        BY <1>i, <2>4, <2>7, <3>1 DEF Issuing
      <4> QED
        BY <4>1, <4>2 DEF OneHeir
    <3>2. CASE ~(request[r].op = "login" /\ f = new)
      <4>1. f \in S!Families \ forked
        <5>1. request[r].op # "login" => g \in S!Families
          BY <1>f, <1>i, <2>3, <2>6
        <5> QED
          BY <2>3, <2>5, <2>8, <3>2, <5>1
      <4>2. OneHeir(f)
        BY <4>1 DEF HeirsAreUnique
      <4>3. \A t \in S!Tokens : Unused(t, f)' => Unused(t, f)
        BY <2>3 DEF Unused
      <4>4. Unused(new, f)' => f = g
        BY <2>2 DEF Unused
      <4>5. CASE f = g
        <5>1. Issuing(r, f)
          BY <2>3, <2>6, <3>2, <4>5
        <5>2. \A t \in S!Tokens : ~Unused(t, f)
          BY <4>2, <5>1 DEF OneHeir
        <5>3. \A q \in Requests : ~Issuing(q, f)'
          BY <2>7, <4>2, <5>1 DEF OneHeir
        <5> QED
          BY <2>3, <4>3, <5>2, <5>3 DEF OneHeir
      <4>6. CASE f # g
        BY <2>3, <2>7, <4>2, <4>3, <4>4, <4>6 DEF OneHeir, Unused
      <4> QED
        BY <4>5, <4>6
    <3> QED
      BY <3>1, <3>2
  <2> QED
    BY <2>8 DEF HeirsAreUnique
<1> QED
  BY <1>2, <1>3, <1>4, <1>5, <1>6, <1>7 DEF S!Next

\* The three ways to have a hand on a family: the cookie of a browser, a request that
\* presents a token, an answer that brings the first one.
InCookie(b, f) == cookie[b] \in S!Tokens /\ S!Family(cookie[b]) = f

Presents(r, f) == request[r].token \in S!Tokens /\ S!Family(request[r].token) = f

Brings(r, f) ==
  request[r].op = "login" /\ request[r].new \in S!Tokens /\ S!Family(request[r].new) = f

\* A family that nothing has disturbed is in one hand, whose token is good or is being
\* used by the one request that presents it.
CookieIsGood(f) ==
  /\ \A b \in Browsers : InCookie(b, f) =>
       S!Live(cookie[b]) \/ \E r \in Requests : request[r].token = cookie[b]
  /\ \A b, c \in Browsers : InCookie(b, f) /\ InCookie(c, f) => b = c

RequestIsGood(r, f) ==
  /\ request[r].tab # S!Gone /\ request[r].pc # "reused"
  /\ request[r].pc \in {"read", "consume", "revoke"} => S!Live(request[r].token)
  /\ request[r].new # S!None => S!Live(request[r].new)
  /\ \A q \in Requests : Presents(q, f) => q = r
  /\ \A b \in Browsers : InCookie(b, f) =>
       b = BrowserOf[request[r].tab] /\ cookie[b] = request[r].token

LoginIsGood(r, f) ==
  /\ S!Live(request[r].new)
  /\ \A b \in Browsers : ~InCookie(b, f)
  /\ \A q \in Requests : ~Presents(q, f) /\ (Brings(q, f) => q = r)

Tidy(f) ==
  /\ CookieIsGood(f)
  /\ \A r \in Requests : /\ Presents(r, f) => RequestIsGood(r, f)
                         /\ Brings(r, f) => LoginIsGood(r, f)

Undisturbed == \A f \in S!Families \ disturbed : Tidy(f)

\* An empty cookie holds no token.
LEMMA NoneIsNoToken == S!None \notin S!Tokens
BY DEF S!Tokens, S!None

\* A step that gives nobody a hand on the family and leaves its tokens alone.
LEMMA TidyFrame ==
  ASSUME S!TypeOK, NEW f, Tidy(f),
         \A t \in S!Tokens : S!Family(t) = f => (S!Live(t)' <=> S!Live(t)),
         \A b \in Browsers : InCookie(b, f)' => InCookie(b, f) /\ cookie'[b] = cookie[b],
         \A r \in Requests : Presents(r, f)' => Presents(r, f) /\ request'[r] = request[r],
         \A r \in Requests : Presents(r, f) => request'[r] = request[r],
         \A r \in Requests : Brings(r, f)' => Brings(r, f) /\ request'[r] = request[r]
  PROVE  Tidy(f)'
<1>1. CookieIsGood(f)'
  BY DEF Tidy, CookieIsGood, InCookie, Presents
<1>2. ASSUME NEW r \in Requests, Presents(r, f)' PROVE RequestIsGood(r, f)'
  <2>1. RequestIsGood(r, f) /\ request'[r] = request[r]
    BY <1>2 DEF Tidy
  <2>2. request[r].new # S!None => request[r].new \in S!Tokens /\ S!Family(request[r].new) = f
    BY <1>2 DEF S!TypeOK, S!Fits, S!Tokens, S!None, Presents
  <2> QED
    BY <1>2, <2>1, <2>2 DEF RequestIsGood, Presents
<1>3. ASSUME NEW r \in Requests, Brings(r, f)' PROVE LoginIsGood(r, f)'
  BY <1>3 DEF Tidy, LoginIsGood, Brings
<1> QED
  BY <1>1, <1>2, <1>3 DEF Tidy

\* A tab sends a request with the token in its cookie.
LEMMA TidySend ==
  ASSUME S!TypeOK, NEW f, f \notin disturbed', Tidy(f),
         NEW r \in Requests, NEW tab \in Tabs, NEW op, NEW pc, NEW t \in S!Tokens \cup {S!None},
         S!Send(r, tab, op, pc, t), t = S!None \/ t = cookie[BrowserOf[tab]],
         pc # "reused"
  PROVE  Tidy(f)'
<1> DEFINE q == [op |-> op, pc |-> pc, tab |-> tab, token |-> t, new |-> S!None]
<1>1. /\ S!None \notin S!Tokens /\ tab # S!Gone /\ BrowserOf[tab] \in Browsers
      /\ cookie' = cookie /\ S!Tokens' = S!Tokens
      /\ \A s \in S!Tokens : S!Family(s)' = S!Family(s) /\ (S!Live(s)' <=> S!Live(s))
  BY ConstantsAssumption
  DEF S!SessionsAssumption, S!Send, S!Tokens, S!Family, S!Live, S!None
<1>2. /\ request[r] = S!Idle /\ request'[r] = q
      /\ \A p \in Requests : p # r => request'[p] = request[p]
  BY DEF S!Send, S!TypeOK
<1>3. ~Presents(r, f) /\ ~Brings(r, f) /\ ~Brings(r, f)'
  BY <1>1, <1>2 DEF Presents, Brings, S!Idle, S!None
<1>4. \A p \in Requests : p # r => /\ Presents(p, f)' <=> Presents(p, f)
                                   /\ Brings(p, f)' <=> Brings(p, f)
  <2> SUFFICES ASSUME NEW p \in Requests, p # r
               PROVE (Presents(p, f)' <=> Presents(p, f)) /\ (Brings(p, f)' <=> Brings(p, f))
    OBVIOUS
  <2> QED
    BY <1>1, <1>2 DEF Presents, Brings
<1>5. \A b \in Browsers : InCookie(b, f)' <=> InCookie(b, f)
  BY <1>1 DEF InCookie
<1>6. CASE t \in S!Tokens /\ S!Family(t) = f
  <2>1. \A p \in Requests : request[p].token # t
    BY <1>6 DEF S!Send, S!Presented, S!None, S!Tokens
  <2>2. PICK b0 \in Browsers : b0 = BrowserOf[tab] /\ cookie[b0] = t /\ InCookie(b0, f)
    BY <1>1, <1>6 DEF InCookie
  <2>3. S!Live(t) /\ \A b \in Browsers : InCookie(b, f) => b = b0
    BY <2>1, <2>2 DEF Tidy, CookieIsGood
  <2>4. \A p \in Requests : ~Presents(p, f) /\ ~Brings(p, f)
    BY <2>1, <2>2 DEF Tidy, RequestIsGood, LoginIsGood
  <2>5. CookieIsGood(f)'
    <3>1. S!Live(t)'
      BY <1>1, <1>6, <2>3
    <3> QED
      BY <1>1, <1>5, <2>2, <2>3, <3>1 DEF CookieIsGood
  <2>6. RequestIsGood(r, f)'
    <3>1. S!Live(request[r].token)' /\ request'[r].new = S!None
      BY <1>1, <1>2, <1>6, <2>3 DEF S!Live
    <3>2. \A p \in Requests : Presents(p, f)' => p = r
      BY <1>4, <2>4
    <3>3. \A b \in Browsers : InCookie(b, f)' =>
             b = BrowserOf[request'[r].tab] /\ cookie'[b] = request'[r].token
      BY <1>1, <1>2, <1>5, <2>2, <2>3
    <3> QED
      BY <1>1, <1>2, <3>1, <3>2, <3>3 DEF RequestIsGood
  <2> QED
    BY <1>3, <1>4, <2>4, <2>5, <2>6 DEF Tidy
<1>7. CASE ~(t \in S!Tokens /\ S!Family(t) = f)
  <2>1. ~Presents(r, f)'
    BY <1>1, <1>2, <1>7 DEF Presents
  <2> QED
    BY <1>1, <1>2, <1>3, <1>4, <1>5, <2>1, TidyFrame
<1> QED
  BY <1>6, <1>7

\* A request that is over, with its cookie as it was.
LEMMA TidyIdle ==
  ASSUME S!TypeOK, NEW f, Tidy(f), NEW r \in Requests,
         UNCHANGED <<tokens, cookie>>, request' = [request EXCEPT ![r] = S!Idle],
         Presents(r, f) => S!Live(request[r].token)
  PROVE  Tidy(f)'
<1>1. /\ S!None \notin S!Tokens /\ S!Tokens' = S!Tokens
      /\ \A s \in S!Tokens : S!Family(s)' = S!Family(s) /\ (S!Live(s)' <=> S!Live(s))
  BY DEF S!Tokens, S!Family, S!Live, S!None
<1>2. /\ request'[r] = S!Idle
      /\ \A p \in Requests : p # r => request'[p] = request[p]
  BY DEF S!TypeOK
<1>3. ~Presents(r, f)' /\ ~Brings(r, f)'
  BY <1>1, <1>2 DEF Presents, Brings, S!Idle, S!None
<1>4. \A p \in Requests : p # r => /\ Presents(p, f)' <=> Presents(p, f)
                                   /\ Brings(p, f)' <=> Brings(p, f)
  <2> SUFFICES ASSUME NEW p \in Requests, p # r
               PROVE (Presents(p, f)' <=> Presents(p, f)) /\ (Brings(p, f)' <=> Brings(p, f))
    OBVIOUS
  <2> QED
    BY <1>1, <1>2 DEF Presents, Brings
<1>5. \A b \in Browsers : (InCookie(b, f)' <=> InCookie(b, f)) /\ cookie'[b] = cookie[b]
  BY <1>1 DEF InCookie
<1>6. CASE Presents(r, f)
  <2>1. \A p \in Requests : ~Presents(p, f)' /\ ~Brings(p, f)'
    BY <1>3, <1>4, <1>6 DEF Tidy, RequestIsGood, LoginIsGood
  <2>2. \A b \in Browsers : InCookie(b, f) => S!Live(cookie[b])'
    BY <1>1, <1>6 DEF Tidy, RequestIsGood, Presents, S!Live
  <2>3. CookieIsGood(f)'
    BY <1>5, <2>2 DEF Tidy, CookieIsGood
  <2> QED
    BY <2>1, <2>3 DEF Tidy
<1>7. CASE ~Presents(r, f)
  BY <1>1, <1>2, <1>3, <1>4, <1>5, <1>7, TidyFrame
<1> QED
  BY <1>6, <1>7

\* What the steps of the API after the look do to a family they were let into.
LEMMA TidyDone ==
  ASSUME S!TypeOK, NEW f, Tidy(f), NEW r \in Requests, S!Done(r, S!None),
         ~Presents(r, f),
         cookie' = cookie, S!Tokens' = S!Tokens,
         \A t \in S!Tokens : S!Family(t)' = S!Family(t),
         \A t \in S!Tokens : S!Family(t) = f => (S!Live(t)' <=> S!Live(t))
  PROVE  Tidy(f)'
<1>0. S!None \notin S!Tokens
  BY DEF S!Tokens, S!None
<1>1. \A q \in Requests : q # r => request'[q] = request[q]
  BY DoneRotates
<1>2. ~Presents(r, f)' /\ ~Brings(r, f)'
  <2>1. request'[r].new = S!None /\ request'[r].token \in {S!None, request[r].token}
    BY DEF S!Done, S!TypeOK, S!Rounds, S!Idle
  <2> QED
    BY <1>0, <2>1 DEF Presents, Brings
<1>3. \A q \in Requests : q # r => /\ Presents(q, f)' <=> Presents(q, f)
                                   /\ Brings(q, f)' <=> Brings(q, f)
  <2> SUFFICES ASSUME NEW q \in Requests, q # r
               PROVE (Presents(q, f)' <=> Presents(q, f)) /\ (Brings(q, f)' <=> Brings(q, f))
    OBVIOUS
  <2> QED
    BY <1>1 DEF Presents, Brings
<1>4. \A b \in Browsers : InCookie(b, f)' <=> InCookie(b, f)
  BY DEF InCookie
<1> QED
  BY <1>1, <1>2, <1>3, <1>4, TidyFrame

\* The request that has the family in hand goes on with a token that is good, or
\* with the right to issue the next one, and the family stays in that one hand.
LEMMA TidyAdvance ==
  ASSUME S!TypeOK, NEW f, Tidy(f), NEW r \in Requests, Presents(r, f),
         S!Tokens \subseteq S!Tokens', \A t \in S!Tokens : S!Family(t)' = S!Family(t),
         \A q \in Requests : q # r => request'[q] = request[q],
         cookie' = cookie,
         request'[r].token = request[r].token, request'[r].tab = request[r].tab,
         request'[r].op = request[r].op, request[r].op # "login",
         request'[r].pc \in {"issue", "answer"},
         request'[r].new = S!None \/ S!Live(request[r].new)'
  PROVE  Tidy(f)'
<1>n. S!None \notin S!Tokens'
  BY DEF S!Tokens, S!None
<1>1. RequestIsGood(r, f)
  BY DEF Tidy
<1>2. Presents(r, f)' /\ ~Brings(r, f)'
  BY DEF Presents, Brings, S!Family
<1>3. \A q \in Requests : q # r => ~Presents(q, f)' /\ ~Brings(q, f)'
  <2> SUFFICES ASSUME NEW q \in Requests, q # r PROVE ~Presents(q, f)' /\ ~Brings(q, f)'
    OBVIOUS
  <2>1. ~Presents(q, f) /\ ~Brings(q, f) /\ request'[q] = request[q]
    BY <1>1 DEF RequestIsGood, Tidy, LoginIsGood
  <2>2. request[q].token \in S!Tokens \cup {S!None} /\ request[q].new \in S!Tokens \cup {S!None}
    BY DEF S!TypeOK, S!Fits
  <2> QED
    BY <1>n, <2>1, <2>2 DEF Presents, Brings, S!Family
<1>4. \A b \in Browsers : InCookie(b, f)' => InCookie(b, f)
  BY <1>n DEF InCookie, S!TypeOK, S!Family
<1>5. CookieIsGood(f)'
  BY <1>1, <1>4 DEF Tidy, CookieIsGood, RequestIsGood
<1>6. RequestIsGood(r, f)'
  BY <1>1, <1>2, <1>3, <1>4 DEF RequestIsGood
<1> QED
  BY <1>2, <1>3, <1>5, <1>6 DEF Tidy

\* No step takes an undisturbed family out of its one hand without marking it
\* disturbed.
LEMMA UndisturbedStep == S!TypeOK /\ Undisturbed /\ S!Next => Undisturbed'
<1> SUFFICES ASSUME S!TypeOK, Undisturbed, S!Next,
                    NEW f, f \in S!Families', f \notin disturbed'
             PROVE  Tidy(f)'
  BY DEF Undisturbed
<1>t. S!TypeOK'
  BY SessionsTypeStep
<1>k. \A r \in Requests : Presents(r, f) => request[r].op \in {"refresh", "logout"}
  BY NoneIsNoToken DEF S!TypeOK, S!Fits, S!Rounds, Presents, S!Idle
<1>s. ASSUME tokens' = tokens, disturbed \subseteq disturbed' PROVE Tidy(f)
  BY <1>s DEF Undisturbed, S!Families, S!Tokens, S!Family
<1>l. ASSUME tokens' = tokens
      PROVE  /\ S!Tokens' = S!Tokens
             /\ \A s \in S!Tokens : S!Family(s)' = S!Family(s) /\ (S!Live(s)' <=> S!Live(s))
  BY <1>l DEF S!Tokens, S!Family, S!Live
<1>1. ASSUME NEW r \in Requests, NEW tab \in Tabs,
             S!Login(r, tab) \/ S!Refresh(r, tab) \/ S!Logout(r, tab) \/ S!ChangePassword(r, tab)
      PROVE Tidy(f)'
  <2>1. PICK t \in S!Tokens \cup {S!None} :
          t = IF S!Refresh(r, tab) \/ S!Logout(r, tab) THEN cookie[BrowserOf[tab]] ELSE S!None
    BY ConstantsAssumption DEF S!TypeOK, S!SessionsAssumption
  <2>2. PICK op, pc : S!Send(r, tab, op, pc, t) /\ pc # "reused"
    BY <1>1, <2>1 DEF S!Login, S!Refresh, S!Logout, S!ChangePassword
  <2>3. tokens' = tokens /\ disturbed \subseteq disturbed'
    BY <2>2 DEF S!Send, S!Presented
  <2> QED
    BY <1>s, <2>1, <2>2, <2>3, TidySend
<1>2. ASSUME NEW tab \in Tabs, S!Reload(tab) PROVE Tidy(f)'
  <2>1. tokens' = tokens /\ cookie' = cookie /\ disturbed \subseteq disturbed'
    BY <1>2 DEF S!Reload
  <2>2. Tidy(f)
    BY <1>s, <2>1
  <2>3. \A r \in Requests : Presents(r, f) => request'[r] = request[r]
    <3> SUFFICES ASSUME NEW r \in Requests, Presents(r, f), request[r].tab = tab PROVE FALSE
      BY <1>2 DEF S!Reload
    <3>1. S!Missed(r) = {f}
      BY <1>k, NoneIsNoToken DEF S!Missed, Presents
    <3> QED
      BY <1>2, <3>1 DEF S!Reload
  <2>4. \A r \in Requests : /\ request'[r].token \in {S!None, request[r].token}
                            /\ request'[r].new = request[r].new \/ request'[r].new = S!None
                            /\ request'[r].new # S!None => request'[r] = request[r]
    BY <1>2 DEF S!Reload, S!TypeOK, S!Fits, S!Rounds, S!Idle, S!None
  <2>5. \A r \in Requests : /\ Presents(r, f)' => Presents(r, f) /\ request'[r] = request[r]
                            /\ Brings(r, f)' => Brings(r, f) /\ request'[r] = request[r]
    <3> TAKE r \in Requests
    <3>1. Presents(r, f)' => Presents(r, f)
      BY <1>l, <2>1, <2>4, NoneIsNoToken DEF Presents
    <3>2. Brings(r, f)' => request'[r] = request[r]
      BY <1>l, <2>1, <2>4, NoneIsNoToken DEF Brings
    <3>3. Brings(r, f)' => Brings(r, f)
      BY <1>l, <2>1, <3>2 DEF Brings
    <3> QED
      BY <2>3, <3>1, <3>2, <3>3
  <2>6. \A b \in Browsers : InCookie(b, f)' => InCookie(b, f) /\ cookie'[b] = cookie[b]
    BY <1>l, <2>1 DEF InCookie
  <2> QED
    BY <1>l, <2>1, <2>2, <2>3, <2>5, <2>6, TidyFrame
<1>3. ASSUME NEW r \in Requests, S!Read(r) PROVE Tidy(f)'
  <2>1. tokens' = tokens /\ cookie' = cookie /\ disturbed' = disturbed
    BY <1>3 DEF S!Read
  <2>2. Tidy(f)
    BY <1>s, <2>1
  <2>3. /\ \A q \in Requests : q # r => request'[q] = request[q]
        /\ request'[r].tab = request[r].tab /\ request'[r].token = request[r].token
        /\ request'[r].new = request[r].new /\ request'[r].op = request[r].op
        /\ request[r].op = "refresh" /\ request[r].pc = "read"
    BY <1>3 DEF S!Read, S!TypeOK, S!Rounds
  <2>4. \A q \in Requests : (Presents(q, f)' <=> Presents(q, f)) /\ (Brings(q, f)' <=> Brings(q, f))
    <3> TAKE q \in Requests
    <3> QED
      BY <1>l, <2>1, <2>3 DEF Presents, Brings
  <2>5. \A b \in Browsers : (InCookie(b, f)' <=> InCookie(b, f)) /\ cookie'[b] = cookie[b]
    BY <1>l, <2>1 DEF InCookie
  <2>6. CASE Presents(r, f)
    <3>1. RequestIsGood(r, f) /\ S!Live(request[r].token)
      BY <2>2, <2>3, <2>6 DEF Tidy, RequestIsGood
    <3>2. request'[r].pc = "consume"
      BY <1>3, <3>1 DEF S!Read, S!Live, S!TypeOK, S!Rounds
    <3>3. RequestIsGood(r, f)'
      BY <1>l, <2>1, <2>3, <2>4, <2>5, <2>6, <3>1, <3>2 DEF RequestIsGood, Presents, S!Live
    <3>4. \A q \in Requests : Presents(q, f)' => q = r
      BY <2>4, <3>1 DEF RequestIsGood
    <3>5. \A q \in Requests : ~Brings(q, f)'
      BY <2>2, <2>4, <2>6 DEF Tidy, LoginIsGood
    <3>6. CookieIsGood(f)'
      BY <1>l, <2>1, <2>3, <2>5, <2>2, <3>1 DEF Tidy, CookieIsGood, RequestIsGood
    <3> QED
      BY <3>3, <3>4, <3>5, <3>6 DEF Tidy
  <2>7. CASE ~Presents(r, f)
    <3>1. ~Brings(r, f)
      BY <2>3 DEF Brings
    <3> QED
      BY <1>l, <2>1, <2>2, <2>3, <2>4, <2>5, <2>7, <3>1, TidyFrame
  <2> QED
    BY <2>6, <2>7
<1>4. ASSUME NEW r \in Requests, S!EndFamily(r) PROVE Tidy(f)'
  <2>1. cookie' = cookie /\ disturbed' = disturbed /\ request' = [request EXCEPT ![r] = S!Idle]
    BY <1>4 DEF S!EndFamily
  <2>2. PICK X : tokens' = S!Revoked(X) /\ X = { s \in S!Tokens : S!Family(s) = S!Family(request[r].token) }
    BY <1>4 DEF S!EndFamily
  <2>3. S!Tokens' = S!Tokens /\ \A t \in S!Tokens : S!Family(t)' = S!Family(t)
    BY <2>2, RevokedKeeps
  <2>4. Tidy(f)
    BY <2>1, <2>3 DEF Undisturbed, S!Families
  <2>5. ~Presents(r, f) /\ request[r].token \in S!Tokens
    BY <1>4, <2>4 DEF S!EndFamily, Tidy, RequestIsGood, S!TypeOK, S!Fits
  <2>6. \A t \in S!Tokens : S!Family(t) = f => (S!Live(t)' <=> S!Live(t))
    <3> SUFFICES ASSUME NEW t \in S!Tokens, S!Family(t) = f PROVE S!Live(t)' <=> S!Live(t)
      OBVIOUS
    <3>1. t \notin X
      BY <2>2, <2>5 DEF Presents
    <3> QED
      BY <2>2, <3>1, RevokedKeeps DEF S!Live
  <2>7. \A b \in Browsers : InCookie(b, f)' => InCookie(b, f) /\ cookie'[b] = cookie[b]
    BY <2>1, <2>3 DEF InCookie, S!Family
  <2>8. \A q \in Requests : q # r => request'[q] = request[q]
    BY <2>1 DEF S!TypeOK
  <2>9. request'[r] = S!Idle
    BY <2>1 DEF S!TypeOK
  <2>10. \A q \in Requests : /\ Presents(q, f)' => Presents(q, f) /\ request'[q] = request[q]
                             /\ Brings(q, f)' => Brings(q, f) /\ request'[q] = request[q]
    BY <2>3, <2>8, <2>9, NoneIsNoToken DEF Presents, Brings, S!Idle, S!Family
  <2> QED
    BY <2>4, <2>5, <2>6, <2>7, <2>8, <2>10, TidyFrame
<1>5. ASSUME NEW r \in Requests, S!Consume(r) PROVE Tidy(f)'
  <2>1. PICK x : x = request[r].token
    OBVIOUS
  <2>2. x \in S!Tokens /\ tokens' = [tokens EXCEPT ![x].consumed = TRUE]
    BY <1>5, <2>1 DEF S!Consume, S!TypeOK, S!Fits
  <2>3. S!Tokens' = S!Tokens /\ \A t \in S!Tokens : S!Family(t)' = S!Family(t)
    BY <2>2, ConsumedKeeps
  <2>4. Tidy(f) /\ cookie' = cookie
    BY <1>5, <2>3 DEF S!Consume, Undisturbed, S!Families
  <2>5. /\ \A q \in Requests : q # r => request'[q] = request[q]
        /\ request'[r].tab = request[r].tab /\ request'[r].token = request[r].token
        /\ request'[r].new = S!None /\ request'[r].op = request[r].op
        /\ request[r].op = "refresh" /\ request'[r].pc = "issue"
    BY <1>5 DEF S!Consume, S!TypeOK, S!Rounds, S!Fits
  <2>6. CASE Presents(r, f)
    BY <2>3, <2>4, <2>5, <2>6, TidyAdvance
  <2>7. CASE ~Presents(r, f)
    <3>1. \A t \in S!Tokens : S!Family(t) = f => (S!Live(t)' <=> S!Live(t))
      BY <2>1, <2>2, <2>7, ConsumedKeeps DEF S!Live, Presents
    <3>2. \A q \in Requests : /\ Presents(q, f)' => Presents(q, f) /\ q # r
                              /\ Brings(q, f)' => Brings(q, f) /\ q # r
      BY <2>3, <2>5, <2>7, NoneIsNoToken DEF Presents, Brings, S!Family
    <3>3. \A b \in Browsers : InCookie(b, f)' => InCookie(b, f)
      BY <2>3, <2>4 DEF InCookie, S!Family
    <3> QED
      BY <2>4, <2>5, <2>7, <3>1, <3>2, <3>3, TidyFrame
  <2> QED
    BY <2>6, <2>7
<1>6. ASSUME NEW r \in Requests, S!RevokeOne(r) PROVE Tidy(f)'
  <2>1. tokens' = S!Revoked({request[r].token}) /\ cookie' = cookie /\ S!Done(r, S!None)
    BY <1>6 DEF S!RevokeOne
  <2>2. S!Tokens' = S!Tokens /\ \A t \in S!Tokens : S!Family(t)' = S!Family(t)
    BY <2>1, RevokedKeeps
  <2>3. Tidy(f)
    BY <1>6, <2>2 DEF S!RevokeOne, Undisturbed, S!Families
  <2>4. request[r].token \in S!Tokens /\ request[r].op = "logout"
    BY <1>6 DEF S!RevokeOne, S!TypeOK, S!Fits
  <2>5. CASE Presents(r, f)
    <3>1. request[r].tab # S!Gone
      BY <2>3, <2>5 DEF Tidy, RequestIsGood
    <3>2. /\ \A q \in Requests : q # r => request'[q] = request[q]
          /\ request'[r].tab = request[r].tab /\ request'[r].token = request[r].token
          /\ request'[r].new = S!None /\ request'[r].op = request[r].op
          /\ request'[r].pc = "answer"
      BY <2>1, <3>1 DEF S!Done, S!TypeOK, S!Rounds
    <3> QED
      BY <2>1, <2>2, <2>3, <2>4, <2>5, <3>2, TidyAdvance
  <2>6. CASE ~Presents(r, f)
    <3>1. \A t \in S!Tokens : S!Family(t) = f => (S!Live(t)' <=> S!Live(t))
      BY <2>1, <2>4, <2>6, RevokedKeeps DEF S!Live, Presents
    <3> QED
      BY <2>1, <2>2, <2>3, <2>6, <3>1, TidyDone
  <2> QED
    BY <2>5, <2>6
<1>7. ASSUME NEW r \in Requests, S!RevokeAll(r) PROVE Tidy(f)'
  <2>1. S!Tokens' = S!Tokens /\ \A t \in S!Tokens : S!Family(t)' = S!Family(t)
    BY <1>7, RevokedKeeps DEF S!RevokeAll
  <2>2. S!Families \subseteq disturbed' /\ S!Families' = S!Families
    BY <1>7, <2>1 DEF S!RevokeAll, S!Families
  <2> QED
    BY <2>2
<1>8. ASSUME NEW r \in Requests, S!Issue(r) PROVE Tidy(f)'
  <2>1. PICK new : new = Len(tokens) + 1
    OBVIOUS
  <2>2. /\ S!Tokens' = S!Tokens \cup {new} /\ new \notin S!Tokens /\ new \in Nat \ {0}
        /\ \A t \in S!Tokens : tokens'[t] = tokens[t] /\ S!Family(t)' = S!Family(t)
        /\ S!Family(new)' = IF request[r].op = "login" THEN new ELSE S!Family(request[r].token)
        /\ S!Live(new)'
    BY <1>8, <2>1, IssueAdds
  <2>3. \A t \in S!Tokens : S!Live(t)' <=> S!Live(t)
    BY <2>2 DEF S!Live
  <2>4. /\ \A q \in Requests : q # r => request'[q] = request[q]
        /\ S!Done(r, new) /\ cookie' = cookie /\ disturbed' = disturbed
        /\ request[r].op \in {"login", "refresh"} /\ request[r].pc = "issue"
        /\ request[r].op = "login" => request[r].token = S!None
        /\ request[r].op = "refresh" => request[r].token \in S!Tokens
    BY <1>8, <2>1, DoneRotates DEF S!Issue, S!TypeOK, S!Fits
  <2>5. \/ request'[r] = S!Idle /\ request[r].tab = S!Gone
        \/ /\ request'[r].tab = request[r].tab /\ request'[r].token = request[r].token
           /\ request'[r].new = new /\ request'[r].op = request[r].op
           /\ request'[r].pc = "answer" /\ request[r].tab # S!Gone
    BY <2>4 DEF S!Done, S!TypeOK, S!Rounds
  <2>n. S!None \notin S!Tokens' /\ \A t \in S!Tokens : S!Family(t) # new
    BY <2>1 DEF S!Tokens, S!None, S!TypeOK
  <2>6. \A b \in Browsers : InCookie(b, f)' => InCookie(b, f)
    BY <2>2, <2>4, <2>n DEF InCookie, S!TypeOK, S!Family
  <2>7. \A q \in Requests : q # r => (Presents(q, f)' => Presents(q, f)) /\ (Brings(q, f)' => Brings(q, f))
    <3> SUFFICES ASSUME NEW q \in Requests, q # r
                 PROVE (Presents(q, f)' => Presents(q, f)) /\ (Brings(q, f)' => Brings(q, f))
      OBVIOUS
    <3>1. request[q].token \in S!Tokens \cup {S!None} /\ request[q].new \in S!Tokens \cup {S!None}
      BY DEF S!TypeOK, S!Fits
    <3> QED
      BY <2>2, <2>4, <2>n, <3>1 DEF Presents, Brings, S!Family
  <2>8. CASE f = new
    <3>1. \A b \in Browsers : ~InCookie(b, f)'
      BY <2>6, <2>8, <2>n DEF InCookie
    <3>2. \A q \in Requests : q # r => ~Presents(q, f)' /\ ~Brings(q, f)'
      BY <2>7, <2>8, <2>n DEF Presents, Brings
    <3>3. ~Presents(r, f)'
      <4>1. request'[r].token \in {S!None, request[r].token}
        BY <2>5 DEF S!Idle
      <4> QED
        BY <2>2, <2>4, <2>8, <2>n, <4>1 DEF Presents, S!Family
    <3>4. Brings(r, f)' => S!Live(request[r].new)'
      <4>1. request'[r].new \in {S!None, new}
        BY <2>5 DEF S!Idle
      <4> QED
        BY <2>2, <2>n, <4>1 DEF Brings, S!Live
    <3> QED
      BY <3>1, <3>2, <3>3, <3>4 DEF Tidy, CookieIsGood, LoginIsGood
  <2>9. CASE f # new
    <3>1. Tidy(f)
      <4>1. f \in S!Families
        BY <2>2, <2>4, <2>9 DEF S!Families
      <4> QED
        BY <2>4, <4>1 DEF Undisturbed
    <3>2. CASE Presents(r, f)
      <4>1. request[r].tab # S!Gone /\ request[r].op = "refresh"
        BY <1>k, <2>4, <3>1, <3>2 DEF Tidy, RequestIsGood
      <4>2. S!Live(request[r].new)'
        BY <2>2, <2>5, <4>1 DEF S!Live
      <4> QED
        BY <2>2, <2>4, <2>5, <3>1, <3>2, <4>1, <4>2, TidyAdvance
    <3>3. CASE ~Presents(r, f)
      <4>1. ~Presents(r, f)'
        <5>1. request'[r].token \in {S!None, request[r].token} /\ request[r].token \in S!Tokens \cup {S!None}
          BY <2>4, <2>5 DEF S!Idle
        <5> QED
          BY <2>2, <2>n, <3>3, <5>1 DEF Presents, S!Family
      <4>2. ~Brings(r, f)'
        <5>1. request'[r].new \in {S!None, new} /\ (request'[r].op = "login" => request[r].op = "login")
          BY <2>5 DEF S!Idle
        <5> QED
          BY <2>2, <2>9, <2>n, <5>1 DEF Brings, S!Family
      <4> QED
        BY <2>3, <2>4, <2>6, <2>7, <3>1, <3>3, <4>1, <4>2, TidyFrame
    <3> QED
      BY <3>2, <3>3
  <2> QED
    BY <2>8, <2>9
<1>9. ASSUME NEW r \in Requests, S!Answer(r) PROVE Tidy(f)'
  <2>1. PICK b0 \in Browsers : b0 = BrowserOf[request[r].tab]
    BY <1>9, ConstantsAssumption DEF S!Answer, S!TypeOK, S!Fits, S!Rounds, S!SessionsAssumption
  <2>2. PICK n : n = IF request[r].op \in {"login", "refresh"} THEN request[r].new ELSE S!None
    OBVIOUS
  <2>3. /\ tokens' = tokens /\ disturbed' = disturbed /\ request' = [request EXCEPT ![r] = S!Idle]
        /\ cookie' = [cookie EXCEPT ![b0] = n]
    BY <1>9, <2>1, <2>2 DEF S!Answer
  <2>4. Tidy(f)
    BY <1>s, <2>3
  <2>5. /\ cookie'[b0] = n /\ \A b \in Browsers : b # b0 => cookie'[b] = cookie[b]
        /\ request'[r] = S!Idle /\ \A q \in Requests : q # r => request'[q] = request[q]
    BY <2>3 DEF S!TypeOK
  <2>6. ~Presents(r, f)' /\ ~Brings(r, f)'
    BY <1>l, <2>3, <2>5, NoneIsNoToken DEF Presents, Brings, S!Idle
  <2>7. \A q \in Requests : q # r => /\ Presents(q, f)' <=> Presents(q, f)
                                     /\ Brings(q, f)' <=> Brings(q, f)
    <3> SUFFICES ASSUME NEW q \in Requests, q # r
                 PROVE (Presents(q, f)' <=> Presents(q, f)) /\ (Brings(q, f)' <=> Brings(q, f))
      OBVIOUS
    <3> QED
      BY <1>l, <2>3, <2>5 DEF Presents, Brings
  <2>8. \A b \in Browsers : b # b0 => (InCookie(b, f)' <=> InCookie(b, f))
    BY <1>l, <2>3, <2>5 DEF InCookie
  <2>9. n # S!None => n \in S!Tokens /\ (Presents(r, f) \/ Brings(r, f) <=> S!Family(n) = f)
    <3> SUFFICES ASSUME n # S!None
                 PROVE n \in S!Tokens /\ (Presents(r, f) \/ Brings(r, f) <=> S!Family(n) = f)
      OBVIOUS
    <3>1. /\ n = request[r].new /\ n \in S!Tokens
          /\ request[r].op = "login" => request[r].token = S!None
          /\ request[r].op = "refresh" => request[r].token \in S!Tokens /\ S!Family(n) = S!Family(request[r].token)
          /\ request[r].op \in {"login", "refresh"}
      BY <2>2 DEF S!TypeOK, S!Fits
    <3> QED
      BY <3>1, NoneIsNoToken DEF Presents, Brings
  <2>10. InCookie(b0, f)' <=> n # S!None /\ S!Family(n) = f
    BY <1>l, <2>3, <2>5, <2>9, NoneIsNoToken DEF InCookie
  <2>11. CASE Presents(r, f) \/ Brings(r, f)
    <3>1. \A q \in Requests : ~Presents(q, f)' /\ ~Brings(q, f)'
      BY <2>4, <2>6, <2>7, <2>11 DEF Tidy, RequestIsGood, LoginIsGood
    <3>2. \A b \in Browsers : b # b0 => ~InCookie(b, f)'
      BY <2>1, <2>4, <2>8, <2>11 DEF Tidy, RequestIsGood, LoginIsGood
    <3>3. InCookie(b0, f)' => S!Live(cookie[b0])'
      <4> SUFFICES ASSUME InCookie(b0, f)' PROVE S!Live(n)
        BY <2>3, <2>5 DEF S!Live
      <4> QED
        BY <2>2, <2>4, <2>10, <2>11 DEF Tidy, RequestIsGood, LoginIsGood
    <3> QED
      BY <3>1, <3>2, <3>3 DEF Tidy, CookieIsGood
  <2>12. CASE ~Presents(r, f) /\ ~Brings(r, f)
    <3>1. ~InCookie(b0, f)'
      BY <2>9, <2>10, <2>12
    <3>2. \A b \in Browsers : InCookie(b, f)' => InCookie(b, f) /\ cookie'[b] = cookie[b]
      BY <2>5, <2>8, <3>1
    <3> QED
      BY <1>l, <2>3, <2>4, <2>5, <2>6, <2>7, <2>12, <3>2, TidyFrame
  <2> QED
    BY <2>11, <2>12
<1>10. ASSUME NEW r \in Requests, S!Fail(r) PROVE Tidy(f)'
  <2>1. UNCHANGED <<tokens, cookie>> /\ request' = [request EXCEPT ![r] = S!Idle] /\ disturbed \subseteq disturbed'
    BY <1>10 DEF S!Fail
  <2>2. Tidy(f)
    BY <1>s, <2>1
  <2>3. ASSUME Presents(r, f) PROVE S!Live(request[r].token)
    <3>1. S!Missed(r) = {f}
      BY <1>k, <2>3, NoneIsNoToken DEF S!Missed, Presents
    <3>2. request[r].pc \notin {"issue", "answer", "reused", "idle"}
      BY <1>10, <2>2, <2>3, <3>1 DEF S!Fail, Tidy, RequestIsGood, S!TypeOK, S!Fits
    <3> QED
      BY <2>2, <2>3, <3>2 DEF Tidy, RequestIsGood, S!TypeOK, S!Rounds
  <2> QED
    BY <2>1, <2>2, <2>3, TidyIdle
<1> QED
  BY <1>1, <1>2, <1>3, <1>4, <1>5, <1>6, <1>7, <1>8, <1>9, <1>10 DEF S!Next

\* Only in a disturbed family is a consumed token presented: the alarm of the API
\* is never false.
LEMMA ReusedStep == S!TypeOK /\ Undisturbed /\ reused \subseteq disturbed /\ S!Next => (reused \subseteq disturbed)'
<1> SUFFICES ASSUME S!TypeOK, Undisturbed, reused \subseteq disturbed, S!Next
             PROVE  (reused \subseteq disturbed)'
  OBVIOUS
<1>1. disturbed \subseteq disturbed'
  BY DEF S!Next, S!Login, S!Refresh, S!Logout, S!ChangePassword, S!Send, S!Presented, S!Reload, S!Read,
         S!EndFamily, S!Consume, S!Issue, S!RevokeOne, S!RevokeAll, S!Answer, S!Fail
<1>2. ASSUME NEW r \in Requests, S!EndFamily(r) PROVE S!Family(request[r].token) \in disturbed
  <2>1. request[r].token \in S!Tokens /\ request[r].pc = "reused"
    BY <1>2 DEF S!EndFamily, S!TypeOK, S!Fits
  <2> QED
    BY <2>1 DEF Undisturbed, Tidy, RequestIsGood, Presents, S!Families
<1>3. reused' = reused \/ \E r \in Requests : S!EndFamily(r)
  BY DEF S!Next, S!Login, S!Refresh, S!Logout, S!ChangePassword, S!Send, S!Reload, S!Read,
         S!Consume, S!Issue, S!RevokeOne, S!RevokeAll, S!Answer, S!Fail
<1>4. CASE reused' = reused
  BY <1>1, <1>4
<1>5. ASSUME NEW r \in Requests, S!EndFamily(r) PROVE (reused \subseteq disturbed)'
  <2>1. reused' = reused \cup {S!Family(request[r].token)}
    BY <1>5 DEF S!EndFamily
  <2> QED
    BY <1>1, <1>2, <1>5, <2>1
<1> QED
  BY <1>3, <1>4, <1>5

-----------------------------------------------------------------------------
(* The three parts in one behaviour. *)

SessionsInv ==
  S!TypeOK /\ EndedDead /\ HeirsAreUnique /\ Undisturbed /\ reused \subseteq disturbed

TenancyInv == T!TypeOK /\ (outrun \/ ChecksStand) /\ FreshLoads

AccessInv == SessionsInv /\ MembersInv /\ TenancyInv

\* A new system has no token, no request and no family to break.
LEMMA SessionsInit == S!Init => SessionsInv
<1> SUFFICES ASSUME S!Init PROVE SessionsInv
  OBVIOUS
<1> USE DEF S!Init
<1>1. S!Tokens = {} /\ S!Families = {}
  BY DEF S!Tokens, S!Families
<1>2. S!Fits(S!Idle) /\ S!Idle \in S!Rounds
  BY DEF S!Fits, S!Idle, S!Rounds, S!None
<1>3. S!TypeOK
  BY <1>1, <1>2 DEF S!TypeOK
<1> QED
  BY <1>1, <1>3 DEF SessionsInv, EndedDead, HeirsAreUnique, Undisturbed

\* The members a tenant starts with include an owner.
LEMMA MembersInit == M!Init => MembersInv
<1> SUFFICES ASSUME M!Init PROVE MembersInv
  OBVIOUS
<1>1. M!TypeOK
  BY ConstantsAssumption DEF M!Init, M!TypeOK, M!MembersAssumption
<1>2. OwnersLeft
  BY DEF M!Init, OwnersLeft, M!Idle
<1> QED
  BY <1>1, <1>2 DEF MembersInv

\* A tenant starts with the modules of its template, closed under their
\* dependencies, and with an empty cache.
LEMMA TenancyInit == T!Init => TenancyInv
<1> SUFFICES ASSUME T!Init PROVE TenancyInv
  OBVIOUS
<1>1. PICK t \in DOMAIN T!TEMPLATES : enabled = T!withDependencies(T!TEMPLATES[t])
  BY ConstantsAssumption DEF T!Init, T!TenancyAssumption
<1>2. /\ T!CORE_MODULES \subseteq enabled /\ enabled \subseteq T!MODULES \ T!comingSoon
      /\ T!Closed(enabled)
  BY <1>1, DependenciesType, DependenciesClosed DEF T!AVAILABLE_MODULES
<1>3. T!TypeOK
  <2>1. tenant # T!Absent /\ tenant \in [status : T!Statuses, profile : 0 .. MaxUpdates]
    BY ConstantsAssumption DEF T!Init, T!Absent, T!Statuses, T!TenancyAssumption
  <2>2. T!NoEntry \in T!Values
    BY DEF T!NoEntry, T!Values
  <2> QED
    BY <1>2, <2>1, <2>2 DEF T!Init, T!TypeOK, T!IdleWriter, T!IdleReader
<1>4. ChecksStand /\ FreshLoads
  BY <1>2 DEF T!Init, ChecksStand, FreshLoads, T!CacheIsFresh, T!IdleWriter, T!IdleReader
<1> QED
  BY <1>3, <1>4 DEF TenancyInv

\* A step of another part leaves the part about sessions as it was.
LEMMA SessionsRest == SessionsInv /\ UNCHANGED sVars => SessionsInv'
<1> SUFFICES ASSUME SessionsInv, UNCHANGED sVars PROVE SessionsInv'
  OBVIOUS
<1> USE DEF sVars, SessionsInv
<1>1. S!TypeOK'
  BY DEF S!TypeOK, S!Tokens, S!Family, S!Families, S!Fits
<1>2. EndedDead'
  BY DEF EndedDead, Dead, Rotates, S!Tokens, S!Family, S!Live
<1>3. HeirsAreUnique'
  BY DEF HeirsAreUnique, OneHeir, Unused, Issuing, S!Tokens, S!Family, S!Families
<1>4. Undisturbed'
  BY DEF Undisturbed, Tidy, CookieIsGood, RequestIsGood, LoginIsGood, InCookie, Presents, Brings,
         S!Tokens, S!Family, S!Families, S!Live
<1> QED
  BY <1>1, <1>2, <1>3, <1>4

\* A step of another part leaves the part about members as it was.
LEMMA MembersRest == MembersInv /\ UNCHANGED mVars => MembersInv'
BY DEF mVars, MembersInv, M!TypeOK, OwnersLeft, SomebodyElse, M!Owners, M!Outcome

\* A step of another part leaves the part about tenancy as it was.
LEMMA TenancyRest == TenancyInv /\ UNCHANGED tVars => TenancyInv'
<1> SUFFICES ASSUME TenancyInv, UNCHANGED tVars PROVE TenancyInv'
  OBVIOUS
<1> USE DEF tVars, TenancyInv
<1>1. T!TypeOK'
  BY DEF T!TypeOK
<1>2. outrun \/ ChecksStand => (outrun \/ ChecksStand)'
  BY DEF ChecksStand, Standing
<1>3. FreshLoads'
  BY DEF FreshLoads, T!CacheIsFresh, T!Pending, T!Loaded
<1> QED
  BY <1>1, <1>2, <1>3

\* The inductive invariant of the three parts, which act in turn in one behaviour.
THEOREM AccessInvariant == Spec => []AccessInv
<1>1. Init => AccessInv
  BY SessionsInit, MembersInit, TenancyInit DEF Init, AccessInv
<1>2. AccessInv /\ [Next]_<<part, sVars, mVars, tVars>> => AccessInv'
  <2> SUFFICES ASSUME AccessInv, [Next]_<<part, sVars, mVars, tVars>> PROVE AccessInv'
    OBVIOUS
  <2> USE DEF AccessInv
  <2>1. S!Next => SessionsInv'
    BY SessionsTypeStep, EndedStep, HeirStep, UndisturbedStep, ReusedStep DEF SessionsInv
  <2>2. M!Next => MembersInv'
    BY MembersStep
  <2>3. T!Next => TenancyInv'
    BY TenancyTypeStep, ChecksStep, FreshStep DEF TenancyInv
  <2> QED
    BY <2>1, <2>2, <2>3, SessionsRest, MembersRest, TenancyRest DEF Next
<1> QED
  BY <1>1, <1>2, PTL DEF Spec

\* A family ended by reuse detection or by a change of the password (TokensService)
\* is never rotated back to life, for any number of tabs, browsers and requests.
THEOREM EndedFamiliesDie == Spec => []EndedStaysDead
<1>1. AccessInv => EndedStaysDead
  BY DEF AccessInv, SessionsInv, EndedDead, Dead, EndedStaysDead, S!EndedStaysDead
<1> QED
  BY <1>1, AccessInvariant, PTL

\* The Cardinality that the instance of Sessions brings is the one of FiniteSets.
LEMMA CardinalityOfSessions == ASSUME NEW X PROVE S!Cardinality(X) = Cardinality(X)
BY DEF S!Cardinality, Cardinality

\* A family in which no token was consumed twice has at most one live token.
THEOREM FamiliesHaveOneHeir == Spec => []OneLiveToken
<1>1. AccessInv => OneLiveToken
  <2> SUFFICES ASSUME AccessInv, NEW f \in S!Families \ forked
               PROVE S!Cardinality({ t \in S!Tokens : S!Family(t) = f /\ S!Live(t) }) <= 1
    BY DEF OneLiveToken, S!OneLiveToken
  <2> DEFINE X == { t \in S!Tokens : S!Family(t) = f /\ S!Live(t) }
  <2>1. \A s, t \in X : s = t
    BY DEF AccessInv, SessionsInv, HeirsAreUnique, OneHeir, Unused, S!Live
  <2>2. X = {} \/ \E t : X = {t}
    BY <2>1
  <2>3. Cardinality(X) = 0 \/ Cardinality(X) = 1
    BY <2>2, FS_EmptySet, FS_Singleton
  <2> QED
    BY <2>3, CardinalityOfSessions
<1> QED
  BY <1>1, AccessInvariant, PTL

\* Reuse detection ends a family only after something disturbed it: an answer the
\* browser missed, or a second request in flight with the same token.
THEOREM CalmTabsStayIn == Spec => []ReuseOnlyIfDisturbed
<1>1. AccessInv => ReuseOnlyIfDisturbed
  BY DEF AccessInv, SessionsInv, ReuseOnlyIfDisturbed, S!ReuseOnlyIfDisturbed
<1> QED
  BY <1>1, AccessInvariant, PTL

\* A tenant keeps an owner through every role change and removal, unless a write
\* relied on a look at the owners after which another one had gone.
THEOREM AnOwnerRemains == Spec => []OwnerRemains
<1>1. AccessInv => OwnerRemains
  BY DEF AccessInv, MembersInv, OwnersLeft, OwnerRemains, M!OwnerRemains
<1> QED
  BY <1>1, AccessInvariant, PTL

\* The modules that are on have the modules they need on, unless a switch was based
\* on a look that another switch had overtaken.
THEOREM DependenciesStayMet == Spec => []DependenciesMet
<1>1. AccessInv => DependenciesMet
  BY DEF AccessInv, TenancyInv, ChecksStand, DependenciesMet, T!DependenciesMet
<1> QED
  BY <1>1, AccessInvariant, PTL

\* What the tenant cache holds is what the database says, but while a deletion of
\* the entry is to come or when one came too early for a load.
THEOREM CacheStaysFresh == Spec => []CacheIsFresh
<1>1. AccessInv => CacheIsFresh
  BY DEF AccessInv, TenancyInv, FreshLoads, CacheIsFresh
<1> QED
  BY <1>1, AccessInvariant, PTL
=============================================================================
