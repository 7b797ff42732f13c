------------------------------ MODULE Tenancy ------------------------------
(***************************************************************************)
(* A business, its modules and the cached context that every request       *)
(* begins with (apps/api/src/modules/tenants/tenants.service.ts,           *)
(* infra/tenant-cache.service.ts, infra/redis.service.ts). The writers     *)
(* change the database first and then delete the cache entry; a reader     *)
(* that misses loads the database and then stores what it found. None of   *)
(* the pairs is atomic. The entry under the slug is never filled: nothing  *)
(* calls getTenantBySlug.                                                  *)
(***************************************************************************)
EXTENDS Modules

CONSTANTS
  Templates,   \* templates to begin with
  Switched,    \* modules switched on and off
  Writers,     \* requests that change the business, in flight at a time
  Readers,     \* requests that need its context, in flight at a time
  MaxUpdates   \* bound: changes of the profile

\* What is assumed of the constants, wherever they are given values.
TenancyAssumption ==
  /\ Templates \subseteq DOMAIN TEMPLATES
  /\ Switched \subseteq AVAILABLE_MODULES
  /\ MaxUpdates \in Nat

VARIABLES
  tenant,    \* the Tenant row: its status and the version of the rest, or Absent
  enabled,   \* TenantModule rows that are enabled
  cache,     \* the entry tenant:<id> of Redis, or NoEntry
  writer,    \* Writers -> the request in progress
  reader,    \* Readers -> the request in progress
  overtaken, \* ghost: a module was switched after another one had been since the look
  excused    \* ghost: the entry is the result of a race or of a writer that died

vars == <<tenant, enabled, cache, writer, reader, overtaken, excused>>

-----------------------------------------------------------------------------
Absent == [status |-> "ABSENT", profile |-> 0]

\* load: what a look at the database yields. null is cached like any other value.
Context(t, modules) ==
  [status |-> t.status, profile |-> t.profile, enabledModules |-> modules]

Loaded == Context(tenant, enabled)

NoEntry == [status |-> "NO ENTRY", profile |-> 0, enabledModules |-> {}]

IdleWriter == [pc |-> "idle", op |-> "none", module |-> "none", on |-> FALSE, late |-> FALSE]

IdleReader == [pc |-> "idle", value |-> NoEntry, late |-> FALSE]

\* create: the business, its owner and its modules in one transaction. The id is
\* new, so there is nothing to invalidate.
Init ==
  /\ tenant = [status |-> "ONBOARDING", profile |-> 0]
  /\ enabled \in { withDependencies(TEMPLATES[t]) : t \in Templates }
  /\ cache = NoEntry
  /\ writer = [w \in Writers |-> IdleWriter]
  /\ reader = [r \in Readers |-> IdleReader]
  /\ overtaken = FALSE
  /\ excused = FALSE

Finish(w) == writer' = [writer EXCEPT ![w] = IdleWriter]

\* The row of the business has changed; the entry is next.
Written(w) == writer' = [writer EXCEPT ![w] = [IdleWriter EXCEPT !.pc = "invalidate", !.op = "tenant"]]

-----------------------------------------------------------------------------
(* The writers. *)

\* update: name, logo, colour, time zone, language.
Update(w) ==
  /\ writer[w] = IdleWriter
  /\ tenant # Absent
  /\ tenant.profile < MaxUpdates
  /\ tenant' = [tenant EXCEPT !.profile = @ + 1]
  /\ Written(w)
  /\ UNCHANGED <<enabled, cache, reader, overtaken, excused>>

\* updateSettings, and advanceOnboarding before its last step: nothing of it is in
\* the context, which is dropped all the same.
UpdateSettings(w) ==
  /\ writer[w] = IdleWriter
  /\ tenant # Absent
  /\ Written(w)
  /\ UNCHANGED <<tenant, enabled, cache, reader, overtaken, excused>>

\* advanceOnboarding, the last step.
CompleteOnboarding(w) ==
  /\ writer[w] = IdleWriter
  /\ tenant # Absent
  /\ tenant' = [tenant EXCEPT !.status = "ACTIVE"]
  /\ Written(w)
  /\ UNCHANGED <<enabled, cache, reader, overtaken, excused>>

\* purge: the row and, by cascade, its modules.
Purge(w) ==
  /\ writer[w] = IdleWriter
  /\ tenant # Absent
  /\ tenant' = Absent
  /\ enabled' = {}
  /\ Written(w)
  /\ UNCHANGED <<cache, reader, overtaken, excused>>

\* A mistake the checks must catch: dependents are not looked at.
LookLess(w, m, on) ==
  /\ writer[w] = IdleWriter
  /\ tenant # Absent
  /\ m \notin comingSoon
  /\ on => missingDependencies(m, enabled) = {}
  /\ ~on => m \notin CORE_MODULES
  /\ writer' = [writer EXCEPT ![w] = [pc |-> "switch", op |-> "module", module |-> m,
                                      on |-> on, late |-> FALSE]]
  /\ UNCHANGED <<tenant, enabled, cache, reader, overtaken, excused>>

\* setModule: the look at the modules and the checks on it.
Look(w, m, on) ==
  /\ writer[w] = IdleWriter
  /\ tenant # Absent
  /\ m \notin comingSoon
  /\ on => missingDependencies(m, enabled) = {}
  /\ ~on => m \notin CORE_MODULES /\ dependentsOf(m, enabled) = {}
  /\ writer' = [writer EXCEPT ![w] = [pc |-> "switch", op |-> "module", module |-> m,
                                      on |-> on, late |-> FALSE]]
  /\ UNCHANGED <<tenant, enabled, cache, reader, overtaken, excused>>

\* setModule: the upsert, whatever has been switched since the look. The row of a
\* business that is gone cannot be written.
Switch(w) ==
  LET m == writer[w].module IN
  /\ writer[w].pc = "switch"
  /\ tenant # Absent
  /\ enabled' = IF writer[w].on THEN enabled \cup {m} ELSE enabled \ {m}
  /\ overtaken' = (overtaken \/ writer[w].late)
  /\ writer' = [v \in Writers |->
       IF v = w THEN [IdleWriter EXCEPT !.pc = "invalidate", !.op = "module"]
       ELSE IF writer[v].pc = "switch" /\ enabled' # enabled
            THEN [writer[v] EXCEPT !.late = TRUE]
       ELSE writer[v]]
  /\ UNCHANGED <<tenant, cache, reader, excused>>

\* A mistake the checks must catch: setModule forgets the cache.
InvalidateSome(w) ==
  /\ writer[w].pc = "invalidate"
  /\ cache' = IF writer[w].op = "module" THEN cache ELSE NoEntry
  /\ excused' = FALSE
  /\ reader' = [r \in Readers |-> IF reader[r].pc = "store"
                                  THEN [reader[r] EXCEPT !.late = TRUE] ELSE reader[r]]
  /\ Finish(w)
  /\ UNCHANGED <<tenant, enabled, overtaken>>

\* invalidate: DEL. A reader that has loaded and not stored yet is late from now on.
Invalidate(w) ==
  /\ writer[w].pc = "invalidate"
  /\ cache' = NoEntry
  /\ excused' = FALSE
  /\ reader' = [r \in Readers |-> IF reader[r].pc = "store"
                                  THEN [reader[r] EXCEPT !.late = TRUE] ELSE reader[r]]
  /\ Finish(w)
  /\ UNCHANGED <<tenant, enabled, overtaken>>

\* The process dies or a statement fails. Without Redis, DEL fails too.
WriterFails(w) ==
  /\ writer[w] # IdleWriter
  /\ excused' = (excused \/ writer[w].pc = "invalidate")
  /\ reader' = [r \in Readers |-> IF reader[r].pc = "store" /\ writer[w].pc = "invalidate"
                                  THEN [reader[r] EXCEPT !.late = TRUE] ELSE reader[r]]
  /\ Finish(w)
  /\ UNCHANGED <<tenant, enabled, cache, overtaken>>

-----------------------------------------------------------------------------
(* The readers: remember, for getTenant of TenantGuard. *)

\* A miss, or Redis does not answer.
Miss(r) ==
  /\ reader[r] = IdleReader
  /\ reader' = [reader EXCEPT ![r].pc = "load"]
  /\ UNCHANGED <<tenant, enabled, cache, writer, overtaken, excused>>

Load(r) ==
  /\ reader[r].pc = "load"
  /\ reader' = [reader EXCEPT ![r] = [pc |-> "store", value |-> Loaded, late |-> FALSE]]
  /\ UNCHANGED <<tenant, enabled, cache, writer, overtaken, excused>>

Store(r) ==
  /\ reader[r].pc = "store"
  /\ cache' = reader[r].value
  /\ excused' = reader[r].late
  /\ reader' = [reader EXCEPT ![r] = IdleReader]
  /\ UNCHANGED <<tenant, enabled, writer, overtaken>>

ReaderFails(r) ==
  /\ reader[r] # IdleReader
  /\ reader' = [reader EXCEPT ![r] = IdleReader]
  /\ UNCHANGED <<tenant, enabled, cache, writer, overtaken, excused>>

\* The minute of an entry is over.
Expire ==
  /\ cache # NoEntry
  /\ cache' = NoEntry
  /\ excused' = FALSE
  /\ UNCHANGED <<tenant, enabled, writer, reader, overtaken>>

Next ==
  \/ \E w \in Writers :
       \/ Update(w) \/ UpdateSettings(w) \/ CompleteOnboarding(w) \/ Purge(w)
       \/ \E m \in Switched, on \in BOOLEAN : Look(w, m, on)
       \/ Switch(w) \/ Invalidate(w) \/ WriterFails(w)
  \/ \E r \in Readers : Miss(r) \/ Load(r) \/ Store(r) \/ ReaderFails(r)
  \/ Expire

Spec == Init /\ [][Next]_vars

-----------------------------------------------------------------------------
Statuses == {"ABSENT", "ONBOARDING", "ACTIVE"}

Values == [status : Statuses \cup {"NO ENTRY"}, profile : Nat, enabledModules : SUBSET MODULES]

TypeOK ==
  /\ tenant \in [status : Statuses, profile : 0 .. MaxUpdates]
  /\ enabled \subseteq MODULES \ comingSoon
  /\ tenant = Absent => enabled \cap CORE_MODULES = {}
  /\ tenant # Absent => CORE_MODULES \subseteq enabled
  /\ writer \in [Writers -> [pc : {"idle", "switch", "invalidate"},
                             op : {"none", "tenant", "module"},
                             module : Switched \cup {"none"}, on : BOOLEAN, late : BOOLEAN]]
  /\ \A w \in Writers : writer[w].pc = "switch" =>
       writer[w].module \in Switched /\ (writer[w].on \/ writer[w].module \notin CORE_MODULES)
  /\ reader \in [Readers -> [pc : {"idle", "load", "store"}, value : Values, late : BOOLEAN]]
  /\ cache \in Values
  /\ overtaken \in BOOLEAN /\ excused \in BOOLEAN

\* A module that is on has everything it depends on. The checks and the write are
\* separate statements, so the one way out is a module switched after another
\* one had been since the look.
DependenciesMet == Closed(enabled) \/ overtaken

Pending == \E w \in Writers : writer[w].pc = "invalidate"

\* A cached context is the one in the database, but while the change is being
\* announced, or when the loader was overtaken by the announcement, or when the
\* writer died before it.
CacheIsFresh == cache # NoEntry => cache = Loaded \/ Pending \/ excused

=============================================================================
