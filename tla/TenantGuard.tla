----------------------------- MODULE TenantGuard -----------------------------
(***************************************************************************)
(* The tenant guard: every operation of the Prisma client is rewritten for *)
(* the tenant of the async context it is sent in                           *)
(* (packages/database/src/tenant-guard.ts, tenant-context.ts). A query is  *)
(* lazy: it is sent when it is awaited, which may be after the scope it    *)
(* was written in has been left.                                           *)
(*                                                                         *)
(* A where clause is the ids it asks for and the tenant it names; a row to *)
(* be created names a tenant or none, and may bring a nested row along. So *)
(* may the data of an update, which some controllers take as it comes, and *)
(* which the guard sends as it is. Rows are related by a foreign key that  *)
(* is an id alone: who makes a link, or includes one in what is read,      *)
(* follows the id, whichever tenant the row at its end has.                *)
(***************************************************************************)
EXTENDS Integers, Sequences, SequencesExt

CONSTANTS
  Tenants,    \* the businesses
  Ids,        \* primary keys, and of a link the key of the row it belongs to
  MaxScopes   \* bound: scopes inside one another

\* What is assumed of the constants, wherever they are given values.
GuardAssumption ==
  /\ Tenants # {} /\ Ids # {} /\ MaxScopes \in Nat
  /\ Tenants \cap {"no row", "no tenant", "system", "nobody"} = {}

VARIABLES
  owner,    \* scoped table -> Ids -> the tenant of the row, or Absent
  scopes,   \* the async contexts of a task, innermost last
  pending,  \* the query written and not yet sent
  reply,    \* what the last query read or changed, and for whom it was meant
  mixed     \* ghost: the ids whose row and link a query gave to tenants of its choice

vars == <<owner, scopes, pending, reply, mixed>>

-----------------------------------------------------------------------------
Absent  == "no row"
Unnamed == "no tenant"
System  == "system"    \* the context of runAsSystem
Nobody  == "nobody"    \* outside every context

\* The models: two tables with a tenantId, the table of tenants itself, and one that
\* is left unscoped on purpose. A link belongs to an employee and to a service, and is
\* deleted with either; the first table stands for both, so that a link has one key.
Tables == {"Employee", "EmployeeService"}
EXPLICITLY_UNSCOPED == {"ProcessedWebhook"}
TENANT_KEY_BY_MODEL == {"Tenant"}
ScopedModels == Tables \cup TENANT_KEY_BY_MODEL
Models == ScopedModels \cup EXPLICITLY_UNSCOPED

READ_OPERATIONS         == {"findMany"}
UNIQUE_READ_OPERATIONS  == {"findUnique"}
UNIQUE_WRITE_OPERATIONS == {"update", "delete", "upsert"}
BULK_WRITE_OPERATIONS   == {"updateMany", "deleteMany"}
CREATE_OPERATIONS       == {"create"}

Wheres == [ids : SUBSET Ids \ {{}}, names : Tenants \cup {Unnamed}]
NoData  == [id |-> 0, tenant |-> Unnamed, nested |-> Absent]
Data    == [id : Ids, tenant : Tenants \cup {Unnamed}, nested : Tenants \cup {Unnamed, Absent}]
Changes == [id : {0}, tenant : Tenants \cup {Unnamed}, nested : Tenants \cup {Unnamed, Absent}]
NoQuery == [model |-> "none"]
NoReply == [meant |-> Nobody, rows |-> {}, attached |-> {}]

\* getStore: the innermost scope.
Context == IF scopes = <<>> THEN Nobody ELSE Last(scopes)

-----------------------------------------------------------------------------
(* The database. The key of a tenant's own row is its id.                    *)
Rows(model) ==
  CASE model \in Tables ->
         { [id |-> i, tenant |-> owner[model][i]] : i \in { j \in Ids : owner[model][j] # Absent } }
    [] model = "Tenant" -> { [id |-> t, tenant |-> t] : t \in Tenants }
    [] OTHER -> {}

Matches(model, row, w) ==
  /\ model \in Tables => row.id \in w.ids
  /\ w.names # Unnamed => row.tenant = w.names

\* The rows all clauses of an AND agree on.
Matching(model, clauses) == { row \in Rows(model) : \A w \in clauses : Matches(model, row, w) }

-----------------------------------------------------------------------------
(* The rewriting.                                                            *)

\* A mistake the checks must catch: a name in the where clause keeps the tenant out.
withTenantWhereSpread(w, t) == { [w EXCEPT !.names = IF @ = Unnamed THEN t ELSE @] }

\* The two ways the tenant is added to a where clause: ANDed to it, so that a name in
\* it still counts, or written over the name in it.
withTenantWhere(w, t) == { w, [ids |-> Ids, names |-> t] }
withTenantUniqueWhere(w, t) == { [w EXCEPT !.names = t] }

\* assertWhereTenant and the checks of stampRow and assertTenantOnData: what names a
\* tenant names this one.
Named(name, t) == name \in {Unnamed, Absent, t}

\* assertTenantOnData, stampNestedCreates: the row and what is nested in it.
Stamped(d, t) == [d EXCEPT !.tenant = t, !.nested = IF @ = Absent THEN Absent ELSE t]

Refused == [clauses |-> {}, data |-> NoData, refused |-> TRUE]
Sent(clauses, data) == [clauses |-> clauses, data |-> data, refused |-> FALSE]

\* $allOperations for a model that is scoped, in the context of a tenant.
Guarded(q, t) ==
  CASE q.op \in READ_OPERATIONS \cup BULK_WRITE_OPERATIONS ->
         Sent(withTenantWhere(q.where, t), q.data)
    [] q.op \in UNIQUE_READ_OPERATIONS ->
         IF Named(q.where.names, t) THEN Sent(withTenantUniqueWhere(q.where, t), q.data)
                                    ELSE Refused
    [] q.op \in UNIQUE_WRITE_OPERATIONS ->
         IF /\ Named(q.where.names, t)
            /\ q.op = "upsert" => Named(q.data.tenant, t) /\ Named(q.data.nested, t)
         THEN Sent(withTenantUniqueWhere(q.where, t),
                   IF q.op = "upsert" THEN Stamped(q.data, t) ELSE q.data)
         ELSE Refused
    [] q.op \in CREATE_OPERATIONS ->
         IF Named(q.data.tenant, t) /\ Named(q.data.nested, t)
         THEN Sent({}, Stamped(q.data, t)) ELSE Refused
    [] OTHER -> Refused

\* $allOperations.
allOperations(q) ==
  CASE q.model \notin ScopedModels \/ Context = System -> Sent({q.where}, q.data)
    [] q.model \in ScopedModels /\ Context = Nobody    -> Refused
    [] OTHER -> Guarded(q, Context)

-----------------------------------------------------------------------------
Init ==
  /\ owner = [m \in Tables |-> [i \in Ids |-> Absent]]
  /\ scopes = <<>>
  /\ pending = NoQuery
  /\ reply = NoReply
  /\ mixed = {}

\* run, runAsSystem: a request is given its tenant by the interceptor, a webhook, a
\* job or a lookup enters the system scope, and each may open another one inside.
Enter(c) ==
  /\ pending = NoQuery
  /\ Len(scopes) < MaxScopes
  /\ scopes' = Append(scopes, c)
  /\ reply' = NoReply
  /\ UNCHANGED <<owner, pending, mixed>>

\* run awaits what its function returns, so a query written in a scope is sent in it.
LeaveBeforeTheQuery ==
  /\ scopes # <<>>
  /\ scopes' = Front(scopes)
  /\ reply' = NoReply
  /\ UNCHANGED <<owner, pending, mixed>>

Leave ==
  /\ pending = NoQuery
  /\ LeaveBeforeTheQuery

\* A call on the guarded client: a promise that has not been sent.
Call(model, op, w, d) ==
  /\ pending = NoQuery
  /\ pending' = [model |-> model, op |-> op, where |-> w, data |-> d, meant |-> Context]
  /\ reply' = NoReply
  /\ UNCHANGED <<owner, scopes, mixed>>

\* Unique operations ask for one id, and so does the row they create.
Unique(w) == \E i \in Ids : w.ids = {i}

Read ==
  \E model \in Models, op \in READ_OPERATIONS \cup UNIQUE_READ_OPERATIONS, w \in Wheres :
    /\ op \in UNIQUE_READ_OPERATIONS => Unique(w)
    /\ Call(model, op, w, NoData)

\* The data of an update is what the caller sends: it may give the row to a tenant, and
\* a link that is nested in it.
Write ==
  \E model \in ScopedModels, w \in Wheres, d \in Changes,
     op \in {"update", "delete"} \cup BULK_WRITE_OPERATIONS :
    /\ op \notin BULK_WRITE_OPERATIONS => Unique(w)
    /\ op \in {"delete", "deleteMany"} => d = NoData
    /\ op = "updateMany" \/ model # "Employee" => d.nested = Absent
    /\ model = "Tenant" => op = "update" /\ d = NoData
    /\ Call(model, op, w, d)

\* An employee with a link nested in it, or a link for an id the caller has.
Create ==
  \E model \in Tables, op \in {"create", "upsert"}, w \in Wheres, d \in Data :
    /\ w.ids = {d.id}
    /\ op = "create" => w.names = Unnamed
    /\ model = "EmployeeService" => op = "create" /\ d.nested = Absent
    /\ Call(model, op, w, d)

-----------------------------------------------------------------------------
(* What a query that was let through does to its table.                      *)

IdsOf(rows) == { row.id : row \in rows }

\* The links go with what they belong to.
Deleted(model, rows) ==
  owner' = [m \in Tables |->
              IF m = model \/ model = "Employee"
              THEN [i \in Ids |-> IF i \in IdsOf(rows) THEN Absent ELSE owner[m][i]]
              ELSE owner[m]]

\* A row to be made needs a tenant and a free key; a link needs a row with its key,
\* of any tenant.
Creates(model, d) ==
  /\ d.tenant # Unnamed /\ d.nested # Unnamed
  /\ owner[model][d.id] = Absent
  /\ model = "EmployeeService" => owner["Employee"][d.id] # Absent

Created(model, d) ==
  owner' = [m \in Tables |->
              [owner[m] EXCEPT ![d.id] = IF m = model THEN d.tenant
                                         ELSE IF d.nested = Absent THEN @ ELSE d.nested]]

CreatedRows(d) ==
  { [id |-> d.id, tenant |-> d.tenant] } \cup
  { [id |-> d.id, tenant |-> n] : n \in {d.nested} \ {Absent} }

\* An update gives its rows to the tenant it names, and makes the nested link.
Changeable(rows, d) ==
  d.nested # Absent =>
    /\ d.nested # Unnamed
    /\ \A i \in IdsOf(rows) : owner["EmployeeService"][i] = Absent

Changed(model, rows, d) ==
  owner' = [m \in Tables |->
              [i \in Ids |->
                 IF i \notin IdsOf(rows) THEN owner[m][i]
                 ELSE IF m = model THEN (IF d.tenant = Unnamed THEN owner[m][i] ELSE d.tenant)
                 ELSE IF d.nested = Absent THEN owner[m][i] ELSE d.nested]]

\* What include brings along, cascades with or is nested in the rows: by their ids.
Related(tables, model, rows) ==
  IF model \notin Tables THEN {}
  ELSE UNION { { [id |-> i, tenant |-> tables[m][i]] :
                   i \in { j \in Ids \cap IdsOf(rows) : tables[m][j] # Absent } } :
               m \in Tables \ {model} }

Answer(rows, attached) ==
  reply' = [meant |-> pending.meant, rows |-> rows, attached |-> attached]

\* A link was made for a row of somebody else's, or both were made for no tenant.
MadeMixed(model, d) ==
  \/ pending.meant \notin Tenants
  \/ model = "EmployeeService" /\ owner["Employee"][d.id] # pending.meant

\* The data of an update named a tenant that is not the one it was meant for.
NamedAnother(d) == ~({d.tenant, d.nested} \subseteq {Unnamed, Absent, pending.meant})

\* The query is awaited: guarded in the context of this moment, then run.
Send ==
  /\ pending # NoQuery
  /\ LET model == pending.model
         sent == allOperations(pending)
         rows == Matching(model, sent.clauses)
         data == sent.data
         making == pending.op = "create" \/ (pending.op = "upsert" /\ rows = {})
         updating == pending.op \in {"update", "updateMany"} /\ data # NoData
         deleting == pending.op \in {"delete", "deleteMany"}
     IN  \/ /\ \/ sent.refused
               \/ making /\ ~Creates(model, data)
               \/ updating /\ ~Changeable(rows, data)
            /\ Answer({}, {})
            /\ UNCHANGED <<owner, mixed>>
         \/ /\ ~sent.refused /\ making /\ Creates(model, data)
            /\ Created(model, data)
            /\ Answer(CreatedRows(data), Related(owner', model, CreatedRows(data)))
            /\ mixed' = (mixed \ {data.id}) \cup { i \in {data.id} : MadeMixed(model, data) }
         \/ /\ ~sent.refused /\ updating /\ Changeable(rows, data)
            /\ Changed(model, rows, data)
            /\ Answer(rows, Related(owner', model, rows))
            /\ mixed' = mixed \cup { i \in IdsOf(rows) : NamedAnother(data) }
         \/ /\ ~sent.refused /\ deleting
            /\ Deleted(model, rows)
            /\ Answer(rows, Related(owner, model, rows))
            /\ UNCHANGED mixed
         \/ /\ ~sent.refused /\ ~making /\ ~updating /\ ~deleting
            /\ Answer(rows, Related(owner, model, rows))
            /\ UNCHANGED <<owner, mixed>>
  /\ pending' = NoQuery
  /\ UNCHANGED scopes

Next ==
  \/ \E c \in Tenants \cup {System} : Enter(c)
  \/ Leave
  \/ Read
  \/ Write
  \/ Create
  \/ Send

Spec == Init /\ [][Next]_vars

-----------------------------------------------------------------------------
(* What is promised.                                                         *)

\* Whatever the where clause of a query that was written for a tenant names, the rows
\* it finds, changes or deletes are that tenant's at that moment, and so are those a
\* create makes, nested ones included, although the guard only looks at the context
\* when the query is sent. What is attached to them (read by an include, deleted by a
\* cascade, nested in an update) is reached by its id and not by the guard: it is that
\* tenant's too, unless an update named another tenant for one of the two, or the link
\* was made for a row of another tenant, or both by a query that was meant for none.
\* Those gaps (the data of an update, foreign ids) are the guard's: it scopes where
\* clauses and stamps what is created, and leaves the rest to its callers (invariant I1
\* of the repository, applyTenantGuard with tenantContext.run).
OwnRowsOnly ==
  reply.meant \in Tenants =>
    /\ \A row \in reply.rows : row.tenant = reply.meant
    /\ \A row \in reply.attached : row.tenant = reply.meant \/ row.id \in mixed
=============================================================================
