---------------------------- MODULE OfficeProofs ----------------------------
(***************************************************************************)
(* Proofs about the components of MCOffice, for every value of their       *)
(* constants.  Each has an inductive invariant of its own, and the others  *)
(* are at rest or move by themselves, so that a step of MCOffice is a step *)
(* of it or changes nothing of it.                                         *)
(***************************************************************************)
EXTENDS MCOffice, FiniteSetTheorems, SequenceTheorems, TLAPS

allVars == <<part, lVars, gVars, cVars, sVars, dVars, oVars>>

\* A step of MCOffice is one of each component, or leaves it alone.
LEMMA OfficeStep ==
  ASSUME [Next]_allVars
  PROVE  /\ [L!Next]_(L!vars) /\ [G!Next]_(G!vars) /\ [S!Next]_(S!vars) /\ [D!Next]_(D!vars)
         /\ [O!Next]_(O!vars) /\ UNCHANGED part
         /\ part = "stock" => [Stock!Next]_(Stock!vars)
         /\ part # "stock" => [Links!Next]_(Links!vars)
BY DEF Next, LoginNext, GuardNext, LinksNext, StockNext, StaffNext, DeskNext, OnboardingNext,
   allVars, lVars, gVars, cVars, sVars, dVars, oVars,
   L!vars, L!perKey, L!perAccount, G!vars, S!vars, D!vars, O!vars, Stock!vars, Links!vars,
   Stock!server, Stock!ghosts, Links!server, Links!ghosts

-----------------------------------------------------------------------------
(* The tenant guard.                                                         *)

\* A query as the program writes it: what is made or updated, and with what.
WellFormed(q) ==
  /\ q.where \in G!Wheres
  /\ q.op \in {"create", "upsert"} => q.data \in G!Data /\ q.model \in G!Tables
  /\ q.op \in {"create", "upsert"} /\ q.model = "EmployeeService" => q.data.nested = G!Absent
  /\ q.op \in {"update", "updateMany"} => q.data \in G!Changes
  /\ q.op \in {"update", "updateMany"} /\ q.model \notin G!Tables => q.data = G!NoData
  /\ q.op \in {"update", "updateMany"} /\ q.model # "Employee" => q.data.nested = G!Absent
  /\ q.op \in {"delete", "deleteMany"} => q.model \in G!Tables

\* A query that waits is one that was written in the scope that is open.
PendingInv ==
  pending # G!NoQuery => pending.meant = G!Context /\ WellFormed(pending)

\* A row and its link have one tenant, unless a query that could gave them two.
Together(tables, apart) ==
  \A i \in Ids \ apart :
    tables["Employee"][i] = G!Absent \/ tables["EmployeeService"][i] = G!Absent
      \/ tables["Employee"][i] = tables["EmployeeService"][i]

OwnersType ==
  /\ owner \in [G!Tables -> [Ids -> Tenants \cup {G!Absent}]]
  /\ scopes \in Seq(Tenants \cup {G!System})
  /\ \A i \in Ids : owner["EmployeeService"][i] # G!Absent => owner["Employee"][i] # G!Absent

GuardInv ==
  /\ OwnersType
  /\ PendingInv
  /\ Together(owner, mixed)
  /\ G!OwnRowsOnly

\* The names that stand for no tenant are nobody's.
LEMMA TenantFacts ==
  ASSUME NEW t \in Tenants
  PROVE  t # G!Absent /\ t # G!Unnamed /\ t # G!System /\ t # G!Nobody
BY ConstantsAssumption DEF G!GuardAssumption, G!Absent, G!Unnamed, G!System, G!Nobody

\* The clauses of a guarded query match rows of its tenant only.
LEMMA ClausesFacts ==
  ASSUME NEW t \in Tenants, NEW w \in G!Wheres, NEW model, NEW x
  PROVE  /\ x \in G!Matching(model, G!withTenantWhere(w, t)) => x.tenant = t
         /\ x \in G!Matching(model, G!withTenantUniqueWhere(w, t)) => x.tenant = t
<1>1. [ids |-> Ids, names |-> t].names = t /\ [w EXCEPT !.names = t].names = t
  BY DEF G!Wheres
<1>2. [ids |-> Ids, names |-> t] \in G!withTenantWhere(w, t)
  BY DEF G!withTenantWhere
<1>3. [w EXCEPT !.names = t] \in G!withTenantUniqueWhere(w, t)
  BY DEF G!withTenantUniqueWhere
<1> QED
  BY <1>1, <1>2, <1>3, TenantFacts DEF G!Matching, G!Matches

\* A row to be made, and the one nested in it, are stamped with the tenant.
LEMMA StampedFacts ==
  ASSUME NEW t \in Tenants, NEW d \in G!Data, NEW x \in G!CreatedRows(G!Stamped(d, t))
  PROVE  x.tenant = t
<1> DEFINE e == G!Stamped(d, t)
<1>1. e.tenant = t /\ e.nested \in {G!Absent, t}
  BY DEF G!Stamped, G!Data
<1> HIDE DEF e
<1>2. x = [id |-> e.id, tenant |-> e.tenant]
      \/ \E n \in {e.nested} \ {G!Absent} : x = [id |-> e.id, tenant |-> n]
  BY DEF G!CreatedRows, e
<1> QED
  BY <1>1, <1>2

\* What the guard sends for a tenant.
LEMMA GuardedFacts ==
  ASSUME NEW t \in Tenants, NEW q, q.where \in G!Wheres, ~G!Guarded(q, t).refused
  PROVE  /\ q.op \notin G!CREATE_OPERATIONS =>
              G!Guarded(q, t).clauses \in {G!withTenantWhere(q.where, t), G!withTenantUniqueWhere(q.where, t)}
         /\ q.op \in {"create", "upsert"} => G!Guarded(q, t).data = G!Stamped(q.data, t)
         /\ q.op \in {"update", "updateMany"} => G!Guarded(q, t).data = q.data
<1> USE DEF G!READ_OPERATIONS, G!BULK_WRITE_OPERATIONS, G!UNIQUE_READ_OPERATIONS,
            G!UNIQUE_WRITE_OPERATIONS, G!CREATE_OPERATIONS
<1>1. CASE q.op \in G!READ_OPERATIONS \cup G!BULK_WRITE_OPERATIONS
  <2>1. G!Guarded(q, t) = G!Sent(G!withTenantWhere(q.where, t), q.data)
    BY <1>1 DEF G!Guarded
  <2> QED
    BY <1>1, <2>1 DEF G!Sent
<1>2. CASE q.op \in G!UNIQUE_READ_OPERATIONS
  <2>1. G!Guarded(q, t) \in {G!Sent(G!withTenantUniqueWhere(q.where, t), q.data), G!Refused}
    BY <1>2 DEF G!Guarded
  <2> QED
    BY <1>2, <2>1 DEF G!Sent, G!Refused
<1>3. CASE q.op \in G!UNIQUE_WRITE_OPERATIONS
  <2>1. G!Guarded(q, t) \in {G!Refused, G!Sent(G!withTenantUniqueWhere(q.where, t),
          IF q.op = "upsert" THEN G!Stamped(q.data, t) ELSE q.data)}
    BY <1>3 DEF G!Guarded
  <2> QED
    BY <1>3, <2>1 DEF G!Sent, G!Refused
<1>4. CASE q.op \in G!CREATE_OPERATIONS
  <2>1. G!Guarded(q, t) \in {G!Sent({}, G!Stamped(q.data, t)), G!Refused}
    BY <1>4 DEF G!Guarded
  <2> QED
    BY <1>4, <2>1 DEF G!Sent, G!Refused
<1>5. CASE q.op \notin {"findMany", "findUnique", "update", "delete", "upsert", "updateMany",
                        "deleteMany", "create"}
  <2>1. G!Guarded(q, t) = G!Refused
    BY <1>5 DEF G!Guarded
  <2> QED
    BY <2>1 DEF G!Refused
<1> QED
  BY <1>1, <1>2, <1>3, <1>4, <1>5

\* The context is a tenant's, the system's or nobody's.
LEMMA ContextType ==
  ASSUME OwnersType
  PROVE  G!Context \in Tenants \cup {G!System, G!Nobody}
<1>1. CASE scopes = <<>>
  BY <1>1 DEF G!Context
<1>2. CASE scopes # <<>>
  <2>1. scopes[Len(scopes)] \in Tenants \cup {G!System}
    BY <1>2 DEF OwnersType
  <2> QED
    BY <1>2, <2>1 DEF G!Context, G!Last
<1> QED
  BY <1>1, <1>2

\* The guard passes on what an update's data holds, and stamps what is made for a tenant.
LEMMA SentData ==
  ASSUME OwnersType, NEW q, q.where \in G!Wheres, ~G!allOperations(q).refused,
         q.op \in {"create", "upsert"} => q.model \in G!Tables
  PROVE  /\ q.op \in {"update", "updateMany"} => G!allOperations(q).data = q.data
         /\ q.op \in {"create", "upsert"} /\ G!Context \notin Tenants => G!allOperations(q).data = q.data
         /\ q.op \in {"create", "upsert"} /\ G!Context \in Tenants =>
              G!allOperations(q).data = G!Stamped(q.data, G!Context)
<1>1. G!allOperations(q) \in {G!Sent({q.where}, q.data), G!Refused, G!Guarded(q, G!Context)}
  BY DEF G!allOperations
<1>2. G!Sent({q.where}, q.data).data = q.data /\ G!Refused.refused
  BY DEF G!Sent, G!Refused
<1>3. G!Context \in Tenants => G!Context \notin {G!System, G!Nobody}
  BY TenantFacts
<1>4. q.op \in {"create", "upsert"} /\ G!Context \in Tenants =>
        G!allOperations(q) = G!Guarded(q, G!Context)
  BY <1>3 DEF G!allOperations, G!ScopedModels
<1>5. G!Context \notin Tenants =>
        G!allOperations(q) = G!Sent({q.where}, q.data)
  BY <1>2, ContextType DEF G!allOperations
<1>6. CASE G!Context \in Tenants /\ q.op \in {"create", "upsert"}
  <2>1. ~G!Guarded(q, G!Context).refused
    BY <1>4, <1>6
  <2> QED
    BY <1>4, <1>6, <2>1, GuardedFacts
<1>7. CASE G!Context \in Tenants /\ q.op \in {"update", "updateMany"}
  <2>1. G!allOperations(q) \in {G!Sent({q.where}, q.data), G!Guarded(q, G!Context)}
    BY <1>1, <1>2
  <2>2. ~G!Guarded(q, G!Context).refused => G!Guarded(q, G!Context).data = q.data
    BY <1>7, GuardedFacts
  <2> QED
    BY <1>2, <1>7, <2>1, <2>2
<1> QED
  BY <1>2, <1>5, <1>6, <1>7

\* The rows of a table: their ids are keys, and their tenants the owners.
LEMMA RowsFacts ==
  ASSUME NEW model \in G!Tables, NEW clauses, NEW x \in G!Matching(model, clauses)
  PROVE  x.id \in Ids /\ x.tenant = owner[model][x.id] /\ owner[model][x.id] # G!Absent
<1>1. G!Rows(model) = { [id |-> i, tenant |-> owner[model][i]] : i \in { k \in Ids : owner[model][k] # G!Absent } }
  BY DEF G!Rows, G!Tables
<1>2. x \in G!Rows(model)
  BY DEF G!Matching
<1> QED
  BY <1>1, <1>2

\* The rows are a tenant's where their row and link are together.
RowsOwn(tables, apart, model, rows, t) ==
  \A x \in rows : x.id \in Ids => x.id \in apart \/ tables[model][x.id] = t

\* What is attached to rows of a tenant is its own where the two are together.
LEMMA RelatedOwn ==
  ASSUME NEW model \in G!Tables, NEW tables, NEW apart, NEW rows, NEW t, t # G!Absent,
         Together(tables, apart), RowsOwn(tables, apart, model, rows, t),
         NEW y \in G!Related(tables, model, rows)
  PROVE  y.tenant = t \/ y.id \in apart
<1>1. PICK m \in G!Tables \ {model}, i \in Ids \cap G!IdsOf(rows) :
        y = [id |-> i, tenant |-> tables[m][i]] /\ tables[m][i] # G!Absent
  BY DEF G!Related
<1>2. PICK x \in rows : x.id = i
  BY <1>1 DEF G!IdsOf
<1>3. CASE i \in apart
  BY <1>1, <1>3
<1>4. CASE i \notin apart
  <2>1. tables[model][i] = t
    BY <1>1, <1>2, <1>4 DEF RowsOwn
  <2>2. tables["Employee"][i] = tables["EmployeeService"][i]
    BY <1>1, <1>4, <2>1 DEF Together, G!Tables
  <2> QED
    BY <1>1, <2>1, <2>2 DEF G!Tables
<1> QED
  BY <1>3, <1>4

\* A query that finds nothing to do, or is refused, is answered with nothing.
LEMMA NothingOwn ==
  ASSUME G!Answer({}, {})
  PROVE  G!OwnRowsOnly'
BY DEF G!OwnRowsOnly, G!Answer

\* The rows that a query of a tenant finds are the tenant's.
LEMMA FoundOwn ==
  ASSUME GuardInv, pending # G!NoQuery, pending.meant \in Tenants,
         ~G!allOperations(pending).refused, pending.op # "create",
         NEW x \in G!Matching(pending.model, G!allOperations(pending).clauses)
  PROVE  x.tenant = pending.meant
<1>1. pending.meant = G!Context /\ pending.where \in G!Wheres
  BY DEF GuardInv, PendingInv, WellFormed
<1>2. G!Context # G!System /\ G!Context # G!Nobody
  BY <1>1, TenantFacts
<1>3. pending.model \in G!ScopedModels
  BY DEF G!ScopedModels, G!TENANT_KEY_BY_MODEL, G!Matching, G!Rows
<1>4. G!allOperations(pending) = G!Guarded(pending, pending.meant)
  BY <1>1, <1>2, <1>3 DEF G!allOperations
<1>5. pending.op \notin G!CREATE_OPERATIONS
  BY DEF G!CREATE_OPERATIONS
<1>6. G!allOperations(pending).clauses \in {G!withTenantWhere(pending.where, pending.meant),
                                           G!withTenantUniqueWhere(pending.where, pending.meant)}
  BY <1>1, <1>4, <1>5, GuardedFacts
<1> QED
  BY <1>1, <1>6, ClausesFacts

\* A row is made for the tenant of the query, with its link.
LEMMA MakingKeeps ==
  ASSUME GuardInv, pending # G!NoQuery, pending.op \in {"create", "upsert"},
         NEW data, data = G!allOperations(pending).data, ~G!allOperations(pending).refused,
         NEW model, model = pending.model,
         G!Creates(model, data), G!Created(model, data), UNCHANGED scopes,
         G!Answer(G!CreatedRows(data), G!Related(owner', model, G!CreatedRows(data))),
         mixed' = (mixed \ {data.id}) \cup { i \in {data.id} : G!MadeMixed(model, data) }
  PROVE  OwnersType' /\ Together(owner', mixed') /\ G!OwnRowsOnly'
<1>1. /\ pending.meant = G!Context /\ pending.where \in G!Wheres
      /\ pending.data \in G!Data /\ model \in G!Tables
      /\ model = "EmployeeService" => pending.data.nested = G!Absent
  BY DEF GuardInv, PendingInv, WellFormed
<1>2. /\ pending.meant \in Tenants => data = G!Stamped(pending.data, pending.meant)
      /\ pending.meant \notin Tenants => data = pending.data
  BY <1>1, SentData DEF GuardInv
<1>3. /\ data.id \in Ids
      /\ data.tenant \in Tenants
      /\ data.nested \in Tenants \cup {G!Absent}
      /\ model = "EmployeeService" => data.nested = G!Absent
      /\ pending.meant \in Tenants => data.tenant = pending.meant /\ data.nested \in {G!Absent, pending.meant}
  <2>1. CASE pending.meant \in Tenants
    BY <1>1, <1>2, <2>1, TenantFacts DEF G!Stamped, G!Data
  <2>2. CASE pending.meant \notin Tenants
    BY <1>1, <1>2, <2>2 DEF G!Data, G!Creates
  <2> QED
    BY <2>1, <2>2
<1>4. /\ owner \in [G!Tables -> [Ids -> Tenants \cup {G!Absent}]]
      /\ Together(owner, mixed)
      /\ \A i \in Ids : owner["EmployeeService"][i] # G!Absent => owner["Employee"][i] # G!Absent
      /\ scopes' \in Seq(Tenants \cup {G!System})
  BY DEF GuardInv, OwnersType
<1>5. /\ owner' \in [G!Tables -> [Ids -> Tenants \cup {G!Absent}]]
      /\ \A i \in Ids \ {data.id}, m \in G!Tables : owner'[m][i] = owner[m][i]
      /\ owner'[model][data.id] = data.tenant
      /\ \A m \in G!Tables \ {model} :
           owner'[m][data.id] = IF data.nested = G!Absent THEN owner[m][data.id] ELSE data.nested
  BY <1>1, <1>3, <1>4 DEF G!Created
<1>6. data.id \in mixed' <=> G!MadeMixed(model, data)
  OBVIOUS
<1>7. \A i \in Ids \ {data.id} : i \in mixed' <=> i \in mixed
  OBVIOUS
<1>8. ASSUME ~G!MadeMixed(model, data)
      PROVE  owner'["Employee"][data.id] = G!Absent \/ owner'["EmployeeService"][data.id] = G!Absent
               \/ owner'["Employee"][data.id] = owner'["EmployeeService"][data.id]
  <2>1. pending.meant \in Tenants
        /\ (model = "EmployeeService" => owner["Employee"][data.id] = pending.meant)
    BY <1>8 DEF G!MadeMixed
  <2>2. CASE model = "EmployeeService"
    BY <1>1, <1>3, <1>5, <2>1, <2>2 DEF G!Tables
  <2>3. CASE model = "Employee"
    <3>1. CASE data.nested # G!Absent
      BY <1>3, <1>5, <2>1, <2>3, <3>1 DEF G!Tables
    <3>2. CASE data.nested = G!Absent
      <4>1. owner["Employee"][data.id] = G!Absent
        BY <2>3 DEF G!Creates
      <4> QED
        BY <1>3, <1>4, <1>5, <2>3, <3>2, <4>1 DEF G!Tables
    <3> QED
      BY <3>1, <3>2
  <2> QED
    BY <1>1, <2>2, <2>3 DEF G!Tables
<1>9. Together(owner', mixed')
  BY <1>4, <1>5, <1>6, <1>7, <1>8 DEF Together, G!Tables
<1>10. \A i \in Ids : owner'["EmployeeService"][i] # G!Absent => owner'["Employee"][i] # G!Absent
  <2>1. model = "Employee" => owner'["Employee"][data.id] # G!Absent
    BY <1>3, <1>5, TenantFacts
  <2>2. model = "EmployeeService" => owner'["Employee"][data.id] # G!Absent
    BY <1>3, <1>5 DEF G!Creates, G!Tables
  <2> QED
    BY <1>1, <1>4, <1>5, <2>1, <2>2 DEF G!Tables
<1>11. ASSUME pending.meant \in Tenants, NEW x \in G!CreatedRows(data)
       PROVE  x.tenant = pending.meant
  <2>1. x = [id |-> data.id, tenant |-> data.tenant]
        \/ \E n \in {data.nested} \ {G!Absent} : x = [id |-> data.id, tenant |-> n]
    BY DEF G!CreatedRows
  <2> QED
    BY <1>3, <1>11, <2>1
<1>12. ASSUME pending.meant \in Tenants, NEW y \in G!Related(owner', model, G!CreatedRows(data))
       PROVE  y.tenant = pending.meant \/ y.id \in mixed'
  <2>1. PICK tables, apart, rows, t :
          tables = owner' /\ apart = mixed' /\ rows = G!CreatedRows(data) /\ t = pending.meant
    OBVIOUS
  <2>2. \A x \in G!CreatedRows(data) : x.id = data.id
    BY DEF G!CreatedRows
  <2>3. tables[model][data.id] = t
    BY <1>3, <1>5, <1>12, <2>1
  <2>4. Together(tables, apart) /\ t # G!Absent
    BY <1>9, <1>12, <2>1, TenantFacts
  <2>5. y \in G!Related(tables, model, rows)
    BY <1>12, <2>1
  <2>6. RowsOwn(tables, apart, model, rows, t)
    BY <2>1, <2>2, <2>3 DEF RowsOwn
  <2>7. model \in G!Tables
    BY <1>1
  <2>8. y.tenant = t \/ y.id \in apart
    BY <2>4, <2>5, <2>6, <2>7, RelatedOwn
  <2> QED
    BY <2>1, <2>8
<1>13. G!OwnRowsOnly'
  BY <1>11, <1>12 DEF G!OwnRowsOnly, G!Answer
<1> QED
  BY <1>4, <1>5, <1>9, <1>10, <1>13 DEF OwnersType

\* An update changes rows of its tenant, and what it names other tenants for is noted.
LEMMA ChangingKeeps ==
  ASSUME GuardInv, pending # G!NoQuery, pending.op \in {"update", "updateMany"},
         NEW data, data = G!allOperations(pending).data, ~G!allOperations(pending).refused,
         data # G!NoData, UNCHANGED scopes,
         NEW model, model = pending.model,
         NEW rows, rows = G!Matching(model, G!allOperations(pending).clauses),
         G!Changeable(rows, data), G!Changed(model, rows, data),
         G!Answer(rows, G!Related(owner', model, rows)),
         mixed' = mixed \cup { i \in G!IdsOf(rows) : G!NamedAnother(data) }
  PROVE  OwnersType' /\ Together(owner', mixed') /\ G!OwnRowsOnly'
<1>1. /\ pending.meant = G!Context /\ pending.where \in G!Wheres
      /\ data \in G!Changes /\ model \in G!Tables
      /\ model # "Employee" => data.nested = G!Absent
  BY SentData DEF GuardInv, PendingInv, WellFormed
<1>2. /\ owner \in [G!Tables -> [Ids -> Tenants \cup {G!Absent}]]
      /\ Together(owner, mixed)
      /\ \A i \in Ids : owner["EmployeeService"][i] # G!Absent => owner["Employee"][i] # G!Absent
      /\ scopes' \in Seq(Tenants \cup {G!System})
  BY DEF GuardInv, OwnersType
<1>3. \A x \in rows : x.id \in Ids /\ x.tenant = owner[model][x.id] /\ owner[model][x.id] # G!Absent
  BY <1>1, RowsFacts
<1>4. data.tenant \in Tenants \cup {G!Unnamed} /\ data.nested \in Tenants \cup {G!Absent}
  BY <1>1 DEF G!Changes, G!Changeable
<1>5. /\ owner' \in [G!Tables -> [Ids -> Tenants \cup {G!Absent}]]
      /\ \A i \in Ids \ G!IdsOf(rows), m \in G!Tables : owner'[m][i] = owner[m][i]
      /\ \A i \in Ids \cap G!IdsOf(rows) :
           owner'[model][i] = IF data.tenant = G!Unnamed THEN owner[model][i] ELSE data.tenant
      /\ \A m \in G!Tables \ {model}, i \in Ids \cap G!IdsOf(rows) :
           owner'[m][i] = IF data.nested = G!Absent THEN owner[m][i] ELSE data.nested
  BY <1>1, <1>2, <1>4 DEF G!Changed
<1>6. \A i \in Ids \cap G!IdsOf(rows) : owner[model][i] # G!Absent
  BY <1>3 DEF G!IdsOf
<1>7. ASSUME ~G!NamedAnother(data)
      PROVE  data.tenant \in {G!Unnamed, pending.meant} /\ data.nested \in {G!Absent, pending.meant}
  <2>1. {data.tenant, data.nested} \subseteq {G!Unnamed, G!Absent, pending.meant}
    BY <1>7 DEF G!NamedAnother
  <2> QED
    BY <1>4, <2>1, TenantFacts DEF G!Absent, G!Unnamed
<1>8. ASSUME pending.meant \in Tenants, NEW i \in Ids \cap G!IdsOf(rows)
      PROVE  owner[model][i] = pending.meant
  <2>1. PICK x \in rows : x.id = i
    BY <1>8 DEF G!IdsOf
  <2>2. x.tenant = pending.meant
    <3>1. pending.op # "create"
      OBVIOUS
    <3>2. x \in G!Matching(pending.model, G!allOperations(pending).clauses)
      BY <2>1
    <3> QED
      BY <1>8, <3>1, <3>2, FoundOwn
  <2> QED
    BY <1>3, <2>1, <2>2
<1>9. ASSUME NEW i \in Ids \ mixed'
      PROVE  owner'["Employee"][i] = G!Absent \/ owner'["EmployeeService"][i] = G!Absent
               \/ owner'["Employee"][i] = owner'["EmployeeService"][i]
  <2>1. i \notin mixed
    OBVIOUS
  <2>2. CASE i \notin G!IdsOf(rows)
    BY <1>2, <1>5, <2>1, <2>2 DEF Together, G!Tables
  <2>3. CASE i \in G!IdsOf(rows)
    <3>1. ~G!NamedAnother(data)
      BY <2>3
    <3>2. data.tenant \in {G!Unnamed, pending.meant} /\ data.nested \in {G!Absent, pending.meant}
      BY <1>7, <3>1
    <3>3. CASE pending.meant \in Tenants
      <4>1. owner'[model][i] = pending.meant
        BY <1>5, <1>8, <2>3, <3>2, <3>3, <1>1
      <4>2. owner[model][i] = pending.meant
        BY <1>8, <2>3, <3>3
      <4>3. owner["Employee"][i] = G!Absent \/ owner["EmployeeService"][i] = G!Absent
               \/ owner["Employee"][i] = owner["EmployeeService"][i]
        BY <1>2, <2>1 DEF Together
      <4> QED
        BY <1>1, <1>5, <2>3, <3>2, <3>3, <4>1, <4>2, <4>3, TenantFacts DEF G!Tables
    <3>4. CASE pending.meant \notin Tenants
      <4>1. data.tenant = G!Unnamed /\ data.nested = G!Absent
        BY <1>4, <3>2, <3>4
      <4> QED
        BY <1>1, <1>2, <1>5, <2>1, <2>3, <4>1 DEF Together, G!Tables
    <3> QED
      BY <3>3, <3>4
  <2> QED
    BY <2>2, <2>3
<1>10. Together(owner', mixed')
  BY <1>9 DEF Together
<1>11. \A i \in Ids : owner'["EmployeeService"][i] # G!Absent => owner'["Employee"][i] # G!Absent
  <2>1. \A i \in Ids \cap G!IdsOf(rows) : owner["Employee"][i] # G!Absent
    BY <1>1, <1>2, <1>6 DEF G!Tables
  <2>2. \A i \in Ids : owner["Employee"][i] # G!Absent => owner'["Employee"][i] # G!Absent
    BY <1>1, <1>4, <1>5, TenantFacts DEF G!Tables
  <2> QED
    BY <1>2, <1>5, <2>1, <2>2 DEF G!Tables
<1>12. ASSUME pending.meant \in Tenants, NEW x \in rows
       PROVE  x.tenant = pending.meant
  <2>1. x \in G!Matching(pending.model, G!allOperations(pending).clauses) /\ pending.op # "create"
    OBVIOUS
  <2> QED
    BY <1>12, <2>1, FoundOwn
<1>13. ASSUME pending.meant \in Tenants, NEW y \in G!Related(owner', model, rows)
       PROVE  y.tenant = pending.meant \/ y.id \in mixed'
  <2>1. PICK tables, apart, t : tables = owner' /\ apart = mixed' /\ t = pending.meant
    OBVIOUS
  <2>2. ASSUME NEW x \in rows, x.id \in Ids PROVE x.id \in apart \/ tables[model][x.id] = pending.meant
    <3>1. x.id \in G!IdsOf(rows)
      BY <2>2 DEF G!IdsOf
    <3>2. owner[model][x.id] = pending.meant
      BY <1>8, <1>13, <2>2, <3>1
    <3>3. CASE G!NamedAnother(data)
      BY <2>1, <3>1, <3>3
    <3>4. CASE ~G!NamedAnother(data)
      BY <1>1, <1>5, <1>7, <2>1, <2>2, <3>1, <3>2, <3>4
    <3> QED
      BY <3>3, <3>4
  <2>3. Together(tables, apart) /\ t # G!Absent
    BY <1>10, <1>13, <2>1, TenantFacts
  <2>4. y \in G!Related(tables, model, rows)
    BY <1>13, <2>1
  <2>5. RowsOwn(tables, apart, model, rows, t)
    BY <2>1, <2>2 DEF RowsOwn
  <2>6. model \in G!Tables
    BY <1>1
  <2>7. y.tenant = t \/ y.id \in apart
    BY <2>3, <2>4, <2>5, <2>6, RelatedOwn
  <2> QED
    BY <2>1, <2>7
<1>14. G!OwnRowsOnly'
  BY <1>12, <1>13 DEF G!OwnRowsOnly, G!Answer
<1> QED
  BY <1>2, <1>5, <1>10, <1>11, <1>14 DEF OwnersType

\* What is read or deleted is a tenant's, and what is attached is as it was.
LEMMA FindingKeeps ==
  ASSUME GuardInv, pending # G!NoQuery, pending.op # "create",
         ~G!allOperations(pending).refused, UNCHANGED mixed,
         NEW rows, rows = G!Matching(pending.model, G!allOperations(pending).clauses),
         G!Answer(rows, G!Related(owner, pending.model, rows))
  PROVE  G!OwnRowsOnly'
<1>1. ASSUME pending.meant \in Tenants, NEW x \in rows
      PROVE  x.tenant = pending.meant
  BY <1>1, FoundOwn
<1>2. ASSUME pending.meant \in Tenants, NEW y \in G!Related(owner, pending.model, rows)
      PROVE  y.tenant = pending.meant \/ y.id \in mixed
  <2>1. PICK tables, apart, model, t :
          tables = owner /\ apart = mixed /\ model = pending.model /\ t = pending.meant
    OBVIOUS
  <2>2. model \in G!Tables
    BY <1>2, <2>1 DEF G!Related
  <2>3. RowsOwn(tables, apart, model, rows, t)
    BY <1>1, <1>2, <2>1, <2>2, RowsFacts DEF RowsOwn
  <2>4. Together(tables, apart) /\ t # G!Absent
    BY <1>2, <2>1, TenantFacts DEF GuardInv
  <2>5. y \in G!Related(tables, model, rows)
    BY <1>2, <2>1
  <2>6. y.tenant = t \/ y.id \in apart
    BY <2>2, <2>3, <2>4, <2>5, RelatedOwn
  <2> QED
    BY <2>1, <2>6
<1> QED
  BY <1>1, <1>2 DEF G!OwnRowsOnly, G!Answer

\* What is deleted takes its links along.
LEMMA DeletingKeeps ==
  ASSUME GuardInv, NEW model \in G!Tables, NEW rows, G!Deleted(model, rows), UNCHANGED <<mixed, scopes>>
  PROVE  OwnersType' /\ Together(owner', mixed')
<1>1. /\ owner \in [G!Tables -> [Ids -> Tenants \cup {G!Absent}]]
      /\ Together(owner, mixed)
      /\ \A i \in Ids : owner["EmployeeService"][i] # G!Absent => owner["Employee"][i] # G!Absent
      /\ scopes' \in Seq(Tenants \cup {G!System})
  BY DEF GuardInv, OwnersType
<1>2. /\ owner' \in [G!Tables -> [Ids -> Tenants \cup {G!Absent}]]
      /\ \A i \in Ids, m \in G!Tables : owner'[m][i] \in {owner[m][i], G!Absent}
      /\ \A i \in Ids : owner'["EmployeeService"][i] # G!Absent => owner'["Employee"][i] # G!Absent
  BY <1>1 DEF G!Deleted, G!Tables
<1>3. Together(owner', mixed')
  BY <1>1, <1>2 DEF Together, G!Tables
<1> QED
  BY <1>1, <1>2, <1>3 DEF OwnersType

\* A query leaves the tables as they should be, and is answered with its tenant's rows.
LEMMA SendKeeps ==
  ASSUME GuardInv, G!Send
  PROVE  GuardInv'
<1> DEFINE sent == G!allOperations(pending)
           rows == G!Matching(pending.model, sent.clauses)
           inserts == pending.op = "create" \/ (pending.op = "upsert" /\ rows = {})
           updates == pending.op \in {"update", "updateMany"} /\ sent.data # G!NoData
           deletes == pending.op \in {"delete", "deleteMany"}
<1>1. pending # G!NoQuery /\ pending' = G!NoQuery /\ UNCHANGED scopes
  BY DEF G!Send
<1>2. \/ G!Answer({}, {}) /\ UNCHANGED <<owner, mixed>>
      \/ /\ ~sent.refused /\ inserts /\ G!Creates(pending.model, sent.data)
         /\ G!Created(pending.model, sent.data)
         /\ G!Answer(G!CreatedRows(sent.data), G!Related(owner', pending.model, G!CreatedRows(sent.data)))
         /\ mixed' = (mixed \ {sent.data.id}) \cup { i \in {sent.data.id} : G!MadeMixed(pending.model, sent.data) }
      \/ /\ ~sent.refused /\ updates /\ G!Changeable(rows, sent.data)
         /\ G!Changed(pending.model, rows, sent.data)
         /\ G!Answer(rows, G!Related(owner', pending.model, rows))
         /\ mixed' = mixed \cup { i \in G!IdsOf(rows) : G!NamedAnother(sent.data) }
      \/ /\ ~sent.refused /\ deletes /\ G!Deleted(pending.model, rows)
         /\ G!Answer(rows, G!Related(owner, pending.model, rows))
         /\ UNCHANGED mixed
      \/ /\ ~sent.refused /\ ~inserts
         /\ G!Answer(rows, G!Related(owner, pending.model, rows))
         /\ UNCHANGED <<owner, mixed>>
  BY DEF G!Send
<1>3. PICK r, d, q : r = rows /\ d = sent.data /\ q = pending.model
  OBVIOUS
<1>4. pending.op \in {"delete", "deleteMany"} => pending.model \in G!Tables
  BY <1>1 DEF GuardInv, PendingInv, WellFormed
<1>5. OwnersType' /\ Together(owner', mixed') /\ G!OwnRowsOnly'
  <2>1. CASE G!Answer({}, {}) /\ UNCHANGED <<owner, mixed>>
    BY <1>1, <2>1, NothingOwn DEF GuardInv, OwnersType
  <2>2. CASE /\ ~sent.refused /\ inserts /\ G!Creates(pending.model, sent.data)
             /\ G!Created(pending.model, sent.data)
             /\ G!Answer(G!CreatedRows(sent.data), G!Related(owner', pending.model, G!CreatedRows(sent.data)))
             /\ mixed' = (mixed \ {sent.data.id}) \cup { i \in {sent.data.id} : G!MadeMixed(pending.model, sent.data) }
    <3>1. pending.op \in {"create", "upsert"} /\ ~G!allOperations(pending).refused
      BY <2>2
    <3>2. d = G!allOperations(pending).data
      BY <1>3
    <3>3. G!Creates(q, d) /\ G!Created(q, d)
          /\ G!Answer(G!CreatedRows(d), G!Related(owner', q, G!CreatedRows(d)))
          /\ mixed' = (mixed \ {d.id}) \cup { i \in {d.id} : G!MadeMixed(q, d) }
      BY <1>3, <2>2
    <3> QED
      BY <1>1, <1>3, <3>1, <3>2, <3>3, MakingKeeps
  <2>3. CASE /\ ~sent.refused /\ updates /\ G!Changeable(rows, sent.data)
             /\ G!Changed(pending.model, rows, sent.data)
             /\ G!Answer(rows, G!Related(owner', pending.model, rows))
             /\ mixed' = mixed \cup { i \in G!IdsOf(rows) : G!NamedAnother(sent.data) }
    <3>1. pending.op \in {"update", "updateMany"} /\ ~G!allOperations(pending).refused
      BY <2>3
    <3>2. d = G!allOperations(pending).data /\ d # G!NoData
      BY <1>3, <2>3
    <3>3. r = G!Matching(q, G!allOperations(pending).clauses)
      BY <1>3
    <3>4. G!Changeable(r, d) /\ G!Changed(q, r, d) /\ G!Answer(r, G!Related(owner', q, r))
          /\ mixed' = mixed \cup { i \in G!IdsOf(r) : G!NamedAnother(d) }
      BY <1>3, <2>3
    <3> QED
      BY <1>1, <1>3, <3>1, <3>2, <3>3, <3>4, ChangingKeeps
  <2>4. CASE /\ ~sent.refused /\ deletes /\ G!Deleted(pending.model, rows)
             /\ G!Answer(rows, G!Related(owner, pending.model, rows))
             /\ UNCHANGED mixed
    <3>1. pending.op # "create" /\ ~G!allOperations(pending).refused /\ q \in G!Tables
      BY <1>3, <1>4, <2>4
    <3>2. r = G!Matching(pending.model, G!allOperations(pending).clauses)
      BY <1>3
    <3>3. G!Answer(r, G!Related(owner, pending.model, r)) /\ G!Deleted(q, r) /\ UNCHANGED <<mixed, scopes>>
      BY <1>1, <1>3, <2>4
    <3>4. G!OwnRowsOnly'
      BY <1>1, <3>1, <3>2, <3>3, FindingKeeps
    <3> QED
      BY <3>1, <3>3, <3>4, DeletingKeeps
  <2>5. CASE /\ ~sent.refused /\ ~inserts
             /\ G!Answer(rows, G!Related(owner, pending.model, rows))
             /\ UNCHANGED <<owner, mixed>>
    <3>1. pending.op # "create" /\ ~G!allOperations(pending).refused /\ UNCHANGED mixed
      BY <2>5
    <3>2. r = G!Matching(pending.model, G!allOperations(pending).clauses)
          /\ G!Answer(r, G!Related(owner, pending.model, r))
      BY <1>3, <2>5
    <3>3. G!OwnRowsOnly'
      BY <1>1, <3>1, <3>2, FindingKeeps
    <3> QED
      BY <1>1, <2>5, <3>3 DEF GuardInv, OwnersType
  <2> HIDE DEF sent, rows, inserts, updates, deletes
  <2> QED
    BY <1>2, <2>1, <2>2, <2>3, <2>4, <2>5
<1> QED
  BY <1>1, <1>5 DEF GuardInv, PendingInv

\* A call is meant for the scope it is made in, and one that opens or closes is of a
\* tenant's or the system's.
LEMMA GuardStep ==
  ASSUME GuardInv, [G!Next]_(G!vars)
  PROVE  GuardInv'
<1>1. CASE UNCHANGED G!vars
  BY <1>1 DEF G!vars, GuardInv, OwnersType, PendingInv, Together, G!OwnRowsOnly, G!Context
<1>2. ASSUME reply' = G!NoReply PROVE G!OwnRowsOnly'
  BY <1>2 DEF G!OwnRowsOnly, G!NoReply
<1>3. ASSUME UNCHANGED <<owner, mixed>>, scopes' \in Seq(Tenants \cup {G!System})
      PROVE  OwnersType' /\ Together(owner', mixed')
  BY <1>3 DEF GuardInv, OwnersType
<1>4. CASE (\E c \in Tenants \cup {G!System} : G!Enter(c)) \/ G!Leave
  <2>1. reply' = G!NoReply /\ pending' = G!NoQuery /\ UNCHANGED <<owner, mixed>>
    BY <1>4 DEF G!Enter, G!Leave, G!LeaveBeforeTheQuery
  <2>2. scopes' \in Seq(Tenants \cup {G!System})
    <3>1. scopes \in Seq(Tenants \cup {G!System})
      BY DEF GuardInv, OwnersType
    <3>2. CASE \E c \in Tenants \cup {G!System} : G!Enter(c)
      BY <3>1, <3>2 DEF G!Enter
    <3>3. CASE G!Leave
      <4>1. scopes # <<>> /\ scopes' = G!Front(scopes)
        BY <3>3 DEF G!Leave, G!LeaveBeforeTheQuery
      <4>2. Len(scopes) \in Nat /\ Len(scopes) - 1 \in Int /\ Len(scopes) - 1 <= Len(scopes)
        BY <3>1
      <4>3. SubSeq(scopes, 1, Len(scopes) - 1) \in Seq(Tenants \cup {G!System})
        BY <3>1, <4>2
      <4> QED
        BY <4>1, <4>3 DEF G!Front
    <3> QED
      BY <1>4, <3>2, <3>3
  <2> QED
    BY <1>2, <1>3, <2>1, <2>2 DEF GuardInv, PendingInv
<1>5. ASSUME NEW model, NEW op, NEW w \in G!Wheres, NEW d, G!Call(model, op, w, d),
             WellFormed([model |-> model, op |-> op, where |-> w, data |-> d, meant |-> G!Context])
      PROVE  GuardInv'
  <2>1. reply' = G!NoReply /\ UNCHANGED <<owner, scopes, mixed>>
        /\ pending' = [model |-> model, op |-> op, where |-> w, data |-> d, meant |-> G!Context]
    BY <1>5 DEF G!Call
  <2>2. scopes' \in Seq(Tenants \cup {G!System})
    BY <2>1 DEF GuardInv, OwnersType
  <2>3. PendingInv'
    BY <1>5, <2>1 DEF PendingInv, G!Context, WellFormed
  <2> QED
    BY <1>2, <1>3, <2>1, <2>2, <2>3 DEF GuardInv
<1>6. CASE G!Read
  <2>1. PICK model \in G!Models, op \in G!READ_OPERATIONS \cup G!UNIQUE_READ_OPERATIONS, w \in G!Wheres :
          G!Call(model, op, w, G!NoData)
    BY <1>6 DEF G!Read
  <2>2. WellFormed([model |-> model, op |-> op, where |-> w, data |-> G!NoData, meant |-> G!Context])
    BY DEF WellFormed, G!READ_OPERATIONS, G!UNIQUE_READ_OPERATIONS
  <2> QED
    BY <1>5, <2>1, <2>2
<1>7. CASE G!Write
  <2>1. PICK model \in G!ScopedModels, w \in G!Wheres, d \in G!Changes,
             op \in {"update", "delete"} \cup G!BULK_WRITE_OPERATIONS :
          /\ G!Call(model, op, w, d)
          /\ op \in {"delete", "deleteMany"} => d = G!NoData
          /\ op = "updateMany" \/ model # "Employee" => d.nested = G!Absent
          /\ model = "Tenant" => op = "update" /\ d = G!NoData
    BY <1>7 DEF G!Write
  <2>2. WellFormed([model |-> model, op |-> op, where |-> w, data |-> d, meant |-> G!Context])
    BY <2>1 DEF WellFormed, G!BULK_WRITE_OPERATIONS, G!ScopedModels, G!TENANT_KEY_BY_MODEL
  <2> QED
    BY <1>5, <2>1, <2>2
<1>8. CASE G!Create
  <2>1. PICK model \in G!Tables, op \in {"create", "upsert"}, w \in G!Wheres, d \in G!Data :
          G!Call(model, op, w, d)
          /\ (model = "EmployeeService" => op = "create" /\ d.nested = G!Absent)
    BY <1>8 DEF G!Create
  <2>2. WellFormed([model |-> model, op |-> op, where |-> w, data |-> d, meant |-> G!Context])
    BY <2>1 DEF WellFormed
  <2> QED
    BY <1>5, <2>1, <2>2
<1> QED
  BY <1>1, <1>4, <1>6, <1>7, <1>8, SendKeeps DEF G!Next

\* Nothing has been asked at first.
LEMMA GuardInit == G!Init => GuardInv
<1> SUFFICES ASSUME G!Init PROVE GuardInv
  OBVIOUS
<1>1. G!OwnRowsOnly
  BY DEF G!Init, G!OwnRowsOnly, G!NoReply
<1>2. OwnersType /\ Together(owner, mixed)
  BY DEF G!Init, OwnersType, Together, G!Tables
<1> QED
  BY <1>1, <1>2 DEF G!Init, GuardInv, PendingInv

\* What the guard promises of I1: whatever a query names, and in whichever scopes it was
\* written and sent, the rows one that was written for a tenant finds, changes, deletes
\* or makes are that tenant's, and what is attached to them is too, but where an update
\* named another tenant or a link was made for another tenant's row: nothing else comes
\* between a row and its link.
THEOREM TenantsAreIsolated == Spec => []OwnRowsOnly
<1>1. Init => GuardInv
  BY GuardInit DEF Init
<1>2. GuardInv /\ [Next]_allVars => GuardInv'
  BY OfficeStep, GuardStep
<1>3. GuardInv => OwnRowsOnly
  BY DEF GuardInv, OwnRowsOnly
<1> QED
  BY <1>1, <1>2, <1>3, PTL DEF Spec, allVars

-----------------------------------------------------------------------------
(* The desk.                                                                 *)

StatusesOf(x) == IF x \in Orders THEN D!OrderStatuses ELSE D!Statuses

NextOf(x, s) == IF x \in Orders THEN D!DEFAULT_PIPELINE[s] ELSE D!ALLOWED_TRANSITIONS[s]

AnyStatus == D!OrderStatuses \cup D!Statuses \cup {D!Nothing}

DeskRows == [status : AnyStatus, changes : Nat]

DeskRequests ==
  [pc : {"idle", "sent", "made", "refused", "late", "checked", "write"},
   id : Orders \cup Bookings \cup Mine \cup {D!Nothing}, next : AnyStatus, shown : Nat, found : Nat]

\* What a page holds of a row is what the row was when it had been changed so often.
Copy(x, c) ==
  /\ c \in DeskRows /\ c.status \in StatusesOf(x)
  /\ c.changes <= row[x].changes
  /\ c.changes = row[x].changes => c.status = row[x].status

\* A change that was asked for on a page is allowed while the row is what it was there.
Asked(x, next, n) ==
  /\ next \in StatusesOf(x) /\ (x \in Mine => next = "CANCELLED")
  /\ n \in Nat /\ n <= row[x].changes
  /\ n = row[x].changes => next \in D!Allowed(x)

RequestFits(q) ==
  q.pc # "idle" =>
    /\ q.id \in D!Things /\ Asked(q.id, q.next, q.shown)
    /\ q.pc = "refused" => q.found # q.shown

Over == {"CANCELLED", "NO_SHOW", "COMPLETED"}

RowsFit ==
  /\ D!Things \in {Orders, Bookings, Mine}
  /\ row \in [D!Things -> DeskRows]
  /\ \A x \in D!Things : row[x].status \in StatusesOf(x)

PageFits ==
  /\ detail \in [D!Things -> DeskRows]
  /\ \A x \in D!Things : Copy(x, list[x]) /\ (detail[x] = D!NotRead \/ Copy(x, detail[x]))
  /\ opened \in D!Things \cup {D!Nothing}
  /\ opened \in Mine => Copy(opened, detail[opened]) /\ detail[opened].status \notin Over

DeskInv ==
  /\ RowsFit
  /\ PageFits
  /\ request \in [Requests -> DeskRequests] /\ \A r \in Requests : RequestFits(request[r])

\* The three kinds of rows are different ones.
LEMMA KindFacts ==
  /\ Orders \cap Bookings = {} /\ Orders \cap Mine = {} /\ Bookings \cap Mine = {}
  /\ D!Nothing \notin Orders \cup Bookings \cup Mine
BY ConstantsAssumption DEF D!DeskAssumption

\* The tables of the pages offer nothing that those of the services do not allow.
LEMMA TablesAgree ==
  /\ \A s \in D!OrderStatuses : D!nextStatus(s) \subseteq D!DEFAULT_PIPELINE[s]
  /\ \A s \in D!OrderStatuses \ Over : "CANCELLED" \in D!DEFAULT_PIPELINE[s]
  /\ \A s \in D!Statuses \ Over : "CANCELLED" \in D!ALLOWED_TRANSITIONS[s]
  /\ \A s \in D!Statuses : {D!NEXT_STATUS[s]} \ {D!Nothing} \subseteq D!ALLOWED_TRANSITIONS[s]
  /\ D!nextStatus(D!Nothing) = {}
<1>0. D!STATUS_FLOW = <<"NEW", "ACCEPTED", "PREPARING", "READY", "DELIVERING", "COMPLETED">>
  BY DEF D!STATUS_FLOW
<1>1. /\ D!STATUS_FLOW[1] = "NEW" /\ D!STATUS_FLOW[2] = "ACCEPTED" /\ D!STATUS_FLOW[3] = "PREPARING"
      /\ D!STATUS_FLOW[4] = "READY" /\ D!STATUS_FLOW[5] = "DELIVERING" /\ D!STATUS_FLOW[6] = "COMPLETED"
  BY <1>0
<1>9. Len(D!STATUS_FLOW) = 6
  BY <1>0
<1>2. \A s : D!nextStatus(s) = { D!STATUS_FLOW[i + 1] : i \in { j \in 1 .. 5 : D!STATUS_FLOW[j] = s } }
  <2>1. Len(D!STATUS_FLOW) - 1 = 5
    BY <1>9
  <2> QED
    BY <2>1 DEF D!nextStatus
<1>3. \A s, n : n \in D!nextStatus(s) =>
        \/ s = "NEW" /\ n = "ACCEPTED"
        \/ s = "ACCEPTED" /\ n = "PREPARING"
        \/ s = "PREPARING" /\ n = "READY"
        \/ s = "READY" /\ n = "DELIVERING"
        \/ s = "DELIVERING" /\ n = "COMPLETED"
  <2> SUFFICES ASSUME NEW s, NEW n, NEW i \in 1 .. 5, D!STATUS_FLOW[i] = s, n = D!STATUS_FLOW[i + 1]
               PROVE  \/ s = "NEW" /\ n = "ACCEPTED"
                      \/ s = "ACCEPTED" /\ n = "PREPARING"
                      \/ s = "PREPARING" /\ n = "READY"
                      \/ s = "READY" /\ n = "DELIVERING"
                      \/ s = "DELIVERING" /\ n = "COMPLETED"
    BY <1>2
  <2>1. i = 1 \/ i = 2 \/ i = 3 \/ i = 4 \/ i = 5
    OBVIOUS
  <2> QED
    BY <1>1, <2>1
<1>4. \A s \in D!OrderStatuses : D!nextStatus(s) \subseteq D!DEFAULT_PIPELINE[s]
  <2> SUFFICES ASSUME NEW s \in D!OrderStatuses, NEW n \in D!nextStatus(s)
               PROVE  n \in D!DEFAULT_PIPELINE[s]
    OBVIOUS
  <2> QED
    BY <1>3 DEF D!DEFAULT_PIPELINE, D!OrderStatuses
<1>5. \A s \in D!OrderStatuses \ Over : "CANCELLED" \in D!DEFAULT_PIPELINE[s]
  BY DEF D!DEFAULT_PIPELINE, D!OrderStatuses, Over
<1>6. \A s \in D!Statuses \ Over : "CANCELLED" \in D!ALLOWED_TRANSITIONS[s]
  BY DEF D!ALLOWED_TRANSITIONS, D!Statuses, Over
<1>7. \A s \in D!Statuses : {D!NEXT_STATUS[s]} \ {D!Nothing} \subseteq D!ALLOWED_TRANSITIONS[s]
  BY DEF D!ALLOWED_TRANSITIONS, D!Statuses, D!NEXT_STATUS
<1>8. D!nextStatus(D!Nothing) = {}
  BY <1>3 DEF D!Nothing
<1> QED
  BY <1>4, <1>5, <1>6, <1>7, <1>8

\* Every status the services allow is one of the same kind of row.
LEMMA NextFacts ==
  ASSUME NEW x, NEW s \in StatusesOf(x)
  PROVE  NextOf(x, s) \subseteq StatusesOf(x)
BY DEF NextOf, StatusesOf, D!DEFAULT_PIPELINE, D!OrderStatuses, D!ALLOWED_TRANSITIONS, D!Statuses

\* What is offered for a copy of a row is asked rightly.
LEMMA OfferFacts ==
  ASSUME NEW x, NEW c, Copy(x, c), NEW next \in NextOf(x, c.status), x \in Mine => next = "CANCELLED"
  PROVE  Asked(x, next, c.changes)
BY NextFacts DEF Copy, Asked, D!Allowed, NextOf, DeskRows

\* A row that is changed leaves copies and requests behind, and none of them wrong.
LEMMA ChangeKeeps ==
  ASSUME RowsFit, NEW x \in D!Things, NEW s \in StatusesOf(x), row' = D!Changed(x, s)
  PROVE  /\ RowsFit' /\ D!Things' = D!Things
         /\ \A y \in D!Things : \A c : Copy(y, c) => Copy(y, c)'
         /\ \A y \in D!Things : \A next, n : Asked(y, next, n) => Asked(y, next, n)'
<1>1. /\ row' = [row EXCEPT ![x] = [status |-> s, changes |-> row[x].changes + 1]]
      /\ row \in [D!Things -> DeskRows]
  BY DEF D!Changed, RowsFit, D!Things
<1>2. s \in AnyStatus /\ row[x].changes \in Nat
  BY <1>1 DEF StatusesOf, AnyStatus, DeskRows
<1>3. [status |-> s, changes |-> row[x].changes + 1] \in DeskRows
  BY <1>2 DEF DeskRows
<1>4. /\ row' \in [D!Things -> DeskRows] /\ D!Things' = D!Things
      /\ row'[x].status = s /\ row'[x].changes = row[x].changes + 1
      /\ \A y \in D!Things \ {x} : row'[y] = row[y]
  BY <1>1, <1>3 DEF D!Things
<1>5. RowsFit'
  BY <1>4 DEF RowsFit, StatusesOf
<1>6. ASSUME NEW y \in D!Things, NEW c, Copy(y, c) PROVE Copy(y, c)'
  <2>1. CASE y = x
    BY <1>2, <1>4, <1>6, <2>1 DEF Copy, StatusesOf, DeskRows
  <2>2. CASE y # x
    BY <1>4, <1>6, <2>2 DEF Copy, StatusesOf, DeskRows
  <2> QED
    BY <2>1, <2>2
<1>7. ASSUME NEW y \in D!Things, NEW next, NEW n, Asked(y, next, n) PROVE Asked(y, next, n)'
  <2>1. CASE y = x
    BY <1>2, <1>4, <1>7, <2>1 DEF Asked, StatusesOf
  <2>2. CASE y # x
    BY <1>4, <1>7, <2>2 DEF Asked, StatusesOf, D!Allowed
  <2> QED
    BY <2>1, <2>2
<1> QED
  BY <1>4, <1>5, <1>6, <1>7

\* A step that leaves the rows alone leaves copies and requests as they are.
LEMMA RowsStay ==
  ASSUME UNCHANGED row
  PROVE  /\ RowsFit => RowsFit' /\ D!Things' = D!Things
         /\ \A y, c : Copy(y, c) => Copy(y, c)'
         /\ \A y, next, n : Asked(y, next, n) => Asked(y, next, n)'
BY DEF RowsFit, D!Things, Copy, Asked, D!Allowed, StatusesOf

\* One request is another one from now on.
LEMMA OneRequest ==
  ASSUME DeskInv, UNCHANGED row, NEW r \in Requests, NEW q \in DeskRequests,
         request' = [request EXCEPT ![r] = q], RequestFits(q)
  PROVE  request' \in [Requests -> DeskRequests] /\ \A g \in Requests : RequestFits(request[g])'
<1>1. /\ request' \in [Requests -> DeskRequests]
      /\ \A g \in Requests : request'[g] = IF g = r THEN q ELSE request[g]
  BY DEF DeskInv
<1>2. \A g \in Requests : RequestFits(request[g])'
  BY <1>1, RowsStay DEF DeskInv, RequestFits
<1> QED
  BY <1>1, <1>2

\* Steps of the page: what it shows is read again, a row is opened or closed, and a
\* booking is about to be cancelled.
LEMMA PageSteps ==
  ASSUME DeskInv,
         \/ D!RefreshList \/ D!ReadDetail \/ D!Close
         \/ \E o \in D!Things \cap Orders : D!Open(o)
         \/ \E x \in D!Things \cap Mine : D!AskToCancel(x)
  PROVE  DeskInv'
<1>1. UNCHANGED <<row, request>>
  BY DEF D!RefreshList, D!ReadDetail, D!Close, D!Open, D!AskToCancel
<1>2. /\ RowsFit' /\ D!Things' = D!Things
      /\ \A y, c : Copy(y, c) => Copy(y, c)'
      /\ \A y, next, n : Asked(y, next, n) => Asked(y, next, n)'
  BY <1>1, RowsStay DEF DeskInv
<1>3. \A r \in Requests : RequestFits(request[r])'
  BY <1>1, <1>2 DEF DeskInv, RequestFits
<1>4. \A x \in D!Things : Copy(x, row[x])
  BY DEF DeskInv, RowsFit, Copy, DeskRows
<1>5. PageFits'
  <2>1. CASE D!RefreshList
    <3>1. /\ list' = row /\ UNCHANGED <<row, detail, opened>>
      BY <2>1 DEF D!RefreshList
    <3>2. \A x \in D!Things : Copy(x, row[x])'
      BY <1>4, <3>1 DEF Copy, StatusesOf
    <3> QED
      BY <1>2, <3>1, <3>2 DEF DeskInv, PageFits, Copy
  <2>2. CASE D!ReadDetail
    <3>1. /\ opened \in Orders /\ opened \in D!Things /\ opened \notin Mine
          /\ detail' = [detail EXCEPT ![opened] = row[opened]] /\ UNCHANGED <<row, list, opened>>
      BY <2>2, KindFacts DEF D!ReadDetail, DeskInv, PageFits
    <3>2. row[opened] \in DeskRows
      BY <3>1 DEF DeskInv, RowsFit
    <3>3. /\ detail' \in [D!Things -> DeskRows]
          /\ \A x \in D!Things : detail'[x] = IF x = opened THEN row[x] ELSE detail[x]
      BY <3>1, <3>2 DEF DeskInv, PageFits
    <3>4. ASSUME NEW x \in D!Things PROVE detail'[x] = D!NotRead \/ Copy(x, detail'[x])
      BY <1>4, <3>3 DEF DeskInv, PageFits
    <3>5. \A x \in D!Things : Copy(x, list[x])' /\ (detail[x] = D!NotRead \/ Copy(x, detail[x]))'
      BY <1>1, <3>1, <3>4 DEF DeskInv, PageFits, Copy, StatusesOf, D!NotRead
    <3> QED
      BY <1>2, <3>1, <3>3, <3>5 DEF DeskInv, PageFits
  <2>3. CASE D!Close
    <3>1. opened' = D!Nothing /\ UNCHANGED <<row, list, detail>>
      BY <2>3 DEF D!Close
    <3> QED
      BY <1>2, <3>1, KindFacts DEF DeskInv, PageFits, Copy, StatusesOf
  <2>4. CASE \E o \in D!Things \cap Orders : D!Open(o)
    <3>1. /\ opened' \in D!Things /\ opened' \notin Mine /\ UNCHANGED <<row, list, detail>>
      BY <2>4, KindFacts DEF D!Open
    <3> QED
      BY <1>2, <3>1 DEF DeskInv, PageFits, Copy, StatusesOf
  <2>5. CASE \E x \in D!Things \cap Mine : D!AskToCancel(x)
    <3>1. PICK x \in D!Things \cap Mine : D!AskToCancel(x)
      BY <2>5
    <3>2. /\ opened' = x /\ detail' = [detail EXCEPT ![x] = list[x]] /\ UNCHANGED <<row, list>>
          /\ list[x].status \notin Over
      BY <3>1 DEF D!AskToCancel, D!OfferedToCustomer, Over
    <3>3. Copy(x, list[x]) /\ list[x] \in DeskRows
      BY DEF DeskInv, PageFits, Copy
    <3>4. /\ detail' \in [D!Things -> DeskRows] /\ detail'[x] = list[x]
          /\ \A y \in D!Things \ {x} : detail'[y] = detail[y]
      BY <3>2, <3>3 DEF DeskInv, PageFits
    <3>5. \A y \in D!Things : Copy(y, list'[y]) /\ (detail'[y] = D!NotRead \/ Copy(y, detail'[y]))
      BY <3>2, <3>3, <3>4 DEF DeskInv, PageFits
    <3>6. PICK c : c = list[x] /\ Copy(x, c) /\ detail'[x] = c /\ c.status \notin Over
      BY <3>2, <3>3, <3>4
    <3>7. Copy(x, c)'
      BY <1>2, <3>6
    <3>8. \A y \in D!Things : Copy(y, list[y])' /\ (detail[y] = D!NotRead \/ Copy(y, detail[y]))'
      BY <1>1, <3>5 DEF Copy, StatusesOf, D!NotRead
    <3>9. Copy(opened, detail[opened])' /\ detail'[opened'].status \notin Over
      BY <3>2, <3>6, <3>7 DEF Copy, StatusesOf
    <3> QED
      BY <1>2, <3>2, <3>4, <3>8, <3>9 DEF PageFits
  <2> QED
    BY <2>1, <2>2, <2>3, <2>4, <2>5
<1> QED
  BY <1>1, <1>2, <1>3, <1>5 DEF DeskInv

\* A change that is asked for is one that the page offers for what it holds.
LEMMA PressKeeps ==
  ASSUME DeskInv, NEW r \in Requests,
         D!PressInList(r) \/ D!PressInDetail(r) \/ D!ConfirmCancel(r)
  PROVE  DeskInv'
<1>1. \E x \in D!Things, c \in DeskRows :
        \E next \in NextOf(x, c.status) :
          Copy(x, c) /\ (x \in Mine => next = "CANCELLED") /\ D!changeStatus(r, x, next, c)
  <2>1. CASE D!PressInList(r)
    <3>1. PICK x \in D!Things \ Mine : \E next \in D!Offered(x) : D!changeStatus(r, x, next, list[x])
      BY <2>1 DEF D!PressInList
    <3>2. PICK next \in D!Offered(x) : D!changeStatus(r, x, next, list[x])
      BY <3>1
    <3>3. Copy(x, list[x]) /\ list[x] \in DeskRows /\ list[x].status \in StatusesOf(x)
      BY DEF DeskInv, PageFits, Copy
    <3>4. next \in NextOf(x, list[x].status)
      BY <3>3, TablesAgree DEF NextOf, StatusesOf, D!Offered
    <3> QED
      BY <3>2, <3>3, <3>4
  <2>2. CASE D!PressInDetail(r)
    <3>1. PICK next \in D!OfferedInDetail(opened) : D!changeStatus(r, opened, next, detail[opened])
      BY <2>2 DEF D!PressInDetail
    <3>2. opened \in Orders /\ opened \in D!Things /\ opened \notin Mine
      BY <2>2, KindFacts DEF D!PressInDetail, DeskInv, PageFits
    <3>3. detail[opened] # D!NotRead
      BY <3>1, TablesAgree DEF D!OfferedInDetail, D!NotRead
    <3>4. Copy(opened, detail[opened]) /\ detail[opened] \in DeskRows
          /\ detail[opened].status \in D!OrderStatuses
      BY <3>2, <3>3 DEF DeskInv, PageFits, Copy, StatusesOf
    <3>5. next \in NextOf(opened, detail[opened].status)
      <4>1. CASE next \in D!nextStatus(detail[opened].status)
        BY <3>2, <3>4, <4>1, TablesAgree DEF NextOf
      <4>2. CASE next = "CANCELLED" /\ detail[opened].status \notin {"COMPLETED", "CANCELLED"}
        BY <3>2, <3>4, <4>2, TablesAgree DEF NextOf, Over, D!OrderStatuses
      <4> QED
        BY <3>1, <4>1, <4>2 DEF D!OfferedInDetail
    <3> QED
      BY <3>1, <3>2, <3>4, <3>5
  <2>3. CASE D!ConfirmCancel(r)
    <3>1. opened \in Mine /\ D!changeStatus(r, opened, "CANCELLED", detail[opened])
      BY <2>3 DEF D!ConfirmCancel
    <3>2. /\ Copy(opened, detail[opened]) /\ detail[opened].status \notin Over
          /\ opened \in D!Things /\ opened \notin Orders
      BY <3>1, KindFacts DEF DeskInv, PageFits
    <3>3. "CANCELLED" \in NextOf(opened, detail[opened].status) /\ detail[opened] \in DeskRows
      BY <3>2, TablesAgree DEF NextOf, StatusesOf, Copy
    <3> QED
      BY <3>1, <3>2, <3>3
  <2> QED
    BY <2>1, <2>2, <2>3
<1>2. PICK x \in D!Things, c \in DeskRows :
        \E next \in NextOf(x, c.status) :
          Copy(x, c) /\ (x \in Mine => next = "CANCELLED") /\ D!changeStatus(r, x, next, c)
  BY <1>1
<1>3. PICK next \in NextOf(x, c.status) :
        Copy(x, c) /\ (x \in Mine => next = "CANCELLED") /\ D!changeStatus(r, x, next, c)
  BY <1>2
<1>4. Asked(x, next, c.changes)
  BY <1>3, OfferFacts
<1> DEFINE q == [D!Idle EXCEPT !.pc = "sent", !.id = x, !.next = next, !.shown = c.changes]
<1>5. /\ request' = [request EXCEPT ![r] = q] /\ UNCHANGED <<row, list, detail, opened>>
  BY <1>3 DEF D!changeStatus
<1>6. /\ q \in DeskRequests /\ q.pc = "sent" /\ q.id = x /\ q.next = next /\ q.shown = c.changes
  <2>1. next \in AnyStatus /\ c.changes \in Nat /\ x \in Orders \cup Bookings \cup Mine
    BY <1>4 DEF Asked, StatusesOf, AnyStatus, DeskRows, DeskInv, RowsFit
  <2> QED
    BY <2>1 DEF DeskRequests, D!Idle
<1> HIDE DEF q
<1>7. RequestFits(q)
  BY <1>4, <1>6 DEF RequestFits
<1>8. request' \in [Requests -> DeskRequests] /\ \A g \in Requests : RequestFits(request[g])'
  BY <1>5, <1>6, <1>7, OneRequest
<1>9. RowsFit' /\ PageFits'
  BY <1>5, RowsStay DEF DeskInv, PageFits, Copy, StatusesOf
<1> QED
  BY <1>8, <1>9 DEF DeskInv

\* The services check a change, and refuse it only if the row is another one by now.
LEMMA CheckKeeps ==
  ASSUME DeskInv, NEW r \in Requests, D!CheckCustomer(r) \/ D!Check(r)
  PROVE  DeskInv'
<1> DEFINE q == request[r]
<1>1. q \in DeskRequests /\ q.pc # "idle" /\ q.id \in D!Things /\ Asked(q.id, q.next, q.shown)
  BY DEF DeskInv, RequestFits, D!CheckCustomer, D!Check
<1>2. UNCHANGED <<row, list, detail, opened>>
  BY DEF D!CheckCustomer, D!Check
<1>3. row[q.id].changes \in Nat
  BY <1>1 DEF DeskInv, RowsFit, DeskRows
<1>4. \E pc \in {"checked", "late", "write", "refused"} :
        /\ request' = [request EXCEPT ![r] = [q EXCEPT !.pc = pc, !.found = row[q.id].changes]]
        /\ pc = "refused" => q.next \notin D!Allowed(q.id)
  <2>1. CASE D!CheckCustomer(r)
    <3>1. q.next = "CANCELLED"
      BY <1>1, <2>1 DEF Asked, D!CheckCustomer
    <3>2. PICK pc \in IF "CANCELLED" \in D!Allowed(q.id) THEN {"checked", "late"} ELSE {"refused"} :
            request' = [request EXCEPT ![r].pc = pc, ![r].found = row[q.id].changes]
      BY <2>1 DEF D!CheckCustomer
    <3> QED
      BY <3>1, <3>2 DEF DeskInv
  <2>2. CASE D!Check(r)
    BY <2>2 DEF D!Check, DeskInv
  <2> QED
    BY <2>1, <2>2
<1>5. PICK pc \in {"checked", "late", "write", "refused"} :
        /\ request' = [request EXCEPT ![r] = [q EXCEPT !.pc = pc, !.found = row[q.id].changes]]
        /\ pc = "refused" => q.next \notin D!Allowed(q.id)
  BY <1>4
<1>6. PICK n \in Nat : n = row[q.id].changes
  BY <1>3
<1> DEFINE p == [q EXCEPT !.pc = pc, !.found = n]
<1>7. /\ p \in DeskRequests /\ p.pc = pc /\ p.id = q.id /\ p.next = q.next /\ p.shown = q.shown
      /\ p.found = n
  BY <1>1 DEF DeskRequests
<1>8. request' = [request EXCEPT ![r] = p]
  BY <1>5, <1>6
<1> HIDE DEF p
<1>9. RequestFits(p)
  BY <1>1, <1>5, <1>6, <1>7 DEF RequestFits, Asked
<1>10. request' \in [Requests -> DeskRequests] /\ \A g \in Requests : RequestFits(request[g])'
  BY <1>2, <1>7, <1>8, <1>9, OneRequest
<1>11. RowsFit' /\ PageFits'
  BY <1>2, RowsStay DEF DeskInv, PageFits, Copy, StatusesOf
<1> QED
  BY <1>10, <1>11 DEF DeskInv

\* A row is changed, by a request that was checked or by somebody else.
LEMMA ChangesKeep ==
  ASSUME DeskInv,
         \/ \E r \in Requests : D!Write(r)
         \/ \E x \in D!Things : D!Elsewhere(x)
         \/ \E o \in D!Things \cap Orders : D!Settle(o)
  PROVE  DeskInv'
<1>1. UNCHANGED <<list, detail, opened>>
  BY DEF D!Write, D!Elsewhere, D!Settle
<1>2. \E x \in D!Things : \E s \in StatusesOf(x) : row' = D!Changed(x, s)
  <2>1. ASSUME NEW r \in Requests, D!Write(r)
        PROVE  \E x \in D!Things : \E s \in StatusesOf(x) : row' = D!Changed(x, s)
    BY <2>1 DEF D!Write, DeskInv, RequestFits, Asked
  <2>2. ASSUME NEW x \in D!Things, D!Elsewhere(x)
        PROVE  \E s \in StatusesOf(x) : row' = D!Changed(x, s)
    <3>1. PICK s \in D!Allowed(x) : row' = D!Changed(x, s)
      BY <2>2 DEF D!Elsewhere
    <3>2. row[x].status \in StatusesOf(x) /\ s \in NextOf(x, row[x].status)
      BY <3>1 DEF DeskInv, RowsFit, D!Allowed, NextOf
    <3> QED
      BY <3>1, <3>2, NextFacts
  <2>3. ASSUME NEW o \in D!Things \cap Orders, D!Settle(o)
        PROVE  row' = D!Changed(o, "ACCEPTED") /\ "ACCEPTED" \in StatusesOf(o)
    BY <2>3 DEF D!Settle, StatusesOf, D!OrderStatuses
  <2> QED
    BY <2>1, <2>2, <2>3
<1>3. /\ RowsFit' /\ D!Things' = D!Things
      /\ \A y \in D!Things : \A c : Copy(y, c) => Copy(y, c)'
      /\ \A y \in D!Things : \A next, n : Asked(y, next, n) => Asked(y, next, n)'
  <2>1. PICK x \in D!Things : \E s \in StatusesOf(x) : row' = D!Changed(x, s)
    BY <1>2
  <2>2. PICK s \in StatusesOf(x) : row' = D!Changed(x, s)
    BY <2>1
  <2> QED
    BY <2>2, ChangeKeeps DEF DeskInv
<1>4. \A y \in D!Things : Copy(y, list[y]) => Copy(y, list[y])'
  <2> TAKE y \in D!Things
  <2>1. PICK c : c = list[y]
    OBVIOUS
  <2>2. Copy(y, c) => Copy(y, c)'
    BY <1>3
  <2> QED
    BY <1>1, <2>1, <2>2 DEF Copy, StatusesOf
<1>5. \A y \in D!Things : Copy(y, detail[y]) => Copy(y, detail[y])'
  <2> TAKE y \in D!Things
  <2>1. PICK c : c = detail[y]
    OBVIOUS
  <2>2. Copy(y, c) => Copy(y, c)'
    BY <1>3
  <2> QED
    BY <1>1, <2>1, <2>2 DEF Copy, StatusesOf
<1>6. PageFits'
  <2>1. detail' \in [D!Things' -> DeskRows] /\ opened' \in D!Things' \cup {D!Nothing}
    BY <1>1, <1>3 DEF DeskInv, PageFits
  <2>2. \A x \in D!Things' : Copy(x, list[x])' /\ (detail[x] = D!NotRead \/ Copy(x, detail[x]))'
    BY <1>1, <1>3, <1>4, <1>5 DEF DeskInv, PageFits, D!NotRead
  <2>3. ASSUME opened \in Mine PROVE Copy(opened, detail[opened])' /\ detail'[opened'].status \notin Over
    <3>1. PICK x : x = opened
      OBVIOUS
    <3>2. x \in D!Things /\ Copy(x, detail[x]) /\ detail[x].status \notin Over
      BY <2>3, <3>1, KindFacts DEF DeskInv, PageFits
    <3>3. Copy(x, detail[x])'
      BY <1>5, <3>2
    <3> QED
      BY <1>1, <3>1, <3>2, <3>3 DEF Copy, StatusesOf
  <2> QED
    BY <1>1, <2>1, <2>2, <2>3 DEF PageFits
<1>7. request' \in [Requests -> DeskRequests] /\ \A g \in Requests : RequestFits(request[g])'
  <2>1. CASE UNCHANGED request
    <3> SUFFICES ASSUME NEW g \in Requests PROVE RequestFits(request[g])'
      BY <2>1 DEF DeskInv
    <3>1. PICK q : q = request[g] /\ RequestFits(q)
      BY DEF DeskInv
    <3>2. PICK id, next, n : id = q.id /\ next = q.next /\ n = q.shown
      OBVIOUS
    <3>3. q.pc # "idle" => id \in D!Things /\ Asked(id, next, n)'
      BY <1>3, <3>1, <3>2 DEF RequestFits
    <3> QED
      BY <1>3, <2>1, <3>1, <3>2, <3>3 DEF RequestFits, Asked, D!Allowed, StatusesOf
  <2>2. CASE \E r \in Requests : D!Write(r)
    <3>1. PICK r \in Requests : D!Write(r)
      BY <2>2
    <3>2. PICK o \in DeskRequests : o = request[r] /\ o.pc = "write" /\ RequestFits(o)
      BY <3>1 DEF DeskInv, D!Write
    <3> DEFINE m == [o EXCEPT !.pc = "made"]
    <3>3. request' = [request EXCEPT ![r] = m]
      BY <3>1, <3>2 DEF D!Write
    <3>4. m \in DeskRequests /\ m.pc = "made" /\ m.id = o.id /\ m.next = o.next /\ m.shown = o.shown
      BY <3>2 DEF DeskRequests
    <3> HIDE DEF m
    <3>5. /\ request' \in [Requests -> DeskRequests]
          /\ \A g \in Requests : request'[g] = IF g = r THEN m ELSE request[g]
      BY <3>3, <3>4 DEF DeskInv
    <3>6. RequestFits(m)
      BY <3>2, <3>4 DEF RequestFits
    <3>7. ASSUME NEW g \in Requests PROVE RequestFits(request[g])'
      <4>1. PICK q : q = request'[g] /\ RequestFits(q)
        BY <3>5, <3>6 DEF DeskInv
      <4>2. PICK id, next, n : id = q.id /\ next = q.next /\ n = q.shown
        OBVIOUS
      <4>3. q.pc # "idle" => id \in D!Things /\ Asked(id, next, n)'
        BY <1>3, <4>1, <4>2 DEF RequestFits
      <4> QED
        BY <1>3, <4>1, <4>2, <4>3 DEF RequestFits, Asked, D!Allowed, StatusesOf
    <3> QED
      BY <3>5, <3>7
  <2> QED
    BY <2>1, <2>2 DEF D!Elsewhere, D!Settle
<1> QED
  BY <1>3, <1>6, <1>7 DEF DeskInv

\* Answers: what is shown is read again, or not.
LEMMA AnswersKeep ==
  ASSUME DeskInv, NEW r \in Requests, D!Succeed(r) \/ D!Cancelled(r) \/ D!Fail(r)
  PROVE  DeskInv'
<1>1. UNCHANGED row /\ request' = [request EXCEPT ![r] = D!Idle] /\ list' \in {row, list}
  BY DEF D!Succeed, D!Cancelled, D!Fail
<1>2. D!Idle \in DeskRequests /\ D!Idle.pc = "idle"
  BY DEF D!Idle, DeskRequests, AnyStatus
<1>3. request' \in [Requests -> DeskRequests] /\ \A g \in Requests : RequestFits(request[g])'
  BY <1>1, <1>2, OneRequest DEF RequestFits
<1>4. \A x \in D!Things : row[x] \in DeskRows /\ Copy(x, row[x])
  BY DEF DeskInv, RowsFit, Copy, DeskRows
<1>5. RowsFit' /\ D!Things' = D!Things
  BY <1>1, RowsStay DEF DeskInv
<1>6. PageFits'
  <2>1. /\ opened' \in {opened, D!Nothing}
        /\ \/ UNCHANGED detail
           \/ /\ detail' = [x \in D!Things |-> IF x = opened THEN row[x] ELSE detail[x]]
              /\ request[r].pc = "made" /\ request[r].id \notin Mine
    BY DEF D!Succeed, D!Cancelled, D!Fail
  <2>2. /\ detail' \in [D!Things -> DeskRows]
        /\ \A x \in D!Things : detail'[x] = D!NotRead \/ Copy(x, detail'[x])
    BY <1>4, <2>1 DEF DeskInv, PageFits
  <2>3. \A x \in D!Things : Copy(x, list'[x])
    BY <1>1, <1>4 DEF DeskInv, PageFits
  <2>4. ASSUME opened' \in Mine PROVE Copy(opened', detail'[opened']) /\ detail'[opened'].status \notin Over
    <3>1. opened' = opened /\ opened \in D!Things /\ opened \in Mine
      BY <2>1, <2>4, KindFacts DEF DeskInv, PageFits
    <3>2. D!Things = Mine
      BY <3>1, KindFacts DEF DeskInv, RowsFit
    <3>3. UNCHANGED detail
      BY <2>1, <3>2 DEF DeskInv, RequestFits
    <3> QED
      BY <3>1, <3>3 DEF DeskInv, PageFits
  <2>5. \A x, c : Copy(x, c) <=> Copy(x, c)'
    BY <1>1 DEF Copy, StatusesOf
  <2>6. \A x \in D!Things : Copy(x, list[x])' /\ (detail[x] = D!NotRead \/ Copy(x, detail[x]))'
    BY <1>1, <2>2, <2>3 DEF Copy, StatusesOf, D!NotRead
  <2>7. opened' \in Mine => Copy(opened, detail[opened])' /\ detail'[opened'].status \notin Over
    BY <1>1, <2>4 DEF Copy, StatusesOf
  <2>8. opened' \in D!Things \cup {D!Nothing}
    BY <2>1 DEF DeskInv, PageFits
  <2> QED
    BY <1>5, <2>2, <2>6, <2>7, <2>8 DEF PageFits
<1> QED
  BY <1>3, <1>5, <1>6 DEF DeskInv

\* The page begins with what is in the database.
LEMMA DeskInit == D!Init => DeskInv
<1> SUFFICES ASSUME D!Init PROVE DeskInv
  OBVIOUS
<1>1. PICK shown \in {Orders, Bookings, Mine} :
        row \in [shown -> [status : IF shown = Orders THEN D!OrderStatuses ELSE D!Statuses, changes : {0}]]
  BY DEF D!Init
<1>2. /\ D!Things = shown
      /\ \A x \in shown : row[x].changes = 0
           /\ row[x].status \in (IF shown = Orders THEN D!OrderStatuses ELSE D!Statuses)
      /\ row \in [shown -> DeskRows]
  BY <1>1 DEF D!Things, DeskRows, AnyStatus
<1>3. \A x \in shown : x \in Orders <=> shown = Orders
  BY KindFacts
<1>4. RowsFit
  BY <1>1, <1>2, <1>3 DEF RowsFit, StatusesOf
<1>5. list = row /\ detail = [x \in D!Things |-> D!NotRead] /\ opened = D!Nothing
      /\ request = [r \in Requests |-> D!Idle]
  BY DEF D!Init
<1>6. D!NotRead \in DeskRows /\ D!Idle \in DeskRequests /\ D!Idle.pc = "idle"
  BY DEF D!NotRead, DeskRows, AnyStatus, D!Idle, DeskRequests
<1>7. PageFits
  BY <1>4, <1>5, <1>6, KindFacts DEF PageFits, RowsFit, Copy, DeskRows
<1> QED
  BY <1>4, <1>5, <1>6, <1>7 DEF DeskInv, RequestFits

\* Every step of the desk keeps its invariant.
LEMMA DeskStep ==
  ASSUME DeskInv, [D!Next]_(D!vars)
  PROVE  DeskInv'
<1>1. CASE UNCHANGED D!vars
  BY <1>1 DEF D!vars, DeskInv, RowsFit, PageFits, RequestFits, Copy, Asked, D!Things, D!Allowed, StatusesOf
<1>2. CASE D!Next
  BY <1>2, PageSteps, PressKeeps, CheckKeeps, ChangesKeep, AnswersKeep DEF D!Next
<1> QED
  BY <1>1, <1>2

\* A status that a page of the back office or of the customer offers is refused only
\* when the row was changed since the page read it, whoever else changes rows and
\* whichever answers get lost.
THEOREM OffersAreHonoured == Spec => []RefusedOnlyIfStale
<1>1. Init => DeskInv
  BY DeskInit DEF Init
<1>2. DeskInv /\ [Next]_allVars => DeskInv'
  BY OfficeStep, DeskStep
<1>3. DeskInv => RefusedOnlyIfStale
  BY DEF DeskInv, RequestFits, RefusedOnlyIfStale, D!RefusedOnlyIfStale
<1> QED
  BY <1>1, <1>2, <1>3, PTL DEF Spec, allVars

-----------------------------------------------------------------------------
(* Onboarding.                                                               *)

\* Unless answers were changed under a recommendation that is awaited, every one that
\* is awaited is for the answers of now.
OnboardingInv ==
  /\ step \in 0 .. 2
  /\ disturbed \in BOOLEAN
  /\ ~disturbed => asked \in Seq({answers})
  /\ O!ShownFitsAnswers

\* A recommendation that came or failed is awaited no longer, and the others are.
LEMMA AwaitedFacts ==
  ASSUME NEW A, NEW s \in Seq(A), NEW i \in 1 .. Len(s)
  PROVE  O!RemoveAt(s, i) \in Seq(A) /\ s[i] \in A
<1>1. SubSeq(s, 1, i - 1) \in Seq(A) /\ SubSeq(s, i + 1, Len(s)) \in Seq(A)
  BY SubSeqProperties
<1> QED
  BY <1>1, ConcatProperties, ElementOfSeq DEF O!RemoveAt

\* Answers that change on the page are either awaited for by nothing or disturb it.
LEMMA AnswerKeeps ==
  ASSUME OnboardingInv, NEW a, O!Answer(a), step' = 1
  PROVE  OnboardingInv'
<1>1. /\ answers' = a /\ disturbed' = (disturbed \/ (asked # <<>> /\ a # answers))
      /\ asked' = asked
  BY DEF O!Answer
<1>2. ASSUME ~disturbed' PROVE asked' \in Seq({a})
  <2>1. CASE asked = <<>>
    BY <1>1, <2>1
  <2>2. CASE asked # <<>>
    BY <1>1, <1>2, <2>2 DEF OnboardingInv
  <2> QED
    BY <2>1, <2>2
<1> QED
  BY <1>1, <1>2 DEF OnboardingInv, O!ShownFitsAnswers

\* One more recommendation is awaited, for the answers of now.
LEMMA RecommendKeeps ==
  ASSUME OnboardingInv, O!recommend
  PROVE  OnboardingInv'
<1>1. /\ step = 1 /\ UNCHANGED <<step, answers, recommendation>>
      /\ asked' = Append(asked, answers) /\ disturbed' = (disturbed /\ asked # <<>>)
  BY DEF O!recommend
<1>2. ASSUME ~disturbed' PROVE asked' \in Seq({answers})
  <2>1. CASE asked = <<>>
    BY <1>1, <2>1
  <2>2. CASE asked # <<>>
    <3>1. asked \in Seq({answers})
      BY <1>1, <1>2, <2>2 DEF OnboardingInv
    <3> QED
      BY <1>1, <3>1, AppendProperties
  <2> QED
    BY <2>1, <2>2
<1> QED
  BY <1>1, <1>2 DEF OnboardingInv, O!ShownFitsAnswers

\* Recommendations that were awaited for the answers of now fit them when they come.
LEMMA ArrivalKeeps ==
  ASSUME OnboardingInv, NEW i \in 1 .. Len(asked), O!Recommend(i) \/ O!RecommendFails(i)
  PROVE  OnboardingInv'
<1>1. UNCHANGED <<answers, disturbed>> /\ asked' = O!RemoveAt(asked, i)
  BY DEF O!Recommend, O!RecommendFails
<1>2. ASSUME ~disturbed PROVE asked' \in Seq({answers}) /\ asked[i] = answers
  BY <1>1, <1>2, AwaitedFacts DEF OnboardingInv
<1>3. step' \in 0 .. 2
  BY DEF O!Recommend, O!RecommendFails, OnboardingInv
<1>4. O!ShownFitsAnswers'
  <2>1. CASE O!Recommend(i)
    BY <1>1, <1>2, <2>1 DEF O!Recommend, O!ShownFitsAnswers, O!Recommended
  <2>2. CASE O!RecommendFails(i)
    BY <1>1, <2>2 DEF O!RecommendFails, OnboardingInv, O!ShownFitsAnswers, O!Recommended
  <2> QED
    BY <2>1, <2>2
<1> QED
  BY <1>1, <1>2, <1>3, <1>4 DEF OnboardingInv

\* Every step of the onboarding keeps its invariant.
LEMMA OnboardingKeeps ==
  ASSUME OnboardingInv, [O!Next]_(O!vars)
  PROVE  OnboardingInv'
<1>1. CASE UNCHANGED <<step, answers, asked, recommendation, disturbed>>
  BY <1>1 DEF OnboardingInv, O!ShownFitsAnswers, O!Recommended
<1>2. CASE \E t \in OnOffer : O!Pick(t)
  BY <1>2, AnswerKeeps DEF O!Pick
<1>3. CASE \E q \in Questions : O!Toggle(q)
  BY <1>3, AnswerKeeps DEF O!Toggle
<1>4. CASE \E n \in 1 .. 2 : O!SetBranchCount(n)
  BY <1>4, AnswerKeeps DEF O!SetBranchCount
<1>5. CASE O!Continue
  BY <1>5, RecommendKeeps DEF O!Continue
<1>6. CASE \E i \in 1 .. Len(asked) : O!Recommend(i) \/ O!RecommendFails(i)
  BY <1>6, ArrivalKeeps
<1>7. CASE O!Back
  <2>1. UNCHANGED <<answers, asked, disturbed>> /\ step' \in 0 .. 2 /\ step' # 2
    BY <1>7 DEF O!Back, OnboardingInv
  <2> QED
    BY <2>1 DEF OnboardingInv, O!ShownFitsAnswers
<1>8. CASE O!Leave
  <2>1. step' = 0 /\ asked' = <<>> /\ disturbed' \in BOOLEAN
    BY <1>8 DEF O!Leave
  <2>2. asked' \in Seq({answers'})
    BY <2>1
  <2>3. step' \in 0 .. 2 /\ O!ShownFitsAnswers'
    BY <2>1 DEF O!ShownFitsAnswers
  <2> QED
    BY <2>1, <2>2, <2>3 DEF OnboardingInv
<1>9. CASE O!createBusiness \/ O!create \/ O!CreateFails
  BY <1>1, <1>9 DEF O!createBusiness, O!create, O!CreateFails
<1> QED
  BY <1>1, <1>2, <1>3, <1>4, <1>5, <1>6, <1>7, <1>8, <1>9 DEF O!Next, O!vars

\* What an owner is shown is what is recommended for the answers the page holds,
\* however many recommendations are awaited and in whatever order they come, as long
\* as no answer is changed under one.
THEOREM ShownIsForTheAnswers == Spec => []ShownFitsAnswers
<1>1. Init => OnboardingInv
  <2>1. Init => step = 0 /\ asked = <<>> /\ disturbed \in BOOLEAN
    BY DEF Init, O!Init
  <2> QED
    BY <2>1 DEF OnboardingInv, O!ShownFitsAnswers
<1>2. OnboardingInv /\ [Next]_allVars => OnboardingInv'
  BY OfficeStep, OnboardingKeeps
<1>3. OnboardingInv => ShownFitsAnswers
  BY DEF OnboardingInv, ShownFitsAnswers
<1> QED
  BY <1>1, <1>2, <1>3, PTL DEF Spec, allVars

-----------------------------------------------------------------------------
(* Staff.                                                                    *)

EmployeeRows == [hired : BOOLEAN, active : BOOLEAN, bookable : BOOLEAN, offers : BOOLEAN]
Makings == [pc : {"idle", "insert"}, who : Employees \cup {S!Nobody}, crossed : SUBSET S!Subjects]
Managings ==
  [pc : {"idle", "link", "counted", "resource"}, what : S!Subjects \cup {S!Nobody},
   offer : SUBSET Employees]

\* A request that has counted the bookings of what it retires.
Retires(m) == managing[m].pc \in {"counted", "resource"}

\* Every upcoming booking with it and every one in the making is known to have crossed
\* its retirement.
Known(x) ==
  /\ \A b \in upcoming : S!Concerns(b, x) => x \in b.crossed
  /\ \A c \in Customers :
       making[c].pc = "insert" /\ S!Concerns(making[c], x) => x \in making[c].crossed

StaffInv ==
  /\ employee \in [Employees -> EmployeeRows]
  /\ making \in [Customers -> Makings]
  /\ managing \in [Managers -> Managings]
  /\ \A m \in Managers : Retires(m) => managing[m].what \in S!Subjects /\ Known(managing[m].what)

\* A step in which nobody books and nobody begins to retire anything.
LEMMA NobodyBooks ==
  ASSUME StaffInv, UNCHANGED <<upcoming, making>>,
         employee' \in [Employees -> EmployeeRows], managing' \in [Managers -> Managings],
         \A m \in Managers : Retires(m)' => Retires(m) /\ managing'[m].what = managing[m].what
  PROVE  StaffInv'
<1>1. ASSUME NEW m \in Managers, Retires(m)'
      PROVE  (managing[m].what \in S!Subjects)' /\ Known(managing[m].what)'
  <2>1. PICK x : x = managing[m].what /\ x = managing'[m].what /\ x \in S!Subjects /\ Known(x)
    BY <1>1 DEF StaffInv
  <2>2. Known(x)'
    BY <2>1 DEF Known, S!Concerns
  <2> QED
    BY <2>1, <2>2 DEF S!Subjects, Known, S!Concerns
<1> QED
  BY <1>1 DEF StaffInv, Makings, S!Subjects

\* The back office, as far as it begins no retirement.
LEMMA ManagingKeeps ==
  ASSUME StaffInv, NEW m \in Managers,
         \/ \E x \in S!Subjects, offer \in SUBSET Employees : S!ClearLinks(m, x, offer)
         \/ S!CreateLinks(m) \/ S!archive(m) \/ S!deactivateEmployee(m)
         \/ S!deactivateResource(m) \/ S!Die(m)
  PROVE  StaffInv'
<1>1. UNCHANGED <<upcoming, making>>
  BY DEF S!ClearLinks, S!CreateLinks, S!archive, S!deactivateEmployee, S!deactivateResource, S!Die
<1>2. employee' \in [Employees -> EmployeeRows]
  <2>0. \A w \in EmployeeRows, b \in BOOLEAN : [w EXCEPT !.offers = b] \in EmployeeRows
    BY DEF EmployeeRows
  <2>1. CASE UNCHANGED employee
    BY <2>1 DEF StaffInv
  <2>2. CASE \E x \in S!Subjects, offer \in SUBSET Employees : S!ClearLinks(m, x, offer)
    <3>1. PICK what \in SUBSET Employees :
            employee' = [e \in Employees |->
                           IF e \in what THEN [employee[e] EXCEPT !.offers = FALSE] ELSE employee[e]]
      <4>1. PICK x \in S!Subjects, offer \in SUBSET Employees : S!ClearLinks(m, x, offer)
        BY <2>2
      <4> DEFINE what == IF x = S!TheService THEN Employees ELSE {x}
      <4>2. employee' = [e \in Employees |->
                           IF e \in what THEN [employee[e] EXCEPT !.offers = FALSE] ELSE employee[e]]
        BY <4>1 DEF S!ClearLinks
      <4>3. what \subseteq Employees
        BY <4>1 DEF S!Subjects
      <4> QED
        BY <4>2, <4>3
    <3>2. \A e \in Employees : employee'[e] \in EmployeeRows
      <4> TAKE e \in Employees
      <4>1. employee[e] \in EmployeeRows
        BY DEF StaffInv
      <4>2. [employee[e] EXCEPT !.offers = FALSE] \in EmployeeRows
        BY <2>0, <4>1
      <4> QED
        BY <3>1, <4>1, <4>2
    <3> QED
      BY <3>1, <3>2
  <2>3. CASE S!CreateLinks(m)
    <3>1. CASE UNCHANGED employee
      BY <3>1 DEF StaffInv
    <3>2. CASE employee' = [e \in Employees |->
                              [employee[e] EXCEPT !.offers = @ \/ e \in managing[m].offer]]
      <4>1. ASSUME NEW e \in Employees PROVE employee'[e] \in EmployeeRows
        <5>1. PICK b \in BOOLEAN : b = (employee[e].offers \/ e \in managing[m].offer)
          OBVIOUS
        <5>2. employee'[e] = [employee[e] EXCEPT !.offers = b]
          BY <3>2, <5>1
        <5> QED
          BY <2>0, <5>2 DEF StaffInv
      <4> QED
        BY <3>2, <4>1
    <3> QED
      BY <2>3, <3>1, <3>2 DEF S!CreateLinks
  <2>4. CASE S!deactivateEmployee(m)
    BY <2>4 DEF StaffInv, S!deactivateEmployee, EmployeeRows
  <2>5. CASE S!deactivateResource(m)
    BY <2>5 DEF StaffInv, S!deactivateResource, EmployeeRows
  <2> QED
    BY <2>1, <2>2, <2>3, <2>4, <2>5 DEF S!archive, S!Die
<1>3. \E q \in Managings :
        /\ managing' = [managing EXCEPT ![m] = q]
        /\ q.pc \in {"counted", "resource"} => Retires(m) /\ q.what = managing[m].what
  <2>1. S!NotManaging \in Managings /\ S!NotManaging.pc = "idle"
    BY DEF S!NotManaging, Managings
  <2>2. CASE \E x \in S!Subjects, offer \in SUBSET Employees : S!ClearLinks(m, x, offer)
    <3>1. PICK x \in S!Subjects, offer \in SUBSET Employees : S!ClearLinks(m, x, offer)
      BY <2>2
    <3>2. PICK mine \in SUBSET Employees :
            managing' = [managing EXCEPT ![m] = [pc |-> "link", what |-> x, offer |-> mine]]
      BY <3>1 DEF S!ClearLinks
    <3>3. [pc |-> "link", what |-> x, offer |-> mine] \in Managings
      BY DEF Managings
    <3> QED
      BY <3>2, <3>3
  <2>3. CASE S!deactivateEmployee(m)
    <3>1. /\ managing[m] \in Managings /\ managing[m].pc = "counted"
          /\ managing' = [managing EXCEPT ![m] = [managing[m] EXCEPT !.pc = "resource"]]
      BY <2>3 DEF S!deactivateEmployee, StaffInv
    <3> DEFINE q == [managing[m] EXCEPT !.pc = "resource"]
    <3>2. q \in Managings /\ q.what = managing[m].what
      BY <3>1 DEF Managings
    <3> QED
      BY <3>1, <3>2 DEF Retires
  <2> QED
    BY <2>1, <2>2, <2>3 DEF S!CreateLinks, S!archive, S!deactivateResource, S!Die
<1>4. PICK q \in Managings :
        /\ managing' = [managing EXCEPT ![m] = q]
        /\ q.pc \in {"counted", "resource"} => Retires(m) /\ q.what = managing[m].what
  BY <1>3
<1>5. /\ managing' \in [Managers -> Managings]
      /\ \A n \in Managers : managing'[n] = IF n = m THEN q ELSE managing[n]
  BY <1>4 DEF StaffInv
<1> QED
  BY <1>1, <1>2, <1>4, <1>5, NobodyBooks DEF Retires

\* A retirement begins: nobody is booked with it, and who is booking crosses it.
LEMMA CountKeeps ==
  ASSUME StaffInv, NEW m \in Managers, NEW x \in S!Subjects, S!CountUpcoming(m, x)
  PROVE  StaffInv'
<1> DEFINE now == [S!NotManaging EXCEPT !.pc = "counted", !.what = x]
<1>1. /\ \A b \in upcoming : ~S!Concerns(b, x)
      /\ managing' = [managing EXCEPT ![m] = now]
      /\ making' = [c \in Customers |->
                      IF making[c] # S!NotMaking /\ S!Concerns(making[c], x)
                      THEN [making[c] EXCEPT !.crossed = @ \cup {x}] ELSE making[c]]
      /\ UNCHANGED <<employee, upcoming>>
  BY DEF S!CountUpcoming, S!Counts
<1>2. now \in Managings /\ now.what = x
  BY DEF Managings, S!NotManaging
<1> HIDE DEF now
<1>3. /\ managing' \in [Managers -> Managings]
      /\ \A n \in Managers : managing'[n] = IF n = m THEN now ELSE managing[n]
  BY <1>1, <1>2 DEF StaffInv
<1>4. ASSUME NEW c \in Customers
      PROVE  /\ making'[c] \in Makings
             /\ making'[c].pc = making[c].pc /\ making'[c].who = making[c].who
             /\ making[c].crossed \subseteq making'[c].crossed
             /\ making[c].pc = "insert" /\ S!Concerns(making[c], x) => x \in making'[c].crossed
  <2>1. making[c] \in Makings
    BY DEF StaffInv
  <2>2. making[c].pc = "insert" => making[c] # S!NotMaking
    BY DEF S!NotMaking
  <2>3. CASE making[c] # S!NotMaking /\ S!Concerns(making[c], x)
    <3>1. making'[c] = [making[c] EXCEPT !.crossed = making[c].crossed \cup {x}]
      BY <1>1, <2>3
    <3> QED
      BY <2>1, <3>1 DEF Makings
  <2>4. CASE ~(making[c] # S!NotMaking /\ S!Concerns(making[c], x))
    BY <1>1, <2>1, <2>2, <2>4
  <2> QED
    BY <2>3, <2>4
<1>5. making' \in [Customers -> Makings]
  BY <1>1, <1>4
<1>6. \A y : Known(y) => Known(y)'
  BY <1>1, <1>4 DEF Known, S!Concerns
<1>7. Known(x)'
  BY <1>1, <1>4 DEF Known, S!Concerns
<1>8. ASSUME NEW n \in Managers, Retires(n)'
      PROVE  managing'[n].what \in S!Subjects /\ \E y : y = managing'[n].what /\ Known(y)'
  <2>1. CASE n = m
    BY <1>2, <1>3, <1>7, <2>1
  <2>2. CASE n # m
    <3>1. PICK y : y = managing[n].what /\ y = managing'[n].what /\ y \in S!Subjects /\ Known(y)
      BY <1>3, <1>8, <2>2 DEF StaffInv, Retires
    <3> QED
      BY <1>6, <3>1
  <2> QED
    BY <2>1, <2>2
<1>9. ASSUME NEW n \in Managers, Retires(n)' PROVE Known(managing[n].what)'
  <2>1. PICK y : y = managing'[n].what /\ Known(y)'
    BY <1>8, <1>9
  <2> QED
    BY <2>1 DEF Known, S!Concerns
<1> QED
  BY <1>1, <1>3, <1>5, <1>8, <1>9 DEF StaffInv, S!Subjects, Makings

\* Who begins to book crosses the retirements under way, and a booking made keeps what
\* it crossed.
LEMMA BookingKeeps ==
  ASSUME StaffInv, NEW c \in Customers, S!LookUp(c) \/ S!Insert(c)
  PROVE  StaffInv'
<1>1. UNCHANGED <<employee, managing>>
  BY DEF S!LookUp, S!Insert
<1>2. making' \in [Customers -> Makings]
  <2>1. CASE S!LookUp(c)
    <3>1. PICK e \in Employees :
            making' = [making EXCEPT ![c] =
                         [pc |-> "insert", who |-> e,
                          crossed |-> { x \in S!Subjects : S!Retiring(x) /\ (x = S!TheService \/ x = e) }]]
      BY <2>1 DEF S!LookUp, S!Resolved
    <3>2. [pc |-> "insert", who |-> e,
           crossed |-> { x \in S!Subjects : S!Retiring(x) /\ (x = S!TheService \/ x = e) }] \in Makings
      BY DEF Makings
    <3> QED
      BY <3>1, <3>2 DEF StaffInv
  <2>2. CASE S!Insert(c)
    <3>1. S!NotMaking \in Makings
      BY DEF S!NotMaking, Makings
    <3> QED
      BY <2>2, <3>1 DEF S!Insert, StaffInv
  <2> QED
    BY <2>1, <2>2
<1>3. ASSUME NEW x \in S!Subjects, S!Retiring(x), Known(x)
      PROVE  Known(x)'
  <2>1. CASE S!LookUp(c)
    <3>1. PICK e \in Employees :
            making' = [making EXCEPT ![c] =
                         [pc |-> "insert", who |-> e,
                          crossed |-> { y \in S!Subjects : S!Retiring(y) /\ (y = S!TheService \/ y = e) }]]
      BY <2>1 DEF S!LookUp, S!Resolved
    <3>2. making'[c].who = e /\ (x = S!TheService \/ x = e => x \in making'[c].crossed)
      BY <1>3, <3>1 DEF StaffInv
    <3>3. \A d \in Customers \ {c} : making'[d] = making[d]
      BY <3>1 DEF StaffInv
    <3>4. UNCHANGED upcoming
      BY <2>1 DEF S!LookUp
    <3> QED
      BY <1>3, <3>2, <3>3, <3>4 DEF Known, S!Concerns
  <2>2. CASE S!Insert(c)
    <3>1. /\ making[c].pc = "insert"
          /\ upcoming' \in {upcoming, upcoming \cup {[id |-> c, who |-> making[c].who, crossed |-> making[c].crossed]}}
          /\ making' = [making EXCEPT ![c] = S!NotMaking]
      BY <2>2 DEF S!Insert
    <3>2. making'[c].pc = "idle" /\ \A d \in Customers \ {c} : making'[d] = making[d]
      BY <3>1 DEF StaffInv, S!NotMaking
    <3>3. S!Concerns(making[c], x) => x \in making[c].crossed
      BY <1>3, <3>1 DEF Known
    <3>4. \A b \in upcoming' : S!Concerns(b, x) => x \in b.crossed
      BY <1>3, <3>1, <3>3 DEF Known, S!Concerns
    <3> QED
      BY <1>3, <3>2, <3>4 DEF Known, S!Concerns
  <2> QED
    BY <2>1, <2>2
<1>4. ASSUME NEW m \in Managers, Retires(m)'
      PROVE  managing'[m].what \in S!Subjects /\ Known(managing[m].what)'
  <2>1. PICK x \in S!Subjects : x = managing[m].what /\ S!Retiring(x) /\ Known(x)
    BY <1>1, <1>4 DEF StaffInv, Retires, S!Retiring
  <2>2. Known(x)'
    BY <1>3, <2>1
  <2> QED
    BY <1>1, <2>1, <2>2 DEF Known, S!Concerns
<1> QED
  BY <1>1, <1>2, <1>4 DEF StaffInv, S!Subjects, Makings

\* Every step of the staff keeps its invariant.
LEMMA StaffStep ==
  ASSUME StaffInv, [S!Next]_(S!vars)
  PROVE  StaffInv'
<1>1. CASE UNCHANGED S!vars
  BY <1>1, NobodyBooks DEF S!vars, StaffInv, Retires
<1>2. ASSUME NEW e \in Employees, NEW offers \in BOOLEAN, S!createEmployee(e, offers)
      PROVE  StaffInv'
  <2>1. employee' \in [Employees -> EmployeeRows]
    BY <1>2 DEF S!createEmployee, StaffInv, EmployeeRows
  <2> QED
    BY <1>2, <2>1, NobodyBooks DEF S!createEmployee, StaffInv, Retires
<1>3. ASSUME NEW on \in BOOLEAN, S!switchService(on) PROVE StaffInv'
  BY <1>3, NobodyBooks DEF S!switchService, StaffInv, Retires
<1>4. ASSUME NEW b \in upcoming, S!Over(b) PROVE StaffInv'
  <2>1. upcoming' \subseteq upcoming /\ UNCHANGED <<employee, making, managing>>
    BY <1>4 DEF S!Over
  <2>2. \A x : Known(x) => Known(x)'
    BY <2>1 DEF Known, S!Concerns
  <2>3. ASSUME NEW m \in Managers, Retires(m)
        PROVE  managing[m].what \in S!Subjects /\ Known(managing[m].what)'
    <3>1. PICK x : x = managing[m].what /\ x \in S!Subjects /\ Known(x)
      BY <2>3 DEF StaffInv
    <3>2. Known(x)'
      BY <2>2, <3>1
    <3> QED
      BY <2>1, <3>1, <3>2 DEF Known, S!Concerns
  <2> QED
    BY <2>1, <2>3 DEF StaffInv, Retires, Makings, S!Subjects
<1> QED
  BY <1>1, <1>2, <1>3, <1>4, ManagingKeeps, CountKeeps, BookingKeeps DEF S!Next

\* A service is archived and the resource of an employee closed only when the bookings
\* with them that are still to come were all being made during their retirement,
\* however many retirements, links and bookings cross.
THEOREM RetiredAreFree == Spec => RetiredIsFree
<1>1. Init => StaffInv
  BY DEF Init, S!Init, StaffInv, EmployeeRows, Makings, Managings, Retires, S!Unhired, S!NotMaking,
     S!NotManaging
<1>2. StaffInv /\ [Next]_allVars => StaffInv'
  BY OfficeStep, StaffStep
<1>3. StaffInv /\ [Next]_allVars =>
        [\A x \in S!Subjects :
           ~S!Retired(x) /\ S!Retired(x)' => \A b \in upcoming : S!Concerns(b, x) => x \in b.crossed]_(S!vars)
  <2> SUFFICES ASSUME StaffInv, S!Next, NEW x \in S!Subjects, ~S!Retired(x), S!Retired(x)'
               PROVE  \A b \in upcoming : S!Concerns(b, x) => x \in b.crossed
    BY OfficeStep
  <2>1. \E m \in Managers : Retires(m) /\ managing[m].what = x
    <3>1. CASE UNCHANGED <<service, employee>>
      BY <3>1 DEF S!Retired
    <3>2. ASSUME NEW e \in Employees, NEW offers \in BOOLEAN, S!createEmployee(e, offers) PROVE FALSE
      BY <3>2 DEF S!createEmployee, S!Retired, StaffInv, S!Subjects
    <3>3. ASSUME NEW m \in Managers, NEW y \in S!Subjects, NEW offer \in SUBSET Employees,
                 S!ClearLinks(m, y, offer)
          PROVE  FALSE
      BY <3>3 DEF S!ClearLinks, S!Retired, StaffInv, S!Subjects, EmployeeRows
    <3>4. ASSUME NEW m \in Managers, S!CreateLinks(m) PROVE FALSE
      BY <3>4 DEF S!CreateLinks, S!Retired, StaffInv, S!Subjects, EmployeeRows
    <3>5. ASSUME NEW m \in Managers, S!archive(m) PROVE Retires(m) /\ managing[m].what = x
      BY <3>5 DEF S!archive, S!Retired, Retires
    <3>6. ASSUME NEW m \in Managers, S!deactivateEmployee(m) PROVE FALSE
      BY <3>6 DEF S!deactivateEmployee, S!Retired, StaffInv, S!Subjects, EmployeeRows
    <3>7. ASSUME NEW m \in Managers, S!deactivateResource(m) PROVE Retires(m) /\ managing[m].what = x
      BY <3>7 DEF S!deactivateResource, S!Retired, StaffInv, S!Subjects, EmployeeRows, Retires
    <3>8. ASSUME NEW on \in BOOLEAN, S!switchService(on) PROVE FALSE
      <4>1. service' = [service EXCEPT !.active = on] /\ UNCHANGED employee
        BY <3>8 DEF S!switchService
      <4> QED
        BY <4>1 DEF S!Retired
    <3> QED
      BY <3>1, <3>2, <3>3, <3>4, <3>5, <3>6, <3>7, <3>8
      DEF S!Next, S!CountUpcoming, S!Counts, S!Die, S!LookUp, S!Insert, S!Over
  <2> QED
    BY <2>1 DEF StaffInv, Known
<1> QED
  BY <1>1, <1>2, <1>3, PTL DEF Spec, allVars, RetiredIsFree, S!RetiredIsFree

-----------------------------------------------------------------------------
(* Login.                                                                    *)

Counting == {"lookup", "verify", "count"}
Failing  == {"count", "expire", "fail"}
Reading  == {"verify", "count", "expire", "fail", "clear", "reset"}

AttemptRecords ==
  [pc : {"idle", "lookup"} \cup Reading, key : Keys \cup {"none"}, seen : Nat]

\* Attempts that may still count a wrong password for a key.
Guessing(k) == { h \in Requests : attempt[h].key = k /\ attempt[h].pc \in Counting }

\* An attempt has read no more than the wrong passwords there were then, and one that
\* failed adds one of its own.
SeenFits(q, n) == q.seen <= n /\ (q.pc \in Failing => q.seen + 1 <= n)

CountersFit ==
  \A k \in Keys :
    attempts[k] + Cardinality(Guessing(k)) <= MaxLoginAttempts - 1 + Cardinality(Requests)

LocksFit ==
  \A a \in Accounts \ crossed :
    /\ failed[a] <= wrong[a]
    /\ \A h \in Requests :
         attempt[h].pc \in Reading /\ L!Account(h) = a => SeenFits(attempt[h], wrong[a])

LoginTypes ==
  /\ attempts \in [Keys -> Nat] /\ failed \in [Accounts -> Nat] /\ wrong \in [Accounts -> Nat]
  /\ attempt \in [Requests -> AttemptRecords]
  /\ \A h \in Requests : attempt[h].pc # "idle" => attempt[h].key \in Keys

LoginInv == LoginTypes /\ CountersFit /\ LocksFit

\* The constants of the logins.
LEMMA LoginConstants ==
  /\ IsFiniteSet(Requests) /\ NoAccount \notin Accounts
  /\ AccountOf \in [Keys -> Accounts \cup {NoAccount}] /\ MaxLoginAttempts \in Nat \ {0}
BY ConstantsAssumption DEF L!LoginAssumption, L!IsFiniteSet, IsFiniteSet

\* The finite sets of Login are those of everybody.
LEMMA SameSets == L!Cardinality(Requests) = Cardinality(Requests)
BY DEF L!Cardinality, Cardinality

\* An attempt that goes on, and one that has read the counter of the row.
Going(o, pc) == [o EXCEPT !.pc = pc]
HasRead(o, n) == [o EXCEPT !.pc = "verify", !.seen = n]
Begun(k) == [pc |-> "lookup", key |-> k, seen |-> 0]

\* An attempt that goes on has its key and what it read.
LEMMA GoingFacts ==
  ASSUME NEW o \in AttemptRecords, NEW pc \in Reading
  PROVE  /\ Going(o, pc) \in AttemptRecords
         /\ Going(o, pc).pc = pc /\ Going(o, pc).key = o.key /\ Going(o, pc).seen = o.seen
BY DEF Going, AttemptRecords

\* One that has read the row verifies the password next.
LEMMA HasReadFacts ==
  ASSUME NEW o \in AttemptRecords, NEW n \in Nat
  PROVE  /\ HasRead(o, n) \in AttemptRecords
         /\ HasRead(o, n).pc = "verify" /\ HasRead(o, n).key = o.key /\ HasRead(o, n).seen = n
BY DEF HasRead, AttemptRecords, Reading

\* One that begins looks the user up.
LEMMA BegunFacts ==
  ASSUME NEW k \in Keys
  PROVE  Begun(k) \in AttemptRecords /\ Begun(k).pc = "lookup" /\ Begun(k).key = k
BY DEF Begun, AttemptRecords

\* What is left of one that ended.
LEMMA IdleFacts == L!Idle \in AttemptRecords /\ L!Idle.pc = "idle"
BY DEF L!Idle, AttemptRecords

\* One attempt becomes q: it counts at most what it may, and q has read what there is.
Moves(h, q) ==
  /\ attempt' = [attempt EXCEPT ![h] = q]
  /\ q.pc \in {"idle", "lookup"} \cup Reading
  /\ attempts' \in [Keys -> Nat] /\ failed' \in [Accounts -> Nat] /\ wrong' \in [Accounts -> Nat]

\* The attempt goes on with its key, and only one that may counts.
Counts(h, q) ==
  /\ q.pc # "idle" => attempt[h].pc # "idle" /\ q.key = attempt[h].key
  /\ q.pc \in Counting => attempt[h].pc \in Counting
  /\ \A k \in Keys :
       \/ attempts'[k] <= attempts[k]
       \/ /\ k = attempt[h].key /\ attempt[h].pc = "count" /\ q.pc \notin Counting
          /\ attempts'[k] = attempts[k] + 1

\* No wrong password is forgotten but by a login that no other attempt has crossed.
Remembers(h, q) ==
  \A a \in Accounts \ crossed' :
    \/ /\ a \notin crossed /\ wrong'[a] >= wrong[a] /\ failed'[a] <= wrong'[a]
       /\ q.pc \in Reading /\ AccountOf[q.key] = a => SeenFits(q, wrong'[a])
    \/ /\ wrong'[a] = 0 /\ failed'[a] = 0 /\ q.pc = "idle"
       /\ \A g \in Requests : attempt[g].pc \in Reading /\ L!Account(g) = a => g = h

\* An attempt that moves keeps the invariant.
LEMMA MovesKeep ==
  ASSUME LoginInv, NEW h \in Requests, NEW q \in AttemptRecords,
         Moves(h, q), Remembers(h, q),
         \/ Counts(h, q)
         \/ UNCHANGED attempts /\ q.pc = "lookup" /\ q.key \in Keys /\ ~L!Throttled(q.key)
  PROVE  LoginInv'
<1>1. /\ attempt' \in [Requests -> AttemptRecords]
      /\ \A g \in Requests : attempt'[g] = IF g = h THEN q ELSE attempt[g]
  BY DEF Moves, LoginInv, LoginTypes
<1>2. LoginTypes'
  BY <1>1 DEF Moves, Counts, LoginInv, LoginTypes
<1>3. \A k \in Keys : IsFiniteSet(Guessing(k)) /\ IsFiniteSet(Guessing(k)')
        /\ Cardinality(Guessing(k)) \in Nat /\ Cardinality(Guessing(k)') \in Nat
        /\ Cardinality(Guessing(k)') <= Cardinality(Requests) /\ Cardinality(Requests) \in Nat
  <2> TAKE k \in Keys
  <2>1. Guessing(k) \subseteq Requests /\ Guessing(k)' \subseteq Requests
    BY DEF Guessing
  <2> QED
    BY <2>1, LoginConstants, FS_Subset, FS_CardinalityType
<1>4. CountersFit'
  <2> SUFFICES ASSUME NEW k \in Keys
               PROVE  attempts'[k] + Cardinality(Guessing(k)')
                        <= MaxLoginAttempts - 1 + Cardinality(Requests)
    BY DEF CountersFit
  <2>1. /\ attempts[k] + Cardinality(Guessing(k)) <= MaxLoginAttempts - 1 + Cardinality(Requests)
        /\ attempts[k] \in Nat /\ attempts'[k] \in Nat /\ MaxLoginAttempts \in Nat \ {0}
    BY <1>2, LoginConstants DEF LoginInv, LoginTypes, CountersFit
  <2>2. CASE UNCHANGED attempts /\ q.pc = "lookup" /\ q.key = k /\ ~L!Throttled(k)
    <3>1. attempts'[k] <= MaxLoginAttempts - 1
      BY <2>1, <2>2 DEF L!Throttled
    <3> QED
      BY <1>3, <2>1, <3>1
  <2>3. CASE \/ attempts'[k] <= attempts[k] /\ Counts(h, q)
             \/ UNCHANGED attempts /\ q.pc = "lookup" /\ q.key # k
    <3>1. Guessing(k)' \subseteq Guessing(k)
      BY <1>1, <2>3 DEF Guessing, Counts, Counting
    <3>2. Cardinality(Guessing(k)') <= Cardinality(Guessing(k))
      BY <1>3, <3>1, FS_Subset
    <3> QED
      BY <1>3, <2>1, <2>3, <3>2
  <2>4. CASE /\ k = attempt[h].key /\ attempt[h].pc = "count" /\ q.pc \notin Counting
             /\ attempts'[k] = attempts[k] + 1
    <3>1. Guessing(k)' \subseteq Guessing(k) \ {h} /\ h \in Guessing(k)
      BY <1>1, <2>4 DEF Guessing, Counting
    <3>2. /\ IsFiniteSet(Guessing(k) \ {h})
          /\ Cardinality(Guessing(k) \ {h}) = Cardinality(Guessing(k)) - 1
      BY <1>3, <3>1, FS_RemoveElement
    <3>3. Cardinality(Guessing(k)') <= Cardinality(Guessing(k) \ {h})
      BY <3>1, <3>2, FS_Subset
    <3> QED
      BY <1>3, <2>1, <2>4, <3>2, <3>3
  <2> QED
    BY <2>2, <2>3, <2>4 DEF Counts
<1>5. LocksFit'
  <2> SUFFICES ASSUME NEW a \in Accounts, a \notin crossed'
               PROVE  /\ failed'[a] <= wrong'[a]
                      /\ \A g \in Requests : attempt'[g].pc \in Reading /\ AccountOf[attempt'[g].key] = a =>
                           SeenFits(attempt'[g], wrong'[a])
    BY DEF LocksFit, L!Account, SeenFits
  <2>1. wrong[a] \in Nat /\ wrong'[a] \in Nat
    BY <1>2 DEF Moves, LoginInv, LoginTypes
  <2>2. CASE /\ a \notin crossed /\ wrong'[a] >= wrong[a] /\ failed'[a] <= wrong'[a]
             /\ q.pc \in Reading /\ AccountOf[q.key] = a => SeenFits(q, wrong'[a])
    <3>1. ASSUME NEW g \in Requests, g # h, attempt[g].pc \in Reading, AccountOf[attempt[g].key] = a
          PROVE  SeenFits(attempt[g], wrong'[a])
      <4>1. SeenFits(attempt[g], wrong[a]) /\ attempt[g].seen \in Nat
        BY <2>1, <2>2, <3>1 DEF LoginInv, LoginTypes, LocksFit, L!Account, AttemptRecords
      <4> QED
        BY <2>1, <2>2, <4>1 DEF SeenFits
    <3> QED
      BY <1>1, <2>2, <3>1
  <2>3. CASE /\ wrong'[a] = 0 /\ failed'[a] = 0 /\ q.pc = "idle"
             /\ \A g \in Requests : attempt[g].pc \in Reading /\ L!Account(g) = a => g = h
    BY <1>1, <2>3 DEF L!Account, Reading
  <2> QED
    BY <2>2, <2>3 DEF Remembers
<1> QED
  BY <1>2, <1>4, <1>5 DEF LoginInv

\* An attempt begins.
LEMMA BeginKeeps ==
  ASSUME LoginInv, NEW h \in Requests, NEW k \in Keys, L!Begin(h, k)
  PROVE  LoginInv'
<1> DEFINE q == Begun(k)
<1>1. /\ attempt' = [attempt EXCEPT ![h] = q] /\ ~L!Throttled(k)
      /\ UNCHANGED <<attempts, failed, wrong, crossed>>
  BY DEF L!Begin, Begun, L!perAccount
<1>2. q \in AttemptRecords /\ q.pc = "lookup" /\ q.key = k
  BY BegunFacts
<1> HIDE DEF q
<1>3. Moves(h, q)
  BY <1>1, <1>2 DEF Moves, LoginInv, LoginTypes
<1>4. Remembers(h, q)
  BY <1>1, <1>2 DEF Remembers, LoginInv, LoginTypes, LocksFit, Reading
<1> QED
  BY <1>1, <1>2, <1>3, <1>4, MovesKeep

\* The steps of an attempt that leave the counters alone.
LEMMA QuietKeeps ==
  ASSUME LoginInv, NEW h \in Requests, NEW q \in AttemptRecords, attempt' = [attempt EXCEPT ![h] = q],
         UNCHANGED <<failed, wrong, crossed>>, attempts' \in [Keys -> Nat], Counts(h, q),
         q.pc \in Reading =>
           \/ /\ attempt[h].pc \in Reading /\ q.key = attempt[h].key /\ q.seen = attempt[h].seen
              /\ q.pc \in Failing => attempt[h].pc \in Failing
           \/ AccountOf[q.key] \notin Accounts
           \/ q.pc \notin Failing /\ q.seen = failed[AccountOf[q.key]]
  PROVE  LoginInv'
<1>1. Moves(h, q)
  BY DEF Moves, LoginInv, LoginTypes, AttemptRecords
<1>2. Remembers(h, q)
  <2> SUFFICES ASSUME NEW a \in Accounts \ crossed
               PROVE  /\ wrong[a] >= wrong[a] /\ failed[a] <= wrong[a]
                      /\ q.pc \in Reading /\ AccountOf[q.key] = a => SeenFits(q, wrong[a])
    BY DEF Remembers
  <2>1. failed[a] <= wrong[a] /\ failed[a] \in Nat /\ wrong[a] \in Nat
    BY DEF LoginInv, LocksFit, LoginTypes
  <2>2. ASSUME q.pc \in Reading, AccountOf[q.key] = a
        PROVE  SeenFits(q, wrong[a])
    <3>1. CASE /\ attempt[h].pc \in Reading /\ q.key = attempt[h].key /\ q.seen = attempt[h].seen
               /\ (q.pc \in Failing => attempt[h].pc \in Failing)
      BY <2>2, <3>1 DEF LoginInv, LocksFit, L!Account, SeenFits
    <3>2. CASE q.pc \notin Failing /\ q.seen = failed[AccountOf[q.key]]
      BY <2>1, <2>2, <3>2 DEF SeenFits
    <3> QED
      BY <2>2, <3>1, <3>2
  <2> QED
    BY <2>1, <2>2
<1> QED
  BY <1>1, <1>2, MovesKeep

\* The user's row is read.
LEMMA LookupKeeps ==
  ASSUME LoginInv, NEW h \in Requests, L!Lookup(h)
  PROVE  LoginInv'
<1>0. "count" \in Reading
  BY DEF Reading
<1>1. /\ attempt[h] \in AttemptRecords /\ attempt[h].pc = "lookup" /\ attempt[h].key \in Keys
      /\ UNCHANGED <<attempts, failed, wrong, crossed>>
      /\ attempts \in [Keys -> Nat] /\ failed \in [Accounts -> Nat]
  BY DEF L!Lookup, LoginInv, LoginTypes, L!perAccount
<1>2. AccountOf[attempt[h].key] \in Accounts \cup {NoAccount}
  BY <1>1, LoginConstants
<1>3. CASE L!Account(h) = NoAccount
  <2> DEFINE q == Going(attempt[h], "count")
  <2>1. attempt' = [attempt EXCEPT ![h] = q]
    BY <1>3 DEF L!Lookup, L!Goto, Going, LoginInv, LoginTypes
  <2>2. q \in AttemptRecords /\ q.pc = "count" /\ q.key = attempt[h].key
    BY <1>0, <1>1, GoingFacts
  <2> HIDE DEF q
  <2>3. AccountOf[q.key] \notin Accounts
    BY <1>3, <2>2, LoginConstants DEF L!Account
  <2>4. Counts(h, q)
    BY <1>1, <2>2 DEF Counts, Counting
  <2> QED
    BY <1>1, <2>1, <2>2, <2>3, <2>4, QuietKeeps
<1>4. CASE L!Account(h) # NoAccount /\ L!Account(h) \in locked
  <2>1. attempt' = [attempt EXCEPT ![h] = L!Idle]
    BY <1>4 DEF L!Lookup
  <2>2. L!Idle.pc = "idle" /\ \A k \in Keys : attempts'[k] <= attempts[k]
    BY <1>1, IdleFacts
  <2>3. Counts(h, L!Idle)
    BY <2>2 DEF Counts, Counting
  <2> QED
    BY <1>1, <2>1, <2>3, IdleFacts, QuietKeeps DEF Reading
<1>5. CASE L!Account(h) # NoAccount /\ L!Account(h) \notin locked
  <2>1. PICK n \in Nat : n = failed[AccountOf[attempt[h].key]]
    BY <1>1, <1>2, <1>5 DEF L!Account
  <2> DEFINE q == HasRead(attempt[h], n)
  <2>2. attempt' = [attempt EXCEPT ![h] = q]
    BY <1>5, <2>1 DEF L!Lookup, L!Account, HasRead, LoginInv, LoginTypes
  <2>3. q \in AttemptRecords /\ q.pc = "verify" /\ q.key = attempt[h].key /\ q.seen = n
    BY <1>1, HasReadFacts
  <2> HIDE DEF q
  <2>4. Counts(h, q)
    BY <1>1, <2>3 DEF Counts, Counting
  <2> QED
    BY <1>1, <2>1, <2>2, <2>3, <2>4, QuietKeeps DEF Failing
<1> QED
  BY <1>3, <1>4, <1>5

\* The steps that only go on, count in Redis, or end.
LEMMA GoingKeeps ==
  ASSUME LoginInv, NEW h \in Requests,
         \/ L!VerifyRight(h) \/ L!Count(h) \/ L!Expire(h) \/ L!Clear(h) \/ L!Die(h)
  PROVE  LoginInv'
<1>1. /\ attempt[h] \in AttemptRecords /\ attempt[h] # L!Idle
      /\ UNCHANGED <<failed, wrong, crossed>> /\ attempts \in [Keys -> Nat]
  BY DEF L!VerifyRight, L!Count, L!Expire, L!Clear, L!Die, LoginInv, LoginTypes, L!Idle, L!perAccount
<1>2. ASSUME NEW pc \in Reading, L!Goto(h, pc), attempt[h].pc \in Reading,
             pc \notin {"verify", "count"}, pc \in Failing => attempt[h].pc \in Failing,
             attempts' \in [Keys -> Nat],
             \A k \in Keys : \/ attempts'[k] <= attempts[k]
                             \/ /\ k = attempt[h].key /\ attempt[h].pc = "count"
                                /\ attempts'[k] = attempts[k] + 1
      PROVE  LoginInv'
  <2> DEFINE q == Going(attempt[h], pc)
  <2>1. attempt' = [attempt EXCEPT ![h] = q]
    BY <1>2 DEF L!Goto, Going, LoginInv, LoginTypes
  <2>2. /\ q \in AttemptRecords /\ q.pc = pc /\ q.key = attempt[h].key /\ q.seen = attempt[h].seen
    BY <1>1, GoingFacts
  <2> HIDE DEF q
  <2>3. Counts(h, q)
    BY <1>2, <2>2 DEF Counts, Counting, Reading
  <2> QED
    BY <1>1, <1>2, <2>1, <2>2, <2>3, QuietKeeps
<1>3. ASSUME L!Finish(h), attempts' \in [Keys -> Nat],
             \A k \in Keys : \/ attempts'[k] <= attempts[k]
                             \/ /\ k = attempt[h].key /\ attempt[h].pc = "count"
                                /\ attempts'[k] = attempts[k] + 1
      PROVE  LoginInv'
  <2>1. attempt' = [attempt EXCEPT ![h] = L!Idle]
    BY <1>3 DEF L!Finish
  <2>2. Counts(h, L!Idle)
    BY <1>3, IdleFacts DEF Counts, Counting
  <2> QED
    BY <1>1, <1>3, <2>1, <2>2, IdleFacts, QuietKeeps DEF Reading
<1>4. \A k \in Keys : attempts[k] \in Nat
  BY <1>1
<1>5. CASE L!VerifyRight(h)
  BY <1>1, <1>2, <1>4, <1>5 DEF L!VerifyRight, Reading, Failing
<1>6. CASE L!Count(h)
  <2>1. /\ attempt[h].pc = "count" /\ attempt[h].key \in Keys
        /\ attempts' = [attempts EXCEPT ![attempt[h].key] = attempts[attempt[h].key] + 1]
        /\ \/ L!Goto(h, "expire") \/ L!Goto(h, "fail") \/ L!Finish(h)
    BY <1>6 DEF L!Count, L!AfterRecord, LoginInv, LoginTypes
  <2>2. /\ attempts' \in [Keys -> Nat]
        /\ \A k \in Keys : \/ attempts'[k] <= attempts[k]
                           \/ k = attempt[h].key /\ attempts'[k] = attempts[k] + 1
    BY <1>1, <1>4, <2>1
  <2> QED
    BY <1>2, <1>3, <2>1, <2>2 DEF Reading, Failing
<1>7. CASE L!Expire(h)
  <2>1. /\ attempt[h].pc = "expire" /\ UNCHANGED attempts /\ (L!Goto(h, "fail") \/ L!Finish(h))
    BY <1>7 DEF L!Expire, L!AfterRecord
  <2> QED
    BY <1>1, <1>2, <1>3, <1>4, <2>1 DEF Reading, Failing
<1>8. CASE L!Clear(h)
  <2>1. /\ attempt[h].pc = "clear" /\ L!Goto(h, "reset")
        /\ attempts' = [attempts EXCEPT ![attempt[h].key] = 0]
    BY <1>8 DEF L!Clear, L!CounterGoes
  <2>2. attempts' \in [Keys -> Nat]
    BY <1>1, <2>1
  <2>3. \A k \in Keys : attempts'[k] = 0 \/ attempts'[k] = attempts[k]
    BY <1>1, <2>1
  <2>4. \A k \in Keys : attempts'[k] <= attempts[k]
    BY <1>4, <2>3
  <2> QED
    BY <1>2, <2>1, <2>2, <2>4 DEF Reading, Failing
<1>9. CASE L!Die(h)
  BY <1>1, <1>3, <1>4, <1>9 DEF L!Die
<1> QED
  BY <1>5, <1>6, <1>7, <1>8, <1>9

\* A wrong password.
LEMMA WrongKeeps ==
  ASSUME LoginInv, NEW h \in Requests, L!VerifyWrong(h)
  PROVE  LoginInv'
<1> DEFINE a == AccountOf[attempt[h].key]
           q == Going(attempt[h], "count")
<1>1. /\ attempt[h] \in AttemptRecords /\ attempt[h].pc = "verify"
      /\ UNCHANGED <<attempts, failed, crossed>>
      /\ attempts \in [Keys -> Nat] /\ failed \in [Accounts -> Nat] /\ wrong \in [Accounts -> Nat]
      /\ attempt' = [attempt EXCEPT ![h] = q] /\ wrong' = [wrong EXCEPT ![a] = wrong[a] + 1]
  BY DEF L!VerifyWrong, L!Goto, L!Account, Going, LoginInv, LoginTypes
<1>2. q \in AttemptRecords /\ q.pc = "count" /\ q.key = attempt[h].key /\ q.seen = attempt[h].seen
  <2>1. "count" \in Reading
    BY DEF Reading
  <2> QED
    BY <1>1, <2>1, GoingFacts
<1> HIDE DEF q, a
<1>3. /\ wrong' \in [Accounts -> Nat]
      /\ \A b \in Accounts : wrong'[b] = IF b = a THEN wrong[b] + 1 ELSE wrong[b]
  <2>1. CASE a \in Accounts
    BY <1>1, <2>1
  <2>2. CASE a \notin Accounts
    <3>1. wrong' = wrong
      BY <1>1, <2>2
    <3> QED
      BY <1>1, <2>2, <3>1
  <2> QED
    BY <2>1, <2>2
<1>4. Moves(h, q)
  BY <1>1, <1>2, <1>3 DEF Moves, Reading
<1>5. Counts(h, q)
  BY <1>1, <1>2 DEF Counts, Counting
<1>6. Remembers(h, q)
  <2> SUFFICES ASSUME NEW b \in Accounts \ crossed
               PROVE  /\ wrong'[b] >= wrong[b] /\ failed[b] <= wrong'[b]
                      /\ AccountOf[q.key] = b => SeenFits(q, wrong'[b])
    BY <1>1 DEF Remembers
  <2>1. failed[b] <= wrong[b] /\ failed[b] \in Nat /\ wrong[b] \in Nat
    BY <1>1 DEF LoginInv, LocksFit
  <2>2. ASSUME AccountOf[q.key] = b PROVE SeenFits(q, wrong'[b])
    <3>1. attempt[h].seen <= wrong[b] /\ attempt[h].seen \in Nat /\ b = a
      BY <1>1, <1>2, <2>2 DEF a, LoginInv, LocksFit, L!Account, SeenFits, Reading, AttemptRecords
    <3> QED
      BY <1>2, <1>3, <2>1, <3>1 DEF SeenFits
  <2> QED
    BY <1>3, <2>1, <2>2
<1> QED
  BY <1>2, <1>4, <1>5, <1>6, MovesKeep

\* The counter of the row is written, or set back by a login.
LEMMA RowKeeps ==
  ASSUME LoginInv, NEW h \in Requests, L!RegisterFailure(h) \/ L!Reset(h)
  PROVE  LoginInv'
<1> DEFINE a == AccountOf[attempt[h].key]
<1>1. /\ attempt[h] \in AttemptRecords /\ attempt[h].pc \in {"fail", "reset"}
      /\ attempts \in [Keys -> Nat] /\ failed \in [Accounts -> Nat] /\ wrong \in [Accounts -> Nat]
      /\ attempt' = [attempt EXCEPT ![h] = L!Idle] /\ UNCHANGED attempts
  BY DEF L!RegisterFailure, L!Reset, L!Finish, LoginInv, LoginTypes
<1>2. Counts(h, L!Idle)
  <2>1. L!Idle.pc = "idle" /\ UNCHANGED attempts
    BY <1>1, IdleFacts
  <2>2. \A k \in Keys : attempts'[k] <= attempts[k]
    BY <1>1
  <2> QED
    BY <2>1, <2>2 DEF Counts, Counting
<1> HIDE DEF a
<1>3. CASE L!RegisterFailure(h)
  <2>1. PICK n \in Nat : n = attempt[h].seen
    BY <1>1 DEF AttemptRecords
  <2>2. /\ attempt[h].pc = "fail" /\ failed' = [failed EXCEPT ![a] = n + 1]
        /\ UNCHANGED <<wrong, crossed>>
    BY <1>3, <2>1 DEF a, L!RegisterFailure, L!Account
  <2>3. /\ failed' \in [Accounts -> Nat]
        /\ \A b \in Accounts : failed'[b] = IF b = a THEN n + 1 ELSE failed[b]
    <3>1. PICK m \in Nat : m = n + 1
      OBVIOUS
    <3>2. failed' = [failed EXCEPT ![a] = m] /\ failed \in [Accounts -> Nat]
      BY <1>1, <2>2, <3>1
    <3> QED
      BY <3>1, <3>2
  <2>4. Moves(h, L!Idle)
    BY <1>1, <2>2, <2>3, IdleFacts DEF Moves
  <2>5. Remembers(h, L!Idle)
    <3> SUFFICES ASSUME NEW b \in Accounts \ crossed
                 PROVE  wrong[b] >= wrong[b] /\ failed'[b] <= wrong[b]
      BY <2>2, IdleFacts DEF Remembers, Reading
    <3>1. failed[b] <= wrong[b] /\ wrong[b] \in Nat
      BY <1>1 DEF LoginInv, LocksFit
    <3>2. b = a => n + 1 <= wrong[b]
      BY <2>1, <2>2 DEF a, LoginInv, LocksFit, L!Account, SeenFits, Reading, Failing
    <3> QED
      BY <2>3, <3>1, <3>2
  <2> QED
    BY <1>1, <1>2, <2>4, <2>5, IdleFacts, MovesKeep
<1>4. CASE L!Reset(h)
  <2>1. /\ failed' = [failed EXCEPT ![a] = 0] /\ wrong' = [wrong EXCEPT ![a] = 0]
        /\ crossed' = IF L!Under(a) = {h} THEN crossed \ {a} ELSE crossed \cup {a}
    BY <1>4 DEF a, L!Reset, L!Account
  <2>2. /\ failed' \in [Accounts -> Nat] /\ wrong' \in [Accounts -> Nat]
        /\ \A b \in Accounts : /\ failed'[b] = IF b = a THEN 0 ELSE failed[b]
                               /\ wrong'[b] = IF b = a THEN 0 ELSE wrong[b]
    BY <1>1, <2>1
  <2>3. Moves(h, L!Idle)
    BY <1>1, <2>2, IdleFacts DEF Moves
  <2>4. Remembers(h, L!Idle)
    <3> SUFFICES ASSUME NEW b \in Accounts \ crossed'
                 PROVE  \/ b \notin crossed /\ wrong'[b] >= wrong[b] /\ failed'[b] <= wrong'[b]
                        \/ /\ wrong'[b] = 0 /\ failed'[b] = 0
                           /\ \A g \in Requests : attempt[g].pc \in Reading /\ L!Account(g) = b => g = h
      <4>1. L!Idle.pc = "idle"
        BY IdleFacts
      <4> QED
        BY <4>1 DEF Remembers, Reading
    <3>1. CASE b = a
      <4>1. L!Under(a) = {h}
        BY <2>1, <3>1
      <4>2. \A g \in Requests : attempt[g].pc \in Reading /\ L!Account(g) = a => g = h
        BY <4>1 DEF L!Under, Reading
      <4> QED
        BY <2>2, <3>1, <4>2
    <3>2. CASE b # a
      <4>1. b \notin crossed
        BY <2>1, <3>2
      <4>2. failed[b] <= wrong[b] /\ wrong[b] \in Nat
        BY <1>1, <4>1 DEF LoginInv, LocksFit
      <4> QED
        BY <2>2, <3>2, <4>1, <4>2
    <3> QED
      BY <3>1, <3>2
  <2> QED
    BY <1>1, <1>2, <2>3, <2>4, IdleFacts, MovesKeep
<1> QED
  BY <1>3, <1>4

\* A step that moves no attempt: a key expires, or a lock ends.
LEMMA PassingKeeps ==
  ASSUME LoginInv, UNCHANGED <<failed, attempt, wrong, crossed>>, attempts' \in [Keys -> Nat],
         \A k \in Keys : attempts'[k] <= attempts[k]
  PROVE  LoginInv'
<1>1. LoginTypes' /\ LocksFit'
  BY DEF LoginInv, LoginTypes, LocksFit, L!Account, SeenFits
<1>2. CountersFit'
  <2> SUFFICES ASSUME NEW k \in Keys
               PROVE  attempts'[k] + Cardinality(Guessing(k)')
                        <= MaxLoginAttempts - 1 + Cardinality(Requests)
    BY DEF CountersFit
  <2>1. Guessing(k)' = Guessing(k) /\ Guessing(k) \subseteq Requests
    BY DEF Guessing
  <2>2. Cardinality(Guessing(k)) \in Nat /\ Cardinality(Requests) \in Nat
    BY <2>1, LoginConstants, FS_Subset, FS_CardinalityType
  <2>3. attempts[k] + Cardinality(Guessing(k)) <= MaxLoginAttempts - 1 + Cardinality(Requests)
    BY DEF LoginInv, CountersFit
  <2> QED
    BY <2>1, <2>2, <2>3, LoginConstants DEF LoginInv, LoginTypes
<1> QED
  BY <1>1, <1>2 DEF LoginInv

\* Every step of the logins keeps their invariant.
LEMMA LoginStep ==
  ASSUME LoginInv, [L!Next]_(L!vars)
  PROVE  LoginInv'
<1>1. attempts \in [Keys -> Nat] /\ \A k \in Keys : attempts[k] \in Nat
  BY DEF LoginInv, LoginTypes
<1>2. CASE UNCHANGED L!vars
  BY <1>1, <1>2, PassingKeeps DEF L!vars, L!perAccount
<1>3. CASE \E k \in Keys : L!KeyExpires(k)
  <2>1. PICK k \in Keys : L!KeyExpires(k)
    BY <1>3
  <2>2. attempts' = [attempts EXCEPT ![k] = 0] /\ UNCHANGED <<failed, attempt, wrong, crossed>>
    BY <2>1 DEF L!KeyExpires, L!CounterGoes, L!perAccount
  <2>3. attempts' \in [Keys -> Nat] /\ \A j \in Keys : attempts'[j] <= attempts[j]
    BY <1>1, <2>2
  <2> QED
    BY <2>2, <2>3, PassingKeeps
<1>4. CASE \E a \in Accounts : L!LockEnds(a)
  BY <1>1, <1>4, PassingKeeps DEF L!LockEnds, L!perAccount
<1>5. CASE \E h \in Requests : (\E k \in Keys : L!Begin(h, k)) \/ L!Step(h) \/ L!Die(h)
  BY <1>5, BeginKeeps, LookupKeeps, GoingKeeps, WrongKeeps, RowKeeps DEF L!Step
<1> QED
  BY <1>2, <1>3, <1>4, <1>5 DEF L!Next

\* Nobody has tried yet.
LEMMA LoginInit == L!Init => LoginInv
<1> SUFFICES ASSUME L!Init PROVE LoginInv
  OBVIOUS
<1>1. LoginTypes
  <2>1. /\ attempts = [k \in Keys |-> 0] /\ failed = [a \in Accounts |-> 0]
        /\ wrong = [a \in Accounts |-> 0] /\ attempt = [h \in Requests |-> L!Idle]
    BY DEF L!Init
  <2>2. L!Idle \in AttemptRecords /\ L!Idle.pc = "idle"
    BY IdleFacts
  <2> QED
    BY <2>1, <2>2 DEF LoginTypes
<1>2. LocksFit
  <2>1. \A h \in Requests : attempt[h].pc \notin Reading
    BY IdleFacts DEF L!Init, Reading
  <2> QED
    BY <2>1 DEF L!Init, LocksFit
<1>3. ASSUME NEW k \in Keys
      PROVE  attempts[k] + Cardinality(Guessing(k)) <= MaxLoginAttempts - 1 + Cardinality(Requests)
  <2>1. Guessing(k) = {} /\ attempts[k] = 0
    BY IdleFacts DEF L!Init, Guessing, Counting
  <2>2. Cardinality(Guessing(k)) = 0 /\ Cardinality(Requests) \in Nat
    BY <2>1, FS_EmptySet, LoginConstants, FS_CardinalityType
  <2> QED
    BY <2>1, <2>2, LoginConstants
<1> QED
  BY <1>1, <1>2, <1>3 DEF LoginInv, CountersFit

\* The tallies: each wrong password is counted, about to be, or lost with its login.
KeyTally(k) == guesses[k] = attempts[k] + Cardinality(L!ToCount(k)) + missed[k]

AccountTally(a) ==
  \/ a \in crossed \/ a \in overtaken
  \/ wrong[a] = failed[a] + Cardinality(L!ToRegister(a)) + unwritten[a]

TallyTypes ==
  guesses \in [Keys -> Nat] /\ missed \in [Keys -> Nat] /\ unwritten \in [Accounts -> Nat]

LocksEarned == \A a \in Accounts \ crossed : a \in locked => wrong[a] >= MaxLoginAttempts * 2

TallyInv ==
  /\ TallyTypes
  /\ \A k \in Keys : KeyTally(k)
  /\ \A a \in Accounts : AccountTally(a)
  /\ LocksEarned

\* What a step of attempt h may do to the tally of a key, and to that of an account.
KeyStep(h, k) ==
  \/ /\ guesses'[k] = guesses[k] /\ attempts'[k] = attempts[k] /\ missed'[k] = missed[k]
     /\ h \in L!ToCount(k) <=> h \in L!ToCount(k)'
  \/ /\ guesses'[k] = guesses[k] + 1 /\ attempts'[k] = attempts[k] /\ missed'[k] = missed[k]
     /\ h \notin L!ToCount(k) /\ h \in L!ToCount(k)'
  \/ /\ guesses'[k] = guesses[k] /\ attempts'[k] + missed'[k] = attempts[k] + missed[k] + 1
     /\ h \in L!ToCount(k) /\ h \notin L!ToCount(k)'
  \/ /\ guesses'[k] = Cardinality(L!ToCount(k)) /\ attempts'[k] = 0 /\ missed'[k] = 0
     /\ h \in L!ToCount(k) <=> h \in L!ToCount(k)'

AccountStep(h, a) ==
  \/ a \in crossed' \/ a \in overtaken'
  \/ /\ a \notin crossed /\ a \notin overtaken
     /\ \/ /\ wrong'[a] = wrong[a] /\ failed'[a] = failed[a] /\ unwritten'[a] = unwritten[a]
           /\ h \in L!ToRegister(a) <=> h \in L!ToRegister(a)'
        \/ /\ wrong'[a] = wrong[a] + 1 /\ failed'[a] = failed[a] /\ unwritten'[a] = unwritten[a]
           /\ h \notin L!ToRegister(a) /\ h \in L!ToRegister(a)'
        \/ /\ wrong'[a] = wrong[a] /\ failed'[a] + unwritten'[a] = failed[a] + unwritten[a] + 1
           /\ h \in L!ToRegister(a) /\ h \notin L!ToRegister(a)'
  \/ /\ wrong'[a] = 0 /\ failed'[a] = 0 /\ unwritten'[a] = 0
     /\ L!ToRegister(a)' = {}

\* Two sets of attempts that differ in one at most.
LEMMA OneApart ==
  ASSUME NEW h, NEW A \in SUBSET Requests, NEW B \in SUBSET Requests,
         \A g \in Requests : g # h => (g \in A <=> g \in B)
  PROVE  /\ Cardinality(A) \in Nat /\ Cardinality(B) \in Nat
         /\ (h \in A <=> h \in B) => Cardinality(B) = Cardinality(A)
         /\ h \notin A /\ h \in B => Cardinality(B) = Cardinality(A) + 1
         /\ h \in A /\ h \notin B => Cardinality(B) + 1 = Cardinality(A)
<1>1. IsFiniteSet(A) /\ IsFiniteSet(B) /\ Cardinality(A) \in Nat /\ Cardinality(B) \in Nat
  BY LoginConstants, FS_Subset, FS_CardinalityType
<1>2. ASSUME h \in A <=> h \in B PROVE A = B
  BY <1>2
<1>3. ASSUME h \notin A, h \in B PROVE Cardinality(B) = Cardinality(A) + 1
  <2>1. B = A \cup {h}
    BY <1>3
  <2> QED
    BY <1>1, <1>3, <2>1, FS_AddElement
<1>4. ASSUME h \in A, h \notin B PROVE Cardinality(B) + 1 = Cardinality(A)
  <2>1. A = B \cup {h}
    BY <1>4
  <2> QED
    BY <1>1, <1>4, <2>1, FS_AddElement
<1> QED
  BY <1>1, <1>2, <1>3, <1>4

\* Steps that keep to that keep the tallies.
LEMMA TalliesKeep ==
  ASSUME LoginInv, TallyInv, LoginTypes', TallyTypes', NEW h,
         \A g \in Requests : g # h => attempt'[g] = attempt[g],
         \A k \in Keys : KeyStep(h, k),
         \A a \in Accounts : AccountStep(h, a)
  PROVE  (\A k \in Keys : KeyTally(k)') /\ (\A a \in Accounts : AccountTally(a)')
<1>1. ASSUME NEW k \in Keys PROVE KeyTally(k)'
  <2>1. PICK A, B : A = L!ToCount(k) /\ B = L!ToCount(k)'
    OBVIOUS
  <2>2. A \in SUBSET Requests /\ B \in SUBSET Requests
        /\ \A g \in Requests : g # h => (g \in A <=> g \in B)
    BY <2>1 DEF L!ToCount
  <2>3. /\ Cardinality(A) \in Nat /\ Cardinality(B) \in Nat
        /\ (h \in A <=> h \in B) => Cardinality(B) = Cardinality(A)
        /\ h \notin A /\ h \in B => Cardinality(B) = Cardinality(A) + 1
        /\ h \in A /\ h \notin B => Cardinality(B) + 1 = Cardinality(A)
    BY <2>2, OneApart
  <2>4. /\ guesses[k] \in Nat /\ attempts[k] \in Nat /\ missed[k] \in Nat
        /\ guesses'[k] \in Nat /\ attempts'[k] \in Nat /\ missed'[k] \in Nat
    BY DEF LoginInv, LoginTypes, TallyInv, TallyTypes
  <2>5. guesses[k] = attempts[k] + Cardinality(A) + missed[k]
    BY <2>1 DEF TallyInv, KeyTally
  <2>6. \/ /\ guesses'[k] = guesses[k] /\ attempts'[k] = attempts[k] /\ missed'[k] = missed[k]
           /\ h \in A <=> h \in B
        \/ /\ guesses'[k] = guesses[k] + 1 /\ attempts'[k] = attempts[k] /\ missed'[k] = missed[k]
           /\ h \notin A /\ h \in B
        \/ /\ guesses'[k] = guesses[k] /\ attempts'[k] + missed'[k] = attempts[k] + missed[k] + 1
           /\ h \in A /\ h \notin B
        \/ /\ guesses'[k] = Cardinality(A) /\ attempts'[k] = 0 /\ missed'[k] = 0
           /\ h \in A <=> h \in B
    BY <2>1 DEF KeyStep
  <2>7. guesses'[k] = attempts'[k] + Cardinality(B) + missed'[k]
    BY <2>3, <2>4, <2>5, <2>6
  <2> QED
    BY <2>1, <2>7 DEF KeyTally
<1>2. ASSUME NEW a \in Accounts PROVE AccountTally(a)'
  <2>1. PICK A, B : A = L!ToRegister(a) /\ B = L!ToRegister(a)'
    OBVIOUS
  <2>2. A \in SUBSET Requests /\ B \in SUBSET Requests
        /\ \A g \in Requests : g # h => (g \in A <=> g \in B)
    BY <2>1 DEF L!ToRegister, L!Account
  <2>3. /\ Cardinality(A) \in Nat /\ Cardinality(B) \in Nat
        /\ (h \in A <=> h \in B) => Cardinality(B) = Cardinality(A)
        /\ h \notin A /\ h \in B => Cardinality(B) = Cardinality(A) + 1
        /\ h \in A /\ h \notin B => Cardinality(B) + 1 = Cardinality(A)
    BY <2>2, OneApart
  <2>4. /\ wrong[a] \in Nat /\ failed[a] \in Nat /\ unwritten[a] \in Nat
        /\ wrong'[a] \in Nat /\ failed'[a] \in Nat /\ unwritten'[a] \in Nat
    BY DEF LoginInv, LoginTypes, TallyInv, TallyTypes
  <2>5. a \notin crossed /\ a \notin overtaken => wrong[a] = failed[a] + Cardinality(A) + unwritten[a]
    BY <2>1 DEF TallyInv, AccountTally
  <2>6. \/ a \in crossed' \/ a \in overtaken'
        \/ /\ a \notin crossed /\ a \notin overtaken
           /\ \/ /\ wrong'[a] = wrong[a] /\ failed'[a] = failed[a] /\ unwritten'[a] = unwritten[a]
                 /\ h \in A <=> h \in B
              \/ /\ wrong'[a] = wrong[a] + 1 /\ failed'[a] = failed[a] /\ unwritten'[a] = unwritten[a]
                 /\ h \notin A /\ h \in B
              \/ /\ wrong'[a] = wrong[a] /\ failed'[a] + unwritten'[a] = failed[a] + unwritten[a] + 1
                 /\ h \in A /\ h \notin B
        \/ wrong'[a] = 0 /\ failed'[a] = 0 /\ unwritten'[a] = 0 /\ B = {}
    BY <2>1 DEF AccountStep
  <2>7. B = {} => Cardinality(B) = 0
    BY FS_EmptySet
  <2>8. CASE a \in crossed' \/ a \in overtaken'
    BY <2>8 DEF AccountTally
  <2>9. CASE wrong'[a] = 0 /\ failed'[a] = 0 /\ unwritten'[a] = 0 /\ B = {}
    <3>1. wrong'[a] = failed'[a] + Cardinality(B) + unwritten'[a]
      BY <2>7, <2>9
    <3> QED
      BY <2>1, <3>1 DEF AccountTally
  <2>10. CASE /\ a \notin crossed /\ a \notin overtaken
              /\ \/ /\ wrong'[a] = wrong[a] /\ failed'[a] = failed[a] /\ unwritten'[a] = unwritten[a]
                    /\ h \in A <=> h \in B
                 \/ /\ wrong'[a] = wrong[a] + 1 /\ failed'[a] = failed[a] /\ unwritten'[a] = unwritten[a]
                    /\ h \notin A /\ h \in B
                 \/ /\ wrong'[a] = wrong[a] /\ failed'[a] + unwritten'[a] = failed[a] + unwritten[a] + 1
                    /\ h \in A /\ h \notin B
    <3>1. wrong[a] = failed[a] + Cardinality(A) + unwritten[a]
      BY <2>5, <2>10
    <3>2. wrong'[a] = failed'[a] + Cardinality(B) + unwritten'[a]
      BY <2>3, <2>4, <2>10, <3>1
    <3> QED
      BY <2>1, <3>2 DEF AccountTally
  <2> QED
    BY <2>6, <2>8, <2>9, <2>10
<1> QED
  BY <1>1, <1>2

\* Where the attempt that moves is and will be among those still to be counted.
LEMMA Memberships ==
  ASSUME LoginInv, NEW h \in Requests, NEW q \in AttemptRecords, attempt' = [attempt EXCEPT ![h] = q]
  PROVE  /\ \A g \in Requests : g # h => attempt'[g] = attempt[g]
         /\ \A k : h \in L!ToCount(k) <=> attempt[h].pc = "count" /\ attempt[h].key = k
         /\ \A k : h \in L!ToCount(k)' <=> q.pc = "count" /\ q.key = k
         /\ \A a : h \in L!ToRegister(a) <=> attempt[h].pc \in Failing /\ AccountOf[attempt[h].key] = a
         /\ \A a : h \in L!ToRegister(a)' <=> q.pc \in Failing /\ AccountOf[q.key] = a
<1>1. attempt' \in [Requests -> AttemptRecords] /\ attempt'[h] = q
      /\ \A g \in Requests : g # h => attempt'[g] = attempt[g]
  BY DEF LoginInv, LoginTypes
<1> QED
  BY <1>1 DEF L!ToCount, L!ToRegister, L!Account, Failing

\* Steps between which no wrong password is entered, counted or lost.
LEMMA QuietTallies ==
  ASSUME LoginInv, TallyInv, LoginTypes', NEW h \in Requests, NEW q \in AttemptRecords,
         attempt' = [attempt EXCEPT ![h] = q],
         UNCHANGED <<attempts, guesses, missed, failed, wrong, unwritten, overtaken, crossed>>,
         locked' \subseteq locked,
         attempt[h].pc # "count" /\ q.pc # "count",
         \/ attempt[h].pc \notin Failing /\ q.pc \notin Failing
         \/ attempt[h].pc \in Failing /\ q.pc \in Failing /\ q.key = attempt[h].key
         \/ AccountOf[attempt[h].key] \notin Accounts /\ q.pc \notin Failing
  PROVE  TallyInv'
<1>1. TallyTypes' /\ LocksEarned'
  BY DEF TallyInv, TallyTypes, LocksEarned
<1>2. \A k \in Keys : KeyStep(h, k)
  BY Memberships DEF KeyStep
<1>3. \A a \in Accounts : AccountStep(h, a)
  <2> TAKE a \in Accounts
  <2>1. /\ h \in L!ToRegister(a) <=> attempt[h].pc \in Failing /\ AccountOf[attempt[h].key] = a
        /\ h \in L!ToRegister(a)' <=> q.pc \in Failing /\ AccountOf[q.key] = a
    BY Memberships
  <2>2. h \in L!ToRegister(a) <=> h \in L!ToRegister(a)'
    BY <2>1
  <2> QED
    BY <2>2 DEF AccountStep
<1> QED
  BY <1>1, <1>2, <1>3, Memberships, TalliesKeep DEF TallyInv

\* The numbers of Login are those of everybody.
LEMMA SameCounts == \A X : L!Cardinality(X) = Cardinality(X)
BY DEF L!Cardinality, Cardinality

\* A key whose tally nothing touches, and an account.
LEMMA KeysQuiet ==
  ASSUME UNCHANGED <<attempts, guesses, missed>>, NEW h,
         \A k \in Keys : h \in L!ToCount(k) <=> h \in L!ToCount(k)'
  PROVE  \A k \in Keys : KeyStep(h, k)
BY DEF KeyStep

\* The same of the accounts.
LEMMA AccountsQuiet ==
  ASSUME UNCHANGED <<failed, wrong, unwritten, overtaken, crossed>>, NEW h,
         \A a \in Accounts : h \in L!ToRegister(a) <=> h \in L!ToRegister(a)'
  PROVE  \A a \in Accounts : AccountStep(h, a)
BY DEF AccountStep

\* No lock is set, and no wrong password forgotten.
LEMMA LocksStay ==
  ASSUME LoginInv, TallyInv, LoginTypes', UNCHANGED crossed, locked' \subseteq locked,
         \A a \in Accounts : wrong'[a] >= wrong[a]
  PROVE  LocksEarned'
<1> SUFFICES ASSUME NEW a \in Accounts, a \notin crossed, a \in locked
             PROVE  wrong'[a] >= MaxLoginAttempts * 2
  BY DEF LocksEarned
<1>1. wrong[a] >= MaxLoginAttempts * 2
  BY DEF TallyInv, LocksEarned
<1>2. wrong[a] \in Nat /\ wrong'[a] \in Nat /\ MaxLoginAttempts * 2 \in Nat /\ wrong'[a] >= wrong[a]
  BY LoginConstants DEF LoginInv, LoginTypes
<1> QED
  BY <1>1, <1>2

\* The account of an attempt that is under way, if it has one.
LEMMA AccountFacts ==
  ASSUME LoginInv, NEW h \in Requests, attempt[h].pc # "idle"
  PROVE  /\ attempt[h] \in AttemptRecords /\ attempt[h].key \in Keys
         /\ L!Account(h) = AccountOf[attempt[h].key]
         /\ L!Account(h) # NoAccount => L!Account(h) \in Accounts
         /\ L!Account(h) = NoAccount => L!Account(h) \notin Accounts
BY LoginConstants DEF LoginInv, LoginTypes, L!Account

\* A wrong password is entered: it is to be counted for its key.
LEMMA GuessCounts ==
  ASSUME LoginInv, TallyInv, NEW h \in Requests, NEW q \in AttemptRecords,
         attempt' = [attempt EXCEPT ![h] = q], attempt[h].key \in Keys,
         UNCHANGED <<attempts, missed>>, guesses' = [guesses EXCEPT ![attempt[h].key] = @ + 1],
         attempt[h].pc # "count", q.pc = "count", q.key = attempt[h].key
  PROVE  guesses' \in [Keys -> Nat] /\ \A k \in Keys : KeyStep(h, k)
<1>1. guesses \in [Keys -> Nat]
  BY DEF TallyInv, TallyTypes
<1>2. guesses' \in [Keys -> Nat]
      /\ \A k \in Keys : guesses'[k] = IF k = attempt[h].key THEN guesses[k] + 1 ELSE guesses[k]
  BY <1>1
<1>3. ASSUME NEW k \in Keys PROVE KeyStep(h, k)
  <2>0. /\ h \in L!ToCount(k) <=> attempt[h].pc = "count" /\ attempt[h].key = k
        /\ h \in L!ToCount(k)' <=> q.pc = "count" /\ q.key = k
    <3>1. attempt'[h] = q
      BY DEF LoginInv, LoginTypes
    <3> QED
      BY <3>1 DEF L!ToCount
  <2>1. h \notin L!ToCount(k) /\ (h \in L!ToCount(k)' <=> k = attempt[h].key)
    BY <2>0
  <2> QED
    BY <1>2, <2>1 DEF KeyStep
<1> QED
  BY <1>2, <1>3

\* The user's row is read: the tallies.
LEMMA LookupTallies ==
  ASSUME LoginInv, TallyInv, LoginTypes', NEW h \in Requests, L!Lookup(h)
  PROVE  TallyInv'
<1>1. attempt[h].pc = "lookup" /\ attempt[h].pc # "idle"
      /\ UNCHANGED <<attempts, failed, locked, missed, wrong, unwritten, overtaken, crossed>>
  BY DEF L!Lookup, L!perAccount
<1>2. /\ attempt[h] \in AttemptRecords /\ attempt[h].key \in Keys
      /\ L!Account(h) = AccountOf[attempt[h].key]
      /\ L!Account(h) # NoAccount => L!Account(h) \in Accounts
      /\ L!Account(h) = NoAccount => L!Account(h) \notin Accounts
  BY <1>1, AccountFacts
<1>3. CASE L!Account(h) = NoAccount
  <2> DEFINE q == Going(attempt[h], "count")
  <2>1. attempt' = [attempt EXCEPT ![h] = q] /\ guesses' = [guesses EXCEPT ![attempt[h].key] = @ + 1]
    BY <1>3 DEF L!Lookup, L!Goto, Going, LoginInv, LoginTypes
  <2>2. q \in AttemptRecords /\ q.pc = "count" /\ q.key = attempt[h].key
    <3>1. "count" \in Reading
      BY DEF Reading
    <3> QED
      BY <1>2, <3>1, GoingFacts
  <2> HIDE DEF q
  <2>3. guesses' \in [Keys -> Nat] /\ \A k \in Keys : KeyStep(h, k)
    BY <1>1, <1>2, <2>1, <2>2, GuessCounts
  <2>4. \A a \in Accounts : h \in L!ToRegister(a) <=> h \in L!ToRegister(a)'
    <3> TAKE a \in Accounts
    <3>1. /\ h \in L!ToRegister(a) <=> attempt[h].pc \in Failing /\ AccountOf[attempt[h].key] = a
          /\ h \in L!ToRegister(a)' <=> q.pc \in Failing /\ AccountOf[q.key] = a
      <4>1. attempt'[h] = q
        BY <2>1 DEF LoginInv, LoginTypes
      <4> QED
        BY <4>1 DEF L!ToRegister, L!Account, Failing
    <3> QED
      BY <1>2, <1>3, <2>2, <3>1
  <2>5. \A a \in Accounts : AccountStep(h, a)
    BY <1>1, <2>4, AccountsQuiet
  <2>6. TallyTypes' /\ LocksEarned'
    BY <1>1, <2>3 DEF TallyInv, TallyTypes, LocksEarned
  <2>7. \A g \in Requests : g # h => attempt'[g] = attempt[g]
    BY <2>1, <2>2, Memberships
  <2>8. (\A k \in Keys : KeyTally(k)') /\ (\A a \in Accounts : AccountTally(a)')
    BY <2>3, <2>5, <2>6, <2>7, TalliesKeep
  <2> QED
    BY <2>6, <2>8 DEF TallyInv
<1>4. CASE L!Account(h) # NoAccount /\ L!Account(h) \in locked
  <2>1. attempt' = [attempt EXCEPT ![h] = L!Idle] /\ UNCHANGED guesses
    BY <1>4 DEF L!Lookup
  <2>2. attempt[h].pc \notin Failing /\ L!Idle.pc \notin Failing /\ L!Idle.pc # "count"
    BY <1>1, IdleFacts DEF Failing
  <2> QED
    BY <1>1, <2>1, <2>2, IdleFacts, QuietTallies
<1>5. CASE L!Account(h) # NoAccount /\ L!Account(h) \notin locked
  <2>1. PICK n \in Nat : n = failed[AccountOf[attempt[h].key]]
    BY <1>2, <1>5 DEF LoginInv, LoginTypes
  <2> DEFINE q == HasRead(attempt[h], n)
  <2>2. attempt' = [attempt EXCEPT ![h] = q] /\ UNCHANGED guesses
    BY <1>5, <2>1 DEF L!Lookup, L!Account, HasRead, LoginInv, LoginTypes
  <2>3. q \in AttemptRecords /\ q.pc = "verify"
    BY <1>2, HasReadFacts
  <2> HIDE DEF q
  <2>4. attempt[h].pc \notin Failing /\ q.pc \notin Failing /\ q.pc # "count"
    BY <1>1, <2>3 DEF Failing
  <2> QED
    BY <1>1, <2>2, <2>3, <2>4, QuietTallies
<1> QED
  BY <1>3, <1>4, <1>5

\* A wrong password: the tallies.
LEMMA WrongTallies ==
  ASSUME LoginInv, TallyInv, LoginTypes', NEW h \in Requests, L!VerifyWrong(h)
  PROVE  TallyInv'
<1> DEFINE q == Going(attempt[h], "count")
<1>1. /\ attempt[h].pc = "verify" /\ attempt[h].pc # "idle"
      /\ UNCHANGED <<attempts, failed, locked, missed, unwritten, overtaken, crossed>>
      /\ guesses' = [guesses EXCEPT ![attempt[h].key] = @ + 1]
      /\ wrong' = [wrong EXCEPT ![L!Account(h)] = @ + 1]
      /\ attempt' = [attempt EXCEPT ![h] = q]
  BY DEF L!VerifyWrong, L!Goto, Going, LoginInv, LoginTypes
<1>2. /\ attempt[h] \in AttemptRecords /\ attempt[h].key \in Keys
      /\ L!Account(h) = AccountOf[attempt[h].key]
  BY <1>1, AccountFacts
<1>3. q \in AttemptRecords /\ q.pc = "count" /\ q.key = attempt[h].key
  <2>1. "count" \in Reading
    BY DEF Reading
  <2> QED
    BY <1>2, <2>1, GoingFacts
<1> HIDE DEF q
<1>4. guesses' \in [Keys -> Nat] /\ \A k \in Keys : KeyStep(h, k)
  BY <1>1, <1>2, <1>3, GuessCounts
<1>5. \A a \in Accounts : wrong[a] \in Nat
      /\ wrong'[a] = IF a = AccountOf[attempt[h].key] THEN wrong[a] + 1 ELSE wrong[a]
  BY <1>1, <1>2 DEF LoginInv, LoginTypes
<1>6. ASSUME NEW a \in Accounts PROVE AccountStep(h, a)
  <2>0. /\ h \in L!ToRegister(a) <=> attempt[h].pc \in Failing /\ AccountOf[attempt[h].key] = a
        /\ h \in L!ToRegister(a)' <=> q.pc \in Failing /\ AccountOf[q.key] = a
    <3>1. attempt'[h] = q
      BY <1>1 DEF LoginInv, LoginTypes
    <3> QED
      BY <3>1 DEF L!ToRegister, L!Account, Failing
  <2>1. h \notin L!ToRegister(a) /\ (h \in L!ToRegister(a)' <=> a = AccountOf[attempt[h].key])
    BY <1>1, <1>3, <2>0 DEF Failing
  <2> QED
    BY <1>1, <1>5, <2>1 DEF AccountStep
<1>7. TallyTypes'
  BY <1>1, <1>4 DEF TallyInv, TallyTypes
<1>8. LocksEarned'
  <2>1. \A a \in Accounts : wrong'[a] >= wrong[a]
    BY <1>5
  <2> QED
    BY <1>1, <2>1, LocksStay
<1>9. \A g \in Requests : g # h => attempt'[g] = attempt[g]
  BY <1>1, <1>3, Memberships
<1>10. (\A k \in Keys : KeyTally(k)') /\ (\A a \in Accounts : AccountTally(a)')
  BY <1>4, <1>6, <1>7, <1>9, TalliesKeep
<1> QED
  BY <1>7, <1>8, <1>10 DEF TallyInv

\* Where the attempt goes after its failure is in Redis.
LEMMA AfterFacts ==
  ASSUME LoginInv, NEW h \in Requests, attempt[h].pc \in Failing,
         L!Goto(h, "expire") \/ L!AfterRecord(h)
  PROVE  \E q \in AttemptRecords :
           /\ attempt' = [attempt EXCEPT ![h] = q] /\ q.pc # "count"
           /\ \/ q.pc \in Failing /\ q.key = attempt[h].key
              \/ AccountOf[attempt[h].key] \notin Accounts /\ q.pc \notin Failing
<1>1. /\ attempt[h] \in AttemptRecords
      /\ L!Account(h) = AccountOf[attempt[h].key]
      /\ L!Account(h) = NoAccount => L!Account(h) \notin Accounts
  BY AccountFacts DEF Failing
<1>2. ASSUME NEW pc \in {"expire", "fail"}, L!Goto(h, pc)
      PROVE  \E q \in AttemptRecords :
               /\ attempt' = [attempt EXCEPT ![h] = q] /\ q.pc # "count"
               /\ q.pc \in Failing /\ q.key = attempt[h].key
  <2> DEFINE q == Going(attempt[h], pc)
  <2>1. attempt' = [attempt EXCEPT ![h] = q]
    BY <1>2 DEF L!Goto, Going, LoginInv, LoginTypes
  <2>2. q \in AttemptRecords /\ q.pc = pc /\ q.key = attempt[h].key
    <3>1. pc \in Reading
      BY <1>2 DEF Reading
    <3> QED
      BY <1>1, <3>1, GoingFacts
  <2> HIDE DEF q
  <2>3. q.pc # "count" /\ q.pc \in Failing
    BY <1>2, <2>2 DEF Failing
  <2> QED
    BY <2>1, <2>2, <2>3
<1>3. CASE L!Finish(h) /\ L!Account(h) = NoAccount
  <2>1. attempt' = [attempt EXCEPT ![h] = L!Idle]
    BY <1>3 DEF L!Finish
  <2>2. L!Idle \in AttemptRecords /\ L!Idle.pc # "count" /\ L!Idle.pc \notin Failing
    BY IdleFacts DEF Failing
  <2> QED
    BY <1>1, <1>3, <2>1, <2>2
<1>4. L!Goto(h, "expire") \/ L!Goto(h, "fail") \/ (L!Finish(h) /\ L!Account(h) = NoAccount)
  BY DEF L!AfterRecord
<1> QED
  BY <1>2, <1>3, <1>4

\* A failure is counted in Redis: the tallies.
LEMMA CountTallies ==
  ASSUME LoginInv, TallyInv, LoginTypes', NEW h \in Requests, L!Count(h)
  PROVE  TallyInv'
<1>1. /\ attempt[h].pc = "count" /\ attempt[h].pc # "idle"
      /\ attempts' = [attempts EXCEPT ![attempt[h].key] = @ + 1]
      /\ UNCHANGED <<failed, locked, guesses, missed, wrong, unwritten, overtaken, crossed>>
      /\ L!Goto(h, "expire") \/ L!AfterRecord(h)
  BY DEF L!Count, L!perKey, L!perAccount
<1>2. attempt[h].key \in Keys /\ attempt[h].pc \in Failing
  BY <1>1, AccountFacts DEF Failing
<1>3. PICK q \in AttemptRecords :
        /\ attempt' = [attempt EXCEPT ![h] = q] /\ q.pc # "count"
        /\ \/ q.pc \in Failing /\ q.key = attempt[h].key
           \/ AccountOf[attempt[h].key] \notin Accounts /\ q.pc \notin Failing
  BY <1>1, <1>2, AfterFacts
<1>4. /\ \A k \in Keys : attempts[k] \in Nat /\ missed[k] \in Nat
      /\ \A k \in Keys : attempts'[k] = IF k = attempt[h].key THEN attempts[k] + 1 ELSE attempts[k]
  BY <1>1, <1>2 DEF LoginInv, LoginTypes, TallyInv, TallyTypes
<1>5. ASSUME NEW k \in Keys PROVE KeyStep(h, k)
  <2>1. h \notin L!ToCount(k)' /\ (h \in L!ToCount(k) <=> k = attempt[h].key)
    BY <1>1, <1>3, Memberships
  <2> QED
    BY <1>1, <1>4, <2>1 DEF KeyStep
<1>6. \A a \in Accounts : h \in L!ToRegister(a) <=> h \in L!ToRegister(a)'
  <2> TAKE a \in Accounts
  <2>1. /\ h \in L!ToRegister(a) <=> attempt[h].pc \in Failing /\ AccountOf[attempt[h].key] = a
        /\ h \in L!ToRegister(a)' <=> q.pc \in Failing /\ AccountOf[q.key] = a
    BY <1>3, Memberships
  <2> QED
    BY <1>2, <1>3, <2>1
<1>7. \A a \in Accounts : AccountStep(h, a)
  BY <1>1, <1>6, AccountsQuiet
<1>8. TallyTypes' /\ LocksEarned'
  BY <1>1 DEF TallyInv, TallyTypes, LocksEarned
<1>9. \A g \in Requests : g # h => attempt'[g] = attempt[g]
  BY <1>3, Memberships
<1>10. (\A k \in Keys : KeyTally(k)') /\ (\A a \in Accounts : AccountTally(a)')
  BY <1>5, <1>7, <1>8, <1>9, TalliesKeep
<1> QED
  BY <1>8, <1>10 DEF TallyInv

\* Steps that enter, count and lose no wrong password: the tallies.
LEMMA StillTallies ==
  ASSUME LoginInv, TallyInv, LoginTypes', NEW h \in Requests,
         \/ \E k \in Keys : L!Begin(h, k)
         \/ L!VerifyRight(h) \/ L!Expire(h)
  PROVE  TallyInv'
<1>1. CASE \E k \in Keys : L!Begin(h, k)
  <2>1. PICK k \in Keys : L!Begin(h, k)
    BY <1>1
  <2> DEFINE q == Begun(k)
  <2>2. /\ attempt[h] = L!Idle /\ attempt' = [attempt EXCEPT ![h] = q]
        /\ UNCHANGED <<attempts, failed, locked, guesses, missed, wrong, unwritten, overtaken, crossed>>
    BY <2>1 DEF L!Begin, Begun, L!perKey, L!perAccount
  <2>3. q \in AttemptRecords /\ q.pc = "lookup"
    BY BegunFacts
  <2> HIDE DEF q
  <2>4. /\ attempt[h].pc # "count" /\ attempt[h].pc \notin Failing
        /\ q.pc # "count" /\ q.pc \notin Failing
    BY <2>2, <2>3, IdleFacts DEF Failing
  <2> QED
    BY <2>2, <2>3, <2>4, QuietTallies
<1>2. CASE L!VerifyRight(h)
  <2> DEFINE q == Going(attempt[h], "clear")
  <2>1. /\ attempt[h].pc = "verify" /\ attempt[h].pc # "idle" /\ attempt' = [attempt EXCEPT ![h] = q]
        /\ UNCHANGED <<attempts, failed, locked, guesses, missed, wrong, unwritten, overtaken, crossed>>
    BY <1>2 DEF L!VerifyRight, L!Goto, Going, L!perKey, L!perAccount, LoginInv, LoginTypes
  <2>2. q \in AttemptRecords /\ q.pc = "clear"
    <3>1. "clear" \in Reading /\ attempt[h] \in AttemptRecords
      BY <2>1, AccountFacts DEF Reading
    <3> QED
      BY <3>1, GoingFacts
  <2> HIDE DEF q
  <2>3. /\ attempt[h].pc # "count" /\ attempt[h].pc \notin Failing
        /\ q.pc # "count" /\ q.pc \notin Failing
    BY <2>1, <2>2 DEF Failing
  <2> QED
    BY <2>1, <2>2, <2>3, QuietTallies
<1>3. CASE L!Expire(h)
  <2>1. /\ attempt[h].pc = "expire" /\ L!AfterRecord(h)
        /\ UNCHANGED <<attempts, failed, locked, guesses, missed, wrong, unwritten, overtaken, crossed>>
    BY <1>3 DEF L!Expire, L!perKey, L!perAccount
  <2>2. attempt[h].pc \in Failing /\ attempt[h].pc # "count"
    BY <2>1 DEF Failing
  <2>3. PICK q \in AttemptRecords :
          /\ attempt' = [attempt EXCEPT ![h] = q] /\ q.pc # "count"
          /\ \/ q.pc \in Failing /\ q.key = attempt[h].key
             \/ AccountOf[attempt[h].key] \notin Accounts /\ q.pc \notin Failing
    BY <2>1, <2>2, AfterFacts
  <2> QED
    BY <2>1, <2>2, <2>3, QuietTallies
<1> QED
  BY <1>1, <1>2, <1>3

\* The counter of the row is written: the tallies.
LEMMA RegisterTallies ==
  ASSUME LoginInv, TallyInv, LoginTypes', NEW h \in Requests, L!RegisterFailure(h)
  PROVE  TallyInv'
<1>1. PICK a, n : a = AccountOf[attempt[h].key] /\ n = attempt[h].seen
  OBVIOUS
<1>2. /\ attempt[h].pc = "fail" /\ attempt[h].pc # "idle"
      /\ attempt' = [attempt EXCEPT ![h] = L!Idle] /\ failed' = [failed EXCEPT ![a] = n + 1]
      /\ locked' = IF n + 1 >= MaxLoginAttempts * 2 THEN locked \cup {a} ELSE locked
      /\ overtaken' = IF failed[a] # n THEN overtaken \cup {a} ELSE overtaken
      /\ UNCHANGED <<attempts, guesses, missed, wrong, unwritten, crossed>>
  BY <1>1 DEF L!RegisterFailure, L!Finish, L!Account, L!perKey
<1>3. attempt[h] \in AttemptRecords /\ n \in Nat
  BY <1>1, <1>2, AccountFacts DEF AttemptRecords
<1>4. \A b \in Accounts : failed[b] \in Nat /\ wrong[b] \in Nat /\ unwritten[b] \in Nat
  BY DEF LoginInv, LoginTypes, TallyInv, TallyTypes
<1>5. \A b \in Accounts : failed'[b] = IF b = a THEN n + 1 ELSE failed[b]
  BY <1>2 DEF LoginInv, LoginTypes
<1>6. L!Idle \in AttemptRecords /\ L!Idle.pc # "count" /\ L!Idle.pc \notin Failing
      /\ attempt[h].pc # "count" /\ attempt[h].pc \in Failing
  BY <1>2, IdleFacts DEF Failing
<1>7. \A k \in Keys : h \in L!ToCount(k) <=> h \in L!ToCount(k)'
  BY <1>2, <1>6, Memberships
<1>8. \A k \in Keys : KeyStep(h, k)
  BY <1>2, <1>7, KeysQuiet
<1>9. ASSUME NEW b \in Accounts PROVE AccountStep(h, b)
  <2>1. h \notin L!ToRegister(b)' /\ (h \in L!ToRegister(b) <=> b = a)
    BY <1>1, <1>2, <1>6, Memberships
  <2>2. CASE b = a /\ failed[b] = n
    BY <1>2, <1>3, <1>4, <1>5, <2>1, <2>2 DEF AccountStep
  <2>3. CASE b = a /\ failed[b] # n
    BY <1>2, <2>3 DEF AccountStep
  <2>4. CASE b # a
    BY <1>2, <1>5, <2>1, <2>4 DEF AccountStep
  <2> QED
    BY <2>2, <2>3, <2>4
<1>10. TallyTypes'
  BY <1>2 DEF TallyInv, TallyTypes
<1>11. LocksEarned'
  <2> SUFFICES ASSUME NEW b \in Accounts, b \notin crossed, b \in locked'
               PROVE  wrong[b] >= MaxLoginAttempts * 2
    BY <1>2 DEF LocksEarned
  <2>1. CASE b \in locked
    BY <2>1 DEF TallyInv, LocksEarned
  <2>2. CASE b \notin locked
    <3>1. b = a /\ n + 1 >= MaxLoginAttempts * 2
      BY <1>2, <2>2
    <3>2. n + 1 <= wrong[b]
      BY <1>1, <1>2, <1>6, <3>1 DEF LoginInv, LocksFit, L!Account, SeenFits, Reading
    <3>3. MaxLoginAttempts * 2 \in Nat
      BY LoginConstants
    <3> QED
      BY <1>3, <1>4, <3>1, <3>2, <3>3
  <2> QED
    BY <2>1, <2>2
<1>12. \A g \in Requests : g # h => attempt'[g] = attempt[g]
  BY <1>2, <1>6, Memberships
<1>13. (\A k \in Keys : KeyTally(k)') /\ (\A b \in Accounts : AccountTally(b)')
  BY <1>8, <1>9, <1>10, <1>12, TalliesKeep
<1> QED
  BY <1>10, <1>11, <1>13 DEF TallyInv

\* What remains of a key's tally when its counter goes.
LEMMA GoneFacts ==
  ASSUME LoginInv, TallyInv, NEW k \in Keys, L!CounterGoes(k)
  PROVE  /\ guesses' \in [Keys -> Nat] /\ missed' \in [Keys -> Nat]
         /\ guesses'[k] = Cardinality(L!ToCount(k)) /\ attempts'[k] = 0 /\ missed'[k] = 0
         /\ \A j \in Keys : j # k => /\ guesses'[j] = guesses[j] /\ attempts'[j] = attempts[j]
                                     /\ missed'[j] = missed[j]
<1>1. PICK n : n = Cardinality(L!ToCount(k))
  OBVIOUS
<1>2. n \in Nat
  <2>1. L!ToCount(k) \subseteq Requests
    BY DEF L!ToCount
  <2> QED
    BY <1>1, <2>1, LoginConstants, FS_Subset, FS_CardinalityType
<1>3. /\ attempts' = [attempts EXCEPT ![k] = 0] /\ guesses' = [guesses EXCEPT ![k] = n]
      /\ missed' = [missed EXCEPT ![k] = 0]
  BY <1>1, SameCounts DEF L!CounterGoes
<1>4. attempts \in [Keys -> Nat] /\ guesses \in [Keys -> Nat] /\ missed \in [Keys -> Nat]
  BY DEF LoginInv, LoginTypes, TallyInv, TallyTypes
<1> QED
  BY <1>1, <1>2, <1>3, <1>4

\* The counter of a key is cleared, or expires: the tallies.
LEMMA GoneTallies ==
  ASSUME LoginInv, TallyInv, LoginTypes', NEW k \in Keys, L!CounterGoes(k), NEW h,
         \A g \in Requests : g # h => attempt'[g] = attempt[g],
         \A j \in Keys : h \in L!ToCount(j) <=> h \in L!ToCount(j)',
         \A a \in Accounts : h \in L!ToRegister(a) <=> h \in L!ToRegister(a)',
         UNCHANGED <<failed, locked, wrong, unwritten, overtaken, crossed>>
  PROVE  TallyInv'
<1>1. /\ guesses' \in [Keys -> Nat] /\ missed' \in [Keys -> Nat]
      /\ guesses'[k] = Cardinality(L!ToCount(k)) /\ attempts'[k] = 0 /\ missed'[k] = 0
      /\ \A j \in Keys : j # k => /\ guesses'[j] = guesses[j] /\ attempts'[j] = attempts[j]
                                  /\ missed'[j] = missed[j]
  BY GoneFacts
<1>2. \A j \in Keys : KeyStep(h, j)
  BY <1>1 DEF KeyStep
<1>3. \A a \in Accounts : AccountStep(h, a)
  BY AccountsQuiet
<1>4. TallyTypes' /\ LocksEarned'
  BY <1>1 DEF TallyInv, TallyTypes, LocksEarned
<1>5. (\A j \in Keys : KeyTally(j)') /\ (\A a \in Accounts : AccountTally(a)')
  BY <1>2, <1>3, <1>4, TalliesKeep
<1> QED
  BY <1>4, <1>5 DEF TallyInv

\* A login clears the counter of its key: the tallies.
LEMMA ClearTallies ==
  ASSUME LoginInv, TallyInv, LoginTypes', NEW h \in Requests, L!Clear(h)
  PROVE  TallyInv'
<1>1. PICK k : k = attempt[h].key
  OBVIOUS
<1> DEFINE q == Going(attempt[h], "reset")
<1>2. /\ attempt[h].pc = "clear" /\ attempt[h].pc # "idle" /\ L!CounterGoes(k)
      /\ attempt' = [attempt EXCEPT ![h] = q]
      /\ UNCHANGED <<failed, locked, wrong, unwritten, overtaken, crossed>>
  BY <1>1 DEF L!Clear, L!Goto, Going, L!perAccount, LoginInv, LoginTypes
<1>3. q \in AttemptRecords /\ q.pc = "reset" /\ k \in Keys
  <2>1. "reset" \in Reading /\ attempt[h] \in AttemptRecords
    BY <1>2, AccountFacts DEF Reading
  <2> QED
    BY <1>1, <1>2, <2>1, GoingFacts, AccountFacts
<1> HIDE DEF q
<1>4. /\ \A j \in Keys : h \in L!ToCount(j) <=> h \in L!ToCount(j)'
      /\ \A a \in Accounts : h \in L!ToRegister(a) <=> h \in L!ToRegister(a)'
      /\ \A g \in Requests : g # h => attempt'[g] = attempt[g]
  BY <1>2, <1>3, Memberships DEF Failing
<1> QED
  BY <1>2, <1>3, <1>4, GoneTallies

\* A login wipes the slate of its account: the tallies.
LEMMA ResetTallies ==
  ASSUME LoginInv, TallyInv, LoginTypes', NEW h \in Requests, L!Reset(h)
  PROVE  TallyInv'
<1>1. PICK a : a = AccountOf[attempt[h].key]
  OBVIOUS
<1>2. /\ attempt[h].pc = "reset" /\ attempt[h].pc # "idle"
      /\ attempt' = [attempt EXCEPT ![h] = L!Idle]
      /\ failed' = [failed EXCEPT ![a] = 0] /\ locked' = locked \ {a}
      /\ wrong' = [wrong EXCEPT ![a] = 0] /\ unwritten' = [unwritten EXCEPT ![a] = 0]
      /\ overtaken' = overtaken \ {a}
      /\ crossed' = IF L!Under(a) = {h} THEN crossed \ {a} ELSE crossed \cup {a}
      /\ UNCHANGED <<attempts, guesses, missed>>
  BY <1>1 DEF L!Reset, L!Finish, L!Account, L!perKey
<1>3. failed \in [Accounts -> Nat] /\ wrong \in [Accounts -> Nat] /\ unwritten \in [Accounts -> Nat]
  BY DEF LoginInv, LoginTypes, TallyInv, TallyTypes
<1>4. /\ unwritten' \in [Accounts -> Nat]
      /\ \A b \in Accounts :
           /\ failed'[b] = IF b = a THEN 0 ELSE failed[b]
           /\ wrong'[b] = IF b = a THEN 0 ELSE wrong[b]
           /\ unwritten'[b] = IF b = a THEN 0 ELSE unwritten[b]
  BY <1>2, <1>3
<1>5. L!Idle \in AttemptRecords /\ L!Idle.pc # "count" /\ L!Idle.pc \notin Failing
      /\ attempt[h].pc # "count" /\ attempt[h].pc \notin Failing
  BY <1>2, IdleFacts DEF Failing
<1>6. /\ \A k \in Keys : h \in L!ToCount(k) <=> h \in L!ToCount(k)'
      /\ \A b : h \notin L!ToRegister(b) /\ h \notin L!ToRegister(b)'
      /\ \A g \in Requests : g # h => attempt'[g] = attempt[g]
  BY <1>2, <1>5, Memberships
<1>7. \A k \in Keys : KeyStep(h, k)
  BY <1>2, <1>6, KeysQuiet
<1>8. ASSUME NEW b \in Accounts PROVE AccountStep(h, b)
  <2>1. CASE b # a
    BY <1>2, <1>4, <1>6, <2>1 DEF AccountStep
  <2>2. CASE b = a /\ L!Under(a) # {h}
    BY <1>2, <2>2 DEF AccountStep
  <2>3. CASE b = a /\ L!Under(a) = {h}
    <3>1. L!ToRegister(b)' = {}
      <4>1. ASSUME NEW g \in L!ToRegister(b)' PROVE FALSE
        <5>1. g \in Requests /\ g # h /\ attempt'[g].pc \in Failing /\ AccountOf[attempt'[g].key] = b
          BY <1>6, <4>1 DEF L!ToRegister, L!Account, Failing
        <5>2. attempt'[g] = attempt[g]
          BY <1>6, <5>1
        <5>3. g \in L!Under(a)
          BY <2>3, <5>1, <5>2 DEF L!Under, L!Account, Failing
        <5> QED
          BY <2>3, <5>1, <5>3
      <4> QED
        BY <4>1
    <3> QED
      BY <1>4, <2>3, <3>1 DEF AccountStep
  <2> QED
    BY <2>1, <2>2, <2>3
<1>9. TallyTypes'
  BY <1>2, <1>4 DEF TallyInv, TallyTypes
<1>10. LocksEarned'
  <2> SUFFICES ASSUME NEW b \in Accounts, b \notin crossed', b \in locked'
               PROVE  wrong'[b] >= MaxLoginAttempts * 2
    BY DEF LocksEarned
  <2>1. b # a /\ b \notin crossed /\ b \in locked
    BY <1>2
  <2>2. wrong[b] >= MaxLoginAttempts * 2
    BY <2>1 DEF TallyInv, LocksEarned
  <2> QED
    BY <1>4, <2>1, <2>2
<1>11. (\A k \in Keys : KeyTally(k)') /\ (\A b \in Accounts : AccountTally(b)')
  BY <1>6, <1>7, <1>8, <1>9, TalliesKeep
<1> QED
  BY <1>9, <1>10, <1>11 DEF TallyInv

\* A login dies before it counted its failure, or before it wrote the row: the tallies.
LEMMA DeathTallies ==
  ASSUME LoginInv, TallyInv, LoginTypes', NEW h \in Requests, L!Die(h)
  PROVE  TallyInv'
<1>1. PICK k, a : k = attempt[h].key /\ a = AccountOf[attempt[h].key]
  OBVIOUS
<1>2. /\ attempt' = [attempt EXCEPT ![h] = L!Idle]
      /\ missed' = IF attempt[h].pc = "count" THEN [missed EXCEPT ![k] = @ + 1] ELSE missed
      /\ unwritten' = IF attempt[h].pc \in Failing /\ a # NoAccount
                      THEN [unwritten EXCEPT ![a] = @ + 1] ELSE unwritten
      /\ UNCHANGED <<attempts, failed, locked, guesses, wrong, overtaken, crossed>>
  BY <1>1 DEF L!Die, L!Finish, L!Account, Failing
<1>3. missed \in [Keys -> Nat] /\ unwritten \in [Accounts -> Nat] /\ attempts \in [Keys -> Nat]
      /\ failed \in [Accounts -> Nat]
  BY DEF LoginInv, LoginTypes, TallyInv, TallyTypes
<1>4. NoAccount \notin Accounts
  BY LoginConstants
<1>5. /\ missed' \in [Keys -> Nat]
      /\ \A j \in Keys : missed'[j] = IF attempt[h].pc = "count" /\ j = k THEN missed[j] + 1 ELSE missed[j]
  <2>1. CASE attempt[h].pc = "count"
    <3>1. missed' = [missed EXCEPT ![k] = missed[k] + 1]
      BY <1>2, <2>1
    <3>2. k \in Keys
      BY <1>1, <2>1, AccountFacts
    <3> QED
      BY <1>3, <2>1, <3>1, <3>2
  <2>2. CASE attempt[h].pc # "count"
    <3>1. missed' = missed
      BY <1>2, <2>2
    <3> QED
      BY <1>3, <2>2, <3>1
  <2> QED
    BY <2>1, <2>2
<1>6. /\ unwritten' \in [Accounts -> Nat]
      /\ \A b \in Accounts :
           unwritten'[b] = IF attempt[h].pc \in Failing /\ b = a THEN unwritten[b] + 1 ELSE unwritten[b]
  <2>1. CASE attempt[h].pc \in Failing /\ a # NoAccount
    <3>1. unwritten' = [unwritten EXCEPT ![a] = unwritten[a] + 1]
      BY <1>2, <2>1
    <3>2. a \in Accounts
      <4>1. attempt[h].pc # "idle"
        BY <2>1 DEF Failing
      <4> QED
        BY <1>1, <2>1, <4>1, AccountFacts
    <3> QED
      BY <1>3, <2>1, <3>1, <3>2
  <2>2. CASE ~(attempt[h].pc \in Failing /\ a # NoAccount)
    <3>1. unwritten' = unwritten
      BY <1>2, <2>2
    <3> QED
      BY <1>3, <1>4, <2>2, <3>1
  <2> QED
    BY <2>1, <2>2
<1>7. L!Idle \in AttemptRecords /\ L!Idle.pc # "count" /\ L!Idle.pc \notin Failing
  BY IdleFacts DEF Failing
<1>8. /\ \A j : h \notin L!ToCount(j)' /\ (h \in L!ToCount(j) <=> attempt[h].pc = "count" /\ k = j)
      /\ \A b : h \notin L!ToRegister(b)' /\ (h \in L!ToRegister(b) <=> attempt[h].pc \in Failing /\ a = b)
      /\ \A g \in Requests : g # h => attempt'[g] = attempt[g]
  BY <1>1, <1>2, <1>7, Memberships
<1>9. ASSUME NEW j \in Keys PROVE KeyStep(h, j)
  <2>1. attempts[j] \in Nat /\ missed[j] \in Nat
    BY <1>3
  <2> QED
    BY <1>2, <1>5, <1>8, <2>1 DEF KeyStep
<1>10. ASSUME NEW b \in Accounts PROVE AccountStep(h, b)
  <2>1. failed[b] \in Nat /\ unwritten[b] \in Nat
    BY <1>3
  <2> QED
    BY <1>2, <1>6, <1>8, <2>1 DEF AccountStep
<1>11. TallyTypes' /\ LocksEarned'
  BY <1>2, <1>5, <1>6 DEF TallyInv, TallyTypes, LocksEarned
<1>12. (\A j \in Keys : KeyTally(j)') /\ (\A b \in Accounts : AccountTally(b)')
  BY <1>8, <1>9, <1>10, <1>11, TalliesKeep
<1> QED
  BY <1>11, <1>12 DEF TallyInv

\* Every step keeps the tallies.
LEMMA TallyStep ==
  ASSUME LoginInv, TallyInv, [L!Next]_(L!vars)
  PROVE  TallyInv'
<1>1. LoginTypes'
  BY LoginStep DEF LoginInv
<1>2. CASE UNCHANGED L!vars \/ \E a \in Accounts : L!LockEnds(a)
  <2>1. /\ UNCHANGED <<attempts, guesses, missed, failed, wrong, unwritten, overtaken, crossed, attempt>>
        /\ locked' \subseteq locked
    BY <1>2 DEF L!vars, L!LockEnds, L!perKey, L!perAccount
  <2> QED
    BY <2>1 DEF TallyInv, TallyTypes, LocksEarned, KeyTally, AccountTally, L!ToCount, L!ToRegister, L!Account
<1>3. CASE \E k \in Keys : L!KeyExpires(k)
  <2>1. PICK k \in Keys : L!KeyExpires(k)
    BY <1>3
  <2>2. /\ L!CounterGoes(k) /\ UNCHANGED attempt
        /\ UNCHANGED <<failed, locked, wrong, unwritten, overtaken, crossed>>
    BY <2>1 DEF L!KeyExpires, L!perAccount
  <2>3. /\ \A j \in Keys : k \in L!ToCount(j) <=> k \in L!ToCount(j)'
        /\ \A a \in Accounts : k \in L!ToRegister(a) <=> k \in L!ToRegister(a)'
        /\ \A g \in Requests : g # k => attempt'[g] = attempt[g]
    BY <2>2 DEF L!ToCount, L!ToRegister, L!Account
  <2> QED
    BY <1>1, <2>2, <2>3, GoneTallies
<1>4. CASE \E h \in Requests : (\E k \in Keys : L!Begin(h, k)) \/ L!Step(h) \/ L!Die(h)
  BY <1>1, <1>4, StillTallies, LookupTallies, WrongTallies, CountTallies, RegisterTallies, ClearTallies,
     ResetTallies, DeathTallies DEF L!Step
<1> QED
  BY <1>2, <1>3, <1>4 DEF L!Next

\* Nothing has been entered yet.
LEMMA TallyInit == L!Init => TallyInv
<1> SUFFICES ASSUME L!Init PROVE TallyInv
  OBVIOUS
<1>1. /\ attempts = [k \in Keys |-> 0] /\ guesses = [k \in Keys |-> 0] /\ missed = [k \in Keys |-> 0]
      /\ failed = [a \in Accounts |-> 0] /\ wrong = [a \in Accounts |-> 0]
      /\ unwritten = [a \in Accounts |-> 0] /\ locked = {}
      /\ \A h \in Requests : attempt[h].pc = "idle"
  BY IdleFacts DEF L!Init
<1>2. \A x : L!ToCount(x) = {} /\ L!ToRegister(x) = {}
  BY <1>1 DEF L!ToCount, L!ToRegister
<1>3. Cardinality({}) = 0
  BY FS_EmptySet
<1> QED
  BY <1>1, <1>2, <1>3 DEF TallyInv, TallyTypes, KeyTally, AccountTally, LocksEarned

\* However many logins run together, the wrong passwords for a key since its counter
\* last went are those counted, those about to be and those whose login died first, and
\* but for the last are fewer than the limit and the logins in flight together. The row's
\* counter has them all likewise, for an account that no two logins crossed on and whose
\* counter was not written over, and it is locked only once they are twice the limit.
THEOREM WrongPasswordsCount == Spec => []AttemptsAreCounted
<1>1. Init => LoginInv /\ TallyInv
  BY LoginInit, TallyInit DEF Init
<1>2. LoginInv /\ TallyInv /\ [Next]_allVars => (LoginInv /\ TallyInv)'
  BY OfficeStep, LoginStep, TallyStep
<1>3. LoginInv /\ TallyInv => AttemptsAreCounted
  <2> SUFFICES ASSUME LoginInv, TallyInv PROVE L!GuessesAreBounded /\ L!LockIsEarned
    BY DEF AttemptsAreCounted, L!AttemptsAreCounted
  <2>1. ASSUME NEW k \in Keys
        PROVE  /\ guesses[k] = attempts[k] + Cardinality(L!ToCount(k)) + missed[k]
               /\ guesses[k] < MaxLoginAttempts + Cardinality(Requests) + missed[k]
    <3>1. Guessing(k) \subseteq Requests /\ L!ToCount(k) \subseteq Guessing(k)
      BY DEF Guessing, L!ToCount, Counting
    <3>2. IsFiniteSet(Guessing(k)) /\ IsFiniteSet(L!ToCount(k))
          /\ Cardinality(Guessing(k)) \in Nat /\ Cardinality(Requests) \in Nat
          /\ Cardinality(L!ToCount(k)) \in Nat
      BY <3>1, LoginConstants, FS_Subset, FS_CardinalityType
    <3>3. Cardinality(L!ToCount(k)) <= Cardinality(Guessing(k))
      BY <3>1, <3>2, FS_Subset
    <3>4. attempts[k] + Cardinality(Guessing(k)) <= MaxLoginAttempts - 1 + Cardinality(Requests)
      BY DEF LoginInv, CountersFit
    <3>5. guesses[k] = attempts[k] + Cardinality(L!ToCount(k)) + missed[k]
      BY DEF TallyInv, KeyTally
    <3>6. attempts[k] \in Nat /\ missed[k] \in Nat /\ MaxLoginAttempts \in Nat
      BY LoginConstants DEF LoginInv, LoginTypes, TallyInv, TallyTypes
    <3> QED
      BY <3>2, <3>3, <3>4, <3>5, <3>6
  <2>2. L!GuessesAreBounded
    BY <2>1, SameCounts DEF L!GuessesAreBounded
  <2>3. L!LockIsEarned
    BY SameCounts DEF L!LockIsEarned, LoginInv, LocksFit, TallyInv, AccountTally, LocksEarned
  <2> QED
    BY <2>2, <2>3
<1> QED
  BY <1>1, <1>2, <1>3, PTL DEF Spec, allVars

-----------------------------------------------------------------------------
(* The catalog: what both its instances keep.                                *)

AnyCategory == Categories \cup {Stock!NoCategory}

Bodies ==
  [category : AnyCategory, stock : Int, moved : BOOLEAN, sent : BOOLEAN]

Places == {"idle", "look", "write", "check", "insert", "clear", "link", "saved", "delete"}

Edits ==
  [pc : Places, op : {"none", "create", "update"}, body : Bodies, relinks : BOOLEAN,
   choice : SUBSET (Groups \cup LinkedGroups), category : AnyCategory]

Products == [category : AnyCategory, stock : Int, archived : BOOLEAN, exists : BOOLEAN]

\* A request that goes on, one that has written its fields, one that is done, one whose
\* body is out of date, and those that begin.
OnTo(o, pc) == [o EXCEPT !.pc = pc]
Settled(o) == [o EXCEPT !.pc = "check", !.body = Stock!NoBody]
Replied == [Stock!Idle EXCEPT !.pc = "saved"]
Stale(o) == [o EXCEPT !.body.moved = @ \/ o.body.sent]
Started(op, body, choice) ==
  [Stock!Idle EXCEPT !.pc = "look", !.op = op, !.body = body, !.relinks = TRUE, !.choice = choice]
SentByPage(op, body) ==
  [Stock!Idle EXCEPT !.pc = "look", !.op = op, !.body = body, !.relinks = FALSE, !.choice = {}]
Deleting(c) == [Stock!Idle EXCEPT !.pc = "delete", !.category = c]

\* The instances have the same names for nothing.
LEMMA SameNothing == Links!Idle = Stock!Idle /\ Links!NoBody = Stock!NoBody
BY DEF Links!Idle, Stock!Idle, Links!NoBody, Stock!NoBody, Links!NoCategory, Stock!NoCategory

\* A request of a program begins in both instances alike.
LEMMA SameStart ==
  ASSUME NEW r, NEW op, NEW body, NEW choice
  PROVE  /\ Links!Start(r, op, body, TRUE, choice) =>
              edit' = [edit EXCEPT ![r] = Started(op, body, choice)]
         /\ Stock!Start(r, op, body, TRUE, choice) =>
              edit' = [edit EXCEPT ![r] = Started(op, body, choice)]
<1>1. Started(op, body, choice) =
        [Links!Idle EXCEPT !.pc = "look", !.op = op, !.body = body, !.relinks = TRUE, !.choice = choice]
  BY SameNothing DEF Started
<1>2. Started(op, body, choice) =
        [Stock!Idle EXCEPT !.pc = "look", !.op = op, !.body = body, !.relinks = TRUE, !.choice = choice]
  BY DEF Started
<1>3. Links!Start(r, op, body, TRUE, choice) =>
        edit' = [edit EXCEPT ![r] = Started(op, body, choice)]
  BY <1>1, Zenon DEF Links!Start
<1>4. Stock!Start(r, op, body, TRUE, choice) =>
        edit' = [edit EXCEPT ![r] = Started(op, body, choice)]
  BY <1>2, Zenon DEF Stock!Start
<1> QED
  BY <1>3, <1>4

\* One of a page begins so.
LEMMA PageStart ==
  ASSUME NEW r, NEW op, NEW body
  PROVE  Stock!Start(r, op, body, FALSE, {}) => edit' = [edit EXCEPT ![r] = SentByPage(op, body)]
<1>1. SentByPage(op, body) =
        [Stock!Idle EXCEPT !.pc = "look", !.op = op, !.body = body, !.relinks = FALSE, !.choice = {}]
  BY DEF SentByPage
<1> QED
  BY <1>1, Zenon DEF Stock!Start

\* No request, no body.
LEMMA NothingFacts ==
  /\ Stock!NoBody \in Bodies /\ Stock!NoBody.sent = FALSE
  /\ Stock!Idle \in Edits /\ Stock!Idle.pc = "idle" /\ Stock!Idle.op = "none"
  /\ Stock!Idle.choice = {} /\ Stock!Idle.relinks = FALSE
<1>1. Stock!NoBody \in Bodies /\ Stock!NoBody.sent = FALSE
  BY DEF Stock!NoBody, Bodies, AnyCategory
<1> QED
  BY <1>1 DEF Stock!Idle, Edits, Places, AnyCategory

\* A request that goes on is the same one elsewhere.
LEMMA OnToFacts ==
  ASSUME NEW o \in Edits, NEW pc \in Places
  PROVE  /\ OnTo(o, pc) \in Edits /\ OnTo(o, pc).pc = pc
         /\ OnTo(o, pc).op = o.op /\ OnTo(o, pc).body = o.body
         /\ OnTo(o, pc).choice = o.choice /\ OnTo(o, pc).relinks = o.relinks
BY DEF OnTo, Edits

\* One that has written its fields has its links to do.
LEMMA SettledFacts ==
  ASSUME NEW o \in Edits
  PROVE  /\ Settled(o) \in Edits /\ Settled(o).pc = "check" /\ Settled(o).op = o.op
         /\ Settled(o).choice = o.choice /\ Settled(o).relinks = o.relinks
<1>1. Stock!NoBody \in Bodies /\ "check" \in Places
  BY NothingFacts DEF Places
<1> QED
  BY <1>1 DEF Settled, Edits

\* One that is done is nothing but an answer.
LEMMA RepliedFacts ==
  /\ Replied \in Edits /\ Replied.pc = "saved" /\ Replied.op = "none"
  /\ Replied.choice = {} /\ Replied.relinks = FALSE
<1>1. /\ Stock!Idle \in Edits /\ Stock!Idle.op = "none" /\ Stock!Idle.choice = {}
      /\ Stock!Idle.relinks = FALSE
  BY NothingFacts
<1> QED
  BY <1>1 DEF Replied, Edits, Places

\* Both instances answer alike.
LEMMA SameAnswer ==
  ASSUME NEW r, Links!Answer(r) \/ Stock!Answer(r)
  PROVE  edit' = [edit EXCEPT ![r] = Replied]
<1>1. Replied = [Links!Idle EXCEPT !.pc = "saved"]
  BY SameNothing DEF Replied
<1> QED
  BY <1>1 DEF Links!Answer, Stock!Answer, Replied

\* One whose body is out of date is where it was.
LEMMA StaleFacts ==
  ASSUME NEW o \in Edits
  PROVE  /\ Stale(o) \in Edits /\ Stale(o).pc = o.pc /\ Stale(o).op = o.op
         /\ Stale(o).choice = o.choice /\ Stale(o).relinks = o.relinks
         /\ Stale(o).body.sent = o.body.sent
         /\ o.body.sent => Stale(o).body.moved
<1> DEFINE b == [o.body EXCEPT !.moved = o.body.moved \/ o.body.sent]
<1>1. o.body \in Bodies
  BY DEF Edits
<1>2. PICK m \in BOOLEAN : m = (o.body.moved \/ o.body.sent)
  OBVIOUS
<1>3. b = [o.body EXCEPT !.moved = m]
  BY <1>2
<1>4. b \in Bodies /\ b.sent = o.body.sent /\ b.moved = m
  BY <1>1, <1>3 DEF Bodies
<1>5. Stale(o) = [o EXCEPT !.body = b]
  BY DEF Stale
<1> HIDE DEF b
<1>6. /\ Stale(o) \in Edits /\ Stale(o).body = b
      /\ Stale(o).pc = o.pc /\ Stale(o).op = o.op /\ Stale(o).choice = o.choice
      /\ Stale(o).relinks = o.relinks
  BY <1>4, <1>5 DEF Edits
<1> QED
  BY <1>2, <1>4, <1>6

\* A request that begins looks for what it names.
LEMMA StartedFacts ==
  ASSUME NEW op \in {"create", "update"}, NEW body \in Bodies,
         NEW choice \in SUBSET (Groups \cup LinkedGroups)
  PROVE  /\ Started(op, body, choice) \in Edits /\ Started(op, body, choice).pc = "look"
         /\ Started(op, body, choice).op = op /\ Started(op, body, choice).body = body
<1>1. Stock!Idle \in Edits
  BY NothingFacts
<1> QED
  BY <1>1 DEF Started, Edits, Places

\* One that a page sends says nothing of groups.
LEMMA SentFacts ==
  ASSUME NEW op \in {"create", "update"}, NEW body \in Bodies
  PROVE  /\ SentByPage(op, body) \in Edits /\ SentByPage(op, body).pc = "look"
         /\ SentByPage(op, body).op = op /\ SentByPage(op, body).body = body
         /\ ~SentByPage(op, body).relinks /\ SentByPage(op, body).choice = {}
<1>1. Stock!Idle \in Edits
  BY NothingFacts
<1> QED
  BY <1>1 DEF SentByPage, Edits, Places

\* A request that deletes a category has no other business.
LEMMA DeletingFacts ==
  ASSUME NEW c \in Categories
  PROVE  /\ Deleting(c) \in Edits /\ Deleting(c).pc = "delete" /\ Deleting(c).op = "none"
         /\ Deleting(c).choice = {} /\ Deleting(c).relinks = FALSE
<1>1. /\ Stock!Idle \in Edits /\ Stock!Idle.op = "none" /\ Stock!Idle.choice = {}
      /\ Stock!Idle.relinks = FALSE
  BY NothingFacts
<1> QED
  BY <1>1 DEF Deleting, Edits, Places, AnyCategory

-----------------------------------------------------------------------------
(* The links of a product.                                                   *)

LinkTypes ==
  /\ edit \in [LinkEditors -> Edits]
  /\ product \in Products
  /\ bruised \in BOOLEAN
  /\ \A r \in LinkEditors : edit[r].op = "update" => product.exists /\ ~edit[r].body.sent
  /\ \A r \in LinkEditors : edit[r].pc \in {"write", "clear", "link"} => edit[r].op = "update"
  /\ \A r \in LinkEditors : edit[r].pc = "look" => edit[r].op # "none"

\* What was chosen last has the links of the product, or somebody is about to give them.
ChoicesFit ==
  /\ links \subseteq UNION choices
  /\ \A r \in LinkEditors : edit[r].pc = "link" => edit[r].choice \in choices
  /\ links # {} => \E c \in choices : c \subseteq links
  /\ \/ bruised
     \/ \E r \in LinkEditors : edit[r].pc = "link"
     \/ \E c \in choices : c \subseteq links

LinksInv == LinkTypes /\ ChoicesFit

\* One request of a program is o from now on.
LEMMA OneEdit ==
  ASSUME LinksInv, NEW r \in LinkEditors, NEW o \in Edits, edit' = [edit EXCEPT ![r] = o]
  PROVE  /\ edit' \in [LinkEditors -> Edits] /\ edit'[r] = o
         /\ \A q \in LinkEditors \ {r} : edit'[q] = edit[q]
BY DEF LinksInv, LinkTypes

\* A request moves on that neither begins nor ends the rewriting of the links.
LEMMA EditMoves ==
  ASSUME LinksInv, NEW r \in LinkEditors, NEW o \in Edits, edit' = [edit EXCEPT ![r] = o],
         UNCHANGED <<links, choices, bruised>>,
         product' \in Products, product.exists => product'.exists,
         edit[r].pc # "link", o.pc # "link",
         o.op = "update" => product.exists /\ ~o.body.sent,
         o.pc \in {"write", "clear"} => o.op = "update", o.pc = "look" => o.op # "none"
  PROVE  LinksInv'
<1>1. /\ edit' \in [LinkEditors -> Edits] /\ edit'[r] = o
      /\ \A q \in LinkEditors \ {r} : edit'[q] = edit[q]
  BY OneEdit
<1>2. LinkTypes'
  BY <1>1 DEF LinksInv, LinkTypes
<1>3. ChoicesFit'
  BY <1>1 DEF LinksInv, ChoicesFit
<1> QED
  BY <1>2, <1>3 DEF LinksInv

\* A group comes or goes, with its links.
LEMMA GroupKeeps ==
  ASSUME LinksInv, NEW g \in LinkedGroups, Links!CreateGroup(g) \/ Links!DeleteGroup(g)
  PROVE  LinksInv'
<1>1. UNCHANGED <<edit, product, bruised>>
  BY DEF Links!CreateGroup, Links!DeleteGroup, Links!ghosts
<1>2. LinkTypes'
  BY <1>1 DEF LinksInv, LinkTypes
<1>3. CASE Links!CreateGroup(g)
  BY <1>1, <1>2, <1>3 DEF LinksInv, ChoicesFit, Links!CreateGroup, Links!ghosts
<1>4. CASE Links!DeleteGroup(g)
  <2>1. /\ links' = links \ {g}
        /\ choices' = { c \ {g} : c \in choices } \cup { edit[r].choice : r \in Links!Rewriting }
    BY <1>4 DEF Links!DeleteGroup
  <2>2. links' \subseteq UNION choices'
    <3> SUFFICES ASSUME NEW x \in links, x # g PROVE \E d \in choices' : x \in d
      BY <2>1
    <3>1. PICK c \in choices : x \in c
      BY DEF LinksInv, ChoicesFit
    <3>2. c \ {g} \in choices'
      BY <2>1
    <3> QED
      BY <3>1, <3>2
  <2>3. \A r \in LinkEditors : edit'[r].pc = "link" => edit'[r].choice \in choices'
    BY <1>1, <2>1 DEF Links!Rewriting
  <2>4. (\E c \in choices : c \subseteq links) => \E c \in choices' : c \subseteq links'
    <3> SUFFICES ASSUME NEW c \in choices, c \subseteq links PROVE \E d \in choices' : d \subseteq links'
      OBVIOUS
    <3>1. c \ {g} \in choices' /\ c \ {g} \subseteq links'
      BY <2>1
    <3> QED
      BY <3>1
  <2>5. links' # {} => \E c \in choices' : c \subseteq links'
    BY <2>1, <2>4 DEF LinksInv, ChoicesFit
  <2> QED
    BY <1>1, <1>2, <2>2, <2>3, <2>4, <2>5 DEF LinksInv, ChoicesFit
<1> QED
  BY <1>3, <1>4

\* Requests that begin, look, check, end, or concern a category.
LEMMA ProgramKeeps ==
  ASSUME LinksInv, NEW r \in LinkEditors,
         \/ Links!NewProduct(r) \/ Links!EditProduct(r) \/ Links!DeleteCategory(r)
         \/ Links!Look(r) \/ Links!Write(r) \/ Links!Check(r) \/ Links!Saved(r)
  PROVE  LinksInv'
<1>1. edit[r] \in Edits /\ edit \in [LinkEditors -> Edits] /\ product \in Products
  BY DEF LinksInv, LinkTypes
<1>2. Stock!Idle \in Edits /\ Stock!Idle.pc = "idle" /\ Stock!Idle.op = "none"
  BY NothingFacts
<1>3. ASSUME Links!Finish(r), edit[r].pc # "link", UNCHANGED <<links, choices, bruised>>,
             product' \in Products, product.exists => product'.exists
      PROVE  LinksInv'
  BY <1>2, <1>3, EditMoves, SameNothing DEF Links!Finish
<1>4. ASSUME NEW pc \in Places, Links!Goto(r, pc), edit[r].pc # "link", pc \notin {"link", "look"},
             pc \in {"write", "clear"} => edit[r].op = "update",
             UNCHANGED <<product, links, choices, bruised>>
      PROVE  LinksInv'
  <2>1. edit' = [edit EXCEPT ![r] = OnTo(edit[r], pc)]
    BY <1>4 DEF Links!Goto, OnTo
  <2>2. edit[r].op = "update" => product.exists /\ ~edit[r].body.sent
    BY DEF LinksInv, LinkTypes
  <2> DEFINE o == OnTo(edit[r], pc)
  <2>3. o \in Edits /\ o.pc = pc /\ o.op = edit[r].op /\ o.body = edit[r].body
    BY <1>1, OnToFacts
  <2>4. edit' = [edit EXCEPT ![r] = o]
    BY <2>1
  <2> HIDE DEF o
  <2> QED
    BY <1>1, <1>4, <2>2, <2>3, <2>4, EditMoves
<1>0. ASSUME Links!Answer(r), edit[r].pc # "link", UNCHANGED <<product, links, choices, bruised>>
      PROVE  LinksInv'
  <2>1. edit' = [edit EXCEPT ![r] = Replied]
    BY <1>0, SameAnswer
  <2> QED
    BY <1>0, <1>1, <2>1, RepliedFacts, EditMoves
<1>5. CASE Links!NewProduct(r)
  <2>1. PICK choice \in SUBSET LinkedGroups, body \in Bodies :
          /\ Links!Start(r, "create", body, TRUE, choice) /\ edit[r] = Stock!Idle
          /\ UNCHANGED <<product, links, choices, bruised>>
    <3>1. PICK choice \in SUBSET LinkedGroups, c \in {} \cup {Links!NoCategory} :
            /\ Links!Start(r, "create", Links!Entered(c), TRUE, choice)
            /\ edit[r] = Stock!Idle /\ UNCHANGED <<product, links, choices, bruised>>
      <4>1. PICK choice \in SUBSET LinkedGroups, c \in {} \cup {Links!NoCategory} :
              /\ edit[r] = Links!Idle
              /\ Links!Start(r, "create", Links!Entered(c), TRUE, choice)
              /\ UNCHANGED <<Links!server, page, Links!ghosts>>
        BY <1>5, Zenon DEF Links!NewProduct
      <4> QED
        BY <4>1, SameNothing, Zenon DEF Links!server, Links!ghosts
    <3>2. c \in AnyCategory
      BY DEF AnyCategory, Links!NoCategory, Stock!NoCategory
    <3> DEFINE b == Links!Entered(c)
    <3>3. b \in Bodies
      BY <3>2 DEF Bodies, Links!Entered
    <3>4. Links!Start(r, "create", b, TRUE, choice)
      BY <3>1
    <3> HIDE DEF b
    <3> QED
      BY <3>1, <3>3, <3>4, Zenon
  <2> DEFINE o == Started("create", body, choice)
  <2>2. edit' = [edit EXCEPT ![r] = o]
    BY <2>1, SameStart, Zenon
  <2>3. o \in Edits /\ o.pc = "look" /\ o.op = "create"
    <3>1. "create" \in {"create", "update"} /\ choice \in SUBSET (Groups \cup LinkedGroups)
      OBVIOUS
    <3>2. Started("create", body, choice) \in Edits /\ Started("create", body, choice).pc = "look"
          /\ Started("create", body, choice).op = "create"
      BY <3>1, StartedFacts
    <3> QED
      BY <3>2
  <2> HIDE DEF o
  <2> QED
    BY <1>1, <1>2, <2>1, <2>2, <2>3, EditMoves
<1>6. CASE Links!EditProduct(r)
  <2>1. PICK choice \in SUBSET LinkedGroups :
          /\ Links!Start(r, "update", Stock!NoBody, TRUE, choice) /\ edit[r] = Stock!Idle
          /\ product.exists /\ UNCHANGED <<product, links, choices, bruised>>
    BY <1>6, SameNothing DEF Links!EditProduct, Links!server, Links!ghosts
  <2> DEFINE o == Started("update", Stock!NoBody, choice)
  <2>2. edit' = [edit EXCEPT ![r] = o]
    BY <2>1, SameStart, Zenon
  <2>3. o \in Edits /\ o.pc = "look" /\ o.op = "update" /\ o.body = Stock!NoBody
    <3>1. "update" \in {"create", "update"} /\ choice \in SUBSET (Groups \cup LinkedGroups)
      OBVIOUS
    <3>2. Stock!NoBody \in Bodies
      BY NothingFacts
    <3>3. /\ Started("update", Stock!NoBody, choice) \in Edits
          /\ Started("update", Stock!NoBody, choice).pc = "look"
          /\ Started("update", Stock!NoBody, choice).op = "update"
          /\ Started("update", Stock!NoBody, choice).body = Stock!NoBody
      BY <3>1, <3>2, StartedFacts
    <3> QED
      BY <3>3
  <2>4. ~Stock!NoBody.sent
    BY NothingFacts
  <2> HIDE DEF o
  <2> QED
    BY <1>1, <1>2, <2>1, <2>2, <2>3, <2>4, EditMoves
<1>7. CASE Links!DeleteCategory(r)
  <2>1. /\ Links!Finish(r) /\ edit[r].pc = "delete" /\ UNCHANGED <<links, choices, bruised>>
        /\ product' \in {product, [product EXCEPT !.category = Stock!NoCategory]}
    BY <1>7 DEF Links!DeleteCategory, Links!ghosts, Links!NoCategory, Stock!NoCategory
  <2>2. product' \in Products /\ product'.exists = product.exists
    BY <1>1, <2>1 DEF Products, AnyCategory
  <2> QED
    BY <1>3, <2>1, <2>2
<1>8. CASE Links!Look(r)
  <2>1. /\ edit[r].pc = "look" /\ UNCHANGED <<product, links, choices, bruised>>
        /\ \/ Links!Finish(r) \/ Links!Goto(r, "check")
           \/ edit[r].op # "create" /\ Links!Goto(r, "write")
    BY <1>8 DEF Links!Look, Links!server, Links!ghosts
  <2>2. edit[r].op \in {"create", "update"}
    BY <1>1, <2>1 DEF LinksInv, LinkTypes, Edits
  <2> QED
    BY <1>1, <1>3, <1>4, <2>1, <2>2 DEF Places
<1>9. CASE Links!Write(r)
  <2>1. edit[r].pc = "write" /\ ~edit[r].body.sent
    BY <1>9 DEF Links!Write, LinksInv, LinkTypes
  <2>2. Links!Goto(r, "check") /\ UNCHANGED <<product, links, choices, bruised>>
    BY <1>9, <2>1 DEF Links!Write
  <2> QED
    BY <1>4, <2>1, <2>2 DEF Places
<1>10. CASE Links!Check(r)
  <2>1. /\ edit[r].pc = "check" /\ UNCHANGED <<product, links, choices, bruised>>
        /\ \/ Links!Finish(r) \/ Links!Goto(r, "insert") \/ Links!Answer(r)
           \/ edit[r].op = "update" /\ Links!Goto(r, "clear")
    BY <1>10 DEF Links!Check, Links!server, Links!ghosts
  <2> QED
    BY <1>0, <1>1, <1>3, <1>4, <2>1 DEF Places
<1>11. CASE Links!Saved(r)
  BY <1>1, <1>3, <1>11 DEF Links!Saved, Links!server, Links!ghosts
<1> QED
  BY <1>5, <1>6, <1>7, <1>8, <1>9, <1>10, <1>11

\* The product is made, with the links that were chosen.
LEMMA InsertKeeps ==
  ASSUME LinksInv, NEW r \in LinkEditors, Links!Insert(r)
  PROVE  LinksInv'
<1>1. edit[r] \in Edits /\ edit[r].pc = "insert" /\ product \in Products
  BY DEF LinksInv, LinkTypes, Links!Insert
<1>2. Stock!Idle \in Edits /\ Stock!Idle.pc = "idle" /\ Stock!Idle.op = "none"
  BY NothingFacts
<1>3. CASE Links!Finish(r) /\ UNCHANGED <<product, links, choices>>
  BY <1>1, <1>2, <1>3, EditMoves, SameNothing DEF Links!Finish, Links!Insert
<1>4. CASE /\ ~product.exists /\ links' = edit[r].choice /\ choices' = {edit[r].choice}
           /\ product' = Links!Row(edit[r].body.category, edit[r].body.stock) /\ Links!Answer(r)
  <2>1. PICK o \in Edits : o = Replied /\ edit' = [edit EXCEPT ![r] = o] /\ UNCHANGED bruised
    BY <1>4, SameAnswer, RepliedFacts DEF Links!Insert
  <2>3. o.pc = "saved" /\ o.op = "none"
    BY <2>1, RepliedFacts
  <2>4. /\ edit' \in [LinkEditors -> Edits] /\ edit'[r] = o
        /\ \A q \in LinkEditors \ {r} : edit'[q] = edit[q]
    BY <2>1, <2>3, OneEdit
  <2>5. product' \in Products /\ product'.exists
    <3>1. edit[r].body.category \in AnyCategory /\ edit[r].body.stock \in Int
      BY <1>1 DEF Edits, Bodies
    <3> QED
      BY <1>4, <3>1 DEF Links!Row, Products
  <2>6. LinkTypes'
    BY <1>1, <2>1, <2>3, <2>4, <2>5 DEF LinksInv, LinkTypes
  <2>7. \A q \in LinkEditors : edit'[q].pc # "link"
    BY <1>4, <2>3, <2>4 DEF LinksInv, LinkTypes
  <2>8. ChoicesFit'
    BY <1>4, <2>7 DEF ChoicesFit
  <2> QED
    BY <2>6, <2>8 DEF LinksInv
<1> QED
  BY <1>3, <1>4 DEF Links!Insert

\* The links are replaced: all of them go ...
LEMMA ClearKeeps ==
  ASSUME LinksInv, NEW e \in LinkEditors, Links!Clear(e)
  PROVE  LinksInv'
<1>1. /\ edit[e] \in Edits /\ edit[e].pc = "clear" /\ edit[e].op = "update"
      /\ links' = {} /\ UNCHANGED product
      /\ choices' = (IF Links!Rewriting = {} THEN {} ELSE choices) \cup {edit[e].choice}
      /\ bruised' \in BOOLEAN
  BY DEF LinksInv, LinkTypes, Links!Clear
<1>2. PICK o \in Edits :
        /\ edit' = [edit EXCEPT ![e] = o]
        /\ \/ edit[e].choice = {} /\ o.pc = "saved" /\ o.op = "none"
           \/ o.pc = "link" /\ o.op = "update" /\ o.body = edit[e].body /\ o.choice = edit[e].choice
  <2>1. CASE edit[e].choice = {}
    BY <2>1, SameAnswer, RepliedFacts DEF Links!Clear
  <2>2. CASE edit[e].choice # {}
    <3> DEFINE o == OnTo(edit[e], "link")
    <3>1. edit' = [edit EXCEPT ![e] = o]
      BY <2>2 DEF Links!Clear, Links!Goto, OnTo
    <3>2. "link" \in Places
      BY DEF Places
    <3>3. /\ o \in Edits /\ o.pc = "link" /\ o.op = edit[e].op /\ o.body = edit[e].body
          /\ o.choice = edit[e].choice
      BY <1>1, <3>2, OnToFacts
    <3> HIDE DEF o
    <3> QED
      BY <1>1, <3>1, <3>3
  <2> QED
    BY <2>1, <2>2
<1>6. /\ edit' \in [LinkEditors -> Edits] /\ edit'[e] = o
      /\ \A q \in LinkEditors \ {e} : edit'[q] = edit[q]
  BY <1>2, OneEdit
<1>7. LinkTypes'
  BY <1>1, <1>2, <1>6 DEF LinksInv, LinkTypes
<1>8. \A r \in LinkEditors : edit'[r].pc = "link" => edit'[r].choice \in choices'
  <2> SUFFICES ASSUME NEW r \in LinkEditors, r # e, edit[r].pc = "link"
               PROVE  edit[r].choice \in choices'
    BY <1>1, <1>2, <1>6
  <2>1. r \in Links!Rewriting
    BY DEF Links!Rewriting
  <2> QED
    BY <1>1, <2>1 DEF LinksInv, ChoicesFit
<1>9. \/ \E r \in LinkEditors : edit'[r].pc = "link"
      \/ \E c \in choices' : c \subseteq links'
  BY <1>1, <1>2, <1>6
<1> QED
  BY <1>1, <1>7, <1>8, <1>9 DEF LinksInv, ChoicesFit

\* ... and the new ones come, or none of them.
LEMMA LinkKeeps ==
  ASSUME LinksInv, NEW e \in LinkEditors, Links!Link(e)
  PROVE  LinksInv'
<1>1. /\ edit[e] \in Edits /\ edit[e].pc = "link" /\ edit[e].op = "update"
      /\ UNCHANGED <<product, choices>> /\ edit[e].choice \in choices /\ bruised \in BOOLEAN
  BY DEF LinksInv, LinkTypes, ChoicesFit, Links!Link
<1>2. CASE links' = links \cup edit[e].choice /\ Links!Answer(e) /\ UNCHANGED bruised
  <2>1. PICK o \in Edits : o = Replied /\ edit' = [edit EXCEPT ![e] = o]
    BY <1>2, SameAnswer, RepliedFacts
  <2>3. o.pc = "saved" /\ o.op = "none"
    BY <2>1, RepliedFacts
  <2>4. /\ edit' \in [LinkEditors -> Edits] /\ edit'[e] = o
        /\ \A q \in LinkEditors \ {e} : edit'[q] = edit[q]
    BY <2>1, <2>3, OneEdit
  <2>5. LinkTypes'
    BY <1>1, <1>2, <2>3, <2>4 DEF LinksInv, LinkTypes
  <2>6. ChoicesFit'
    BY <1>1, <1>2, <2>3, <2>4 DEF LinksInv, ChoicesFit
  <2> QED
    BY <2>5, <2>6 DEF LinksInv
<1>3. CASE /\ Links!Finish(e) /\ UNCHANGED links
           /\ \/ links \cap edit[e].choice # {} /\ bruised' = bruised
              \/ bruised' = TRUE
  <2>1. Stock!Idle \in Edits /\ Stock!Idle.pc = "idle" /\ Stock!Idle.op = "none"
    BY NothingFacts
  <2>2. edit' = [edit EXCEPT ![e] = Stock!Idle]
    BY <1>3, SameNothing DEF Links!Finish
  <2>3. /\ edit' \in [LinkEditors -> Edits] /\ edit'[e] = Stock!Idle
        /\ \A q \in LinkEditors \ {e} : edit'[q] = edit[q]
    BY <2>1, <2>2, OneEdit
  <2>4. LinkTypes'
    BY <1>1, <1>3, <2>1, <2>3 DEF LinksInv, LinkTypes
  <2>5. bruised' = TRUE \/ \E c \in choices : c \subseteq links
    BY <1>3 DEF LinksInv, ChoicesFit
  <2>6. ChoicesFit'
    BY <1>1, <1>3, <2>1, <2>3, <2>5 DEF LinksInv, ChoicesFit
  <2> QED
    BY <2>4, <2>6 DEF LinksInv
<1>4. \/ links' = links \cup edit[e].choice /\ Links!Answer(e) /\ UNCHANGED bruised
      \/ /\ Links!Finish(e) /\ UNCHANGED links
         /\ \/ links \cap edit[e].choice # {} /\ bruised' = bruised
            \/ bruised' = TRUE
  <2>1. CASE edit[e].choice \subseteq groups /\ links \cap edit[e].choice = {}
    BY <2>1 DEF Links!Link
  <2>2. CASE ~(edit[e].choice \subseteq groups)
    BY <1>1, <2>2 DEF Links!Link
  <2>3. CASE edit[e].choice \subseteq groups /\ links \cap edit[e].choice # {}
    BY <1>1, <2>3 DEF Links!Link
  <2> QED
    BY <2>1, <2>2, <2>3
<1> QED
  BY <1>2, <1>3, <1>4

\* A program dies, half way through the links or elsewhere.
LEMMA DeathKeeps ==
  ASSUME LinksInv, NEW e \in LinkEditors, Links!Die(e)
  PROVE  LinksInv'
<1>1. /\ edit[e] \in Edits /\ bruised \in BOOLEAN /\ bruised' = (bruised \/ edit[e].pc = "link")
      /\ edit' = [edit EXCEPT ![e] = Stock!Idle] /\ UNCHANGED <<product, links, choices>>
  BY SameNothing DEF LinksInv, LinkTypes, Links!Die, Links!Finish, Links!server
<1>2. Stock!Idle \in Edits /\ Stock!Idle.pc = "idle" /\ Stock!Idle.op = "none"
  BY NothingFacts
<1>3. CASE edit[e].pc # "link"
  <2>1. bruised' = bruised
    BY <1>1, <1>3
  <2> QED
    BY <1>1, <1>2, <1>3, <2>1, EditMoves DEF LinksInv, LinkTypes
<1>4. CASE edit[e].pc = "link"
  <2>1. bruised' = TRUE
    BY <1>1, <1>4
  <2>2. /\ edit' \in [LinkEditors -> Edits] /\ edit'[e] = Stock!Idle
        /\ \A q \in LinkEditors \ {e} : edit'[q] = edit[q]
    BY <1>1, <1>2, OneEdit
  <2>3. LinkTypes'
    BY <1>1, <1>2, <2>1, <2>2 DEF LinksInv, LinkTypes
  <2>4. ChoicesFit'
    BY <1>1, <1>2, <2>1, <2>2 DEF LinksInv, ChoicesFit
  <2> QED
    BY <2>3, <2>4 DEF LinksInv
<1> QED
  BY <1>3, <1>4

\* A sale leaves the links alone.
LEMMA SaleKeepsLinks ==
  ASSUME LinksInv, Links!Sell
  PROVE  LinksInv'
<1>1. /\ product' = [product EXCEPT !.stock = product.stock - 1] /\ product \in Products
      /\ edit' = [r \in LinkEditors |-> Stale(edit[r])]
      /\ edit \in [LinkEditors -> Edits] /\ UNCHANGED <<links, choices, bruised>>
  BY DEF LinksInv, LinkTypes, Links!Sell, Links!Late, Stale
<1>2. product' \in Products /\ product'.exists = product.exists
  BY <1>1 DEF Products
<1>3. \A r \in LinkEditors :
        /\ edit'[r] \in Edits /\ edit'[r].pc = edit[r].pc /\ edit'[r].op = edit[r].op
        /\ edit'[r].choice = edit[r].choice /\ edit'[r].body.sent = edit[r].body.sent
  BY <1>1, StaleFacts
<1>4. edit' \in [LinkEditors -> Edits]
  BY <1>1, <1>3
<1>5. LinkTypes'
  BY <1>1, <1>2, <1>3, <1>4 DEF LinksInv, LinkTypes
<1>6. ChoicesFit'
  BY <1>1, <1>3 DEF LinksInv, ChoicesFit
<1> QED
  BY <1>5, <1>6 DEF LinksInv

\* Every step of the programs keeps the invariant.
LEMMA LinksStep ==
  ASSUME LinksInv, [Links!Next]_(Links!vars)
  PROVE  LinksInv'
<1>1. CASE UNCHANGED Links!vars
  BY <1>1 DEF LinksInv, LinkTypes, ChoicesFit, Links!vars
<1>2. CASE Links!Next
  <2>1. \A r \in LinkEditors \cup {} : Links!Handle(r) => LinksInv'
    BY ProgramKeeps, InsertKeeps, DeathKeeps DEF Links!Handle
  <2>2. \A e \in LinkEditors : Links!Editing(e) => LinksInv'
    BY ProgramKeeps, ClearKeeps, LinkKeeps DEF Links!Editing
  <2> QED
    BY <1>2, <2>1, <2>2, GroupKeeps, SaleKeepsLinks DEF Links!Next
<1> QED
  BY <1>1, <1>2

\* There is no product and no link yet.
LEMMA LinksInit == Links!Init => LinksInv
<1> SUFFICES ASSUME Links!Init PROVE LinksInv
  OBVIOUS
<1>1. /\ edit = [r \in LinkEditors |-> Stock!Idle] /\ links = {} /\ choices = {{}} /\ bruised = FALSE
      /\ product = Links!Absent
  BY SameNothing DEF Links!Init
<1>2. Stock!Idle \in Edits /\ Stock!Idle.pc = "idle" /\ Stock!Idle.op = "none"
  BY NothingFacts
<1>3. product \in Products
  <2>1. Links!NoCategory \in AnyCategory
    BY DEF AnyCategory, Links!NoCategory, Stock!NoCategory
  <2> QED
    BY <1>1, <2>1 DEF Products, Links!Absent
<1> QED
  BY <1>1, <1>2, <1>3 DEF LinksInv, LinkTypes, ChoicesFit

\* However many programs replace the links of a product at once, once none does it has
\* all those that one of them chose and none that nobody chose, unless one died half way
\* or a group was deleted under it.
THEOREM ChoicesSurvive == Spec => []ChoicesSurviveEdits
<1> DEFINE I == part # "stock" => LinksInv
<1>1. Init => I
  BY LinksInit DEF Init
<1>2. I /\ [Next]_allVars => I'
  BY OfficeStep, LinksStep
<1>3. I => ChoicesSurviveEdits
  BY DEF LinksInv, ChoicesFit, ChoicesSurviveEdits, Links!ChoicesSurviveEdits, Links!Rewriting
<1> HIDE DEF I
<1> QED
  BY <1>1, <1>2, <1>3, PTL DEF Spec, allVars

-----------------------------------------------------------------------------
(* The stock of a product.                                                   *)

Requesters == Editors \cup Pages

Lists == [stock : Int, moved : BOOLEAN, listed : BOOLEAN]

Forms == [mode : {"closed", "create", "edit"}, stock : Int, moved : BOOLEAN]

PageRecords == [list : Lists, form : Forms]

\* The row a page lists, the form it shows and a body under way have the stock of the
\* product, unless one was entered by hand or the product's has changed since.
ListFits(v) ==
  v.list.listed /\ ~v.list.moved => product.exists /\ v.list.stock = product.stock

FormFits(v) ==
  v.form.mode = "edit" /\ ~v.form.moved => product.exists /\ v.form.stock = product.stock

BodyFits(o) ==
  /\ o.op = "update" /\ o.pc \in {"look", "write"} /\ o.body.sent => 
       o.body.moved \/ (product.exists /\ o.body.stock = product.stock)
  /\ o.pc = "write" => o.op = "update"
  /\ o.pc = "look" => o.op # "none"

PageFitsStock(v, o) ==
  /\ ListFits(v) /\ FormFits(v)
  /\ v.form.mode = "create" => v.form.moved
  /\ o.choice = {} /\ ~o.relinks /\ o.pc \notin {"clear", "link", "delete"}

StockTypes ==
  /\ edit \in [Requesters -> Edits]
  /\ page \in [Pages -> PageRecords]
  /\ product \in Products

StockInv ==
  /\ StockTypes
  /\ product.exists => product.stock = expected
  /\ \A r \in Requesters : BodyFits(edit[r])
  /\ \A p \in Pages : PageFitsStock(page[p], edit[p])

\* Nobody is both a program and a page.
LEMMA StockConstants == Editors \cap Pages = {} /\ MaxStock \in Nat
BY ConstantsAssumption DEF Stock!CatalogAssumption

\* As long as the product stays, so does what fits it.
LEMMA ProductStays ==
  ASSUME product'.exists = product.exists, product'.stock = product.stock
  PROVE  /\ \A v, o : PageFitsStock(v, o) => PageFitsStock(v, o)'
         /\ \A o : BodyFits(o) => BodyFits(o)'
BY DEF PageFitsStock, ListFits, FormFits, BodyFits

\* One request is o from now on, and the pages are as they were.
LEMMA RequestMoves ==
  ASSUME StockInv, NEW r \in Requesters, NEW o \in Edits, edit' = [edit EXCEPT ![r] = o],
         UNCHANGED <<page, expected>>, product' \in Products,
         product'.exists = product.exists, product'.stock = product.stock,
         BodyFits(o), r \in Pages => PageFitsStock(page[r], o)
  PROVE  StockInv'
<1>1. /\ edit' \in [Requesters -> Edits] /\ edit'[r] = o
      /\ \A q \in Requesters \ {r} : edit'[q] = edit[q]
  BY DEF StockInv, StockTypes
<1>2. StockTypes'
  BY <1>1 DEF StockInv, StockTypes, Requesters, AnyCategory
<1>3. ASSUME NEW q \in Requesters PROVE BodyFits(edit[q])'
  <2>1. PICK e : e = edit'[q] /\ BodyFits(e)
    BY <1>1 DEF StockInv
  <2>2. BodyFits(e)'
    BY <2>1, ProductStays
  <2> QED
    BY <2>1, <2>2 DEF BodyFits
<1>4. ASSUME NEW p \in Pages PROVE PageFitsStock(page[p], edit[p])'
  <2>1. PICK v, e : v = page[p] /\ e = edit'[p] /\ PageFitsStock(v, e)
    BY <1>1 DEF StockInv, Requesters
  <2>2. PageFitsStock(v, e)'
    BY <2>1, ProductStays
  <2> QED
    BY <2>1, <2>2 DEF PageFitsStock, ListFits, FormFits
<1> QED
  BY <1>2, <1>3, <1>4 DEF StockInv, Requesters

\* One page is v from now on, and the requests are as they were.
LEMMA PageMoves ==
  ASSUME StockInv, NEW p \in Pages, NEW v \in PageRecords, page' = [page EXCEPT ![p] = v],
         UNCHANGED <<edit, expected>>, product' \in Products,
         product'.exists = product.exists, product'.stock = product.stock,
         PageFitsStock(v, edit[p])
  PROVE  StockInv'
<1>1. /\ page' \in [Pages -> PageRecords] /\ page'[p] = v
      /\ \A q \in Pages \ {p} : page'[q] = page[q]
  BY DEF StockInv, StockTypes
<1>2. StockTypes'
  BY <1>1 DEF StockInv, StockTypes, Requesters, AnyCategory
<1>3. ASSUME NEW q \in Requesters PROVE BodyFits(edit[q])'
  <2>1. PICK e : e = edit[q] /\ BodyFits(e)
    BY DEF StockInv
  <2>2. BodyFits(e)'
    BY <2>1, ProductStays
  <2> QED
    BY <2>1, <2>2 DEF BodyFits
<1>4. ASSUME NEW q \in Pages PROVE PageFitsStock(page[q], edit[q])'
  <2>1. PICK w, e : w = page'[q] /\ e = edit[q] /\ PageFitsStock(w, e)
    BY <1>1 DEF StockInv
  <2>2. PageFitsStock(w, e)'
    BY <2>1, ProductStays
  <2> QED
    BY <2>1, <2>2 DEF PageFitsStock, ListFits, FormFits
<1> QED
  BY <1>2, <1>3, <1>4 DEF StockInv, Requesters

\* A request goes on.
LEMMA RequestGoes ==
  ASSUME StockInv, NEW r \in Requesters, NEW pc \in Places \ {"idle", "look"}, Stock!Goto(r, pc),
         UNCHANGED <<page, expected>>, product' \in Products,
         product'.exists = product.exists, product'.stock = product.stock,
         pc = "write" => edit[r].op = "update" /\ edit[r].pc = "look",
         r \in Pages => pc \notin {"clear", "link", "delete"}
  PROVE  StockInv'
<1>1. edit[r] \in Edits /\ BodyFits(edit[r]) /\ (r \in Pages => PageFitsStock(page[r], edit[r]))
  BY DEF StockInv, StockTypes
<1> DEFINE o == OnTo(edit[r], pc)
<1>2. edit' = [edit EXCEPT ![r] = o]
  BY DEF Stock!Goto, OnTo
<1>3. /\ o \in Edits /\ o.pc = pc /\ o.op = edit[r].op /\ o.body = edit[r].body
      /\ o.choice = edit[r].choice /\ o.relinks = edit[r].relinks
  BY <1>1, OnToFacts
<1> HIDE DEF o
<1>4. BodyFits(o)
  BY <1>1, <1>3 DEF BodyFits
<1>5. r \in Pages => PageFitsStock(page[r], o)
  BY <1>1, <1>3 DEF PageFitsStock
<1> QED
  BY <1>2, <1>3, <1>4, <1>5, RequestMoves

\* A request ends.
LEMMA RequestEnds ==
  ASSUME StockInv, NEW r \in Requesters, Stock!Finish(r),
         UNCHANGED <<page, expected>>, product' \in Products,
         product'.exists = product.exists, product'.stock = product.stock
  PROVE  StockInv'
<1>1. /\ Stock!Idle \in Edits /\ Stock!Idle.pc = "idle" /\ Stock!Idle.op = "none"
      /\ Stock!Idle.choice = {} /\ Stock!Idle.relinks = FALSE
  BY NothingFacts
<1>2. BodyFits(Stock!Idle)
  BY <1>1 DEF BodyFits
<1>3. r \in Pages => PageFitsStock(page[r], edit[r])
  BY DEF StockInv
<1>4. r \in Pages => PageFitsStock(page[r], Stock!Idle)
  BY <1>1, <1>3 DEF PageFitsStock
<1> QED
  BY <1>1, <1>2, <1>4, RequestMoves DEF Stock!Finish

\* A request is done.
LEMMA RequestIsDone ==
  ASSUME StockInv, NEW r \in Requesters, Stock!Answer(r), UNCHANGED <<page, expected, product>>
  PROVE  StockInv'
<1>1. /\ edit' = [edit EXCEPT ![r] = Replied]
      /\ Replied \in Edits /\ Replied.pc = "saved" /\ Replied.op = "none"
      /\ Replied.choice = {} /\ Replied.relinks = FALSE
  BY SameAnswer, RepliedFacts
<1>2. BodyFits(Replied)
  BY <1>1 DEF BodyFits
<1>3. product \in Products /\ (r \in Pages => PageFitsStock(page[r], edit[r]))
  BY DEF StockInv, StockTypes
<1>4. r \in Pages => PageFitsStock(page[r], Replied)
  BY <1>1, <1>3 DEF PageFitsStock
<1> QED
  BY <1>1, <1>2, <1>3, <1>4, RequestMoves

\* The category that a product and a body name.
LEMMA TypesOfStock ==
  ASSUME StockInv
  PROVE  /\ product \in Products /\ product.stock \in Int
         /\ \A r \in Requesters : edit[r] \in Edits /\ edit[r].body \in Bodies
         /\ \A p \in Pages : /\ page[p] \in PageRecords
                             /\ page[p].list \in Lists /\ page[p].form \in Forms
BY DEF StockInv, StockTypes, Products, Edits, PageRecords

\* Programs begin, write links, and end; categories and groups come and go.
LEMMA EditorKeeps ==
  ASSUME StockInv, NEW e \in Editors, Stock!Editing(e)
  PROVE  StockInv'
<1>1. e \in Requesters /\ e \notin Pages /\ product \in Products /\ edit[e] \in Edits
  BY StockConstants, TypesOfStock DEF Requesters
<1>2. ASSUME Stock!Finish(e), UNCHANGED <<page, expected, product>> PROVE StockInv'
  BY <1>1, <1>2, RequestEnds
<1>3. ASSUME Stock!Answer(e) \/ Stock!Goto(e, "link"), UNCHANGED <<page, expected, product>>
      PROVE  StockInv'
  <2>1. "link" \in Places \ {"idle", "look"}
    BY DEF Places
  <2> QED
    BY <1>1, <1>3, <2>1, RequestGoes, RequestIsDone
<1>4. CASE Stock!NewProduct(e)
  <2>1. PICK choice \in SUBSET Groups, c \in Categories \cup {Stock!NoCategory} :
          /\ Stock!Start(e, "create", Stock!Entered(c), TRUE, choice)
          /\ UNCHANGED <<Stock!server, page, Stock!ghosts>>
    BY <1>4, Zenon DEF Stock!NewProduct
  <2>2. UNCHANGED <<page, expected, product>>
    BY <2>1 DEF Stock!server, Stock!ghosts
  <2> DEFINE body == Stock!Entered(c)
  <2>3. body \in Bodies
    BY StockConstants DEF Bodies, AnyCategory, Stock!Entered
  <2>4. Stock!Start(e, "create", body, TRUE, choice)
    BY <2>1
  <2> HIDE DEF body
  <2> DEFINE o == Started("create", body, choice)
  <2>5. edit' = [edit EXCEPT ![e] = o]
    BY <2>4, SameStart, Zenon
  <2>6. o \in Edits /\ o.pc = "look" /\ o.op = "create"
    <3>1. "create" \in {"create", "update"} /\ choice \in SUBSET (Groups \cup LinkedGroups)
      OBVIOUS
    <3>2. Started("create", body, choice) \in Edits /\ Started("create", body, choice).pc = "look"
          /\ Started("create", body, choice).op = "create"
      BY <2>3, <3>1, StartedFacts
    <3> QED
      BY <3>2
  <2> HIDE DEF o
  <2>7. BodyFits(o)
    BY <2>6 DEF BodyFits
  <2> QED
    BY <1>1, <2>2, <2>5, <2>6, <2>7, RequestMoves
<1>5. CASE Stock!EditProduct(e)
  <2>1. PICK choice \in SUBSET Groups,
             body \in {Stock!NoBody} \cup { Stock!Entered(c) : c \in Categories } :
          /\ Stock!Start(e, "update", body, TRUE, choice)
          /\ UNCHANGED <<Stock!server, page, Stock!ghosts>>
    BY <1>5, Zenon DEF Stock!EditProduct
  <2>2. UNCHANGED <<page, expected, product>>
    BY <2>1 DEF Stock!server, Stock!ghosts
  <2>3. body \in Bodies /\ (body.sent => body.moved)
    <3>1. CASE body = Stock!NoBody
      BY <3>1, NothingFacts
    <3>2. CASE \E c \in Categories : body = Stock!Entered(c)
      BY <3>2, StockConstants DEF Bodies, AnyCategory, Stock!Entered
    <3> QED
      BY <2>1, <3>1, <3>2
  <2> DEFINE o == Started("update", body, choice)
  <2>4. edit' = [edit EXCEPT ![e] = o]
    BY <2>1, SameStart, Zenon
  <2>5. o \in Edits /\ o.pc = "look" /\ o.op = "update" /\ o.body = body
    <3>1. "update" \in {"create", "update"} /\ choice \in SUBSET (Groups \cup LinkedGroups)
      OBVIOUS
    <3>2. /\ Started("update", body, choice) \in Edits
          /\ Started("update", body, choice).pc = "look"
          /\ Started("update", body, choice).op = "update"
          /\ Started("update", body, choice).body = body
      BY <2>3, <3>1, StartedFacts
    <3> QED
      BY <3>2
  <2> HIDE DEF o
  <2>6. BodyFits(o)
    BY <2>3, <2>5 DEF BodyFits
  <2> QED
    BY <1>1, <2>2, <2>4, <2>5, <2>6, RequestMoves
<1>6. CASE \E c \in Categories : Stock!CountProducts(e, c)
  <2>1. PICK c \in Categories : /\ edit' = [edit EXCEPT ![e] = Deleting(c)]
                                /\ UNCHANGED <<page, expected, product>>
    BY <1>6 DEF Stock!CountProducts, Deleting, Stock!server, Stock!ghosts
  <2> DEFINE o == Deleting(c)
  <2>2. o \in Edits /\ o.pc = "delete" /\ o.op = "none"
    BY DeletingFacts
  <2>3. edit' = [edit EXCEPT ![e] = o]
    BY <2>1
  <2> HIDE DEF o
  <2>4. BodyFits(o)
    BY <2>2 DEF BodyFits
  <2> QED
    BY <1>1, <2>1, <2>2, <2>3, <2>4, RequestMoves
<1>7. CASE Stock!DeleteCategory(e)
  <2>1. /\ Stock!Finish(e) /\ UNCHANGED <<page, expected>>
        /\ product' \in {product, [product EXCEPT !.category = Stock!NoCategory]}
    BY <1>7 DEF Stock!DeleteCategory, Stock!ghosts
  <2>2. product' \in Products /\ product'.exists = product.exists /\ product'.stock = product.stock
    BY <1>1, <2>1 DEF Products, AnyCategory
  <2> QED
    BY <1>1, <2>1, <2>2, RequestEnds
<1>8. CASE Stock!Clear(e)
  BY <1>3, <1>8 DEF Stock!Clear
<1>9. CASE Stock!Link(e)
  BY <1>2, <1>3, <1>9 DEF Stock!Link
<1>10. CASE Stock!Saved(e)
  BY <1>2, <1>10 DEF Stock!Saved, Stock!server, Stock!ghosts
<1> QED
  BY <1>4, <1>5, <1>6, <1>7, <1>8, <1>9, <1>10 DEF Stock!Editing

\* The steps of the service that leave the stock as it is, a lost answer among them.
LEMMA QuietHandling ==
  ASSUME StockInv, NEW r \in Requesters, Stock!Look(r) \/ Stock!Check(r) \/ Stock!Die(r)
  PROVE  StockInv'
<1>1. /\ edit[r] \in Edits /\ product \in Products /\ BodyFits(edit[r])
      /\ r \in Pages => PageFitsStock(page[r], edit[r])
  BY TypesOfStock DEF StockInv
<1>2. UNCHANGED <<page, expected, product>>
  BY DEF Stock!Look, Stock!Check, Stock!Die, Stock!server, Stock!ghosts
<1>3. CASE Stock!Look(r)
  <2>1. /\ edit[r].pc = "look"
        /\ \/ Stock!Finish(r) \/ Stock!Goto(r, "check")
           \/ edit[r].op # "create" /\ Stock!Goto(r, "write")
    BY <1>3 DEF Stock!Look
  <2>2. edit[r].op \in {"create", "update"}
    BY <1>1, <2>1 DEF BodyFits, Edits
  <2>3. "check" \in Places \ {"idle", "look"} /\ "write" \in Places \ {"idle", "look"}
    BY DEF Places
  <2> QED
    BY <1>1, <1>2, <2>1, <2>2, <2>3, RequestGoes, RequestEnds
<1>4. CASE Stock!Check(r)
  <2>1. /\ edit[r].pc = "check"
        /\ \/ Stock!Finish(r) /\ ~(edit[r].choice \subseteq groups)
           \/ edit[r].op = "create" /\ Stock!Goto(r, "insert")
           \/ edit[r].relinks /\ Stock!Goto(r, "clear")
           \/ Stock!Answer(r)
    BY <1>4 DEF Stock!Check
  <2>2. r \in Pages => edit[r].choice = {} /\ ~edit[r].relinks
    BY <1>1 DEF PageFitsStock
  <2>3. /\ "insert" \in Places \ {"idle", "look"} /\ "clear" \in Places \ {"idle", "look"}
    BY DEF Places
  <2> QED
    BY <1>1, <1>2, <2>1, <2>2, <2>3, RequestGoes, RequestEnds, RequestIsDone
<1>5. CASE Stock!Die(r)
  BY <1>1, <1>2, <1>5, RequestEnds DEF Stock!Die
<1> QED
  BY <1>3, <1>4, <1>5

\* A page that was overtaken shows nothing that would have to fit.
LEMMA OvertakenFacts ==
  ASSUME StockInv, NEW p \in Pages
  PROVE  /\ Stock!Overtaken(p) \in PageRecords
         /\ Stock!Overtaken(p).list.listed => Stock!Overtaken(p).list.moved
         /\ Stock!Overtaken(p).form.mode = "edit" => Stock!Overtaken(p).form.moved
         /\ Stock!Overtaken(p).form.mode = page[p].form.mode
         /\ page[p].form.moved => Stock!Overtaken(p).form.moved
<1> DEFINE l == [page[p].list EXCEPT !.moved = page[p].list.listed]
           f == [page[p].form EXCEPT !.moved = page[p].form.moved \/ page[p].form.mode = "edit"]
<1>1. page[p].list \in Lists /\ page[p].form \in Forms
  BY TypesOfStock
<1>2. l \in Lists /\ (l.listed => l.moved)
  BY <1>1 DEF Lists
<1>3. PICK m \in BOOLEAN : m = (page[p].form.moved \/ page[p].form.mode = "edit")
  OBVIOUS
<1>4. f = [page[p].form EXCEPT !.moved = m]
  BY <1>3
<1>5. f \in Forms /\ f.mode = page[p].form.mode /\ f.moved = m
  BY <1>1, <1>4 DEF Forms
<1>6. Stock!Overtaken(p) = [list |-> l, form |-> f]
  BY DEF Stock!Overtaken
<1> HIDE DEF l, f
<1>7. (f.mode = "edit" => f.moved) /\ (page[p].form.moved => f.moved)
  BY <1>3, <1>5
<1>8. /\ Stock!Overtaken(p) \in PageRecords
      /\ Stock!Overtaken(p).list = l /\ Stock!Overtaken(p).form = f
      /\ f.mode = page[p].form.mode
  BY <1>2, <1>5, <1>6 DEF PageRecords
<1> QED
  BY <1>2, <1>7, <1>8

\* The stock becomes another one: every page is out of date from now on, and so is every
\* request but those that made the change.
LEMMA StockMoves ==
  ASSUME StockInv, NEW W \in SUBSET Requesters, product' \in Products,
         product'.exists => product'.stock = expected',
         page' = [p \in Pages |-> Stock!Overtaken(p)],
         edit' = [q \in Requesters |-> IF q \in W THEN Settled(edit[q]) ELSE Stale(edit[q])],
         \A q \in W : edit[q].op = "update"
  PROVE  StockInv'
<1>1. /\ \A q \in Requesters : edit[q] \in Edits /\ BodyFits(edit[q])
      /\ \A p \in Pages : page[p] \in PageRecords /\ PageFitsStock(page[p], edit[p])
  BY TypesOfStock DEF StockInv
<1>2. \A q \in Requesters \ W :
        /\ edit'[q] \in Edits /\ edit'[q].pc = edit[q].pc /\ edit'[q].op = edit[q].op
        /\ edit'[q].choice = edit[q].choice /\ edit'[q].relinks = edit[q].relinks
        /\ edit'[q].body.sent = edit[q].body.sent
        /\ edit[q].body.sent => edit'[q].body.moved
  <2> TAKE q \in Requesters \ W
  <2>1. edit'[q] = Stale(edit[q])
    OBVIOUS
  <2> QED
    BY <1>1, <2>1, StaleFacts
<1>3. \A q \in W :
        /\ edit'[q] \in Edits /\ edit'[q].pc = "check" /\ edit'[q].op = "update"
        /\ edit'[q].choice = edit[q].choice /\ edit'[q].relinks = edit[q].relinks
  <2> TAKE q \in W
  <2>1. edit'[q] = Settled(edit[q]) /\ q \in Requesters
    OBVIOUS
  <2> QED
    BY <1>1, <2>1, SettledFacts
<1>4. \A p \in Pages : page'[p] \in PageRecords
  BY <1>1, OvertakenFacts
<1>5. edit' \in [Requesters -> Edits] /\ page' \in [Pages -> PageRecords]
  BY <1>2, <1>3, <1>4
<1>6. StockTypes'
  BY <1>5 DEF StockTypes, Requesters, AnyCategory
<1>7. ASSUME NEW q \in Requesters PROVE BodyFits(edit[q])'
  <2>1. BodyFits(edit[q])
    BY <1>1
  <2>2. CASE q \in W
    BY <1>3, <2>2 DEF BodyFits
  <2>3. CASE q \notin W
    <3>1. /\ edit'[q].pc = edit[q].pc /\ edit'[q].op = edit[q].op
          /\ edit'[q].body.sent => edit'[q].body.moved
      BY <1>2, <2>3
    <3> QED
      BY <2>1, <3>1 DEF BodyFits
  <2> QED
    BY <2>2, <2>3
<1>8. ASSUME NEW p \in Pages PROVE PageFitsStock(page[p], edit[p])'
  <2>1. p \in Requesters /\ PageFitsStock(page[p], edit[p])
    BY <1>1 DEF Requesters
  <2>2. /\ page'[p].list.listed => page'[p].list.moved
        /\ page'[p].form.mode = "edit" => page'[p].form.moved
        /\ page'[p].form.mode = page[p].form.mode
        /\ page[p].form.moved => page'[p].form.moved
    BY OvertakenFacts
  <2>3. ListFits(page[p])' /\ FormFits(page[p])'
    BY <2>2, Zenon DEF ListFits, FormFits
  <2>4. page'[p].form.mode = "create" => page'[p].form.moved
    BY <2>1, <2>2 DEF PageFitsStock
  <2>5. edit'[p].choice = {} /\ ~edit'[p].relinks /\ edit'[p].pc \notin {"clear", "link", "delete"}
    <3>1. CASE p \in W
      BY <1>3, <2>1, <3>1 DEF PageFitsStock
    <3>2. CASE p \notin W
      BY <1>2, <2>1, <3>2 DEF PageFitsStock
    <3> QED
      BY <3>1, <3>2
  <2> QED
    BY <2>3, <2>4, <2>5 DEF PageFitsStock, ListFits, FormFits
<1> QED
  BY <1>6, <1>7, <1>8 DEF StockInv, Requesters

\* updateProduct, on a body with a stock or without one.
LEMMA WriteKeeps ==
  ASSUME StockInv, NEW r \in Requesters, Stock!Write(r)
  PROVE  StockInv'
<1>1. /\ edit[r] \in Edits /\ edit[r].body \in Bodies /\ product \in Products
      /\ BodyFits(edit[r]) /\ edit[r].pc = "write" /\ edit \in [Requesters -> Edits]
      /\ "check" \in Places \ {"idle", "look"}
  BY TypesOfStock DEF StockInv, StockTypes, Stock!Write, Places
<1>2. edit[r].op = "update"
  BY <1>1 DEF BodyFits
<1>3. CASE ~edit[r].body.sent
  BY <1>1, <1>2, <1>3, RequestGoes DEF Stock!Write
<1>4. CASE edit[r].body.sent /\ ~Stock!Exists(edit[r].body.category)
  BY <1>1, <1>2, <1>4, RequestEnds DEF Stock!Write
<1>5. CASE edit[r].body.sent /\ Stock!Exists(edit[r].body.category)
  <2> DEFINE body == edit[r].body
  <2>1. product' = [product EXCEPT !.category = body.category, !.stock = body.stock]
    BY <1>5 DEF Stock!Write
  <2>2. /\ product' \in Products /\ product'.exists = product.exists
        /\ product'.stock = body.stock
    BY <1>1, <2>1 DEF Products, Bodies
  <2>3. CASE body.moved
    <3>1. /\ expected' = body.stock
          /\ page' = [p \in Pages |-> Stock!Overtaken(p)]
          /\ edit' = [q \in DOMAIN edit |-> IF q = r THEN Stock!Written(r) ELSE Stock!Late(q)]
      BY <1>5, <2>3 DEF Stock!Write
    <3>2. edit' = [q \in Requesters |-> IF q \in {r} THEN Settled(edit[q]) ELSE Stale(edit[q])]
      BY <1>1, <3>1 DEF Stock!Late, Stock!Written, Stale, Settled
    <3>3. {r} \in SUBSET Requesters /\ (\A q \in {r} : edit[q].op = "update")
      BY <1>2
    <3>4. product'.exists => product'.stock = expected'
      BY <2>2, <3>1
    <3> HIDE DEF body
    <3> QED
      BY <2>2, <3>1, <3>2, <3>3, <3>4, StockMoves
  <2>4. CASE ~body.moved
    <3> DEFINE o == Settled(edit[r])
    <3>1. edit' = [edit EXCEPT ![r] = o] /\ UNCHANGED <<page, expected>>
      BY <1>5, <2>4 DEF Stock!Write, Stock!Written, Settled
    <3>2. /\ o \in Edits /\ o.pc = "check" /\ o.choice = edit[r].choice
          /\ o.relinks = edit[r].relinks
      BY <1>1, SettledFacts
    <3> HIDE DEF o
    <3>3. product'.stock = product.stock
      BY <1>1, <1>2, <1>5, <2>2, <2>4 DEF BodyFits
    <3>4. BodyFits(o)
      BY <3>2 DEF BodyFits
    <3>5. r \in Pages => PageFitsStock(page[r], edit[r])
      BY DEF StockInv
    <3>6. r \in Pages => PageFitsStock(page[r], o)
      BY <3>2, <3>5 DEF PageFitsStock
    <3> HIDE DEF body
    <3> QED
      BY <2>2, <3>1, <3>2, <3>3, <3>4, <3>6, RequestMoves
  <2> QED
    BY <2>3, <2>4
<1> QED
  BY <1>3, <1>4, <1>5

\* A sale makes everyone late.
LEMMA SaleKeeps ==
  ASSUME StockInv, Stock!Sell
  PROVE  StockInv'
<1>1. /\ product.exists /\ product' = [product EXCEPT !.stock = product.stock - 1]
      /\ expected' = expected - 1 /\ page' = [p \in Pages |-> Stock!Overtaken(p)]
      /\ edit' = [q \in Requesters |-> Stale(edit[q])] /\ product.stock = expected
      /\ product \in Products
  BY DEF StockInv, StockTypes, Stock!Sell, Stock!Late, Stale
<1>2. product' \in Products /\ product'.stock = expected'
  BY <1>1 DEF Products
<1>3. PICK W \in SUBSET Requesters : \A q : q \notin W
  <2>1. {} \in SUBSET Requesters /\ \A q : q \notin {}
    OBVIOUS
  <2> QED
    BY <2>1
<1>4. edit' = [q \in Requesters |-> IF q \in W THEN Settled(edit[q]) ELSE Stale(edit[q])]
  BY <1>1, <1>3
<1> QED
  BY <1>1, <1>2, <1>3, <1>4, StockMoves

\* createProduct: only where there is no product yet, so that nothing shows one.
LEMMA InsertingKeeps ==
  ASSUME StockInv, NEW r \in Requesters, Stock!Insert(r)
  PROVE  StockInv'
<1>1. /\ edit[r] \in Edits /\ edit[r].body \in Bodies /\ product \in Products
      /\ BodyFits(edit[r]) /\ edit[r].pc = "insert" /\ edit \in [Requesters -> Edits]
      /\ UNCHANGED page
      /\ r \in Pages => PageFitsStock(page[r], edit[r])
  BY TypesOfStock DEF StockInv, StockTypes, Stock!Insert
<1>3. CASE ~(~product.exists /\ Stock!Exists(edit[r].body.category) /\ edit[r].choice \subseteq groups)
  BY <1>1, <1>3, RequestEnds DEF Stock!Insert
<1>4. CASE ~product.exists /\ Stock!Exists(edit[r].body.category) /\ edit[r].choice \subseteq groups
  <2>1. PICK o \in Edits :
          /\ o = Replied /\ edit' = [edit EXCEPT ![r] = o]
          /\ product' = Stock!Row(edit[r].body.category, edit[r].body.stock)
          /\ expected' = edit[r].body.stock
    BY <1>4, SameAnswer, RepliedFacts DEF Stock!Insert
  <2>2. o.pc = "saved" /\ o.op = "none" /\ o.choice = {} /\ o.relinks = FALSE
    BY <2>1, RepliedFacts
  <2>3. product' \in Products /\ product'.stock = expected'
    BY <1>1, <2>1 DEF Stock!Row, Products, Bodies
  <2>4. /\ edit' \in [Requesters -> Edits] /\ edit'[r] = o
        /\ \A q \in Requesters \ {r} : edit'[q] = edit[q]
    BY <1>1, <2>1, <2>2
  <2>5. StockTypes'
    BY <1>1, <2>3, <2>4 DEF StockInv, StockTypes, Requesters, AnyCategory
  <2>6. ASSUME NEW q \in Requesters PROVE BodyFits(edit[q])'
    <3>1. PICK e : e = edit'[q]
      OBVIOUS
    <3>2. BodyFits(edit[q])
      BY DEF StockInv
    <3>3. BodyFits(e)'
      BY <1>4, <2>2, <2>4, <3>1, <3>2 DEF BodyFits
    <3> QED
      BY <3>1, <3>3 DEF BodyFits
  <2>7. ASSUME NEW p \in Pages PROVE PageFitsStock(page[p], edit[p])'
    <3>1. PICK v, e : v = page'[p] /\ e = edit'[p]
      OBVIOUS
    <3>2. p \in Requesters /\ PageFitsStock(v, edit[p])
      BY <1>1, <3>1 DEF StockInv, Requesters
    <3>3. e.choice = {} /\ ~e.relinks /\ e.pc \notin {"clear", "link", "delete"}
      BY <2>2, <2>4, <3>1, <3>2 DEF PageFitsStock
    <3>4. (ListFits(v) => ListFits(v)') /\ (FormFits(v) => FormFits(v)')
      BY <1>4 DEF ListFits, FormFits
    <3>5. ListFits(v)' /\ FormFits(v)'
      BY <3>2, <3>4 DEF PageFitsStock
    <3>6. v.form.mode = "create" => v.form.moved
      BY <3>2 DEF PageFitsStock
    <3>7. PageFitsStock(v, e)'
      BY <3>3, <3>5, <3>6 DEF PageFitsStock, ListFits, FormFits
    <3> QED
      BY <3>1, <3>7 DEF PageFitsStock, ListFits, FormFits
  <2> QED
    BY <2>3, <2>5, <2>6, <2>7 DEF StockInv, Requesters
<1> QED
  BY <1>3, <1>4

\* A page with another list, and with another form.
WithList(v, l) == [v EXCEPT !.list = l]
WithForm(v, f) == [v EXCEPT !.form = f]

\* The rest of the page is as it was.
LEMMA WithFacts ==
  ASSUME NEW v \in PageRecords
  PROVE  /\ \A l \in Lists : /\ WithList(v, l) \in PageRecords /\ WithList(v, l).list = l
                             /\ WithList(v, l).form = v.form
         /\ \A f \in Forms : /\ WithForm(v, f) \in PageRecords /\ WithForm(v, f).form = f
                             /\ WithForm(v, f).list = v.list
BY DEF WithList, WithForm, PageRecords

\* A list that is loaded has the product as it is.
LEMMA ListedFacts ==
  ASSUME StockInv
  PROVE  /\ Stock!Listed \in Lists /\ Stock!NotListed \in Lists
         /\ Stock!Listed.listed => product.exists /\ Stock!Listed.stock = product.stock
         /\ ~Stock!NotListed.listed
<1>1. /\ Stock!NotListed \in Lists /\ Stock!NotListed.listed = FALSE
  BY DEF Stock!NotListed, Lists, AnyCategory
<1>2. product \in Products
  BY TypesOfStock
<1>3. CASE ~product.exists \/ product.archived
  BY <1>1, <1>3 DEF Stock!Listed
<1>4. CASE product.exists /\ ~product.archived
  <2>1. Stock!Listed = [stock |-> product.stock, moved |-> FALSE, listed |-> TRUE]
    BY <1>4 DEF Stock!Listed
  <2>2. Stock!Listed \in Lists /\ Stock!Listed.stock = product.stock
    BY <1>2, <2>1 DEF Products, Lists
  <2> QED
    BY <1>1, <1>4, <2>2
<1> QED
  BY <1>3, <1>4

\* The list is loaded, a form is opened, filled in or closed; an archived product is
\* listed no more and its form stays.
LEMMA PageKeeps ==
  ASSUME StockInv, NEW p \in Pages,
         \/ Stock!Load(p) \/ Stock!openCreate(p) \/ Stock!openEdit(p) \/ Stock!setForm(p)
         \/ Stock!onClose(p) \/ Stock!archive(p)
  PROVE  StockInv'
<1>1. /\ page[p] \in PageRecords /\ page[p].list \in Lists /\ page[p].form \in Forms
      /\ product \in Products /\ PageFitsStock(page[p], edit[p])
  BY TypesOfStock DEF StockInv
<1>2. Stock!Idle.op = "none"
  BY NothingFacts
<1>3. ASSUME NEW l \in Lists, page' = [page EXCEPT ![p].list = l], UNCHANGED <<edit, expected>>,
             product' \in Products, product'.exists = product.exists,
             product'.stock = product.stock,
             l.listed => product.exists /\ l.stock = product.stock
      PROVE  StockInv'
  <2> DEFINE v == WithList(page[p], l)
  <2>1. page' = [page EXCEPT ![p] = v]
    BY <1>3 DEF WithList
  <2>2. v \in PageRecords /\ v.list = l /\ v.form = page[p].form
    BY <1>1, WithFacts
  <2> HIDE DEF v
  <2>3. ListFits(v) /\ (FormFits(page[p]) => FormFits(v))
    BY <1>3, <2>2 DEF ListFits, FormFits
  <2>4. v.form.mode = "create" => v.form.moved
    BY <1>1, <2>2 DEF PageFitsStock
  <2>5. PageFitsStock(v, edit[p])
    BY <1>1, <2>3, <2>4 DEF PageFitsStock
  <2> QED
    BY <1>3, <2>1, <2>2, <2>5, PageMoves
<1>4. ASSUME NEW f \in Forms, page' = [page EXCEPT ![p].form = f],
             UNCHANGED <<edit, expected, product>>,
             f.mode = "create" => f.moved,
             FormFits(page[p]) /\ ListFits(page[p]) => \A v : v.form = f => FormFits(v)
      PROVE  StockInv'
  <2> DEFINE v == WithForm(page[p], f)
  <2>1. page' = [page EXCEPT ![p] = v]
    BY <1>4 DEF WithForm
  <2>2. v \in PageRecords /\ v.form = f /\ v.list = page[p].list
    BY <1>1, WithFacts
  <2> HIDE DEF v
  <2>3. ListFits(page[p]) => ListFits(v)
    BY <2>2 DEF ListFits
  <2>4. ListFits(v) /\ FormFits(v)
    BY <1>1, <1>4, <2>2, <2>3 DEF PageFitsStock
  <2>5. v.form.mode = "create" => v.form.moved
    BY <1>4, <2>2
  <2>6. PageFitsStock(v, edit[p])
    BY <1>1, <2>4, <2>5 DEF PageFitsStock
  <2> QED
    BY <1>1, <1>4, <2>1, <2>2, <2>6, PageMoves
<1>5. CASE Stock!Load(p)
  BY <1>1, <1>3, <1>5, ListedFacts DEF Stock!Load, Stock!server, Stock!ghosts
<1>6. CASE Stock!archive(p)
  <2>1. /\ page' = page \/ page' = [page EXCEPT ![p].list = Stock!NotListed]
        /\ UNCHANGED <<edit, expected>> /\ product' = [product EXCEPT !.archived = TRUE]
    BY <1>6 DEF Stock!archive, Stock!ghosts
  <2>2. product' \in Products /\ product'.exists = product.exists /\ product'.stock = product.stock
    BY <1>1, <2>1 DEF Products
  <2>3. CASE page' = [page EXCEPT ![p].list = Stock!NotListed]
    BY <1>3, <2>1, <2>2, <2>3, ListedFacts
  <2>4. CASE page' = page
    <3>1. page' = [page EXCEPT ![p] = page[p]]
      BY <2>4 DEF StockInv, StockTypes
    <3> QED
      BY <1>1, <2>1, <2>2, <3>1, PageMoves
  <2> QED
    BY <2>1, <2>3, <2>4
<1>7. CASE Stock!openCreate(p)
  <2> DEFINE f == [Stock!EMPTY_FORM EXCEPT !.mode = "create", !.moved = TRUE]
  <2>1. page' = [page EXCEPT ![p].form = f] /\ UNCHANGED <<edit, expected, product>>
    BY <1>7 DEF Stock!openCreate, Stock!server, Stock!ghosts
  <2>2. f \in Forms /\ f.mode = "create" /\ f.moved
    <3>1. Stock!EMPTY_FORM \in Forms
      BY DEF Stock!EMPTY_FORM, Forms
    <3>2. f \in Forms
      BY <3>1 DEF Forms
    <3>3. f.mode = "create"
      BY <3>1 DEF Forms
    <3>4. f.moved
      BY <3>1 DEF Forms
    <3> QED
      BY <3>2, <3>3, <3>4
  <2> HIDE DEF f
  <2>3. \A v : v.form = f => FormFits(v)
    BY <2>2 DEF FormFits
  <2> QED
    BY <1>4, <2>1, <2>2, <2>3
<1>8. CASE Stock!openEdit(p)
  <2> DEFINE l == page[p].list
             f == [mode |-> "edit", stock |-> l.stock, moved |-> l.moved]
  <2>1. page' = [page EXCEPT ![p].form = f] /\ UNCHANGED <<edit, expected, product>> /\ l.listed
    BY <1>8 DEF Stock!openEdit, Stock!server, Stock!ghosts
  <2>2. f \in Forms
    BY <1>1 DEF Lists, Forms
  <2>3. f.mode = "edit" /\ f.stock = l.stock /\ f.moved = l.moved
    OBVIOUS
  <2> HIDE DEF f
  <2>4. ListFits(page[p]) => \A v : v.form = f => FormFits(v)
    BY <2>1, <2>3 DEF ListFits, FormFits
  <2> QED
    BY <1>4, <2>1, <2>2, <2>3, <2>4
<1>9. CASE Stock!setForm(p)
  <2>1. UNCHANGED <<edit, expected, product>>
    BY <1>9 DEF Stock!setForm, Stock!server, Stock!ghosts
  <2>2. PICK s \in 0 .. MaxStock :
          page' = [page EXCEPT ![p].form.stock = s, ![p].form.moved = TRUE]
    BY <1>9 DEF Stock!setForm
  <2> DEFINE f == [page[p].form EXCEPT !.stock = s, !.moved = TRUE]
  <2>3. page' = [page EXCEPT ![p].form = f]
    BY <1>1, <2>2 DEF PageRecords, StockInv, StockTypes
  <2>4. f \in Forms /\ f.moved
    <3>1. s \in Int /\ page[p].form \in Forms
      BY <1>1
    <3> QED
      BY <3>1 DEF Forms
  <2> HIDE DEF f
  <2>5. \A v : v.form = f => FormFits(v)
    BY <2>4 DEF FormFits
  <2> QED
    BY <1>4, <2>1, <2>3, <2>4, <2>5
<1>10. CASE Stock!onClose(p)
  <2> DEFINE f == [page[p].form EXCEPT !.mode = "closed", !.moved = FALSE]
  <2>1. page' = [page EXCEPT ![p].form = f] /\ UNCHANGED <<edit, expected, product>>
    BY <1>10 DEF Stock!onClose, Stock!server, Stock!ghosts
  <2>2. f \in Forms /\ f.mode = "closed"
    BY <1>1 DEF Forms
  <2> HIDE DEF f
  <2>3. \A v : v.form = f => FormFits(v)
    BY <2>2 DEF FormFits
  <2> QED
    BY <1>4, <2>1, <2>2, <2>3
<1> QED
  BY <1>5, <1>6, <1>7, <1>8, <1>9, <1>10

\* The form is sent as it is.
LEMMA SavingKeeps ==
  ASSUME StockInv, NEW p \in Pages, Stock!save(p)
  PROVE  StockInv'
<1>1. /\ page[p] \in PageRecords /\ page[p].form \in Forms /\ product \in Products
      /\ PageFitsStock(page[p], edit[p]) /\ p \in Requesters
  BY TypesOfStock DEF StockInv, Requesters
<1> DEFINE form == page[p].form
           op == IF form.mode = "edit" THEN "update" ELSE "create"
<1>a. PICK c \in Categories \cup {Stock!NoCategory} :
        Stock!Start(p, op, [category |-> c, stock |-> form.stock, moved |-> form.moved,
                            sent |-> TRUE], FALSE, {})
  BY DEF Stock!save
<1> DEFINE body == [category |-> c, stock |-> form.stock, moved |-> form.moved, sent |-> TRUE]
<1>2. /\ form.mode # "closed" /\ edit[p] = Stock!Idle /\ UNCHANGED <<page, expected, product>>
      /\ Stock!Start(p, op, body, FALSE, {})
  BY <1>a DEF Stock!save, Stock!server, Stock!ghosts
<1>3. op \in {"create", "update"} /\ (op = "update" => form.mode = "edit")
  OBVIOUS
<1>4. body \in Bodies
  BY <1>1 DEF Forms, Bodies, AnyCategory
<1>5. body.stock = form.stock /\ body.moved = form.moved
  OBVIOUS
<1>6. FormFits(page[p]) /\ ListFits(page[p]) /\ (form.mode = "create" => form.moved)
  BY <1>1 DEF PageFitsStock
<1> HIDE DEF op, body
<1> DEFINE o == SentByPage(op, body)
<1>7. edit' = [edit EXCEPT ![p] = o]
  BY <1>2, PageStart, Zenon
<1>8. /\ o \in Edits /\ o.pc = "look" /\ o.op = op /\ o.body = body
      /\ ~o.relinks /\ o.choice = {}
  <2>1. op \in {"create", "update"} /\ body \in Bodies
    BY <1>3, <1>4
  <2> HIDE DEF o
  <2>2. \A x \in {"create", "update"}, b \in Bodies :
          /\ SentByPage(x, b) \in Edits /\ SentByPage(x, b).pc = "look"
          /\ SentByPage(x, b).op = x /\ SentByPage(x, b).body = b
          /\ ~SentByPage(x, b).relinks /\ SentByPage(x, b).choice = {}
    BY SentFacts
  <2> QED
    BY <2>1, <2>2 DEF o
<1> HIDE DEF o
<1>9. BodyFits(o)
  <2>1. op = "update" => form.moved \/ (product.exists /\ form.stock = product.stock)
    BY <1>3, <1>6 DEF FormFits
  <2>2. op = "update" => body.moved \/ (product.exists /\ body.stock = product.stock)
    BY <1>5, <2>1
  <2> QED
    BY <1>3, <1>8, <2>2 DEF BodyFits
<1>10. PageFitsStock(page[p], o)
  BY <1>6, <1>8 DEF PageFitsStock
<1> QED
  BY <1>1, <1>2, <1>7, <1>8, <1>9, <1>10, RequestMoves

\* The answer comes: the list is loaded or not, and the form closed.
LEMMA AnswerComes ==
  ASSUME StockInv, NEW p \in Pages, Stock!onSaved(p)
  PROVE  StockInv'
<1>1. /\ page[p] \in PageRecords /\ page[p].form \in Forms /\ product \in Products
      /\ p \in Requesters /\ edit \in [Requesters -> Edits] /\ page \in [Pages -> PageRecords]
  BY TypesOfStock DEF StockInv, StockTypes, Requesters
<1>a. PICK l \in {Stock!Listed, page[p].list} :
        page' = [page EXCEPT ![p].list = l, ![p].form.mode = "closed", ![p].form.moved = FALSE]
  BY DEF Stock!onSaved
<1>b. l \in Lists /\ (l.listed /\ ~l.moved => product.exists /\ l.stock = product.stock)
  <2>1. CASE l = Stock!Listed
    BY <2>1, ListedFacts
  <2>2. CASE l = page[p].list
    BY <2>2, TypesOfStock DEF StockInv, PageFitsStock, ListFits
  <2> QED
    BY <2>1, <2>2
<1> DEFINE f == [page[p].form EXCEPT !.mode = "closed", !.moved = FALSE]
           v == [page[p] EXCEPT !.list = l, !.form = f]
<1>2. /\ page' = [page EXCEPT ![p] = v] /\ edit' = [edit EXCEPT ![p] = Stock!Idle]
      /\ UNCHANGED <<product, expected>>
  <2>1. edit' = [edit EXCEPT ![p] = Stock!Idle] /\ UNCHANGED <<product, expected>>
    BY DEF Stock!onSaved, Stock!Finish, Stock!server, Stock!ghosts
  <2>2. page' = [page EXCEPT ![p].list = l, ![p].form = f]
    BY <1>1, <1>a DEF PageRecords
  <2> HIDE DEF f
  <2>3. page' = [page EXCEPT ![p] = v]
    BY <1>1, <2>2
  <2> QED
    BY <2>1, <2>3
<1>3. f \in Forms /\ f.mode = "closed"
  BY <1>1 DEF Forms
<1> HIDE DEF f
<1>4. v \in PageRecords /\ v.list = l /\ v.form = f
  BY <1>1, <1>3, <1>b DEF PageRecords
<1> HIDE DEF v
<1>5. /\ Stock!Idle \in Edits /\ Stock!Idle.pc = "idle" /\ Stock!Idle.op = "none"
      /\ Stock!Idle.choice = {} /\ Stock!Idle.relinks = FALSE
  BY NothingFacts
<1>6. /\ edit' \in [Requesters -> Edits] /\ edit'[p] = Stock!Idle
      /\ \A q \in Requesters \ {p} : edit'[q] = edit[q]
      /\ page' \in [Pages -> PageRecords] /\ page'[p] = v
      /\ \A q \in Pages \ {p} : page'[q] = page[q]
  BY <1>1, <1>2, <1>4, <1>5
<1>7. BodyFits(Stock!Idle)
  BY <1>5 DEF BodyFits
<1>8. PageFitsStock(v, Stock!Idle)
  <2>1. ListFits(v) /\ FormFits(v)
    BY <1>3, <1>4, <1>b DEF ListFits, FormFits
  <2> QED
    BY <1>3, <1>4, <1>5, <2>1 DEF PageFitsStock
<1>9. StockTypes'
  BY <1>1, <1>2, <1>6 DEF StockTypes, Requesters, AnyCategory
<1>10. ASSUME NEW q \in Requesters PROVE BodyFits(edit[q])'
  <2>1. PICK e : e = edit'[q] /\ BodyFits(e)
    BY <1>6, <1>7 DEF StockInv
  <2>2. BodyFits(e)'
    BY <1>2, <2>1, ProductStays
  <2> QED
    BY <2>1, <2>2 DEF BodyFits
<1>11. ASSUME NEW q \in Pages PROVE PageFitsStock(page[q], edit[q])'
  <2>1. PICK w, e : w = page'[q] /\ e = edit'[q] /\ PageFitsStock(w, e)
    BY <1>6, <1>8 DEF StockInv, Requesters
  <2>2. PageFitsStock(w, e)'
    BY <1>2, <2>1, ProductStays
  <2> QED
    BY <2>1, <2>2 DEF PageFitsStock, ListFits, FormFits
<1> QED
  BY <1>2, <1>9, <1>10, <1>11 DEF StockInv, Requesters

\* Every step of the service and of the pages keeps the invariant.
LEMMA StockStep ==
  ASSUME StockInv, [Stock!Next]_(Stock!vars)
  PROVE  StockInv'
<1>1. ASSUME UNCHANGED <<page, edit, product, expected>> PROVE StockInv'
  <2>1. StockTypes'
    BY <1>1 DEF StockInv, StockTypes, Requesters, AnyCategory
  <2>2. ASSUME NEW q \in Requesters PROVE BodyFits(edit[q])'
    <3>1. PICK e : e = edit'[q] /\ BodyFits(e)
      BY <1>1 DEF StockInv
    <3>2. BodyFits(e)'
      BY <1>1, <3>1, ProductStays
    <3> QED
      BY <3>1, <3>2 DEF BodyFits
  <2>3. ASSUME NEW q \in Pages PROVE PageFitsStock(page[q], edit[q])'
    <3>1. PICK w, e : w = page'[q] /\ e = edit'[q] /\ PageFitsStock(w, e)
      BY <1>1 DEF StockInv
    <3>2. PageFitsStock(w, e)'
      BY <1>1, <3>1, ProductStays
    <3> QED
      BY <3>1, <3>2 DEF PageFitsStock, ListFits, FormFits
  <2> QED
    BY <1>1, <2>1, <2>2, <2>3 DEF StockInv, Requesters
<1>2. CASE UNCHANGED Stock!vars
  BY <1>1, <1>2 DEF Stock!vars
<1>3. CASE Stock!Next
  <2>1. ASSUME NEW c \in Categories, Stock!CreateCategory(c) PROVE StockInv'
    BY <1>1, <2>1 DEF Stock!CreateCategory, Stock!ghosts
  <2>2. ASSUME NEW g \in Groups, Stock!CreateGroup(g) \/ Stock!DeleteGroup(g) PROVE StockInv'
    BY <1>1, <2>2 DEF Stock!CreateGroup, Stock!DeleteGroup, Stock!ghosts
  <2>3. ASSUME NEW r \in Requesters, Stock!Handle(r) PROVE StockInv'
    BY <2>3, QuietHandling, WriteKeeps, InsertingKeeps DEF Stock!Handle
  <2>4. ASSUME NEW p \in Pages, Stock!Paging(p) PROVE StockInv'
    BY <2>4, PageKeeps, SavingKeeps, AnswerComes DEF Stock!Paging
  <2> QED
    BY <1>3, <2>1, <2>2, <2>3, <2>4, EditorKeeps, SaleKeeps DEF Stock!Next, Requesters
<1> QED
  BY <1>2, <1>3

\* There is no product yet, and no page shows one.
LEMMA StockInit == Stock!Init => StockInv
<1> SUFFICES ASSUME Stock!Init PROVE StockInv
  OBVIOUS
<1> DEFINE v == [list |-> Stock!NotListed, form |-> Stock!EMPTY_FORM]
<1>1. /\ edit = [r \in Requesters |-> Stock!Idle] /\ page = [p \in Pages |-> v]
      /\ product = Stock!Absent
  BY DEF Stock!Init, Requesters
<1>2. /\ Stock!Idle \in Edits /\ Stock!Idle.pc = "idle" /\ Stock!Idle.op = "none"
      /\ Stock!Idle.choice = {} /\ Stock!Idle.relinks = FALSE
  BY NothingFacts
<1>3. product \in Products /\ product.exists = FALSE
  BY <1>1 DEF Stock!Absent, Products, AnyCategory
<1>4. v.list = Stock!NotListed /\ v.form = Stock!EMPTY_FORM
  OBVIOUS
<1>5. v.form \in Forms /\ v.form.mode = "closed"
  BY DEF Stock!EMPTY_FORM, Forms
<1>6. v.list \in Lists /\ ~v.list.listed
  BY DEF Stock!NotListed, Lists
<1>7. v \in PageRecords
  BY <1>5, <1>6 DEF PageRecords
<1> HIDE DEF v
<1>8. BodyFits(Stock!Idle)
  BY <1>2 DEF BodyFits
<1>9. PageFitsStock(v, Stock!Idle)
  <2>1. ListFits(v) /\ FormFits(v)
    BY <1>5, <1>6 DEF ListFits, FormFits
  <2> QED
    BY <1>2, <1>5, <2>1 DEF PageFitsStock
<1>10. \A r \in Requesters : edit[r] = Stock!Idle
  BY <1>1
<1>11. \A p \in Pages : page[p] = v /\ edit[p] = Stock!Idle
  BY <1>1, <1>10 DEF Requesters
<1>12. StockTypes
  BY <1>1, <1>2, <1>3, <1>7 DEF StockTypes
<1> QED
  BY <1>3, <1>8, <1>9, <1>10, <1>11, <1>12 DEF StockInv

\* However the pages, the sales and the programs interleave, answers and reloads that are
\* lost included, the stock is what was last entered less what was sold since: a form that
\* nobody touched, and whose row was loaded after the last of that, never changes it.
THEOREM StockIsAsEntered == Spec => []StockIsWhatWasEntered
<1> DEFINE I == part = "stock" => StockInv
<1>1. Init => I
  BY StockInit DEF Init
<1>2. I /\ [Next]_allVars => I'
  BY OfficeStep, StockStep
<1>3. I => StockIsWhatWasEntered
  BY DEF StockInv, StockIsWhatWasEntered, Stock!StockIsWhatWasEntered
<1> HIDE DEF I
<1> QED
  BY <1>1, <1>2, <1>3, PTL DEF Spec, allVars
=============================================================================
