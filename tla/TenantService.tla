---------------------------- MODULE TenantService ----------------------------
(***************************************************************************)
(* identity/service/tenant_service.go on the tenants table.  A tenant is   *)
(* known by its place in the order of creation; its uuid is never used     *)
(* again, so a place whose row is deleted stays empty.  The columns name   *)
(* and remark stand for all the text columns; the plan has the same part   *)
(* in every method as they have.                                           *)
(***************************************************************************)
EXTENDS Integers, Sequences, FiniteSets, Pagination, Requests

CONSTANTS
    Text,        \* contents of a text column
    EMPTY,       \* the empty one among them
    MaxTenants   \* bound on the tenants created

ASSUME EmptyAssumption == EMPTY \in Text
ASSUME MaxTenantsAssumption == MaxTenants \in Nat

TextColumn == {"name", "remark"}

Tenant == [name : Text, remark : Text, status : {"active", "frozen"}]

ASSUME TenantNullAssumption == NULL \notin Tenant

VARIABLES
    tenants,  \* the table: a row or NULL for every tenant ever created
    treq      \* what each goroutine is doing

tenantVars == <<tenants, treq>>

TenantRequest ==
    [pc   : {"idle",
             "insert",   \* CreateTenant, before the INSERT
             "write"},   \* before the UPDATE
     id   : 0..MaxTenants,
     copy : Tenant \cup {NULL},                \* the row in memory
     snap : Tenant \cup {NULL},                \* as it was read
     sets : SUBSET (TextColumn \cup {"status"})] \* what the request is to change

TenantIdle == [pc |-> "idle", id |-> 0, copy |-> NULL, snap |-> NULL, sets |-> {}]

TenantTypeOK ==
    /\ tenants \in Seq(Tenant \cup {NULL}) /\ Len(tenants) <= MaxTenants
    /\ treq \in [Proc -> TenantRequest]

TenantInit ==
    /\ tenants = <<>>
    /\ treq = [p \in Proc |-> TenantIdle]

-----------------------------------------------------------------------------
(* repository/dao/tenant.go and domain/tenant.go *)

Existing == {i \in DOMAIN tenants : tenants[i] # NULL}

NewTenant(name, remark) == [name |-> name, remark |-> remark, status |-> "active"]

\* Mutant of NameTaken: the unique index is missing.
NameTakenNever(i, name) == FALSE

\* A row other than i has the name: the unique index refuses it.
NameTaken(i, name) == \E j \in Existing \ {i} : tenants[j].name = name

\* Updates(struct) leaves out the columns whose field is empty.
StoreTenant(old, new) ==
    [name   |-> IF new.name = EMPTY THEN old.name ELSE new.name,
     remark |-> IF new.remark = EMPTY THEN old.remark ELSE new.remark,
     status |-> new.status]

TenantReturn(p) == treq' = [treq EXCEPT ![p] = TenantIdle]

-----------------------------------------------------------------------------
(* service/tenant_service.go *)

\* GetByName finds no row, or fails: the error is taken for a free name.
CreateTenant(p) ==
    /\ treq[p].pc = "idle"
    /\ \E name, remark \in Text, failed \in BOOLEAN :
        /\ NameTaken(0, name) => failed
        /\ treq' = [treq EXCEPT ![p] =
                     [pc |-> "insert", id |-> 0, copy |-> NewTenant(name, remark),
                      snap |-> NULL, sets |-> {}]]
    /\ UNCHANGED tenants

InsertTenant(p) ==
    /\ treq[p].pc = "insert" /\ Len(tenants) < MaxTenants
    /\ ~NameTaken(0, treq[p].copy.name)
    /\ tenants' = Append(tenants, treq[p].copy)
    /\ TenantReturn(p)

\* GetByID has read row i; row is to be written back.
LoadTenant(p, i, row, sets) ==
    /\ treq[p].pc = "idle"
    /\ treq' = [treq EXCEPT ![p] = [pc |-> "write", id |-> i, copy |-> row,
                                    snap |-> tenants[i], sets |-> sets]]
    /\ UNCHANGED tenants

UpdateTenant(p) ==
    \E i \in Existing, sets \in SUBSET TextColumn, text \in [TextColumn -> Text] :
        LoadTenant(p, i,
            [tenants[i] EXCEPT !.name = IF "name" \in sets THEN text["name"] ELSE @,
                               !.remark = IF "remark" \in sets THEN text["remark"] ELSE @],
            sets)

FreezeTenant(p) ==
    \E i \in Existing :
        /\ tenants[i].status = "active"
        /\ LoadTenant(p, i, [tenants[i] EXCEPT !.status = "frozen"], {"status"})

UnfreezeTenant(p) ==
    \E i \in Existing :
        /\ tenants[i].status = "frozen"
        /\ LoadTenant(p, i, [tenants[i] EXCEPT !.status = "active"], {"status"})

\* UPDATE ... WHERE id = ?
WriteTenant(p) ==
    /\ treq[p].pc = "write" /\ treq[p].id \in Existing
    /\ LET i   == treq[p].id
           new == StoreTenant(tenants[i], treq[p].copy)
       IN  /\ ~NameTaken(i, new.name)
           /\ tenants' = [tenants EXCEPT ![i] = new]
    /\ TenantReturn(p)

\* DELETE ... WHERE id = ?; users, lots and devices of the tenant stay.
DeleteTenant(p) ==
    /\ treq[p].pc = "idle"
    /\ \E i \in Existing : tenants' = [tenants EXCEPT ![i] = NULL]
    /\ UNCHANGED treq

\* No row, a name in use, a failing database, or the end of the process.
TenantFails(p) ==
    /\ treq[p].pc # "idle"
    /\ TenantReturn(p) /\ UNCHANGED tenants

TenantNext(p) ==
    \/ CreateTenant(p) \/ InsertTenant(p) \/ UpdateTenant(p) \/ FreezeTenant(p)
    \/ UnfreezeTenant(p) \/ WriteTenant(p) \/ DeleteTenant(p) \/ TenantFails(p)

-----------------------------------------------------------------------------
(* Reading *)

\* No status in a request of ListTenants means active tenants only.
TenantFilter(asked) == IF asked = NULL THEN "active" ELSE asked

\* The tenants FindAll counts.
TenantsMatching(asked) == {i \in Existing : tenants[i].status = TenantFilter(asked)}

\* Newest first.
TenantRank(i, rows) == Cardinality({j \in rows : j >= i})

ListTenants(asked, page, size) ==
    LET rows == TenantsMatching(asked)
    IN  {i \in rows : OnPage(TenantRank(i, rows), Page(page), PageSize(size))}

-----------------------------------------------------------------------------
(* Properties *)

\* No two tenants have one name, although CreateTenant looks in a statement of
\* its own and takes an error for a free name, and UpdateTenant does not look.
TenantNamesDistinct ==
    \A i, j \in Existing : tenants[i].name = tenants[j].name => i = j

\* A step that ends a request on a tenant which has not changed since it was read
\* leaves the columns the request is not to change as they are.
TenantStepKeepsRest ==
    \A p \in Proc : \A i \in Existing :
        /\ treq[p].pc = "write" /\ treq'[p] # treq[p] /\ treq[p].id = i
        /\ treq[p].snap = tenants[i]
        => \A c \in {"name", "remark", "status"} \ treq[p].sets :
               tenants'[i][c] = tenants[i][c]

\* The pages of ListTenants up to the number of pages it answers hold every
\* tenant the filter lets through exactly once.
TenantPagesPartition ==
    \A asked \in {NULL, "active", "frozen"}, size \in {-1, 1, 2, MaxSize + 1} :
        LET rows  == TenantsMatching(asked)
            pages == 1..TotalPages(Cardinality(rows), PageSize(size))
        IN  \A i \in rows :
                Cardinality({k \in pages : i \in ListTenants(asked, k, size)}) = 1

=============================================================================
