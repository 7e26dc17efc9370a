---------------------------- MODULE DeviceService ----------------------------
(***************************************************************************)
(* iot/service/device_service.go on the devices table.  A method on one    *)
(* device is a SELECT with the checks of domain/device.go and, in a later  *)
(* statement, an UPDATE of every column or a DELETE.  A batch is the same  *)
(* in one transaction of InnoDB at REPEATABLE READ: its SELECTs see the    *)
(* table as it was when it began, its UPDATEs and DELETEs act on the       *)
(* newest rows and lock them until the end, and what it wrote is visible   *)
(* when it commits.                                                        *)
(*                                                                         *)
(* A request that is refused before it writes is no step.  Type, firmware, *)
(* heartbeat and timestamps are left out of a row.                         *)
(***************************************************************************)
EXTENDS Naturals, Sequences

CONSTANTS
    Proc,      \* goroutines serving device requests
    DeviceId,  \* serial numbers, chosen by the client
    Tenant,
    Name,
    Lot,       \* parking lots
    Gate,      \* lanes
    MaxBatch,  \* longest list of one batch request
    NULL       \* a SQL NULL, or no row

Status == {"pending", "active", "offline", "disabled"}

Row == [tenantID     : Tenant,
        name         : Name,
        status       : Status,
        parkingLotID : Lot \cup {NULL},
        gateID       : Gate \cup {NULL}]

ASSUME MaxBatchAssumption == MaxBatch \in Nat
ASSUME NullAssumption == NULL \notin Row /\ NULL \notin Lot \cup Gate

VARIABLES
    devices,  \* the committed table: a row, or NULL where the id is unused
    req       \* what each goroutine is doing

vars == <<devices, req>>

\* One write that is still to be done: a new row, or NULL for a DELETE.
Item == [id : DeviceId, row : Row \cup {NULL}]

Op == {"none", "name", "bind", "unbind", "disable", "enable", "delete"}

Request == [pc     : {"idle",
                      "write",  \* before the UPDATE or DELETE of a single method
                      "tx"},    \* in the transaction of a batch
            op     : Op,
            tenant : Tenant \cup {NULL},
            todo   : Seq(Item),
            snap   : [DeviceId -> Row \cup {NULL}],  \* the rows it read
            locked : SUBSET DeviceId,                \* the rows its transaction has written
            copy   : [DeviceId -> Row \cup {NULL}]]  \* and what it wrote there

None == [i \in DeviceId |-> NULL]

Idle == [pc |-> "idle", op |-> "none", tenant |-> NULL, todo |-> <<>>,
         snap |-> None, locked |-> {}, copy |-> None]

TypeOK ==
    /\ devices \in [DeviceId -> Row \cup {NULL}]
    /\ req \in [Proc -> Request]

Init ==
    /\ devices = None
    /\ req = [p \in Proc |-> Idle]

-----------------------------------------------------------------------------
(* domain/device.go: when a method succeeds, and the row it leaves. *)

\* Mutant of NewDevice: the status is left at its zero value.
NewDeviceBlank(tenant, name) ==
    [tenantID |-> tenant, name |-> name, status |-> NULL,
     parkingLotID |-> NULL, gateID |-> NULL]

NewDevice(tenant, name) ==
    [tenantID |-> tenant, name |-> name, status |-> "pending",
     parkingLotID |-> NULL, gateID |-> NULL]

IsBound(row) == row.parkingLotID # NULL

CanDisable(row) == row.status # "disabled"
Disabled(row) == [row EXCEPT !.status = "disabled"]

CanEnable(row) == row.status = "disabled"
Enabled(row) == [row EXCEPT !.status = "active"]

\* Mutant of Bound: binding does not activate a device.
BoundKeepingStatus(row, lot, gate) ==
    [row EXCEPT !.parkingLotID = lot, !.gateID = gate]

Bound(row, lot, gate) ==
    [row EXCEPT !.parkingLotID = lot, !.gateID = gate,
                !.status = IF @ = "pending" THEN "active" ELSE @]

\* Mutant of Unbound: an unbound device is as good as new.
UnboundPending(row) ==
    [row EXCEPT !.parkingLotID = NULL, !.gateID = NULL, !.status = "pending"]

Unbound(row) == [row EXCEPT !.parkingLotID = NULL, !.gateID = NULL]

-----------------------------------------------------------------------------
(* repository/dao/device.go *)

\* The rows FindByID finds for a tenant.
Find(tenant) == {i \in DeviceId : devices[i] # NULL /\ devices[i].tenantID = tenant}

\* Mutant of Matches: WHERE id = ? alone.
MatchesAnyTenant(tenant, i) == devices[i] # NULL

\* WHERE tenant_id = ? AND id = ? of UPDATE and DELETE.
Matches(tenant, i) == devices[i] # NULL /\ devices[i].tenantID = tenant

\* Row i is locked by a transaction other than p's.
Locked(p, i) == \E q \in Proc \ {p} : i \in req[q].locked

\* Mutant of Return: an error path that leaves the transaction open.
ReturnKeepingLocks(p) == req' = [req EXCEPT ![p] = [Idle EXCEPT !.locked = req[p].locked]]

Return(p) == req' = [req EXCEPT ![p] = Idle]

-----------------------------------------------------------------------------
(* Methods on one device. *)

\* INSERT; the id is the primary key over all tenants.
Create(p) ==
    /\ req[p].pc = "idle"
    /\ \E i \in DeviceId, tenant \in Tenant, name \in Name :
        /\ devices[i] = NULL /\ ~Locked(p, i)
        /\ devices' = [devices EXCEPT ![i] = NewDevice(tenant, name)]
    /\ UNCHANGED req

\* GetByID has read row i, the checks have passed, row is to be written.
Load(p, op, tenant, i, row) ==
    /\ req[p].pc = "idle"
    /\ req' = [req EXCEPT ![p] =
                [pc |-> "write", op |-> op, tenant |-> tenant,
                 todo |-> <<[id |-> i, row |-> row]>>,
                 snap |-> [None EXCEPT ![i] = devices[i]],
                 locked |-> {}, copy |-> None]]
    /\ UNCHANGED devices

UpdateName(p) ==
    \E tenant \in Tenant : \E i \in Find(tenant), name \in Name :
        Load(p, "name", tenant, i, [devices[i] EXCEPT !.name = name])

Bind(p) ==
    \E tenant \in Tenant : \E i \in Find(tenant), lot \in Lot, gate \in Gate :
        /\ ~IsBound(devices[i])
        /\ Load(p, "bind", tenant, i, Bound(devices[i], lot, gate))

Unbind(p) ==
    \E tenant \in Tenant : \E i \in Find(tenant) :
        /\ IsBound(devices[i])
        /\ Load(p, "unbind", tenant, i, Unbound(devices[i]))

Disable(p) ==
    \E tenant \in Tenant : \E i \in Find(tenant) :
        /\ CanDisable(devices[i])
        /\ Load(p, "disable", tenant, i, Disabled(devices[i]))

Enable(p) ==
    \E tenant \in Tenant : \E i \in Find(tenant) :
        /\ CanEnable(devices[i])
        /\ Load(p, "enable", tenant, i, Enabled(devices[i]))

Delete(p) ==
    \E tenant \in Tenant : \E i \in Find(tenant) :
        /\ ~IsBound(devices[i])
        /\ Load(p, "delete", tenant, i, NULL)

\* The UPDATE or DELETE that ends a method; it waits for a lock.
Write(p) ==
    /\ req[p].pc = "write"
    /\ LET item == Head(req[p].todo) IN
        /\ ~Locked(p, item.id) /\ Matches(req[p].tenant, item.id)
        /\ devices' = [devices EXCEPT ![item.id] = item.row]
    /\ Return(p)

-----------------------------------------------------------------------------
(* Batches. *)

\* The transaction of a batch begins: all its reads see the table of this
\* moment, and all its checks have passed there.
Begin(p, op, tenant, items) ==
    /\ req[p].pc = "idle"
    /\ req' = [req EXCEPT ![p] =
                [pc |-> "tx", op |-> op, tenant |-> tenant, todo |-> items,
                 snap |-> [i \in DeviceId |->
                             IF \E k \in DOMAIN items : items[k].id = i
                             THEN devices[i] ELSE NULL],
                 locked |-> {}, copy |-> None]]
    /\ UNCHANGED devices

\* The lists of devices of a tenant.
Lists(tenant) == UNION {[1..n -> Find(tenant)] : n \in 1..MaxBatch}

\* A second read of a device sees the batch's own write and is refused.
NoRepeats(ids) == \A j, k \in DOMAIN ids : ids[j] = ids[k] => j = k

BatchDisable(p) ==
    \E tenant \in Tenant : \E ids \in Lists(tenant) :
        /\ NoRepeats(ids) /\ \A k \in DOMAIN ids : CanDisable(devices[ids[k]])
        /\ Begin(p, "disable", tenant,
                 [k \in DOMAIN ids |-> [id |-> ids[k], row |-> Disabled(devices[ids[k]])]])

BatchEnable(p) ==
    \E tenant \in Tenant : \E ids \in Lists(tenant) :
        /\ NoRepeats(ids) /\ \A k \in DOMAIN ids : CanEnable(devices[ids[k]])
        /\ Begin(p, "enable", tenant,
                 [k \in DOMAIN ids |-> [id |-> ids[k], row |-> Enabled(devices[ids[k]])]])

\* Mutant of BatchDelete: the devices are not looked at.
BatchDeleteUnchecked(p) ==
    \E tenant \in Tenant : \E ids \in Lists(tenant) :
        /\ NoRepeats(ids)
        /\ Begin(p, "delete", tenant,
                 [k \in DOMAIN ids |-> [id |-> ids[k], row |-> NULL]])

BatchDelete(p) ==
    \E tenant \in Tenant : \E ids \in Lists(tenant) :
        /\ NoRepeats(ids) /\ \A k \in DOMAIN ids : ~IsBound(devices[ids[k]])
        /\ Begin(p, "delete", tenant,
                 [k \in DOMAIN ids |-> [id |-> ids[k], row |-> NULL]])

\* All reads come before the first write, so a device may be listed twice.
BatchBind(p) ==
    \E tenant \in Tenant : \E ids \in Lists(tenant) :
    \E lots \in [DOMAIN ids -> Lot], gates \in [DOMAIN ids -> Gate] :
        /\ \A k \in DOMAIN ids : ~IsBound(devices[ids[k]])
        /\ Begin(p, "bind", tenant,
                 [k \in DOMAIN ids |->
                    [id |-> ids[k], row |-> Bound(devices[ids[k]], lots[k], gates[k])]])

\* Mutant of TxWrite: s.repo in place of txRepo, every write commits by itself.
TxWriteOutside(p) ==
    /\ req[p].pc = "tx" /\ req[p].todo # <<>>
    /\ LET item == Head(req[p].todo) IN
        /\ ~Locked(p, item.id) /\ Matches(req[p].tenant, item.id)
        /\ devices' = [devices EXCEPT ![item.id] = item.row]
    /\ req' = [req EXCEPT ![p].todo = Tail(@)]

\* The next UPDATE or DELETE of a batch.
TxWrite(p) ==
    /\ req[p].pc = "tx" /\ req[p].todo # <<>>
    /\ LET item == Head(req[p].todo) IN
        /\ ~Locked(p, item.id) /\ Matches(req[p].tenant, item.id)
        /\ req' = [req EXCEPT ![p] =
                    [req[p] EXCEPT !.todo = Tail(req[p].todo),
                                   !.locked = req[p].locked \cup {item.id},
                                   !.copy = [req[p].copy EXCEPT ![item.id] = item.row]]]
    /\ UNCHANGED devices

Commit(p) ==
    /\ req[p].pc = "tx" /\ req[p].todo = <<>>
    /\ devices' = [i \in DeviceId |->
                     IF i \in req[p].locked THEN req[p].copy[i] ELSE devices[i]]
    /\ Return(p)

\* No row matches, the database fails, or InnoDB ends a deadlock: the method
\* returns the error, the transaction is rolled back.
Fail(p) ==
    /\ req[p].pc # "idle"
    /\ Return(p) /\ UNCHANGED devices

Crash ==
    /\ req' = [p \in Proc |-> Idle]
    /\ UNCHANGED devices

Next ==
    \/ \E p \in Proc :
        \/ Create(p) \/ UpdateName(p) \/ Bind(p) \/ Unbind(p)
        \/ Disable(p) \/ Enable(p) \/ Delete(p) \/ Write(p)
        \/ BatchDisable(p) \/ BatchEnable(p) \/ BatchDelete(p) \/ BatchBind(p)
        \/ TxWrite(p) \/ Commit(p) \/ Fail(p)
    \/ Crash

Spec == Init /\ [][Next]_vars

-----------------------------------------------------------------------------
(* Properties *)

\* domain/device.go: a device has a lot exactly if it has a gate, and a bound
\* device has left the pending state.
Coherent(row) ==
    /\ row.parkingLotID = NULL <=> row.gateID = NULL
    /\ row.status = "pending" => ~IsBound(row)

\* However requests overlap, no row mixes columns of two of them: Update writes
\* all columns of one consistent copy.
RowsCoherent == \A i \in DeviceId : devices[i] # NULL => Coherent(devices[i])

\* Request p makes this step and it changes row i.
Changes(p, i) == req[p].pc # "idle" /\ req'[p] # req[p] /\ devices'[i] # devices[i]

\* A request changes rows of its own tenant only, also when the device it read
\* was deleted and registered by another tenant before it writes.
TenantIsolation ==
    [][\A p \in Proc, i \in DeviceId : Changes(p, i) =>
        /\ devices[i] # NULL /\ devices[i].tenantID = req[p].tenant
        /\ devices'[i] # NULL => devices'[i].tenantID = req[p].tenant]_vars

\* A batch shows its changes at one moment, and then for every device it read;
\* one that fails or is interrupted leaves nothing behind.
AllOrNothing ==
    [][\A p \in Proc : req[p].pc = "tx" /\ (\E i \in DeviceId : Changes(p, i)) =>
        \A i \in DeviceId : req[p].snap[i] # NULL =>
            i \in req[p].locked /\ devices'[i] = req[p].copy[i]]_vars

\* The columns an operation is about.
Same(columns, r, s) == \A c \in columns : r[c] = s[c]

Untouched(op) ==
    CASE op = "name" -> {"status", "parkingLotID", "gateID"}
      [] op = "bind" -> {"name"}
      [] op = "unbind" -> {"name", "status"}
      [] OTHER -> {"name", "parkingLotID", "gateID"}

\* An operation leaves the columns it is not about as they are, unless the row
\* changed between its SELECT and its write.
OnlyOvertakenUndo ==
    [][\A p \in Proc, i \in DeviceId :
        Changes(p, i) /\ devices'[i] # NULL /\ req[p].snap[i] = devices[i]
        => Same(Untouched(req[p].op), devices[i], devices'[i])]_vars

\* Delete and BatchDelete remove a bound device only if it was bound after they
\* looked.
DeletedBoundOnlyWhenOvertaken ==
    [][\A p \in Proc, i \in DeviceId :
        Changes(p, i) /\ devices'[i] = NULL /\ req[p].snap[i] = devices[i]
        => ~IsBound(devices[i])]_vars

\* The next write of p is to a row that q has locked.
WaitsFor(p, q) == p # q /\ req[p].todo # <<>> /\ Head(req[p].todo).id \in req[q].locked

\* A request that waits for a row waits for a batch whose transaction is open.
\* So a circle of waiting requests, which batches that list devices in different
\* orders can form, consists of batches alone, and rolling back one of them, as
\* InnoDB does, lets another go on; nobody waits for a request that is over.
WaitsForOpenBatch == \A p, q \in Proc : WaitsFor(p, q) => req[q].pc = "tx"

=============================================================================
