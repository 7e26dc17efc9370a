-------------------------- MODULE ParkingLotService --------------------------
(***************************************************************************)
(* parking/service/parking_lot_service.go on the parking_lots table.  A    *)
(* lot is known by its place in the order of creation, as a tenant is in   *)
(* TenantService.  Address and lot type are columns like the name and left *)
(* out.                                                                    *)
(*                                                                         *)
(* The service itself never changes the number of occupied spaces; it is   *)
(* written so that somebody else does (Update keeps total - available).    *)
(* VehicleEnters and VehicleLeaves are that external writer.               *)
(***************************************************************************)
EXTENDS Integers, Sequences, FiniteSets, Pagination, Requests

CONSTANTS
    Owner,      \* tenants, as x-tenant-id names them
    LotName,
    MaxLots,    \* bound on the lots created
    MaxSpaces   \* largest total_spaces asked for

ASSUME MaxLotsAssumption == MaxLots \in Nat
ASSUME MaxSpacesAssumption == MaxSpaces \in Nat
ASSUME LotNullAssumption == NULL \notin LotName

ParkingLot == [tenantID  : Owner,
               name      : LotName,
               total     : 0..MaxSpaces,
               available : 0..MaxSpaces,
               status    : {"active", "inactive"}]

ASSUME LotRowAssumption == NULL \notin ParkingLot

VARIABLES
    lots,  \* the table: a row or NULL for every lot ever created
    lreq   \* what each goroutine is doing

lotVars == <<lots, lreq>>

LotRequest == [pc   : {"idle", "write"},
               id   : 0..MaxLots,
               copy : ParkingLot \cup {NULL},
               snap : ParkingLot \cup {NULL},
               sets : SUBSET {"name", "total", "status"}]

LotIdle == [pc |-> "idle", id |-> 0, copy |-> NULL, snap |-> NULL, sets |-> {}]

LotTypeOK ==
    /\ lots \in Seq(ParkingLot \cup {NULL}) /\ Len(lots) <= MaxLots
    /\ lreq \in [Proc -> LotRequest]

LotInit ==
    /\ lots = <<>>
    /\ lreq = [p \in Proc |-> LotIdle]

-----------------------------------------------------------------------------
(* repository/dao/parking_lot.go and domain/parking_lot.go *)

Lots == {i \in DOMAIN lots : lots[i] # NULL}

LotsOf(tenant) == {i \in Lots : lots[i].tenantID = tenant}

\* The unique index idx_tenant_name.
LotNameTaken(i, tenant, name) == \E j \in LotsOf(tenant) \ {i} : lots[j].name = name

NewParkingLot(tenant, name, total) ==
    [tenantID |-> tenant, name |-> name, total |-> total, available |-> total,
     status |-> "active"]

\* Activate and Deactivate refuse a lot that is there already; no status in the
\* request, or one that is not known, changes nothing.
StatusAllowed(row, asked) == asked # row.status

\* Mutant of TotalAllowed: the vehicles in the lot are forgotten.
TotalAllowedAny(row, total) == TRUE

\* ErrParkingLotInvalidCapacity: the occupied spaces must fit.
TotalAllowed(row, total) == total >= row.total - row.available

\* Mutant of Resized: a lot of a new size is empty.
ResizedEmpty(row, total) == [row EXCEPT !.total = total, !.available = total]

\* Mutant of Resized: the free spaces stay what they were.
ResizedOnly(row, total) == [row EXCEPT !.total = total]

\* The occupied spaces stay what they were.
Resized(row, total) ==
    [row EXCEPT !.total = total, !.available = total - (row.total - row.available)]

-----------------------------------------------------------------------------
(* grpc/parking_lot_server.go: what gets through to the service *)

\* total_spaces must be positive ...
CreateTotals == 1..MaxSpaces

\* ... to create a lot; an update may set it to 0, or not at all.
UpdateTotals == 0..MaxSpaces \cup {NULL}

-----------------------------------------------------------------------------
(* service/parking_lot_service.go *)

CreateParkingLot(p) ==
    /\ lreq[p].pc = "idle" /\ Len(lots) < MaxLots
    /\ \E tenant \in Owner, name \in LotName, total \in CreateTotals :
        /\ ~LotNameTaken(0, tenant, name)
        /\ lots' = Append(lots, NewParkingLot(tenant, name, total))
    /\ UNCHANGED lreq

\* GetByID has read row i, the checks have passed, the UPDATE is next.
UpdateParkingLot(p) ==
    /\ lreq[p].pc = "idle"
    /\ \E i \in Lots, name \in LotName \cup {NULL}, total \in UpdateTotals,
          status \in {"active", "inactive", NULL} :
        LET row   == lots[i]
            sized == IF total = NULL THEN row ELSE Resized(row, total)
        IN  /\ StatusAllowed(row, status)
            /\ total # NULL => TotalAllowed(row, total)
            /\ lreq' = [lreq EXCEPT ![p] =
                 [pc   |-> "write", id |-> i, snap |-> row,
                  copy |-> [sized EXCEPT !.name = IF name = NULL THEN @ ELSE name,
                                         !.status = IF status = NULL THEN @ ELSE status],
                  sets |-> {c \in {"name", "total", "status"} :
                              CASE c = "name" -> name # NULL
                                [] c = "total" -> total # NULL
                                [] OTHER -> status # NULL}]]
    /\ UNCHANGED lots

\* UPDATE of all columns WHERE tenant_id = ? AND id = ?
WriteParkingLot(p) ==
    /\ lreq[p].pc = "write"
    /\ LET i == lreq[p].id
           row == lreq[p].copy
       IN  /\ i \in LotsOf(row.tenantID) /\ ~LotNameTaken(i, row.tenantID, row.name)
           /\ lots' = [lots EXCEPT ![i] = row]
    /\ lreq' = [lreq EXCEPT ![p] = LotIdle]

\* DELETE ... WHERE tenant_id = ? AND id = ?; the lanes of the lot stay.
DeleteParkingLot(p) ==
    /\ lreq[p].pc = "idle"
    /\ \E i \in Lots : lots' = [lots EXCEPT ![i] = NULL]
    /\ UNCHANGED lreq

\* No row, a name in use, a failing database, or the end of the process.
LotFails(p) ==
    /\ lreq[p].pc # "idle"
    /\ lreq' = [lreq EXCEPT ![p] = LotIdle]
    /\ UNCHANGED lots

\* A vehicle takes a space, or leaves one.
VehicleEnters ==
    /\ \E i \in Lots : /\ lots[i].available > 0
                       /\ lots' = [lots EXCEPT ![i].available = @ - 1]
    /\ UNCHANGED lreq

VehicleLeaves ==
    /\ \E i \in Lots : /\ lots[i].available < lots[i].total
                       /\ lots' = [lots EXCEPT ![i].available = @ + 1]
    /\ UNCHANGED lreq

LotNext ==
    \/ \E p \in Proc :
        \/ CreateParkingLot(p) \/ UpdateParkingLot(p) \/ WriteParkingLot(p)
        \/ DeleteParkingLot(p) \/ LotFails(p)
    \/ VehicleEnters \/ VehicleLeaves

-----------------------------------------------------------------------------
(* Reading *)

\* The lots FindAll counts; no status means all.
LotsMatching(tenant, asked) ==
    {i \in LotsOf(tenant) : asked # NULL => lots[i].status = asked}

LotRank(i, rows) == Cardinality({j \in rows : j >= i})

ListParkingLots(tenant, asked, page, size) ==
    LET rows == LotsMatching(tenant, asked)
    IN  {i \in rows : OnPage(LotRank(i, rows), Page(page), PageSize(size))}

-----------------------------------------------------------------------------
(* Properties *)

\* A lot never has more free spaces than spaces, nor fewer than none, although
\* Update writes back a count that vehicles may have changed since it was read.
CapacityHolds == \A i \in Lots : lots[i].available \in 0..lots[i].total

\* A step that ends a request on a lot which has not changed since it was read
\* leaves the columns the request is not to change, and the number of occupied
\* spaces, as they are.
LotStepKeepsRest ==
    \A p \in Proc : \A i \in Lots :
        /\ lreq[p].pc = "write" /\ lreq'[p] # lreq[p] /\ lreq[p].id = i
        /\ lreq[p].snap = lots[i]
        => /\ \A c \in {"name", "total", "status"} \ lreq[p].sets :
                  lots'[i][c] = lots[i][c]
           /\ lots'[i].total - lots'[i].available = lots[i].total - lots[i].available

\* The pages of ListParkingLots hold every lot of the tenant that the filter
\* lets through exactly once.
LotPagesPartition ==
    \A tenant \in Owner, asked \in {NULL, "active", "inactive"}, size \in {-1, 1, 2, MaxSize + 1} :
        LET rows  == LotsMatching(tenant, asked)
            pages == 1..TotalPages(Cardinality(rows), PageSize(size))
        IN  \A i \in rows :
                Cardinality({k \in pages : i \in ListParkingLots(tenant, asked, k, size)}) = 1

=============================================================================
