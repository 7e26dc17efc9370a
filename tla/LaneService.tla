----------------------------- MODULE LaneService -----------------------------
(***************************************************************************)
(* parking/service/lane_service.go: UpdateLanes saves the lane             *)
(* configuration of a lot in many statements and without a transaction,    *)
(* on the lanes table and, through the device service in the same process, *)
(* on the devices table (DeviceService).  Other goroutines save lanes or   *)
(* bind, unbind and delete devices at the same time.                       *)
(*                                                                         *)
(* The inputs of a request are chosen as its loop reaches them, except the *)
(* lane ids among them, which phase 1 needs.  The lane type and timestamps *)
(* are left out: UpdateLanes never changes the type of a lane.             *)
(***************************************************************************)
EXTENDS Naturals, FiniteSets

CONSTANTS
    Proc,      \* goroutines serving requests
    LaneId,    \* uuids of lanes; their number bounds the lanes created
    LaneName,
    DeviceId,
    Tenant,
    Lot,
    NULL

Lane == [tenantID     : Tenant,
         parkingLotID : Lot,
         name         : LaneName,
         deviceID     : DeviceId \cup {NULL}]

ASSUME LaneNullAssumption == NULL \notin Lane \cup Tenant \cup Lot \cup LaneId \cup DeviceId

VARIABLES
    devices,  \* of DeviceService
    req,      \* of DeviceService: a goroutine's call of the device service
    lanes,    \* the lanes table
    used,     \* the lane ids given out
    upd,      \* each goroutine's UpdateLanes
    clean     \* goroutines whose UpdateLanes began in agreement (Agree), met no
              \* failing statement and saw nobody else write

laneVars == <<lanes, used, upd>>
vars == <<devices, req, lanes, used, upd, clean>>

D == INSTANCE DeviceService WITH Name <- {"device"}, Gate <- LaneId, MaxBatch <- 1

ASSUME DeviceNullAssumption == NULL \notin D!Row

Job == [pc      : {"idle",
                   "loop",    \* between two rounds of a loop
                   "erase",   \* before the DELETE
                   "insert",  \* before the INSERT
                   "bind",    \* before the call of Bind
                   "save"},   \* before the UPDATE
        tenant  : Tenant \cup {NULL},
        lot     : Lot \cup {NULL},
        current : [LaneId -> Lane \cup {NULL}],  \* currentMap
        keep    : SUBSET LaneId,                 \* requestIDs
        todo    : SUBSET LaneId,                 \* those whose input is still to come
        made    : SUBSET LaneId,                 \* the lanes it created
        lane    : LaneId \cup {NULL},            \* the lane at hand,
        row     : Lane \cup {NULL},              \* its copy in memory
        device  : DeviceId \cup {NULL},          \* and the device asked for
        ok      : BOOLEAN]                       \* the last call of the device service succeeded

NoLanes == [l \in LaneId |-> NULL]

Done == [pc |-> "idle", tenant |-> NULL, lot |-> NULL, current |-> NoLanes,
         keep |-> {}, todo |-> {}, made |-> {}, lane |-> NULL, row |-> NULL,
         device |-> NULL, ok |-> FALSE]

TypeOK ==
    /\ D!TypeOK
    /\ lanes \in [LaneId -> Lane \cup {NULL}]
    /\ used \in SUBSET LaneId
    /\ upd \in [Proc -> Job]
    /\ clean \in SUBSET Proc

\* Every device has been registered.
Init ==
    /\ devices \in [DeviceId -> {D!NewDevice(t, "device") : t \in Tenant}]
    /\ req = [p \in Proc |-> D!Idle]
    /\ lanes = NoLanes /\ used = {}
    /\ upd = [p \in Proc |-> Done]
    /\ clean = {}

-----------------------------------------------------------------------------
(* repository/dao/lane.go and domain/lane.go *)

LanesOf(tenant, lot) ==
    {l \in LaneId : lanes[l] # NULL /\ lanes[l].tenantID = tenant /\ lanes[l].parkingLotID = lot}

\* ExistsByName, over all tenants.
ExistsByName(lot, name) ==
    \E l \in LaneId : lanes[l] # NULL /\ lanes[l].parkingLotID = lot /\ lanes[l].name = name

\* The unique index idx_lane_lot_name.
Duplicate(l, row) ==
    \E m \in LanesOf(row.tenantID, row.parkingLotID) \ {l} : lanes[m].name = row.name

NewLane(tenant, lot, name) ==
    [tenantID |-> tenant, parkingLotID |-> lot, name |-> name, deviceID |-> NULL]

SetDevice(row, d) == [row EXCEPT !.deviceID = d]

\* Mutant of ClearDevice: a pointer to an empty string.
ClearDeviceEmpty(row) == [row EXCEPT !.deviceID = ""]

ClearDevice(row) == [row EXCEPT !.deviceID = NULL]

\* Mutant of Updatable: Save in place of Updates, which inserts a missing row.
UpdatableAlways(l, row) == ~Duplicate(l, row)

\* UPDATE ... WHERE tenant_id = ? AND id = ? finds the row.
Updatable(l, row) ==
    /\ lanes[l] # NULL /\ lanes[l].tenantID = row.tenantID
    /\ ~Duplicate(l, row)

-----------------------------------------------------------------------------
(* Calls of the device service: the SELECT; DeviceWrites or DeviceFails follow. *)

CallUnbind(p, d) ==
    LET tenant == upd[p].tenant IN
    IF d \in D!Find(tenant) /\ D!IsBound(devices[d])
    THEN D!Load(p, "unbind", tenant, d, D!Unbound(devices[d]))
    ELSE UNCHANGED <<devices, req>>

CallBind(p, d, gate) ==
    LET tenant == upd[p].tenant IN
    IF d \in D!Find(tenant) /\ ~D!IsBound(devices[d])
    THEN D!Load(p, "bind", tenant, d, D!Bound(devices[d], upd[p].lot, gate))
    ELSE UNCHANGED <<devices, req>>

\* p is at pc and no call of the device service is under way.
At(p, pc) == upd[p].pc = pc /\ req[p].pc = "idle"

\* What UpdateLanes of grpc/lane_server.go passes on: an empty device_id is none.
DeviceAsked == DeviceId \cup {NULL}

\* The next round of the loop.
Loop(u) == [u EXCEPT !.pc = "loop", !.lane = NULL, !.row = NULL, !.device = NULL, !.ok = FALSE]

-----------------------------------------------------------------------------
(* service/lane_service.go, UpdateLanes *)

\* Load current state.
UpdateLanes(p) ==
    /\ At(p, "idle")
    /\ \E tenant \in Tenant, lot \in Lot, keep \in SUBSET used :
        upd' = [upd EXCEPT ![p] =
                 [Done EXCEPT !.pc = "loop", !.tenant = tenant, !.lot = lot,
                              !.current = [l \in LaneId |-> IF l \in LanesOf(tenant, lot)
                                                            THEN lanes[l] ELSE NULL],
                              !.keep = keep, !.todo = keep]]
    /\ UNCHANGED <<devices, req, lanes, used>>

\* Mutant of Dropped: a lane without a device is overlooked.
DroppedWithDevice(u) ==
    {l \in LaneId \ u.keep : u.current[l] # NULL /\ u.current[l].deviceID # NULL}

\* The lanes phase 1 has still to delete.
Dropped(u) == {l \in LaneId \ u.keep : u.current[l] # NULL}

\* Phase 1, in the order of a Go map.
DropLane(p) ==
    /\ At(p, "loop")
    /\ \E l \in Dropped(upd[p]) :
        LET d == upd[p].current[l].deviceID IN
        /\ upd' = [upd EXCEPT ![p].pc = "erase", ![p].lane = l]
        /\ IF d = NULL THEN UNCHANGED <<devices, req>> ELSE CallUnbind(p, d)
    /\ UNCHANGED <<lanes, used>>

EraseLane(p) ==
    /\ At(p, "erase")
    /\ LET l == upd[p].lane IN
        /\ lanes[l] # NULL /\ lanes[l].tenantID = upd[p].tenant
        /\ lanes' = [lanes EXCEPT ![l] = NULL]
        /\ upd' = [upd EXCEPT ![p] = [Loop(@) EXCEPT !.current[l] = NULL]]
    /\ UNCHANGED <<devices, req, used>>

Phase2(p) == At(p, "loop") /\ Dropped(upd[p]) = {}

\* Phase 2, an input without an id.
CreateInput(p) ==
    /\ Phase2(p) /\ used # LaneId
    /\ \E name \in LaneName, d \in DeviceAsked :
        /\ ~ExistsByName(upd[p].lot, name)
        /\ upd' = [upd EXCEPT ![p].pc = "insert", ![p].device = d,
                              ![p].row = NewLane(upd[p].tenant, upd[p].lot, name)]
    /\ UNCHANGED <<devices, req, lanes, used>>

InsertLane(p) ==
    /\ At(p, "insert") /\ ~Duplicate(NULL, upd[p].row)
    /\ \E l \in LaneId \ used :
        LET u == [upd[p] EXCEPT !.made = @ \cup {l}, !.lane = l] IN
        /\ lanes' = [lanes EXCEPT ![l] = u.row]
        /\ used' = used \cup {l}
        /\ upd' = [upd EXCEPT ![p] = IF u.device = NULL THEN Loop(u) ELSE [u EXCEPT !.pc = "bind"]]
    /\ UNCHANGED <<devices, req>>

\* Phase 2, an input with the id of a lane.  The lane has no device in memory
\* until a new one is bound.
UpdateInput(p) ==
    /\ Phase2(p)
    /\ \E l \in upd[p].keep, name \in LaneName, d \in DeviceAsked :
        /\ upd[p].current[l] # NULL
        /\ LET row == [upd[p].current[l] EXCEPT !.name = name]
               at(pc, r) == upd' = [upd EXCEPT ![p].pc = pc, ![p].lane = l, ![p].row = r,
                                               ![p].device = d, ![p].todo = @ \ {l}]
           IN  IF row.deviceID = d
               THEN at("save", row) /\ UNCHANGED <<devices, req>>
               ELSE /\ at(IF d = NULL THEN "save" ELSE "bind", ClearDevice(row))
                    /\ IF row.deviceID = NULL
                       THEN UNCHANGED <<devices, req>> ELSE CallUnbind(p, row.deviceID)
    /\ UNCHANGED <<lanes, used>>

BindDevice(p) ==
    /\ At(p, "bind")
    /\ CallBind(p, upd[p].device, upd[p].lane)
    /\ upd' = [upd EXCEPT ![p].pc = "save", ![p].ok = FALSE]
    /\ UNCHANGED <<lanes, used>>

\* Mutant of Saved: the result of Bind is not looked at.
SavedRegardless(u) == SetDevice(u.row, u.device)

\* The lane as the UPDATE is to write it.
Saved(u) == IF u.ok THEN SetDevice(u.row, u.device) ELSE u.row

\* A new lane that got no device is not written again.
NothingToSave(u) == u.lane \in u.made /\ ~u.ok

SaveLane(p) ==
    /\ At(p, "save") /\ ~NothingToSave(upd[p])
    /\ LET l   == upd[p].lane
           row == Saved(upd[p])
       IN  /\ Updatable(l, row)
           /\ lanes' = [lanes EXCEPT ![l] = row]
           /\ upd' = [upd EXCEPT ![p] =
                        IF l \in upd[p].made THEN Loop(@) ELSE [Loop(@) EXCEPT !.current[l] = row]]
    /\ UNCHANGED <<devices, req, used>>

SkipSave(p) ==
    /\ At(p, "save") /\ NothingToSave(upd[p])
    /\ upd' = [upd EXCEPT ![p] = Loop(@)]
    /\ UNCHANGED <<devices, req, lanes, used>>

\* The error of the UPDATE that gives a new lane its device is dropped.
SaveIgnored(p) ==
    /\ At(p, "save") /\ upd[p].lane \in upd[p].made /\ upd[p].ok
    /\ upd' = [upd EXCEPT ![p] = Loop(@)]
    /\ UNCHANGED <<devices, req, lanes, used>>

\* Reload final state.
Finish(p) ==
    /\ Phase2(p) /\ upd[p].todo = {}
    /\ upd' = [upd EXCEPT ![p] = Done]
    /\ UNCHANGED <<devices, req, lanes, used>>

\* UpdateLanes returns an error and leaves what it has written: a failing
\* statement, no row, a name in use, an id that is not in currentMap, or the end
\* of the process.
LaneFails(p) ==
    /\ upd[p].pc # "idle" /\ req[p].pc = "idle"
    /\ upd' = [upd EXCEPT ![p] = Done]
    /\ UNCHANGED <<devices, req, lanes, used>>

-----------------------------------------------------------------------------
(* The device service at work: for UpdateLanes, or for a client. *)

DeviceWrites(p) ==
    /\ upd[p].pc # "idle" /\ D!Write(p)
    /\ upd' = [upd EXCEPT ![p].ok = TRUE]
    /\ UNCHANGED <<lanes, used>>

DeviceFails(p) ==
    /\ upd[p].pc # "idle" /\ D!Fail(p)
    /\ UNCHANGED laneVars

DeviceRequest(p) ==
    /\ upd[p].pc = "idle"
    /\ \/ D!Bind(p) \/ D!Unbind(p) \/ D!Delete(p) \/ D!Write(p) \/ D!Fail(p)
    /\ UNCHANGED laneVars

-----------------------------------------------------------------------------
\* The two tables tell the same: lane l names device d exactly if d is bound to l.
Agree ==
    \A l \in LaneId, d \in DeviceId :
        (lanes[l] # NULL /\ lanes[l].deviceID = d)
        <=> (devices[d] # NULL /\ devices[d].gateID = l)

Unharmed(p) == {q \in clean : q = p \/ UNCHANGED <<devices, lanes>>}

Next ==
    \E p \in Proc :
        \/ UpdateLanes(p) /\ clean' = IF Agree THEN clean \cup {p} ELSE clean
        \/ /\ \/ DropLane(p) \/ EraseLane(p) \/ CreateInput(p) \/ InsertLane(p)
              \/ UpdateInput(p) \/ BindDevice(p) \/ SaveLane(p) \/ SkipSave(p)
              \/ DeviceWrites(p) \/ DeviceRequest(p)
           /\ clean' = Unharmed(p)
        \/ /\ SaveIgnored(p) \/ Finish(p) \/ LaneFails(p) \/ DeviceFails(p)
           /\ clean' = clean \ {p}

Spec == Init /\ [][Next]_vars

-----------------------------------------------------------------------------
(* Properties *)

\* After each lane it saves or deletes, an UpdateLanes that nothing has disturbed
\* leaves the two tables in agreement, although it writes them in turn, a device
\* may be asked for by two lanes, and the results of Unbind and Bind are only
\* logged.
CleanUpdateAgrees ==
    \A p \in clean : upd[p].pc = "loop" => Agree

\* When such an UpdateLanes reloads, the lot has the lanes the request lists and
\* the ones it asked to create, and no others.
CleanUpdateExact ==
    \A p \in clean :
        Phase2(p) /\ upd[p].todo = {}
        => LanesOf(upd[p].tenant, upd[p].lot) = upd[p].keep \cup upd[p].made

\* A lane that was deleted does not come back: an UpdateLanes that still has it
\* in its currentMap fails instead of writing it.
DeletedStaysDeleted ==
    [][\A l \in used : lanes[l] = NULL => lanes'[l] = NULL]_vars

=============================================================================
