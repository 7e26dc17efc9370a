-------------------------- MODULE LaneServiceProofs --------------------------
(***************************************************************************)
(* UpdateLanes of lane_service.go, for any number of requests, lanes,      *)
(* devices, tenants and lots.                                              *)
(*                                                                         *)
(* An UpdateLanes that nothing has disturbed knows both tables: currentMap *)
(* has the lanes of its lot that it did not create itself, as they are,    *)
(* and the two tables agree but for the lane at hand, where the devices    *)
(* bound are those the next UPDATE is going to write (CleanOK).  What it   *)
(* calls Unbind for is found, because a lane only names devices of its own *)
(* tenant (RowOwned), which every UpdateLanes, disturbed or not, keeps     *)
(* true (JobOK).                                                           *)
(***************************************************************************)
EXTENDS LaneService, Sequences, TLAPS

\* If there is a device d, it belongs to tenant.
Owned(d, tenant) == devices[d] # NULL => devices[d].tenantID = tenant

RowOwned(row) == row.deviceID # NULL => Owned(row.deviceID, row.tenantID)

\* What the UPDATE or DELETE of device request r is going to write.
Item(r) == Head(r.todo)

DevicesOK ==
    /\ devices \in [DeviceId -> D!Row \cup {NULL}]
    /\ \A d \in DeviceId : devices[d] # NULL => D!Coherent(devices[d])
    /\ req \in [Proc -> D!Request]
    /\ \A p \in Proc : req[p].pc = "write" =>
        /\ Item(req[p]) \in D!Item
        /\ Item(req[p]).row # NULL => /\ D!Coherent(Item(req[p]).row)
                                      /\ Item(req[p]).row.tenantID = req[p].tenant

LanesOK ==
    /\ lanes \in [LaneId -> Lane \cup {NULL}]
    /\ used \in SUBSET LaneId
    /\ clean \in SUBSET Proc
    /\ \A l \in LaneId : lanes[l] # NULL => l \in used /\ RowOwned(lanes[l])

\* row is a lane of the lot UpdateLanes u is about.
Mine(u, row) ==
    /\ row \in Lane /\ RowOwned(row)
    /\ row.tenantID = u.tenant /\ row.parkingLotID = u.lot

\* What u knows of its lot.
JobBase(u) ==
    /\ u \in Job
    /\ u.pc # "idle" => u.tenant \in Tenant /\ u.lot \in Lot
    /\ u.keep \subseteq used /\ u.made \subseteq used
    /\ u.todo \subseteq u.keep /\ u.keep \cap u.made = {}
    /\ \A l \in LaneId : u.current[l] # NULL => Mine(u, u.current[l])

\* Where u is, and its call r of the device service.
JobAt(u, r) ==
    /\ u.pc # "idle" => r.pc \in {"idle", "write"}
    /\ u.pc \in {"loop", "insert"} => r.pc = "idle" /\ ~u.ok
    /\ u.pc = "erase" => u.lane \in LaneId \ u.keep /\ u.current[u.lane] # NULL
    /\ u.pc \in {"bind", "save"} =>
            u.lane \in u.made \/ (u.lane \in u.keep /\ u.current[u.lane] # NULL)
    /\ u.pc \in {"insert", "bind", "save"} => Mine(u, u.row)
    /\ u.pc \in {"insert", "bind"} => u.row.deviceID = NULL
    /\ u.pc = "bind" => u.device \in DeviceId
    /\ u.pc # "idle" /\ r.pc = "write" =>
            /\ r.tenant = u.tenant
            /\ u.pc = "save" => u.device = NULL \/ Item(r).id = u.device
    /\ u.pc = "save" /\ u.ok /\ u.device # NULL => Owned(u.device, u.tenant)

JobOK(u, r) == JobBase(u) /\ JobAt(u, r)

-----------------------------------------------------------------------------
(* An UpdateLanes that nothing has disturbed *)

\* The devices bound to lane l.
BoundTo(l) == {d \in DeviceId : devices[d] # NULL /\ devices[d].gateID = l}

\* Row l of the lanes table and the devices table tell the same.
AgreeOn(l) ==
    \A d \in DeviceId : (lanes[l] # NULL /\ lanes[l].deviceID = d) <=> d \in BoundTo(l)

AgreeBut(l) == \A m \in LaneId : m # l => AgreeOn(m)

\* The call under way is of Unbind, for the device of the lane, ...
Unbinds(u, r) ==
    /\ Item(r).row \in D!Row /\ Item(r).row.gateID = NULL
    /\ BoundTo(u.lane) = {Item(r).id}
    /\ u.pc = "save" => u.device = NULL

\* ... or of Bind, for one that is not bound.
Binds(u, r) ==
    /\ u.pc = "save"
    /\ Item(r).row \in D!Row /\ Item(r).row.gateID = u.lane
    /\ BoundTo(u.lane) = {}
    /\ Item(r).id = u.device
    /\ devices[u.device] # NULL => devices[u.device].gateID = NULL

LotOK(u) ==
    /\ \A l \in LaneId : u.current[l] # NULL <=> l \in LanesOf(u.tenant, u.lot) \ u.made
    /\ \A l \in LaneId : u.current[l] # NULL => u.current[l] = lanes[l]
    /\ u.made \subseteq LanesOf(u.tenant, u.lot)
    /\ \A l \in u.keep \ u.todo : u.current[l] # NULL

TablesOK(u, r) ==
    /\ u.pc \in {"loop", "insert"} => Agree
    /\ u.pc \in {"erase", "bind", "save"} => AgreeBut(u.lane)
    /\ u.pc \in {"bind", "save"} /\ u.lane \in u.made =>
            lanes[u.lane].deviceID = NULL /\ u.row.deviceID = NULL
    /\ u.pc \in {"erase", "bind"} /\ r.pc = "idle" => BoundTo(u.lane) = {}
    /\ u.pc = "save" /\ r.pc = "idle" =>
            \A d \in DeviceId : d \in BoundTo(u.lane) <=> Saved(u).deviceID = d
    /\ r.pc = "write" => Unbinds(u, r) \/ Binds(u, r)

CleanOK(u, r) == u.pc # "idle" /\ LotOK(u) /\ TablesOK(u, r)

LaneInv ==
    /\ DevicesOK
    /\ LanesOK
    /\ upd \in [Proc -> Job]
    /\ \A p \in Proc : JobOK(upd[p], req[p])
    /\ \A p \in clean : CleanOK(upd[p], req[p])

-----------------------------------------------------------------------------
(* The device service *)

\* No step registers a device or gives one to another tenant.
Steady ==
    \A d \in DeviceId : devices'[d] # NULL =>
        devices[d] # NULL /\ devices'[d].tenantID = devices[d].tenantID

\* The domain methods leave a consistent row of the same tenant.
LEMMA Methods ==
    ASSUME NEW row \in D!Row, D!Coherent(row)
    PROVE  /\ D!Unbound(row) \in D!Row /\ D!Coherent(D!Unbound(row))
           /\ D!Unbound(row).tenantID = row.tenantID /\ D!Unbound(row).gateID = NULL
           /\ \A lot \in Lot, l \in LaneId :
                /\ D!Bound(row, lot, l) \in D!Row /\ D!Coherent(D!Bound(row, lot, l))
                /\ D!Bound(row, lot, l).tenantID = row.tenantID
                /\ D!Bound(row, lot, l).gateID = l
  BY LaneNullAssumption
  DEF D!Row, D!Status, D!Coherent, D!IsBound, D!Unbound, D!Bound

\* A goroutine without a call.
LEMMA IdleOK == D!Idle \in D!Request /\ D!Idle.pc = "idle"
  BY DEF D!Idle, D!Request, D!None, D!Op

\* The SELECT of a method on one device.
LEMMA LoadOK ==
    ASSUME DevicesOK, NEW p \in Proc, NEW op \in D!Op, NEW tenant \in Tenant,
           NEW d \in DeviceId, NEW row \in D!Row \cup {NULL},
           row # NULL => D!Coherent(row) /\ row.tenantID = tenant,
           D!Load(p, op, tenant, d, row)
    PROVE  /\ DevicesOK' /\ UNCHANGED devices
           /\ \A q \in Proc : q # p => req'[q] = req[q]
           /\ req'[p].pc = "write" /\ req'[p].tenant = tenant
           /\ Item(req'[p]).id = d /\ Item(req'[p]).row = row
  <1> DEFINE it == [id |-> d, row |-> row]
             r == [pc |-> "write", op |-> op, tenant |-> tenant, todo |-> <<it>>,
                   snap |-> [D!None EXCEPT ![d] = devices[d]],
                   locked |-> {}, copy |-> D!None]
  <1>1. it \in D!Item /\ it.id = d /\ it.row = row
    BY DEF D!Item
  <1>2. req' = [req EXCEPT ![p] = r] /\ UNCHANGED devices
    BY DEF D!Load
  <1> HIDE DEF it
  <1>3. <<it>> \in Seq(D!Item) /\ Head(<<it>>) = it
    BY <1>1
  <1>4. D!None \in [DeviceId -> D!Row \cup {NULL}]
        /\ [D!None EXCEPT ![d] = devices[d]] \in [DeviceId -> D!Row \cup {NULL}]
    BY DEF D!None, DevicesOK
  <1>5. r \in D!Request /\ r.pc = "write" /\ r.tenant = tenant /\ Item(r) = it
    BY <1>3, <1>4 DEF D!Request, Item
  <1> HIDE DEF r
  <1>6. /\ req' \in [Proc -> D!Request] /\ req'[p] = r
        /\ \A q \in Proc : q # p => req'[q] = req[q]
    BY <1>2, <1>5 DEF DevicesOK
  <1>7. DevicesOK'
    BY <1>1, <1>2, <1>5, <1>6 DEF DevicesOK, Item, D!Coherent, D!IsBound
  <1> QED
    BY <1>1, <1>2, <1>5, <1>6, <1>7 DEF Item

\* The call ends, and the table is as it was or has the row that was to be written.
LEMMA ReturnOK ==
    ASSUME DevicesOK, NEW p \in Proc, D!Return(p),
           devices' \in [DeviceId -> D!Row \cup {NULL}],
           \A d \in DeviceId : devices'[d] # NULL => D!Coherent(devices'[d])
    PROVE  /\ DevicesOK' /\ req'[p].pc = "idle"
           /\ \A q \in Proc : q # p => req'[q] = req[q]
  <1>1. /\ req'[p] = D!Idle /\ req' \in [Proc -> D!Request]
        /\ \A q \in Proc : q # p => req'[q] = req[q]
    BY IdleOK DEF D!Return, DevicesOK
  <1>2. DevicesOK'
    BY <1>1, IdleOK DEF DevicesOK, Item, D!Coherent, D!IsBound
  <1> QED
    BY <1>1, <1>2, IdleOK

\* A method fails.
LEMMA FailOK ==
    ASSUME DevicesOK, NEW p \in Proc, D!Fail(p)
    PROVE  /\ DevicesOK' /\ req'[p].pc = "idle" /\ UNCHANGED devices
           /\ \A q \in Proc : q # p => req'[q] = req[q]
  BY ReturnOK DEF D!Fail, DevicesOK

\* The UPDATE or DELETE.
LEMMA WriteOK ==
    ASSUME DevicesOK, NEW p \in Proc, D!Write(p)
    PROVE  /\ DevicesOK' /\ Steady /\ req'[p].pc = "idle"
           /\ \A q \in Proc : q # p => req'[q] = req[q]
           /\ req[p].pc = "write" /\ Item(req[p]).id \in DeviceId
           /\ devices[Item(req[p]).id] # NULL
           /\ devices[Item(req[p]).id].tenantID = req[p].tenant
           /\ devices'[Item(req[p]).id] = Item(req[p]).row
           /\ \A d \in DeviceId : d # Item(req[p]).id => devices'[d] = devices[d]
  <1> DEFINE it == Item(req[p])
  <1>1. /\ req[p].pc = "write" /\ devices' = [devices EXCEPT ![it.id] = it.row]
        /\ devices[it.id] # NULL /\ devices[it.id].tenantID = req[p].tenant /\ D!Return(p)
    BY DEF D!Write, D!Matches, Item
  <1>2. /\ it.id \in DeviceId /\ it.row \in D!Row \cup {NULL}
        /\ it.row # NULL => D!Coherent(it.row) /\ it.row.tenantID = req[p].tenant
    BY <1>1 DEF DevicesOK, D!Item
  <1> HIDE DEF it
  <1>3. /\ devices' \in [DeviceId -> D!Row \cup {NULL}] /\ devices'[it.id] = it.row
        /\ \A d \in DeviceId : d # it.id => devices'[d] = devices[d]
    BY <1>1, <1>2 DEF DevicesOK
  <1>4. \A d \in DeviceId : devices'[d] # NULL => D!Coherent(devices'[d])
    BY <1>2, <1>3 DEF DevicesOK
  <1>5. Steady
    BY <1>1, <1>2, <1>3 DEF Steady
  <1> QED
    BY <1>1, <1>2, <1>3, <1>4, <1>5, ReturnOK DEF it

\* Nothing happens on the devices table.
LEMMA DevicesSame ==
    ASSUME DevicesOK, UNCHANGED <<devices, req>>
    PROVE  DevicesOK'
  BY DEF DevicesOK, Item, D!Coherent, D!IsBound

\* An unchanged table is steady.
LEMMA SameSteady == ASSUME UNCHANGED devices PROVE Steady
  BY DEF Steady

\* Calls of a client of the device service.
LEMMA ClientOK ==
    ASSUME DevicesOK, NEW p \in Proc,
           D!Bind(p) \/ D!Unbind(p) \/ D!Delete(p) \/ D!Write(p) \/ D!Fail(p)
    PROVE  DevicesOK' /\ Steady /\ \A q \in Proc : q # p => req'[q] = req[q]
  <1>1. \A tenant \in Tenant : \A d \in D!Find(tenant) :
          /\ d \in DeviceId /\ devices[d] \in D!Row /\ D!Coherent(devices[d])
          /\ devices[d].tenantID = tenant
    BY DEF D!Find, DevicesOK
  <1>2. {"bind", "unbind", "delete"} \subseteq D!Op
    BY DEF D!Op
  <1>3. CASE D!Bind(p)
    <2>1. PICK tenant \in Tenant :
            \E d \in D!Find(tenant), lot \in Lot, l \in LaneId :
              D!Load(p, "bind", tenant, d, D!Bound(devices[d], lot, l))
      BY <1>3 DEF D!Bind
    <2>2. PICK d \in D!Find(tenant), lot \in Lot, l \in LaneId :
            D!Load(p, "bind", tenant, d, D!Bound(devices[d], lot, l))
      BY <2>1
    <2> DEFINE row == D!Bound(devices[d], lot, l)
    <2>3. row \in D!Row /\ D!Coherent(row) /\ row.tenantID = tenant /\ d \in DeviceId
      BY <1>1, Methods
    <2>4. D!Load(p, "bind", tenant, d, row)
      BY <2>2
    <2> HIDE DEF row
    <2> QED
      BY <1>2, <2>3, <2>4, LoadOK, SameSteady
  <1>4. CASE D!Unbind(p)
    <2>1. PICK tenant \in Tenant :
            \E d \in D!Find(tenant) : D!Load(p, "unbind", tenant, d, D!Unbound(devices[d]))
      BY <1>4 DEF D!Unbind
    <2>2. PICK d \in D!Find(tenant) : D!Load(p, "unbind", tenant, d, D!Unbound(devices[d]))
      BY <2>1
    <2> DEFINE row == D!Unbound(devices[d])
    <2>3. row \in D!Row /\ D!Coherent(row) /\ row.tenantID = tenant /\ d \in DeviceId
      BY <1>1, Methods
    <2>4. D!Load(p, "unbind", tenant, d, row)
      BY <2>2
    <2> HIDE DEF row
    <2> QED
      BY <1>2, <2>3, <2>4, LoadOK, SameSteady
  <1>5. CASE D!Delete(p)
    <2>1. PICK tenant \in Tenant :
            \E d \in D!Find(tenant) : D!Load(p, "delete", tenant, d, NULL)
      BY <1>5 DEF D!Delete
    <2> QED
      BY <1>1, <1>2, <2>1, LoadOK, SameSteady
  <1>6. CASE D!Write(p) \/ D!Fail(p)
    BY <1>6, WriteOK, FailOK, SameSteady
  <1> QED
    BY <1>3, <1>4, <1>5, <1>6

\* UpdateLanes calls Unbind: the SELECT finds the device bound, or nothing is done.
LEMMA CallUnbindOK ==
    ASSUME DevicesOK, NEW p \in Proc, NEW d \in DeviceId, upd[p].tenant \in Tenant,
           req[p].pc = "idle", CallUnbind(p, d)
    PROVE  /\ DevicesOK' /\ UNCHANGED devices
           /\ \A q \in Proc : q # p => req'[q] = req[q]
           /\ \/ UNCHANGED req /\ ~(d \in D!Find(upd[p].tenant) /\ D!IsBound(devices[d]))
              \/ /\ req'[p].pc = "write" /\ req'[p].tenant = upd[p].tenant
                 /\ Item(req'[p]).id = d /\ Item(req'[p]).row \in D!Row
                 /\ Item(req'[p]).row.gateID = NULL
  <1>1. CASE d \in D!Find(upd[p].tenant) /\ D!IsBound(devices[d])
    <2> DEFINE row == D!Unbound(devices[d])
               tenant == upd[p].tenant
    <2>1. devices[d] \in D!Row /\ D!Coherent(devices[d]) /\ devices[d].tenantID = tenant
      BY <1>1 DEF D!Find, DevicesOK
    <2>2. row \in D!Row /\ D!Coherent(row) /\ row.tenantID = tenant /\ row.gateID = NULL
      BY <2>1, Methods
    <2>3. D!Load(p, "unbind", tenant, d, row) /\ "unbind" \in D!Op
      BY <1>1 DEF CallUnbind, D!Op
    <2> HIDE DEF row
    <2>4. /\ DevicesOK' /\ UNCHANGED devices
          /\ \A q \in Proc : q # p => req'[q] = req[q]
          /\ req'[p].pc = "write" /\ req'[p].tenant = tenant
          /\ Item(req'[p]).id = d /\ Item(req'[p]).row = row
      BY <2>2, <2>3, LoadOK
    <2> QED
      BY <2>2, <2>4
  <1>2. CASE ~(d \in D!Find(upd[p].tenant) /\ D!IsBound(devices[d]))
    <2>1. UNCHANGED <<devices, req>>
      BY <1>2 DEF CallUnbind
    <2> QED
      BY <1>2, <2>1, DevicesSame
  <1> QED
    BY <1>1, <1>2

\* UpdateLanes calls Bind: the SELECT finds a device that is not bound, or nothing is
\* done.
LEMMA CallBindOK ==
    ASSUME DevicesOK, NEW p \in Proc, NEW d \in DeviceId, NEW l \in LaneId,
           upd[p].tenant \in Tenant, upd[p].lot \in Lot,
           req[p].pc = "idle", CallBind(p, d, l)
    PROVE  /\ DevicesOK' /\ UNCHANGED devices
           /\ \A q \in Proc : q # p => req'[q] = req[q]
           /\ \/ UNCHANGED req
              \/ /\ req'[p].pc = "write" /\ req'[p].tenant = upd[p].tenant
                 /\ Item(req'[p]).id = d /\ Item(req'[p]).row \in D!Row
                 /\ Item(req'[p]).row.gateID = l
                 /\ devices[d].gateID = NULL
  <1>1. CASE d \in D!Find(upd[p].tenant) /\ ~D!IsBound(devices[d])
    <2> DEFINE row == D!Bound(devices[d], upd[p].lot, l)
               tenant == upd[p].tenant
    <2>1. devices[d] \in D!Row /\ D!Coherent(devices[d]) /\ devices[d].tenantID = tenant
      BY <1>1 DEF D!Find, DevicesOK
    <2>2. row \in D!Row /\ D!Coherent(row) /\ row.tenantID = tenant /\ row.gateID = l
      BY <2>1, Methods
    <2>3. D!Load(p, "bind", tenant, d, row) /\ "bind" \in D!Op
      BY <1>1 DEF CallBind, D!Op
    <2>4. devices[d].gateID = NULL
      BY <1>1, <2>1 DEF D!Coherent, D!IsBound
    <2> HIDE DEF row
    <2>5. /\ DevicesOK' /\ UNCHANGED devices
          /\ \A q \in Proc : q # p => req'[q] = req[q]
          /\ req'[p].pc = "write" /\ req'[p].tenant = tenant
          /\ Item(req'[p]).id = d /\ Item(req'[p]).row = row
      BY <2>2, <2>3, LoadOK
    <2> QED
      BY <2>2, <2>4, <2>5
  <1>2. CASE ~(d \in D!Find(upd[p].tenant) /\ ~D!IsBound(devices[d]))
    <2>1. UNCHANGED <<devices, req>>
      BY <1>2 DEF CallBind
    <2> QED
      BY <2>1, DevicesSame
  <1> QED
    BY <1>1, <1>2

-----------------------------------------------------------------------------
(* Frames *)

\* Devices do not change hands, so a lane keeps naming devices of its tenant.
LEMMA OwnedStays ==
    ASSUME Steady
    PROVE  /\ \A tenant : \A d \in DeviceId : Owned(d, tenant) => Owned(d, tenant)'
           /\ \A row \in Lane : RowOwned(row) => RowOwned(row)'
  <1>1. \A tenant : \A d \in DeviceId : Owned(d, tenant) => Owned(d, tenant)'
    BY DEF Steady, Owned
  <1>2. ASSUME NEW row \in Lane, RowOwned(row) PROVE RowOwned(row)'
    BY <1>1, <1>2 DEF RowOwned, Lane
  <1> QED
    BY <1>1, <1>2

\* The lanes table is as it was.
LEMMA LanesSame ==
    ASSUME LaneInv, Steady, UNCHANGED lanes, used \subseteq used', used' \subseteq LaneId,
           clean' \subseteq Proc
    PROVE  LanesOK'
  <1>1. \A l \in LaneId : lanes[l] # NULL => lanes[l] \in Lane /\ RowOwned(lanes[l])
    BY DEF LaneInv, LanesOK
  <1>2. \A l \in LaneId : lanes[l] # NULL => RowOwned(lanes[l])'
    BY <1>1, OwnedStays DEF RowOwned, Owned
  <1> QED
    BY <1>2 DEF LaneInv, LanesOK

\* A goroutine whose request and device call a step does not touch.
LEMMA OtherJob ==
    ASSUME LaneInv, NEW q \in Proc, Steady, used \subseteq used',
           upd'[q] = upd[q], req'[q] = req[q]
    PROVE  JobOK(upd[q], req[q])'
  <1>1. JobOK(upd[q], req[q]) /\ upd[q] \in Job
    BY DEF LaneInv
  <1>2. \A row \in Lane : Mine(upd[q], row) => Mine(upd[q], row)'
    BY OwnedStays DEF Mine
  <1>3. JobBase(upd[q])'
    <2>1. \A l \in LaneId : upd[q].current[l] # NULL => Mine(upd[q], upd[q].current[l])'
      BY <1>1, <1>2 DEF JobOK, JobBase, Mine
    <2> QED
      BY <1>1, <2>1 DEF JobOK, JobBase
  <1>4. JobAt(upd[q], req[q])'
    <2>1. upd[q].pc \in {"insert", "bind", "save"} => Mine(upd[q], upd[q].row)'
      BY <1>1, <1>2 DEF JobOK, JobAt, Mine
    <2>2. upd[q].pc = "save" /\ upd[q].ok /\ upd[q].device # NULL
            => Owned(upd[q].device, upd[q].tenant)'
      <3>1. upd[q].device # NULL => upd[q].device \in DeviceId
        BY <1>1 DEF Job
      <3> QED
        BY <1>1, <3>1, OwnedStays DEF JobOK, JobAt, Owned
    <2> QED
      BY <1>1, <2>1, <2>2 DEF JobOK, JobAt, Item
  <1> QED
    BY <1>3, <1>4 DEF JobOK

\* An undisturbed UpdateLanes stays one while nobody writes.
LEMMA OtherClean ==
    ASSUME LaneInv, NEW q \in clean, UNCHANGED <<devices, lanes>>,
           upd'[q] = upd[q], req'[q] = req[q]
    PROVE  CleanOK(upd[q], req[q])'
  <1>1. CleanOK(upd[q], req[q])
    BY DEF LaneInv
  <1>2. LotOK(upd[q])'
    BY <1>1 DEF CleanOK, LotOK, LanesOf
  <1>3. TablesOK(upd[q], req[q])'
    BY <1>1 DEF CleanOK, TablesOK, Agree, AgreeBut, AgreeOn, BoundTo, Unbinds, Binds, Item, Saved,
         SetDevice
  <1> QED
    BY <1>1, <1>2, <1>3 DEF CleanOK

\* What is left to show of a step of p.
LEMMA StepOf ==
    ASSUME LaneInv, NEW p \in Proc, Steady, DevicesOK', LanesOK',
           used \subseteq used', upd' \in [Proc -> Job],
           \A q \in Proc : q # p => upd'[q] = upd[q] /\ req'[q] = req[q],
           \A q \in clean' : q # p => q \in clean /\ UNCHANGED <<devices, lanes>>,
           JobOK(upd[p], req[p])',
           p \in clean' => CleanOK(upd[p], req[p])'
    PROVE  LaneInv'
  <1>1. ASSUME NEW q \in Proc PROVE JobOK(upd[q], req[q])'
    BY OtherJob
  <1>2. ASSUME NEW q \in clean' PROVE CleanOK(upd[q], req[q])'
    <2>1. q \in Proc
      BY <1>2 DEF LanesOK
    <2>2. CASE q = p
      BY <1>2, <2>2
    <2>3. CASE q # p
      BY <1>2, <2>1, <2>3, OtherClean
    <2> QED
      BY <2>2, <2>3
  <1> QED
    BY <1>1, <1>2 DEF LaneInv

\* UpdateLanes goes on and learns nothing new of its lot.
LEMMA BaseKept ==
    ASSUME LaneInv, NEW p \in Proc, Steady, used \subseteq used', upd'[p] \in Job,
           upd[p].pc = "idle" => upd'[p].pc = "idle",
           upd'[p].tenant = upd[p].tenant, upd'[p].lot = upd[p].lot,
           upd'[p].keep = upd[p].keep, upd'[p].made = upd[p].made,
           upd'[p].todo \subseteq upd[p].todo,
           \A l \in LaneId : upd'[p].current[l] \in {upd[p].current[l], NULL}
    PROVE  JobBase(upd[p])'
  <1>1. JobBase(upd[p])
    BY DEF LaneInv, JobOK
  <1>2. \A row \in Lane : Mine(upd[p], row) => Mine(upd[p], row)'
    BY OwnedStays DEF Mine
  <1>3. \A l \in LaneId : upd'[p].current[l] # NULL => Mine(upd[p], upd[p].current[l])'
    <2> SUFFICES ASSUME NEW l \in LaneId, upd'[p].current[l] # NULL
                 PROVE  Mine(upd[p], upd[p].current[l])'
      OBVIOUS
    <2>1. upd'[p].current[l] = upd[p].current[l]
      OBVIOUS
    <2>2. Mine(upd[p], upd[p].current[l])
      BY <1>1, <2>1 DEF JobBase
    <2> QED
      BY <1>2, <2>1, <2>2 DEF Mine
  <1> QED
    BY <1>1, <1>3 DEF JobBase

-----------------------------------------------------------------------------
(* The steps of UpdateLanes *)

\* Of the others, those stay undisturbed that see nobody write.
OnlyOwn(p) ==
    /\ clean' \subseteq clean
    /\ \A q \in clean' : q # p => UNCHANGED <<devices, lanes>>

\* The next round: what is kept and what is forgotten.
LEMMA LoopFields ==
    ASSUME NEW u \in Job
    PROVE  /\ Loop(u) \in Job /\ Loop(u).pc = "loop" /\ Loop(u).ok = FALSE
           /\ Loop(u).tenant = u.tenant /\ Loop(u).lot = u.lot /\ Loop(u).current = u.current
           /\ Loop(u).keep = u.keep /\ Loop(u).todo = u.todo /\ Loop(u).made = u.made
  BY DEF Loop, Job

\* No UpdateLanes under way.
LEMMA DoneFields ==
    /\ Done \in Job /\ Done.pc = "idle" /\ Done.keep = {} /\ Done.todo = {} /\ Done.made = {}
    /\ Done.ok = FALSE /\ \A l \in LaneId : Done.current[l] = NULL
  BY DEF Done, Job, NoLanes

\* UpdateLanes begins.
LEMMA BeginsOK ==
    ASSUME LaneInv, NEW p \in Proc, UpdateLanes(p),
           clean' = IF Agree THEN clean \cup {p} ELSE clean
    PROVE  LaneInv'
  <1>1. PICK tenant \in Tenant, lot \in Lot, keep \in SUBSET used :
          upd' = [upd EXCEPT ![p] =
                   [Done EXCEPT !.pc = "loop", !.tenant = tenant, !.lot = lot,
                                !.current = [l \in LaneId |-> IF l \in LanesOf(tenant, lot)
                                                              THEN lanes[l] ELSE NULL],
                                !.keep = keep, !.todo = keep]]
    BY DEF UpdateLanes
  <1>2. /\ upd[p].pc = "idle" /\ req[p].pc = "idle"
        /\ UNCHANGED <<devices, req, lanes, used>>
    BY DEF UpdateLanes, At
  <1> DEFINE cur == [l \in LaneId |-> IF l \in LanesOf(tenant, lot) THEN lanes[l] ELSE NULL]
             v == [Done EXCEPT !.pc = "loop", !.tenant = tenant, !.lot = lot,
                               !.current = cur, !.keep = keep, !.todo = keep]
  <1>3. used \subseteq LaneId /\ cur \in [LaneId -> Lane \cup {NULL}]
    BY DEF LaneInv, LanesOK
  <1>4. \A l \in LaneId : /\ l \in LanesOf(tenant, lot) => cur[l] = lanes[l] /\ lanes[l] # NULL
                          /\ l \notin LanesOf(tenant, lot) => cur[l] = NULL
    BY DEF LanesOf
  <1>5. upd' = [upd EXCEPT ![p] = v]
    BY <1>1
  <1> HIDE DEF cur
  <1>6. /\ v \in Job /\ v.pc = "loop" /\ v.tenant = tenant /\ v.lot = lot /\ v.current = cur
        /\ v.keep = keep /\ v.todo = keep /\ v.made = {} /\ v.ok = FALSE
    BY <1>3 DEF Done, Job
  <1> HIDE DEF v
  <1>7. /\ upd' \in [Proc -> Job] /\ upd'[p] = v
        /\ \A q \in Proc : q # p => upd'[q] = upd[q]
    BY <1>5, <1>6 DEF LaneInv
  <1>8. Steady /\ DevicesOK'
    BY <1>2, SameSteady, DevicesSame DEF LaneInv
  <1>9. LanesOK'
    BY <1>2, <1>8, LanesSame DEF LaneInv, LanesOK
  <1>10. JobOK(upd[p], req[p])'
    <2>1. \A l \in LaneId : cur[l] # NULL =>
            /\ cur[l] \in Lane /\ RowOwned(cur[l])
            /\ cur[l].tenantID = tenant /\ cur[l].parkingLotID = lot
      BY <1>3, <1>4 DEF LanesOf, LaneInv, LanesOK
    <2>2. JobBase(upd[p])'
      BY <1>2, <1>6, <1>7, <2>1 DEF JobBase, Mine, RowOwned, Owned
    <2>3. JobAt(upd[p], req[p])'
      BY <1>2, <1>6, <1>7 DEF JobAt
    <2> QED
      BY <2>2, <2>3 DEF JobOK
  <1>11. ASSUME p \in clean' PROVE CleanOK(upd[p], req[p])'
    <2>1. Agree
      <3>1. p \notin clean
        BY <1>2 DEF LaneInv, CleanOK
      <3> QED
        BY <1>11, <3>1
    <2>2. Agree'
      BY <1>2, <2>1 DEF Agree
    <2>3. LanesOf(tenant, lot)' = LanesOf(tenant, lot)
      BY <1>2 DEF LanesOf
    <2>4. LotOK(upd[p])'
      BY <1>2, <1>4, <1>6, <1>7, <2>3 DEF LotOK
    <2>5. TablesOK(upd[p], req[p])'
      BY <1>2, <1>6, <1>7, <2>2 DEF TablesOK
    <2> QED
      BY <1>6, <1>7, <2>4, <2>5 DEF CleanOK
  <1> QED
    BY <1>2, <1>7, <1>8, <1>9, <1>10, <1>11, StepOf

\* UpdateLanes returns, with an error or not.
LEMMA ReturnsOK ==
    ASSUME LaneInv, NEW p \in Proc, Finish(p) \/ LaneFails(p), clean' = clean \ {p}
    PROVE  LaneInv'
  <1>1. upd' = [upd EXCEPT ![p] = Done] /\ UNCHANGED <<devices, req, lanes, used>>
    BY DEF Finish, LaneFails
  <1>2. /\ upd' \in [Proc -> Job] /\ upd'[p] = Done
        /\ \A q \in Proc : q # p => upd'[q] = upd[q]
    BY <1>1, DoneFields DEF LaneInv
  <1>3. Steady /\ DevicesOK'
    BY <1>1, SameSteady, DevicesSame DEF LaneInv
  <1>4. LanesOK'
    BY <1>1, <1>3, LanesSame DEF LaneInv, LanesOK
  <1>5. JobOK(upd[p], req[p])'
    <2>1. JobBase(upd[p])'
      BY <1>2, DoneFields DEF JobBase
    <2>2. JobAt(upd[p], req[p])'
      BY <1>2, DoneFields DEF JobAt
    <2> QED
      BY <2>1, <2>2 DEF JobOK
  <1> QED
    BY <1>1, <1>2, <1>3, <1>4, <1>5, StepOf

\* The device of a lane is unbound; when nothing has disturbed UpdateLanes, Unbind
\* finds it.
LEMMA DropDevice ==
    ASSUME LaneInv, NEW p \in Proc, upd[p].pc = "loop", NEW l \in LaneId,
           upd[p].current[l] # NULL, NEW d, d = upd[p].current[l].deviceID,
           IF d = NULL THEN UNCHANGED <<devices, req>> ELSE CallUnbind(p, d)
    PROVE  /\ DevicesOK' /\ UNCHANGED devices
           /\ \A q \in Proc : q # p => req'[q] = req[q]
           /\ req'[p].pc \in {"idle", "write"}
           /\ req'[p].pc = "write" => /\ req'[p].tenant = upd[p].tenant
                                      /\ Item(req'[p]).row \in D!Row
                                      /\ Item(req'[p]).row.gateID = NULL
           /\ p \in clean => /\ req'[p].pc = "idle" => BoundTo(l) = {}
                             /\ req'[p].pc = "write" => BoundTo(l) = {Item(req'[p]).id}
  <1>1. /\ JobBase(upd[p]) /\ req[p].pc = "idle" /\ upd[p].tenant \in Tenant /\ DevicesOK
        /\ Mine(upd[p], upd[p].current[l])
    BY DEF LaneInv, JobOK, JobBase, JobAt
  <1>2. d # NULL => d \in DeviceId
    BY <1>1 DEF Mine, Lane
  <1>3. ASSUME p \in clean
        PROVE  /\ d = NULL => BoundTo(l) = {}
               /\ d # NULL => /\ BoundTo(l) = {d}
                              /\ d \in D!Find(upd[p].tenant) /\ D!IsBound(devices[d])
    <2>1. Agree /\ lanes[l] # NULL /\ lanes[l].deviceID = d /\ lanes[l].tenantID = upd[p].tenant
          /\ RowOwned(lanes[l])
      BY <1>1, <1>3 DEF LaneInv, CleanOK, LotOK, TablesOK, Mine
    <2>2. \A e \in DeviceId : e \in BoundTo(l) <=> e = d
      BY <2>1 DEF Agree, BoundTo
    <2>3. d = NULL => BoundTo(l) = {}
      BY <2>2, LaneNullAssumption DEF BoundTo
    <2>4. ASSUME d # NULL
          PROVE  BoundTo(l) = {d} /\ d \in D!Find(upd[p].tenant) /\ D!IsBound(devices[d])
      <3>1. d \in DeviceId /\ d \in BoundTo(l) /\ BoundTo(l) = {d}
        BY <1>2, <2>2, <2>4 DEF BoundTo
      <3>2. devices[d] # NULL /\ devices[d].gateID = l /\ devices[d].tenantID = upd[p].tenant
        BY <2>1, <2>4, <3>1 DEF BoundTo, RowOwned, Owned
      <3>3. D!Coherent(devices[d])
        BY <1>1, <3>1, <3>2 DEF DevicesOK
      <3>4. D!IsBound(devices[d])
        BY <3>2, <3>3, LaneNullAssumption DEF D!Coherent, D!IsBound
      <3> QED
        BY <3>1, <3>2, <3>4 DEF D!Find
    <2> QED
      BY <2>3, <2>4
  <1>4. CASE d = NULL
    <2>1. UNCHANGED <<devices, req>>
      BY <1>4
    <2> QED
      BY <1>1, <1>3, <1>4, <2>1, DevicesSame
  <1>5. CASE d # NULL
    <2>1. d \in DeviceId /\ CallUnbind(p, d)
      BY <1>2, <1>5
    <2>2. /\ DevicesOK' /\ UNCHANGED devices
          /\ \A q \in Proc : q # p => req'[q] = req[q]
          /\ \/ UNCHANGED req /\ ~(d \in D!Find(upd[p].tenant) /\ D!IsBound(devices[d]))
             \/ /\ req'[p].pc = "write" /\ req'[p].tenant = upd[p].tenant
                /\ Item(req'[p]).id = d /\ Item(req'[p]).row \in D!Row
                /\ Item(req'[p]).row.gateID = NULL
      BY <1>1, <2>1, CallUnbindOK
    <2> QED
      BY <1>1, <1>3, <1>5, <2>2
  <1> QED
    BY <1>4, <1>5

\* Phase 1 takes a lane to delete.
LEMMA DropLaneOK ==
    ASSUME LaneInv, NEW p \in Proc, DropLane(p), OnlyOwn(p)
    PROVE  LaneInv'
  <1>1. PICK l \in Dropped(upd[p]) :
          /\ upd' = [upd EXCEPT ![p].pc = "erase", ![p].lane = l]
          /\ IF upd[p].current[l].deviceID = NULL THEN UNCHANGED <<devices, req>>
             ELSE CallUnbind(p, upd[p].current[l].deviceID)
    BY DEF DropLane
  <1>2. upd[p].pc = "loop" /\ UNCHANGED <<lanes, used>> /\ upd[p] \in Job
    BY DEF DropLane, At, LaneInv
  <1>3. l \in LaneId \ upd[p].keep /\ upd[p].current[l] # NULL
    BY DEF Dropped
  <1>4. /\ upd' \in [Proc -> Job] /\ upd'[p].pc = "erase" /\ upd'[p].lane = l
        /\ upd'[p].tenant = upd[p].tenant /\ upd'[p].lot = upd[p].lot
        /\ upd'[p].current = upd[p].current /\ upd'[p].keep = upd[p].keep
        /\ upd'[p].todo = upd[p].todo /\ upd'[p].made = upd[p].made
        /\ \A q \in Proc : q # p => upd'[q] = upd[q]
    BY <1>1, <1>2, <1>3 DEF Job, LaneInv
  <1>5. /\ DevicesOK' /\ UNCHANGED devices
        /\ \A q \in Proc : q # p => req'[q] = req[q]
        /\ req'[p].pc \in {"idle", "write"}
        /\ req'[p].pc = "write" => /\ req'[p].tenant = upd[p].tenant
                                   /\ Item(req'[p]).row \in D!Row
                                   /\ Item(req'[p]).row.gateID = NULL
        /\ p \in clean => /\ req'[p].pc = "idle" => BoundTo(l) = {}
                          /\ req'[p].pc = "write" => BoundTo(l) = {Item(req'[p]).id}
    BY <1>1, <1>2, <1>3, DropDevice
  <1>6. Steady
    BY <1>5, SameSteady
  <1>7. LanesOK'
    BY <1>2, <1>6, LanesSame DEF LaneInv, LanesOK, OnlyOwn
  <1>8. JobOK(upd[p], req[p])'
    <2>1. JobBase(upd[p])'
      BY <1>2, <1>4, <1>6, BaseKept
    <2>2. JobAt(upd[p], req[p])'
      BY <1>3, <1>4, <1>5 DEF JobAt
    <2> QED
      BY <2>1, <2>2 DEF JobOK
  <1>9. ASSUME p \in clean' PROVE CleanOK(upd[p], req[p])'
    <2>1. p \in clean /\ LotOK(upd[p]) /\ Agree
      BY <1>2, <1>9 DEF OnlyOwn, LaneInv, CleanOK, TablesOK
    <2>2. LotOK(upd[p])'
      BY <1>2, <1>4, <2>1 DEF LotOK, LanesOf
    <2>3. AgreeBut(l)' /\ BoundTo(l)' = BoundTo(l)
      BY <1>2, <1>5, <2>1 DEF Agree, AgreeBut, AgreeOn, BoundTo
    <2>4. TablesOK(upd[p], req[p])'
      BY <1>4, <1>5, <2>1, <2>3 DEF TablesOK, Unbinds, Item
    <2> QED
      BY <1>4, <2>2, <2>4 DEF CleanOK
  <1> QED
    BY <1>2, <1>4, <1>5, <1>6, <1>7, <1>8, <1>9, StepOf DEF OnlyOwn

\* The DELETE of a lane.
LEMMA EraseLaneOK ==
    ASSUME LaneInv, NEW p \in Proc, EraseLane(p), OnlyOwn(p)
    PROVE  LaneInv'
  <1> DEFINE l == upd[p].lane
             v == [Loop(upd[p]) EXCEPT !.current[l] = NULL]
  <1>1. /\ upd[p].pc = "erase" /\ req[p].pc = "idle" /\ lanes[l] # NULL
        /\ lanes' = [lanes EXCEPT ![l] = NULL] /\ UNCHANGED <<devices, req, used>>
        /\ upd' = [upd EXCEPT ![p] = v]
    BY DEF EraseLane, At
  <1>2. /\ JobOK(upd[p], req[p]) /\ upd[p] \in Job
        /\ l \in LaneId \ upd[p].keep /\ upd[p].current[l] # NULL
    BY <1>1 DEF LaneInv, JobOK, JobAt
  <1> HIDE DEF l
  <1>3. /\ v \in Job /\ v.pc = "loop" /\ v.ok = FALSE
        /\ v.tenant = upd[p].tenant /\ v.lot = upd[p].lot
        /\ v.keep = upd[p].keep /\ v.todo = upd[p].todo /\ v.made = upd[p].made
        /\ v.current[l] = NULL
        /\ \A m \in LaneId : m # l => v.current[m] = upd[p].current[m]
    BY <1>2 DEF Loop, Job
  <1> HIDE DEF v
  <1>4. /\ upd' \in [Proc -> Job] /\ upd'[p] = v
        /\ \A q \in Proc : q # p => upd'[q] = upd[q]
    BY <1>1, <1>3 DEF LaneInv
  <1>5. Steady /\ DevicesOK'
    BY <1>1, SameSteady, DevicesSame DEF LaneInv
  <1>6. /\ lanes' \in [LaneId -> Lane \cup {NULL}] /\ lanes'[l] = NULL
        /\ \A m \in LaneId : m # l => lanes'[m] = lanes[m]
    BY <1>1, <1>2 DEF LaneInv, LanesOK
  <1>7. LanesOK'
    BY <1>1, <1>6 DEF LaneInv, LanesOK, OnlyOwn, RowOwned, Owned
  <1>8. JobOK(upd[p], req[p])'
    <2>1. JobBase(upd[p])'
      BY <1>1, <1>3, <1>4, <1>5, BaseKept
    <2>2. JobAt(upd[p], req[p])'
      BY <1>1, <1>3, <1>4 DEF JobAt
    <2> QED
      BY <2>1, <2>2 DEF JobOK
  <1>9. ASSUME p \in clean' PROVE CleanOK(upd[p], req[p])'
    <2>1. p \in clean /\ LotOK(upd[p]) /\ AgreeBut(l) /\ BoundTo(l) = {}
      BY <1>1, <1>9 DEF OnlyOwn, LaneInv, CleanOK, TablesOK, l
    <2>2. \A t \in Tenant, lot \in Lot : LanesOf(t, lot)' = LanesOf(t, lot) \ {l}
      BY <1>6 DEF LanesOf
    <2>3. upd[p].tenant \in Tenant /\ upd[p].lot \in Lot
      BY <1>1, <1>2 DEF JobOK, JobBase
    <2>4. LanesOf(upd[p].tenant, upd[p].lot)' = LanesOf(upd[p].tenant, upd[p].lot) \ {l}
      BY <1>3, <1>4, <2>2, <2>3
    <2>5. LotOK(upd[p])'
      <3>1. /\ \A m \in LaneId : upd'[p].current[m] # NULL
                 <=> m \in LanesOf(upd[p].tenant, upd[p].lot)' \ upd'[p].made
            /\ \A m \in LaneId : upd'[p].current[m] # NULL => upd'[p].current[m] = lanes'[m]
        BY <1>3, <1>4, <1>6, <2>1, <2>4 DEF LotOK
      <3>2. l \notin upd[p].made
        BY <1>2, <2>1 DEF LotOK
      <3>3. upd'[p].made \subseteq LanesOf(upd[p].tenant, upd[p].lot)'
        BY <1>3, <1>4, <2>1, <2>4, <3>2 DEF LotOK
      <3>4. \A m \in upd'[p].keep \ upd'[p].todo : upd'[p].current[m] # NULL
        <4>1. upd[p].keep \subseteq LaneId
          BY <1>2 DEF Job
        <4> QED
          BY <1>2, <1>3, <1>4, <2>1, <4>1 DEF LotOK
      <3> QED
        BY <3>1, <3>3, <3>4 DEF LotOK
    <2>6. Agree'
      BY <1>1, <1>6, <2>1 DEF Agree, AgreeBut, AgreeOn, BoundTo
    <2>7. TablesOK(upd[p], req[p])'
      BY <1>1, <1>3, <1>4, <2>6 DEF TablesOK
    <2> QED
      BY <1>3, <1>4, <2>5, <2>7 DEF CleanOK
  <1> QED
    BY <1>1, <1>4, <1>5, <1>7, <1>8, <1>9, StepOf DEF OnlyOwn

\* An input without an id.
LEMMA CreateInputOK ==
    ASSUME LaneInv, NEW p \in Proc, CreateInput(p), OnlyOwn(p)
    PROVE  LaneInv'
  <1>1. PICK name \in LaneName, d \in DeviceAsked :
          upd' = [upd EXCEPT ![p].pc = "insert", ![p].device = d,
                             ![p].row = NewLane(upd[p].tenant, upd[p].lot, name)]
    BY DEF CreateInput
  <1>2. /\ upd[p].pc = "loop" /\ req[p].pc = "idle" /\ UNCHANGED <<devices, req, lanes, used>>
        /\ upd[p] \in Job /\ upd[p].tenant \in Tenant /\ upd[p].lot \in Lot /\ ~upd[p].ok
    BY DEF CreateInput, Phase2, At, LaneInv, JobOK, JobBase, JobAt
  <1> DEFINE row == NewLane(upd[p].tenant, upd[p].lot, name)
  <1>3. /\ row \in Lane /\ row.deviceID = NULL
        /\ row.tenantID = upd[p].tenant /\ row.parkingLotID = upd[p].lot
    BY <1>2 DEF NewLane, Lane
  <1>4. upd' = [upd EXCEPT ![p].pc = "insert", ![p].device = d, ![p].row = row]
    BY <1>1
  <1> HIDE DEF row
  <1>5. /\ upd' \in [Proc -> Job] /\ upd'[p].pc = "insert" /\ upd'[p].row = row
        /\ upd'[p].tenant = upd[p].tenant /\ upd'[p].lot = upd[p].lot
        /\ upd'[p].current = upd[p].current /\ upd'[p].keep = upd[p].keep
        /\ upd'[p].todo = upd[p].todo /\ upd'[p].made = upd[p].made /\ upd'[p].ok = upd[p].ok
        /\ \A q \in Proc : q # p => upd'[q] = upd[q]
    BY <1>2, <1>3, <1>4 DEF Job, LaneInv, DeviceAsked
  <1>6. Steady /\ DevicesOK'
    BY <1>2, SameSteady, DevicesSame DEF LaneInv
  <1>7. LanesOK'
    BY <1>2, <1>6, LanesSame DEF LaneInv, LanesOK, OnlyOwn
  <1>8. JobOK(upd[p], req[p])'
    <2>1. JobBase(upd[p])'
      BY <1>2, <1>5, <1>6, BaseKept
    <2>2. JobAt(upd[p], req[p])'
      BY <1>2, <1>3, <1>5 DEF JobAt, Mine, RowOwned
    <2> QED
      BY <2>1, <2>2 DEF JobOK
  <1>9. ASSUME p \in clean' PROVE CleanOK(upd[p], req[p])'
    <2>1. p \in clean /\ LotOK(upd[p]) /\ Agree
      BY <1>2, <1>9 DEF OnlyOwn, LaneInv, CleanOK, TablesOK
    <2>2. LotOK(upd[p])'
      BY <1>2, <1>5, <2>1 DEF LotOK, LanesOf
    <2>3. Agree'
      BY <1>2, <2>1 DEF Agree
    <2>4. TablesOK(upd[p], req[p])'
      BY <1>2, <1>5, <2>3 DEF TablesOK
    <2> QED
      BY <1>5, <2>2, <2>4 DEF CleanOK
  <1> QED
    BY <1>2, <1>5, <1>6, <1>7, <1>8, <1>9, StepOf DEF OnlyOwn

\* The INSERT of a lane, with an id that was never given out.
LEMMA InsertLaneOK ==
    ASSUME LaneInv, NEW p \in Proc, InsertLane(p), OnlyOwn(p)
    PROVE  LaneInv'
  <1>1. PICK l \in LaneId \ used :
          LET u == [upd[p] EXCEPT !.made = @ \cup {l}, !.lane = l] IN
          /\ lanes' = [lanes EXCEPT ![l] = u.row]
          /\ used' = used \cup {l}
          /\ upd' = [upd EXCEPT ![p] = IF u.device = NULL THEN Loop(u) ELSE [u EXCEPT !.pc = "bind"]]
    BY DEF InsertLane
  <1>0. PICK row : row = upd[p].row
    OBVIOUS
  <1> DEFINE made == upd[p].made \cup {l}
             u == [upd[p] EXCEPT !.made = made, !.lane = l]
             v == IF u.device = NULL THEN Loop(u) ELSE [u EXCEPT !.pc = "bind"]
  <1>2. /\ upd[p].pc = "insert" /\ req[p].pc = "idle" /\ UNCHANGED <<devices, req>>
        /\ upd[p] \in Job /\ JobBase(upd[p]) /\ ~upd[p].ok
        /\ upd[p].tenant \in Tenant /\ upd[p].lot \in Lot
        /\ Mine(upd[p], row) /\ row.deviceID = NULL
    BY <1>0 DEF InsertLane, At, LaneInv, JobOK, JobBase, JobAt
  <1>3. u \in Job /\ u.row = row /\ u.device = upd[p].device /\ u.made = made /\ u.lane = l
        /\ u.tenant = upd[p].tenant /\ u.lot = upd[p].lot /\ u.current = upd[p].current
        /\ u.keep = upd[p].keep /\ u.todo = upd[p].todo /\ u.ok = upd[p].ok
    BY <1>0, <1>2 DEF Job
  <1>4. lanes' = [lanes EXCEPT ![l] = row] /\ used' = used \cup {l} /\ upd' = [upd EXCEPT ![p] = v]
    BY <1>1, <1>3
  <1> HIDE DEF u
  <1>5. /\ v \in Job /\ v.tenant = upd[p].tenant /\ v.lot = upd[p].lot
        /\ v.current = upd[p].current /\ v.keep = upd[p].keep /\ v.todo = upd[p].todo
        /\ v.made = made /\ v.ok = FALSE
        /\ \/ v.pc = "loop"
           \/ v.pc = "bind" /\ v.lane = l /\ v.row = row /\ v.device \in DeviceId
    <2>1. CASE u.device = NULL
      BY <1>2, <1>3, <2>1, LoopFields
    <2>2. CASE u.device # NULL
      BY <1>2, <1>3, <2>2 DEF Job
    <2> QED
      BY <2>1, <2>2
  <1> HIDE DEF v
  <1>6. /\ upd' \in [Proc -> Job] /\ upd'[p] = v
        /\ \A q \in Proc : q # p => upd'[q] = upd[q]
    BY <1>4, <1>5 DEF LaneInv
  <1>7. Steady /\ DevicesOK'
    BY <1>2, SameSteady, DevicesSame DEF LaneInv
  <1>8. /\ lanes' \in [LaneId -> Lane \cup {NULL}] /\ lanes'[l] = row /\ lanes[l] = NULL
        /\ row \in Lane
        /\ \A m \in LaneId : m # l => lanes'[m] = lanes[m]
    BY <1>2, <1>4 DEF LaneInv, LanesOK, Mine
  <1>9. LanesOK'
    BY <1>2, <1>4, <1>8 DEF LaneInv, LanesOK, OnlyOwn, RowOwned, Owned
  <1>10. JobOK(upd[p], req[p])'
    <2>1. \A m \in LaneId : v.current[m] # NULL => Mine(upd[p], upd[p].current[m])'
      BY <1>2, <1>5, <1>6 DEF JobBase, Mine, RowOwned, Owned
    <2>2. v.keep \subseteq used' /\ v.made \subseteq used' /\ v.todo \subseteq v.keep
          /\ v.keep \cap v.made = {}
      BY <1>2, <1>4, <1>5 DEF JobBase
    <2>3. JobBase(upd[p])'
      BY <1>2, <1>5, <1>6, <2>1, <2>2 DEF JobBase
    <2>4. Mine(upd[p], row)'
      BY <1>2, <1>5, <1>6 DEF Mine, RowOwned, Owned
    <2>5. JobAt(upd[p], req[p])'
      BY <1>2, <1>5, <1>6, <2>4 DEF JobAt, Mine, RowOwned
    <2> QED
      BY <2>3, <2>5 DEF JobOK
  <1>11. ASSUME p \in clean' PROVE CleanOK(upd[p], req[p])'
    <2>1. p \in clean /\ LotOK(upd[p]) /\ Agree
      BY <1>2, <1>11 DEF OnlyOwn, LaneInv, CleanOK, TablesOK
    <2>2. BoundTo(l)' = {} /\ BoundTo(l) = {}
      BY <1>2, <1>8, <2>1 DEF Agree, BoundTo
    <2>3. Agree'
      BY <1>2, <1>8, <2>1, <2>2, LaneNullAssumption DEF Agree, BoundTo
    <2>4. AgreeBut(l)'
      BY <2>3 DEF Agree, AgreeBut, AgreeOn, BoundTo
    <2>5. LanesOf(upd[p].tenant, upd[p].lot)' = LanesOf(upd[p].tenant, upd[p].lot) \cup {l}
      BY <1>2, <1>5, <1>6, <1>8, LaneNullAssumption DEF LanesOf, Mine
    <2>6. LotOK(upd[p])'
      <3>1. l \notin LanesOf(upd[p].tenant, upd[p].lot)
        BY <1>8 DEF LanesOf
      <3>2. /\ \A m \in LaneId : upd'[p].current[m] # NULL
                 <=> m \in LanesOf(upd[p].tenant, upd[p].lot)' \ upd'[p].made
            /\ \A m \in LaneId : upd'[p].current[m] # NULL => upd'[p].current[m] = lanes'[m]
        BY <1>5, <1>6, <1>8, <2>1, <2>5, <3>1 DEF LotOK
      <3>3. upd'[p].made \subseteq LanesOf(upd[p].tenant, upd[p].lot)'
        BY <1>5, <1>6, <2>1, <2>5 DEF LotOK
      <3>4. \A m \in upd'[p].keep \ upd'[p].todo : upd'[p].current[m] # NULL
        BY <1>5, <1>6, <2>1 DEF LotOK
      <3> QED
        BY <3>2, <3>3, <3>4 DEF LotOK
    <2>7. TablesOK(upd[p], req[p])'
      BY <1>2, <1>5, <1>6, <1>8, <2>2, <2>3, <2>4 DEF TablesOK
    <2> QED
      BY <1>5, <1>6, <2>6, <2>7 DEF CleanOK
  <1> QED
    BY <1>2, <1>4, <1>6, <1>7, <1>9, <1>10, <1>11, StepOf DEF OnlyOwn

\* An input with the id of a lane: it keeps its device, or the device is unbound.
LEMMA UpdateInputOK ==
    ASSUME LaneInv, NEW p \in Proc, UpdateInput(p), OnlyOwn(p)
    PROVE  LaneInv'
  <1>1. PICK l \in upd[p].keep, name \in LaneName, d \in DeviceAsked :
          /\ upd[p].current[l] # NULL
          /\ LET row == [upd[p].current[l] EXCEPT !.name = name]
                 at(pc, r) == upd' = [upd EXCEPT ![p].pc = pc, ![p].lane = l, ![p].row = r,
                                                 ![p].device = d, ![p].todo = @ \ {l}]
             IN  IF row.deviceID = d
                 THEN at("save", row) /\ UNCHANGED <<devices, req>>
                 ELSE /\ at(IF d = NULL THEN "save" ELSE "bind", ClearDevice(row))
                      /\ IF row.deviceID = NULL
                         THEN UNCHANGED <<devices, req>> ELSE CallUnbind(p, row.deviceID)
    BY DEF UpdateInput
  <1>2. /\ upd[p].pc = "loop" /\ req[p].pc = "idle" /\ UNCHANGED <<lanes, used>>
        /\ upd[p] \in Job /\ ~upd[p].ok /\ l \in LaneId /\ l \notin upd[p].made
        /\ Mine(upd[p], upd[p].current[l])
    BY <1>1 DEF UpdateInput, Phase2, At, LaneInv, JobOK, JobBase, JobAt, Job
  <1>3. PICK c : c = upd[p].current[l].deviceID
    OBVIOUS
  <1>4. PICK row, pc :
          /\ upd' = [upd EXCEPT ![p].pc = pc, ![p].lane = l, ![p].row = row,
                                ![p].device = d, ![p].todo = @ \ {l}]
          /\ row \in Lane /\ row.tenantID = upd[p].tenant /\ row.parkingLotID = upd[p].lot
          /\ \/ pc = "save" /\ row.deviceID = c /\ UNCHANGED <<devices, req>>
             \/ /\ pc \in {"save", "bind"} /\ (pc = "save" <=> d = NULL) /\ row.deviceID = NULL
                /\ IF c = NULL THEN UNCHANGED <<devices, req>> ELSE CallUnbind(p, c)
    <2> DEFINE copy == [upd[p].current[l] EXCEPT !.name = name]
    <2>1. /\ copy \in Lane /\ copy.tenantID = upd[p].tenant /\ copy.parkingLotID = upd[p].lot
          /\ copy.deviceID = c
      BY <1>2, <1>3 DEF Mine, Lane
    <2>2. /\ ClearDevice(copy) \in Lane /\ ClearDevice(copy).tenantID = upd[p].tenant
          /\ ClearDevice(copy).parkingLotID = upd[p].lot /\ ClearDevice(copy).deviceID = NULL
      BY <2>1 DEF ClearDevice, Lane
    <2>3. CASE copy.deviceID = d
      <3>1. /\ upd' = [upd EXCEPT ![p].pc = "save", ![p].lane = l, ![p].row = copy,
                                  ![p].device = d, ![p].todo = @ \ {l}]
            /\ UNCHANGED <<devices, req>>
        BY <1>1, <2>3
      <3> HIDE DEF copy
      <3> QED
        BY <2>1, <3>1
    <2>4. CASE copy.deviceID # d
      <3> DEFINE pc == IF d = NULL THEN "save" ELSE "bind"
      <3>1. /\ upd' = [upd EXCEPT ![p].pc = pc, ![p].lane = l, ![p].row = ClearDevice(copy),
                                  ![p].device = d, ![p].todo = @ \ {l}]
            /\ IF copy.deviceID = NULL THEN UNCHANGED <<devices, req>> ELSE CallUnbind(p, copy.deviceID)
        BY <1>1, <2>4
      <3>2. pc \in {"save", "bind"} /\ (pc = "save" <=> d = NULL)
        OBVIOUS
      <3> HIDE DEF copy, pc
      <3>3. IF c = NULL THEN UNCHANGED <<devices, req>> ELSE CallUnbind(p, c)
        BY <2>1, <3>1
      <3> QED
        BY <2>2, <3>1, <3>2, <3>3
    <2> QED
      BY <2>3, <2>4
  <1>5. /\ upd' \in [Proc -> Job] /\ upd'[p].pc = pc /\ upd'[p].lane = l /\ upd'[p].row = row
        /\ upd'[p].device = d /\ upd'[p].todo = upd[p].todo \ {l} /\ upd'[p].ok = FALSE
        /\ upd'[p].tenant = upd[p].tenant /\ upd'[p].lot = upd[p].lot
        /\ upd'[p].current = upd[p].current /\ upd'[p].keep = upd[p].keep
        /\ upd'[p].made = upd[p].made
        /\ \A q \in Proc : q # p => upd'[q] = upd[q]
    BY <1>2, <1>4 DEF Job, LaneInv, DeviceAsked
  <1>6. ASSUME p \in clean
        PROVE  /\ Agree /\ LotOK(upd[p]) /\ AgreeBut(l)
               /\ \A e \in DeviceId : e \in BoundTo(l) <=> c = e
    <2>1. Agree /\ LotOK(upd[p])
      BY <1>2, <1>6 DEF LaneInv, CleanOK, TablesOK
    <2>2. lanes[l] # NULL /\ lanes[l].deviceID = c
      BY <1>1, <1>2, <1>3, <2>1 DEF LotOK
    <2>3. AgreeBut(l)
      BY <2>1 DEF Agree, AgreeBut, AgreeOn, BoundTo
    <2>4. \A e \in DeviceId : e \in BoundTo(l) <=> c = e
      BY <1>2, <2>1, <2>2 DEF Agree, BoundTo
    <2> QED
      BY <2>1, <2>3, <2>4
  <1>7. /\ DevicesOK' /\ UNCHANGED devices
        /\ \A q \in Proc : q # p => req'[q] = req[q]
        /\ req'[p].pc \in {"idle", "write"}
        /\ req'[p].pc = "write" => /\ req'[p].tenant = upd[p].tenant
                                   /\ Item(req'[p]).row \in D!Row
                                   /\ Item(req'[p]).row.gateID = NULL
                                   /\ pc = "save" => d = NULL
        /\ p \in clean => /\ req'[p].pc = "idle" =>
                               /\ \A e \in DeviceId : e \in BoundTo(l) <=> row.deviceID = e
                               /\ pc = "bind" => BoundTo(l) = {}
                          /\ req'[p].pc = "write" => BoundTo(l) = {Item(req'[p]).id}
    <2>1. CASE pc = "save" /\ row.deviceID = c /\ UNCHANGED <<devices, req>>
      <3>1. DevicesOK'
        BY <2>1, DevicesSame DEF LaneInv
      <3> QED
        BY <1>2, <1>6, <2>1, <3>1
    <2>2. CASE /\ pc \in {"save", "bind"} /\ (pc = "save" <=> d = NULL) /\ row.deviceID = NULL
               /\ IF c = NULL THEN UNCHANGED <<devices, req>> ELSE CallUnbind(p, c)
      <3>1. /\ DevicesOK' /\ UNCHANGED devices
            /\ \A q \in Proc : q # p => req'[q] = req[q]
            /\ req'[p].pc \in {"idle", "write"}
            /\ req'[p].pc = "write" => /\ req'[p].tenant = upd[p].tenant
                                       /\ Item(req'[p]).row \in D!Row
                                       /\ Item(req'[p]).row.gateID = NULL
            /\ p \in clean => /\ req'[p].pc = "idle" => BoundTo(l) = {}
                              /\ req'[p].pc = "write" => BoundTo(l) = {Item(req'[p]).id}
        BY <1>1, <1>2, <1>3, <2>2, DropDevice
      <3> QED
        BY <2>2, <3>1, LaneNullAssumption
    <2> QED
      BY <1>4, <2>1, <2>2
  <1>8. Steady
    BY <1>7, SameSteady
  <1>9. LanesOK'
    BY <1>2, <1>8, LanesSame DEF LaneInv, LanesOK, OnlyOwn
  <1>10. JobOK(upd[p], req[p])'
    <2>1. JobBase(upd[p])'
      BY <1>2, <1>5, <1>8, BaseKept
    <2>2. Mine(upd[p], row)'
      BY <1>2, <1>3, <1>4, <1>5, <1>7 DEF Mine, RowOwned, Owned
    <2>3. pc = "bind" => d \in DeviceId /\ row.deviceID = NULL
      BY <1>4 DEF DeviceAsked
    <2>4. pc \in {"save", "bind"}
      BY <1>4
    <2>5. JobAt(upd[p], req[p])'
      BY <1>1, <1>5, <1>7, <2>2, <2>3, <2>4 DEF JobAt, Mine
    <2> QED
      BY <2>1, <2>5 DEF JobOK
  <1>11. ASSUME p \in clean' PROVE CleanOK(upd[p], req[p])'
    <2>1. p \in clean /\ LotOK(upd[p]) /\ Agree /\ AgreeBut(l)
      BY <1>6, <1>11 DEF OnlyOwn
    <2>2. LotOK(upd[p])'
      BY <1>1, <1>2, <1>5, <2>1 DEF LotOK, LanesOf
    <2>3. AgreeBut(l)' /\ BoundTo(l)' = BoundTo(l)
      BY <1>2, <1>7, <2>1 DEF AgreeBut, AgreeOn, BoundTo
    <2>4. pc \in {"save", "bind"}
      BY <1>4
    <2>5. Saved(upd'[p]) = row
      BY <1>5 DEF Saved
    <2>6. TablesOK(upd[p], req[p])'
      BY <1>2, <1>5, <1>7, <2>1, <2>3, <2>4, <2>5 DEF TablesOK, Unbinds, Item, Saved
    <2> QED
      BY <1>5, <2>2, <2>4, <2>6 DEF CleanOK
  <1> QED
    BY <1>2, <1>5, <1>7, <1>8, <1>9, <1>10, <1>11, StepOf DEF OnlyOwn

\* Bind is called for the device asked for.
LEMMA BindDeviceOK ==
    ASSUME LaneInv, NEW p \in Proc, BindDevice(p), OnlyOwn(p)
    PROVE  LaneInv'
  <1>1. PICK l, d, row : l = upd[p].lane /\ d = upd[p].device /\ row = upd[p].row
    OBVIOUS
  <1>2. /\ upd[p].pc = "bind" /\ req[p].pc = "idle" /\ UNCHANGED <<lanes, used>>
        /\ CallBind(p, d, l) /\ upd' = [upd EXCEPT ![p].pc = "save", ![p].ok = FALSE]
    BY <1>1 DEF BindDevice, At
  <1>3. /\ upd[p] \in Job /\ upd[p].tenant \in Tenant /\ upd[p].lot \in Lot /\ d \in DeviceId
        /\ Mine(upd[p], row) /\ row.deviceID = NULL
        /\ l \in upd[p].made \/ (l \in upd[p].keep /\ upd[p].current[l] # NULL)
    BY <1>1, <1>2 DEF LaneInv, JobOK, JobBase, JobAt
  <1>4. l \in LaneId
    BY <1>3 DEF Job
  <1>5. /\ upd' \in [Proc -> Job] /\ upd'[p].pc = "save" /\ upd'[p].lane = l /\ upd'[p].row = row
        /\ upd'[p].device = d /\ upd'[p].todo = upd[p].todo /\ upd'[p].ok = FALSE
        /\ upd'[p].tenant = upd[p].tenant /\ upd'[p].lot = upd[p].lot
        /\ upd'[p].current = upd[p].current /\ upd'[p].keep = upd[p].keep
        /\ upd'[p].made = upd[p].made
        /\ \A q \in Proc : q # p => upd'[q] = upd[q]
    <2> DEFINE v == [upd[p] EXCEPT !.pc = "save", !.ok = FALSE]
    <2>1. upd' = [upd EXCEPT ![p] = v] /\ upd \in [Proc -> Job]
      BY <1>2 DEF LaneInv
    <2>2. /\ v \in Job /\ v.pc = "save" /\ v.lane = l /\ v.row = row
          /\ v.device = d /\ v.todo = upd[p].todo /\ v.ok = FALSE
          /\ v.tenant = upd[p].tenant /\ v.lot = upd[p].lot
          /\ v.current = upd[p].current /\ v.keep = upd[p].keep /\ v.made = upd[p].made
      BY <1>1, <1>3 DEF Job
    <2> HIDE DEF v
    <2>3. upd' \in [Proc -> Job] /\ upd'[p] = v /\ \A q \in Proc : q # p => upd'[q] = upd[q]
      BY <2>1, <2>2
    <2> QED
      BY <2>2, <2>3
  <1>6. /\ DevicesOK' /\ UNCHANGED devices
        /\ \A q \in Proc : q # p => req'[q] = req[q]
        /\ \/ req'[p].pc = "idle"
           \/ /\ req'[p].pc = "write" /\ req'[p].tenant = upd[p].tenant
              /\ Item(req'[p]).id = d /\ Item(req'[p]).row \in D!Row
              /\ Item(req'[p]).row.gateID = l /\ devices[d].gateID = NULL
    BY <1>2, <1>3, <1>4, CallBindOK DEF LaneInv
  <1>7. Steady
    BY <1>6, SameSteady
  <1>8. LanesOK'
    BY <1>2, <1>7, LanesSame DEF LaneInv, LanesOK, OnlyOwn
  <1>9. JobOK(upd[p], req[p])'
    <2>1. JobBase(upd[p])'
      BY <1>2, <1>5, <1>7, BaseKept
    <2>2. Mine(upd[p], row)'
      BY <1>3, <1>5, <1>6 DEF Mine, RowOwned, Owned
    <2>3. JobAt(upd[p], req[p])'
      BY <1>3, <1>5, <1>6, <2>2 DEF JobAt, Mine, Item
    <2> QED
      BY <2>1, <2>3 DEF JobOK
  <1>10. ASSUME p \in clean' PROVE CleanOK(upd[p], req[p])'
    <2>1. /\ p \in clean /\ LotOK(upd[p]) /\ AgreeBut(l) /\ BoundTo(l) = {}
          /\ l \in upd[p].made => lanes[l].deviceID = NULL
      BY <1>1, <1>2, <1>10 DEF OnlyOwn, LaneInv, CleanOK, TablesOK
    <2>2. LotOK(upd[p])'
      BY <1>2, <1>5, <2>1 DEF LotOK, LanesOf
    <2>3. AgreeBut(l)' /\ BoundTo(l)' = BoundTo(l)
      BY <1>2, <1>6, <2>1 DEF AgreeBut, AgreeOn, BoundTo
    <2>4. Saved(upd'[p]) = row
      BY <1>5 DEF Saved
    <2>5. \A e \in DeviceId : e \in BoundTo(l)' <=> Saved(upd'[p]).deviceID = e
      BY <1>3, <2>1, <2>3, <2>4, LaneNullAssumption
    <2>6. req'[p].pc = "write" => Binds(upd[p], req[p])'
      BY <1>5, <1>6, <2>1, <2>3 DEF Binds, Item
    <2>7. TablesOK(upd[p], req[p])'
      BY <1>2, <1>3, <1>5, <1>6, <2>1, <2>3, <2>5, <2>6 DEF TablesOK, Saved
    <2> QED
      BY <1>5, <2>2, <2>7 DEF CleanOK
  <1> QED
    BY <1>2, <1>5, <1>6, <1>7, <1>8, <1>9, <1>10, StepOf DEF OnlyOwn

\* What the UPDATE of a lane writes.
LEMMA SavedOK ==
    ASSUME LaneInv, NEW p \in Proc, upd[p].pc = "save"
    PROVE  Mine(upd[p], Saved(upd[p]))
  <1>1. /\ upd[p] \in Job /\ Mine(upd[p], upd[p].row)
        /\ upd[p].ok /\ upd[p].device # NULL => Owned(upd[p].device, upd[p].tenant)
    BY DEF LaneInv, JobOK, JobAt
  <1>2. upd[p].device \in DeviceId \cup {NULL}
    BY <1>1 DEF Job
  <1>3. CASE upd[p].ok
    <2>1. Saved(upd[p]) = [upd[p].row EXCEPT !.deviceID = upd[p].device]
      BY <1>3 DEF Saved, SetDevice
    <2> QED
      BY <1>1, <1>2, <1>3, <2>1 DEF Mine, Lane, RowOwned
  <1>4. CASE ~upd[p].ok
    BY <1>1, <1>4 DEF Saved
  <1> QED
    BY <1>3, <1>4

\* The UPDATE of a lane.
LEMMA SaveLaneOK ==
    ASSUME LaneInv, NEW p \in Proc, SaveLane(p), OnlyOwn(p)
    PROVE  LaneInv'
  <1>1. PICK l, row : l = upd[p].lane /\ row = Saved(upd[p])
    OBVIOUS
  <1> DEFINE v == IF l \in upd[p].made THEN Loop(upd[p])
                  ELSE [Loop(upd[p]) EXCEPT !.current[l] = row]
  <1>2. /\ upd[p].pc = "save" /\ req[p].pc = "idle" /\ UNCHANGED <<devices, req, used>>
        /\ lanes[l] # NULL /\ lanes' = [lanes EXCEPT ![l] = row]
        /\ upd' = [upd EXCEPT ![p] = v]
    BY <1>1 DEF SaveLane, At, Updatable
  <1>3. /\ upd[p] \in Job /\ JobBase(upd[p]) /\ Mine(upd[p], row)
        /\ l \in upd[p].made \/ (l \in upd[p].keep /\ upd[p].current[l] # NULL)
    BY <1>1, <1>2, SavedOK DEF LaneInv, JobOK, JobAt
  <1>4. l \in LaneId /\ row \in Lane
    BY <1>3 DEF Job, Mine
  <1>5. /\ v \in Job /\ v.pc = "loop" /\ v.ok = FALSE
        /\ v.tenant = upd[p].tenant /\ v.lot = upd[p].lot
        /\ v.keep = upd[p].keep /\ v.todo = upd[p].todo /\ v.made = upd[p].made
        /\ l \in upd[p].made => v.current[l] = upd[p].current[l]
        /\ l \notin upd[p].made => v.current[l] = row
        /\ \A m \in LaneId : m # l => v.current[m] = upd[p].current[m]
    <2>1. CASE l \in upd[p].made
      BY <1>3, <2>1, LoopFields
    <2>2. CASE l \notin upd[p].made
      BY <1>3, <1>4, <2>2 DEF Loop, Job
    <2> QED
      BY <2>1, <2>2
  <1> HIDE DEF v
  <1>6. /\ upd' \in [Proc -> Job] /\ upd'[p] = v
        /\ \A q \in Proc : q # p => upd'[q] = upd[q]
    BY <1>2, <1>5 DEF LaneInv
  <1>7. Steady /\ DevicesOK'
    BY <1>2, SameSteady, DevicesSame DEF LaneInv
  <1>8. /\ lanes' \in [LaneId -> Lane \cup {NULL}] /\ lanes'[l] = row /\ row # NULL
        /\ \A m \in LaneId : m # l => lanes'[m] = lanes[m]
    BY <1>2, <1>4, LaneNullAssumption DEF LaneInv, LanesOK
  <1>9. LanesOK'
    BY <1>2, <1>3, <1>4, <1>8 DEF LaneInv, LanesOK, OnlyOwn, RowOwned, Owned, Mine
  <1>10. JobOK(upd[p], req[p])'
    <2>1. Mine(upd[p], row)'
      BY <1>2, <1>3, <1>5, <1>6 DEF Mine, RowOwned, Owned
    <2>2. \A m \in LaneId : upd'[p].current[m] # NULL => Mine(upd[p], upd[p].current[m])'
      BY <1>2, <1>3, <1>5, <1>6, <2>1 DEF JobBase, Mine, RowOwned, Owned
    <2>3. JobBase(upd[p])'
      BY <1>2, <1>3, <1>5, <1>6, <2>2 DEF JobBase
    <2>4. JobAt(upd[p], req[p])'
      BY <1>2, <1>5, <1>6 DEF JobAt
    <2> QED
      BY <2>3, <2>4 DEF JobOK
  <1>11. ASSUME p \in clean' PROVE CleanOK(upd[p], req[p])'
    <2>1. /\ p \in clean /\ LotOK(upd[p]) /\ AgreeBut(l)
          /\ \A d \in DeviceId : d \in BoundTo(l) <=> row.deviceID = d
      BY <1>1, <1>2, <1>11 DEF OnlyOwn, LaneInv, CleanOK, TablesOK
    <2>2. l \in LanesOf(upd[p].tenant, upd[p].lot)
      BY <1>3, <1>4, <2>1 DEF LotOK
    <2>3. LanesOf(upd[p].tenant, upd[p].lot)' = LanesOf(upd[p].tenant, upd[p].lot)
      BY <1>3, <1>4, <1>5, <1>6, <1>8, <2>2 DEF LanesOf, Mine
    <2>4. LotOK(upd[p])'
      <3>1. \A m \in LaneId : upd'[p].current[m] # NULL
              <=> m \in LanesOf(upd[p].tenant, upd[p].lot)' \ upd'[p].made
        BY <1>5, <1>6, <1>8, <2>1, <2>2, <2>3 DEF LotOK
      <3>2. \A m \in LaneId : upd'[p].current[m] # NULL => upd'[p].current[m] = lanes'[m]
        BY <1>5, <1>6, <1>8, <2>1 DEF LotOK
      <3>3. upd'[p].made \subseteq LanesOf(upd[p].tenant, upd[p].lot)'
        BY <1>5, <1>6, <2>1, <2>3 DEF LotOK
      <3>4. \A m \in upd'[p].keep \ upd'[p].todo : upd'[p].current[m] # NULL
        <4>1. upd[p].keep \subseteq LaneId
          BY <1>3 DEF Job
        <4> QED
          BY <1>5, <1>6, <1>8, <2>1, <4>1 DEF LotOK
      <3> QED
        BY <3>1, <3>2, <3>3, <3>4 DEF LotOK
    <2>5. Agree'
      BY <1>2, <1>8, <2>1 DEF Agree, AgreeBut, AgreeOn, BoundTo
    <2>6. TablesOK(upd[p], req[p])'
      BY <1>2, <1>5, <1>6, <2>5 DEF TablesOK
    <2> QED
      BY <1>5, <1>6, <2>4, <2>6 DEF CleanOK
  <1> QED
    BY <1>2, <1>6, <1>7, <1>9, <1>10, <1>11, StepOf DEF OnlyOwn

\* A new lane is not written again: it has no device, or the error of the UPDATE is
\* dropped.
LEMMA NotSavedOK ==
    ASSUME LaneInv, NEW p \in Proc,
           \/ SkipSave(p) /\ OnlyOwn(p)
           \/ SaveIgnored(p) /\ clean' = clean \ {p}
    PROVE  LaneInv'
  <1>1. /\ upd[p].pc = "save" /\ req[p].pc = "idle" /\ UNCHANGED <<devices, req, lanes, used>>
        /\ upd' = [upd EXCEPT ![p] = Loop(upd[p])] /\ upd[p] \in Job
    BY DEF SkipSave, SaveIgnored, At, LaneInv
  <1>2. /\ upd' \in [Proc -> Job] /\ upd'[p] = Loop(upd[p])
        /\ \A q \in Proc : q # p => upd'[q] = upd[q]
    BY <1>1, LoopFields DEF LaneInv
  <1>3. Steady /\ DevicesOK'
    BY <1>1, SameSteady, DevicesSame DEF LaneInv
  <1>4. clean' \subseteq clean /\ clean \subseteq Proc
    BY DEF OnlyOwn, LaneInv, LanesOK
  <1>5. LanesOK'
    BY <1>1, <1>3, <1>4, LanesSame DEF LaneInv, LanesOK
  <1>6. JobOK(upd[p], req[p])'
    <2>1. JobBase(upd[p])'
      BY <1>1, <1>2, <1>3, BaseKept, LoopFields
    <2>2. JobAt(upd[p], req[p])'
      BY <1>1, <1>2, LoopFields DEF JobAt
    <2> QED
      BY <2>1, <2>2 DEF JobOK
  <1>7. ASSUME p \in clean' PROVE CleanOK(upd[p], req[p])'
    <2>1. p \in clean /\ NothingToSave(upd[p])
      BY <1>4, <1>7 DEF SkipSave
    <2> DEFINE l == upd[p].lane
    <2>2. /\ LotOK(upd[p]) /\ AgreeBut(l) /\ lanes[l].deviceID = NULL
          /\ \A d \in DeviceId : d \in BoundTo(l) <=> NULL = d
      BY <1>1, <2>1 DEF LaneInv, CleanOK, TablesOK, NothingToSave, Saved
    <2>3. LotOK(upd[p])'
      <3>1. /\ upd'[p].tenant = upd[p].tenant /\ upd'[p].lot = upd[p].lot
            /\ upd'[p].current = upd[p].current /\ upd'[p].keep = upd[p].keep
            /\ upd'[p].todo = upd[p].todo /\ upd'[p].made = upd[p].made
        BY <1>1, <1>2, LoopFields
      <3> QED
        BY <1>1, <2>2, <3>1 DEF LotOK, LanesOf
    <2>4. Agree
      <3>1. AgreeOn(l)
        BY <2>2, LaneNullAssumption DEF AgreeOn
      <3> QED
        BY <2>2, <3>1 DEF Agree, AgreeBut, AgreeOn, BoundTo
    <2>5. Agree'
      BY <1>1, <2>4 DEF Agree
    <2>6. TablesOK(upd[p], req[p])'
      BY <1>1, <1>2, <2>5, LoopFields DEF TablesOK
    <2> QED
      BY <1>1, <1>2, <2>3, <2>6, LoopFields DEF CleanOK
  <1> QED
    BY <1>1, <1>2, <1>3, <1>4, <1>5, <1>6, <1>7, StepOf

\* The device service writes for UpdateLanes.
LEMMA DeviceWritesOK ==
    ASSUME LaneInv, NEW p \in Proc, DeviceWrites(p), OnlyOwn(p)
    PROVE  LaneInv'
  <1>1. PICK l, it : l = upd[p].lane /\ it = Item(req[p])
    OBVIOUS
  <1>2. /\ upd[p].pc # "idle" /\ upd' = [upd EXCEPT ![p].ok = TRUE] /\ UNCHANGED <<lanes, used>>
        /\ D!Write(p) /\ upd[p] \in Job /\ JobAt(upd[p], req[p]) /\ DevicesOK
    BY DEF DeviceWrites, LaneInv, JobOK
  <1>3. /\ DevicesOK' /\ Steady /\ req'[p].pc = "idle"
        /\ \A q \in Proc : q # p => req'[q] = req[q]
        /\ req[p].pc = "write" /\ it.id \in DeviceId /\ devices[it.id] # NULL
        /\ devices[it.id].tenantID = req[p].tenant /\ devices'[it.id] = it.row
        /\ \A d \in DeviceId : d # it.id => devices'[d] = devices[d]
    BY <1>1, <1>2, WriteOK
  <1>4. /\ upd' \in [Proc -> Job] /\ upd'[p].ok = TRUE /\ upd'[p].pc = upd[p].pc
        /\ upd'[p].lane = upd[p].lane /\ upd'[p].row = upd[p].row
        /\ upd'[p].device = upd[p].device /\ upd'[p].todo = upd[p].todo
        /\ upd'[p].tenant = upd[p].tenant /\ upd'[p].lot = upd[p].lot
        /\ upd'[p].current = upd[p].current /\ upd'[p].keep = upd[p].keep
        /\ upd'[p].made = upd[p].made
        /\ \A q \in Proc : q # p => upd'[q] = upd[q]
    BY <1>2 DEF Job, LaneInv
  <1>5. upd[p].pc \in {"erase", "bind", "save"}
    BY <1>2, <1>3 DEF JobAt, Job
  <1>6. LanesOK'
    BY <1>2, <1>3, LanesSame DEF LaneInv, LanesOK, OnlyOwn
  <1>7. JobOK(upd[p], req[p])'
    <2>1. JobBase(upd[p])'
      BY <1>2, <1>3, <1>4, BaseKept
    <2>2. upd[p].pc \in {"bind", "save"} => Mine(upd[p], upd[p].row)'
      BY <1>2, <1>3, <1>4, OwnedStays DEF JobAt, Mine
    <2>3. upd[p].pc = "save" /\ upd[p].device # NULL => Owned(upd[p].device, upd[p].tenant)'
      BY <1>1, <1>2, <1>3, <1>4 DEF JobAt, Owned, Steady
    <2>4. JobAt(upd[p], req[p])'
      BY <1>2, <1>3, <1>4, <1>5, <2>2, <2>3 DEF JobAt
    <2> QED
      BY <2>1, <2>4 DEF JobOK
  <1>8. ASSUME p \in clean' PROVE CleanOK(upd[p], req[p])'
    <2>1. /\ p \in clean /\ LotOK(upd[p]) /\ AgreeBut(l)
          /\ Unbinds(upd[p], req[p]) \/ Binds(upd[p], req[p])
          /\ upd[p].pc \in {"bind", "save"} /\ l \in upd[p].made =>
               lanes[l].deviceID = NULL /\ upd[p].row.deviceID = NULL
      BY <1>1, <1>3, <1>5, <1>8 DEF OnlyOwn, LaneInv, CleanOK, TablesOK
    <2>2. LotOK(upd[p])'
      BY <1>2, <1>4, <2>1 DEF LotOK, LanesOf
    <2>3. it.row # NULL
      BY <1>1, <2>1, DeviceNullAssumption DEF Unbinds, Binds
    <2>4. \A m \in LaneId : m # l => BoundTo(m)' = BoundTo(m)
      <3>1. \A m \in LaneId : m # l => it.id \notin BoundTo(m) /\ it.row.gateID # m
        BY <1>1, <2>1, LaneNullAssumption DEF Unbinds, Binds, BoundTo
      <3>2. ASSUME NEW m \in LaneId, m # l, NEW d \in DeviceId
            PROVE  d \in BoundTo(m)' <=> d \in BoundTo(m)
        BY <1>3, <2>3, <3>1, <3>2 DEF BoundTo
      <3> QED
        BY <3>2 DEF BoundTo
    <2>5. AgreeBut(l)'
      BY <1>2, <2>1, <2>4 DEF AgreeBut, AgreeOn
    <2>6. /\ upd[p].pc # "save" => BoundTo(l)' = {}
          /\ upd[p].pc = "save" => \A d \in DeviceId : d \in BoundTo(l)' <=> upd[p].device = d
      <3>1. CASE Unbinds(upd[p], req[p])
        <4>1. /\ l \in LaneId /\ it.row.gateID = NULL /\ BoundTo(l) = {it.id}
              /\ upd[p].pc = "save" => upd[p].device = NULL
          BY <1>1, <1>2, <1>5, <3>1 DEF Unbinds, JobAt, Job
        <4>2. BoundTo(l)' = {}
          BY <1>3, <4>1, LaneNullAssumption DEF BoundTo
        <4> QED
          BY <4>1, <4>2, LaneNullAssumption
      <3>2. CASE Binds(upd[p], req[p])
        <4>1. it.row.gateID = l /\ BoundTo(l) = {} /\ upd[p].pc = "save" /\ it.id = upd[p].device
          BY <1>1, <3>2 DEF Binds
        <4> QED
          BY <1>3, <2>3, <4>1 DEF BoundTo
      <3> QED
        BY <2>1, <3>1, <3>2
    <2>7. upd[p].pc = "save" => Saved(upd'[p]).deviceID = upd[p].device
      <3>1. Saved(upd'[p]) = [upd[p].row EXCEPT !.deviceID = upd[p].device]
        BY <1>4 DEF Saved, SetDevice
      <3>2. upd[p].pc = "save" => upd[p].row \in Lane
        BY <1>2 DEF JobAt, Mine
      <3> QED
        BY <3>1, <3>2 DEF Lane
    <2>8. TablesOK(upd[p], req[p])'
      BY <1>1, <1>2, <1>3, <1>4, <1>5, <2>1, <2>5, <2>6, <2>7 DEF TablesOK, Saved
    <2> QED
      BY <1>2, <1>4, <2>2, <2>8 DEF CleanOK
  <1> QED
    BY <1>2, <1>3, <1>4, <1>6, <1>7, <1>8, StepOf DEF OnlyOwn

\* A call of the device service fails, and UpdateLanes goes on without it.
LEMMA DeviceFailsOK ==
    ASSUME LaneInv, NEW p \in Proc, DeviceFails(p), clean' = clean \ {p}
    PROVE  LaneInv'
  <1>1. D!Fail(p) /\ UNCHANGED <<lanes, used, upd>> /\ JobOK(upd[p], req[p]) /\ upd[p] \in Job
    BY DEF DeviceFails, laneVars, LaneInv
  <1>2. /\ DevicesOK' /\ req'[p].pc = "idle" /\ UNCHANGED devices
        /\ \A q \in Proc : q # p => req'[q] = req[q]
    BY <1>1, FailOK DEF LaneInv
  <1>3. Steady
    BY <1>2, SameSteady
  <1>4. LanesOK'
    BY <1>1, <1>3, LanesSame DEF LaneInv, LanesOK
  <1>5. JobOK(upd[p], req[p])'
    <2>1. JobBase(upd[p])'
      BY <1>1, <1>3, BaseKept
    <2>2. JobAt(upd[p], req[p])'
      BY <1>1, <1>2 DEF JobOK, JobAt, Mine, RowOwned, Owned
    <2> QED
      BY <2>1, <2>2 DEF JobOK
  <1> QED
    BY <1>1, <1>2, <1>3, <1>4, <1>5, StepOf DEF LaneInv

\* A client calls the device service.
LEMMA DeviceRequestOK ==
    ASSUME LaneInv, NEW p \in Proc, DeviceRequest(p), OnlyOwn(p)
    PROVE  LaneInv'
  <1>1. /\ upd[p].pc = "idle" /\ UNCHANGED <<lanes, used, upd>> /\ upd[p] \in Job
        /\ D!Bind(p) \/ D!Unbind(p) \/ D!Delete(p) \/ D!Write(p) \/ D!Fail(p)
    BY DEF DeviceRequest, laneVars, LaneInv
  <1>2. DevicesOK' /\ Steady /\ \A q \in Proc : q # p => req'[q] = req[q]
    BY <1>1, ClientOK DEF LaneInv
  <1>3. LanesOK'
    BY <1>1, <1>2, LanesSame DEF LaneInv, LanesOK, OnlyOwn
  <1>4. JobOK(upd[p], req[p])'
    <2>1. JobBase(upd[p])'
      BY <1>1, <1>2, BaseKept
    <2>2. JobAt(upd[p], req[p])'
      BY <1>1 DEF JobAt
    <2> QED
      BY <2>1, <2>2 DEF JobOK
  <1>5. p \notin clean'
    BY <1>1 DEF OnlyOwn, LaneInv, CleanOK
  <1> QED
    BY <1>1, <1>2, <1>3, <1>4, <1>5, StepOf DEF OnlyOwn, LaneInv

-----------------------------------------------------------------------------
(* The specification *)

\* Devices are registered, no lane exists and nobody is at work.
LEMMA InitLaneInv == Init => LaneInv
  <1> SUFFICES ASSUME Init PROVE LaneInv
    OBVIOUS
  <1>1. \A t \in Tenant : D!NewDevice(t, "device") \in D!Row /\ D!Coherent(D!NewDevice(t, "device"))
    BY DEF D!NewDevice, D!Row, D!Status, D!Coherent, D!IsBound
  <1>2. \A d \in DeviceId : devices[d] \in D!Row /\ D!Coherent(devices[d])
    <2>1. \A d \in DeviceId : \E t \in Tenant : devices[d] = D!NewDevice(t, "device")
      BY DEF Init
    <2> QED
      BY <1>1, <2>1
  <1>3. DevicesOK
    <2>1. devices \in [DeviceId -> D!Row \cup {NULL}]
      BY <1>2 DEF Init
    <2>2. req \in [Proc -> D!Request] /\ \A p \in Proc : req[p].pc = "idle"
      BY IdleOK DEF Init
    <2> QED
      BY <1>2, <2>1, <2>2 DEF DevicesOK
  <1>4. LanesOK
    BY DEF Init, LanesOK, NoLanes
  <1>5. upd \in [Proc -> Job] /\ \A p \in Proc : upd[p] = Done
    BY DoneFields DEF Init
  <1>6. ASSUME NEW p \in Proc PROVE JobOK(upd[p], req[p])
    <2>1. JobBase(upd[p])
      BY <1>5, DoneFields DEF JobBase
    <2>2. JobAt(upd[p], req[p])
      BY <1>5, DoneFields DEF JobAt
    <2> QED
      BY <2>1, <2>2 DEF JobOK
  <1> QED
    BY <1>3, <1>4, <1>5, <1>6 DEF Init, LaneInv

\* A step that no UpdateLanes but p's is to survive, unless it writes nothing.
LEMMA UnharmedOnlyOwn ==
    ASSUME NEW p \in Proc, clean' = Unharmed(p)
    PROVE  OnlyOwn(p)
  BY DEF Unharmed, OnlyOwn

\* Nothing happens.
LEMMA StutterOK == ASSUME LaneInv, UNCHANGED vars PROVE LaneInv'
  <1>1. UNCHANGED <<devices, req, lanes, used, upd, clean>>
    BY DEF vars
  <1>2. Steady /\ DevicesOK'
    BY <1>1, SameSteady, DevicesSame DEF LaneInv
  <1>3. LanesOK'
    BY <1>1, <1>2, LanesSame DEF LaneInv, LanesOK
  <1>4. \A p \in Proc : JobOK(upd[p], req[p])'
    BY <1>1, <1>2, OtherJob
  <1>5. \A p \in clean : CleanOK(upd[p], req[p])'
    BY <1>1, OtherClean
  <1> QED
    BY <1>1, <1>2, <1>3, <1>4, <1>5 DEF LaneInv

\* Every step keeps the invariant.
LEMMA StepLaneInv == LaneInv /\ [Next]_vars => LaneInv'
  <1> SUFFICES ASSUME LaneInv, [Next]_vars PROVE LaneInv'
    OBVIOUS
  <1>1. CASE UNCHANGED vars
    BY <1>1, StutterOK
  <1>2. CASE Next
    <2>1. PICK p \in Proc :
            \/ UpdateLanes(p) /\ clean' = IF Agree THEN clean \cup {p} ELSE clean
            \/ /\ \/ DropLane(p) \/ EraseLane(p) \/ CreateInput(p) \/ InsertLane(p)
                  \/ UpdateInput(p) \/ BindDevice(p) \/ SaveLane(p) \/ SkipSave(p)
                  \/ DeviceWrites(p) \/ DeviceRequest(p)
               /\ clean' = Unharmed(p)
            \/ /\ SaveIgnored(p) \/ Finish(p) \/ LaneFails(p) \/ DeviceFails(p)
               /\ clean' = clean \ {p}
      BY <1>2 DEF Next
    <2>2. CASE UpdateLanes(p) /\ clean' = IF Agree THEN clean \cup {p} ELSE clean
      BY <2>2, BeginsOK
    <2>3. CASE clean' = Unharmed(p)
               /\ (DropLane(p) \/ EraseLane(p) \/ CreateInput(p) \/ InsertLane(p))
      BY <2>3, UnharmedOnlyOwn, DropLaneOK, EraseLaneOK, CreateInputOK, InsertLaneOK
    <2>4. CASE clean' = Unharmed(p)
               /\ (UpdateInput(p) \/ BindDevice(p) \/ SaveLane(p) \/ SkipSave(p))
      BY <2>4, UnharmedOnlyOwn, UpdateInputOK, BindDeviceOK, SaveLaneOK, NotSavedOK
    <2>5. CASE clean' = Unharmed(p) /\ (DeviceWrites(p) \/ DeviceRequest(p))
      BY <2>5, UnharmedOnlyOwn, DeviceWritesOK, DeviceRequestOK
    <2>6. CASE clean' = clean \ {p}
               /\ (SaveIgnored(p) \/ Finish(p) \/ LaneFails(p) \/ DeviceFails(p))
      BY <2>6, NotSavedOK, ReturnsOK, DeviceFailsOK
    <2> QED
      BY <2>1, <2>2, <2>3, <2>4, <2>5, <2>6
  <1> QED
    BY <1>1, <1>2

\* The specification keeps the invariant.
LEMMA LaneInvariant == Spec => []LaneInv
  BY InitLaneInv, StepLaneInv, PTL DEF Spec

\* Type correctness of UpdateLanes and of the two tables it writes.
THEOREM LanesTyped == Spec => []TypeOK
  <1>1. LaneInv => TypeOK
    BY DEF LaneInv, DevicesOK, LanesOK, TypeOK, D!TypeOK
  <1> QED
    BY <1>1, LaneInvariant, PTL

\* UpdateLanes of lane_service.go has no transaction, but while nobody else writes and
\* no statement fails, it leaves the lanes and the devices table in agreement after
\* each lane.
THEOREM UndisturbedAgrees == Spec => []CleanUpdateAgrees
  <1>1. LaneInv => CleanUpdateAgrees
    BY DEF LaneInv, CleanOK, TablesOK, CleanUpdateAgrees
  <1> QED
    BY <1>1, LaneInvariant, PTL

\* What such an UpdateLanes leaves in the lot are the lanes the request lists and the
\* lanes it created.
THEOREM UndisturbedExact == Spec => []CleanUpdateExact
  <1>1. LaneInv => CleanUpdateExact
    <2> SUFFICES ASSUME LaneInv, NEW p \in clean, Phase2(p), upd[p].todo = {}
                 PROVE  LanesOf(upd[p].tenant, upd[p].lot) = upd[p].keep \cup upd[p].made
      BY DEF CleanUpdateExact
    <2>1. LotOK(upd[p]) /\ upd[p] \in Job
      BY DEF LaneInv, LanesOK, CleanOK
    <2>2. upd[p].keep \subseteq LaneId /\ upd[p].made \subseteq LaneId
      BY <2>1 DEF Job
    <2>3. \A l \in LaneId : upd[p].current[l] # NULL <=> l \in upd[p].keep
      BY <2>1 DEF Phase2, Dropped, LotOK
    <2> QED
      BY <2>1, <2>2, <2>3 DEF LotOK, LanesOf
  <1> QED
    BY <1>1, LaneInvariant, PTL

\* The INSERT takes new ids, and the UPDATE of dao/lane.go writes no row that is not
\* there: no step brings a deleted lane back.
LEMMA DeletedStep ==
    ASSUME LaneInv, [Next]_vars, NEW l \in used, lanes[l] = NULL
    PROVE  lanes'[l] = NULL
  <1>0. lanes \in [LaneId -> Lane \cup {NULL}] /\ l \in LaneId
    BY DEF LaneInv, LanesOK
  <1>1. CASE UNCHANGED lanes
    BY <1>1
  <1>2. ASSUME NEW p \in Proc, EraseLane(p) PROVE lanes'[l] = NULL
    BY <1>0, <1>2 DEF EraseLane
  <1>3. ASSUME NEW p \in Proc, InsertLane(p) PROVE lanes'[l] = NULL
    <2>1. PICK m \in LaneId \ used : \E row : lanes' = [lanes EXCEPT ![m] = row]
      BY <1>3 DEF InsertLane
    <2> QED
      BY <1>0, <2>1
  <1>4. ASSUME NEW p \in Proc, SaveLane(p) PROVE lanes'[l] = NULL
    BY <1>0, <1>4 DEF SaveLane, Updatable
  <1> QED
    BY <1>1, <1>2, <1>3, <1>4
    DEF Next, vars, laneVars, UpdateLanes, DropLane, CreateInput, UpdateInput, BindDevice,
        SkipSave, SaveIgnored, Finish, LaneFails, DeviceWrites, DeviceFails, DeviceRequest

\* An UpdateLanes that still has a deleted lane in its currentMap does not bring it
\* back, whatever the others do.
THEOREM DeletedLanesStay == Spec => DeletedStaysDeleted
  <1>1. LaneInv /\ [Next]_vars => [\A l \in used : lanes[l] = NULL => lanes'[l] = NULL]_vars
    BY DeletedStep
  <1> QED
    BY <1>1, LaneInvariant, PTL DEF Spec, DeletedStaysDeleted

-----------------------------------------------------------------------------
(* UpdateLanes is a client of the device service. *)

\* The call of Bind or Unbind for the lane at hand is a call the device service
\* answers: the tenant, the lot and the lane are there.
LEMMA CallsServed ==
    ASSUME LaneInv, NEW p \in Proc, upd[p].pc # "idle", NEW d \in DeviceId,
           CallUnbind(p, d) \/ \E l \in LaneId : CallBind(p, d, l)
    PROVE  D!Unbind(p) \/ D!Bind(p) \/ UNCHANGED <<devices, req>>
  <1>1. upd[p].tenant \in Tenant /\ upd[p].lot \in Lot
    BY DEF LaneInv, JobOK, JobBase
  <1>2. CASE CallUnbind(p, d)
    BY <1>1, <1>2 DEF CallUnbind, D!Unbind
  <1>3. ASSUME NEW l \in LaneId, CallBind(p, d, l)
        PROVE  D!Bind(p) \/ UNCHANGED <<devices, req>>
    BY <1>1, <1>3 DEF CallBind, D!Bind
  <1> QED
    BY <1>2, <1>3

\* Every step is one of the device service, or does nothing to it.
LEMMA DeviceStep ==
    ASSUME LaneInv, [Next]_vars
    PROVE  [D!Next]_<<devices, req>>
  <1> SUFFICES ASSUME ~UNCHANGED <<devices, req>> PROVE D!Next
    OBVIOUS
  <1>1. ASSUME NEW p \in Proc, DropLane(p) PROVE D!Unbind(p) \/ D!Bind(p)
    <2>1. PICK l \in Dropped(upd[p]) :
            IF upd[p].current[l].deviceID = NULL THEN UNCHANGED <<devices, req>>
            ELSE CallUnbind(p, upd[p].current[l].deviceID)
      BY <1>1 DEF DropLane
    <2>2. upd[p].current[l] \in Lane /\ upd[p].pc # "idle"
      BY <1>1 DEF Dropped, DropLane, At, LaneInv, JobOK, JobBase, Mine
    <2>3. upd[p].current[l].deviceID \in DeviceId /\ CallUnbind(p, upd[p].current[l].deviceID)
      BY <2>1, <2>2 DEF Lane
    <2> QED
      BY <2>2, <2>3, CallsServed
  <1>2. ASSUME NEW p \in Proc, UpdateInput(p) PROVE D!Unbind(p) \/ D!Bind(p)
    <2>1. PICK l \in upd[p].keep, name \in LaneName :
            /\ upd[p].current[l] # NULL
            /\ \/ UNCHANGED <<devices, req>>
               \/ LET c == [upd[p].current[l] EXCEPT !.name = name].deviceID IN
                  c # NULL /\ CallUnbind(p, c)
      BY <1>2 DEF UpdateInput
    <2>2. l \in LaneId /\ upd[p].pc # "idle"
      BY <1>2 DEF UpdateInput, Phase2, At, LaneInv, Job
    <2>3. upd[p].current[l] \in Lane
      BY <2>1, <2>2 DEF LaneInv, JobOK, JobBase, Mine
    <2> DEFINE c == upd[p].current[l].deviceID
    <2>4. c \in DeviceId \cup {NULL} /\ [upd[p].current[l] EXCEPT !.name = name].deviceID = c
      BY <2>3 DEF Lane
    <2>5. c \in DeviceId /\ CallUnbind(p, c)
      BY <2>1, <2>4
    <2> HIDE DEF c
    <2> QED
      BY <2>2, <2>5, CallsServed
  <1>3. ASSUME NEW p \in Proc, BindDevice(p) PROVE D!Unbind(p) \/ D!Bind(p)
    <2>1. /\ upd[p].pc = "bind" /\ CallBind(p, upd[p].device, upd[p].lane) /\ upd[p] \in Job
          /\ upd[p].device \in DeviceId
          /\ upd[p].lane \in upd[p].made \cup upd[p].keep
      BY <1>3 DEF BindDevice, At, LaneInv, JobOK, JobAt
    <2>2. upd[p].lane \in LaneId
      BY <2>1 DEF Job
    <2> QED
      BY <2>1, <2>2, CallsServed
  <1>4. ASSUME NEW p \in Proc, DeviceWrites(p) \/ DeviceFails(p) \/ DeviceRequest(p)
        PROVE  D!Bind(p) \/ D!Unbind(p) \/ D!Delete(p) \/ D!Write(p) \/ D!Fail(p)
    BY <1>4 DEF DeviceWrites, DeviceFails, DeviceRequest
  <1>5. \E p \in Proc : DropLane(p) \/ UpdateInput(p) \/ BindDevice(p)
                        \/ DeviceWrites(p) \/ DeviceFails(p) \/ DeviceRequest(p)
    BY DEF Next, vars, UpdateLanes, EraseLane, CreateInput, InsertLane, SaveLane, SkipSave,
           SaveIgnored, Finish, LaneFails
  <1> QED
    BY <1>1, <1>2, <1>3, <1>4, <1>5 DEF D!Next

\* NewLaneService gets the device service itself and lane_service.go calls its Bind and
\* Unbind: what saving lanes does to the devices table is what the methods of the
\* device service do, and nothing else.
THEOREM LanesUseDeviceService == Spec => [][D!Next]_<<devices, req>>
  <1>1. LaneInv /\ [Next]_vars => [D!Next]_<<devices, req>>
    BY DeviceStep
  <1> QED
    BY <1>1, LaneInvariant, PTL DEF Spec

=============================================================================
