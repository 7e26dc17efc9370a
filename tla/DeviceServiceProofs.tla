------------------------ MODULE DeviceServiceProofs ------------------------
(***************************************************************************)
(* The devices table keeps its promises for every number of requests,      *)
(* devices, tenants and every length of a batch.                           *)
(*                                                                         *)
(* The argument: what a request still has to write, and what its           *)
(* transaction has written, are consistent rows of its own tenant          *)
(* (RequestOK); the rows it has locked are in the table and its tenant's   *)
(* (Holds), and stay so because nobody else writes a locked row            *)
(* (LocksDisjoint).                                                        *)
(***************************************************************************)
EXTENDS DeviceService, TLAPS

Good(row, tenant) == row # NULL => Coherent(row) /\ row.tenantID = tenant

RequestOK(r) ==
    /\ r \in Request
    /\ r.pc = "write" => r.todo # <<>>
    /\ r.pc # "tx" => r.locked = {}
    /\ \A k \in 1..Len(r.todo) : Good(r.todo[k].row, r.tenant)
    /\ \A i \in DeviceId : Good(r.copy[i], r.tenant)
    /\ r.pc = "tx" => \A i \in DeviceId : r.snap[i] # NULL =>
            i \in r.locked \/ \E k \in 1..Len(r.todo) : r.todo[k].id = i

Holds(r) == \A i \in r.locked : devices[i] # NULL /\ devices[i].tenantID = r.tenant

LocksDisjoint == \A p, q \in Proc : p # q => req[p].locked \cap req[q].locked = {}

IInv ==
    /\ TypeOK
    /\ RowsCoherent
    /\ \A p \in Proc : RequestOK(req[p])
    /\ \A p \in Proc : Holds(req[p])
    /\ LocksDisjoint

\* A goroutine without a request.
LEMMA IdleOK == RequestOK(Idle) /\ Idle.locked = {}
  <1>1. Idle \in Request
    BY DEF Idle, Request, None, Op
  <1> QED
    BY <1>1 DEF RequestOK, Idle, None, Good

\* Replacing the request of one goroutine, and writing rows nobody else has
\* locked, keeps the invariant.
LEMMA Replace ==
    ASSUME IInv, NEW p \in Proc, NEW r, RequestOK(r),
           req' = [req EXCEPT ![p] = r],
           devices' \in [DeviceId -> Row \cup {NULL}],
           \A i \in DeviceId : devices'[i] # NULL => Coherent(devices'[i]),
           \A q \in Proc \ {p} : \A i \in req[q].locked : devices'[i] = devices[i],
           \A i \in r.locked : devices'[i] # NULL /\ devices'[i].tenantID = r.tenant,
           \A q \in Proc \ {p} : r.locked \cap req[q].locked = {}
    PROVE  IInv'
  <1> USE DEF IInv
  <1>1. TypeOK'
    BY DEF TypeOK, RequestOK
  <1>2. RowsCoherent'
    BY DEF RowsCoherent
  <1>3. \A q \in Proc : req'[q] = IF q = p THEN r ELSE req[q]
    BY DEF TypeOK
  <1>4. \A q \in Proc : RequestOK(req'[q])
    BY <1>3
  <1>5. ASSUME NEW q \in Proc, NEW i \in req'[q].locked
        PROVE  devices'[i] # NULL /\ devices'[i].tenantID = req'[q].tenant
    <2>1. CASE q = p
      BY <2>1, <1>3, <1>5
    <2>2. CASE q # p
      BY <2>2, <1>3, <1>5 DEF Holds
    <2> QED
      BY <2>1, <2>2
  <1>6. LocksDisjoint'
    BY <1>3 DEF LocksDisjoint
  <1> QED
    BY <1>1, <1>2, <1>4, <1>5, <1>6 DEF Holds, RequestOK, Good, Coherent, IsBound

\* A request ends and the table is as it was.
LEMMA Ends ==
    ASSUME IInv, NEW p \in Proc, Return(p), UNCHANGED devices
    PROVE  IInv'
  <1>1. devices' \in [DeviceId -> Row \cup {NULL}]
    BY DEF IInv, TypeOK
  <1>2. \A i \in DeviceId : devices'[i] # NULL => Coherent(devices'[i])
    BY DEF IInv, RowsCoherent
  <1> HIDE DEF IInv
  <1> QED
    BY <1>1, <1>2, IdleOK, Replace DEF Return

\* The domain methods leave a consistent row of the same tenant.
LEMMA Methods ==
    ASSUME NEW row \in Row, Coherent(row)
    PROVE  /\ Disabled(row) \in Row /\ Good(Disabled(row), row.tenantID)
           /\ Enabled(row) \in Row /\ (CanEnable(row) => Good(Enabled(row), row.tenantID))
           /\ Unbound(row) \in Row /\ Good(Unbound(row), row.tenantID)
           /\ \A name \in Name : LET s == [row EXCEPT !.name = name]
                                 IN  s \in Row /\ Good(s, row.tenantID)
           /\ \A lot \in Lot, gate \in Gate :
                Bound(row, lot, gate) \in Row /\ Good(Bound(row, lot, gate), row.tenantID)
  BY NullAssumption
  DEF Row, Status, Coherent, IsBound, Good, Disabled, Enabled, Unbound, Bound, CanEnable

\* A method on one device, from GetByID to its write.
LEMMA LoadStep ==
    ASSUME IInv, NEW p \in Proc, NEW op \in Op, NEW tenant \in Tenant,
           NEW i \in DeviceId, NEW row \in Row \cup {NULL}, Good(row, tenant),
           Load(p, op, tenant, i, row)
    PROVE  IInv'
  <1> DEFINE r == [pc |-> "write", op |-> op, tenant |-> tenant,
                   todo |-> <<[id |-> i, row |-> row]>>,
                   snap |-> [None EXCEPT ![i] = devices[i]],
                   locked |-> {}, copy |-> None]
  <1>1. devices \in [DeviceId -> Row \cup {NULL}]
    BY DEF IInv, TypeOK
  <1>2. r.todo \in Seq(Item) /\ r.snap \in [DeviceId -> Row \cup {NULL}]
        /\ r.copy \in [DeviceId -> Row \cup {NULL}]
    BY <1>1 DEF Item, None
  <1>3. r \in Request
    BY <1>2 DEF Request
  <1>4. RequestOK(r)
    BY <1>3 DEF RequestOK, None, Good
  <1>5. \A j \in DeviceId : devices'[j] # NULL => Coherent(devices'[j])
    BY DEF Load, IInv, RowsCoherent
  <1>6. req' = [req EXCEPT ![p] = r] /\ devices' = devices
    BY DEF Load
  <1>7. r.locked = {}
    OBVIOUS
  <1> HIDE DEF r
  <1> QED
    BY <1>1, <1>4, <1>5, <1>6, <1>7, Replace

\* The beginning of a batch.
LEMMA BeginStep ==
    ASSUME IInv, NEW p \in Proc, NEW op \in Op, NEW tenant \in Tenant,
           NEW items \in Seq(Item),
           \A k \in 1..Len(items) : Good(items[k].row, tenant),
           Begin(p, op, tenant, items)
    PROVE  IInv'
  <1> DEFINE r == [pc |-> "tx", op |-> op, tenant |-> tenant, todo |-> items,
                   snap |-> [i \in DeviceId |->
                               IF \E k \in DOMAIN items : items[k].id = i
                               THEN devices[i] ELSE NULL],
                   locked |-> {}, copy |-> None]
  <1>1. devices \in [DeviceId -> Row \cup {NULL}]
    BY DEF IInv, TypeOK
  <1>2. r.snap \in [DeviceId -> Row \cup {NULL}] /\ r.copy \in [DeviceId -> Row \cup {NULL}]
    BY <1>1 DEF None
  <1>3. r \in Request
    BY <1>2 DEF Request
  <1>4. RequestOK(r)
    BY <1>3 DEF RequestOK, None, Good
  <1>5. \A j \in DeviceId : devices'[j] # NULL => Coherent(devices'[j])
    BY DEF Begin, IInv, RowsCoherent
  <1>6. req' = [req EXCEPT ![p] = r] /\ devices' = devices
    BY DEF Begin
  <1>7. r.locked = {}
    OBVIOUS
  <1> HIDE DEF r
  <1> QED
    BY <1>1, <1>4, <1>5, <1>6, <1>7, Replace

\* The table is empty and nobody is doing anything.
LEMMA InitIInv == Init => IInv
  <1> SUFFICES ASSUME Init PROVE IInv
    OBVIOUS
  <1>1. TypeOK
    BY IdleOK DEF Init, TypeOK, None, RequestOK
  <1>2. \A p \in Proc : req[p] = Idle
    BY DEF Init
  <1>3. RowsCoherent
    BY DEF Init, RowsCoherent, None
  <1>4. LocksDisjoint
    BY <1>2, IdleOK DEF LocksDisjoint
  <1> QED
    BY <1>1, <1>2, <1>3, <1>4, IdleOK DEF IInv, Holds

\* Methods on one device keep the invariant.
LEMMA SingleStep ==
    ASSUME IInv, NEW p \in Proc,
           \/ Create(p) \/ UpdateName(p) \/ Bind(p) \/ Unbind(p)
           \/ Disable(p) \/ Enable(p) \/ Delete(p) \/ Write(p)
    PROVE  IInv'
  <1>1. devices \in [DeviceId -> Row \cup {NULL}]
    BY DEF IInv, TypeOK
  <1>2. \A tenant \in Tenant : \A i \in Find(tenant) :
            /\ i \in DeviceId /\ devices[i] \in Row /\ Coherent(devices[i])
            /\ devices[i].tenantID = tenant
    BY <1>1 DEF Find, IInv, RowsCoherent
  <1>3. CASE Create(p)
    <2>1. PICK i \in DeviceId, tenant \in Tenant, name \in Name :
            /\ devices[i] = NULL /\ ~Locked(p, i)
            /\ devices' = [devices EXCEPT ![i] = NewDevice(tenant, name)]
      BY <1>3 DEF Create
    <2>2. NewDevice(tenant, name) \in Row /\ Coherent(NewDevice(tenant, name))
      BY NullAssumption DEF NewDevice, Row, Status, Coherent, IsBound
    <2>3. devices' \in [DeviceId -> Row \cup {NULL}]
      BY <1>1, <2>1, <2>2
    <2>4. \A j \in DeviceId : devices'[j] # NULL => Coherent(devices'[j])
      BY <1>1, <2>1, <2>2 DEF IInv, RowsCoherent
    <2>5. \A q \in Proc : i \notin req[q].locked
      BY <2>1 DEF IInv, Holds
    <2>6. \A q \in Proc : req[q].locked \subseteq DeviceId
      BY DEF IInv, TypeOK, Request
    <2>7. \A q \in Proc : \A j \in req[q].locked : devices'[j] = devices[j]
      BY <1>1, <2>1, <2>5, <2>6
    <2>8. req' = [req EXCEPT ![p] = req[p]] /\ RequestOK(req[p])
      BY <1>3 DEF Create, IInv, TypeOK
    <2>9. \A j \in req[p].locked : devices'[j] # NULL /\ devices'[j].tenantID = req[p].tenant
      BY <2>7 DEF IInv, Holds
    <2>10. \A q \in Proc \ {p} : req[p].locked \cap req[q].locked = {}
      BY DEF IInv, LocksDisjoint
    <2> HIDE DEF IInv
    <2> QED
      BY <2>3, <2>4, <2>7, <2>8, <2>9, <2>10, Replace
  <1>4. CASE UpdateName(p)
    BY <1>2, <1>4, LoadStep, Methods DEF UpdateName, Op
  <1>5. CASE Bind(p)
    BY <1>2, <1>5, LoadStep, Methods DEF Bind, Op
  <1>6. CASE Unbind(p)
    BY <1>2, <1>6, LoadStep, Methods DEF Unbind, Op
  <1>7. CASE Disable(p)
    BY <1>2, <1>7, LoadStep, Methods DEF Disable, Op
  <1>8. CASE Enable(p)
    BY <1>2, <1>8, LoadStep, Methods DEF Enable, Op
  <1>9. CASE Delete(p)
    BY <1>2, <1>9, LoadStep DEF Delete, Op, Good
  <1>10. CASE Write(p)
    <2> DEFINE item == Head(req[p].todo)
    <2>1. RequestOK(req[p]) /\ req[p].pc = "write"
      BY <1>10 DEF IInv, Write
    <2>2. req[p].todo \in Seq(Item) /\ req[p].todo # <<>>
      BY <2>1 DEF RequestOK, Request
    <2>3. item \in Item /\ item = req[p].todo[1] /\ 1 \in 1..Len(req[p].todo)
      BY <2>2
    <2>4. item.id \in DeviceId /\ item.row \in Row \cup {NULL} /\ Good(item.row, req[p].tenant)
      BY <2>1, <2>3 DEF RequestOK, Item
    <2>5. devices' = [devices EXCEPT ![item.id] = item.row]
          /\ ~Locked(p, item.id) /\ req' = [req EXCEPT ![p] = Idle]
      BY <1>10 DEF Write, Return
    <2> HIDE DEF item
    <2>6. devices' \in [DeviceId -> Row \cup {NULL}]
      BY <1>1, <2>4, <2>5
    <2>7. \A j \in DeviceId : devices'[j] # NULL => Coherent(devices'[j])
      BY <1>1, <2>4, <2>5 DEF IInv, RowsCoherent, Good
    <2>8. \A q \in Proc : req[q].locked \subseteq DeviceId
      BY DEF IInv, TypeOK, Request
    <2>9. \A q \in Proc \ {p} : \A j \in req[q].locked : devices'[j] = devices[j]
      BY <1>1, <2>5, <2>8 DEF Locked
    <2> QED
      BY <2>5, <2>6, <2>7, <2>9, IdleOK, Replace
  <1> QED
    BY <1>3, <1>4, <1>5, <1>6, <1>7, <1>8, <1>9, <1>10

\* A batch over the devices of a list begins.
LEMMA BatchBegins ==
    ASSUME IInv, NEW p \in Proc, NEW op \in Op,
           NEW tenant \in Tenant, NEW ids \in Lists(tenant),
           NEW row, row \in [DOMAIN ids -> Row \cup {NULL}],
           \A k \in DOMAIN ids : Good(row[k], tenant),
           Begin(p, op, tenant, [k \in DOMAIN ids |-> [id |-> ids[k], row |-> row[k]]])
    PROVE  IInv'
  <1>1. PICK n \in 1..MaxBatch : ids \in [1..n -> Find(tenant)]
    BY DEF Lists
  <1>2. n \in Nat
    BY MaxBatchAssumption
  <1>3. Find(tenant) \subseteq DeviceId
    BY DEF Find
  <1> DEFINE items == [k \in DOMAIN ids |-> [id |-> ids[k], row |-> row[k]]]
  <1>4. items \in [1..n -> Item]
    BY <1>1, <1>3 DEF Item
  <1>5. items \in Seq(Item) /\ Len(items) = n
    BY <1>2, <1>4
  <1>6. \A k \in 1..Len(items) : Good(items[k].row, tenant)
    BY <1>1, <1>5
  <1>7. Begin(p, op, tenant, items)
    OBVIOUS
  <1> HIDE DEF items
  <1> QED
    BY <1>5, <1>6, <1>7, BeginStep

\* Batches keep the invariant.
LEMMA BatchStep ==
    ASSUME IInv, NEW p \in Proc,
           \/ BatchDisable(p) \/ BatchEnable(p) \/ BatchDelete(p) \/ BatchBind(p)
           \/ TxWrite(p) \/ Commit(p)
    PROVE  IInv'
  <1>1. devices \in [DeviceId -> Row \cup {NULL}]
    BY DEF IInv, TypeOK
  <1>2. \A tenant \in Tenant : \A ids \in Lists(tenant) : \A k \in DOMAIN ids :
            /\ ids[k] \in DeviceId
            /\ devices[ids[k]] \in Row /\ Coherent(devices[ids[k]])
            /\ devices[ids[k]].tenantID = tenant
    BY <1>1 DEF Lists, Find, IInv, RowsCoherent
  <1>3. CASE BatchDisable(p)
    <2>1. PICK tenant \in Tenant : \E ids \in Lists(tenant) :
            Begin(p, "disable", tenant,
              [k \in DOMAIN ids |-> [id |-> ids[k], row |-> Disabled(devices[ids[k]])]])
      BY <1>3 DEF BatchDisable
    <2>2. PICK ids \in Lists(tenant) :
            Begin(p, "disable", tenant,
              [k \in DOMAIN ids |-> [id |-> ids[k], row |-> Disabled(devices[ids[k]])]])
      BY <2>1
    <2> DEFINE row == [k \in DOMAIN ids |-> Disabled(devices[ids[k]])]
    <2>3. row \in [DOMAIN ids -> Row \cup {NULL}] /\ \A k \in DOMAIN ids : Good(row[k], tenant)
      BY <1>2, Methods
    <2>4. Begin(p, "disable", tenant, [k \in DOMAIN ids |-> [id |-> ids[k], row |-> row[k]]])
      BY <2>2
    <2> HIDE DEF row
    <2> QED
      BY <2>3, <2>4, BatchBegins DEF Op
  <1>4. CASE BatchEnable(p)
    <2>1. PICK tenant \in Tenant : \E ids \in Lists(tenant) :
            /\ \A k \in DOMAIN ids : CanEnable(devices[ids[k]])
            /\ Begin(p, "enable", tenant,
              [k \in DOMAIN ids |-> [id |-> ids[k], row |-> Enabled(devices[ids[k]])]])
      BY <1>4 DEF BatchEnable
    <2>2. PICK ids \in Lists(tenant) :
            /\ \A k \in DOMAIN ids : CanEnable(devices[ids[k]])
            /\ Begin(p, "enable", tenant,
              [k \in DOMAIN ids |-> [id |-> ids[k], row |-> Enabled(devices[ids[k]])]])
      BY <2>1
    <2> DEFINE row == [k \in DOMAIN ids |-> Enabled(devices[ids[k]])]
    <2>3. row \in [DOMAIN ids -> Row \cup {NULL}] /\ \A k \in DOMAIN ids : Good(row[k], tenant)
      BY <1>2, <2>2, Methods
    <2>4. Begin(p, "enable", tenant, [k \in DOMAIN ids |-> [id |-> ids[k], row |-> row[k]]])
      BY <2>2
    <2> HIDE DEF row
    <2> QED
      BY <2>3, <2>4, BatchBegins DEF Op
  <1>5. CASE BatchDelete(p)
    <2>1. PICK tenant \in Tenant : \E ids \in Lists(tenant) :
            Begin(p, "delete", tenant,
              [k \in DOMAIN ids |-> [id |-> ids[k], row |-> NULL]])
      BY <1>5 DEF BatchDelete
    <2>2. PICK ids \in Lists(tenant) :
            Begin(p, "delete", tenant,
              [k \in DOMAIN ids |-> [id |-> ids[k], row |-> NULL]])
      BY <2>1
    <2> DEFINE row == [k \in DOMAIN ids |-> NULL]
    <2>3. row \in [DOMAIN ids -> Row \cup {NULL}] /\ \A k \in DOMAIN ids : Good(row[k], tenant)
      BY DEF Good
    <2>4. Begin(p, "delete", tenant, [k \in DOMAIN ids |-> [id |-> ids[k], row |-> row[k]]])
      BY <2>2
    <2> HIDE DEF row
    <2> QED
      BY <2>3, <2>4, BatchBegins DEF Op
  <1>6. CASE BatchBind(p)
    <2>1. PICK tenant \in Tenant : \E ids \in Lists(tenant) :
            \E lots \in [DOMAIN ids -> Lot], gates \in [DOMAIN ids -> Gate] :
            Begin(p, "bind", tenant,
              [k \in DOMAIN ids |->
                 [id |-> ids[k], row |-> Bound(devices[ids[k]], lots[k], gates[k])]])
      BY <1>6 DEF BatchBind
    <2>2. PICK ids \in Lists(tenant) :
            \E lots \in [DOMAIN ids -> Lot], gates \in [DOMAIN ids -> Gate] :
            Begin(p, "bind", tenant,
              [k \in DOMAIN ids |->
                 [id |-> ids[k], row |-> Bound(devices[ids[k]], lots[k], gates[k])]])
      BY <2>1
    <2>3. PICK lots \in [DOMAIN ids -> Lot], gates \in [DOMAIN ids -> Gate] :
            Begin(p, "bind", tenant,
              [k \in DOMAIN ids |->
                 [id |-> ids[k], row |-> Bound(devices[ids[k]], lots[k], gates[k])]])
      BY <2>2
    <2> DEFINE row == [k \in DOMAIN ids |-> Bound(devices[ids[k]], lots[k], gates[k])]
    <2>4. row \in [DOMAIN ids -> Row \cup {NULL}] /\ \A k \in DOMAIN ids : Good(row[k], tenant)
      BY <1>2, Methods
    <2>5. Begin(p, "bind", tenant, [k \in DOMAIN ids |-> [id |-> ids[k], row |-> row[k]]])
      BY <2>3
    <2> HIDE DEF row
    <2> QED
      BY <2>4, <2>5, BatchBegins DEF Op
  <1>7. CASE TxWrite(p)
    <2> DEFINE item == Head(req[p].todo)
               r == [req[p] EXCEPT !.todo = Tail(req[p].todo),
                                   !.locked = req[p].locked \cup {item.id},
                                   !.copy = [req[p].copy EXCEPT ![item.id] = item.row]]
    <2>1. RequestOK(req[p]) /\ req[p] \in Request /\ req[p].pc = "tx" /\ req[p].todo # <<>>
      BY <1>7 DEF IInv, TxWrite, RequestOK
    <2>2. req[p].todo \in Seq(Item)
      BY <2>1 DEF Request
    <2>3. item \in Item /\ item = req[p].todo[1] /\ 1 \in 1..Len(req[p].todo)
      BY <2>1, <2>2
    <2>4. item.id \in DeviceId /\ item.row \in Row \cup {NULL} /\ Good(item.row, req[p].tenant)
      BY <2>1, <2>3 DEF RequestOK, Item
    <2>5. /\ req' = [req EXCEPT ![p] = r] /\ devices' = devices
          /\ ~Locked(p, item.id) /\ Matches(req[p].tenant, item.id)
      BY <1>7 DEF TxWrite
    <2>6. /\ Tail(req[p].todo) \in Seq(Item)
          /\ Len(Tail(req[p].todo)) = Len(req[p].todo) - 1 /\ Len(req[p].todo) \in Nat
          /\ \A k \in 1..Len(Tail(req[p].todo)) : Tail(req[p].todo)[k] = req[p].todo[k + 1]
      BY <2>1, <2>2
    <2> DEFINE t == Tail(req[p].todo)
    <2> HIDE DEF item
    <2>7. /\ r.pc = "tx" /\ r.op = req[p].op /\ r.tenant = req[p].tenant /\ r.todo = t
          /\ r.snap = req[p].snap /\ r.locked = req[p].locked \cup {item.id}
          /\ r.copy = [req[p].copy EXCEPT ![item.id] = item.row]
      BY <2>1 DEF Request
    <2>8. r \in Request
      BY <2>1, <2>4, <2>6 DEF Request
    <2> HIDE DEF r
    <2>9. \A k \in 1..Len(r.todo) : Good(r.todo[k].row, r.tenant)
      BY <2>1, <2>6, <2>7 DEF RequestOK
    <2>10. \A i \in DeviceId : Good(r.copy[i], r.tenant)
      <3>1. req[p].copy \in [DeviceId -> Row \cup {NULL}]
        BY <2>1 DEF Request
      <3>2. \A i \in DeviceId : r.copy[i] = IF i = item.id THEN item.row ELSE req[p].copy[i]
        BY <3>1, <2>7
      <3> QED
        BY <3>2, <2>1, <2>4, <2>7 DEF RequestOK
    <2>11. ASSUME NEW i \in DeviceId, r.snap[i] # NULL, i \notin r.locked
           PROVE  \E k \in 1..Len(r.todo) : r.todo[k].id = i
      <3>1. i \notin req[p].locked /\ i # item.id /\ req[p].snap[i] # NULL
        BY <2>11, <2>7
      <3>2. PICK k \in 1..Len(req[p].todo) : req[p].todo[k].id = i
        BY <3>1, <2>1 DEF RequestOK
      <3>3. k # 1
        BY <3>1, <3>2, <2>3
      <3>4. k - 1 \in 1..Len(t) /\ t[k - 1] = req[p].todo[k]
        BY <3>2, <3>3, <2>6
      <3> QED
        BY <3>2, <3>4, <2>7
    <2>12. RequestOK(r)
      BY <2>7, <2>8, <2>9, <2>10, <2>11 DEF RequestOK
    <2>13. \A j \in DeviceId : devices'[j] # NULL => Coherent(devices'[j])
      BY <2>5 DEF IInv, RowsCoherent
    <2>14. \A j \in r.locked : devices'[j] # NULL /\ devices'[j].tenantID = r.tenant
      BY <2>5, <2>7 DEF IInv, Holds, Matches
    <2>15. \A q \in Proc \ {p} : r.locked \cap req[q].locked = {}
      BY <2>5, <2>7 DEF IInv, LocksDisjoint, Locked
    <2> QED
      BY <1>1, <2>5, <2>12, <2>13, <2>14, <2>15, Replace
  <1>8. CASE Commit(p)
    <2>1. RequestOK(req[p]) /\ req[p].copy \in [DeviceId -> Row \cup {NULL}]
      BY DEF IInv, RequestOK, Request
    <2>2. \A j \in DeviceId :
            devices'[j] = IF j \in req[p].locked THEN req[p].copy[j] ELSE devices[j]
      BY <1>8 DEF Commit
    <2>3. devices' \in [DeviceId -> Row \cup {NULL}]
      BY <1>1, <1>8, <2>1 DEF Commit
    <2>4. \A j \in DeviceId : devices'[j] # NULL => Coherent(devices'[j])
      BY <2>1, <2>2 DEF RequestOK, Good, IInv, RowsCoherent
    <2>5. \A q \in Proc \ {p} : \A j \in req[q].locked : devices'[j] = devices[j]
      <3>1. \A q \in Proc : req[q].locked \subseteq DeviceId
        BY DEF IInv, TypeOK, Request
      <3> QED
        BY <3>1, <2>2 DEF IInv, LocksDisjoint
    <2>6. req' = [req EXCEPT ![p] = Idle]
      BY <1>8 DEF Commit, Return
    <2> QED
      BY <2>3, <2>4, <2>5, <2>6, IdleOK, Replace
  <1> QED
    BY <1>3, <1>4, <1>5, <1>6, <1>7, <1>8

\* Every step keeps the invariant.
LEMMA StepIInv == IInv /\ [Next]_vars => IInv'
  <1> SUFFICES ASSUME IInv, [Next]_vars PROVE IInv'
    OBVIOUS
  <1>1. CASE UNCHANGED vars
    BY <1>1 DEF vars, IInv, TypeOK, RowsCoherent, Holds, LocksDisjoint
  <1>2. CASE Crash
    <2>1. \A p \in Proc : req'[p] = Idle
      BY <1>2 DEF Crash
    <2>2. TypeOK'
      BY <1>2, IdleOK DEF Crash, IInv, TypeOK, RequestOK
    <2>3. RowsCoherent' /\ LocksDisjoint'
      BY <1>2, <2>1, IdleOK DEF Crash, IInv, RowsCoherent, LocksDisjoint
    <2> QED
      BY <2>1, <2>2, <2>3, IdleOK DEF IInv, Holds
  <1>3. ASSUME NEW p \in Proc, Fail(p) PROVE IInv'
    BY <1>3, Ends DEF Fail
  <1> QED
    BY <1>1, <1>2, <1>3, SingleStep, BatchStep DEF Next

\* The stored devices and the locals of every request keep their types.
THEOREM DeviceTypes == Spec => []TypeOK
  <1>1. IInv => TypeOK
    BY DEF IInv
  <1> QED
    BY <1>1, InitIInv, StepIInv, PTL DEF Spec

\* device_service.go on dao/device.go: for any number of overlapping requests
\* and batches every stored device has a gate exactly if it has a lot, and no
\* binding while it is pending.
THEOREM DevicesCoherent == Spec => []RowsCoherent
  <1>1. IInv => RowsCoherent
    BY DEF IInv
  <1> QED
    BY <1>1, InitIInv, StepIInv, PTL DEF Spec

-----------------------------------------------------------------------------
(* What a step may never do. *)

\* A request changes the table by the write that ends it or by its commit.
LEMMA Writers ==
    ASSUME IInv, [Next]_vars, NEW p \in Proc, NEW i \in DeviceId, Changes(p, i)
    PROVE  Write(p) \/ Commit(p)
  <1>1. devices' # devices /\ req'[p] # req[p]
    BY DEF Changes
  <1>2. Next /\ ~Crash
    BY <1>1 DEF vars, Crash
  <1>3. req \in [Proc -> Request]
    BY DEF IInv, TypeOK
  <1>4. PICK q \in Proc : Create(q) \/ Write(q) \/ Commit(q)
    <2>1. \A q \in Proc : Fail(q) \/ TxWrite(q) => devices' = devices
      BY DEF Fail, TxWrite
    <2>2. \A q \in Proc : UpdateName(q) \/ Bind(q) \/ Unbind(q) \/ Disable(q)
                            \/ Enable(q) \/ Delete(q) => devices' = devices
      BY DEF UpdateName, Bind, Unbind, Disable, Enable, Delete, Load
    <2>3. \A q \in Proc : BatchDisable(q) \/ BatchEnable(q) \/ BatchDelete(q)
                            \/ BatchBind(q) => devices' = devices
      BY DEF BatchDisable, BatchEnable, BatchDelete, BatchBind, Begin
    <2> QED
      BY <1>1, <1>2, <2>1, <2>2, <2>3 DEF Next
  <1>5. ~Create(q)
    BY <1>1 DEF Create
  <1>6. req' = [req EXCEPT ![q] = Idle]
    BY <1>4, <1>5 DEF Write, Commit, Return
  <1>7. q = p
    BY <1>1, <1>3, <1>6
  <1> QED
    BY <1>4, <1>5, <1>7

\* One step respects the tenants.
LEMMA IsolationStep ==
    ASSUME IInv, [Next]_vars, NEW p \in Proc, NEW i \in DeviceId, Changes(p, i)
    PROVE  /\ devices[i] # NULL /\ devices[i].tenantID = req[p].tenant
           /\ devices'[i] # NULL => devices'[i].tenantID = req[p].tenant
  <1>1. devices \in [DeviceId -> Row \cup {NULL}] /\ RequestOK(req[p])
    BY DEF IInv, TypeOK
  <1>2. devices'[i] # devices[i]
    BY DEF Changes
  <1>3. CASE Write(p)
    <2> DEFINE item == Head(req[p].todo)
    <2>1. req[p].todo \in Seq(Item) /\ req[p].todo # <<>>
      BY <1>1, <1>3 DEF Write, RequestOK, Request
    <2>2. item = req[p].todo[1] /\ 1 \in 1..Len(req[p].todo)
      BY <2>1
    <2>3. Good(item.row, req[p].tenant)
      BY <1>1, <2>2 DEF RequestOK
    <2>4. Matches(req[p].tenant, item.id) /\ devices' = [devices EXCEPT ![item.id] = item.row]
      BY <1>3 DEF Write
    <2> HIDE DEF item
    <2>5. i = item.id /\ devices'[i] = item.row
      BY <1>1, <1>2, <2>4
    <2> QED
      BY <2>3, <2>4, <2>5 DEF Matches, Good
  <1>4. CASE Commit(p)
    <2>1. devices'[i] = IF i \in req[p].locked THEN req[p].copy[i] ELSE devices[i]
      BY <1>4 DEF Commit
    <2>2. i \in req[p].locked /\ devices'[i] = req[p].copy[i]
      BY <1>2, <2>1
    <2> QED
      BY <1>1, <2>2 DEF IInv, Holds, RequestOK, Good
  <1> QED
    BY <1>3, <1>4, Writers

\* One step of a batch shows all of it or nothing.
LEMMA AtomicStep ==
    ASSUME IInv, [Next]_vars, NEW p \in Proc, req[p].pc = "tx",
           NEW j \in DeviceId, Changes(p, j), NEW i \in DeviceId, req[p].snap[i] # NULL
    PROVE  i \in req[p].locked /\ devices'[i] = req[p].copy[i]
  <1>1. Commit(p)
    BY Writers DEF Write
  <1>2. RequestOK(req[p]) /\ req[p].todo = <<>>
    BY <1>1 DEF IInv, Commit
  <1>3. i \in req[p].locked
    BY <1>2 DEF RequestOK
  <1> QED
    BY <1>1, <1>3 DEF Commit

\* WHERE tenant_id = ? in every statement of dao/device.go: no request changes
\* a device of another tenant, whatever happened since it read.
THEOREM TenantsIsolated == Spec => TenantIsolation
  <1>1. IInv /\ [Next]_vars =>
          [\A p \in Proc, i \in DeviceId : Changes(p, i) =>
            /\ devices[i] # NULL /\ devices[i].tenantID = req[p].tenant
            /\ devices'[i] # NULL => devices'[i].tenantID = req[p].tenant]_vars
    BY IsolationStep
  <1> QED
    BY <1>1, InitIInv, StepIInv, PTL DEF Spec, TenantIsolation

\* Transaction of device_repo.go around the loops of the batch methods: a batch
\* becomes visible at one moment, for all the devices it read.
THEOREM BatchesAtomic == Spec => AllOrNothing
  <1>1. IInv /\ [Next]_vars =>
          [\A p \in Proc : req[p].pc = "tx" /\ (\E i \in DeviceId : Changes(p, i)) =>
            \A i \in DeviceId : req[p].snap[i] # NULL =>
              i \in req[p].locked /\ devices'[i] = req[p].copy[i]]_vars
    BY AtomicStep
  <1> QED
    BY <1>1, InitIInv, StepIInv, PTL DEF Spec, AllOrNothing

\* Transaction of device_repo.go ends every batch, by commit or rollback: who
\* waits for a row waits for a batch that is still going.
THEOREM WaitsEnd == Spec => []WaitsForOpenBatch
  <1>1. IInv => WaitsForOpenBatch
    <2> SUFFICES ASSUME IInv, NEW p \in Proc, NEW q \in Proc, WaitsFor(p, q)
                 PROVE  req[q].pc = "tx"
      BY DEF WaitsForOpenBatch
    <2>1. req[q].locked # {}
      BY DEF WaitsFor
    <2> QED
      BY <2>1 DEF IInv, RequestOK
  <1> QED
    BY <1>1, InitIInv, StepIInv, PTL DEF Spec

-----------------------------------------------------------------------------
(* What a request writes comes from what it read. *)

\* The row that r writes for device i follows from the row it read there: a
\* deleted device was not bound, an updated one keeps the other columns.
From(r, i, row) ==
    IF row = NULL THEN ~IsBound(r.snap[i]) ELSE Same(Untouched(r.op), r.snap[i], row)

DerivedOK(r) ==
    /\ \A k \in 1..Len(r.todo) : From(r, r.todo[k].id, r.todo[k].row)
    /\ \A i \in r.locked : From(r, i, r.copy[i])

DInv == IInv /\ \A p \in Proc : DerivedOK(req[p])

\* The domain methods change the columns they are about and no other.
LEMMA MethodsKeep ==
    ASSUME NEW row \in Row
    PROVE  /\ Same(Untouched("disable"), row, Disabled(row))
           /\ Same(Untouched("enable"), row, Enabled(row))
           /\ Same(Untouched("unbind"), row, Unbound(row))
           /\ \A name \in Name : Same(Untouched("name"), row, [row EXCEPT !.name = name])
           /\ \A lot \in Lot, gate \in Gate :
                Same(Untouched("bind"), row, Bound(row, lot, gate))
  <1>1. /\ Untouched("disable") = {"name", "parkingLotID", "gateID"}
        /\ Untouched("enable") = {"name", "parkingLotID", "gateID"}
        /\ Untouched("unbind") = {"name", "status"}
        /\ Untouched("name") = {"status", "parkingLotID", "gateID"}
        /\ Untouched("bind") = {"name"}
    BY DEF Untouched
  <1>2. /\ Disabled(row).name = row.name /\ Disabled(row).parkingLotID = row.parkingLotID
        /\ Disabled(row).gateID = row.gateID
        /\ Enabled(row).name = row.name /\ Enabled(row).parkingLotID = row.parkingLotID
        /\ Enabled(row).gateID = row.gateID
        /\ Unbound(row).name = row.name /\ Unbound(row).status = row.status
    BY DEF Row, Disabled, Enabled, Unbound
  <1>3. ASSUME NEW name \in Name
        PROVE  Same(Untouched("name"), row, [row EXCEPT !.name = name])
    BY <1>1 DEF Same, Row
  <1>4. ASSUME NEW lot \in Lot, NEW gate \in Gate
        PROVE  Same(Untouched("bind"), row, Bound(row, lot, gate))
    BY <1>1 DEF Same, Row, Bound
  <1> QED
    BY <1>1, <1>2, <1>3, <1>4 DEF Same

\* One goroutine gets locals that are derived from what it read.
LEMMA ReplaceDerived ==
    ASSUME DInv, NEW p \in Proc, NEW r, DerivedOK(r), req' = [req EXCEPT ![p] = r]
    PROVE  \A q \in Proc : DerivedOK(req'[q])
  <1>1. \A q \in Proc : req'[q] = IF q = p THEN r ELSE req[q]
    BY DEF DInv, IInv, TypeOK
  <1> QED
    BY <1>1 DEF DInv

\* A goroutine without a request writes nothing.
LEMMA IdleDerived == DerivedOK(Idle)
  BY DEF DerivedOK, Idle

\* A method on one device writes what follows from the row it read.
LEMMA LoadDerived ==
    ASSUME DInv, NEW p \in Proc, NEW op \in Op, NEW tenant \in Tenant,
           NEW i \in DeviceId, NEW row \in Row \cup {NULL}, Load(p, op, tenant, i, row),
           IF row = NULL THEN ~IsBound(devices[i]) ELSE Same(Untouched(op), devices[i], row)
    PROVE  \A q \in Proc : DerivedOK(req'[q])
  <1> DEFINE r == [pc |-> "write", op |-> op, tenant |-> tenant,
                   todo |-> <<[id |-> i, row |-> row]>>,
                   snap |-> [None EXCEPT ![i] = devices[i]],
                   locked |-> {}, copy |-> None]
  <1>1. Len(r.todo) = 1 /\ r.todo[1].id = i /\ r.todo[1].row = row /\ r.op = op
        /\ r.snap[i] = devices[i] /\ r.locked = {}
    BY DEF None
  <1>2. req' = [req EXCEPT ![p] = r]
    BY DEF Load
  <1> HIDE DEF r
  <1>3. From(r, r.todo[1].id, r.todo[1].row)
    BY <1>1 DEF From
  <1>4. DerivedOK(r)
    BY <1>1, <1>3 DEF DerivedOK
  <1> QED
    BY <1>2, <1>4, ReplaceDerived

\* A batch writes what follows from the rows it read.
LEMMA BatchDerived ==
    ASSUME DInv, NEW p \in Proc, NEW op \in Op,
           NEW tenant \in Tenant, NEW ids \in Lists(tenant),
           NEW row, row \in [DOMAIN ids -> Row \cup {NULL}],
           \A k \in DOMAIN ids :
              IF row[k] = NULL THEN ~IsBound(devices[ids[k]])
              ELSE Same(Untouched(op), devices[ids[k]], row[k]),
           Begin(p, op, tenant, [k \in DOMAIN ids |-> [id |-> ids[k], row |-> row[k]]])
    PROVE  \A q \in Proc : DerivedOK(req'[q])
  <1>1. PICK n \in 1..MaxBatch : ids \in [1..n -> Find(tenant)]
    BY DEF Lists
  <1>2. n \in Nat
    BY MaxBatchAssumption
  <1>3. Find(tenant) \subseteq DeviceId
    BY DEF Find
  <1> DEFINE items == [k \in DOMAIN ids |-> [id |-> ids[k], row |-> row[k]]]
             r == [pc |-> "tx", op |-> op, tenant |-> tenant, todo |-> items,
                   snap |-> [i \in DeviceId |->
                               IF \E k \in DOMAIN items : items[k].id = i
                               THEN devices[i] ELSE NULL],
                   locked |-> {}, copy |-> None]
  <1>4. items \in [1..n -> Item]
    BY <1>1, <1>3 DEF Item
  <1>5. Len(items) = n /\ DOMAIN items = 1..n
    BY <1>2, <1>4
  <1>6. \A k \in 1..n : items[k].id = ids[k] /\ items[k].row = row[k] /\ ids[k] \in DeviceId
    BY <1>1, <1>3
  <1>7. req' = [req EXCEPT ![p] = r]
    BY DEF Begin
  <1> HIDE DEF items
  <1>8. /\ r.todo = items /\ r.op = op /\ r.locked = {}
        /\ \A k \in 1..n : r.snap[ids[k]] = devices[ids[k]]
    BY <1>5, <1>6
  <1> HIDE DEF r
  <1>9. \A k \in 1..n : From(r, items[k].id, items[k].row)
    BY <1>1, <1>6, <1>8 DEF From
  <1>10. DerivedOK(r)
    BY <1>5, <1>8, <1>9 DEF DerivedOK
  <1> QED
    BY <1>7, <1>10, ReplaceDerived

\* A write of a batch moves one row from what is to do to what is done.
LEMMA TxWriteDerived ==
    ASSUME DInv, NEW p \in Proc, TxWrite(p)
    PROVE  \A q \in Proc : DerivedOK(req'[q])
  <1> DEFINE item == Head(req[p].todo)
             t == Tail(req[p].todo)
             r == [req[p] EXCEPT !.todo = t,
                                 !.locked = req[p].locked \cup {item.id},
                                 !.copy = [req[p].copy EXCEPT ![item.id] = item.row]]
  <1>1. /\ req[p] \in Request /\ req[p].todo # <<>> /\ DerivedOK(req[p])
        /\ req' = [req EXCEPT ![p] = r]
    BY DEF TxWrite, DInv, IInv, TypeOK
  <1>2. req[p].todo \in Seq(Item) /\ req[p].copy \in [DeviceId -> Row \cup {NULL}]
        /\ req[p].locked \subseteq DeviceId
    BY <1>1 DEF Request
  <1>3. /\ item = req[p].todo[1] /\ 1 \in 1..Len(req[p].todo) /\ item \in Item
        /\ Len(t) = Len(req[p].todo) - 1 /\ Len(req[p].todo) \in Nat
        /\ \A k \in 1..Len(t) : t[k] = req[p].todo[k + 1]
    BY <1>1, <1>2
  <1>4. item.id \in DeviceId
    BY <1>3 DEF Item
  <1> HIDE DEF item, t
  <1>5. /\ r.op = req[p].op /\ r.snap = req[p].snap /\ r.todo = t
        /\ r.locked = req[p].locked \cup {item.id}
        /\ r.copy = [req[p].copy EXCEPT ![item.id] = item.row]
    BY <1>1 DEF Request
  <1> HIDE DEF r
  <1>6. \A i, row : From(r, i, row) <=> From(req[p], i, row)
    BY <1>5 DEF From
  <1>7. \A k \in 1..Len(r.todo) : From(r, r.todo[k].id, r.todo[k].row)
    <2> SUFFICES ASSUME NEW k \in 1..Len(t) PROVE From(r, t[k].id, t[k].row)
      BY <1>5
    <2>1. k + 1 \in 1..Len(req[p].todo) /\ t[k] = req[p].todo[k + 1]
      BY <1>3
    <2> QED
      BY <1>1, <1>6, <2>1 DEF DerivedOK
  <1>8. ASSUME NEW i \in r.locked PROVE From(r, i, r.copy[i])
    <2>1. CASE i = item.id
      <3>1. r.copy[i] = item.row
        BY <1>2, <1>4, <1>5, <2>1
      <3> QED
        BY <1>1, <1>3, <1>6, <2>1, <3>1 DEF DerivedOK
    <2>2. CASE i # item.id
      <3>1. i \in req[p].locked /\ r.copy[i] = req[p].copy[i]
        BY <1>2, <1>5, <1>8, <2>2
      <3> QED
        BY <1>1, <1>6, <3>1 DEF DerivedOK
    <2> QED
      BY <2>1, <2>2
  <1>9. DerivedOK(r)
    BY <1>7, <1>8 DEF DerivedOK
  <1> QED
    BY <1>1, <1>9, ReplaceDerived

\* Every step keeps what requests write derived from what they read.
LEMMA StepDInv == DInv /\ [Next]_vars => DInv'
  <1> SUFFICES ASSUME DInv, [Next]_vars PROVE \A q \in Proc : DerivedOK(req'[q])
    BY StepIInv DEF DInv, DerivedOK, From
  <1>1. devices \in [DeviceId -> Row \cup {NULL}]
    BY DEF DInv, IInv, TypeOK
  <1>2. \A tenant \in Tenant : \A i \in Find(tenant) :
            i \in DeviceId /\ devices[i] \in Row /\ devices[i] # NULL
    BY <1>1 DEF Find
  <1>3. \A row \in Row : /\ row # NULL /\ Disabled(row) \in Row /\ Enabled(row) \in Row
                         /\ Unbound(row) \in Row
                         /\ \A name \in Name : [row EXCEPT !.name = name] \in Row
                         /\ \A lot \in Lot, gate \in Gate : Bound(row, lot, gate) \in Row
    BY NullAssumption DEF Row, Status, Disabled, Enabled, Unbound, Bound
  <1>4. ASSUME NEW p \in Proc, Create(p) PROVE \A q \in Proc : DerivedOK(req'[q])
    BY <1>4 DEF Create, DInv
  <1>5. ASSUME NEW p \in Proc, UpdateName(p) PROVE \A q \in Proc : DerivedOK(req'[q])
    BY <1>2, <1>3, <1>5, LoadDerived, MethodsKeep DEF UpdateName, Op
  <1>6. ASSUME NEW p \in Proc, Bind(p) PROVE \A q \in Proc : DerivedOK(req'[q])
    BY <1>2, <1>3, <1>6, LoadDerived, MethodsKeep DEF Bind, Op
  <1>7. ASSUME NEW p \in Proc, Unbind(p) PROVE \A q \in Proc : DerivedOK(req'[q])
    BY <1>2, <1>3, <1>7, LoadDerived, MethodsKeep DEF Unbind, Op
  <1>8. ASSUME NEW p \in Proc, Disable(p) PROVE \A q \in Proc : DerivedOK(req'[q])
    BY <1>2, <1>3, <1>8, LoadDerived, MethodsKeep DEF Disable, Op
  <1>9. ASSUME NEW p \in Proc, Enable(p) PROVE \A q \in Proc : DerivedOK(req'[q])
    BY <1>2, <1>3, <1>9, LoadDerived, MethodsKeep DEF Enable, Op
  <1>10. ASSUME NEW p \in Proc, Delete(p) PROVE \A q \in Proc : DerivedOK(req'[q])
    BY <1>2, <1>10, LoadDerived DEF Delete, Op
  <1>11. ASSUME NEW p \in Proc, Write(p) \/ Commit(p) \/ Fail(p)
         PROVE  \A q \in Proc : DerivedOK(req'[q])
    BY <1>11, IdleDerived, ReplaceDerived DEF Write, Commit, Fail, Return
  <1>12. \A tenant \in Tenant : \A ids \in Lists(tenant) : \A k \in DOMAIN ids :
            ids[k] \in DeviceId /\ devices[ids[k]] \in Row
    BY <1>1 DEF Lists, Find
  <1>13. ASSUME NEW p \in Proc, BatchDisable(p) PROVE \A q \in Proc : DerivedOK(req'[q])
    <2>0. PICK tenant \in Tenant : \E ids \in Lists(tenant) :
            Begin(p, "disable", tenant,
              [k \in DOMAIN ids |-> [id |-> ids[k], row |-> Disabled(devices[ids[k]])]])
      BY <1>13 DEF BatchDisable
    <2>1. PICK ids \in Lists(tenant) :
            Begin(p, "disable", tenant,
              [k \in DOMAIN ids |-> [id |-> ids[k], row |-> Disabled(devices[ids[k]])]])
      BY <2>0
    <2> DEFINE row == [k \in DOMAIN ids |-> Disabled(devices[ids[k]])]
    <2>2. /\ row \in [DOMAIN ids -> Row \cup {NULL}]
          /\ \A k \in DOMAIN ids : row[k] # NULL
                                   /\ Same(Untouched("disable"), devices[ids[k]], row[k])
      BY <1>3, <1>12, MethodsKeep
    <2>3. Begin(p, "disable", tenant, [k \in DOMAIN ids |-> [id |-> ids[k], row |-> row[k]]])
      BY <2>1
    <2> HIDE DEF row
    <2> QED
      BY <2>2, <2>3, BatchDerived DEF Op
  <1>14. ASSUME NEW p \in Proc, BatchEnable(p) PROVE \A q \in Proc : DerivedOK(req'[q])
    <2>0. PICK tenant \in Tenant : \E ids \in Lists(tenant) :
            Begin(p, "enable", tenant,
              [k \in DOMAIN ids |-> [id |-> ids[k], row |-> Enabled(devices[ids[k]])]])
      BY <1>14 DEF BatchEnable
    <2>1. PICK ids \in Lists(tenant) :
            Begin(p, "enable", tenant,
              [k \in DOMAIN ids |-> [id |-> ids[k], row |-> Enabled(devices[ids[k]])]])
      BY <2>0
    <2> DEFINE row == [k \in DOMAIN ids |-> Enabled(devices[ids[k]])]
    <2>2. /\ row \in [DOMAIN ids -> Row \cup {NULL}]
          /\ \A k \in DOMAIN ids : row[k] # NULL
                                   /\ Same(Untouched("enable"), devices[ids[k]], row[k])
      BY <1>3, <1>12, MethodsKeep
    <2>3. Begin(p, "enable", tenant, [k \in DOMAIN ids |-> [id |-> ids[k], row |-> row[k]]])
      BY <2>1
    <2> HIDE DEF row
    <2> QED
      BY <2>2, <2>3, BatchDerived DEF Op
  <1>15. ASSUME NEW p \in Proc, BatchDelete(p) PROVE \A q \in Proc : DerivedOK(req'[q])
    <2>0. PICK tenant \in Tenant : \E ids \in Lists(tenant) :
            /\ \A k \in DOMAIN ids : ~IsBound(devices[ids[k]])
            /\ Begin(p, "delete", tenant,
                 [k \in DOMAIN ids |-> [id |-> ids[k], row |-> NULL]])
      BY <1>15 DEF BatchDelete
    <2>1. PICK ids \in Lists(tenant) :
            /\ \A k \in DOMAIN ids : ~IsBound(devices[ids[k]])
            /\ Begin(p, "delete", tenant,
                 [k \in DOMAIN ids |-> [id |-> ids[k], row |-> NULL]])
      BY <2>0
    <2> DEFINE row == [k \in DOMAIN ids |-> NULL]
    <2>2. /\ row \in [DOMAIN ids -> Row \cup {NULL}]
          /\ \A k \in DOMAIN ids : row[k] = NULL /\ ~IsBound(devices[ids[k]])
      BY <2>1
    <2>3. Begin(p, "delete", tenant, [k \in DOMAIN ids |-> [id |-> ids[k], row |-> row[k]]])
      BY <2>1
    <2> HIDE DEF row
    <2> QED
      BY <2>2, <2>3, BatchDerived DEF Op
  <1>16. ASSUME NEW p \in Proc, BatchBind(p) PROVE \A q \in Proc : DerivedOK(req'[q])
    <2>0. PICK tenant \in Tenant : \E ids \in Lists(tenant) :
            \E lots \in [DOMAIN ids -> Lot], gates \in [DOMAIN ids -> Gate] :
              Begin(p, "bind", tenant,
                [k \in DOMAIN ids |->
                   [id |-> ids[k], row |-> Bound(devices[ids[k]], lots[k], gates[k])]])
      BY <1>16 DEF BatchBind
    <2>1. PICK ids \in Lists(tenant) :
            \E lots \in [DOMAIN ids -> Lot], gates \in [DOMAIN ids -> Gate] :
              Begin(p, "bind", tenant,
                [k \in DOMAIN ids |->
                   [id |-> ids[k], row |-> Bound(devices[ids[k]], lots[k], gates[k])]])
      BY <2>0
    <2>2. PICK lots \in [DOMAIN ids -> Lot], gates \in [DOMAIN ids -> Gate] :
            Begin(p, "bind", tenant,
              [k \in DOMAIN ids |->
                 [id |-> ids[k], row |-> Bound(devices[ids[k]], lots[k], gates[k])]])
      BY <2>1
    <2> DEFINE row == [k \in DOMAIN ids |-> Bound(devices[ids[k]], lots[k], gates[k])]
    <2>3. /\ row \in [DOMAIN ids -> Row \cup {NULL}]
          /\ \A k \in DOMAIN ids : row[k] # NULL
                                   /\ Same(Untouched("bind"), devices[ids[k]], row[k])
      BY <1>3, <1>12, MethodsKeep
    <2>4. Begin(p, "bind", tenant, [k \in DOMAIN ids |-> [id |-> ids[k], row |-> row[k]]])
      BY <2>2
    <2> HIDE DEF row
    <2> QED
      BY <2>3, <2>4, BatchDerived DEF Op
  <1>17. ASSUME NEW p \in Proc, TxWrite(p) PROVE \A q \in Proc : DerivedOK(req'[q])
    BY <1>17, TxWriteDerived
  <1>18. CASE Crash
    BY <1>18, IdleDerived DEF Crash
  <1>19. CASE UNCHANGED vars
    BY <1>19 DEF vars, DInv
  <1> QED
    BY <1>4, <1>5, <1>6, <1>7, <1>8, <1>9, <1>10, <1>11, <1>13, <1>14, <1>15, <1>16,
       <1>17, <1>18, <1>19 DEF Next

\* A request that changes a row which is still as it read it writes a row, or
\* deletes one, as the domain method allows.
LEMMA DerivedStep ==
    ASSUME DInv, [Next]_vars, NEW p \in Proc, NEW i \in DeviceId, Changes(p, i),
           req[p].snap[i] = devices[i]
    PROVE  /\ devices'[i] # NULL => Same(Untouched(req[p].op), devices[i], devices'[i])
           /\ devices'[i] = NULL => ~IsBound(devices[i])
  <1>1. devices \in [DeviceId -> Row \cup {NULL}] /\ RequestOK(req[p]) /\ DerivedOK(req[p])
        /\ devices'[i] # devices[i]
    BY DEF DInv, IInv, TypeOK, Changes
  <1>2. From(req[p], i, devices'[i])
    <2>1. CASE Write(p)
      <3> DEFINE item == Head(req[p].todo)
      <3>1. req[p].todo \in Seq(Item) /\ req[p].todo # <<>>
        BY <1>1, <2>1 DEF Write, RequestOK, Request
      <3>2. item = req[p].todo[1] /\ 1 \in 1..Len(req[p].todo)
        BY <3>1
      <3>3. From(req[p], item.id, item.row)
        BY <1>1, <3>2 DEF DerivedOK
      <3>4. devices' = [devices EXCEPT ![item.id] = item.row]
        BY <2>1 DEF Write
      <3> HIDE DEF item
      <3>5. i = item.id /\ devices'[i] = item.row
        BY <1>1, <3>4
      <3> QED
        BY <3>3, <3>5
    <2>2. CASE Commit(p)
      <3>1. i \in req[p].locked /\ devices'[i] = req[p].copy[i]
        BY <1>1, <2>2 DEF Commit
      <3> QED
        BY <1>1, <3>1 DEF DerivedOK
    <2> QED
      BY <2>1, <2>2, Writers DEF DInv
  <1> QED
    BY <1>2 DEF From

\* At the start nobody has read anything.
LEMMA InitDInv == Init => DInv
  BY InitIInv, IdleDerived DEF Init, DInv

\* Update of dao/device.go writes every column of the row that was read: an
\* operation takes back a column it is not about only when it was overtaken.
THEOREM UndoOnlyWhenOvertaken == Spec => OnlyOvertakenUndo
  <1>1. DInv /\ [Next]_vars =>
          [\A p \in Proc, i \in DeviceId :
            Changes(p, i) /\ devices'[i] # NULL /\ req[p].snap[i] = devices[i]
            => Same(Untouched(req[p].op), devices[i], devices'[i])]_vars
    BY DerivedStep
  <1> QED
    BY <1>1, InitDInv, StepDInv, PTL DEF Spec, OnlyOvertakenUndo

\* Delete and BatchDelete remove a bound device only if it was bound after they
\* checked it.
THEOREM BoundDevicesStay == Spec => DeletedBoundOnlyWhenOvertaken
  <1>1. DInv /\ [Next]_vars =>
          [\A p \in Proc, i \in DeviceId :
            Changes(p, i) /\ devices'[i] = NULL /\ req[p].snap[i] = devices[i]
            => ~IsBound(devices[i])]_vars
    BY DerivedStep
  <1> QED
    BY <1>1, InitDInv, StepDInv, PTL DEF Spec, DeletedBoundOnlyWhenOvertaken

=============================================================================
