---------------------------- MODULE TenancyProofs ----------------------------
(***************************************************************************)
(* The tenants and parking lots tables keep their promises for any number  *)
(* of requests, tenants, lots, texts and spaces.                           *)
(*                                                                         *)
(* The argument: what a request holds in memory is a row that may be       *)
(* stored as it is (the last conjuncts of TenantInv and LotInv), so it     *)
(* does not matter how old it is when it is written.                       *)
(*                                                                         *)
(* The copy of a request differs from the row it read only in the columns  *)
(* the request is about (CopiesDerived), so a request that was not         *)
(* overtaken takes nothing back.  Every row of a list is on the one page   *)
(* its rank among the listed rows falls on (OnOnePage).                    *)
(***************************************************************************)
EXTENDS Tenancy, TLAPS, FiniteSetTheorems

TenantInv ==
    /\ TenantTypeOK
    /\ TenantNamesDistinct
    /\ \A p \in Proc : treq[p].pc # "idle" => treq[p].copy \in Tenant

Fits(row) == row.available <= row.total

LotInv ==
    /\ LotTypeOK
    /\ CapacityHolds
    /\ \A p \in Proc : lreq[p].pc # "idle" => lreq[p].copy \in ParkingLot /\ Fits(lreq[p].copy)

-----------------------------------------------------------------------------
\* A goroutine takes up or gives up a request on tenants.
LEMMA TenantReplace ==
    ASSUME TenantInv, NEW p \in Proc, NEW r \in TenantRequest,
           r.pc # "idle" => r.copy \in Tenant,
           treq' = [treq EXCEPT ![p] = r], UNCHANGED tenants
    PROVE  TenantInv'
  BY DEF TenantInv, TenantTypeOK, TenantNamesDistinct, Existing

\* TenantIdle is a request.
LEMMA TenantIdleOK == TenantIdle \in TenantRequest /\ TenantIdle.pc = "idle"
  BY MaxTenantsAssumption DEF TenantIdle, TenantRequest

\* A method that reads tenant i and is going to write row.
LEMMA LoadTenantOK ==
    ASSUME TenantInv, NEW p \in Proc, NEW i \in Existing, NEW row \in Tenant,
           NEW sets \in SUBSET (TextColumn \cup {"status"}), LoadTenant(p, i, row, sets)
    PROVE  TenantInv'
  <1> DEFINE r == [pc |-> "write", id |-> i, copy |-> row, snap |-> tenants[i], sets |-> sets]
  <1>1. i \in 0..MaxTenants /\ tenants[i] \in Tenant \cup {NULL}
    BY MaxTenantsAssumption DEF TenantInv, TenantTypeOK, Existing
  <1>2. r \in TenantRequest /\ r.copy \in Tenant
    BY <1>1 DEF TenantRequest
  <1>3. treq' = [treq EXCEPT ![p] = r] /\ UNCHANGED tenants
    BY DEF LoadTenant
  <1> HIDE DEF r
  <1> QED
    BY <1>2, <1>3, TenantReplace

\* A row gets new contents, none or some whose name no other row has.
LEMMA TenantWritten ==
    ASSUME TenantInv, NEW p \in Proc, NEW i \in Existing, NEW row \in Tenant \cup {NULL},
           row # NULL => ~NameTaken(i, row.name),
           tenants' = [tenants EXCEPT ![i] = row],
           treq' = [treq EXCEPT ![p] = TenantIdle] \/ UNCHANGED treq
    PROVE  TenantInv'
  <1>1. /\ tenants' \in Seq(Tenant \cup {NULL}) /\ Len(tenants') = Len(tenants)
        /\ \A j \in DOMAIN tenants : tenants'[j] = IF j = i THEN row ELSE tenants[j]
        /\ DOMAIN tenants' = DOMAIN tenants
    BY DEF TenantInv, TenantTypeOK, Existing
  <1>2. TenantTypeOK'
    BY <1>1, TenantIdleOK DEF TenantInv, TenantTypeOK
  <1>3. TenantNamesDistinct'
    BY <1>1 DEF TenantInv, TenantNamesDistinct, Existing, NameTaken
  <1>4. \A q \in Proc : treq'[q].pc # "idle" => treq'[q].copy \in Tenant
    BY TenantIdleOK DEF TenantInv, TenantTypeOK
  <1> QED
    BY <1>2, <1>3, <1>4 DEF TenantInv

\* Every step of a request on tenants keeps the invariant.
LEMMA TenantStep == ASSUME TenantInv, NEW p \in Proc, TenantNext(p) PROVE TenantInv'
  <1>1. CASE CreateTenant(p)
    <2>1. PICK name \in Text, remark \in Text :
            treq' = [treq EXCEPT ![p] =
              [pc |-> "insert", id |-> 0, copy |-> NewTenant(name, remark),
               snap |-> NULL, sets |-> {}]]
      BY <1>1 DEF CreateTenant
    <2> DEFINE r == [pc |-> "insert", id |-> 0, copy |-> NewTenant(name, remark),
                     snap |-> NULL, sets |-> {}]
    <2>2. NewTenant(name, remark) \in Tenant
      BY DEF NewTenant, Tenant
    <2>3. r \in TenantRequest /\ r.copy \in Tenant
      BY <2>2, MaxTenantsAssumption DEF TenantRequest
    <2>4. treq' = [treq EXCEPT ![p] = r] /\ UNCHANGED tenants
      BY <1>1, <2>1 DEF CreateTenant
    <2> HIDE DEF r
    <2> QED
      BY <2>3, <2>4, TenantReplace
  <1>2. CASE InsertTenant(p)
    <2> DEFINE row == treq[p].copy
    <2>1. row \in Tenant /\ row # NULL
      BY <1>2, TenantNullAssumption DEF InsertTenant, TenantInv
    <2>2. tenants' = Append(tenants, row) /\ ~NameTaken(0, row.name) /\ Len(tenants) < MaxTenants
      BY <1>2 DEF InsertTenant
    <2>3. treq' = [treq EXCEPT ![p] = TenantIdle]
      BY <1>2 DEF InsertTenant, TenantReturn
    <2> HIDE DEF row
    <2>4. tenants \in Seq(Tenant \cup {NULL})
      BY DEF TenantInv, TenantTypeOK
    <2>5. /\ tenants' \in Seq(Tenant \cup {NULL}) /\ Len(tenants') = Len(tenants) + 1
          /\ \A j \in 1..Len(tenants) : tenants'[j] = tenants[j]
          /\ tenants'[Len(tenants) + 1] = row
      BY <2>1, <2>2, <2>4
    <2>6. TenantTypeOK'
      BY <2>2, <2>3, <2>5, TenantIdleOK, MaxTenantsAssumption DEF TenantInv, TenantTypeOK
    <2>7. Existing' = Existing \cup {Len(tenants) + 1}
      BY <2>1, <2>4, <2>5 DEF Existing
    <2>8. \A j \in Existing : j \in 1..Len(tenants) /\ tenants[j].name # row.name
      <3>1. \A j \in Existing : j \in 1..Len(tenants) /\ j # 0
        BY <2>4 DEF Existing
      <3> QED
        BY <2>2, <3>1 DEF NameTaken
    <2>9. TenantNamesDistinct'
      BY <2>5, <2>7, <2>8 DEF TenantInv, TenantNamesDistinct
    <2>10. \A q \in Proc : treq'[q].pc # "idle" => treq'[q].copy \in Tenant
      BY <2>3, TenantIdleOK DEF TenantInv, TenantTypeOK
    <2> QED
      BY <2>6, <2>9, <2>10 DEF TenantInv
  <1>3. CASE UpdateTenant(p)
    <2>1. PICK i \in Existing, sets \in SUBSET TextColumn, text \in [TextColumn -> Text] :
            LoadTenant(p, i,
              [tenants[i] EXCEPT !.name = IF "name" \in sets THEN text["name"] ELSE @,
                                 !.remark = IF "remark" \in sets THEN text["remark"] ELSE @],
              sets)
      BY <1>3 DEF UpdateTenant
    <2>2. tenants[i] \in Tenant
      BY DEF TenantInv, TenantTypeOK, Existing
    <2>3. [tenants[i] EXCEPT !.name = IF "name" \in sets THEN text["name"] ELSE @,
                             !.remark = IF "remark" \in sets THEN text["remark"] ELSE @] \in Tenant
      BY <2>2 DEF Tenant, TextColumn
    <2>4. sets \in SUBSET (TextColumn \cup {"status"})
      OBVIOUS
    <2> QED
      BY <2>1, <2>3, <2>4, LoadTenantOK
  <1>4. CASE FreezeTenant(p)
    <2>1. PICK i \in Existing : LoadTenant(p, i, [tenants[i] EXCEPT !.status = "frozen"], {"status"})
      BY <1>4 DEF FreezeTenant
    <2>2. [tenants[i] EXCEPT !.status = "frozen"] \in Tenant
      BY DEF TenantInv, TenantTypeOK, Existing, Tenant
    <2> QED
      BY <2>1, <2>2, LoadTenantOK
  <1>5. CASE UnfreezeTenant(p)
    <2>1. PICK i \in Existing : LoadTenant(p, i, [tenants[i] EXCEPT !.status = "active"], {"status"})
      BY <1>5 DEF UnfreezeTenant
    <2>2. [tenants[i] EXCEPT !.status = "active"] \in Tenant
      BY DEF TenantInv, TenantTypeOK, Existing, Tenant
    <2> QED
      BY <2>1, <2>2, LoadTenantOK
  <1>6. CASE WriteTenant(p)
    <2> DEFINE i   == treq[p].id
               new == StoreTenant(tenants[i], treq[p].copy)
    <2>1. i \in Existing /\ treq[p].copy \in Tenant
      BY <1>6 DEF WriteTenant, TenantInv
    <2>2. tenants[i] \in Tenant
      BY <2>1 DEF TenantInv, TenantTypeOK, Existing
    <2>3. new \in Tenant
      BY <2>1, <2>2 DEF StoreTenant, Tenant
    <2>4. /\ ~NameTaken(i, new.name) /\ tenants' = [tenants EXCEPT ![i] = new]
          /\ treq' = [treq EXCEPT ![p] = TenantIdle]
      BY <1>6 DEF WriteTenant, TenantReturn
    <2> HIDE DEF i, new
    <2> QED
      BY <2>1, <2>3, <2>4, TenantWritten
  <1>7. CASE DeleteTenant(p)
    <2>1. PICK i \in Existing : tenants' = [tenants EXCEPT ![i] = NULL]
      BY <1>7 DEF DeleteTenant
    <2> QED
      BY <1>7, <2>1, TenantWritten DEF DeleteTenant
  <1>8. CASE TenantFails(p)
    BY <1>8, TenantIdleOK, TenantReplace DEF TenantFails, TenantReturn
  <1> QED
    BY <1>1, <1>2, <1>3, <1>4, <1>5, <1>6, <1>7, <1>8 DEF TenantNext

-----------------------------------------------------------------------------
\* LotIdle is a request.
LEMMA LotIdleOK == LotIdle \in LotRequest /\ LotIdle.pc = "idle"
  BY MaxLotsAssumption DEF LotIdle, LotRequest

\* A row gets new contents, none or some that fit.
LEMMA LotWritten ==
    ASSUME LotInv, NEW i \in Lots, NEW row \in ParkingLot \cup {NULL},
           row # NULL => Fits(row),
           lots' = [lots EXCEPT ![i] = row],
           UNCHANGED lreq \/ \E p \in Proc : lreq' = [lreq EXCEPT ![p] = LotIdle]
    PROVE  LotInv'
  <1>1. /\ lots' \in Seq(ParkingLot \cup {NULL}) /\ Len(lots') = Len(lots)
        /\ \A j \in DOMAIN lots : lots'[j] = IF j = i THEN row ELSE lots[j]
        /\ DOMAIN lots' = DOMAIN lots
    BY DEF LotInv, LotTypeOK, Lots
  <1>2. lreq' \in [Proc -> LotRequest]
    BY LotIdleOK DEF LotInv, LotTypeOK
  <1>3. row # NULL => row.available \in 0..row.total
    BY MaxSpacesAssumption DEF Fits, ParkingLot
  <1>4. CapacityHolds'
    BY <1>1, <1>3 DEF LotInv, CapacityHolds, Lots
  <1>5. \A q \in Proc : lreq'[q].pc # "idle" => lreq'[q].copy \in ParkingLot /\ Fits(lreq'[q].copy)
    BY LotIdleOK DEF LotInv, LotTypeOK
  <1> QED
    BY <1>1, <1>2, <1>4, <1>5 DEF LotInv, LotTypeOK

\* The rows of the table.
LEMMA LotRow ==
    ASSUME LotInv, NEW i \in Lots
    PROVE  /\ lots[i] \in ParkingLot
           /\ lots[i].total \in 0..MaxSpaces /\ lots[i].available \in 0..lots[i].total
  BY DEF LotInv, LotTypeOK, CapacityHolds, Lots, ParkingLot

\* Every step of a request on lots, and of a vehicle, keeps the invariant.
LEMMA LotStep == ASSUME LotInv, LotNext PROVE LotInv'
  <1>1. ASSUME NEW p \in Proc, CreateParkingLot(p) PROVE LotInv'
    <2>1. PICK tenant \in Owner, name \in LotName, total \in CreateTotals :
            lots' = Append(lots, NewParkingLot(tenant, name, total))
      BY <1>1 DEF CreateParkingLot
    <2> DEFINE row == NewParkingLot(tenant, name, total)
    <2>2. row \in ParkingLot /\ row.available \in 0..row.total
      BY MaxSpacesAssumption DEF NewParkingLot, ParkingLot, CreateTotals
    <2>3. lots' = Append(lots, row) /\ Len(lots) < MaxLots /\ UNCHANGED lreq
      BY <1>1, <2>1 DEF CreateParkingLot
    <2> HIDE DEF row
    <2>4. lots \in Seq(ParkingLot \cup {NULL})
      BY DEF LotInv, LotTypeOK
    <2>5. /\ lots' \in Seq(ParkingLot \cup {NULL}) /\ Len(lots') = Len(lots) + 1
          /\ \A j \in 1..Len(lots) : lots'[j] = lots[j]
          /\ lots'[Len(lots) + 1] = row
      BY <2>2, <2>3, <2>4
    <2>6. LotTypeOK'
      BY <2>3, <2>5, MaxLotsAssumption DEF LotInv, LotTypeOK
    <2>7. CapacityHolds'
      BY <2>2, <2>4, <2>5 DEF LotInv, CapacityHolds, Lots
    <2> QED
      BY <2>3, <2>6, <2>7 DEF LotInv
  <1>2. ASSUME NEW p \in Proc, UpdateParkingLot(p) PROVE LotInv'
    <2>1. PICK i \in Lots, name \in LotName \cup {NULL}, total \in UpdateTotals,
               status \in {"active", "inactive", NULL} :
            LET row   == lots[i]
                sized == IF total = NULL THEN row ELSE Resized(row, total)
            IN  /\ StatusAllowed(row, status)
                /\ total # NULL => TotalAllowed(row, total)
                /\ lreq' = [lreq EXCEPT ![p] =
                     [pc   |-> "write", id |-> i, snap |-> row,
                      copy |-> [sized EXCEPT !.name = IF name = NULL THEN @ ELSE name,
                                             !.status = IF status = NULL THEN @ ELSE status],
                      sets |-> {c \in {"name", "total", "status"} :
                                  CASE c = "name" -> name # NULL
                                    [] c = "total" -> total # NULL
                                    [] OTHER -> status # NULL}]]
      BY <1>2, Zenon DEF UpdateParkingLot
    <2> DEFINE sized == IF total = NULL THEN lots[i] ELSE Resized(lots[i], total)
               new == [sized EXCEPT !.name = IF name = NULL THEN @ ELSE name,
                                    !.status = IF status = NULL THEN @ ELSE status]
               sets == {c \in {"name", "total", "status"} :
                          CASE c = "name" -> name # NULL
                            [] c = "total" -> total # NULL
                            [] OTHER -> status # NULL}
    <2>2. /\ lreq' = [lreq EXCEPT ![p] =
               [pc |-> "write", id |-> i, snap |-> lots[i], copy |-> new, sets |-> sets]]
          /\ sets \in SUBSET {"name", "total", "status"}
      BY <2>1
    <2> HIDE DEF sets
    <2>3. sized \in ParkingLot /\ Fits(sized)
      <3>1. CASE total = NULL
        BY <3>1, LotRow, MaxSpacesAssumption DEF Fits
      <3>2. CASE total # NULL
        <4>1. total \in 0..MaxSpaces /\ total >= lots[i].total - lots[i].available
          BY <2>1, <3>2 DEF UpdateTotals, TotalAllowed
        <4> DEFINE free == total - (lots[i].total - lots[i].available)
        <4>2. free \in 0..MaxSpaces /\ free <= total
          BY <4>1, LotRow, MaxSpacesAssumption
        <4>3. sized = [lots[i] EXCEPT !.total = total, !.available = free]
          BY <3>2 DEF Resized
        <4> HIDE DEF free, sized
        <4> QED
          BY <4>1, <4>2, <4>3, LotRow DEF Fits, ParkingLot
      <3> QED
        BY <3>1, <3>2
    <2> HIDE DEF sized
    <2>4. new \in ParkingLot /\ Fits(new)
      BY <2>3 DEF Fits, ParkingLot
    <2> HIDE DEF new
    <2>5. i \in 0..MaxLots
      BY MaxLotsAssumption DEF LotInv, LotTypeOK, Lots
    <2> DEFINE r == [pc |-> "write", id |-> i, snap |-> lots[i], copy |-> new, sets |-> sets]
    <2>6. r \in LotRequest /\ r.copy \in ParkingLot /\ Fits(r.copy)
      BY <2>2, <2>4, <2>5, LotRow DEF LotRequest
    <2>7. lreq' = [lreq EXCEPT ![p] = r] /\ UNCHANGED lots
      BY <1>2, <2>2 DEF UpdateParkingLot
    <2> HIDE DEF r
    <2> QED
      BY <2>6, <2>7 DEF LotInv, LotTypeOK, CapacityHolds, Lots
  <1>3. ASSUME NEW p \in Proc, WriteParkingLot(p) PROVE LotInv'
    <2>1. /\ lreq[p].id \in Lots /\ lots' = [lots EXCEPT ![lreq[p].id] = lreq[p].copy]
          /\ lreq' = [lreq EXCEPT ![p] = LotIdle]
      BY <1>3 DEF WriteParkingLot, LotsOf
    <2>2. lreq[p].copy \in ParkingLot /\ Fits(lreq[p].copy)
      BY <1>3 DEF WriteParkingLot, LotInv
    <2> QED
      BY <2>1, <2>2, LotWritten
  <1>4. ASSUME NEW p \in Proc, DeleteParkingLot(p) PROVE LotInv'
    BY <1>4, LotWritten DEF DeleteParkingLot
  <1>5. ASSUME NEW p \in Proc, LotFails(p) PROVE LotInv'
    BY <1>5, LotIdleOK DEF LotFails, LotInv, LotTypeOK, CapacityHolds, Lots
  <1>6. CASE VehicleEnters
    <2>1. PICK i \in Lots : lots[i].available > 0 /\ lots' = [lots EXCEPT ![i].available = @ - 1]
      BY <1>6 DEF VehicleEnters
    <2> DEFINE row == [lots[i] EXCEPT !.available = @ - 1]
    <2>2. row \in ParkingLot /\ Fits(row)
      BY <2>1, LotRow, MaxSpacesAssumption DEF Fits, ParkingLot
    <2>3. lots' = [lots EXCEPT ![i] = row] /\ UNCHANGED lreq
      BY <1>6, <2>1 DEF VehicleEnters
    <2> HIDE DEF row
    <2> QED
      BY <2>2, <2>3, LotWritten
  <1>7. CASE VehicleLeaves
    <2>1. PICK i \in Lots :
            /\ lots[i].available < lots[i].total
            /\ lots' = [lots EXCEPT ![i].available = @ + 1]
      BY <1>7 DEF VehicleLeaves
    <2> DEFINE row == [lots[i] EXCEPT !.available = @ + 1]
    <2>2. row \in ParkingLot /\ Fits(row)
      BY <2>1, LotRow, MaxSpacesAssumption DEF Fits, ParkingLot
    <2>3. lots' = [lots EXCEPT ![i] = row] /\ UNCHANGED lreq
      BY <1>7, <2>1 DEF VehicleLeaves
    <2> HIDE DEF row
    <2> QED
      BY <2>2, <2>3, LotWritten
  <1> QED
    BY <1>1, <1>2, <1>3, <1>4, <1>5, <1>6, <1>7 DEF LotNext

-----------------------------------------------------------------------------
\* Empty tables.
LEMMA InitInv == Init => TenantInv /\ LotInv
  <1> SUFFICES ASSUME Init PROVE TenantInv /\ LotInv
    OBVIOUS
  <1>1. TenantInv
    BY TenantIdleOK, MaxTenantsAssumption
    DEF Init, TenantInit, TenantInv, TenantTypeOK, TenantNamesDistinct, Existing
  <1>2. LotInv
    BY LotIdleOK, MaxLotsAssumption DEF Init, LotInit, LotInv, LotTypeOK, CapacityHolds, Lots
  <1> QED
    BY <1>1, <1>2

\* The two services share no table.
LEMMA StepInv == TenantInv /\ LotInv /\ [Next]_vars => (TenantInv /\ LotInv)'
  <1> SUFFICES ASSUME TenantInv, LotInv, [Next]_vars PROVE TenantInv' /\ LotInv'
    OBVIOUS
  <1>1. UNCHANGED tenantVars => TenantInv'
    BY DEF tenantVars, TenantInv, TenantTypeOK, TenantNamesDistinct, Existing
  <1>2. UNCHANGED lotVars => LotInv'
    BY DEF lotVars, LotInv, LotTypeOK, CapacityHolds, Lots
  <1>3. CASE TenantSteps
    BY <1>2, <1>3, TenantStep DEF TenantSteps
  <1>4. CASE LotSteps
    BY <1>1, <1>4, LotStep DEF LotSteps
  <1>5. CASE UNCHANGED vars
    BY <1>1, <1>2, <1>5 DEF vars, tenantVars, lotVars
  <1> QED
    BY <1>3, <1>4, <1>5 DEF Next

\* The unique index of the tenants table, and what CreateTenant and UpdateTenant
\* leave to it: no two tenants ever have one name.
THEOREM TenantNamesUnique == Spec => []TenantNamesDistinct
  <1>1. TenantInv => TenantNamesDistinct
    BY DEF TenantInv
  <1> QED
    BY <1>1, InitInv, StepInv, PTL DEF Spec

\* Update of parking_lot_service.go, with vehicles coming and going between its
\* SELECT and its UPDATE: the free spaces of a lot are between none and all.
THEOREM LotsNeverOverfull == Spec => []CapacityHolds
  <1>1. LotInv => CapacityHolds
    BY DEF LotInv
  <1> QED
    BY <1>1, InitInv, StepInv, PTL DEF Spec

\* Every state of the two services is of the declared types.
THEOREM TenancyTyped == Spec => []TypeOK
  <1>1. TenantInv /\ LotInv => TypeOK
    BY DEF TenantInv, LotInv, TypeOK
  <1> QED
    BY <1>1, InitInv, StepInv, PTL DEF Spec

-----------------------------------------------------------------------------
(* What an update leaves alone *)

\* new has the columns of old that are not in sets.
TenantKept(sets, new, old) ==
    /\ "name" \notin sets => new.name = old.name
    /\ "remark" \notin sets => new.remark = old.remark
    /\ "status" \notin sets => new.status = old.status

\* So do the lots; besides, the occupied spaces are those of old.
LotKept(sets, new, old) ==
    /\ "name" \notin sets => new.name = old.name
    /\ "total" \notin sets => new.total = old.total
    /\ "status" \notin sets => new.status = old.status
    /\ new.total - new.available = old.total - old.available

\* A request about to write holds the row it has read with what it is to change.
CopiesDerived ==
    /\ \A p \in Proc : treq[p].pc = "write" => TenantKept(treq[p].sets, treq[p].copy, treq[p].snap)
    /\ \A p \in Proc : lreq[p].pc = "write" => LotKept(lreq[p].sets, lreq[p].copy, lreq[p].snap)

\* A step that begins or ends the request of one goroutine.
LEMMA TenantDerived ==
    ASSUME CopiesDerived, treq \in [Proc -> TenantRequest], NEW p \in Proc,
           \A q \in Proc : q # p => treq'[q] = treq[q], UNCHANGED lreq,
           treq'[p].pc = "write" => TenantKept(treq'[p].sets, treq'[p].copy, treq'[p].snap)
    PROVE  CopiesDerived'
  BY DEF CopiesDerived

\* The same for a request on lots.
LEMMA LotDerived ==
    ASSUME CopiesDerived, lreq \in [Proc -> LotRequest], NEW p \in Proc,
           \A q \in Proc : q # p => lreq'[q] = lreq[q], UNCHANGED treq,
           lreq'[p].pc = "write" => LotKept(lreq'[p].sets, lreq'[p].copy, lreq'[p].snap)
    PROVE  CopiesDerived'
  BY DEF CopiesDerived

\* What LoadTenant leaves in memory.
LEMMA Loaded ==
    ASSUME TenantInv, NEW p \in Proc, NEW i \in Existing, NEW row, NEW sets,
           LoadTenant(p, i, row, sets)
    PROVE  /\ treq'[p].sets = sets /\ treq'[p].copy = row /\ treq'[p].snap = tenants[i]
           /\ \A q \in Proc : q # p => treq'[q] = treq[q]
  BY DEF LoadTenant, TenantInv, TenantTypeOK

\* What a request on tenants holds is derived from what it has read.
LEMMA TenantStepDerived ==
    ASSUME TenantInv, CopiesDerived, NEW p \in Proc, TenantNext(p), UNCHANGED lreq
    PROVE  CopiesDerived'
  <1> treq \in [Proc -> TenantRequest]
    BY DEF TenantInv, TenantTypeOK
  <1>1. CASE CreateTenant(p)
    <2>1. treq'[p].pc = "insert" /\ \A q \in Proc : q # p => treq'[q] = treq[q]
      BY <1>1 DEF CreateTenant
    <2> QED
      BY <2>1, TenantDerived
  <1>2. CASE InsertTenant(p) \/ WriteTenant(p) \/ TenantFails(p)
    <2>1. treq' = [treq EXCEPT ![p] = TenantIdle]
      BY <1>2 DEF InsertTenant, WriteTenant, TenantFails, TenantReturn
    <2>2. treq'[p] = TenantIdle /\ \A q \in Proc : q # p => treq'[q] = treq[q]
      BY <2>1
    <2> QED
      BY <2>2, TenantIdleOK, TenantDerived
  <1>3. CASE UpdateTenant(p)
    <2>1. PICK i \in Existing, sets \in SUBSET TextColumn, text \in [TextColumn -> Text] :
            LoadTenant(p, i,
              [tenants[i] EXCEPT !.name = IF "name" \in sets THEN text["name"] ELSE @,
                                 !.remark = IF "remark" \in sets THEN text["remark"] ELSE @],
              sets)
      BY <1>3 DEF UpdateTenant
    <2> DEFINE row == [tenants[i] EXCEPT
                        !.name = IF "name" \in sets THEN text["name"] ELSE @,
                        !.remark = IF "remark" \in sets THEN text["remark"] ELSE @]
    <2>2. TenantKept(sets, row, tenants[i])
      <3>1. tenants[i] \in Tenant
        BY DEF TenantInv, TenantTypeOK, Existing
      <3> QED
        BY <3>1 DEF TenantKept, Tenant
    <2>3. LoadTenant(p, i, row, sets)
      BY <2>1
    <2> HIDE DEF row
    <2>4. /\ treq'[p].sets = sets /\ treq'[p].copy = row /\ treq'[p].snap = tenants[i]
          /\ \A q \in Proc : q # p => treq'[q] = treq[q]
      BY <2>3, Loaded
    <2> QED
      BY <2>2, <2>4, TenantDerived
  <1>4. CASE FreezeTenant(p) \/ UnfreezeTenant(p)
    <2>1. PICK i \in Existing, status \in {"active", "frozen"} :
            LoadTenant(p, i, [tenants[i] EXCEPT !.status = status], {"status"})
      BY <1>4 DEF FreezeTenant, UnfreezeTenant
    <2> DEFINE row == [tenants[i] EXCEPT !.status = status]
    <2>2. TenantKept({"status"}, row, tenants[i])
      <3>1. tenants[i] \in Tenant
        BY DEF TenantInv, TenantTypeOK, Existing
      <3> QED
        BY <3>1 DEF TenantKept, Tenant
    <2>3. LoadTenant(p, i, row, {"status"})
      BY <2>1
    <2> HIDE DEF row
    <2>4. /\ treq'[p].sets = {"status"} /\ treq'[p].copy = row /\ treq'[p].snap = tenants[i]
          /\ \A q \in Proc : q # p => treq'[q] = treq[q]
      BY <2>3, Loaded
    <2> QED
      BY <2>2, <2>4, TenantDerived
  <1>5. CASE DeleteTenant(p)
    BY <1>5 DEF DeleteTenant, CopiesDerived
  <1> QED
    BY <1>1, <1>2, <1>3, <1>4, <1>5 DEF TenantNext

\* What a request on lots holds is derived from what it has read.
LEMMA LotStepDerived ==
    ASSUME LotInv, CopiesDerived, LotNext, UNCHANGED treq
    PROVE  CopiesDerived'
  <1> lreq \in [Proc -> LotRequest]
    BY DEF LotInv, LotTypeOK
  <1>1. ASSUME NEW p \in Proc, UpdateParkingLot(p) PROVE CopiesDerived'
    <2>1. PICK i \in Lots, name \in LotName \cup {NULL}, total \in UpdateTotals,
               status \in {"active", "inactive", NULL} :
            LET row   == lots[i]
                sized == IF total = NULL THEN row ELSE Resized(row, total)
            IN  /\ StatusAllowed(row, status)
                /\ total # NULL => TotalAllowed(row, total)
                /\ lreq' = [lreq EXCEPT ![p] =
                     [pc   |-> "write", id |-> i, snap |-> row,
                      copy |-> [sized EXCEPT !.name = IF name = NULL THEN @ ELSE name,
                                             !.status = IF status = NULL THEN @ ELSE status],
                      sets |-> {c \in {"name", "total", "status"} :
                                  CASE c = "name" -> name # NULL
                                    [] c = "total" -> total # NULL
                                    [] OTHER -> status # NULL}]]
      BY <1>1, Zenon DEF UpdateParkingLot
    <2> DEFINE sized == IF total = NULL THEN lots[i] ELSE Resized(lots[i], total)
               new == [sized EXCEPT !.name = IF name = NULL THEN @ ELSE name,
                                    !.status = IF status = NULL THEN @ ELSE status]
               sets == {c \in {"name", "total", "status"} :
                          CASE c = "name" -> name # NULL
                            [] c = "total" -> total # NULL
                            [] OTHER -> status # NULL}
    <2>2. /\ lreq'[p].sets = sets /\ lreq'[p].copy = new /\ lreq'[p].snap = lots[i]
          /\ \A q \in Proc : q # p => lreq'[q] = lreq[q]
      BY <2>1
    <2>3. /\ "name" \notin sets => name = NULL
          /\ "total" \notin sets => total = NULL
          /\ "status" \notin sets => status = NULL
      OBVIOUS
    <2> HIDE DEF sets
    <2>4. /\ sized \in [tenantID : Owner, name : LotName, total : Int, available : Int,
                        status : {"active", "inactive"}]
          /\ sized.name = lots[i].name /\ sized.status = lots[i].status
          /\ total = NULL => sized.total = lots[i].total
          /\ sized.total - sized.available = lots[i].total - lots[i].available
      <3>1. CASE total = NULL
        BY <3>1, LotRow, MaxSpacesAssumption DEF ParkingLot
      <3>2. CASE total # NULL
        <4>1. total \in Int
          BY <3>2, MaxSpacesAssumption DEF UpdateTotals
        <4> DEFINE free == total - (lots[i].total - lots[i].available)
        <4>2. free \in Int /\ total - free = lots[i].total - lots[i].available
          BY <4>1, LotRow, MaxSpacesAssumption
        <4>3. sized = [lots[i] EXCEPT !.total = total, !.available = free]
          BY <3>2 DEF Resized
        <4> HIDE DEF free, sized
        <4> QED
          BY <3>2, <4>1, <4>2, <4>3, LotRow DEF ParkingLot
      <3> QED
        BY <3>1, <3>2
    <2> HIDE DEF sized
    <2>5. LotKept(sets, new, lots[i])
      BY <2>3, <2>4 DEF LotKept
    <2> HIDE DEF new
    <2> QED
      BY <2>2, <2>5, LotDerived
  <1>2. ASSUME NEW p \in Proc, WriteParkingLot(p) \/ LotFails(p) PROVE CopiesDerived'
    <2>1. lreq'[p] = LotIdle /\ \A q \in Proc : q # p => lreq'[q] = lreq[q]
      BY <1>2 DEF WriteParkingLot, LotFails
    <2> QED
      BY <2>1, LotIdleOK, LotDerived
  <1>3. UNCHANGED lreq => CopiesDerived'
    BY DEF CopiesDerived
  <1> QED
    BY <1>1, <1>2, <1>3 DEF LotNext, CreateParkingLot, DeleteParkingLot, VehicleEnters,
         VehicleLeaves

TenancyInv == TenantInv /\ LotInv /\ CopiesDerived

\* No request is under way.
LEMMA InitTenancy == Init => TenancyInv
  <1>1. Init => CopiesDerived
    BY TenantIdleOK, LotIdleOK DEF Init, TenantInit, LotInit, CopiesDerived
  <1> QED
    BY <1>1, InitInv DEF TenancyInv

\* Every step of the two services keeps the copies derived.
LEMMA StepTenancy == TenancyInv /\ [Next]_vars => TenancyInv'
  <1> SUFFICES ASSUME TenantInv, LotInv, CopiesDerived, [Next]_vars
               PROVE  TenancyInv'
    BY DEF TenancyInv
  <1>1. CASE TenantSteps
    BY <1>1, TenantStepDerived, StepInv DEF TenantSteps, lotVars, TenancyInv
  <1>2. CASE LotSteps
    BY <1>2, LotStepDerived, StepInv DEF LotSteps, tenantVars, TenancyInv
  <1>3. CASE UNCHANGED vars
    BY <1>3, StepInv DEF vars, CopiesDerived, TenancyInv
  <1> QED
    BY <1>1, <1>2, <1>3 DEF Next

\* A request on a tenant ends: it writes what it holds, or nothing.
LEMMA TenantEnds ==
    ASSUME TenancyInv, Next, NEW p \in Proc, treq[p].pc = "write", treq'[p] # treq[p]
    PROVE  WriteTenant(p) \/ UNCHANGED tenants
  <1>1. PICK q \in Proc : TenantNext(q)
    BY DEF Next, TenantSteps, LotSteps, tenantVars
  <1>2. q = p
    BY <1>1 DEF TenantNext, CreateTenant, InsertTenant, UpdateTenant, FreezeTenant,
         UnfreezeTenant, LoadTenant, WriteTenant, DeleteTenant, TenantFails, TenantReturn,
         TenancyInv, TenantInv, TenantTypeOK
  <1> QED
    BY <1>1, <1>2 DEF TenantNext, CreateTenant, InsertTenant, UpdateTenant, FreezeTenant,
         UnfreezeTenant, LoadTenant, DeleteTenant, TenantFails

\* A request on a lot ends: it writes what it holds, or nothing.
LEMMA LotEnds ==
    ASSUME TenancyInv, Next, NEW p \in Proc, lreq[p].pc = "write", lreq'[p] # lreq[p]
    PROVE  WriteParkingLot(p) \/ UNCHANGED lots
  <1>1. LotNext
    BY DEF Next, TenantSteps, LotSteps, lotVars
  <1>2. ASSUME NEW q \in Proc, UpdateParkingLot(q) \/ WriteParkingLot(q) \/ LotFails(q)
        PROVE  WriteParkingLot(p) \/ UNCHANGED lots
    <2>1. q = p
      BY <1>2 DEF UpdateParkingLot, WriteParkingLot, LotFails, TenancyInv, LotInv, LotTypeOK
    <2> QED
      BY <1>2, <2>1 DEF UpdateParkingLot, LotFails
  <1> QED
    BY <1>1, <1>2 DEF LotNext, CreateParkingLot, DeleteParkingLot, VehicleEnters, VehicleLeaves

\* Update, Freeze and Unfreeze of tenant_service.go and Update of
\* parking_lot_service.go write back a row they read in a statement before: unless
\* it changed in between, the columns they are not to change and the occupied
\* spaces stay as they are.
THEOREM UpdatesKeepRest == Spec => OnlyOvertakenUndo
  <1>1. TenancyInv /\ [Next]_vars => [TenantStepKeepsRest /\ LotStepKeepsRest]_vars
    <2> SUFFICES ASSUME TenancyInv, Next PROVE TenantStepKeepsRest /\ LotStepKeepsRest
      OBVIOUS
    <2>1. TenantStepKeepsRest
      <3> SUFFICES ASSUME NEW p \in Proc, NEW i \in Existing,
                          treq[p].pc = "write", treq'[p] # treq[p], treq[p].id = i,
                          treq[p].snap = tenants[i],
                          NEW c \in {"name", "remark", "status"} \ treq[p].sets
                   PROVE  tenants'[i][c] = tenants[i][c]
        BY DEF TenantStepKeepsRest
      <3>1. CASE UNCHANGED tenants
        BY <3>1
      <3>2. CASE WriteTenant(p)
        <4>1. tenants'[i] = StoreTenant(tenants[i], treq[p].copy)
          BY <3>2 DEF WriteTenant, TenancyInv, TenantInv, TenantTypeOK, Existing
        <4>2. TenantKept(treq[p].sets, treq[p].copy, tenants[i])
          BY DEF TenancyInv, CopiesDerived
        <4> QED
          BY <4>1, <4>2 DEF StoreTenant, TenantKept
      <3> QED
        BY <3>1, <3>2, TenantEnds
    <2>2. LotStepKeepsRest
      <3> SUFFICES ASSUME NEW p \in Proc, NEW i \in Lots,
                          lreq[p].pc = "write", lreq'[p] # lreq[p], lreq[p].id = i,
                          lreq[p].snap = lots[i]
                   PROVE  /\ \A c \in {"name", "total", "status"} \ lreq[p].sets :
                                 lots'[i][c] = lots[i][c]
                          /\ lots'[i].total - lots'[i].available = lots[i].total - lots[i].available
        BY DEF LotStepKeepsRest
      <3>1. CASE UNCHANGED lots
        BY <3>1
      <3>2. CASE WriteParkingLot(p)
        <4>1. lots'[i] = lreq[p].copy
          BY <3>2 DEF WriteParkingLot, TenancyInv, LotInv, LotTypeOK, Lots
        <4>2. LotKept(lreq[p].sets, lreq[p].copy, lots[i])
          BY DEF TenancyInv, CopiesDerived
        <4> QED
          BY <4>1, <4>2 DEF LotKept
      <3> QED
        BY <3>1, <3>2, LotEnds
    <2> QED
      BY <2>1, <2>2
  <1> QED
    BY <1>1, InitTenancy, StepTenancy, PTL DEF Spec, OnlyOvertakenUndo

-----------------------------------------------------------------------------
(* Pages *)

\* Whatever size is asked for, pages have a size.
LEMMA SizesUsed == \A size \in Int : PageSize(size) \in Nat \ {0}
  BY DEF PageSize, MaxSize, DefaultSize

\* What \div of TotalPages gives.
LEMMA Quotient ==
    ASSUME NEW a \in Nat, NEW b \in Nat \ {0}
    PROVE  a \div b \in Int /\ (a \div b) * b <= a /\ a < (a \div b) * b + b
  OBVIOUS

\* The last row of a page is a page before the last of the next.
LEMMA Apart ==
    ASSUME NEW x \in Int, NEW y \in Int, NEW size \in Nat \ {0}, x < y
    PROVE  x * size + size <= y * size
  <1>1. PICK d \in Nat : y = x + 1 + d
    <2>1. y - x - 1 \in Nat
      OBVIOUS
    <2> QED
      BY <2>1
  <1>2. y * size = x * size + size + d * size
    BY <1>1
  <1>3. d * size >= 0
    OBVIOUS
  <1>4. x * size \in Int /\ y * size \in Int /\ d * size \in Int
    OBVIOUS
  <1> QED
    BY <1>2, <1>3, <1>4

\* The row of a rank is on one page, whatever the page size, and that page is counted.
LEMMA OnOnePage ==
    ASSUME NEW total \in Nat, NEW rank \in 1..total, NEW size \in Nat \ {0}
    PROVE  \E page \in 1..TotalPages(total, size) :
             \A k \in 1..TotalPages(total, size) : OnPage(rank, Page(k), size) <=> k = page
  <1> DEFINE page == (rank + size - 1) \div size
             pages == TotalPages(total, size)
  <1>1. /\ page \in Int /\ pages \in Int
        /\ page * size \in Int /\ pages * size \in Int
        /\ page * size < rank + size /\ rank <= page * size
        /\ total <= pages * size
    <2>1. rank + size - 1 \in Nat /\ total + size - 1 \in Nat
      OBVIOUS
    <2>2. /\ page \in Int /\ page * size <= rank + size - 1
          /\ rank + size - 1 < page * size + size
      BY <2>1, Quotient
    <2>3. pages \in Int /\ total + size - 1 < pages * size + size
      BY <2>1, Quotient DEF TotalPages
    <2> HIDE DEF page, pages
    <2>4. page * size \in Int /\ pages * size \in Int
      BY <2>2, <2>3
    <2> QED
      BY <2>2, <2>3, <2>4
  <1>2. \A k \in 1..pages : OnPage(rank, Page(k), size) <=> k * size - size < rank /\ rank <= k * size
    <2> TAKE k \in 1..pages
    <2>1. k \in Int /\ Page(k) = k
      BY <1>1 DEF Page
    <2>2. (k - 1) * size = k * size - size
      BY <2>1
    <2> QED
      BY <2>1, <2>2 DEF OnPage
  <1> HIDE DEF page, pages
  <1>3. 0 < page
    <2>1. ~(page < 0)
      BY <1>1, Apart, 0 * size = 0
    <2>2. page # 0
      BY <1>1
    <2> QED
      BY <1>1, <2>1, <2>2
  <1>4. page <= pages
    <2>1. ASSUME pages < page PROVE FALSE
      BY <1>1, <2>1, Apart
    <2> QED
      BY <1>1, <2>1
  <1>5. \A k \in 1..pages : OnPage(rank, Page(k), size) <=> k = page
    <2> SUFFICES ASSUME NEW k \in 1..pages
                 PROVE  k * size - size < rank /\ rank <= k * size <=> k = page
      BY <1>2
    <2>1. k \in Int /\ k * size \in Int
      BY <1>1
    <2>2. k < page => k * size < rank
      BY <1>1, <2>1, Apart
    <2>3. page < k => rank <= k * size - size
      BY <1>1, <2>1, Apart
    <2> QED
      BY <1>1, <2>1, <2>2, <2>3
  <1> QED
    BY <1>1, <1>3, <1>4, <1>5 DEF pages
\* The rank of a row among finitely many, newest first.
LEMMA RankInRange ==
    ASSUME NEW n \in Nat, NEW rows \in SUBSET (1..n), NEW i \in rows
    PROVE  /\ Cardinality(rows) \in Nat
           /\ Cardinality({j \in rows : j >= i}) \in 1..Cardinality(rows)
  <1> DEFINE later == {j \in rows : j >= i}
  <1>1. IsFiniteSet(rows)
    <2>1. IsFiniteSet(1..n)
      BY FS_Interval, 1 \in Int, n \in Int
    <2> QED
      BY <2>1, FS_Subset
  <1>2. /\ IsFiniteSet(later) /\ Cardinality(later) <= Cardinality(rows)
    BY <1>1, FS_Subset
  <1>3. Cardinality(rows) \in Nat /\ Cardinality(later) \in Nat
    BY <1>1, <1>2, FS_CardinalityType
  <1>4. later # {}
    <2>1. i \in later
      OBVIOUS
    <2> QED
      BY <2>1
  <1>5. Cardinality(later) # 0
    BY <1>2, <1>4, FS_EmptySet
  <1> HIDE DEF later
  <1>6. Cardinality(later) \in 1..Cardinality(rows)
    BY <1>2, <1>3, <1>5
  <1> QED
    BY <1>3, <1>6 DEF later

\* Of the pages counted for rows, one holds row i.
LEMMA RowOnOnePage ==
    ASSUME NEW n \in Nat, NEW rows \in SUBSET (1..n), NEW i \in rows, NEW size \in Nat \ {0}
    PROVE  Cardinality({k \in 1..TotalPages(Cardinality(rows), size) :
                          OnPage(Cardinality({j \in rows : j >= i}), Page(k), size)}) = 1
  <1> DEFINE pages == 1..TotalPages(Cardinality(rows), size)
             rank == Cardinality({j \in rows : j >= i})
  <1>1. PICK page \in pages : \A k \in pages : OnPage(rank, Page(k), size) <=> k = page
    <2>1. Cardinality(rows) \in Nat /\ rank \in 1..Cardinality(rows)
      BY RankInRange
    <2> HIDE DEF rank
    <2> QED
      BY <2>1, OnOnePage
  <1> HIDE DEF pages, rank
  <1>2. {k \in pages : OnPage(rank, Page(k), size)} = {page}
    BY <1>1
  <1> QED
    BY <1>2, FS_Singleton DEF pages, rank

\* ListTenants and List of the lots: the OFFSET and LIMIT of a page and the number
\* of pages that is answered fit together, however many rows there are, at page
\* sizes below, at and above the limits.
THEOREM ListsComplete == Spec => []PagesPartition
  <1>1. TenantInv => TenantPagesPartition
    <2> SUFFICES ASSUME TenantInv, NEW asked \in {NULL, "active", "frozen"},
                        NEW size \in {-1, 1, 2, MaxSize + 1}, NEW i \in TenantsMatching(asked)
                 PROVE  Cardinality({k \in 1..TotalPages(Cardinality(TenantsMatching(asked)),
                                                         PageSize(size)) :
                                       i \in ListTenants(asked, k, size)}) = 1
      BY DEF TenantPagesPartition
    <2> DEFINE rows == TenantsMatching(asked)
    <2>1. Len(tenants) \in Nat /\ rows \in SUBSET (1..Len(tenants))
      BY DEF TenantInv, TenantTypeOK, TenantsMatching, Existing
    <2>2. \A k : i \in ListTenants(asked, k, size)
                 <=> OnPage(Cardinality({j \in rows : j >= i}), Page(k), PageSize(size))
      BY DEF ListTenants, TenantRank
    <2> HIDE DEF rows
    <2>3. i \in rows
      BY DEF rows
    <2> DEFINE sz == PageSize(size)
               pages == 1..TotalPages(Cardinality(rows), sz)
    <2>4. Cardinality({k \in pages : OnPage(Cardinality({j \in rows : j >= i}), Page(k), sz)}) = 1
      <3>1. sz \in Nat \ {0}
        BY SizesUsed DEF MaxSize
      <3> HIDE DEF sz
      <3> QED
        BY <2>1, <2>3, <3>1, RowOnOnePage
    <2>5. {k \in pages : i \in ListTenants(asked, k, size)}
            = {k \in pages : OnPage(Cardinality({j \in rows : j >= i}), Page(k), sz)}
      BY <2>2
    <2> QED
      BY <2>4, <2>5 DEF rows
  <1>2. LotInv => LotPagesPartition
    <2> SUFFICES ASSUME LotInv, NEW tenant \in Owner, NEW asked \in {NULL, "active", "inactive"},
                        NEW size \in {-1, 1, 2, MaxSize + 1}, NEW i \in LotsMatching(tenant, asked)
                 PROVE  Cardinality({k \in 1..TotalPages(Cardinality(LotsMatching(tenant, asked)),
                                                         PageSize(size)) :
                                       i \in ListParkingLots(tenant, asked, k, size)}) = 1
      BY DEF LotPagesPartition
    <2> DEFINE rows == LotsMatching(tenant, asked)
    <2>1. Len(lots) \in Nat /\ rows \in SUBSET (1..Len(lots))
      BY DEF LotInv, LotTypeOK, LotsMatching, LotsOf, Lots
    <2>2. \A k : i \in ListParkingLots(tenant, asked, k, size)
                 <=> OnPage(Cardinality({j \in rows : j >= i}), Page(k), PageSize(size))
      BY DEF ListParkingLots, LotRank
    <2> HIDE DEF rows
    <2>3. i \in rows
      BY DEF rows
    <2> DEFINE sz == PageSize(size)
               pages == 1..TotalPages(Cardinality(rows), sz)
    <2>4. Cardinality({k \in pages : OnPage(Cardinality({j \in rows : j >= i}), Page(k), sz)}) = 1
      <3>1. sz \in Nat \ {0}
        BY SizesUsed DEF MaxSize
      <3> HIDE DEF sz
      <3> QED
        BY <2>1, <2>3, <3>1, RowOnOnePage
    <2>5. {k \in pages : i \in ListParkingLots(tenant, asked, k, size)}
            = {k \in pages : OnPage(Cardinality({j \in rows : j >= i}), Page(k), sz)}
      BY <2>2
    <2> QED
      BY <2>4, <2>5 DEF rows
  <1> QED
    BY <1>1, <1>2, InitInv, StepInv, PTL DEF Spec, PagesPartition

=============================================================================
