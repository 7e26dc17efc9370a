------------------------------- MODULE Tenancy -------------------------------
(***************************************************************************)
(* The two services a tenant administrator works with, together: tenants   *)
(* (TenantService) and their parking lots (ParkingLotService).  They share *)
(* no table.                                                               *)
(***************************************************************************)
EXTENDS TenantService, ParkingLotService

vars == <<tenants, treq, lots, lreq>>

TypeOK == TenantTypeOK /\ LotTypeOK

Init == TenantInit /\ LotInit

TenantSteps == (\E p \in Proc : TenantNext(p)) /\ UNCHANGED lotVars
LotSteps == LotNext /\ UNCHANGED tenantVars

Next == TenantSteps \/ LotSteps

Spec == Init /\ [][Next]_vars

-----------------------------------------------------------------------------
(* Properties *)

\* The pages of ListTenants and of List of the lots, up to the number of pages
\* they answer, hold every row the filter lets through exactly once, for page
\* sizes below, at and above the limits.
PagesPartition == TenantPagesPartition /\ LotPagesPartition

\* An update of a tenant or of a lot leaves the columns it is not to change, and
\* the occupied spaces, as they are, unless the row changed between its SELECT
\* and its UPDATE.
OnlyOvertakenUndo == [][TenantStepKeepsRest /\ LotStepKeepsRest]_vars

=============================================================================
