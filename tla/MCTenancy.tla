------------------------------ MODULE MCTenancy ------------------------------
EXTENDS Tenancy, TLC

\* No action reads the tables of both services, so it is enough to let one of
\* them work while the other is in its initial state.
MCNext ==
    \/ LotInit /\ TenantSteps
    \/ TenantInit /\ LotSteps

MCSpec == Init /\ [][MCNext]_vars

Symmetry == Permutations(Proc) \cup Permutations(Text \ {EMPTY})
            \cup Permutations(Owner) \cup Permutations(LotName)
=============================================================================
