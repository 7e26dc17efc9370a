--------------------------- MODULE MCDeviceService ---------------------------
EXTENDS DeviceService, TLC

Symmetry == Permutations(Proc) \cup Permutations(DeviceId) \cup Permutations(Tenant)
            \cup Permutations(Name) \cup Permutations(Lot) \cup Permutations(Gate)
=============================================================================
