---------------------------- MODULE MCLaneService ----------------------------
EXTENDS LaneService, TLC

\* Goroutines with a request under way.
Busy == {p \in Proc : upd[p].pc # "idle" \/ req[p].pc # "idle"}

\* Device d is as it was registered and no lane or UpdateLanes names it.
Fresh(d) ==
    /\ devices[d] # NULL /\ devices[d].status = "pending"
    /\ \A l \in LaneId : lanes[l] # NULL => lanes[l].deviceID # d
    /\ \A p \in Proc : upd[p].device # d

\* Two requests at once share one device; a request that runs alone has all.
MCNext == Next /\ (Cardinality(Busy') > 1 => Cardinality({d \in DeviceId : ~Fresh(d)'}) <= 1)

MCSpec == Init /\ [][MCNext]_vars

Symmetry == Permutations(Proc) \cup Permutations(LaneId) \cup Permutations(LaneName)
            \cup Permutations(DeviceId) \cup Permutations(Lot)
=============================================================================
