---------------------------- MODULE MCLifecycle ----------------------------
(* An instance of Lifecycle for TLC. *)
EXTENDS Lifecycle, TLC

CONSTANTS d1, n1, s1, t1, c1, c2, m1, m2

Symmetry == Permutations({c1, c2}) \cup Permutations({m1, m2})

MCNodesOf == d1 :> {n1}
Nothing == {Absent}

MCOrder ==
    [rpc |-> "CreateVolume", args |-> "valid", disk |-> d1, node |-> n1,
     mode |-> "READ_WRITE", required |-> 15, limit |-> 18, type |-> "pd-standard"]

MCNodeOrder ==
    [rpc |-> "NodeStageVolume", args |-> "valid", volume |-> d1, staging |-> s1, target |-> t1,
     access |-> "mount", fstype |-> "ext4"]

MCRequests == {[MCOrder EXCEPT !.rpc = rpc] : rpc \in Rpcs}
MCNodeRequests == {[MCNodeOrder EXCEPT !.rpc = rpc] : rpc \in NodeRpcs}
=============================================================================
