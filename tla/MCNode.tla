------------------------------- MODULE MCNode -------------------------------
(* Instances of NodeServer for TLC. *)
EXTENDS NodeRefinement, TLC

CONSTANTS v1, s1, t1, c1, c2, c3

Symmetry == Permutations({c1, c2, c3})

NodeRequest(rpc) ==
    [rpc |-> rpc, args |-> "valid", volume |-> v1, staging |-> s1, target |-> t1,
     access |-> "mount", fstype |-> "ext4"]

\* Every method, a stage with another file system, a block volume, and the
\* malformed forms.
MCNodeRequests ==
    {NodeRequest(rpc) : rpc \in NodeRpcs}
    \cup {[NodeRequest("NodeStageVolume") EXCEPT !.fstype = "xfs"],
          [NodeRequest("NodeStageVolume") EXCEPT !.access = "block"],
          [NodeRequest("NodeStageVolume") EXCEPT !.args = "badId"],
          [NodeRequest("NodePublishVolume") EXCEPT !.args = "missing"]}

\* What the retries of one pod's volume ask for.
StageAndUnstage == {NodeRequest("NodeStageVolume"), NodeRequest("NodeUnstageVolume")}
=============================================================================
