---------------------------- MODULE MCController ----------------------------
(***************************************************************************)
(* Instances of ControllerServer for TLC.                                  *)
(***************************************************************************)
EXTENDS ControllerRefinement, Functions, TLC

CONSTANTS d1, n1, n2, c1, c2, c3

Symmetry == Permutations({c1, c2, c3})

\* Two nodes in the volume's zone.
MCNodesOf == d1 :> {n1, n2}

\* One node in the volume's zone, one outside it.
NarrowZone == d1 :> {n1}

Nothing == {Absent}
Small == {Disk("READY", 5, "pd-standard")}
Anything == Nothing \cup Small

Request(rpc) ==
    [rpc |-> rpc, args |-> "valid", disk |-> d1, node |-> n1,
     mode |-> "READ_WRITE", required |-> 0, limit |-> 0, type |-> "pd-standard"]

Create(required, limit, type) ==
    [Request("CreateVolume") EXCEPT !.required = required, !.limit = limit, !.type = type]

Publish(n, mode) ==
    [Request("ControllerPublishVolume") EXCEPT !.node = n, !.mode = mode]

Unpublish(n) == [Request("ControllerUnpublishVolume") EXCEPT !.node = n]

\* The same bounded create again and again.
OneCreate == {Create(15, 18, "pd-standard")}

\* A create that asks for more than the disk that is there.
LargerCreate == {Create(18, 18, "pd-standard")}

\* One publish of a disk that is there.
OnePublish == {Publish(n1, "READ_WRITE")}

\* What three calls that provision a volume ask for: two creates that differ
\* in size and type, or one and its retry, and the delete.
ProvisionCasts ==
    {<<Create(15, 15, "pd-standard"), Create(15, 18, "pd-ssd"), Request("DeleteVolume")>>,
     <<Create(15, 15, "pd-standard"), Create(15, 15, "pd-standard"), Request("DeleteVolume")>>}

\* What three calls ask for that use a volume that is there: publishes that
\* agree and that clash, in mode and in node, an unpublish and the delete.
AttachCasts ==
    {<<Publish(n1, "READ_WRITE"), Publish(n1, "READ_WRITE"), Unpublish(n1)>>,
     <<Publish(n1, "READ_WRITE"), Publish(n1, "READ_ONLY"), Unpublish(n1)>>,
     <<Publish(n1, "READ_WRITE"), Publish(n2, "READ_WRITE"), Unpublish(n1)>>,
     <<Publish(n1, "READ_WRITE"), Unpublish(n1), Request("DeleteVolume")>>}

CastRequests == UNION {Range(cast) : cast \in ProvisionCasts \cup AttachCasts}

\* The requests of a cast, whichever call makes which.
Plays(casts) ==
    \E cast \in casts, part \in Bijection(Calls, 1 .. 3) : req = [c \in Calls |-> cast[part[c]]]

CastInit ==
    /\ Init
    /\ \/ disks[d1] = Absent /\ Plays(ProvisionCasts)
       \/ disks[d1] # Absent /\ Plays(AttachCasts)

CastSpec == CastInit /\ [][Next]_vars

\* One valid request of each method and the malformed ones.
AllRequests ==
    {Create(15, 15, "pd-standard"), Create(18, 18, "pd-ssd"), Request("DeleteVolume"),
     Publish(n1, "READ_WRITE"), Publish(n1, "READ_ONLY"), Publish(n2, "READ_WRITE"),
     Unpublish(n1)}
    \cup {[Request(rpc) EXCEPT !.args = "missing"] : rpc \in Rpcs}
    \cup {[Request(rpc) EXCEPT !.args = "badId"] : rpc \in Rpcs \ {"CreateVolume"}}
=============================================================================
