----------------------------- MODULE Lifecycle -----------------------------
(***************************************************************************)
(* The life of one volume on one node: the controller service, the cloud   *)
(* and the node service together, under a caller that takes the volume up  *)
(* and down through the four steps of CSI,                                 *)
(*                                                                         *)
(*     1 create   2 attach (ControllerPublish)   3 stage   4 publish       *)
(*                                                                         *)
(* any number of times.  The caller (the sidecars and kubelet, which are   *)
(* not part of the repository) waits for one call at a time, repeats what  *)
(* failed or turns round, and may give a call up.  A call that was given   *)
(* up, and an operation whose call is over, go on all the same: they are   *)
(* the leftovers that a later call meets.                                  *)
(***************************************************************************)
EXTENDS ControllerServer, NodeServer, FiniteSets

CONSTANTS
    Order,      \* what the caller asks of the controller, but for the method
    NodeOrder,  \* what it asks of the node, but for the method
    Nobody,     \* not a call
    MaxMounts,  \* bound: publishes are sent while fewer mounts are stacked
    MaxLeft,    \* bound: calls are sent while at most so many leftovers run
    MaxLapses   \* bound: and while at most so many steps have lapsed

VARIABLES
    sure,       \* the steps the caller has been told are done, and not undone
    top,        \* the steps that may be done, as far as it knows
    heading,    \* the direction of its last call
    asked,      \* the call it waits for
    lapsed      \* history: the steps a leftover, or a failed operation, spoilt

callerVars == <<sure, top, heading, asked, lapsed>>
lifeVars == <<vars, nodeVars, callerVars>>

\* The caller asks for one thing, which is possible: only the method varies.
ASSUME OrderAssumption ==
    /\ Order \in Requests
    /\ \A r \in Requests :
          /\ r.args = "valid" /\ r.disk = Order.disk /\ r.node = Order.node
          /\ \A rpc \in Rpcs : [r EXCEPT !.rpc = rpc] \in Requests
    /\ Order.node \in NodesOf[Order.disk]
ASSUME NodeOrderAssumption ==
    /\ NodeOrder \in NodeRequests
    /\ \A r \in NodeRequests :
          /\ r.args = "valid" /\ r.volume = Order.disk
          /\ r.staging = NodeOrder.staging /\ r.target = NodeOrder.target
          /\ \A rpc \in NodeRpcs : [r EXCEPT !.rpc = rpc] \in NodeRequests
    /\ NodeOrder.staging # NodeOrder.target
ASSUME CallsAssumption == Calls \cap NodeCalls = {} /\ Nobody \notin Calls \cup NodeCalls

volume  == Order.disk
node    == Order.node
staging == NodeOrder.staging
target  == NodeOrder.target

Steps == 1 .. 4
OnController(k) == k <= 2
UpRpc   == <<"CreateVolume", "ControllerPublishVolume", "NodeStageVolume", "NodePublishVolume">>
DownRpc == <<"DeleteVolume", "ControllerUnpublishVolume", "NodeUnstageVolume", "NodeUnpublishVolume">>

\* Step k is as its calls leave it.
InEffect(k) ==
    \/ k = 1 /\ Exists(volume)
    \/ k = 2 /\ attached[node][volume] # "NONE"
    \/ k = 3 /\ Shows(staging) = volume
    \/ k = 4 /\ Shows(target) = volume

\* Nothing of step k is left, not even a mount under another.
Undone(k) ==
    \/ k = 1 /\ ~Exists(volume)
    \/ k = 2 /\ attached[node][volume] = "NONE"
    \/ k = 3 /\ mounts[staging] = <<>>
    \/ k = 4 /\ mounts[target] = <<>>

\* What the caller has last asked for.
Wanted(k) == k <= sure \/ (k = top /\ heading = "up")
-----------------------------------------------------------------------------
(* The caller *)

Finished(c) == pc[c] = "done" /\ ops[c] \notin {"PENDING", "RUNNING"}

Leftovers == {c \in Calls : pc[c] # "idle"} \cup {c \in NodeCalls : npc[c] # "idle"}

\* A free slot takes the next call.
IssueToController(rpc) ==
    \E c \in Calls :
        /\ pc[c] = "idle"
        /\ asked' = c /\ req' = [req EXCEPT ![c].rpc = rpc]
        /\ UNCHANGED <<cloud, pc, res, saw, nodeVars>>

\* kubelet makes these calls: there are none when the node is gone.
IssueToNode(rpc) ==
    \E c \in NodeCalls :
        /\ npc[c] = "idle" /\ node \in instances
        /\ rpc = "NodePublishVolume" => Len(mounts[target]) < MaxMounts
        /\ asked' = c /\ nreq' = [nreq EXCEPT ![c].rpc = rpc]
        /\ UNCHANGED <<host, npc, nres, nsaw, vars>>

Issue(k, rpc) ==
    /\ asked = Nobody
    /\ Cardinality(Leftovers) <= MaxLeft /\ Cardinality(lapsed) <= MaxLapses
    /\ IF OnController(k) THEN IssueToController(rpc) ELSE IssueToNode(rpc)

\* Up: the next step, or again the one that is in doubt.
GoUp ==
    LET k == IF top = sure THEN top + 1 ELSE top IN
    /\ k \in Steps
    /\ top' = k /\ heading' = "up" /\ Issue(k, UpRpc[k])
    /\ UNCHANGED <<sure, lapsed>>

\* Down: the highest step that may be done.
GoDown ==
    /\ top \in Steps
    /\ sure' = top - 1 /\ heading' = "down" /\ Issue(top, DownRpc[top])
    /\ UNCHANGED <<top, lapsed>>

\* Done, as far as the caller knows.
Told(ok) ==
    IF ~ok THEN UNCHANGED <<sure, top>>
    ELSE IF heading = "up" THEN sure' = top /\ UNCHANGED top
    ELSE top' = sure /\ UNCHANGED sure

\* The slot of a call that is over and has left nothing behind is free again.
Release(c) ==
    /\ pc' = [pc EXCEPT ![c] = "idle"]
    /\ res' = [res EXCEPT ![c] = "None"]
    /\ ops' = [ops EXCEPT ![c] = "NONE"]
    /\ req' = [req EXCEPT ![c].rpc = Order.rpc]

NodeRelease(c) ==
    /\ npc' = [npc EXCEPT ![c] = "idle"]
    /\ nres' = [nres EXCEPT ![c] = "None"]
    /\ nreq' = [nreq EXCEPT ![c].rpc = NodeOrder.rpc]

\* An OK for an operation that ended in an error is believed.
Receive(c) ==
    /\ asked = c /\ Over(c) /\ Told(res[c] = "OK")
    /\ lapsed' = IF res[c] = "OK" /\ ops[c] = "FAILED" THEN lapsed \cup {top} ELSE lapsed
    /\ IF Finished(c) THEN Release(c) ELSE UNCHANGED <<pc, res, ops, req>>
    /\ asked' = Nobody
    /\ UNCHANGED <<disks, instances, attached, saw, nodeVars, heading>>

NodeReceive(c) ==
    /\ asked = c /\ npc[c] = "done" /\ Told(nres[c] = "OK")
    /\ NodeRelease(c)
    /\ asked' = Nobody
    /\ UNCHANGED <<host, nsaw, vars, heading, lapsed>>

\* The caller stops waiting.  What that does to a controller call is Abandon;
\* a node call runs on.
NodeGiveUp(c) ==
    /\ asked = c /\ NodeOpen(c) /\ asked' = Nobody
    /\ UNCHANGED <<vars, nodeVars, sure, top, heading, lapsed>>

\* A leftover has come to its end.
Forget ==
    /\ \/ \E c \in Calls : /\ asked # c /\ Finished(c) /\ Release(c)
                           /\ UNCHANGED <<disks, instances, attached, saw, nodeVars>>
       \/ \E c \in NodeCalls : /\ asked # c /\ npc[c] = "done" /\ NodeRelease(c)
                               /\ UNCHANGED <<host, nsaw, vars>>
    /\ UNCHANGED callerVars
-----------------------------------------------------------------------------
(* The services and the host *)

Stacks(p) == mounts[p] # <<>> /\ Len(mounts'[p]) > Len(mounts[p])

\* A leftover spoils a step when it undoes what is wanted or does what is
\* not; anybody does by mounting over a mount, which one umount does not undo.
Spoils(c, k) ==
    \/ asked # c /\ Wanted(k) /\ InEffect(k) /\ ~InEffect(k)'
    \/ asked # c /\ ~Wanted(k) /\ Undone(k) /\ ~Undone(k)'
    \/ k = 3 /\ Stacks(staging)
    \/ k = 4 /\ Stacks(target)

Lapses(c) == lapsed' = lapsed \cup {k \in Steps : Spoils(c, k)}

ControllerStep(c) ==
    /\ (asked = c /\ (Invoke(c) \/ Abandon(c))) \/ Serve(c) \/ OrphanLands(c)
    /\ UNCHANGED <<nodeVars, callerVars>>

\* A new disk is blank.
CloudStep(c) ==
    /\ OperationStep(c)
    /\ content' = [content EXCEPT ![volume] =
                      IF disks'[volume].status = "CREATING" THEN "blank" ELSE @]
    /\ UNCHANGED <<device, dirs, mounts, nreq, npc, nres, nsaw, sure, top, heading, asked>>
    /\ Lapses(c)

NodeStep(c) ==
    /\ (asked = c /\ NodeInvoke(c)) \/ NodeServe(c)
    /\ UNCHANGED <<vars, sure, top, heading, asked>>
    /\ Lapses(c)

\* The device node comes with the attachment, and goes with it unless the
\* disk is mounted.
DeviceFollows ==
    /\ IF InEffect(2) THEN DeviceComes(volume) ELSE DeviceGoes(volume)
    /\ UNCHANGED <<content, dirs, mounts, npc, nres>> /\ NodeObserve
    /\ UNCHANGED <<vars, callerVars>>

Crash == DriverCrash /\ UNCHANGED <<vars, callerVars>>

\* kubelet goes down with the node: what it waited for, and what it had done
\* beyond the attachment, is no more.
KubeletGoes ==
    /\ asked' = IF asked \in NodeCalls THEN Nobody ELSE asked
    /\ sure' = IF sure > 2 THEN 2 ELSE sure
    /\ top' = IF top > 2 THEN 2 ELSE top
    /\ UNCHANGED <<heading, lapsed>>

\* It starts again from the attached disk.
Reboot == NodeReboot /\ KubeletGoes /\ UNCHANGED vars

\* The instance is deleted, at any time, and does not come back.  Everything
\* on the node goes with it, but not what is on the disk.
InstanceDeleted ==
    /\ InstanceGoes(node)
    /\ LoseCalls
    /\ device' = [v \in Volumes |-> FALSE] /\ dirs' = {} /\ mounts' = NothingMounted
    /\ UNCHANGED content /\ NodeObserve
    /\ KubeletGoes
-----------------------------------------------------------------------------
LifeInit ==
    /\ CloudInit /\ ~Exists(volume)
    /\ req = [c \in Calls |-> Order]
    /\ pc = [c \in Calls |-> "idle"]
    /\ res = [c \in Calls |-> "None"]
    /\ saw = [c \in Calls |-> FactNames]
    /\ device = [v \in Volumes |-> FALSE]
    /\ content = [v \in Volumes |-> "blank"]
    /\ dirs = {} /\ mounts = NothingMounted
    /\ nreq = [c \in NodeCalls |-> NodeOrder]
    /\ npc = [c \in NodeCalls |-> "idle"]
    /\ nres = [c \in NodeCalls |-> "None"]
    /\ nsaw = [c \in NodeCalls |-> NodeFactNames]
    /\ sure = 0 /\ top = 0 /\ heading = "up" /\ asked = Nobody /\ lapsed = {}

\* The caller has reached its bound of lapses and makes no more calls.
Stopped ==
    /\ asked = Nobody /\ Leftovers = {} /\ Cardinality(lapsed) > MaxLapses
    /\ UNCHANGED lifeVars

LifeNext ==
    \/ GoUp \/ GoDown \/ Forget
    \/ \E c \in Calls : Receive(c) \/ ControllerStep(c) \/ CloudStep(c)
    \/ \E c \in NodeCalls : NodeReceive(c) \/ NodeGiveUp(c) \/ NodeStep(c)
    \/ DeviceFollows \/ Crash \/ Reboot \/ InstanceDeleted
    \/ Stopped

LifeSpec == LifeInit /\ [][LifeNext]_lifeVars
-----------------------------------------------------------------------------
\* No leftover has spoilt step k, nor one that it rests on, and the node of
\* all but the first is there.
Sound(k) == lapsed \cap 1 .. k = {} /\ (k > 1 => node \in instances)

\* The caller's view is about one step in doubt at most, and it waits for a
\* call in a slot of the service that has this step.
LifeTypeOK ==
    /\ TypeOK /\ NodeTypeOK
    /\ sure \in 0 .. 4 /\ top \in {sure, sure + 1} /\ top <= 4
    /\ heading \in {"up", "down"} /\ lapsed \subseteq Steps
    /\ asked # Nobody =>
          /\ top = sure + 1
          /\ asked \in IF OnController(top) THEN Calls ELSE NodeCalls

\* A step the caller was told is done, and has not taken down, is in effect:
\* the disk exists, is attached, is mounted at the staging path, is mounted
\* at the target, as long as the node exists.  Retries, lost answers, crashes
\* and reboots do not matter, and leftovers only if they spoil that step or
\* one below.
\* (controller.go 71-350, node.go 35-233)
ToldUpIsUp == \A k \in Steps : (k <= sure /\ Sound(k)) => InEffect(k)

\* Of a step the caller was told is undone nothing is left, not even a mount
\* under another mount, unless a leftover or a stacked mount spoilt it.
\* (controller.go 185-350, node.go 110-130 and 220-233)
ToldDownIsDown == \A k \in Steps : (k > top /\ k \notin lapsed) => Undone(k)

\* The disk is not detached while it is mounted anywhere on a node that stays:
\* the answers of the node service are good enough to go by.  (controller.go
\* 338-349 detaches without asking; node.go 124 and 225 unmount)
MountedDiskIsNotPulled ==
    [][(InEffect(2) /\ ~InEffect(2)' /\ lapsed' = {} /\ node \in instances')
            => ~Mounted(volume)]_lifeVars

\* A volume the caller was told is staged holds the file system it asked for,
\* and nothing writes another over it, or puts a blank disk in its place:
\* neither a stage call that was given up before its mkfs, nor a delete and a
\* create that land late.  The handler looks for a mount and for a file system
\* several commands before it formats, and so relies on what mkfs and the
\* cloud refuse, and on the stage not having been answered too early.
\* (mounter.go 149-176, node.go 162-218)
StagedDataStays ==
    [][(sure >= 3 /\ Sound(3)) => /\ content[volume] = NodeOrder.fstype
                                 /\ content'[volume] = content[volume]
                                 /\ \A c \in NodeCalls : ~Formats(c)]_lifeVars

\* NotFound, which every repetition of the call will meet again, is said of
\* a disk that is gone and of an instance that is gone alike.  Unless a step
\* has lapsed it is the instance: the disk is there, although a CreateVolume
\* may have answered OK when it was still CREATING, and nothing of the volume
\* is left attached or mounted, so that a caller that has to stop repeating
\* the unpublish may go on to delete the disk.
\* (controller.go 253-262 and 321-329, gce-compute.go 86)
NotFoundMeansNodeGone ==
    \A c \in Calls : (asked = c /\ res[c] = "NotFound" /\ lapsed = {}) =>
        /\ node \notin instances
        /\ Exists(volume) /\ \A k \in 2 .. 4 : Undone(k)
=============================================================================
