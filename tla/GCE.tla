-------------------------------- MODULE GCE --------------------------------
(***************************************************************************)
(* The compute service the driver calls, modelled from how                 *)
(* gce-compute.go and controller.go use it (it is not part of the          *)
(* repository).  An API call answers at once; what it starts is a zone     *)
(* operation that runs on its own and ends, perhaps long after the caller  *)
(* has gone, either DONE or DONE with Operation.Error set.  The second     *)
(* ending is written "FAILED" here.                                        *)
(*                                                                         *)
(* A disk stands for a (zone, name) pair, that is for a volume id.         *)
(***************************************************************************)
EXTENDS Naturals

CONSTANTS
    Disks,      \* volume ids
    Nodes,      \* instance names
    Calls,      \* RPC invocations, each of which starts at most one operation
    Types,      \* disk types
    InitialDisks    \* what a disk may be when the driver starts

VARIABLES
    disks,      \* disk -> what a GET of it would return
    instances,  \* the instances that exist
    attached,   \* node -> disk -> the mode it is attached with, or "NONE"
    ops         \* call -> status of the operation it started

cloud == <<disks, instances, attached, ops>>

Modes == {"READ_ONLY", "READ_WRITE"}

Absent == [status |-> "ABSENT"]

Disk(status, gb, type) == [status |-> status, gb |-> gb, type |-> type]

DiskStates == {Absent} \cup [status : {"CREATING", "READY"}, gb : Nat, type : Types]

ASSUME InitialDisksAssumption == InitialDisks \subseteq DiskStates

OpStates == {"NONE", "PENDING", "RUNNING", "DONE", "FAILED"}

CloudTypeOK ==
    /\ disks \in [Disks -> DiskStates]
    /\ instances \in SUBSET Nodes
    /\ attached \in [Nodes -> [Disks -> Modes \cup {"NONE"}]]
    /\ ops \in [Calls -> OpStates]

CloudInit ==
    /\ disks \in [Disks -> InitialDisks]
    /\ instances = Nodes
    /\ attached = [n \in Nodes |-> [d \in Disks |-> "NONE"]]
    /\ ops = [c \in Calls |-> "NONE"]

Exists(d) == disks[d] # Absent

InUse(d) == \E n \in Nodes : attached[n][d] # "NONE"

CanAttach(d, n, mode) ==
    /\ disks[d].status = "READY"
    /\ n \in instances
    /\ attached[n][d] = "NONE"
    /\ \A m \in Nodes : attached[m][d] \in
          IF mode = "READ_ONLY" THEN {"NONE", "READ_ONLY"} ELSE {"NONE"}
-----------------------------------------------------------------------------
(* What each call may answer.  "accepted" and "lost" both start the        *)
(* operation; "lost" is an error to the caller (the answer, not the        *)
(* request, was lost).  "error" is any failure without effect.             *)

Starts(reply) == reply \in {"accepted", "lost"}

Accepting == {"accepted", "lost", "error"}

InsertReplies(d) == IF Exists(d) THEN {"alreadyExists", "error"} ELSE Accepting

DeleteReplies(d) ==
    IF ~Exists(d) THEN {"notFound", "error"}
    ELSE IF InUse(d) THEN {"resourceInUse", "error"}
    ELSE IF disks[d].status = "READY" THEN Accepting ELSE {"error"}

AttachReplies(d, n) ==
    IF disks[d].status = "READY" /\ n \in instances THEN Accepting ELSE {"error"}

DetachReplies(d, n) == IF attached[n][d] # "NONE" THEN Accepting ELSE {"error"}

DiskGetReplies(d) == {"error", IF Exists(d) THEN "found" ELSE "notFound"}

\* visible: whether the instance is in the zone the caller names.
InstanceGetReplies(n, visible) ==
    {"error", IF n \in instances /\ visible THEN "found" ELSE "notFound"}

\* The call c issues one API request, answered with reply.
Submit(c, reply) ==
    ops' = IF Starts(reply) THEN [ops EXCEPT ![c] = "PENDING"] ELSE ops
-----------------------------------------------------------------------------
(* The operations at work.  Conditions are looked at again when the        *)
(* operation runs: they may have changed since it was accepted.            *)

InsertBegins(c, d, gb, type) ==
    /\ ops[c] = "PENDING" /\ ~Exists(d)
    /\ disks' = [disks EXCEPT ![d] = Disk("CREATING", gb, type)]
    /\ ops' = [ops EXCEPT ![c] = "RUNNING"]
    /\ UNCHANGED <<instances, attached>>

InsertCompletes(c, d, gb, type) ==
    /\ ops[c] = "RUNNING"
    /\ disks' = [disks EXCEPT ![d] = Disk("READY", gb, type)]
    /\ ops' = [ops EXCEPT ![c] = "DONE"]
    /\ UNCHANGED <<instances, attached>>

\* A disk whose creation fails is not kept.
InsertFails(c, d) ==
    /\ ops[c] = "RUNNING"
    /\ disks' = [disks EXCEPT ![d] = Absent]
    /\ ops' = [ops EXCEPT ![c] = "FAILED"]
    /\ UNCHANGED <<instances, attached>>

DeleteCompletes(c, d) ==
    /\ ops[c] = "PENDING" /\ disks[d].status = "READY" /\ ~InUse(d)
    /\ disks' = [disks EXCEPT ![d] = Absent]
    /\ ops' = [ops EXCEPT ![c] = "DONE"]
    /\ UNCHANGED <<instances, attached>>

AttachCompletes(c, d, n, mode) ==
    /\ ops[c] = "PENDING" /\ CanAttach(d, n, mode)
    /\ attached' = [attached EXCEPT ![n][d] = mode]
    /\ ops' = [ops EXCEPT ![c] = "DONE"]
    /\ UNCHANGED <<disks, instances>>

DetachCompletes(c, d, n) ==
    /\ ops[c] = "PENDING" /\ attached[n][d] # "NONE"
    /\ attached' = [attached EXCEPT ![n][d] = "NONE"]
    /\ ops' = [ops EXCEPT ![c] = "DONE"]
    /\ UNCHANGED <<disks, instances>>

\* Any operation may end in error before it has had an effect.
OpFails(c) ==
    /\ ops[c] = "PENDING"
    /\ ops' = [ops EXCEPT ![c] = "FAILED"]
    /\ UNCHANGED <<disks, instances, attached>>

\* Instances come and go without the driver: one is deleted, its disks with
\* it detached.
DeleteInstance(n) ==
    /\ n \in instances
    /\ instances' = instances \ {n}
    /\ attached' = [attached EXCEPT ![n] = [d \in Disks |-> "NONE"]]
    /\ UNCHANGED <<disks, ops>>
=============================================================================
