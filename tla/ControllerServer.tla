-------------------------- MODULE ControllerServer --------------------------
(***************************************************************************)
(* GCEControllerServer (controller.go) over the real CloudProvider         *)
(* (gce-compute.go): CreateVolume, DeleteVolume, ControllerPublishVolume   *)
(* and ControllerUnpublishVolume, each as the sequence of API calls its    *)
(* handler makes.  The gRPC server runs every RPC in a goroutine of its    *)
(* own and the handlers share nothing but the cloud and take no lock, so   *)
(* any number of them interleave between two API calls.                    *)
(*                                                                         *)
(* A call may be abandoned at any point: its deadline passes, the client   *)
(* cancels, or the driver is restarted.  A handler keeps no state but its  *)
(* locals, so these look the same; only a mutating request that may be on  *)
(* the wire survives it (pc = "orphan").                                   *)
(***************************************************************************)
EXTENDS GCE, Capacity

CONSTANTS
    Requests,   \* the requests clients make
    NodesOf     \* disk -> the nodes in the zone its volume id names

Rpcs == {"CreateVolume", "DeleteVolume",
         "ControllerPublishVolume", "ControllerUnpublishVolume"}

\* args: "missing" lacks a required field, or has an unknown parameter;
\* "badId" has a volume id that SplitZoneNameId rejects.
RequestType ==
    [rpc : Rpcs, args : {"valid", "missing", "badId"}, disk : Disks,
     node : Nodes, mode : Modes, required : Nat, limit : Nat, type : Types]

ASSUME RequestsAssumption == Requests \subseteq RequestType
ASSUME NodesOfAssumption == NodesOf \in [Disks -> SUBSET Nodes]

VARIABLES
    req,        \* call -> its request
    pc,         \* call -> the API call its handler makes next
    res,        \* call -> the gRPC code it was answered with
    saw         \* call -> history: the facts that held at some moment of it

vars == <<disks, instances, attached, ops, req, pc, res, saw>>

Mutating == {"insert", "delete", "attach", "detach"}
Opened   == {"get", "recheck", "getDisk", "getInstance", "wait"} \cup Mutating
Codes    == {"OK", "InvalidArgument", "NotFound", "AlreadyExists",
             "FailedPrecondition", "Internal", "Unknown", "NoAnswer"}

Open(c) == pc[c] \in Opened
Over(c) == pc[c] \in {"orphan", "done"}
-----------------------------------------------------------------------------
(* History.  saw[c] collects what was true of the volume and the node of   *)
(* call c between its invocation and its answer.  No guard reads it.       *)

FactNames == {"disk", "ready", "noDisk", "misfit", "sized",
              "served", "clash", "detached", "inUse", "noNode"}

\* The facts an answer to the method may depend on.
FactsFor(rpc) ==
    CASE rpc = "CreateVolume"              -> {"disk", "ready", "misfit", "sized"}
      [] rpc = "DeleteVolume"              -> {"noDisk", "inUse"}
      [] rpc = "ControllerPublishVolume"   -> {"served", "clash", "noDisk", "noNode"}
      [] rpc = "ControllerUnpublishVolume" -> {"detached", "noDisk", "noNode"}

\* Nothing but what the code itself compares: see GetAndValidateExistingDisk.
Fits(r) ==
    /\ CapacityFits(disks[r.disk].gb, r.required, r.limit)
    /\ TypeFits(disks[r.disk].type, r.type)

\* What a capacity range means: a bound that is 0 is not given.
InRange(gb, r) ==
    /\ r.required <= GbToBytes(gb)
    /\ r.limit # 0 => GbToBytes(gb) <= r.limit

Facts(c) ==
    LET r == req[c]
        mode == attached[r.node][r.disk]
    IN  {f \in FactsFor(r.rpc) :
            \/ f = "disk"     /\ Exists(r.disk)
            \/ f = "ready"    /\ disks[r.disk].status = "READY"
            \/ f = "noDisk"   /\ ~Exists(r.disk)
            \/ f = "misfit"   /\ Exists(r.disk) /\ ~Fits(r)
            \/ f = "sized"    /\ Exists(r.disk) /\ InRange(disks[r.disk].gb, r)
            \/ f = "served"   /\ mode = r.mode
            \/ f = "clash"    /\ mode \notin {"NONE", r.mode}
            \/ f = "detached" /\ mode = "NONE"
            \/ f = "inUse"    /\ InUse(r.disk)
            \/ f = "noNode"   /\ r.node \notin instances \cap NodesOf[r.disk]}

Observe ==
    /\ UNCHANGED req
    /\ saw' = [c \in Calls |-> IF Open(c) \/ Open(c)' THEN saw[c] \cup Facts(c)'
                                                     ELSE saw[c]]
-----------------------------------------------------------------------------
Goto(c, next) == pc' = [pc EXCEPT ![c] = next] /\ UNCHANGED res

Answer(c, code) ==
    /\ pc' = [pc EXCEPT ![c] = "done"]
    /\ res' = [res EXCEPT ![c] = code]

Enter(c, rpc) == pc[c] = "idle" /\ req[c].rpc = rpc /\ UNCHANGED cloud

\* Not the code: a request that lacks a field goes on.
CheckArgumentsSkipped(c, badIdAnswer, next) ==
    \/ req[c].args = "badId" /\ Answer(c, badIdAnswer)
    \/ req[c].args # "badId" /\ Goto(c, next)

\* The argument checks the volume id methods share, then the first API call.
\* A bad id is a plain error, which gRPC reports as Unknown.
CheckArguments(c, badIdAnswer, next) ==
    \/ req[c].args = "missing" /\ Answer(c, "InvalidArgument")
    \/ req[c].args = "badId"   /\ Answer(c, badIdAnswer)
    \/ req[c].args = "valid"   /\ Goto(c, next)

CreateVolume(c) ==
    /\ Enter(c, "CreateVolume")
    /\ \/ req[c].args = "missing" /\ Answer(c, "InvalidArgument")
       \/ req[c].args # "missing" /\ Goto(c, "get")
    /\ Observe

DeleteVolume(c) ==
    Enter(c, "DeleteVolume") /\ CheckArguments(c, "OK", "delete") /\ Observe

ControllerPublishVolume(c) ==
    /\ Enter(c, "ControllerPublishVolume")
    /\ CheckArguments(c, "Unknown", "getDisk")
    /\ Observe

ControllerUnpublishVolume(c) ==
    /\ Enter(c, "ControllerUnpublishVolume")
    /\ CheckArguments(c, "Unknown", "getDisk")
    /\ Observe

Invoke(c) ==
    \/ CreateVolume(c)            \/ DeleteVolume(c)
    \/ ControllerPublishVolume(c) \/ ControllerUnpublishVolume(c)
-----------------------------------------------------------------------------
(* CreateVolume *)

\* A failed GET is only logged: it reads like a disk that is not there.
GetAndValidateExistingDisk(r) ==
    {IF reply # "found" THEN "absent" ELSE IF Fits(r) THEN "compatible" ELSE "incompatible"
        : reply \in DiskGetReplies(r.disk)}

CreateGet(c) ==
    /\ pc[c] = "get"
    /\ \E found \in GetAndValidateExistingDisk(req[c]) :
          \/ found = "absent"       /\ Goto(c, "insert")
          \/ found = "compatible"   /\ Answer(c, "OK")
          \/ found = "incompatible" /\ Answer(c, "AlreadyExists")
    /\ UNCHANGED cloud /\ Observe

\* Not the code: tries again when the insert fails, or seems to.
CreateInsertAgain(c) ==
    /\ pc[c] = "insert"
    /\ \E reply \in InsertReplies(req[c].disk) :
          /\ Submit(c, reply)
          /\ \/ reply = "accepted"          /\ Goto(c, "wait")
             \/ reply = "alreadyExists"     /\ Goto(c, "recheck")
             \/ reply \in {"error", "lost"} /\ Goto(c, "insert")
    /\ UNCHANGED <<disks, instances, attached>> /\ Observe

CreateInsert(c) ==
    /\ pc[c] = "insert"
    /\ \E reply \in InsertReplies(req[c].disk) :
          /\ Submit(c, reply)
          /\ \/ reply = "accepted"          /\ Goto(c, "wait")
             \/ reply = "alreadyExists"     /\ Goto(c, "recheck")
             \/ reply \in {"error", "lost"} /\ Answer(c, "Internal")
    /\ UNCHANGED <<disks, instances, attached>> /\ Observe

\* Not the code: takes alreadyExists for the answer, without a second look.
CreateRecheckRefuses(c) ==
    pc[c] = "recheck" /\ Answer(c, "AlreadyExists") /\ UNCHANGED cloud /\ Observe

\* After alreadyExists only an error of the second look matters: its
\* "exists" result is dropped, so a disk that has gone again, or a failed
\* GET, is answered OK.
CreateRecheck(c) ==
    /\ pc[c] = "recheck"
    /\ \E found \in GetAndValidateExistingDisk(req[c]) :
          Answer(c, IF found = "incompatible" THEN "AlreadyExists" ELSE "OK")
    /\ UNCHANGED cloud /\ Observe
-----------------------------------------------------------------------------
(* DeleteVolume *)

DeleteIssue(c) ==
    /\ pc[c] = "delete"
    /\ \E reply \in DeleteReplies(req[c].disk) :
          /\ Submit(c, reply)
          /\ \/ reply = "accepted"          /\ Goto(c, "wait")
             \/ reply = "resourceInUse"     /\ Answer(c, "FailedPrecondition")
             \/ reply = "notFound"          /\ Answer(c, "OK")
             \/ reply \in {"error", "lost"} /\ Answer(c, "Internal")
    /\ UNCHANGED <<disks, instances, attached>> /\ Observe
-----------------------------------------------------------------------------
(* ControllerPublishVolume and ControllerUnpublishVolume *)

\* Not the code: every failure to GET a disk becomes NotFound.
GetDiskOrErrorBlunt(c) ==
    /\ pc[c] = "getDisk"
    /\ \E reply \in DiskGetReplies(req[c].disk) :
          \/ reply = "found" /\ Goto(c, "getInstance")
          \/ reply # "found" /\ Answer(c, "NotFound")
    /\ UNCHANGED cloud /\ Observe

GetDiskOrError(c) ==
    /\ pc[c] = "getDisk"
    /\ \E reply \in DiskGetReplies(req[c].disk) :
          \/ reply = "found"    /\ Goto(c, "getInstance")
          \/ reply = "notFound" /\ Answer(c, "NotFound")
          \/ reply = "error"    /\ Answer(c, "Internal")
    /\ UNCHANGED cloud /\ Observe

\* Not the code: any attachment will do.
diskIsAttachedAnyMode(c, mode) ==
    \/ mode # "NONE" /\ Answer(c, "OK")
    \/ mode = "NONE" /\ Goto(c, "attach")

\* What the instance just read says of the disk: attached as wanted, with
\* another mode, or not at all.
diskIsAttachedAndCompatible(c, mode) ==
    \/ mode = req[c].mode              /\ Answer(c, "OK")
    \/ mode \notin {"NONE", req[c].mode} /\ Answer(c, "AlreadyExists")
    \/ mode = "NONE"                   /\ Goto(c, "attach")

\* Not the code: returns neither a response nor an error for a disk that is
\* detached, as NodePublishVolume does for a target that is mounted.
diskIsAttachedNil(c, mode) ==
    \/ mode = "NONE" /\ pc' = [pc EXCEPT ![c] = "done"] /\ UNCHANGED res
    \/ mode # "NONE" /\ Goto(c, "detach")

diskIsAttached(c, mode) ==
    \/ mode = "NONE" /\ Answer(c, "OK")
    \/ mode # "NONE" /\ Goto(c, "detach")

\* The instance is read once, and the decision taken on that reading.  (This
\* GET alone carries no context: the handler of an abandoned call may finish
\* it before it ends at its next request, which makes no difference to the
\* cloud or to anybody's answer.)
GetInstanceOrError(c) ==
    /\ pc[c] = "getInstance"
    /\ LET r == req[c] IN
       \E reply \in InstanceGetReplies(r.node, r.node \in NodesOf[r.disk]) :
          \/ reply = "notFound" /\ Answer(c, "NotFound")
          \/ reply = "error"    /\ Answer(c, "Internal")
          \/ /\ reply = "found"
             /\ IF r.rpc = "ControllerPublishVolume"
                THEN diskIsAttachedAndCompatible(c, attached[r.node][r.disk])
                ELSE diskIsAttached(c, attached[r.node][r.disk])
    /\ UNCHANGED cloud /\ Observe

\* Not the code: answers as soon as the attach is accepted.
PublishAttachNoWait(c) ==
    /\ pc[c] = "attach"
    /\ \E reply \in AttachReplies(req[c].disk, req[c].node) :
          /\ Submit(c, reply)
          /\ Answer(c, IF reply = "accepted" THEN "OK" ELSE "Internal")
    /\ UNCHANGED <<disks, instances, attached>> /\ Observe

\* Not the code: tries again when the attach fails, or seems to.
PublishAttachAgain(c) ==
    /\ pc[c] = "attach"
    /\ \E reply \in AttachReplies(req[c].disk, req[c].node) :
          /\ Submit(c, reply)
          /\ Goto(c, IF reply = "accepted" THEN "wait" ELSE "getInstance")
    /\ UNCHANGED <<disks, instances, attached>> /\ Observe

PublishAttach(c) ==
    /\ pc[c] = "attach"
    /\ \E reply \in AttachReplies(req[c].disk, req[c].node) :
          /\ Submit(c, reply)
          /\ \/ reply = "accepted" /\ Goto(c, "wait")
             \/ reply # "accepted" /\ Answer(c, "Internal")
    /\ UNCHANGED <<disks, instances, attached>> /\ Observe

\* Not the code: answers as soon as the detach is accepted.
UnpublishDetachNoWait(c) ==
    /\ pc[c] = "detach"
    /\ \E reply \in DetachReplies(req[c].disk, req[c].node) :
          /\ Submit(c, reply)
          /\ Answer(c, IF reply = "accepted" THEN "OK" ELSE "Internal")
    /\ UNCHANGED <<disks, instances, attached>> /\ Observe

UnpublishDetach(c) ==
    /\ pc[c] = "detach"
    /\ \E reply \in DetachReplies(req[c].disk, req[c].node) :
          /\ Submit(c, reply)
          /\ \/ reply = "accepted" /\ Goto(c, "wait")
             \/ reply # "accepted" /\ Answer(c, "Internal")
    /\ UNCHANGED <<disks, instances, attached>> /\ Observe
-----------------------------------------------------------------------------
(* WaitForOp: poll every 3 seconds for 5 minutes. *)

\* Not the code: any poll that answers ends the wait.
opIsDoneOnAnyAnswer(status) == status # "NONE"

\* Status "DONE" is all that is looked at; Operation.Error is not.
opIsDone(status) == status \in {"DONE", "FAILED"}

WaitDone(c) ==
    /\ pc[c] = "wait" /\ opIsDone(ops[c]) /\ Answer(c, "OK")
    /\ UNCHANGED cloud /\ Observe

\* One failed poll ends the wait.
WaitPollError(c) ==
    pc[c] = "wait" /\ Answer(c, "Internal") /\ UNCHANGED cloud /\ Observe

\* Not the code: the wait has no deadline.
WaitForever(c) == FALSE

\* Not the code: a wait that times out counts as done.
WaitTimeoutIgnored(c) ==
    /\ pc[c] = "wait" /\ ~opIsDone(ops[c]) /\ Answer(c, "OK")
    /\ UNCHANGED cloud /\ Observe

\* The five minutes pass: the last poll still finds the operation unfinished.
WaitTimeout(c) ==
    /\ pc[c] = "wait" /\ ~opIsDone(ops[c]) /\ Answer(c, "Internal")
    /\ UNCHANGED cloud /\ Observe
-----------------------------------------------------------------------------
(* The caller, or the driver, goes away. *)

Abandon(c) ==
    /\ Open(c)
    /\ pc' = [pc EXCEPT ![c] = IF pc[c] \in Mutating THEN "orphan" ELSE "done"]
    /\ res' = [res EXCEPT ![c] = "NoAnswer"]
    /\ UNCHANGED cloud /\ Observe

\* The request left behind reaches the service, or never does ("error").
OrphanLands(c) ==
    /\ pc[c] = "orphan"
    /\ LET r == req[c] IN
       \/ r.rpc = "CreateVolume" /\ \E reply \in InsertReplies(r.disk) : Submit(c, reply)
       \/ r.rpc = "DeleteVolume" /\ \E reply \in DeleteReplies(r.disk) : Submit(c, reply)
       \/ /\ r.rpc = "ControllerPublishVolume"
          /\ \E reply \in AttachReplies(r.disk, r.node) : Submit(c, reply)
       \/ /\ r.rpc = "ControllerUnpublishVolume"
          /\ \E reply \in DetachReplies(r.disk, r.node) : Submit(c, reply)
    /\ Goto(c, "done")
    /\ UNCHANGED <<disks, instances, attached>> /\ Observe
-----------------------------------------------------------------------------
(* The service works on the operation of call c. *)

InsertWorks(c) ==
    LET r == req[c] gb == DiskSizeGb(r.required, r.limit) IN
    /\ r.rpc = "CreateVolume"
    /\ \/ InsertBegins(c, r.disk, gb, r.type)
       \/ InsertCompletes(c, r.disk, gb, r.type)
       \/ InsertFails(c, r.disk)

DeleteWorks(c) == req[c].rpc = "DeleteVolume" /\ DeleteCompletes(c, req[c].disk)

AttachWorks(c) ==
    /\ req[c].rpc = "ControllerPublishVolume"
    /\ AttachCompletes(c, req[c].disk, req[c].node, req[c].mode)

DetachWorks(c) ==
    /\ req[c].rpc = "ControllerUnpublishVolume"
    /\ DetachCompletes(c, req[c].disk, req[c].node)

OperationStep(c) ==
    /\ \/ InsertWorks(c) \/ DeleteWorks(c) \/ AttachWorks(c) \/ DetachWorks(c) \/ OpFails(c)
    /\ UNCHANGED <<pc, res>> /\ Observe

InstanceGoes(n) == DeleteInstance(n) /\ UNCHANGED <<pc, res>> /\ Observe
-----------------------------------------------------------------------------
Init ==
    /\ CloudInit
    /\ req \in [Calls -> Requests]
    /\ pc = [c \in Calls |-> "idle"]
    /\ res = [c \in Calls |-> "None"]
    /\ saw = [c \in Calls |-> {}]

\* The steps the handler of c takes of its own accord, and all its steps.
Progress(c) ==
    \/ CreateGet(c) \/ CreateInsert(c) \/ CreateRecheck(c)
    \/ DeleteIssue(c)
    \/ GetDiskOrError(c) \/ GetInstanceOrError(c) \/ PublishAttach(c) \/ UnpublishDetach(c)
    \/ WaitDone(c) \/ WaitTimeout(c)

Serve(c) == Progress(c) \/ WaitPollError(c)

\* Every call answered and every operation at its end: nothing is left.
Quiescent ==
    /\ \A c \in Calls : pc[c] = "done" /\ ops[c] \in {"NONE", "DONE", "FAILED"}
    /\ UNCHANGED vars

Next ==
    \/ \E c \in Calls : Invoke(c) \/ Serve(c) \/ Abandon(c) \/ OrphanLands(c) \/ OperationStep(c)
    \/ \E n \in Nodes : InstanceGoes(n)
    \/ Quiescent

Spec == Init /\ [][Next]_vars

\* A goroutine is scheduled, HTTP requests return (or fail), and wait.Poll
\* has its own deadline, so a handler keeps moving.  Nothing is assumed of
\* the cloud: an operation may stay pending for ever, and polls need not fail.
FairSpec == Spec /\ \A c \in Calls : WF_vars(Progress(c))
-----------------------------------------------------------------------------
\* A call has an answer exactly when its handler is over.
TypeOK ==
    /\ CloudTypeOK
    /\ req \in [Calls -> Requests]
    /\ pc \in [Calls -> {"idle", "orphan", "done"} \cup Opened]
    /\ res \in [Calls -> Codes \cup {"None"}]
    /\ saw \in [Calls -> SUBSET FactNames]
    /\ \A c \in Calls : Over(c) <=> res[c] # "None"

\* What an OK says, for the request r of a call that saw seen and whose
\* operation is op.
Promised(r, seen, op) ==
    /\ r.rpc = "CreateVolume" => IF op = "NONE" THEN "disk" \in seen ELSE "ready" \in seen
    /\ r.rpc = "DeleteVolume" => r.args = "badId" \/ "noDisk" \in seen
    /\ r.rpc = "ControllerPublishVolume" => "served" \in seen
    /\ r.rpc = "ControllerUnpublishVolume" => "detached" \in seen

Earned(c) == (res[c] = "OK" /\ ops[c] # "FAILED") => Promised(req[c], saw[c], ops[c])

\* An OK is never premature: unless the operation the call itself started
\* ended in an error the code does not read, what the OK promises was true
\* at some moment while the call was open, whatever the other calls, the
\* cloud and the clients did in between.
OkIsEarned == \A c \in Calls : Earned(c)

Truthful(c) ==
    /\ res[c] = "NotFound" => saw[c] \cap {"noDisk", "noNode"} # {}
    /\ res[c] = "FailedPrecondition" => "inUse" \in saw[c]
    /\ res[c] = "AlreadyExists" =>
          IF req[c].rpc = "CreateVolume" THEN "misfit" \in saw[c] ELSE "clash" \in saw[c]
    /\ res[c] = "InvalidArgument" <=> (Over(c) /\ req[c].args = "missing")

\* A definite refusal has a cause that was true while the call was open: a
\* transient API failure is never reported as NotFound, AlreadyExists or
\* FailedPrecondition, which clients act on instead of retrying.
ErrorsAreTruthful == \A c \in Calls : Truthful(c)

Final(c) ==
    Over(c) =>
        /\ ops[c] \in {"PENDING", "RUNNING"} => res[c] \in {"Internal", "NoAnswer"}
        /\ ops[c] # "NONE" => res[c] \in {"OK", "Internal", "NoAnswer"}

\* Only an Internal error or silence leaves work behind: after any other
\* answer no operation of the call is still running, and a refusal has
\* started none at all.
AnswersAreFinal == \A c \in Calls : Final(c)

\* Every RPC is answered or abandoned, however long the cloud takes:
\* WaitForOp gives up after five minutes.
EveryCallReturns == \A c \in Calls : Open(c) ~> Over(c)
-----------------------------------------------------------------------------
(* What the documents say and the code does not do.  These do not hold.    *)

\* controller.go:299 logs "Disk %v attached to instance %v successfully" (and
\* 181 "Completed creation of disk %v") once WaitForOp returns: an OK means
\* that the work was done, whether or not the operation ended in an error.
OkMeansDone == \A c \in Calls : res[c] = "OK" => Promised(req[c], saw[c], ops[c])

\* csi.pb.go:405-411: "the CO may call `CreateVolume` again, with the same
\* name, to ensure the volume exists".  A create that is identical to one
\* that made the disk is not refused.
CreateIsIdempotent ==
    \A a, b \in Calls :
        (/\ req[a] = req[b] /\ req[a].rpc = "CreateVolume"
         /\ res[a] = "OK" /\ ops[a] = "DONE")
            => res[b] # "AlreadyExists"

\* csi.pb.go:405-408: "the CO may call `CreateVolume` again, with the same
\* name, to ensure the volume exists".  If all that is asked for is that the
\* disk be made, it is there once a create has been answered OK, unless the
\* operation of this very create ended in an error.
CreatedVolumeExists ==
    (\A c \in Calls : req[c].rpc = "CreateVolume")
        => \A c \in Calls : (res[c] = "OK" /\ ops[c] # "FAILED") => Exists(req[c].disk)

\* csi-test sanity/controller.go:328: "should fail when requesting to create
\* a volume with already exisiting name and different capacity."  A disk that
\* is reused was once seen to be in the range asked for.
DifferentCapacityIsRefused ==
    \A c \in Calls :
        (req[c].rpc = "CreateVolume" /\ res[c] = "OK" /\ ops[c] = "NONE") => "sized" \in saw[c]
=============================================================================
