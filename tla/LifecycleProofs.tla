--------------------------- MODULE LifecycleProofs ---------------------------
(***************************************************************************)
(* Lifecycle for any order the caller may have and any number of slots     *)
(* and leftovers: what the caller was told holds, unless it lapsed.        *)
(*                                                                         *)
(* The argument.  The two services keep their own invariants (IInv,        *)
(* NodeIInv), whatever the caller does.  A step of a leftover cannot make  *)
(* the view of the caller wrong without a lapse (LeftoverHarmless), by the *)
(* definition of lapses.  The call that the caller waits for works on the  *)
(* step in doubt only, of which the view says nothing yet; and when it is  *)
(* about to be answered OK, its step is as it should be (Earning).  When   *)
(* the node goes, the steps that rest on it are no longer Sound, and       *)
(* nothing of them is left.                                                *)
(***************************************************************************)
EXTENDS ControllerProofs, NodeProofs, Lifecycle

\* The step in doubt is as an OK would have it.
Shown == IF heading = "up" THEN Sound(top) => InEffect(top)
                           ELSE top \notin lapsed => Undone(top)

ViewOK ==
    /\ sure \in 0 .. 4 /\ top \in {sure, sure + 1} /\ top <= 4
    /\ heading \in {"up", "down"} /\ lapsed \subseteq Steps
    /\ asked # Nobody =>
          /\ top = sure + 1
          /\ asked \in IF OnController(top) THEN Calls ELSE NodeCalls

AskedRpc == IF heading = "up" THEN UpRpc[top] ELSE DownRpc[top]

AskedOK ==
    /\ asked \in Calls => req[asked].rpc = AskedRpc
    /\ asked \in NodeCalls => nreq[asked].rpc = AskedRpc

\* Call c has been, or can no longer fail to be, answered OK, and not for an
\* operation that failed.
Owed(c) ==
    \/ pc[c] = "recheck"
    \/ pc[c] = "wait" /\ ops[c] = "DONE"
    \/ res[c] = "OK" /\ ops[c] # "FAILED"

Succeeds(c) == npc[c] = "return" \/ nres[c] = "OK"

Earning ==
    /\ asked \in Calls /\ Owed(asked) => Shown
    /\ asked \in NodeCalls /\ Succeeds(asked) => Shown

\* One umount is enough, unless mounts have stacked.
MountsOK ==
    /\ \A p \in Paths \ {staging, target} : mounts[p] = <<>>
    /\ 3 \notin lapsed => Len(mounts[staging]) <= 1
    /\ 4 \notin lapsed => Len(mounts[target]) <= 1

View == ToldUpIsUp /\ ToldDownIsDown

\* The call asked for is told NotFound of a node that is gone, but for lapses.
NotFoundOK ==
    \A c \in Calls : (asked = c /\ res[c] = "NotFound") =>
        lapsed # {} \/ (node \notin instances /\ top = 2)

\* An instance takes its attachments with it.
GoneOK == node \notin instances => attached[node][volume] = "NONE"

LInv ==
    /\ IInv /\ NodeIInv
    /\ ViewOK /\ AskedOK /\ View /\ Earning /\ MountsOK
    /\ NotFoundOK
    /\ GoneOK
-----------------------------------------------------------------------------
(* What all requests have in common *)

LEMMA Parameters ==
    /\ volume \in Disks /\ volume \in Volumes /\ volume \notin {"root", "nothing"}
    /\ node \in Nodes /\ node \in NodesOf[volume]
    /\ staging \in Paths /\ target \in Paths /\ staging # target
    /\ Order \in Requests /\ Order.rpc \in Rpcs
    /\ NodeOrder \in NodeRequests /\ NodeOrder.rpc \in NodeRpcs
  <1>1. Order \in RequestType /\ NodeOrder \in NodeRequestType
    BY OrderAssumption, NodeOrderAssumption, RequestsAssumption, NodeRequestsAssumption
  <1>2. NodeOrder.volume = Order.disk
    BY NodeOrderAssumption
  <1> QED
    BY <1>1, <1>2, OrderAssumption, NodeOrderAssumption, VolumesAssumption
       DEF RequestType, NodeRequestType, volume, node, staging, target

LEMMA EveryRequest ==
    ASSUME IInv, NEW c \in Calls
    PROVE  /\ req[c] \in Requests /\ req[c].rpc \in Rpcs
           /\ req[c].args = "valid" /\ req[c].disk = volume /\ req[c].node = node
           /\ req[c].mode \in Modes
  <1>1. HistoryTypeOK
    BY TypeOKParts DEF IInv
  <1> QED
    BY <1>1, RequestFields, OrderAssumption DEF volume, node

LEMMA EveryNodeRequest ==
    ASSUME NodeIInv, NEW c \in NodeCalls
    PROVE  /\ nreq[c] \in NodeRequests /\ nreq[c].rpc \in NodeRpcs
           /\ nreq[c].args = "valid" /\ nreq[c].volume = volume
           /\ nreq[c].staging = staging /\ nreq[c].target = target
  <1>1. NodeHistoryTypeOK
    BY NodeTypeOKParts DEF NodeIInv
  <1> QED
    BY <1>1, NodeRequestFields, NodeOrderAssumption DEF volume, staging, target
-----------------------------------------------------------------------------
(* The caller gives out and takes back slots *)

LEMMA NewRequest ==
    ASSUME IInv, NEW c \in Calls, NEW rpc \in Rpcs, req' = [req EXCEPT ![c].rpc = rpc]
    PROVE  /\ req' \in [Calls -> Requests]
           /\ req'[c].rpc = rpc
           /\ \A e \in Calls \ {c} : req'[e] = req[e]
  <1>1. req \in [Calls -> Requests] /\ req[c] \in RequestType
    BY RequestsAssumption DEF IInv, TypeOK
  <1>2. [req[c] EXCEPT !.rpc = rpc] \in Requests
    BY <1>1, OrderAssumption
  <1>3. req' = [req EXCEPT ![c] = [req[c] EXCEPT !.rpc = rpc]]
    OBVIOUS
  <1>4. [req[c] EXCEPT !.rpc = rpc].rpc = rpc
    BY <1>1 DEF RequestType
  <1> QED
    BY <1>1, <1>2, <1>3, <1>4

LEMMA NewNodeRequest ==
    ASSUME NodeIInv, NEW c \in NodeCalls, NEW rpc \in NodeRpcs,
           nreq' = [nreq EXCEPT ![c].rpc = rpc]
    PROVE  /\ nreq' \in [NodeCalls -> NodeRequests]
           /\ nreq'[c].rpc = rpc
           /\ \A e \in NodeCalls \ {c} : nreq'[e] = nreq[e]
  <1>1. nreq \in [NodeCalls -> NodeRequests] /\ nreq[c] \in NodeRequestType
    BY NodeRequestsAssumption DEF NodeIInv, NodeTypeOK
  <1>2. [nreq[c] EXCEPT !.rpc = rpc] \in NodeRequests
    BY <1>1, NodeOrderAssumption
  <1>3. nreq' = [nreq EXCEPT ![c] = [nreq[c] EXCEPT !.rpc = rpc]]
    OBVIOUS
  <1>4. [nreq[c] EXCEPT !.rpc = rpc].rpc = rpc
    BY <1>1 DEF NodeRequestType
  <1> QED
    BY <1>1, <1>2, <1>3, <1>4

\* A slot that holds no call, before and after another request is put in.
LEMMA SlotKeeps ==
    ASSUME IInv, NEW c \in Calls, NEW rpc \in Rpcs, req' = [req EXCEPT ![c].rpc = rpc],
           UNCHANGED <<disks, instances, attached, saw>>,
           pc' = [pc EXCEPT ![c] = "idle"], res' = [res EXCEPT ![c] = "None"],
           ops' = [ops EXCEPT ![c] = "NONE"]
    PROVE  IInv'
  <1>1. TypeOK /\ \A e \in Calls : CallOK(e)
    BY DEF IInv
  <1>2. /\ req' \in [Calls -> Requests] /\ \A e \in Calls \ {c} : req'[e] = req[e]
    BY NewRequest
  <1>3. TypeOK'
    BY <1>1, <1>2 DEF TypeOK, CloudTypeOK, OpStates, Over
  <1>4. pc'[c] = "idle" /\ res'[c] = "None" /\ ops'[c] = "NONE"
    BY <1>1 DEF TypeOK, CloudTypeOK
  <1>5. CallOK(c)'
    BY <1>4 DEF CallOK, PcOK, Evidence, Earned, Truthful, Final, Open, Over, Opened, Mutating
  <1>6. ASSUME NEW e \in Calls \ {c} PROVE CallOK(e)'
    BY <1>1, <1>2, CallIsLocal DEF TypeOK, CloudTypeOK
  <1> QED
    BY <1>3, <1>5, <1>6 DEF IInv

LEMMA NodeSlotKeeps ==
    ASSUME NodeIInv, NEW c \in NodeCalls, NEW rpc \in NodeRpcs,
           nreq' = [nreq EXCEPT ![c].rpc = rpc], UNCHANGED <<host, nsaw>>,
           npc' = [npc EXCEPT ![c] = "idle"], nres' = [nres EXCEPT ![c] = "None"]
    PROVE  NodeIInv'
  <1>1. HostTypeOK /\ NodeControlTypeOK /\ NodeHistoryTypeOK /\ \A e \in NodeCalls : NodeCallOK(e)
    BY NodeTypeOKParts DEF NodeIInv
  <1>2. /\ nreq' \in [NodeCalls -> NodeRequests] /\ \A e \in NodeCalls \ {c} : nreq'[e] = nreq[e]
    BY NewNodeRequest
  <1>3. HostTypeOK' /\ NodeControlTypeOK' /\ NodeHistoryTypeOK'
    BY <1>1, <1>2, HostUnchangedTypes DEF NodeControlTypeOK, NodeHistoryTypeOK
  <1>4. npc'[c] = "idle" /\ nres'[c] = "None"
    BY <1>1 DEF NodeControlTypeOK
  <1>5. NodeCallOK(c)'
    BY <1>4 DEF NodeCallOK, NodePcOK, NodeEvidence, StageSteps, PublishSteps
  <1>6. ASSUME NEW e \in NodeCalls \ {c} PROVE NodeCallOK(e)'
    BY <1>1, <1>2, NodeCallIsLocal DEF NodeControlTypeOK
  <1> QED
    BY <1>3, <1>5, <1>6 DEF NodeIInv, NodeTypeOK, HostTypeOK, NodeControlTypeOK, NodeHistoryTypeOK
-----------------------------------------------------------------------------
(* The view *)

\* What the call asked for tells of its step and of the direction.
LEMMA AskedMeans ==
    ASSUME ViewOK, AskedOK
    PROVE  /\ asked \in Calls => /\ top = sure + 1
              /\ \/ top = 1 /\ heading = "up" /\ req[asked].rpc = "CreateVolume"
                 \/ top = 1 /\ heading = "down" /\ req[asked].rpc = "DeleteVolume"
                 \/ top = 2 /\ heading = "up" /\ req[asked].rpc = "ControllerPublishVolume"
                 \/ top = 2 /\ heading = "down" /\ req[asked].rpc = "ControllerUnpublishVolume"
           /\ asked \in NodeCalls => /\ top = sure + 1
              /\ \/ top = 3 /\ heading = "up" /\ nreq[asked].rpc = "NodeStageVolume"
                 \/ top = 3 /\ heading = "down" /\ nreq[asked].rpc = "NodeUnstageVolume"
                 \/ top = 4 /\ heading = "up" /\ nreq[asked].rpc = "NodePublishVolume"
                 \/ top = 4 /\ heading = "down" /\ nreq[asked].rpc = "NodeUnpublishVolume"
  <1>1. asked \in Calls \cup NodeCalls => asked # Nobody
    BY CallsAssumption
  <1>2. CASE asked \in Calls
    <2>1. top \in {1, 2} /\ top = sure + 1 /\ asked \notin NodeCalls
      BY <1>1, <1>2, CallsAssumption DEF ViewOK, OnController
    <2> QED
      BY <1>2, <2>1 DEF ViewOK, AskedOK, AskedRpc, UpRpc, DownRpc
  <1>3. CASE asked \in NodeCalls
    <2>1. top \in {3, 4} /\ top = sure + 1 /\ asked \notin Calls
      BY <1>1, <1>3, CallsAssumption DEF ViewOK, OnController
    <2> QED
      BY <1>3, <2>1 DEF ViewOK, AskedOK, AskedRpc, UpRpc, DownRpc
  <1> QED
    BY <1>2, <1>3

\* Nothing that the view is about changes.
LEMMA SteadyView ==
    ASSUME UNCHANGED <<disks, instances, attached, mounts, sure, top, heading, lapsed>>
    PROVE  View' = View /\ Shown' = Shown /\ MountsOK' = MountsOK
  <1>1. \A k : InEffect(k)' = InEffect(k) /\ Undone(k)' = Undone(k) /\ Sound(k)' = Sound(k)
    BY DEF InEffect, Undone, Sound, Exists, Shows
  <1> QED
    BY <1>1 DEF View, ToldUpIsUp, ToldDownIsDown, Shown, MountsOK

\* A step may lapse, but nothing unlapses.
LEMMA LapsesGrow ==
    ASSUME ViewOK, NEW c, Lapses(c), UNCHANGED instances
    PROVE  /\ lapsed \subseteq lapsed' /\ lapsed' \subseteq Steps
           /\ \A k \in Steps : Sound(k)' => Sound(k)
           /\ \A k \in Steps : k \notin lapsed' => k \notin lapsed /\ ~Spoils(c, k)
  <1>1. lapsed' = lapsed \cup {k \in Steps : Spoils(c, k)}
    BY DEF Lapses
  <1> HIDE DEF Lapses
  <1>2. lapsed \subseteq lapsed' /\ lapsed' \subseteq Steps
    BY <1>1 DEF ViewOK
  <1> QED
    BY <1>1, <1>2 DEF Sound

\* Whatever a leftover does, the view stays right or there is a lapse.
LEMMA LeftoverHarmless ==
    ASSUME ViewOK, View, NEW c, asked # c, Lapses(c),
           UNCHANGED <<instances, sure, top, heading>>
    PROVE  View' /\ (Shown /\ top = sure + 1 => Shown')
  <1>1. /\ \A k \in Steps : Sound(k)' => Sound(k) /\ k \notin lapsed'
        /\ \A k \in Steps : k \notin lapsed' =>
              /\ k \notin lapsed
              /\ Wanted(k) /\ InEffect(k) => InEffect(k)'
              /\ ~Wanted(k) /\ Undone(k) => Undone(k)'
    <2>1. \A k \in Steps : Sound(k)' => k \notin lapsed'
      BY DEF Sound, Steps
    <2> QED
      BY <2>1, LapsesGrow DEF Spoils
  <1>2. ToldUpIsUp'
    <2> SUFFICES ASSUME NEW k \in Steps, k <= sure', Sound(k)' PROVE InEffect(k)'
      BY DEF ToldUpIsUp
    <2> QED
      BY <1>1 DEF View, ToldUpIsUp, Wanted
  <1>3. ToldDownIsDown'
    <2> SUFFICES ASSUME NEW k \in Steps, k > top', k \notin lapsed' PROVE Undone(k)'
      BY DEF ToldDownIsDown
    <2>1. ~Wanted(k)
      BY DEF Wanted, ViewOK, Steps
    <2> QED
      BY <1>1, <2>1 DEF View, ToldDownIsDown
  <1>4. ASSUME Shown, top = sure + 1 PROVE Shown'
    BY <1>1, <1>4 DEF Shown, Wanted, ViewOK, Steps
  <1> QED
    BY <1>2, <1>3, <1>4 DEF View
-----------------------------------------------------------------------------
(* What the services do to the world *)

LEMMA CloudMoves ==
    ASSUME IInv, NEW c \in Calls, OperationStep(c)
    PROVE  /\ ops[c] \in {"PENDING", "RUNNING"} /\ \A e \in Calls \ {c} : ops'[e] = ops[e]
           /\ UNCHANGED <<instances, req, pc, res>>
           /\ \/ req[c].rpc \in {"CreateVolume", "DeleteVolume"} /\ attached' = attached
              \/ /\ req[c].rpc \in {"ControllerPublishVolume", "ControllerUnpublishVolume"}
                 /\ disks' = disks
              \/ disks' = disks /\ attached' = attached
           /\ ops'[c] = "DONE" =>
                 \/ req[c].rpc = "CreateVolume" /\ disks'[volume] # Absent
                 \/ req[c].rpc = "DeleteVolume" /\ disks'[volume] = Absent
                 \/ req[c].rpc = "ControllerPublishVolume" /\ attached'[node][volume] # "NONE"
                 \/ req[c].rpc = "ControllerUnpublishVolume" /\ attached'[node][volume] = "NONE"
           /\ (attached[node][volume] # "NONE" /\ attached'[node][volume] = "NONE")
                 => req[c].rpc = "ControllerUnpublishVolume"
  <1>1. CloudTypeOK /\ UNCHANGED <<req, pc, res>>
    BY TypeOKParts DEF IInv, OperationStep, Observe
  <1>2. /\ req[c].disk = volume /\ req[c].node = node /\ req[c].mode \in Modes
        /\ volume \in Disks /\ node \in Nodes
    BY EveryRequest, Parameters
  <1>3. CASE InsertWorks(c)
    <2>1. attached' = attached /\ instances' = instances /\ req[c].rpc = "CreateVolume"
      BY <1>3 DEF InsertWorks, InsertBegins, InsertCompletes, InsertFails
    <2>2. /\ ops[c] \in {"PENDING", "RUNNING"} /\ \A e \in Calls \ {c} : ops'[e] = ops[e]
          /\ ops'[c] = "DONE" => disks'[volume].status = "READY"
      BY <1>1, <1>2, <1>3
         DEF InsertWorks, InsertBegins, InsertCompletes, InsertFails, CloudTypeOK, Disk
    <2>3. ops'[c] = "DONE" => disks'[volume] # Absent
      BY <2>2 DEF Absent
    <2> QED
      BY <1>1, <2>1, <2>2, <2>3
  <1>4. CASE DeleteWorks(c)
    BY <1>1, <1>2, <1>4 DEF DeleteWorks, DeleteCompletes, CloudTypeOK
  <1>5. CASE AttachWorks(c)
    BY <1>1, <1>2, <1>5 DEF AttachWorks, AttachCompletes, CloudTypeOK, Modes
  <1>6. CASE DetachWorks(c)
    BY <1>1, <1>2, <1>6 DEF DetachWorks, DetachCompletes, CloudTypeOK
  <1>7. CASE OpFails(c)
    BY <1>1, <1>7 DEF OpFails, CloudTypeOK
  <1> QED
    BY <1>3, <1>4, <1>5, <1>6, <1>7 DEF OperationStep

\* The four ways the mount table changes.
PutOn(p, shown) == mounts' = [mounts EXCEPT ![p] = <<shown>> \o @]

Staged(c) == nreq[c].rpc = "NodeStageVolume" /\ PutOn(staging, volume)

Bound(c) == nreq[c].rpc = "NodePublishVolume" /\ PutOn(target, Behind(staging))

Unstaged(c) ==
    /\ nreq[c].rpc = "NodeUnstageVolume"
    /\ mounts[staging] # <<>> /\ mounts' = [mounts EXCEPT ![staging] = Tail(@)]

Unbound(c) ==
    /\ nreq[c].rpc \in {"NodePublishVolume", "NodeUnpublishVolume"}
    /\ mounts[target] # <<>> /\ mounts' = [mounts EXCEPT ![target] = Tail(@)]

LEMMA NodeMoves ==
    ASSUME NodeIInv, NEW c \in NodeCalls, NodeInvoke(c) \/ NodeServe(c)
    PROVE  /\ nreq' = nreq /\ NodeOnlyMoves(c)
           /\ \/ mounts' = mounts /\ (Succeeds(c)' => Succeeds(c))
              \/ Staged(c) \/ Bound(c) \/ Unstaged(c)
              \/ Unbound(c) /\ (Succeeds(c)' => nreq[c].rpc = "NodeUnpublishVolume")
  <1>1. NodeControlTypeOK /\ NodePcOK(c)
    BY NodeTypeOKParts DEF NodeIInv, NodeCallOK
  <1>2. /\ nreq[c].volume = volume /\ nreq[c].staging = staging /\ nreq[c].target = target
        /\ nreq[c].args = "valid" /\ nreq[c].rpc \in NodeRpcs
    BY EveryNodeRequest
  <1>3. nreq' = nreq /\ NodeOnlyMoves(c)
    BY NodeInvokeKeeps, StageKeeps, PublishKeeps, UnmountKeeps, ReturnKeeps
       DEF NodeServe, NodeKept, NodeObserve
  <1>4. \A next : NodeGoto(c, next) /\ npc[c] # "done" => npc'[c] = next /\ nres'[c] = "None"
    BY <1>1 DEF NodeControlTypeOK, NodeGoto
  <1>5. \A code : NodeAnswer(c, code) => npc'[c] = "done" /\ nres'[c] = code
    BY <1>1 DEF NodeControlTypeOK, NodeAnswer
  <1>6. CASE NodeInvoke(c)
    BY <1>2, <1>4, <1>5, <1>3, <1>6
       DEF NodeInvoke, NodeStageVolume, NodeUnstageVolume, NodePublishVolume,
           NodeUnpublishVolume, NodeEnter, Looks, host, Succeeds
  <1>7. CASE \/ VerifyDevicePath(c) \/ StageCheck(c) \/ StageMkdir(c) \/ Fsck(c)
             \/ getDiskFormat(c) \/ Mkfs(c)
    <2>1. mounts' = mounts
      BY <1>7 DEF VerifyDevicePath, StageCheck, StageMkdir, OnlyFileSystems, Fsck, getDiskFormat,
                  Mkfs, Looks, host, MkdirAll
    <2>2. ~Succeeds(c)'
      BY <1>4, <1>5, <1>7
         DEF VerifyDevicePath, StageCheck, StageMkdir, OnlyFileSystems, Fsck, getDiskFormat,
             Mkfs, Looks, Succeeds
    <2> QED
      BY <1>3, <2>1, <2>2
  <1>8. CASE StageMount(c) \/ StageRemount(c)
    <2>1. nreq[c].rpc = "NodeStageVolume" /\ npc[c] # "done"
      BY <1>1, <1>8 DEF NodePcOK, StageSteps, StageMount, StageRemount
    <2> QED
      BY <1>2, <1>3, <1>4, <1>5, <1>8, <2>1
         DEF StageMount, StageRemount, MountDevice, Staged, PutOn, Succeeds, host
  <1>9. CASE TargetCheck(c) \/ TargetMkdir(c) \/ CleanCheck(c) \/ CleanRecheck(c) \/ TargetRemove(c)
    <2>1. mounts' = mounts
      BY <1>9 DEF TargetCheck, TargetMkdir, CleanCheck, CleanRecheck, TargetRemove, Looks, host,
                  MkdirAll
    <2>2. ~Succeeds(c)'
      BY <1>4, <1>5, <1>9
         DEF TargetCheck, TargetMkdir, CleanCheck, CleanRecheck, TargetRemove, Looks, Succeeds
    <2> QED
      BY <1>3, <2>1, <2>2
  <1>10. CASE TargetBind(c)
    <2>1. nreq[c].rpc = "NodePublishVolume"
      BY <1>1, <1>10 DEF NodePcOK, PublishSteps, TargetBind
    <2> QED
      BY <1>2, <1>3, <1>4, <1>10, <2>1 DEF TargetBind, BindMount, Bound, PutOn, Succeeds, host
  <1>11. CASE CleanUmount(c)
    <2>1. nreq[c].rpc = "NodePublishVolume"
      BY <1>1, <1>11 DEF NodePcOK, PublishSteps, CleanUmount
    <2> QED
      BY <1>2, <1>3, <1>4, <1>5, <1>11, <2>1
         DEF CleanUmount, Umount, Unbound, Succeeds, host
  <1>12. CASE UnmountVolume(c)
    <2>1. nreq[c].rpc \in {"NodeUnstageVolume", "NodeUnpublishVolume"}
      BY <1>1, <1>12 DEF NodePcOK, UnmountVolume
    <2>2. CASE Umount(UnmountPath(c))
      BY <1>2, <1>3, <2>1, <2>2 DEF UnmountPath, Umount, Unbound, Unstaged
    <2>3. CASE NodeAnswer(c, "Internal") /\ UNCHANGED host
      <3>1. mounts' = mounts /\ ~Succeeds(c)'
        BY <1>5, <2>3 DEF host, Succeeds
      <3> QED
        BY <1>3, <3>1
    <2> QED
      BY <1>12, <2>2, <2>3 DEF UnmountVolume
  <1>13. CASE Return(c)
    BY <1>3, <1>13 DEF Return, Looks, host, Succeeds
  <1> QED
    BY <1>6, <1>7, <1>8, <1>9, <1>10, <1>11, <1>12, <1>13 DEF NodeServe

-----------------------------------------------------------------------------
(* A step of a node call *)

\* What a mount and an umount do to the path they are for.
LEMMA OnPath ==
    ASSUME NodeIInv, NEW p \in Paths
    PROVE  /\ mounts[p] # <<>> <=> Len(mounts[p]) > 0
           /\ Len(mounts[p]) \in Nat
           /\ \A shown \in Volumes \cup {"root"} : PutOn(p, shown) =>
                 /\ Shows(p)' = shown /\ Len(mounts'[p]) = Len(mounts[p]) + 1
                 /\ \A q \in Paths \ {p} : mounts'[q] = mounts[q]
           /\ (mounts[p] # <<>> /\ mounts' = [mounts EXCEPT ![p] = Tail(@)]) =>
                 /\ Len(mounts'[p]) = Len(mounts[p]) - 1
                 /\ Len(mounts[p]) <= 1 => mounts'[p] = <<>>
                 /\ \A q \in Paths \ {p} : mounts'[q] = mounts[q]
  <1>1. mounts \in [Paths -> Seq(Volumes \cup {"root"})]
    BY DEF NodeIInv, NodeTypeOK
  <1>2. mounts[p] \in Seq(Volumes \cup {"root"})
    BY <1>1
  <1>3. Len(mounts[p]) \in Nat /\ (mounts[p] # <<>> <=> Len(mounts[p]) > 0)
    BY <1>2
  <1>4. ASSUME NEW shown \in Volumes \cup {"root"}, PutOn(p, shown)
        PROVE  /\ Shows(p)' = shown /\ Len(mounts'[p]) = Len(mounts[p]) + 1
               /\ \A q \in Paths \ {p} : mounts'[q] = mounts[q]
    <2>1. mounts'[p] = <<shown>> \o mounts[p] /\ \A q \in Paths \ {p} : mounts'[q] = mounts[q]
      BY <1>1, <1>4 DEF PutOn
    <2>2. /\ <<shown>> \o mounts[p] # <<>> /\ Head(<<shown>> \o mounts[p]) = shown
          /\ Len(<<shown>> \o mounts[p]) = Len(mounts[p]) + 1
      BY <1>2
    <2> QED
      BY <2>1, <2>2 DEF Shows
  <1>5. ASSUME mounts[p] # <<>>, mounts' = [mounts EXCEPT ![p] = Tail(@)]
        PROVE  /\ Len(mounts'[p]) = Len(mounts[p]) - 1
               /\ Len(mounts[p]) <= 1 => mounts'[p] = <<>>
               /\ \A q \in Paths \ {p} : mounts'[q] = mounts[q]
    <2>1. mounts'[p] = Tail(mounts[p]) /\ \A q \in Paths \ {p} : mounts'[q] = mounts[q]
      BY <1>1, <1>5
    <2>2. /\ Tail(mounts[p]) \in Seq(Volumes \cup {"root"})
          /\ Len(Tail(mounts[p])) = Len(mounts[p]) - 1
      BY <1>2, <1>5
    <2>3. Len(mounts[p]) <= 1 => Tail(mounts[p]) = <<>>
      BY <1>3, <2>2
    <2> QED
      BY <2>1, <2>2, <2>3
  <1> QED
    BY <1>3, <1>4, <1>5

LEMMA MountsKeep ==
    ASSUME NodeIInv, ViewOK, MountsOK, NEW c \in NodeCalls, NodeStep(c)
    PROVE  MountsOK'
  <1>1. NodeInvoke(c) \/ NodeServe(c)
    BY DEF NodeStep
  <1>2. Lapses(c) /\ UNCHANGED instances
    BY DEF NodeStep, vars
  <1>3. /\ staging \in Paths /\ target \in Paths /\ staging # target
        /\ volume \in Volumes /\ Behind(staging) \in Volumes \cup {"root"}
    BY Parameters, BehindType, NodeTypeOKParts DEF NodeIInv
  <1>4. /\ 3 \notin lapsed' => 3 \notin lapsed /\ ~Stacks(staging)
        /\ 4 \notin lapsed' => 4 \notin lapsed /\ ~Stacks(target)
    BY <1>2, LapsesGrow DEF Spoils, Steps
  <1>5. /\ mounts[staging] # <<>> <=> Len(mounts[staging]) > 0
        /\ mounts[target] # <<>> <=> Len(mounts[target]) > 0
        /\ Len(mounts[staging]) \in Nat /\ Len(mounts[target]) \in Nat
    BY <1>3, OnPath
  <1>6. CASE mounts' = mounts
    BY <1>4, <1>6 DEF MountsOK
  <1>7. CASE Staged(c)
    <2>1. /\ Len(mounts'[staging]) = Len(mounts[staging]) + 1
          /\ \A q \in Paths \ {staging} : mounts'[q] = mounts[q]
      BY <1>3, <1>7, OnPath DEF Staged
    <2> QED
      BY <1>3, <1>4, <1>5, <2>1 DEF MountsOK, Stacks
  <1>8. CASE Bound(c)
    <2>1. /\ Len(mounts'[target]) = Len(mounts[target]) + 1
          /\ \A q \in Paths \ {target} : mounts'[q] = mounts[q]
      BY <1>3, <1>8, OnPath DEF Bound
    <2> QED
      BY <1>3, <1>4, <1>5, <2>1 DEF MountsOK, Stacks
  <1>9. CASE Unstaged(c)
    <2>1. /\ Len(mounts'[staging]) = Len(mounts[staging]) - 1
          /\ \A q \in Paths \ {staging} : mounts'[q] = mounts[q]
      BY <1>3, <1>9, OnPath DEF Unstaged
    <2> QED
      BY <1>3, <1>4, <1>5, <2>1 DEF MountsOK
  <1>10. CASE Unbound(c)
    <2>1. /\ Len(mounts'[target]) = Len(mounts[target]) - 1
          /\ \A q \in Paths \ {target} : mounts'[q] = mounts[q]
      BY <1>3, <1>10, OnPath DEF Unbound
    <2> QED
      BY <1>3, <1>4, <1>5, <2>1 DEF MountsOK
  <1> QED
    BY <1>1, <1>6, <1>7, <1>8, <1>9, <1>10, NodeMoves

\* The call the caller waits for works on the step in doubt alone, and earns
\* its answer: a bind shows the volume because the staging path does.
LEMMA AskedNodeStep ==
    ASSUME LInv, NEW c \in NodeCalls, asked = c, NodeStep(c)
    PROVE  View' /\ Earning'
  <1>1. /\ NodeInvoke(c) \/ NodeServe(c)
        /\ Lapses(c) /\ UNCHANGED <<disks, instances, attached, sure, top, heading, asked>>
    BY DEF NodeStep, vars
  <1>2. NodeIInv /\ ViewOK /\ AskedOK /\ View /\ Earning /\ MountsOK
    BY DEF LInv
  <1>3. /\ staging \in Paths /\ target \in Paths /\ staging # target
        /\ volume \in Volumes /\ Behind(staging) \in Volumes \cup {"root"} /\ volume # "nothing"
    BY <1>2, Parameters, BehindType, NodeTypeOKParts DEF NodeIInv
  <1>4. /\ c \notin Calls
        /\ \/ top = 3 /\ sure = 2 /\ heading = "up" /\ nreq[c].rpc = "NodeStageVolume"
           \/ top = 3 /\ sure = 2 /\ heading = "down" /\ nreq[c].rpc = "NodeUnstageVolume"
           \/ top = 4 /\ sure = 3 /\ heading = "up" /\ nreq[c].rpc = "NodePublishVolume"
           \/ top = 4 /\ sure = 3 /\ heading = "down" /\ nreq[c].rpc = "NodeUnpublishVolume"
    BY <1>2, AskedMeans, CallsAssumption DEF ViewOK
  <1>5. /\ \A k \in Steps : Sound(k)' => Sound(k)
        /\ \A k \in Steps : k \notin lapsed' => k \notin lapsed
    BY <1>1, <1>2, LapsesGrow
  <1>6. /\ \/ mounts' = mounts /\ (Succeeds(c)' => Succeeds(c))
           \/ Staged(c) \/ Bound(c) \/ Unstaged(c)
           \/ Unbound(c) /\ (Succeeds(c)' => nreq[c].rpc = "NodeUnpublishVolume")
    BY <1>1, <1>2, NodeMoves
  <1>7. /\ InEffect(1)' = InEffect(1) /\ InEffect(2)' = InEffect(2)
    BY <1>1 DEF InEffect, Exists
  <1>8. /\ top = 3 => mounts'[target] = mounts[target]
        /\ top = 4 => mounts'[staging] = mounts[staging]
    BY <1>3, <1>4, <1>6, <1>2, OnPath DEF Staged, Bound, Unstaged, Unbound
  <1>9. /\ top = 3 => Undone(4)' = Undone(4)
        /\ top = 4 => InEffect(3)' = InEffect(3)
    BY <1>8 DEF InEffect, Undone, Shows
  <1>10. View'
    <2>1. ToldUpIsUp'
      <3> SUFFICES ASSUME NEW k \in Steps, k <= sure', Sound(k)' PROVE InEffect(k)'
        BY DEF ToldUpIsUp
      <3>1. InEffect(k)
        BY <1>1, <1>2, <1>5 DEF View, ToldUpIsUp
      <3> QED
        BY <3>1, <1>1, <1>4, <1>7, <1>9 DEF Steps
    <2>2. ToldDownIsDown'
      <3> SUFFICES ASSUME NEW k \in Steps, k > top', k \notin lapsed' PROVE Undone(k)'
        BY DEF ToldDownIsDown
      <3>1. Undone(k)
        BY <1>1, <1>2, <1>5 DEF View, ToldDownIsDown
      <3> QED
        BY <3>1, <1>1, <1>4, <1>9 DEF Steps
    <2> QED
      BY <2>1, <2>2 DEF View
  <1>11. ASSUME Succeeds(c)' PROVE Shown'
    <2>2. CASE mounts' = mounts /\ Succeeds(c)
      <3>1. Shown
        BY <1>2, <2>2 DEF Earning, Succeeds, Owed
      <3>2. \A k \in Steps : InEffect(k)' = InEffect(k) /\ Undone(k)' = Undone(k)
        BY <1>1, <2>2 DEF InEffect, Undone, Exists, Shows
      <3>3. top \in Steps
        BY <1>4 DEF Steps
      <3> QED
        BY <3>1, <3>2, <3>3, <1>1, <1>5 DEF Shown
    <2>3. CASE Staged(c)
      <3>1. top = 3 /\ heading = "up"
        BY <1>4, <2>3 DEF Staged
      <3>2. Shows(staging)' = volume
        BY <1>2, <1>3, <2>3, OnPath DEF Staged
      <3> QED
        BY <1>1, <3>1, <3>2 DEF Shown, InEffect, Shows
    <2>4. CASE Bound(c)
      <3>1. top = 4 /\ heading = "up" /\ sure = 3
        BY <1>4, <2>4 DEF Bound
      <3>2. Shows(target)' = Behind(staging)
        BY <1>2, <1>3, <2>4, OnPath DEF Bound
      <3>3. Sound(4)' => Sound(3)
        BY <1>5 DEF Sound, Steps
      <3>4. Sound(4)' => InEffect(3)
        BY <1>2, <3>1, <3>3 DEF View, ToldUpIsUp, Steps
      <3>5. InEffect(3) => Behind(staging) = volume
        BY <1>3 DEF InEffect, Shows, Behind
      <3> QED
        BY <1>1, <3>1, <3>2, <3>4, <3>5 DEF Shown, InEffect, Shows
    <2>5. CASE Unstaged(c)
      <3>1. top = 3 /\ heading = "down"
        BY <1>4, <2>5 DEF Unstaged
      <3>2. 3 \notin lapsed' => Len(mounts[staging]) <= 1
        BY <1>2, <1>5 DEF MountsOK, Steps
      <3>3. Len(mounts[staging]) <= 1 => mounts'[staging] = <<>>
        BY <1>2, <1>3, <2>5, OnPath DEF Unstaged
      <3> QED
        BY <1>1, <3>1, <3>2, <3>3 DEF Shown, Undone
    <2>6. CASE Unbound(c) /\ nreq[c].rpc = "NodeUnpublishVolume"
      <3>1. top = 4 /\ heading = "down"
        BY <1>4, <2>6
      <3>2. 4 \notin lapsed' => Len(mounts[target]) <= 1
        BY <1>2, <1>5 DEF MountsOK, Steps
      <3>3. Len(mounts[target]) <= 1 => mounts'[target] = <<>>
        BY <1>2, <1>3, <2>6, OnPath DEF Unbound
      <3> QED
        BY <1>1, <3>1, <3>2, <3>3 DEF Shown, Undone
    <2> QED
      BY <1>6, <1>11, <2>2, <2>3, <2>4, <2>5, <2>6
  <1>12. Earning'
    BY <1>1, <1>4, <1>11 DEF Earning, Succeeds, Owed
  <1> QED
    BY <1>10, <1>12

LEMMA NodeStepKeepsAll ==
    ASSUME LInv, NEW c \in NodeCalls, NodeStep(c)
    PROVE  LInv'
  <1>1. /\ NodeInvoke(c) \/ NodeServe(c)
        /\ Lapses(c) /\ UNCHANGED <<vars, instances, sure, top, heading, asked>>
    BY DEF NodeStep, vars
  <1>2. /\ IInv /\ NodeIInv /\ ViewOK /\ AskedOK /\ View /\ Earning /\ MountsOK
        /\ NotFoundOK /\ GoneOK
    BY DEF LInv
  <1>3. IInv' /\ NodeIInv'
    BY <1>1, <1>2, NextInvariant, NodeStepKeeps DEF NodeNext
  <1>4. lapsed \subseteq lapsed' /\ lapsed' \subseteq Steps
    BY <1>1, <1>2, LapsesGrow
  <1>5. nreq' = nreq /\ NodeOnlyMoves(c)
    BY <1>1, <1>2, NodeMoves
  <1>6. ViewOK' /\ AskedOK' /\ NotFoundOK' /\ GoneOK'
    BY <1>1, <1>2, <1>4, <1>5 DEF ViewOK, AskedOK, AskedRpc, NotFoundOK, GoneOK, vars
  <1>7. MountsOK'
    BY <1>2, MountsKeep
  <1>8. View' /\ Earning'
    <2>1. CASE asked = c
      BY <2>1, AskedNodeStep
    <2>2. CASE asked # c
      <3>1. View' /\ (Shown /\ top = sure + 1 => Shown')
        BY <1>1, <1>2, <2>2, LeftoverHarmless
      <3>2. asked \in Calls \cup NodeCalls => top = sure + 1
        BY <1>2, AskedMeans
      <3>3. Earning'
        BY <1>1, <1>2, <1>5, <2>2, <3>1, <3>2 DEF Earning, Owed, Succeeds, NodeOnlyMoves, vars
      <3> QED
        BY <3>1, <3>3
    <2> QED
      BY <2>1, <2>2
  <1> QED
    BY <1>3, <1>6, <1>7, <1>8 DEF LInv
-----------------------------------------------------------------------------
(* The service works on an operation *)

\* An operation whose call is still waited for has not been answered OK: it
\* works on the step in doubt, and shows its effect when it is done.
LEMMA AskedCloudStep ==
    ASSUME LInv, NEW c \in Calls, asked = c, CloudStep(c)
    PROVE  View' /\ Earning'
  <1>1. /\ OperationStep(c) /\ Lapses(c)
        /\ UNCHANGED <<instances, mounts, sure, top, heading, asked>>
    BY CloudMoves DEF CloudStep, LInv
  <1>2. IInv /\ ViewOK /\ AskedOK /\ View /\ Earning
    BY DEF LInv
  <1>3. /\ c \notin NodeCalls
        /\ \/ top = 1 /\ sure = 0 /\ heading = "up" /\ req[c].rpc = "CreateVolume"
           \/ top = 1 /\ sure = 0 /\ heading = "down" /\ req[c].rpc = "DeleteVolume"
           \/ top = 2 /\ sure = 1 /\ heading = "up" /\ req[c].rpc = "ControllerPublishVolume"
           \/ top = 2 /\ sure = 1 /\ heading = "down" /\ req[c].rpc = "ControllerUnpublishVolume"
    BY <1>2, AskedMeans, CallsAssumption DEF ViewOK
  <1>4. /\ \A k \in Steps : Sound(k)' => Sound(k)
        /\ \A k \in Steps : k \notin lapsed' => k \notin lapsed
    BY <1>1, <1>2, LapsesGrow
  <1>5. /\ ops[c] \in {"PENDING", "RUNNING"} /\ UNCHANGED <<pc, res>>
        /\ top = 1 => attached' = attached
        /\ top = 2 => disks' = disks
        /\ ops'[c] = "DONE" =>
              \/ req[c].rpc = "CreateVolume" /\ disks'[volume] # Absent
              \/ req[c].rpc = "DeleteVolume" /\ disks'[volume] = Absent
              \/ req[c].rpc = "ControllerPublishVolume" /\ attached'[node][volume] # "NONE"
              \/ req[c].rpc = "ControllerUnpublishVolume" /\ attached'[node][volume] = "NONE"
    BY <1>1, <1>2, <1>3, CloudMoves
  <1>6. /\ top = 1 => Undone(2)' = Undone(2)
        /\ top = 2 => InEffect(1)' = InEffect(1)
        /\ Undone(3)' = Undone(3) /\ Undone(4)' = Undone(4)
    BY <1>1, <1>5 DEF InEffect, Undone, Exists
  <1>7. ToldUpIsUp'
    <2> SUFFICES ASSUME NEW k \in Steps, k <= sure', Sound(k)' PROVE InEffect(k)'
      BY DEF ToldUpIsUp
    <2>1. InEffect(k)
      BY <1>1, <1>2, <1>4 DEF View, ToldUpIsUp
    <2> QED
      BY <2>1, <1>1, <1>3, <1>6 DEF Steps
  <1>8. ToldDownIsDown'
    <2> SUFFICES ASSUME NEW k \in Steps, k > top', k \notin lapsed' PROVE Undone(k)'
      BY DEF ToldDownIsDown
    <2>1. Undone(k)
      BY <1>1, <1>2, <1>4 DEF View, ToldDownIsDown
    <2> QED
      BY <2>1, <1>1, <1>3, <1>6 DEF Steps
  <1>9. pc[c] # "recheck" /\ res[c] # "OK"
    <2>1. TypeOK /\ Evidence(c) /\ Final(c)
      BY <1>2 DEF IInv, CallOK
    <2> QED
      BY <2>1, <1>5 DEF TypeOK, Evidence, Final
  <1>10. ops'[c] = "DONE" => Shown'
    BY <1>1, <1>3, <1>5 DEF Shown, InEffect, Undone, Exists
  <1>11. Earning'
    BY <1>1, <1>3, <1>5, <1>9, <1>10 DEF Earning, Owed, Succeeds
  <1> QED
    BY <1>7, <1>8, <1>11 DEF View

LEMMA OnlyToANodeThatIsThere ==
    ASSUME IInv, NEW c \in Calls, OperationStep(c)
    PROVE  /\ UNCHANGED instances
           /\ (attached[node][volume] = "NONE" /\ attached'[node][volume] # "NONE")
                 => node \in instances
  <1>1. CloudTypeOK
    BY TypeOKParts DEF IInv
  <1>2. /\ req[c].disk = volume /\ req[c].node = node /\ volume \in Disks /\ node \in Nodes
    BY EveryRequest, Parameters
  <1>3. CASE InsertWorks(c) \/ DeleteWorks(c) \/ OpFails(c)
    <2>1. attached' = attached
      BY <1>3 DEF InsertWorks, InsertBegins, InsertCompletes, InsertFails, DeleteWorks,
                  DeleteCompletes, OpFails
    <2> QED
      BY <2>1, CloudMoves
  <1>4. CASE AttachWorks(c)
    BY <1>1, <1>2, <1>4 DEF AttachWorks, AttachCompletes, CanAttach, CloudTypeOK
  <1>5. CASE DetachWorks(c)
    BY <1>1, <1>2, <1>5 DEF DetachWorks, DetachCompletes, CloudTypeOK
  <1> QED
    BY <1>3, <1>4, <1>5 DEF OperationStep

LEMMA CloudStepKeepsAll ==
    ASSUME LInv, NEW c \in Calls, CloudStep(c)
    PROVE  LInv'
  <1>1. /\ OperationStep(c) /\ Lapses(c)
        /\ UNCHANGED <<device, dirs, mounts, nreq, npc, nres, nsaw, sure, top, heading, asked>>
        /\ content' = [content EXCEPT ![volume] =
                          IF disks'[volume].status = "CREATING" THEN "blank" ELSE @]
    BY DEF CloudStep
  <1>2. /\ IInv /\ NodeIInv /\ ViewOK /\ AskedOK /\ View /\ Earning /\ MountsOK
        /\ NotFoundOK /\ GoneOK
    BY DEF LInv
  <1>3. IInv'
    BY <1>1, <1>2, NextInvariant DEF Next
  <1>4. NodeIInv'
    <2>1. NodeTypeOK /\ \A e \in NodeCalls : NodeCallOK(e)
      BY <1>2 DEF NodeIInv
    <2>2. NodeTypeOK'
      BY <1>1, <2>1, Parameters DEF NodeTypeOK, Contents
    <2>3. \A e \in NodeCalls : NodeCallOK(e)'
      BY <1>1, <2>1, NodeCallIsLocal
    <2> QED
      BY <2>2, <2>3 DEF NodeIInv
  <1>5. /\ \A e \in Calls \ {c} : ops'[e] = ops[e]
        /\ UNCHANGED <<instances, req, pc, res>>
    BY <1>1, <1>2, CloudMoves
  <1>6. lapsed \subseteq lapsed' /\ lapsed' \subseteq Steps
    BY <1>1, <1>2, <1>5, LapsesGrow
  <1>7. ViewOK' /\ AskedOK' /\ NotFoundOK' /\ GoneOK' /\ MountsOK'
    <2>1. GoneOK'
      BY <1>1, <1>2, OnlyToANodeThatIsThere DEF GoneOK
    <2> QED
      BY <1>1, <1>2, <1>5, <1>6, <2>1 DEF ViewOK, AskedOK, AskedRpc, NotFoundOK, MountsOK
  <1>8. View' /\ Earning'
    <2>1. CASE asked = c
      BY <2>1, AskedCloudStep
    <2>2. CASE asked # c
      <3>1. View' /\ (Shown /\ top = sure + 1 => Shown')
        BY <1>1, <1>2, <1>5, <2>2, LeftoverHarmless
      <3>2. asked \in Calls \cup NodeCalls => top = sure + 1
        BY <1>2, AskedMeans
      <3>3. Earning'
        BY <1>1, <1>2, <1>5, <2>2, <3>1, <3>2 DEF Earning, Owed, Succeeds
      <3> QED
        BY <3>1, <3>3
    <2> QED
      BY <2>1, <2>2
  <1> QED
    BY <1>3, <1>4, <1>7, <1>8 DEF LInv
-----------------------------------------------------------------------------
(* A step of a controller call *)

LEMMA ControllerMoves ==
    ASSUME IInv, NEW c \in Calls, Invoke(c) \/ Abandon(c) \/ Serve(c) \/ OrphanLands(c)
    PROVE  /\ IInv' /\ OnlyMoves(c)
           /\ UNCHANGED <<disks, instances, attached, req>>
  <1>1. IInv'
    BY NextInvariant DEF Next
  <1>2. OnlyMoves(c)
    BY InvokeKeeps, ServeKeeps, LeavingKeeps
  <1>3. CASE Serve(c)
    BY <1>1, <1>2, <1>3, ServeFrame
  <1>4. CASE Invoke(c) \/ Abandon(c) \/ OrphanLands(c)
    BY <1>1, <1>2, <1>4 DEF Invoke, CreateVolume, DeleteVolume, ControllerPublishVolume,
       ControllerUnpublishVolume, Enter, Abandon, OrphanLands, Observe, cloud
  <1> QED
    BY <1>3, <1>4

\* The handler of the call asked for: when it comes to owe an OK, the step
\* in doubt is as the OK says; and it finds the disk it was told of.
LEMMA AskedServe ==
    ASSUME LInv, NEW c \in Calls, asked = c, Serve(c)
    PROVE  /\ Owed(c)' => Shown
           /\ res'[c] = "NotFound" => lapsed # {} \/ (node \notin instances /\ top = 2)
  <1>1. IInv /\ ViewOK /\ AskedOK /\ View /\ Earning
    BY DEF LInv
  <1>2. /\ TypeOK /\ PcOK(c) /\ Evidence(c) /\ res[c] = "None" /\ c \in Calls
    BY <1>1, ServeFrame DEF CallOK
  <1>3. \/ top = 1 /\ sure = 0 /\ heading = "up" /\ req[c].rpc = "CreateVolume"
        \/ top = 1 /\ sure = 0 /\ heading = "down" /\ req[c].rpc = "DeleteVolume"
        \/ top = 2 /\ sure = 1 /\ heading = "up" /\ req[c].rpc = "ControllerPublishVolume"
        \/ top = 2 /\ sure = 1 /\ heading = "down" /\ req[c].rpc = "ControllerUnpublishVolume"
    BY <1>1, AskedMeans DEF ViewOK
  <1>4. /\ req[c].disk = volume /\ req[c].node = node /\ req[c].mode \in Modes
        /\ node \in Nodes /\ node \in NodesOf[volume]
    BY <1>1, EveryRequest, Parameters
  <1>5. \A next : Goto(c, next) => pc'[c] = next /\ res'[c] = "None"
    BY <1>2 DEF TypeOK, Goto
  <1>6. \A code : Answer(c, code) => pc'[c] = "done" /\ res'[c] = code
    BY <1>2 DEF TypeOK, Answer
  <1>7. \A reply : Submit(c, reply) => ops'[c] \in {ops[c], "PENDING"}
    BY <1>2 DEF TypeOK, CloudTypeOK, Submit
  <1>8. \A reply : Submit(c, reply) /\ reply = "accepted" => ops'[c] = "PENDING"
    BY <1>2 DEF TypeOK, CloudTypeOK, Submit, Starts
  <1>9. CASE CreateGet(c) \/ CreateRecheck(c)
    <2>1. heading = "up" /\ top = 1
      BY <1>2, <1>3, <1>9 DEF PcOK, CreateGet, CreateRecheck
    <2>2. CASE CreateGet(c)
      <3>1. "compatible" \in GetAndValidateExistingDisk(req[c]) => Exists(volume)
        BY <1>4 DEF GetAndValidateExistingDisk, DiskGetReplies
      <3> QED
        BY <1>5, <1>6, <2>1, <2>2, <3>1 DEF CreateGet, Owed, Shown, InEffect
    <2>3. CASE CreateRecheck(c)
      <3>1. Shown
        BY <1>1, <2>3 DEF Earning, Owed, CreateRecheck
      <3> QED
        BY <1>6, <2>3, <3>1 DEF CreateRecheck
    <2> QED
      BY <1>9, <2>2, <2>3
  <1>10. CASE CreateInsert(c)
    <2>1. heading = "up" /\ top = 1
      BY <1>2, <1>3, <1>10 DEF PcOK, CreateInsert
    <2>2. "alreadyExists" \in InsertReplies(req[c].disk) => Exists(volume)
      BY <1>4 DEF InsertReplies, Accepting
    <2> QED
      BY <1>5, <1>6, <1>8, <1>10, <2>1, <2>2 DEF CreateInsert, Owed, Shown, InEffect
  <1>11. CASE DeleteIssue(c)
    <2>1. heading = "down" /\ top = 1
      BY <1>2, <1>3, <1>11 DEF PcOK, DeleteIssue
    <2>2. "notFound" \in DeleteReplies(req[c].disk) => ~Exists(volume)
      BY <1>4 DEF DeleteReplies, Accepting
    <2> QED
      BY <1>5, <1>6, <1>8, <1>11, <2>1, <2>2 DEF DeleteIssue, Owed, Shown, Undone
  <1>12. CASE GetDiskOrError(c)
    <2>1. sure = 1
      BY <1>2, <1>3, <1>12 DEF PcOK, GetDiskOrError
    <2>2. lapsed = {} => Exists(volume)
      BY <1>1, <2>1 DEF View, ToldUpIsUp, Sound, InEffect, Steps
    <2>3. "notFound" \in DiskGetReplies(req[c].disk) => ~Exists(volume)
      BY <1>4 DEF DiskGetReplies
    <2> QED
      BY <1>5, <1>6, <1>12, <2>2, <2>3 DEF GetDiskOrError, Owed
  <1>13. CASE GetInstanceOrError(c)
    <2>1. top = 2
      BY <1>2, <1>3, <1>13 DEF PcOK, GetInstanceOrError
    <2>2. "notFound" \in InstanceGetReplies(req[c].node, req[c].node \in NodesOf[req[c].disk])
             => node \notin instances
      BY <1>4 DEF InstanceGetReplies
    <2>3. CASE /\ req[c].rpc = "ControllerPublishVolume"
               /\ diskIsAttachedAndCompatible(c, attached[node][volume])
      <3>1. heading = "up"
        BY <1>3, <2>3
      <3>2. "NONE" \notin Modes
        BY DEF Modes
      <3> QED
        BY <1>4, <1>5, <1>6, <2>1, <2>3, <3>1, <3>2
           DEF diskIsAttachedAndCompatible, Owed, Shown, InEffect
    <2>4. CASE /\ req[c].rpc = "ControllerUnpublishVolume"
               /\ diskIsAttached(c, attached[node][volume])
      <3>1. heading = "down"
        BY <1>3, <2>4
      <3> QED
        BY <1>5, <1>6, <2>1, <2>4, <3>1 DEF diskIsAttached, Owed, Shown, Undone
    <2>5. CASE Answer(c, "Internal")
      BY <1>6, <2>5 DEF Owed
    <2>6. CASE node \notin instances /\ Answer(c, "NotFound")
      BY <1>6, <2>1, <2>6 DEF Owed
    <2> QED
      BY <1>3, <1>4, <1>13, <2>1, <2>2, <2>3, <2>4, <2>5, <2>6 DEF GetInstanceOrError
  <1>14. CASE PublishAttach(c) \/ UnpublishDetach(c)
    BY <1>5, <1>6, <1>8, <1>14 DEF PublishAttach, UnpublishDetach, Owed
  <1>15. CASE WaitDone(c)
    <2>1. ops' = ops /\ ops[c] \in {"DONE", "FAILED"} /\ pc[c] = "wait"
      BY <1>15 DEF WaitDone, opIsDone, cloud
    <2>2. ops[c] = "DONE" => Shown
      BY <1>1, <2>1 DEF Earning, Owed
    <2> QED
      BY <1>6, <1>15, <2>1, <2>2 DEF WaitDone, Owed
  <1>16. CASE WaitPollError(c) \/ WaitTimeout(c)
    BY <1>6, <1>16 DEF WaitPollError, WaitTimeout, Owed
  <1> QED
    BY <1>9, <1>10, <1>11, <1>12, <1>13, <1>14, <1>15, <1>16 DEF Serve, Progress

LEMMA AskedControllerStep ==
    ASSUME LInv, NEW c \in Calls, asked = c, ControllerStep(c)
    PROVE  /\ Owed(c)' => Shown
           /\ res'[c] = "NotFound" => lapsed # {} \/ (node \notin instances /\ top = 2)
  <1>1. TypeOK /\ Evidence(c) /\ req[c].args = "valid"
    BY EveryRequest DEF LInv, IInv, CallOK
  <1>2. CASE Invoke(c)
    <2>1. pc'[c] \in {"get", "delete", "getDisk"} /\ res'[c] = "None"
      BY <1>1, <1>2 DEF Invoke, CreateVolume, DeleteVolume, ControllerPublishVolume,
         ControllerUnpublishVolume, Enter, CheckArguments, Goto, TypeOK, Over
    <2> QED
      BY <2>1 DEF Owed
  <1>3. CASE Abandon(c)
    <2>1. pc'[c] \in {"orphan", "done"} /\ res'[c] = "NoAnswer"
      BY <1>1, <1>3 DEF Abandon, TypeOK
    <2> QED
      BY <2>1 DEF Owed
  <1>4. CASE OrphanLands(c)
    <2>1. pc'[c] = "done" /\ res'[c] = "NoAnswer"
      BY <1>1, <1>4 DEF OrphanLands, Goto, TypeOK, Evidence
    <2> QED
      BY <2>1 DEF Owed
  <1> QED
    BY <1>2, <1>3, <1>4, AskedServe DEF ControllerStep

LEMMA ControllerStepKeepsAll ==
    ASSUME LInv, NEW c \in Calls, ControllerStep(c)
    PROVE  LInv'
  <1>1. /\ Invoke(c) \/ Abandon(c) \/ Serve(c) \/ OrphanLands(c)
        /\ UNCHANGED <<nodeVars, callerVars>>
    BY DEF ControllerStep
  <1>2. /\ IInv /\ NodeIInv /\ ViewOK /\ AskedOK /\ View /\ Earning /\ MountsOK
        /\ NotFoundOK /\ GoneOK
    BY DEF LInv
  <1>3. IInv' /\ OnlyMoves(c) /\ UNCHANGED <<disks, instances, attached, req>>
    BY <1>1, <1>2, ControllerMoves
  <1>4. NodeIInv'
    BY <1>1, <1>2, NodeStutterKeeps
  <1>5. View' /\ MountsOK' /\ Shown' = Shown
    BY <1>1, <1>2, <1>3, SteadyView DEF nodeVars, callerVars
  <1>6. ViewOK' /\ AskedOK' /\ GoneOK'
    BY <1>1, <1>2, <1>3 DEF ViewOK, AskedOK, AskedRpc, GoneOK, nodeVars, callerVars
  <1>7. asked = c => /\ Owed(c)' => Shown
                     /\ res'[c] = "NotFound" => lapsed # {} \/ (node \notin instances /\ top = 2)
    BY AskedControllerStep
  <1>8. \A e \in Calls \ {c} : (Owed(e)' = Owed(e)) /\ res'[e] = res[e]
    BY <1>3 DEF OnlyMoves, Owed
  <1>9. Earning' /\ NotFoundOK'
    BY <1>1, <1>2, <1>3, <1>5, <1>7, <1>8
       DEF Earning, NotFoundOK, Succeeds, nodeVars, callerVars
  <1> QED
    BY <1>2, <1>3, <1>4, <1>5, <1>6, <1>9 DEF LInv
-----------------------------------------------------------------------------
(* The caller *)

\* A step of the caller that changes nothing of the world and no lapse:
\* the view may change as far as it says the same, or what an answer told.
LEMMA CallerMoves ==
    ASSUME View, UNCHANGED <<disks, instances, attached, mounts>>, lapsed \subseteq lapsed',
           sure \in Nat, sure' \in Nat, top \in {sure, sure + 1}, top' \in {sure', sure' + 1},
           \/ sure' <= sure
           \/ sure' = top /\ \A k \in Steps : k = top => (Sound(k)' => InEffect(k)),
           \/ top' >= top
           \/ top' = top - 1 /\ (top \notin lapsed' => Undone(top))
    PROVE  View'
  <1>1. \A k : InEffect(k)' = InEffect(k) /\ Undone(k)' = Undone(k) /\ (Sound(k)' => Sound(k))
    BY DEF InEffect, Undone, Sound, Exists, Shows
  <1>2. ToldUpIsUp'
    <2> SUFFICES ASSUME NEW k \in Steps, k <= sure', Sound(k)' PROVE InEffect(k)'
      BY DEF ToldUpIsUp
    <2>1. k <= sure \/ k = top
      BY DEF Steps
    <2> QED
      BY <1>1, <2>1 DEF View, ToldUpIsUp
  <1>3. ToldDownIsDown'
    <2> SUFFICES ASSUME NEW k \in Steps, k > top', k \notin lapsed' PROVE Undone(k)'
      BY DEF ToldDownIsDown
    <2>1. k > top \/ k = top
      BY DEF Steps
    <2> QED
      BY <1>1, <2>1 DEF View, ToldDownIsDown
  <1> QED
    BY <1>2, <1>3 DEF View

\* A call is made on the step that is now in doubt, in a free slot.
LEMMA IssueKeepsAll ==
    ASSUME LInv, NEW k \in Steps, NEW rpc, Issue(k, rpc),
           rpc = IF heading' = "up" THEN UpRpc[k] ELSE DownRpc[k],
           heading' \in {"up", "down"}, top' = k, sure' = k - 1, lapsed' = lapsed,
           sure' <= sure, top' >= top
    PROVE  LInv'
  <1>1. /\ IInv /\ NodeIInv /\ ViewOK /\ View /\ MountsOK /\ GoneOK
    BY DEF LInv
  <1>2. CASE OnController(k)
    <2>1. PICK c \in Calls :
              /\ pc[c] = "idle" /\ asked' = c /\ req' = [req EXCEPT ![c].rpc = rpc]
              /\ UNCHANGED <<cloud, pc, res, saw, nodeVars>>
      BY <1>2 DEF Issue, IssueToController
    <2>2. rpc \in Rpcs
      BY <1>2 DEF OnController, Steps, UpRpc, DownRpc, Rpcs
    <2>3. TypeOK /\ Evidence(c)
      BY <1>1 DEF IInv, CallOK
    <2>4. res[c] = "None" /\ ops[c] = "NONE"
      BY <2>1, <2>3 DEF TypeOK, Evidence, Over
    <2>5. /\ pc' = [pc EXCEPT ![c] = "idle"] /\ res' = [res EXCEPT ![c] = "None"]
          /\ ops' = [ops EXCEPT ![c] = "NONE"]
      BY <2>1, <2>3, <2>4 DEF TypeOK, CloudTypeOK, cloud
    <2>6. UNCHANGED <<disks, instances, attached, saw>>
      BY <2>1 DEF cloud
    <2>7. IInv'
      BY <1>1, <2>1, <2>2, <2>5, <2>6, SlotKeeps
    <2>8. req'[c].rpc = rpc
      BY <1>1, <2>1, <2>2, NewRequest
    <2>9. NodeIInv'
      BY <1>1, <2>1, NodeStutterKeeps
    <2>10. View'
      BY <1>1, <2>1, <2>6, CallerMoves DEF ViewOK, nodeVars, Steps
    <2>11. MountsOK' /\ GoneOK'
      BY <1>1, <2>1, <2>6 DEF MountsOK, GoneOK, nodeVars
    <2>12. c \notin NodeCalls /\ c # Nobody
      BY CallsAssumption
    <2>13. ViewOK'
      BY <1>1, <1>2, <2>1, <2>12 DEF ViewOK, OnController, Steps
    <2>14. AskedOK'
      BY <2>1, <2>8, <2>12 DEF AskedOK, AskedRpc
    <2>15. Earning' /\ NotFoundOK'
      BY <2>1, <2>4, <2>12 DEF Earning, Owed, NotFoundOK
    <2> QED
      BY <2>7, <2>9, <2>10, <2>11, <2>13, <2>14, <2>15 DEF LInv
  <1>3. CASE ~OnController(k)
    <2>1. PICK c \in NodeCalls :
              /\ npc[c] = "idle" /\ asked' = c /\ nreq' = [nreq EXCEPT ![c].rpc = rpc]
              /\ UNCHANGED <<host, npc, nres, nsaw, vars>>
      BY <1>3 DEF Issue, IssueToNode
    <2>2. rpc \in NodeRpcs
      BY <1>3 DEF OnController, Steps, UpRpc, DownRpc, NodeRpcs
    <2>3. NodeControlTypeOK
      BY <1>1, NodeTypeOKParts DEF NodeIInv
    <2>4. nres[c] = "None"
      BY <2>1, <2>3 DEF NodeControlTypeOK
    <2>5. npc' = [npc EXCEPT ![c] = "idle"] /\ nres' = [nres EXCEPT ![c] = "None"]
      BY <2>1, <2>3, <2>4 DEF NodeControlTypeOK
    <2>6. IInv'
      BY <1>1, <2>1, NextInvariant
    <2>7. NodeIInv'
      BY <1>1, <2>1, <2>2, <2>5, NodeSlotKeeps
    <2>8. nreq'[c].rpc = rpc
      BY <1>1, <2>1, <2>2, NewNodeRequest
    <2>9. UNCHANGED <<disks, instances, attached, mounts>>
      BY <2>1 DEF vars, host
    <2>10. View'
      BY <1>1, <2>9, CallerMoves DEF ViewOK, Steps
    <2>11. MountsOK' /\ GoneOK'
      BY <1>1, <2>9 DEF MountsOK, GoneOK
    <2>12. c \notin Calls /\ c # Nobody
      BY CallsAssumption
    <2>13. ViewOK'
      BY <1>1, <1>3, <2>1, <2>12 DEF ViewOK, OnController, Steps
    <2>14. AskedOK'
      BY <2>1, <2>8, <2>12 DEF AskedOK, AskedRpc
    <2>15. Earning' /\ NotFoundOK'
      BY <2>1, <2>4, <2>12 DEF Earning, Succeeds, NotFoundOK
    <2> QED
      BY <2>6, <2>7, <2>10, <2>11, <2>13, <2>14, <2>15 DEF LInv
  <1> QED
    BY <1>2, <1>3

LEMMA GoingKeepsAll ==
    ASSUME LInv, GoUp \/ GoDown
    PROVE  LInv'
  <1>1. sure \in 0 .. 4 /\ top \in {sure, sure + 1} /\ top <= 4
    BY DEF LInv, ViewOK
  <1>2. CASE GoUp
    <2>1. PICK k \in Steps :
              /\ k = IF top = sure THEN top + 1 ELSE top
              /\ top' = k /\ heading' = "up" /\ Issue(k, UpRpc[k]) /\ UNCHANGED <<sure, lapsed>>
      BY <1>2 DEF GoUp
    <2>2. sure' = k - 1 /\ sure' <= sure /\ top' >= top
      BY <1>1, <2>1
    <2> QED
      BY <2>1, <2>2, IssueKeepsAll
  <1>3. CASE GoDown
    <2>1. /\ top \in Steps /\ sure' = top - 1 /\ heading' = "down"
          /\ Issue(top, DownRpc[top]) /\ UNCHANGED <<top, lapsed>>
      BY <1>3 DEF GoDown
    <2>2. PICK k \in Steps : k = top /\ Issue(k, DownRpc[k])
      BY <2>1
    <2>3. /\ top' = k /\ sure' = k - 1 /\ lapsed' = lapsed /\ sure' <= sure /\ top' >= top
          /\ heading' # "up"
      BY <1>1, <2>1, <2>2
    <2> QED
      BY <2>1, <2>2, <2>3, IssueKeepsAll
  <1> QED
    BY <1>2, <1>3

LEMMA ReleaseKeeps ==
    ASSUME IInv, NEW c \in Calls, Release(c), UNCHANGED <<disks, instances, attached, saw>>
    PROVE  /\ IInv'
           /\ \A e \in Calls \ {c} : req'[e] = req[e] /\ (Owed(e)' = Owed(e)) /\ res'[e] = res[e]
           /\ res'[c] = "None"
  <1>1. /\ pc' = [pc EXCEPT ![c] = "idle"] /\ res' = [res EXCEPT ![c] = "None"]
        /\ ops' = [ops EXCEPT ![c] = "NONE"] /\ req' = [req EXCEPT ![c].rpc = Order.rpc]
    BY DEF Release
  <1>2. Order.rpc \in Rpcs /\ TypeOK
    BY Parameters DEF IInv
  <1>3. IInv'
    BY <1>1, <1>2, SlotKeeps
  <1>4. \A e \in Calls \ {c} : req'[e] = req[e]
    BY <1>1, <1>2, NewRequest
  <1>5. \A e \in Calls \ {c} : pc'[e] = pc[e] /\ res'[e] = res[e] /\ ops'[e] = ops[e]
    BY <1>1, <1>2 DEF TypeOK, CloudTypeOK
  <1>6. res'[c] = "None"
    BY <1>1, <1>2 DEF TypeOK
  <1> QED
    BY <1>3, <1>4, <1>5, <1>6 DEF Owed

LEMMA NodeReleaseKeeps ==
    ASSUME NodeIInv, NEW c \in NodeCalls, NodeRelease(c), UNCHANGED <<host, nsaw>>
    PROVE  /\ NodeIInv'
           /\ \A e \in NodeCalls \ {c} : nreq'[e] = nreq[e] /\ (Succeeds(e)' = Succeeds(e))
  <1>1. /\ npc' = [npc EXCEPT ![c] = "idle"] /\ nres' = [nres EXCEPT ![c] = "None"]
        /\ nreq' = [nreq EXCEPT ![c].rpc = NodeOrder.rpc]
    BY DEF NodeRelease
  <1>2. NodeOrder.rpc \in NodeRpcs /\ NodeControlTypeOK
    BY Parameters, NodeTypeOKParts DEF NodeIInv
  <1>3. NodeIInv'
    BY <1>1, <1>2, NodeSlotKeeps
  <1>4. \A e \in NodeCalls \ {c} : nreq'[e] = nreq[e]
    BY <1>1, <1>2, NewNodeRequest
  <1>5. \A e \in NodeCalls \ {c} : npc'[e] = npc[e] /\ nres'[e] = nres[e]
    BY <1>1, <1>2 DEF NodeControlTypeOK
  <1> QED
    BY <1>3, <1>4, <1>5 DEF Succeeds

\* The caller takes an answer in: if it is OK, the step in doubt is as the
\* answer says, or its operation failed and it lapses.
LEMMA AnswerKeepsAll ==
    ASSUME LInv, IInv', NodeIInv', UNCHANGED <<disks, instances, attached, mounts, heading>>,
           asked # Nobody, asked' = Nobody, NEW ok \in BOOLEAN, Told(ok),
           lapsed' \in {lapsed, lapsed \cup {top}}, ok => Shown \/ top \in lapsed'
    PROVE  LInv'
  <1>1. ViewOK /\ View /\ MountsOK /\ GoneOK
    BY DEF LInv
  <1>2. /\ top = sure + 1 /\ sure \in 0 .. 3 /\ top \in Steps /\ lapsed' \subseteq Steps
        /\ lapsed \subseteq lapsed'
    BY <1>1 DEF ViewOK, Steps
  <1>3. Nobody \notin Calls /\ Nobody \notin NodeCalls
    BY CallsAssumption
  <1>4. \/ UNCHANGED <<sure, top>>
        \/ ok /\ heading = "up" /\ sure' = top /\ top' = top
        \/ ok /\ heading = "down" /\ top' = sure /\ sure' = sure
    BY <1>1 DEF Told, ViewOK
  <1>5. ViewOK' /\ GoneOK'
    BY <1>1, <1>2, <1>4 DEF ViewOK, GoneOK, Steps
  <1>6. AskedOK' /\ Earning' /\ NotFoundOK'
    BY <1>3 DEF AskedOK, Earning, NotFoundOK
  <1>7. MountsOK'
    BY <1>1, <1>2 DEF MountsOK
  <1>8. ASSUME ok, heading = "up", NEW k \in Steps, k = top, Sound(k)' PROVE InEffect(k)
    <2>1. k \notin lapsed' /\ Sound(k)
      BY <1>2, <1>8 DEF Sound, Steps
    <2> QED
      BY <1>8, <2>1 DEF Shown
  <1>9. ASSUME ok, heading = "down", top \notin lapsed' PROVE Undone(top)
    BY <1>2, <1>9 DEF Shown
  <1>10. View'
    BY <1>1, <1>2, <1>4, <1>8, <1>9, CallerMoves
  <1> QED
    BY <1>5, <1>6, <1>7, <1>10 DEF LInv

LEMMA ReceiveKeepsAll ==
    ASSUME LInv, NEW c \in Calls, Receive(c)
    PROVE  LInv'
  <1>1. /\ asked = c /\ Told(res[c] = "OK") /\ asked' = Nobody
        /\ lapsed' = IF res[c] = "OK" /\ ops[c] = "FAILED" THEN lapsed \cup {top} ELSE lapsed
        /\ Release(c) \/ UNCHANGED <<pc, res, ops, req>>
        /\ UNCHANGED <<disks, instances, attached, saw, nodeVars, heading>>
    BY DEF Receive
  <1>2. IInv /\ NodeIInv /\ Earning
    BY DEF LInv
  <1>3. IInv'
    <2>1. CASE Release(c)
      BY <1>1, <1>2, <2>1, ReleaseKeeps
    <2>2. CASE UNCHANGED <<pc, res, ops, req>>
      BY <1>1, <1>2, <2>2, NextInvariant DEF vars
    <2> QED
      BY <1>1, <2>1, <2>2
  <1>4. NodeIInv'
    BY <1>1, <1>2, NodeStutterKeeps
  <1>5. res[c] = "OK" => Shown \/ top \in lapsed'
    BY <1>1, <1>2 DEF Earning, Owed
  <1>6. asked # Nobody /\ lapsed' \in {lapsed, lapsed \cup {top}} /\ (res[c] = "OK") \in BOOLEAN
    BY <1>1, CallsAssumption
  <1>7. UNCHANGED <<disks, instances, attached, mounts, heading>>
    BY <1>1 DEF nodeVars
  <1> QED
    BY <1>1, <1>3, <1>4, <1>5, <1>6, <1>7, AnswerKeepsAll

LEMMA NodeReceiveKeepsAll ==
    ASSUME LInv, NEW c \in NodeCalls, NodeReceive(c)
    PROVE  LInv'
  <1>1. /\ asked = c /\ Told(nres[c] = "OK") /\ asked' = Nobody /\ NodeRelease(c)
        /\ UNCHANGED <<host, nsaw, vars, heading, lapsed>>
    BY DEF NodeReceive
  <1>2. IInv /\ NodeIInv /\ Earning
    BY DEF LInv
  <1>3. IInv' /\ NodeIInv'
    BY <1>1, <1>2, NextInvariant, NodeReleaseKeeps
  <1>4. nres[c] = "OK" => Shown
    BY <1>1, <1>2 DEF Earning, Succeeds
  <1>5. asked # Nobody /\ (nres[c] = "OK") \in BOOLEAN
    BY <1>1, CallsAssumption
  <1>6. UNCHANGED <<disks, instances, attached, mounts, heading>>
    BY <1>1 DEF vars, host
  <1> QED
    BY <1>1, <1>3, <1>4, <1>5, <1>6, AnswerKeepsAll

LEMMA GiveUpKeepsAll ==
    ASSUME LInv, NEW c \in NodeCalls, NodeGiveUp(c)
    PROVE  LInv'
  <1>1. asked = c /\ asked' = Nobody /\ UNCHANGED <<vars, nodeVars, sure, top, heading, lapsed>>
    BY DEF NodeGiveUp
  <1>2. IInv' /\ NodeIInv'
    BY <1>1, NextInvariant, NodeStutterKeeps DEF LInv
  <1>3. asked # Nobody /\ Told(FALSE)
    BY <1>1, CallsAssumption DEF Told
  <1>4. UNCHANGED <<disks, instances, attached, mounts, heading>>
    BY <1>1 DEF vars, nodeVars
  <1> QED
    BY <1>1, <1>2, <1>3, <1>4, AnswerKeepsAll
-----------------------------------------------------------------------------
(* Everybody else *)

\* A step that neither the view nor the call asked for is about.
LEMMA AsideKeepsAll ==
    ASSUME LInv, IInv', NodeIInv', UNCHANGED <<disks, instances, attached, mounts, callerVars>>,
           \A e \in Calls : e = asked => req'[e] = req[e] /\ (Owed(e)' => Owed(e))
                                         /\ (res'[e] = "NotFound" => res[e] = "NotFound"),
           \A e \in NodeCalls : e = asked => nreq'[e] = nreq[e] /\ (Succeeds(e)' => Succeeds(e))
    PROVE  LInv'
  <1>1. /\ ViewOK /\ AskedOK /\ View /\ Earning /\ MountsOK
        /\ NotFoundOK /\ GoneOK
    BY DEF LInv
  <1>2. View' /\ MountsOK' /\ Shown' = Shown
    BY <1>1, SteadyView DEF callerVars
  <1>3. ViewOK' /\ AskedOK' /\ NotFoundOK' /\ GoneOK'
    BY <1>1 DEF ViewOK, AskedOK, AskedRpc, NotFoundOK, GoneOK, callerVars
  <1>4. Earning'
    <2>1. \A e : e = asked => asked' = e
      BY DEF callerVars
    <2>2. asked \in Calls => (Owed(asked)' => Owed(asked))
      BY <2>1 DEF Owed
    <2>3. asked \in NodeCalls => (Succeeds(asked)' => Succeeds(asked))
      BY <2>1 DEF Succeeds
    <2>4. UNCHANGED asked
      BY DEF callerVars
    <2> QED
      BY <1>1, <1>2, <2>2, <2>3, <2>4 DEF Earning
  <1> QED
    BY <1>2, <1>3, <1>4 DEF LInv

LEMMA ForgetKeepsAll ==
    ASSUME LInv, Forget
    PROVE  LInv'
  <1>1. IInv /\ NodeIInv /\ UNCHANGED callerVars
    BY DEF LInv, Forget
  <1>2. ASSUME NEW c \in Calls, asked # c, Release(c),
               UNCHANGED <<disks, instances, attached, saw, nodeVars>>
        PROVE  LInv'
    <2>1. /\ IInv'
          /\ \A e \in Calls \ {c} : req'[e] = req[e] /\ (Owed(e)' = Owed(e)) /\ res'[e] = res[e]
      BY <1>1, <1>2, ReleaseKeeps
    <2>2. NodeIInv' /\ UNCHANGED <<mounts, nreq, npc, nres>>
      BY <1>1, <1>2, NodeStutterKeeps DEF nodeVars
    <2>3. \A e : Succeeds(e)' = Succeeds(e)
      BY <2>2 DEF Succeeds
    <2> QED
      BY <1>1, <1>2, <2>1, <2>2, <2>3, AsideKeepsAll
  <1>3. ASSUME NEW c \in NodeCalls, asked # c, NodeRelease(c), UNCHANGED <<host, nsaw, vars>>
        PROVE  LInv'
    <2>1. NodeIInv' /\ \A e \in NodeCalls \ {c} : nreq'[e] = nreq[e] /\ (Succeeds(e)' = Succeeds(e))
      BY <1>1, <1>3, NodeReleaseKeeps
    <2>2. IInv' /\ UNCHANGED <<disks, instances, attached, mounts, req, pc, res, ops>>
      BY <1>1, <1>3, NextInvariant DEF vars, host
    <2>3. \A e : Owed(e)' = Owed(e)
      BY <2>2 DEF Owed
    <2> QED
      BY <1>1, <1>3, <2>1, <2>2, <2>3, AsideKeepsAll
  <1> QED
    BY <1>2, <1>3 DEF Forget

\* The device node follows the attachment.
LEMMA DeviceKeepsAll ==
    ASSUME LInv, DeviceFollows
    PROVE  LInv'
  <1>1. /\ DeviceComes(volume) \/ DeviceGoes(volume)
        /\ UNCHANGED <<content, dirs, mounts, npc, nres>> /\ NodeObserve
        /\ UNCHANGED <<vars, callerVars>>
    BY DEF DeviceFollows
  <1>2. DeviceChanges
    BY <1>1, Parameters DEF DeviceChanges
  <1>3. NodeIInv' /\ IInv'
    BY <1>1, <1>2, DevicesKeep, NextInvariant DEF LInv
  <1>4. UNCHANGED <<disks, instances, attached, mounts, callerVars, req, pc, res, ops, nreq>>
    BY <1>1 DEF vars, NodeObserve
  <1>5. \A e : Succeeds(e)' = Succeeds(e) /\ Owed(e)' = Owed(e)
    BY <1>1, <1>4 DEF Succeeds, Owed
  <1> QED
    BY <1>3, <1>4, <1>5, AsideKeepsAll

\* The driver on the node restarts: open calls are lost, none succeeds.
LEMMA LostCalls ==
    ASSUME NodeIInv, LoseCalls, NEW c \in NodeCalls
    PROVE  Succeeds(c)' => Succeeds(c)
  <1>1. CASE NodeOpen(c)
    <2>1. npc'[c] = "done" /\ nres'[c] = "NoAnswer"
      BY <1>1 DEF LoseCalls
    <2> QED
      BY <2>1 DEF Succeeds
  <1>2. CASE ~NodeOpen(c)
    BY <1>2 DEF LoseCalls, Succeeds
  <1> QED
    BY <1>1, <1>2

LEMMA CrashKeepsAll ==
    ASSUME LInv, Crash
    PROVE  LInv'
  <1>1. LoseCalls /\ Looks /\ DriverCrash /\ UNCHANGED <<vars, callerVars>>
    BY DEF Crash, DriverCrash
  <1>2. IInv' /\ NodeIInv'
    BY <1>1, NextInvariant, NodeStepKeeps DEF LInv, NodeNext
  <1>3. UNCHANGED <<disks, instances, attached, mounts, req, pc, res, ops, nreq>>
    BY <1>1 DEF vars, Looks, host, NodeObserve
  <1>4. \A e : Owed(e)' = Owed(e)
    BY <1>3 DEF Owed
  <1>5. \A e \in NodeCalls : Succeeds(e)' => Succeeds(e)
    BY <1>1, LostCalls DEF LInv
  <1> QED
    BY <1>1, <1>2, <1>3, <1>4, <1>5, AsideKeepsAll

\* The node goes down, or goes away: nothing is mounted, and the caller
\* begins again from the attached disk, if there is a node to attach it to.
LEMMA KubeletGoneKeepsAll ==
    ASSUME LInv, IInv', NodeIInv', KubeletGoes, mounts' = NothingMounted,
           UNCHANGED <<disks, req, pc, res, ops, nreq>>,
           \/ UNCHANGED <<instances, attached>>
           \/ node \notin instances' /\ attached'[node][volume] = "NONE"
    PROVE  LInv'
  <1>1. /\ asked' = IF asked \in NodeCalls THEN Nobody ELSE asked
        /\ sure' = IF sure > 2 THEN 2 ELSE sure
        /\ top' = IF top > 2 THEN 2 ELSE top
        /\ UNCHANGED <<heading, lapsed>>
    BY DEF KubeletGoes
  <1>2. /\ ViewOK /\ AskedOK /\ View /\ Earning /\ MountsOK
        /\ NotFoundOK /\ GoneOK
    BY DEF LInv
  <1>3. IInv' /\ NodeIInv' /\ GoneOK'
    BY <1>2 DEF GoneOK
  <1>4. /\ \A k : Sound(k)' => Sound(k)
        /\ \A k \in {1, 2} : Sound(k)' /\ InEffect(k) => InEffect(k)'
        /\ \A k \in {1, 2} : Undone(k) => Undone(k)'
    <2>1. \A k : Sound(k)' => Sound(k)
      <3> SUFFICES ASSUME NEW k, Sound(k)' PROVE Sound(k)
        OBVIOUS
      <3>1. lapsed \cap 1 .. k = {} /\ (k > 1 => node \in instances')
        BY <1>1 DEF Sound
      <3> QED
        BY <1>1, <3>1 DEF Sound
    <2>2. InEffect(1)' = InEffect(1) /\ Undone(1)' = Undone(1)
      BY DEF InEffect, Undone, Exists
    <2>3. (node \in instances' /\ InEffect(2) => InEffect(2)') /\ (Undone(2) => Undone(2)')
      BY DEF InEffect, Undone
    <2>4. Sound(2)' => node \in instances'
      BY DEF Sound
    <2> QED
      BY <2>1, <2>2, <2>3, <2>4
  <1>5. Undone(3)' /\ Undone(4)'
    BY Parameters DEF Undone, NothingMounted
  <1>6. /\ sure \in 0 .. 4 /\ top \in {sure, sure + 1} /\ top <= 4
        /\ sure' \in 0 .. 2 /\ sure' <= sure /\ top' \in {sure', sure' + 1} /\ top' <= 2
        /\ top <= 2 => sure' = sure /\ top' = top
        /\ top > 2 => top' = 2
    BY <1>1, <1>2 DEF ViewOK
  <1>7. asked' # Nobody => asked' = asked /\ asked \notin NodeCalls
    BY <1>1
  <1>8. Nobody \notin Calls /\ Nobody \notin NodeCalls
    BY CallsAssumption
  <1>9. asked' \in Calls => asked' = asked /\ asked \in Calls /\ top' = top /\ top \in {1, 2}
    <2>1. asked \in Calls => top \in {1, 2}
      BY <1>2, AskedMeans
    <2> QED
      BY <1>6, <1>7, <1>8, <2>1
  <1>10. ViewOK'
    <2>1. asked' # Nobody => asked' \in Calls
      BY <1>2, <1>7 DEF ViewOK
    <2>2. asked \in Calls => top = sure + 1
      BY <1>2, AskedMeans
    <2>3. ASSUME asked' # Nobody
          PROVE  top' = sure' + 1 /\ asked' \in IF OnController(top') THEN Calls ELSE NodeCalls
      <3>1. asked \in Calls /\ top' = top /\ top \in {1, 2}
        BY <1>9, <2>1, <2>3
      <3>2. top <= 2
        BY <3>1
      <3>3. sure' = sure /\ top = sure + 1
        BY <1>6, <2>2, <3>1, <3>2
      <3>4. top' <= 2
        BY <3>1, <3>2
      <3> QED
        BY <2>1, <2>3, <3>1, <3>3, <3>4 DEF OnController
    <2>4. sure' \in 0 .. 4 /\ top' \in {sure', sure' + 1} /\ top' <= 4
      <3>1. sure' \in 0 .. 2 /\ top' \in {sure', sure' + 1} /\ top' <= 2
        BY <1>6
      <3>2. sure' \in 0 .. 4
        BY <3>1
      <3>3. top' <= 4
        BY <3>1, <3>2
      <3> QED
        BY <3>1, <3>2, <3>3
    <2>5. heading' \in {"up", "down"} /\ lapsed' \subseteq Steps
      BY <1>1, <1>2 DEF ViewOK, Steps
    <2> QED
      BY <2>3, <2>4, <2>5 DEF ViewOK
  <1>11. AskedOK' /\ NotFoundOK'
    BY <1>1, <1>2, <1>7, <1>8, <1>9 DEF AskedOK, AskedRpc, NotFoundOK
  <1>12. Earning'
    <2>1. asked' \notin NodeCalls
      BY <1>7, <1>8
    <2>2. asked' \in Calls => (Owed(asked)' => Owed(asked)) /\ (Shown => Shown')
      BY <1>1, <1>4, <1>9 DEF Owed, Shown
    <2> QED
      BY <1>2, <1>9, <2>1, <2>2 DEF Earning
  <1>13. ToldUpIsUp'
    <2> SUFFICES ASSUME NEW k \in Steps, k <= sure', Sound(k)' PROVE InEffect(k)'
      BY DEF ToldUpIsUp
    <2>1. k \in {1, 2} /\ k <= sure
      BY <1>6 DEF Steps
    <2> QED
      BY <1>2, <1>4, <2>1 DEF View, ToldUpIsUp
  <1>14. ToldDownIsDown'
    <2> SUFFICES ASSUME NEW k \in Steps, k > top', k \notin lapsed' PROVE Undone(k)'
      BY DEF ToldDownIsDown
    <2>1. CASE k \in {1, 2}
      <3>1. k > top /\ k \notin lapsed
        BY <1>1, <1>6, <2>1
      <3> QED
        BY <1>2, <1>4, <2>1, <3>1 DEF View, ToldDownIsDown
    <2>2. CASE k \in {3, 4}
      BY <1>5, <2>2
    <2> QED
      BY <2>1, <2>2 DEF Steps
  <1>15. MountsOK'
    <2>1. Len(<<>>) = 0
      OBVIOUS
    <2> QED
      BY <2>1, Parameters DEF MountsOK, NothingMounted
  <1> QED
    BY <1>3, <1>10, <1>11, <1>12, <1>13, <1>14, <1>15 DEF LInv, View

LEMMA RebootKeepsAll ==
    ASSUME LInv, Reboot
    PROVE  LInv'
  <1>1. NodeReboot /\ KubeletGoes /\ mounts' = NothingMounted /\ NodeObserve /\ UNCHANGED vars
    BY DEF Reboot, NodeReboot
  <1>2. IInv' /\ NodeIInv'
    BY <1>1, NextInvariant, RebootKeeps DEF LInv
  <1>3. UNCHANGED <<disks, instances, attached, req, pc, res, ops, nreq>>
    BY <1>1 DEF vars, NodeObserve
  <1> QED
    BY <1>1, <1>2, <1>3, KubeletGoneKeepsAll

LEMMA InstanceDeletedKeepsAll ==
    ASSUME LInv, InstanceDeleted
    PROVE  LInv'
  <1>1. /\ InstanceGoes(node) /\ LoseCalls /\ NodeObserve /\ KubeletGoes
        /\ device' = [v \in Volumes |-> FALSE] /\ dirs' = {} /\ mounts' = NothingMounted
        /\ UNCHANGED content
    BY DEF InstanceDeleted
  <1>2. IInv /\ NodeIInv /\ node \in Nodes /\ volume \in Disks
    BY Parameters DEF LInv
  <1>3. IInv'
    BY <1>1, <1>2, NextInvariant DEF Next
  <1>4. NodeIInv'
    <2>1. HostTypeOK
      BY <1>2, NodeTypeOKParts DEF NodeIInv
    <2>2. HostTypeOK'
      BY <1>1, <2>1 DEF NothingMounted, HostTypeOK
    <2> QED
      BY <1>1, <1>2, <2>2, LosingKeeps
  <1>5. node \notin instances' /\ attached'[node][volume] = "NONE"
    <2>1. DOMAIN attached = Nodes
      BY <1>2 DEF IInv, TypeOK, CloudTypeOK
    <2> QED
      BY <1>1, <1>2, <2>1 DEF InstanceGoes, DeleteInstance
  <1>6. UNCHANGED <<disks, req, pc, res, ops, nreq>>
    BY <1>1 DEF InstanceGoes, DeleteInstance, Observe, NodeObserve
  <1> QED
    BY <1>1, <1>3, <1>4, <1>5, <1>6, KubeletGoneKeepsAll
-----------------------------------------------------------------------------
LEMMA LifeInitHolds == LifeInit => LInv
  <1> SUFFICES ASSUME LifeInit PROVE LInv
    OBVIOUS
  <1>1. /\ CloudInit /\ ~Exists(volume)
        /\ req = [c \in Calls |-> Order]
        /\ pc = [c \in Calls |-> "idle"] /\ res = [c \in Calls |-> "None"]
        /\ saw = [c \in Calls |-> FactNames]
    BY DEF LifeInit
  <1>2. /\ device = [v \in Volumes |-> FALSE] /\ content = [v \in Volumes |-> "blank"]
        /\ dirs = {} /\ mounts = [p \in Paths |-> <<>>]
        /\ nreq = [c \in NodeCalls |-> NodeOrder]
        /\ npc = [c \in NodeCalls |-> "idle"] /\ nres = [c \in NodeCalls |-> "None"]
        /\ nsaw = [c \in NodeCalls |-> NodeFactNames]
    BY DEF LifeInit, NothingMounted
  <1>3. sure = 0 /\ top = 0 /\ heading = "up" /\ asked = Nobody /\ lapsed = {}
    BY DEF LifeInit
  <1>4. IInv
    <2>1. TypeOK
      BY <1>1, Parameters, InitialDisksAssumption
         DEF CloudInit, TypeOK, CloudTypeOK, OpStates, Over, Modes
    <2>2. ASSUME NEW c \in Calls PROVE CallOK(c)
      <3>1. pc[c] = "idle" /\ res[c] = "None" /\ ops[c] = "NONE"
        BY <1>1 DEF CloudInit
      <3> QED
        BY <3>1 DEF CallOK, PcOK, Evidence, Earned, Truthful, Final, Open, Over, Opened, Mutating
    <2> QED
      BY <2>1, <2>2 DEF IInv
  <1>5. NodeIInv
    <2>1. <<>> \in Seq(Volumes \cup {"root"})
      OBVIOUS
    <2>2. NodeTypeOK
      BY <1>2, <2>1, Parameters DEF NodeTypeOK, Contents
    <2>3. \A c \in NodeCalls : NodeCallOK(c)
      BY <1>2 DEF NodeCallOK, NodePcOK, NodeEvidence, StageSteps, PublishSteps
    <2> QED
      BY <2>2, <2>3 DEF NodeIInv
  <1>6. ViewOK
    BY <1>3 DEF ViewOK
  <1>7. AskedOK /\ Earning /\ NotFoundOK
    BY <1>3, CallsAssumption DEF AskedOK, Earning, NotFoundOK
  <1>8. MountsOK
    <2>1. Len(<<>>) = 0
      OBVIOUS
    <2> QED
      BY <1>2, <2>1, Parameters DEF MountsOK
  <1>9. ToldUpIsUp
    BY <1>3 DEF ToldUpIsUp, Steps
  <1>10. ToldDownIsDown
    <2> SUFFICES ASSUME NEW k \in Steps PROVE Undone(k)
      BY DEF ToldDownIsDown
    <2> QED
      BY <1>1, <1>2, Parameters DEF Undone, Steps, CloudInit
  <1>11. GoneOK
    BY <1>1, Parameters DEF CloudInit, GoneOK
  <1> QED
    BY <1>4, <1>5, <1>6, <1>7, <1>8, <1>9, <1>10, <1>11 DEF LInv, View

LEMMA LifeStutterKeeps ==
    ASSUME LInv, UNCHANGED lifeVars
    PROVE  LInv'
  <1>1. IInv' /\ NodeIInv'
    BY NextInvariant, NodeStutterKeeps DEF LInv, lifeVars
  <1>2. UNCHANGED <<disks, instances, attached, mounts, callerVars, req, pc, res, ops,
                    nreq, npc, nres>>
    BY DEF lifeVars, vars, nodeVars, callerVars
  <1>3. \A e : Succeeds(e)' = Succeeds(e) /\ Owed(e)' = Owed(e)
    BY <1>2 DEF Succeeds, Owed
  <1> QED
    BY <1>1, <1>2, <1>3, AsideKeepsAll

LEMMA LifeInductive == LInv /\ [LifeNext]_lifeVars => LInv'
  <1> SUFFICES ASSUME LInv, [LifeNext]_lifeVars PROVE LInv'
    OBVIOUS
  <1>1. CASE GoUp \/ GoDown
    BY <1>1, GoingKeepsAll
  <1>2. CASE Forget
    BY <1>2, ForgetKeepsAll
  <1>3. ASSUME NEW c \in Calls, Receive(c) \/ ControllerStep(c) \/ CloudStep(c) PROVE LInv'
    BY <1>3, ReceiveKeepsAll, ControllerStepKeepsAll, CloudStepKeepsAll
  <1>4. ASSUME NEW c \in NodeCalls, NodeReceive(c) \/ NodeGiveUp(c) \/ NodeStep(c) PROVE LInv'
    BY <1>4, NodeReceiveKeepsAll, GiveUpKeepsAll, NodeStepKeepsAll
  <1>5. CASE DeviceFollows
    BY <1>5, DeviceKeepsAll
  <1>6. CASE Crash
    BY <1>6, CrashKeepsAll
  <1>7. CASE Reboot
    BY <1>7, RebootKeepsAll
  <1>8. CASE InstanceDeleted
    BY <1>8, InstanceDeletedKeepsAll
  <1>9. CASE UNCHANGED lifeVars
    BY <1>9, LifeStutterKeeps
  <1> QED
    BY <1>1, <1>2, <1>3, <1>4, <1>5, <1>6, <1>7, <1>8, <1>9 DEF LifeNext, Stopped

LEMMA LifeInvariant == LifeSpec => []LInv
  BY LifeInitHolds, LifeInductive, PTL DEF LifeSpec
-----------------------------------------------------------------------------
(* What is on the disk *)

\* The stage that is waited for has mounted the volume.
Staging ==
    /\ asked \in NodeCalls /\ Succeeds(asked)
    /\ top = 3 /\ sure = 2 /\ heading = "up"

\* The caller was told of the staging, or cannot fail to be told.
StageCounts == (sure >= 3 \/ Staging) /\ Sound(3)

\* A disk is made by one insert at a time, and attached when it is ready.
DiskOK ==
    /\ \A c \in Calls : ops[c] = "RUNNING" => disks[volume].status = "CREATING"
    /\ \A c, e \in Calls : ops[c] = "RUNNING" /\ ops[e] = "RUNNING" => c = e
    /\ \A n \in Nodes : attached[n][volume] # "NONE" => disks[volume].status = "READY"

SameFs == \A c \in NodeCalls : nreq[c].fstype = NodeOrder.fstype

HasData == StageCounts => content[volume] = NodeOrder.fstype

DInv == LInv /\ DiskOK /\ SameFs /\ HasData

\* A staging that counts is there, and so is what it rests on.
LEMMA StagingStands ==
    ASSUME LInv, StageCounts
    PROVE  Mounted(volume) /\ attached[node][volume] # "NONE"
  <1>1. NodeIInv /\ ViewOK /\ View /\ Earning
    BY DEF LInv
  <1>2. Sound(2)
    BY DEF StageCounts, Sound
  <1>3. InEffect(2)
    BY <1>1, <1>2 DEF StageCounts, Staging, View, ToldUpIsUp, Steps, ViewOK
  <1>4. InEffect(3)
    <2>1. CASE sure >= 3
      BY <1>1, <2>1 DEF StageCounts, View, ToldUpIsUp, Steps, ViewOK
    <2>2. CASE Staging
      BY <1>1, <2>2 DEF StageCounts, Staging, Earning, Shown
    <2> QED
      BY <2>1, <2>2 DEF StageCounts
  <1>5. mounts[staging] # <<>> /\ Head(mounts[staging]) = volume
    BY <1>4, Parameters DEF InEffect, Shows
  <1>6. mounts[staging] \in Seq(Volumes \cup {"root"})
    BY <1>1, Parameters DEF NodeIInv, NodeTypeOK
  <1>7. 1 \in DOMAIN mounts[staging] /\ mounts[staging][1] = volume
    BY <1>5, <1>6
  <1> QED
    BY <1>3, <1>7, Parameters DEF InEffect, Mounted

NothingAttaches ==
    \A n \in Nodes : attached'[n][volume] # "NONE" => attached[n][volume] # "NONE"

\* The disks stay, nothing is attached, and no insert begins.
LEMMA QuietDisk ==
    ASSUME DiskOK, disks' = disks, NothingAttaches,
           \A c \in Calls : ops'[c] = "RUNNING" => ops[c] = "RUNNING"
    PROVE  DiskOK'
  BY DEF DiskOK, NothingAttaches

LEMMA DiskKeeps ==
    ASSUME IInv, DiskOK, NEW c \in Calls, OperationStep(c)
    PROVE  DiskOK' /\ (attached[node][volume] # "NONE" => disks'[volume].status # "CREATING")
  <1>1. TypeOK /\ CloudTypeOK
    BY TypeOKParts DEF IInv
  <1>2. /\ req[c].disk = volume /\ req[c].node = node /\ req[c].mode \in Modes
        /\ volume \in Disks /\ node \in Nodes
    BY EveryRequest, Parameters
  <1>3. /\ \A e \in Calls : ops[e] = "RUNNING" => disks[volume].status = "CREATING"
        /\ \A a, e \in Calls : ops[a] = "RUNNING" /\ ops[e] = "RUNNING" => a = e
        /\ \A n \in Nodes : attached[n][volume] # "NONE" => disks[volume].status = "READY"
    BY DEF DiskOK
  <1>4. ASSUME NEW gb, InsertBegins(c, volume, gb, req[c].type) PROVE DiskOK'
    <2>1. /\ disks[volume] = Absent /\ attached' = attached /\ ops'[c] = "RUNNING"
          /\ \A e \in Calls \ {c} : ops'[e] = ops[e]
          /\ disks'[volume] = Disk("CREATING", gb, req[c].type)
      BY <1>1, <1>2, <1>4 DEF InsertBegins, Exists, CloudTypeOK
    <2>2. disks[volume].status = "ABSENT" /\ disks'[volume].status = "CREATING"
      BY <2>1 DEF Absent, Disk
    <2>3. \A e \in Calls : ops[e] # "RUNNING"
      BY <1>3, <2>2
    <2>4. \A n \in Nodes : attached'[n][volume] = "NONE"
      BY <1>3, <2>1, <2>2
    <2> QED
      BY <2>1, <2>2, <2>3, <2>4 DEF DiskOK
  <1>5. ASSUME NEW gb,
               InsertCompletes(c, volume, gb, req[c].type) \/ InsertFails(c, volume)
        PROVE  DiskOK' /\ disks'[volume].status # "CREATING"
    <2>1. /\ ops[c] = "RUNNING" /\ attached' = attached /\ ops'[c] # "RUNNING"
          /\ \A e \in Calls \ {c} : ops'[e] = ops[e]
          /\ disks'[volume] = Disk("READY", gb, req[c].type) \/ disks'[volume] = Absent
      BY <1>1, <1>2, <1>5 DEF InsertCompletes, InsertFails, CloudTypeOK
    <2>2. disks'[volume].status # "CREATING"
      BY <2>1 DEF Absent, Disk
    <2>3. \A e \in Calls : ops'[e] # "RUNNING"
      BY <1>3, <2>1
    <2>4. \A n \in Nodes : attached'[n][volume] = "NONE"
      BY <1>3, <2>1
    <2> QED
      BY <2>2, <2>3, <2>4 DEF DiskOK
  <1>6. CASE DeleteWorks(c)
    <2>1. /\ disks[volume].status = "READY" /\ ops'[c] # "RUNNING" /\ attached' = attached
          /\ \A e \in Calls \ {c} : ops'[e] = ops[e]
          /\ \A n \in Nodes : attached'[n][volume] = "NONE"
          /\ disks'[volume] = Absent
      BY <1>1, <1>2, <1>6 DEF DeleteWorks, DeleteCompletes, InUse, CloudTypeOK
    <2>2. disks'[volume].status # "CREATING"
      BY <2>1 DEF Absent
    <2>3. \A e \in Calls : ops'[e] # "RUNNING"
      BY <1>3, <2>1
    <2> QED
      BY <2>1, <2>2, <2>3 DEF DiskOK
  <1>7. CASE AttachWorks(c)
    <2>1. /\ disks[volume].status = "READY" /\ ops'[c] # "RUNNING" /\ disks' = disks
          /\ \A e \in Calls \ {c} : ops'[e] = ops[e]
      BY <1>1, <1>2, <1>7 DEF AttachWorks, AttachCompletes, CanAttach, CloudTypeOK
    <2> QED
      BY <1>3, <2>1 DEF DiskOK
  <1>8. CASE DetachWorks(c) \/ OpFails(c)
    <2>1. /\ disks' = disks /\ \A e \in Calls : ops'[e] = "RUNNING" => ops[e] = "RUNNING"
          /\ \A n \in Nodes : attached'[n][volume] # "NONE" => attached[n][volume] # "NONE"
      BY <1>1, <1>2, <1>8 DEF DetachWorks, DetachCompletes, OpFails, CloudTypeOK
    <2> QED
      BY <1>3, <2>1, <1>2 DEF DiskOK
  <1>9. CASE InsertWorks(c)
    <2>1. PICK gb : \/ InsertBegins(c, volume, gb, req[c].type)
                    \/ InsertCompletes(c, volume, gb, req[c].type) \/ InsertFails(c, volume)
      BY <1>2, <1>9 DEF InsertWorks
    <2>2. InsertBegins(c, volume, gb, req[c].type) => attached[node][volume] = "NONE"
      <3>1. Absent.status = "ABSENT"
        BY DEF Absent
      <3> QED
        BY <1>2, <1>3, <3>1 DEF InsertBegins, Exists
    <2> QED
      BY <1>4, <1>5, <2>1, <2>2
  <1> QED
    BY <1>6, <1>7, <1>8, <1>9, <1>3, <1>2 DEF OperationStep

\* What a step does that is neither an operation's nor a node handler's:
\* nothing to the disk, and it makes no staging count that did not before.
Calm ==
    /\ UNCHANGED <<disks, content>> /\ NothingAttaches
    /\ \A c \in Calls : ops'[c] = "RUNNING" => ops[c] = "RUNNING"
    /\ \A c \in NodeCalls : nreq'[c].fstype = nreq[c].fstype /\ ~Formats(c)
    /\ StageCounts' => StageCounts

LEMMA SlotKeepsFs ==
    ASSUME NodeIInv, NEW c \in NodeCalls, NEW rpc, nreq' = [nreq EXCEPT ![c].rpc = rpc]
    PROVE  \A e \in NodeCalls : nreq'[e].fstype = nreq[e].fstype
  <1>1. nreq \in [NodeCalls -> NodeRequests] /\ nreq[c] \in NodeRequestType
    BY NodeRequestsAssumption DEF NodeIInv, NodeTypeOK
  <1>2. nreq' = [nreq EXCEPT ![c] = [nreq[c] EXCEPT !.rpc = rpc]]
    OBVIOUS
  <1>3. [nreq[c] EXCEPT !.rpc = rpc].fstype = nreq[c].fstype
    BY <1>1 DEF NodeRequestType
  <1> QED
    BY <1>1, <1>2, <1>3

LEMMA GoingIsCalm ==
    ASSUME LInv, GoUp \/ GoDown
    PROVE  Calm
  <1>1. IInv /\ NodeIInv /\ sure \in 0 .. 4 /\ top \in {sure, sure + 1}
    BY DEF LInv, ViewOK
  <1>2. sure' <= sure /\ lapsed' = lapsed /\ \E k, rpc : Issue(k, rpc)
    BY <1>1 DEF GoUp, GoDown
  <1>3. sure' \in Nat
    BY <1>1 DEF GoUp, GoDown, Steps
  <1>4. UNCHANGED <<disks, instances, attached, content, ops, npc, nres>>
    BY <1>2 DEF Issue, IssueToController, IssueToNode, cloud, host, nodeVars, vars
  <1>5. \/ asked' \in Calls /\ nreq' = nreq
        \/ \E c \in NodeCalls : /\ asked' = c /\ npc[c] = "idle"
                               /\ \E rpc : nreq' = [nreq EXCEPT ![c].rpc = rpc]
    BY <1>2 DEF Issue, IssueToController, IssueToNode, nodeVars
  <1>6. ~Staging'
    <2>1. \A c \in NodeCalls : npc[c] = "idle" => npc'[c] = "idle" /\ nres'[c] = "None"
      BY <1>1, <1>4 DEF NodeIInv, NodeTypeOK
    <2> QED
      BY <1>5, <2>1, CallsAssumption DEF Staging, Succeeds
  <1>7. StageCounts' => StageCounts
    BY <1>1, <1>2, <1>3, <1>4, <1>6 DEF StageCounts, Sound
  <1>8. \A c \in NodeCalls : nreq'[c].fstype = nreq[c].fstype
    BY <1>1, <1>5, SlotKeepsFs
  <1> QED
    BY <1>4, <1>7, <1>8 DEF Calm, NothingAttaches, Formats

LEMMA ReleaseIsCalm ==
    ASSUME IInv, NEW c \in Calls, Release(c)
    PROVE  \A e \in Calls : ops'[e] = "RUNNING" => ops[e] = "RUNNING"
  BY DEF Release, IInv, TypeOK, CloudTypeOK

LEMMA NodeReleaseIsCalm ==
    ASSUME NodeIInv, NEW c \in NodeCalls, NodeRelease(c)
    PROVE  /\ \A e \in NodeCalls : nreq'[e].fstype = nreq[e].fstype /\ ~Formats(e)
           /\ \A e \in NodeCalls \ {c} : Succeeds(e)' = Succeeds(e)
  <1>1. npc \in [NodeCalls -> {"idle", "done"} \cup NodeOpened] /\ DOMAIN nres = NodeCalls
    BY DEF NodeIInv, NodeTypeOK
  <1>2. npc' = [npc EXCEPT ![c] = "idle"] /\ nres' = [nres EXCEPT ![c] = "None"]
    BY DEF NodeRelease
  <1>3. \A e \in NodeCalls \ {c} : npc'[e] = npc[e] /\ nres'[e] = nres[e]
    BY <1>1, <1>2
  <1>4. npc'[c] = "idle"
    BY <1>1, <1>2
  <1>5. \A e \in NodeCalls : nreq'[e].fstype = nreq[e].fstype
    BY SlotKeepsFs DEF NodeRelease
  <1> QED
    BY <1>3, <1>4, <1>5 DEF Formats, Succeeds

\* An answer to a stage makes it count that could no longer fail.
LEMMA AnswersAreCalm ==
    ASSUME LInv,
           \/ \E c \in Calls : Receive(c)
           \/ \E c \in NodeCalls : NodeReceive(c) \/ NodeGiveUp(c)
    PROVE  Calm
  <1>1. /\ IInv /\ NodeIInv /\ ViewOK /\ AskedOK
        /\ sure \in 0 .. 4 /\ top \in {sure, sure + 1} /\ lapsed \subseteq Steps
    BY DEF LInv, ViewOK
  <1>2. Nobody \notin NodeCalls
    BY CallsAssumption
  <1>3. ASSUME NEW c \in Calls, Receive(c) PROVE Calm
    <2>1. /\ asked = c /\ Told(res[c] = "OK") /\ asked' = Nobody
          /\ Release(c) \/ UNCHANGED <<pc, res, ops, req>>
          /\ UNCHANGED <<disks, attached, content, nreq, npc>>
      BY <1>3 DEF Receive, nodeVars
    <2>2. top \in {1, 2} /\ sure \in 0 .. 1
      BY <1>1, <2>1, AskedMeans
    <2>3. sure' \in 0 .. 2
      BY <2>1, <2>2 DEF Told
    <2>4. ~StageCounts'
      BY <1>2, <2>1, <2>3 DEF StageCounts, Staging
    <2>5. \A e \in Calls : ops'[e] = "RUNNING" => ops[e] = "RUNNING"
      BY <1>1, <2>1, ReleaseIsCalm
    <2> QED
      BY <2>1, <2>4, <2>5 DEF Calm, NothingAttaches, Formats
  <1>4. ASSUME NEW c \in NodeCalls, NodeReceive(c) PROVE Calm
    <2>1. /\ asked = c /\ Told(nres[c] = "OK") /\ asked' = Nobody /\ NodeRelease(c)
          /\ UNCHANGED <<disks, instances, attached, content, ops, lapsed>>
      BY <1>4 DEF NodeReceive, host, vars
    <2>2. /\ top = sure + 1
          /\ \/ top = 3 \/ top = 4
      BY <1>1, <2>1, AskedMeans
    <2>3. \/ sure' = sure
          \/ nres[c] = "OK" /\ heading = "up" /\ sure' = top
      BY <2>1 DEF Told
    <2>4. sure' >= 3 => sure >= 3 \/ Staging
      BY <1>1, <2>1, <2>2, <2>3 DEF Staging, Succeeds
    <2>5. StageCounts' => StageCounts
      BY <1>2, <2>1, <2>4 DEF StageCounts, Staging, Sound
    <2> QED
      BY <1>1, <2>1, <2>5, NodeReleaseIsCalm DEF Calm, NothingAttaches
  <1>5. ASSUME NEW c \in NodeCalls, NodeGiveUp(c) PROVE Calm
    <2>1. asked' = Nobody /\ UNCHANGED <<vars, nodeVars, sure, lapsed>>
      BY <1>5 DEF NodeGiveUp
    <2>2. StageCounts' => StageCounts
      BY <1>2, <2>1 DEF StageCounts, Staging, Sound, vars
    <2> QED
      BY <2>1, <2>2 DEF Calm, NothingAttaches, Formats, vars, nodeVars
  <1> QED
    BY <1>3, <1>4, <1>5

LEMMA ForgettingIsCalm ==
    ASSUME LInv, Forget
    PROVE  Calm
  <1>1. IInv /\ NodeIInv /\ UNCHANGED <<sure, top, heading, asked, lapsed>>
    BY DEF LInv, Forget, callerVars
  <1>2. ASSUME NEW c \in Calls, Release(c),
               UNCHANGED <<disks, instances, attached, saw, nodeVars>>
        PROVE  Calm
    <2>1. UNCHANGED <<content, nreq, npc, nres>>
      BY <1>2 DEF nodeVars
    <2>2. StageCounts' => StageCounts
      BY <1>1, <1>2, <2>1 DEF StageCounts, Staging, Succeeds, Sound
    <2> QED
      BY <1>1, <1>2, <2>1, <2>2, ReleaseIsCalm DEF Calm, NothingAttaches, Formats
  <1>3. ASSUME NEW c \in NodeCalls, asked # c, NodeRelease(c), UNCHANGED <<host, nsaw, vars>>
        PROVE  Calm
    <2>1. UNCHANGED <<disks, instances, attached, content, ops>>
      BY <1>3 DEF host, vars
    <2>2. \A e \in NodeCalls : e = asked => (Succeeds(e)' = Succeeds(e))
      BY <1>1, <1>3, NodeReleaseIsCalm
    <2>3. Staging' => Staging
      <3> SUFFICES ASSUME Staging' PROVE Staging
        OBVIOUS
      <3>1. asked \in NodeCalls /\ (npc'[asked] = "return" \/ nres'[asked] = "OK")
        BY <1>1 DEF Staging, Succeeds
      <3> QED
        BY <1>1, <2>2, <3>1 DEF Staging, Succeeds
    <2>4. StageCounts' => StageCounts
      BY <1>1, <2>1, <2>3 DEF StageCounts, Sound
    <2> QED
      BY <1>1, <1>3, <2>1, <2>4, NodeReleaseIsCalm DEF Calm, NothingAttaches
  <1> QED
    BY <1>2, <1>3 DEF Forget

LEMMA ControllerIsCalm ==
    ASSUME LInv, NEW c \in Calls, ControllerStep(c)
    PROVE  Calm
  <1>1. IInv /\ UNCHANGED <<nodeVars, callerVars>>
    BY DEF LInv, ControllerStep
  <1>2. OnlyMoves(c) /\ UNCHANGED <<disks, instances, attached>>
    BY <1>1, ControllerMoves DEF ControllerStep
  <1>3. ops' = ops \/ \E reply : Submit(c, reply)
    BY DEF ControllerStep, Invoke, CreateVolume, DeleteVolume, ControllerPublishVolume,
           ControllerUnpublishVolume, Enter, Abandon, OrphanLands, Serve, Progress, CreateGet,
           CreateInsert, CreateRecheck, DeleteIssue, GetDiskOrError, GetInstanceOrError,
           PublishAttach, UnpublishDetach, WaitDone, WaitPollError, WaitTimeout, cloud
  <1>4. \A e \in Calls : ops'[e] = "RUNNING" => ops[e] = "RUNNING"
    BY <1>1, <1>3 DEF Submit, IInv, TypeOK, CloudTypeOK
  <1>5. StageCounts' => StageCounts
    BY <1>1, <1>2 DEF StageCounts, Staging, Succeeds, Sound, nodeVars, callerVars
  <1> QED
    BY <1>1, <1>2, <1>4, <1>5 DEF Calm, NothingAttaches, Formats, nodeVars

\* The driver or the node goes down, the device follows, or nothing happens.
LEMMA HostIsCalm ==
    ASSUME LInv, DeviceFollows \/ Crash \/ Reboot \/ InstanceDeleted \/ UNCHANGED lifeVars
    PROVE  Calm
  <1>1. NodeIInv /\ Nobody \notin NodeCalls
    BY CallsAssumption DEF LInv
  <1>2. UNCHANGED <<disks, ops, content, nreq>>
    BY DEF DeviceFollows, Crash, DriverCrash, Looks, Reboot, NodeReboot, NodeObserve, host,
           InstanceDeleted, InstanceGoes, DeleteInstance, lifeVars, vars, nodeVars
  <1>3. UNCHANGED <<instances, attached>> \/ InstanceDeleted
    BY DEF DeviceFollows, Crash, Reboot, lifeVars, vars
  <1>4. NothingAttaches
    BY <1>3, Parameters
       DEF NothingAttaches, InstanceDeleted, InstanceGoes, DeleteInstance, LInv, IInv, TypeOK,
           CloudTypeOK
  <1>5. CASE DeviceFollows \/ UNCHANGED lifeVars
    <2>1. UNCHANGED <<instances, npc, nres, callerVars>>
      BY <1>5 DEF DeviceFollows, lifeVars, vars, nodeVars
    <2>2. StageCounts' => StageCounts
      BY <2>1 DEF StageCounts, Staging, Succeeds, Sound, callerVars
    <2> QED
      BY <1>2, <1>4, <2>1, <2>2 DEF Calm, Formats
  <1>6. CASE Crash \/ Reboot \/ InstanceDeleted
    <2>1. LoseCalls
      BY <1>6 DEF Crash, DriverCrash, Reboot, NodeReboot, InstanceDeleted
    <2>2. \A c \in NodeCalls : ~Formats(c) /\ (Succeeds(c)' => Succeeds(c))
      <3> SUFFICES ASSUME NEW c \in NodeCalls PROVE ~Formats(c) /\ (Succeeds(c)' => Succeeds(c))
        OBVIOUS
      <3>1. npc'[c] \in {"done", npc[c]}
        BY <2>1 DEF LoseCalls
      <3> QED
        BY <1>1, <2>1, <3>1, LostCalls DEF Formats
    <2>3. CASE Crash
      <3>1. UNCHANGED <<instances, callerVars>>
        BY <2>3 DEF Crash, vars
      <3>2. Staging' => Staging
        <4> SUFFICES ASSUME Staging' PROVE Staging
          OBVIOUS
        <4>1. asked \in NodeCalls /\ (npc'[asked] = "return" \/ nres'[asked] = "OK")
          BY <3>1 DEF Staging, Succeeds, callerVars
        <4>2. Succeeds(asked)
          BY <2>2, <4>1 DEF Succeeds
        <4> QED
          BY <3>1, <4>1, <4>2 DEF Staging, callerVars
      <3>3. StageCounts' => StageCounts
        BY <3>1, <3>2 DEF StageCounts, Sound, callerVars
      <3> QED
        BY <1>2, <1>4, <2>2, <3>3 DEF Calm
    <2>4. CASE KubeletGoes
      <3>1. asked' \notin NodeCalls
        BY <1>1, <2>4 DEF KubeletGoes
      <3>2. sure' \in 0 .. 2
        BY <2>4 DEF KubeletGoes, LInv, ViewOK
      <3>3. ~StageCounts'
        BY <3>1, <3>2 DEF StageCounts, Staging
      <3> QED
        BY <1>2, <1>4, <2>2, <3>3 DEF Calm
    <2> QED
      BY <1>6, <2>3, <2>4 DEF Reboot, InstanceDeleted
  <1> QED
    BY <1>5, <1>6

LEMMA StepsAreCalm ==
    ASSUME LInv, [LifeNext]_lifeVars, ~Calm
    PROVE  (\E c \in Calls : CloudStep(c)) \/ (\E c \in NodeCalls : NodeStep(c))
  BY GoingIsCalm, AnswersAreCalm, ForgettingIsCalm, ControllerIsCalm, HostIsCalm
     DEF LifeNext, Stopped

\* A new disk is blank, and there is none while one is attached.
LEMMA CloudLeavesData ==
    ASSUME LInv, DiskOK, NEW c \in Calls, CloudStep(c)
    PROVE  /\ DiskOK' /\ UNCHANGED <<nreq, npc>> /\ (StageCounts' => StageCounts)
           /\ StageCounts => content'[volume] = content[volume]
  <1>1. /\ IInv /\ NodeIInv /\ ViewOK /\ OperationStep(c) /\ Lapses(c)
        /\ UNCHANGED <<nreq, npc, nres, sure, top, heading, asked>>
        /\ content' = [content EXCEPT ![volume] =
                          IF disks'[volume].status = "CREATING" THEN "blank" ELSE @]
        /\ UNCHANGED instances
    BY CloudMoves DEF LInv, CloudStep
  <1>2. DiskOK' /\ (attached[node][volume] # "NONE" => disks'[volume].status # "CREATING")
    BY <1>1, DiskKeeps
  <1>3. StageCounts => attached[node][volume] # "NONE"
    BY StagingStands
  <1>4. disks'[volume].status # "CREATING" => content'[volume] = content[volume]
    BY <1>1, Parameters DEF NodeIInv, NodeTypeOK
  <1>5. Sound(3)' => Sound(3)
    BY <1>1, LapsesGrow DEF Steps
  <1>6. StageCounts' => StageCounts
    BY <1>1, <1>5 DEF StageCounts, Staging, Succeeds
  <1> QED
    BY <1>1, <1>2, <1>3, <1>4, <1>6

\* Only mkfs writes, and it refuses a disk that is mounted.
LEMMA OnlyMkfsWrites ==
    ASSUME NodeIInv, NEW c \in NodeCalls, NodeInvoke(c) \/ NodeServe(c)
    PROVE  \/ Mkfs(c) /\ CanFormat(nreq[c]) /\ npc'[c] = "remount"
           \/ content' = content /\ \A e \in NodeCalls : ~Formats(e)
  <1>1. NodeControlTypeOK /\ NodeOnlyMoves(c)
    BY NodeMoves, NodeTypeOKParts DEF NodeIInv
  <1>2. \A e \in NodeCalls \ {c} : ~Formats(e)
    BY <1>1 DEF NodeOnlyMoves, Formats
  <1>3. CASE Mkfs(c)
    <2>1. CASE CanFormat(nreq[c]) /\ NodeGoto(c, "remount")
      BY <1>1, <1>3, <2>1 DEF NodeGoto, NodeControlTypeOK
    <2>2. CASE NodeAnswer(c, "Internal") /\ UNCHANGED host
      <3>1. npc'[c] = "done" /\ content' = content
        BY <1>1, <2>2 DEF NodeAnswer, NodeControlTypeOK, host
      <3> QED
        BY <1>2, <3>1 DEF Formats
    <2> QED
      BY <1>3, <2>1, <2>2 DEF Mkfs
  <1>4. CASE ~Mkfs(c)
    <2>1. npc[c] # "mkfs"
      BY <1>4 DEF NodeServe, NodeInvoke, NodeStageVolume, NodeUnstageVolume, NodePublishVolume,
         NodeUnpublishVolume, NodeEnter, VerifyDevicePath, StageCheck, StageMkdir, Fsck, StageMount,
         getDiskFormat, StageRemount, TargetCheck, TargetMkdir, TargetBind, CleanCheck,
         CleanUmount, CleanRecheck, TargetRemove, UnmountVolume, Return
    <2>2. content' = content
      BY <1>4 DEF NodeServe, NodeInvoke, NodeStageVolume, NodeUnstageVolume, NodePublishVolume,
         NodeUnpublishVolume, NodeEnter, VerifyDevicePath, StageCheck, StageMkdir, Fsck, StageMount,
         getDiskFormat, StageRemount, TargetCheck, TargetMkdir, TargetBind, CleanCheck,
         CleanUmount, CleanRecheck, TargetRemove, UnmountVolume, Return, Looks, host, MkdirAll,
         OnlyFileSystems,
         MountDevice, BindMount, Umount
    <2> QED
      BY <1>2, <2>1, <2>2 DEF Formats
  <1> QED
    BY <1>3, <1>4

\* A stage that can no longer fail has mounted the file system it was for.
LEMMA StageShowsData ==
    ASSUME NodeIInv, NEW c \in NodeCalls, NodeInvoke(c) \/ NodeServe(c),
           nreq[c].rpc = "NodeStageVolume", Succeeds(c)', ~Succeeds(c)
    PROVE  content'[volume] = nreq[c].fstype
  <1>1. nreq[c].volume = volume /\ npc[c] # "return" /\ nres[c] # "OK"
    BY EveryNodeRequest DEF Succeeds
  <1>2. Staged(c)
    BY <1>1, NodeMoves DEF Bound, Unstaged, Unbound
  <1>3. NodeControlTypeOK /\ NodePcOK(c)
    BY NodeTypeOKParts DEF NodeIInv, NodeCallOK
  <1>4. StageMount(c) \/ StageRemount(c)
    <2>1. mounts' # mounts
      <3>1. /\ mounts[staging] # <<>> <=> Len(mounts[staging]) > 0
            /\ Len(mounts'[staging]) = Len(mounts[staging]) + 1 /\ Len(mounts[staging]) \in Nat
        BY <1>2, OnPath, Parameters DEF Staged
      <3> QED
        BY <3>1
    <2>2. ~NodeInvoke(c)
      BY <2>1 DEF NodeInvoke, NodeStageVolume, NodeUnstageVolume, NodePublishVolume,
         NodeUnpublishVolume, NodeEnter, Looks, host
    <2>3. npc[c] \in StageSteps
      BY <1>1, <1>3, <2>2 DEF NodePcOK, NodeServe, UnmountVolume, Return, TargetCheck, TargetMkdir,
         TargetBind, CleanCheck, CleanUmount, CleanRecheck, TargetRemove, VerifyDevicePath,
         StageCheck, StageMkdir, Fsck, StageMount, getDiskFormat, Mkfs, StageRemount, StageSteps,
         PublishSteps
    <2> QED
      BY <2>1, <2>2, <2>3 DEF NodeServe, StageSteps, UnmountVolume, Return, TargetCheck,
         TargetMkdir, TargetBind, CleanCheck, CleanUmount, CleanRecheck, TargetRemove,
         VerifyDevicePath, StageCheck, StageMkdir, OnlyFileSystems, Fsck, getDiskFormat, Mkfs,
         Looks, host, MkdirAll
  <1>5. \A code : NodeAnswer(c, code) => npc'[c] = "done" /\ nres'[c] = code
    BY <1>3 DEF NodeControlTypeOK, NodeAnswer
  <1>6. NodeGoto(c, "lsblk") => npc'[c] = "lsblk" /\ nres' = nres
    BY <1>3 DEF NodeControlTypeOK, NodeGoto
  <1>7. CanMount(nreq[c]) /\ MountDevice(nreq[c])
    BY <1>1, <1>4, <1>5, <1>6 DEF StageMount, StageRemount, Succeeds
  <1> QED
    BY <1>1, <1>7 DEF CanMount, MountDevice

LEMMA NodeLeavesData ==
    ASSUME LInv, NEW c \in NodeCalls, NodeStep(c)
    PROVE  /\ UNCHANGED <<disks, attached, ops, nreq>>
           /\ StageCounts => /\ content'[volume] = content[volume]
                             /\ \A e \in NodeCalls : ~Formats(e)
           /\ StageCounts' /\ ~StageCounts => content'[volume] = nreq[c].fstype
  <1>1. /\ NodeInvoke(c) \/ NodeServe(c)
        /\ Lapses(c) /\ UNCHANGED <<vars, instances, sure, top, heading, asked>>
        /\ NodeIInv /\ ViewOK /\ AskedOK
    BY DEF NodeStep, LInv, vars
  <1>2. nreq' = nreq /\ NodeOnlyMoves(c)
    BY <1>1, NodeMoves
  <1>3. ASSUME StageCounts
        PROVE  content'[volume] = content[volume] /\ \A e \in NodeCalls : ~Formats(e)
    <2>1. Mounted(volume) /\ nreq[c].volume = volume
      BY <1>1, <1>3, StagingStands, EveryNodeRequest
    <2> QED
      BY <1>1, <2>1, OnlyMkfsWrites DEF CanFormat
  <1>4. ASSUME StageCounts', ~StageCounts PROVE content'[volume] = nreq[c].fstype
    <2>1. Sound(3)' => Sound(3)
      BY <1>1, LapsesGrow DEF Steps
    <2>2. Staging' /\ ~Staging
      BY <1>1, <1>4, <2>1 DEF StageCounts
    <2>3. /\ asked \in NodeCalls /\ top = 3 /\ heading = "up"
          /\ npc'[asked] = "return" \/ nres'[asked] = "OK"
          /\ ~(npc[asked] = "return" \/ nres[asked] = "OK")
      BY <1>1, <2>2 DEF Staging, Succeeds
    <2>4. asked = c
      BY <1>2, <2>3 DEF NodeOnlyMoves
    <2>5. nreq[c].rpc = "NodeStageVolume"
      BY <1>1, <2>3, <2>4, AskedMeans
    <2>6. Succeeds(c)' /\ ~Succeeds(c)
      BY <2>3, <2>4 DEF Succeeds
    <2> QED
      BY <1>1, <2>5, <2>6, StageShowsData
  <1> QED
    BY <1>1, <1>2, <1>3, <1>4 DEF vars

\* Where a staging counts, nothing touches what is on the disk.
LEMMA DataStays ==
    ASSUME LInv, DiskOK, [LifeNext]_lifeVars, StageCounts
    PROVE  content'[volume] = content[volume] /\ \A c \in NodeCalls : ~Formats(c)
  <1>1. CASE Calm
    BY <1>1 DEF Calm
  <1>2. ASSUME NEW c \in Calls, CloudStep(c)
        PROVE  content'[volume] = content[volume] /\ \A e \in NodeCalls : ~Formats(e)
    BY <1>2, CloudLeavesData DEF Formats
  <1>3. ASSUME NEW c \in NodeCalls, NodeStep(c)
        PROVE  content'[volume] = content[volume] /\ \A e \in NodeCalls : ~Formats(e)
    BY <1>3, NodeLeavesData
  <1> QED
    BY <1>1, <1>2, <1>3, StepsAreCalm

LEMMA DataInit == LifeInit => DInv
  <1> SUFFICES ASSUME LifeInit PROVE DInv
    OBVIOUS
  <1>1. LInv
    BY LifeInitHolds
  <1>2. DiskOK
    BY Parameters DEF LifeInit, CloudInit, DiskOK
  <1>3. SameFs
    BY DEF LifeInit, SameFs
  <1>4. ~StageCounts
    BY CallsAssumption DEF LifeInit, StageCounts, Staging
  <1> QED
    BY <1>1, <1>2, <1>3, <1>4 DEF DInv, HasData

LEMMA DataInductive == DInv /\ [LifeNext]_lifeVars => DInv'
  <1> SUFFICES ASSUME DInv, [LifeNext]_lifeVars PROVE DInv'
    OBVIOUS
  <1>1. LInv /\ DiskOK /\ SameFs /\ HasData /\ LInv'
    BY LifeInductive DEF DInv
  <1>2. CASE Calm
    <2>1. DiskOK'
      BY <1>1, <1>2, QuietDisk DEF Calm
    <2>2. SameFs' /\ HasData'
      BY <1>1, <1>2 DEF Calm, SameFs, HasData
    <2> QED
      BY <1>1, <2>1, <2>2 DEF DInv
  <1>3. ASSUME NEW c \in Calls, CloudStep(c) PROVE DInv'
    <2>1. DiskOK' /\ SameFs' /\ HasData'
      BY <1>1, <1>3, CloudLeavesData DEF SameFs, HasData
    <2> QED
      BY <1>1, <2>1 DEF DInv
  <1>4. ASSUME NEW c \in NodeCalls, NodeStep(c) PROVE DInv'
    <2>1. UNCHANGED <<disks, attached, ops, nreq>>
      BY <1>1, <1>4, NodeLeavesData
    <2>2. DiskOK' /\ SameFs'
      BY <1>1, <2>1, QuietDisk DEF NothingAttaches, SameFs
    <2>3. nreq[c].fstype = NodeOrder.fstype
      BY <1>1 DEF SameFs
    <2>4. HasData'
      BY <1>1, <1>4, <2>3, NodeLeavesData DEF HasData
    <2> QED
      BY <1>1, <2>2, <2>4 DEF DInv
  <1> QED
    BY <1>1, <1>2, <1>3, <1>4, StepsAreCalm
-----------------------------------------------------------------------------
(* The results *)

\* Every reachable state is well typed, and the view of the caller is about
\* one step in doubt at most.  (controller.go 71-350, node.go 35-233)
THEOREM LifeTypeCorrect == LifeSpec => []LifeTypeOK
  <1>1. LInv => LifeTypeOK
    BY DEF LInv, IInv, NodeIInv, ViewOK, LifeTypeOK
  <1> QED
    BY <1>1, LifeInvariant, PTL

\* What the caller was told is done is in effect, whatever is retried, lost,
\* crashes or restarts, unless that step or one below it was spoilt.
\* (controller.go 71-350, node.go 35-233)
THEOREM UpIsUp == LifeSpec => []ToldUpIsUp
  <1>1. LInv => ToldUpIsUp
    BY DEF LInv, View
  <1> QED
    BY <1>1, LifeInvariant, PTL

\* Of what the caller was told is undone nothing is left, unless that step
\* was spoilt.  (controller.go 185-350, node.go 110-130 and 220-233)
THEOREM DownIsDown == LifeSpec => []ToldDownIsDown
  <1>1. LInv => ToldDownIsDown
    BY DEF LInv, View
  <1> QED
    BY <1>1, LifeInvariant, PTL

\* Where nothing has lapsed, NotFound means that the instance is gone, that
\* the disk is there, although it may have been CREATING when its creation was
\* answered OK, and that nothing of it is left attached or mounted.
\* (controller.go 253-262 and 321-329, gce-compute.go 86)
THEOREM NotFoundMeansGone == LifeSpec => []NotFoundMeansNodeGone
  <1>1. LInv => NotFoundMeansNodeGone
    <2> SUFFICES ASSUME LInv, NEW c \in Calls, asked = c, res[c] = "NotFound", lapsed = {}
                 PROVE  /\ node \notin instances
                        /\ Exists(volume) /\ \A k \in 2 .. 4 : Undone(k)
      BY DEF NotFoundMeansNodeGone
    <2>1. ViewOK /\ AskedOK /\ View /\ NotFoundOK /\ GoneOK
      BY DEF LInv
    <2>2. node \notin instances /\ top = 2
      BY <2>1 DEF NotFoundOK
    <2>3. sure = 1
      BY <2>1, <2>2, AskedMeans DEF ViewOK
    <2>4. Exists(volume)
      BY <2>1, <2>3 DEF View, ToldUpIsUp, Sound, InEffect, Steps
    <2>5. Undone(2)
      BY <2>1, <2>2 DEF GoneOK, Undone
    <2>6. Undone(3) /\ Undone(4)
      BY <2>1, <2>2 DEF View, ToldDownIsDown, Steps
    <2> QED
      BY <2>2, <2>4, <2>5, <2>6
  <1> QED
    BY <1>1, LifeInvariant, PTL

\* A detach that spoils nothing comes when the caller has unmounted the disk.
LEMMA DetachFindsNoMount ==
    ASSUME LInv, NEW c \in Calls, CloudStep(c), InEffect(2), ~InEffect(2)', lapsed' = {}
    PROVE  ~Mounted(volume)
  <1>1. OperationStep(c) /\ Lapses(c) /\ UNCHANGED instances
    BY CloudMoves DEF CloudStep, LInv
  <1>2. IInv /\ ViewOK /\ AskedOK /\ View /\ MountsOK
    BY DEF LInv
  <1>3. attached[node][volume] # "NONE" /\ attached'[node][volume] = "NONE"
    BY DEF InEffect
  <1>4. lapsed = {} /\ ~Spoils(c, 2)
    BY <1>1, <1>2, LapsesGrow DEF Steps
  <1>5. top <= 2
    <2>1. CASE asked = c
      <3>1. req[c].rpc = "ControllerUnpublishVolume"
        BY <1>1, <1>2, <1>3, CloudMoves
      <3>2. asked \in Calls
        BY <2>1
      <3> QED
        BY <1>2, <3>2, AskedMeans
    <2>2. CASE asked # c
      <3>1. ~Wanted(2)
        BY <1>4, <2>2 DEF Spoils
      <3> QED
        BY <1>2, <3>1 DEF Wanted, ViewOK
    <2> QED
      BY <2>1, <2>2
  <1>6. Undone(3) /\ Undone(4)
    BY <1>2, <1>4, <1>5 DEF View, ToldDownIsDown, ViewOK, Steps
  <1>7. \A p \in Paths : mounts[p] = <<>>
    BY <1>2, <1>6 DEF MountsOK, Undone
  <1>8. DOMAIN <<>> = {}
    OBVIOUS
  <1> QED
    BY <1>7, <1>8 DEF Mounted

LEMMA OnlyTheCloudDetaches ==
    ASSUME LInv, [LifeNext]_lifeVars, attached' # attached, node \in instances'
    PROVE  \E c \in Calls : CloudStep(c)
  <1>1. CASE GoUp \/ GoDown
    BY <1>1 DEF GoUp, GoDown, Issue, IssueToController, IssueToNode, cloud, vars
  <1>2. CASE Forget
    BY <1>2 DEF Forget, vars
  <1>3. ASSUME NEW c \in Calls, Receive(c) PROVE FALSE
    BY <1>3 DEF Receive
  <1>4. ASSUME NEW c \in Calls, ControllerStep(c) PROVE FALSE
    BY <1>4, ControllerMoves DEF ControllerStep, LInv
  <1>5. ASSUME NEW c \in NodeCalls, NodeReceive(c) \/ NodeGiveUp(c) \/ NodeStep(c) PROVE FALSE
    BY <1>5 DEF NodeReceive, NodeGiveUp, NodeStep, vars
  <1>6. CASE DeviceFollows \/ Crash \/ Reboot \/ UNCHANGED lifeVars
    BY <1>6 DEF DeviceFollows, Crash, Reboot, lifeVars, vars
  <1>7. CASE InstanceDeleted
    BY <1>7 DEF InstanceDeleted, InstanceGoes, DeleteInstance
  <1> QED
    BY <1>1, <1>2, <1>3, <1>4, <1>5, <1>6, <1>7 DEF LifeNext, Stopped

\* Where nothing has lapsed the disk is not detached while it is mounted, as
\* long as the node is there.
\* (controller.go 338-349, node.go 124 and 225)
THEOREM DiskStaysWhileMounted == LifeSpec => MountedDiskIsNotPulled
  <1>1. LInv /\ [LifeNext]_lifeVars
            => [(InEffect(2) /\ ~InEffect(2)' /\ lapsed' = {} /\ node \in instances')
                    => ~Mounted(volume)]_lifeVars
    <2> SUFFICES ASSUME LInv, [LifeNext]_lifeVars, InEffect(2), ~InEffect(2)', lapsed' = {},
                        node \in instances'
                 PROVE  ~Mounted(volume)
      OBVIOUS
    <2>1. attached' # attached
      BY DEF InEffect
    <2> QED
      BY <2>1, OnlyTheCloudDetaches, DetachFindsNoMount
  <1> QED
    BY <1>1, LifeInvariant, PTL DEF LifeSpec, MountedDiskIsNotPulled

\* A volume the caller was told is staged keeps the file system it asked for:
\* no stage that was given up formats it, and no disk is put in its place.
\* (mounter.go 149-176, node.go 162-218)
THEOREM StagedDataSurvives == LifeSpec => StagedDataStays
  <1>1. LifeSpec => []DInv
    BY DataInit, DataInductive, PTL DEF LifeSpec
  <1>2. DInv /\ [LifeNext]_lifeVars
            => [(sure >= 3 /\ Sound(3)) => /\ content[volume] = NodeOrder.fstype
                                           /\ content'[volume] = content[volume]
                                           /\ \A c \in NodeCalls : ~Formats(c)]_lifeVars
    <2> SUFFICES ASSUME DInv, [LifeNext]_lifeVars, sure >= 3, Sound(3)
                 PROVE  /\ content[volume] = NodeOrder.fstype
                        /\ content'[volume] = content[volume]
                        /\ \A c \in NodeCalls : ~Formats(c)
      OBVIOUS
    <2>1. StageCounts
      BY DEF StageCounts
    <2> QED
      BY <2>1, DataStays DEF DInv, HasData
  <1> QED
    BY <1>1, <1>2, PTL DEF LifeSpec, StagedDataStays
=============================================================================
