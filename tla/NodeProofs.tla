----------------------------- MODULE NodeProofs -----------------------------
(***************************************************************************)
(* NodeServer for any volumes, paths and calls: the type invariant, that   *)
(* an OK is earned, and that older data is not formatted over.             *)
(*                                                                         *)
(* As in ControllerProofs the invariant says of each call something that   *)
(* only its own control state and its growing history can change; the      *)
(* mount table enters once, in the step that mounts.                       *)
(***************************************************************************)
EXTENDS NodeServer, TLAPS

\* Which method a step belongs to.
NodePcOK(c) ==
    /\ npc[c] \in StageSteps => nreq[c].rpc = "NodeStageVolume"
    /\ npc[c] \in PublishSteps => nreq[c].rpc = "NodePublishVolume"
    /\ npc[c] = "umount" => nreq[c].rpc \in {"NodeUnstageVolume", "NodeUnpublishVolume"}

\* What a step has behind it: mkfs a disk that was blank, the answer the
\* mount it is for.
NodeEvidence(c) ==
    /\ npc[c] = "mkfs" => "blank" \in nsaw[c]
    /\ npc[c] = "return" \/ nres[c] = "OK" => NodePromised(c)

NodeCallOK(c) == NodePcOK(c) /\ NodeEvidence(c)

NodeIInv == NodeTypeOK /\ \A c \in NodeCalls : NodeCallOK(c)
-----------------------------------------------------------------------------
(* Types *)

HostTypeOK ==
    /\ device \in [Volumes -> BOOLEAN]
    /\ content \in [Volumes -> Contents]
    /\ dirs \in SUBSET Paths
    /\ mounts \in [Paths -> Seq(Volumes \cup {"root"})]
    /\ \A p \in Paths : mounts[p] # <<>> => p \in dirs

NodeControlTypeOK ==
    /\ npc \in [NodeCalls -> {"idle", "done"} \cup NodeOpened]
    /\ nres \in [NodeCalls -> NodeCodes \cup {"None"}]
    /\ \A c \in NodeCalls : npc[c] = "done" <=> nres[c] # "None"

NodeHistoryTypeOK ==
    nreq \in [NodeCalls -> NodeRequests] /\ nsaw \in [NodeCalls -> SUBSET NodeFactNames]

LEMMA NodeTypeOKParts == NodeTypeOK <=> (HostTypeOK /\ NodeControlTypeOK /\ NodeHistoryTypeOK)
  BY DEF NodeTypeOK, HostTypeOK, NodeControlTypeOK, NodeHistoryTypeOK

\* The fields of a request have their types.
LEMMA NodeRequestFields ==
    ASSUME NodeHistoryTypeOK, NEW c \in NodeCalls
    PROVE  /\ nreq[c] \in NodeRequests
           /\ nreq[c].rpc \in NodeRpcs
           /\ nreq[c].volume \in Volumes /\ nreq[c].fstype \in FsTypes
           /\ nreq[c].staging \in Paths /\ nreq[c].target \in Paths
  <1>1. nreq[c] \in NodeRequests
    BY DEF NodeHistoryTypeOK
  <1> QED
    BY <1>1, NodeRequestsAssumption DEF NodeRequestType

LEMMA NodeObserveTypes ==
    ASSUME NodeHistoryTypeOK, NodeObserve
    PROVE  /\ NodeHistoryTypeOK'
           /\ \A c \in NodeCalls : nsaw[c] \subseteq nsaw'[c]
           /\ \A c \in NodeCalls :
                 NodeOpen(c) \/ NodeOpen(c)' => nsaw'[c] = nsaw[c] \cup NodeFacts(c)'
  BY DEF NodeHistoryTypeOK, NodeObserve, NodeFacts

LEMMA NodeGotoTypes ==
    ASSUME NodeControlTypeOK, NEW c \in NodeCalls, npc[c] # "done",
           NEW next \in NodeOpened, NodeGoto(c, next)
    PROVE  NodeControlTypeOK'
  BY DEF NodeControlTypeOK, NodeGoto, NodeOpened, StageSteps, PublishSteps

LEMMA NodeAnswerTypes ==
    ASSUME NodeControlTypeOK, NEW c \in NodeCalls, NEW code \in NodeCodes, NodeAnswer(c, code)
    PROVE  NodeControlTypeOK'
  BY DEF NodeControlTypeOK, NodeAnswer, NodeCodes

LEMMA HostUnchangedTypes ==
    ASSUME HostTypeOK, UNCHANGED host
    PROVE  HostTypeOK'
  BY DEF HostTypeOK, host

LEMMA MkdirTypes ==
    ASSUME HostTypeOK, NEW p \in Paths, MkdirAll(p)
    PROVE  HostTypeOK'
  BY DEF HostTypeOK, MkdirAll

\* A mount puts one entry on top of a path that exists.
LEMMA StackTypes ==
    ASSUME HostTypeOK, NEW p \in Paths, NEW shown \in Volumes \cup {"root"}, p \in dirs,
           mounts' = [mounts EXCEPT ![p] = <<shown>> \o @],
           UNCHANGED <<device, content, dirs>>
    PROVE  /\ HostTypeOK'
           /\ Shows(p)' = shown
           /\ \A q \in Paths \ {p} : mounts'[q] = mounts[q]
  <1>1. mounts[p] \in Seq(Volumes \cup {"root"})
    BY DEF HostTypeOK
  <1>2. mounts'[p] = <<shown>> \o mounts[p]
    BY DEF HostTypeOK
  <1>3. /\ <<shown>> \o mounts[p] \in Seq(Volumes \cup {"root"})
        /\ Head(<<shown>> \o mounts[p]) = shown
        /\ <<shown>> \o mounts[p] # <<>>
    BY <1>1
  <1> QED
    BY <1>2, <1>3 DEF HostTypeOK, Shows

LEMMA UmountTypes ==
    ASSUME HostTypeOK, NEW p \in Paths, Umount(p)
    PROVE  HostTypeOK'
  BY DEF HostTypeOK, Umount

LEMMA BehindType ==
    ASSUME HostTypeOK, NEW p \in Paths
    PROVE  Behind(p) \in Volumes \cup {"root"}
  <1>1. mounts[p] \in Seq(Volumes \cup {"root"})
    BY DEF HostTypeOK
  <1>2. mounts[p] # <<>> => Head(mounts[p]) \in Volumes \cup {"root"}
    BY <1>1
  <1> QED
    BY <1>2 DEF Behind
-----------------------------------------------------------------------------
(* Locality *)

LEMMA NodeCallIsLocal ==
    ASSUME NEW c \in NodeCalls, NodeCallOK(c), nreq'[c] = nreq[c], nsaw[c] \subseteq nsaw'[c],
           npc'[c] = npc[c], nres'[c] = nres[c]
    PROVE  NodeCallOK(c)'
  <1>1. NodePromised(c) => NodePromised(c)'
    BY DEF NodePromised
  <1> QED
    BY <1>1 DEF NodeCallOK, NodePcOK, NodeEvidence

\* A step that changes the control state of c alone.
NodeOnlyMoves(c) ==
    \A e \in NodeCalls \ {c} : npc'[e] = npc[e] /\ nres'[e] = nres[e]

\* What has to be shown of a step of c.
NodeKept(c) == HostTypeOK' /\ NodeControlTypeOK' /\ NodeOnlyMoves(c) /\ NodeCallOK(c)'

LEMMA NodeOthersKeep ==
    ASSUME NodeIInv, NEW c \in NodeCalls, NodeKept(c), NodeObserve
    PROVE  NodeIInv'
  <1>1. NodeHistoryTypeOK /\ \A e \in NodeCalls : NodeCallOK(e)
    BY NodeTypeOKParts DEF NodeIInv
  <1>2. NodeHistoryTypeOK' /\ nreq' = nreq /\ \A e \in NodeCalls : nsaw[e] \subseteq nsaw'[e]
    BY <1>1, NodeObserveTypes DEF NodeObserve
  <1>3. ASSUME NEW e \in NodeCalls PROVE NodeCallOK(e)'
    BY <1>1, <1>2, NodeCallIsLocal DEF NodeKept, NodeOnlyMoves
  <1>4. NodeTypeOK'
    BY <1>2, NodeTypeOKParts DEF NodeKept, NodeTypeOK, HostTypeOK, NodeControlTypeOK,
                                 NodeHistoryTypeOK
  <1> QED
    BY <1>3, <1>4 DEF NodeIInv

\* The handler goes on to its next step.
LEMMA NodeWentOn ==
    ASSUME NodeIInv, NEW c \in NodeCalls, npc[c] # "done", NEW next \in NodeOpened,
           NodeGoto(c, next), HostTypeOK', NodePcOK(c)',
           next = "mkfs" => "blank" \in nsaw'[c],
           next = "return" => NodePromised(c)'
    PROVE  NodeKept(c)
  <1>1. NodeControlTypeOK
    BY NodeTypeOKParts DEF NodeIInv
  <1>2. npc'[c] = next /\ nres'[c] = "None"
    BY <1>1 DEF NodeControlTypeOK, NodeGoto
  <1>3. NodeControlTypeOK' /\ NodeOnlyMoves(c)
    BY <1>1, NodeGotoTypes DEF NodeControlTypeOK, NodeGoto, NodeOnlyMoves
  <1>4. NodeEvidence(c)'
    BY <1>2 DEF NodeEvidence
  <1> QED
    BY <1>3, <1>4 DEF NodeKept, NodeCallOK

\* The handler answers.
LEMMA NodeAnswered ==
    ASSUME NodeIInv, NEW c \in NodeCalls, NEW code \in NodeCodes,
           NodeAnswer(c, code), HostTypeOK', code = "OK" => NodePromised(c)'
    PROVE  NodeKept(c)
  <1>1. NodeControlTypeOK
    BY NodeTypeOKParts DEF NodeIInv
  <1>2. npc'[c] = "done" /\ nres'[c] = code
    BY <1>1 DEF NodeControlTypeOK, NodeAnswer
  <1>3. NodeControlTypeOK' /\ NodeOnlyMoves(c)
    BY <1>1, NodeAnswerTypes DEF NodeControlTypeOK, NodeAnswer, NodeOnlyMoves
  <1>4. NodePcOK(c)' /\ NodeEvidence(c)'
    BY <1>2 DEF NodePcOK, NodeEvidence, StageSteps, PublishSteps
  <1> QED
    BY <1>3, <1>4 DEF NodeKept, NodeCallOK
-----------------------------------------------------------------------------
(* The actions *)

\* What every lemma below starts from.
LEMMA NodeFrame ==
    ASSUME NodeIInv, NEW c \in NodeCalls, NodeObserve
    PROVE  /\ HostTypeOK /\ NodeControlTypeOK /\ NodeHistoryTypeOK /\ NodeCallOK(c)
           /\ nreq' = nreq /\ nsaw[c] \subseteq nsaw'[c]
           /\ NodeOpen(c) \/ NodeOpen(c)' => nsaw'[c] = nsaw[c] \cup NodeFacts(c)'
  <1>1. HostTypeOK /\ NodeControlTypeOK /\ NodeHistoryTypeOK /\ NodeCallOK(c)
    BY NodeTypeOKParts DEF NodeIInv
  <1> QED
    BY <1>1, NodeObserveTypes DEF NodeObserve

LEMMA NodeInvokeKeeps ==
    ASSUME NodeIInv, NEW c \in NodeCalls, NodeInvoke(c)
    PROVE  NodeKept(c) /\ NodeObserve
  <1>1. NodeObserve /\ UNCHANGED host /\ npc[c] = "idle"
    BY DEF NodeInvoke, NodeStageVolume, NodeUnstageVolume, NodePublishVolume,
           NodeUnpublishVolume, NodeEnter, Looks
  <1>2. /\ HostTypeOK' /\ NodeControlTypeOK /\ nreq' = nreq
    BY <1>1, NodeFrame, HostUnchangedTypes
  <1>3. ASSUME NodeAnswer(c, "InvalidArgument") \/ NodeAnswer(c, "Unknown") PROVE NodeKept(c)
    BY <1>2, <1>3, NodeAnswered DEF NodeCodes
  <1>4. ASSUME nreq[c].rpc = "NodeStageVolume", NodeGoto(c, "device") PROVE NodeKept(c)
    <2>1. NodePcOK(c)'
      BY <1>2, <1>4 DEF NodePcOK, NodeGoto, NodeControlTypeOK, StageSteps, PublishSteps
    <2> QED
      BY <1>1, <1>2, <1>4, <2>1, NodeWentOn DEF NodeOpened, StageSteps
  <1>5. ASSUME nreq[c].rpc = "NodePublishVolume", NodeGoto(c, "target") PROVE NodeKept(c)
    <2>1. NodePcOK(c)'
      BY <1>2, <1>5 DEF NodePcOK, NodeGoto, NodeControlTypeOK, StageSteps, PublishSteps
    <2> QED
      BY <1>1, <1>2, <1>5, <2>1, NodeWentOn DEF NodeOpened, PublishSteps
  <1>6. ASSUME nreq[c].rpc \in {"NodeUnstageVolume", "NodeUnpublishVolume"},
               NodeGoto(c, "umount")
        PROVE  NodeKept(c)
    <2>1. NodePcOK(c)'
      BY <1>2, <1>6 DEF NodePcOK, NodeGoto, NodeControlTypeOK, StageSteps, PublishSteps
    <2> QED
      BY <1>1, <1>2, <1>6, <2>1, NodeWentOn DEF NodeOpened
  <1> QED
    BY <1>1, <1>3, <1>4, <1>5, <1>6 DEF NodeInvoke, NodeStageVolume, NodeUnstageVolume,
       NodePublishVolume, NodeUnpublishVolume, NodeEnter

\* A handler keeps to the steps of its own method.
LEMMA SameMethodGoesOn ==
    ASSUME NodeIInv, NEW c \in NodeCalls, NodeObserve, NEW next \in NodeOpened,
           \/ npc[c] \in StageSteps /\ next \in StageSteps \cup {"return"}
           \/ npc[c] \in PublishSteps /\ next \in PublishSteps \cup {"return"}
           \/ npc[c] = "umount" /\ next = "return",
           NodeGoto(c, next), HostTypeOK',
           next = "mkfs" => "blank" \in nsaw'[c],
           next = "return" => NodePromised(c)'
    PROVE  NodeKept(c)
  <1>1. NodePcOK(c) /\ NodeControlTypeOK /\ nreq' = nreq
    BY NodeFrame DEF NodeCallOK
  <1>2. npc'[c] = next /\ npc[c] # "done"
    BY <1>1 DEF NodeGoto, NodeControlTypeOK, StageSteps, PublishSteps
  <1>3. NodePcOK(c)'
    BY <1>1, <1>2 DEF NodePcOK, StageSteps, PublishSteps
  <1> QED
    BY <1>2, <1>3, NodeWentOn

\* A failed command ends the call with an error that promises nothing.
LEMMA FailureKeeps ==
    ASSUME NodeIInv, NEW c \in NodeCalls, HostTypeOK', NEW code \in NodeCodes \ {"OK"},
           NodeAnswer(c, code)
    PROVE  NodeKept(c)
  BY NodeAnswered

\* A mount of the volume on the staging path is what a stage promises.
LEMMA StagingKeeps ==
    ASSUME NodeIInv, NEW c \in NodeCalls, NodeObserve, npc[c] \in {"mount", "remount"},
           CanMount(nreq[c]), MountDevice(nreq[c]), NodeGoto(c, "return")
    PROVE  NodeKept(c)
  <1> DEFINE r == nreq[c]
  <1>1. /\ HostTypeOK /\ NodeControlTypeOK /\ NodeHistoryTypeOK /\ NodePcOK(c)
        /\ nreq' = nreq
        /\ NodeOpen(c) \/ NodeOpen(c)' => nsaw'[c] = nsaw[c] \cup NodeFacts(c)'
    BY NodeFrame DEF NodeCallOK
  <1>2. r.staging \in Paths /\ r.volume \in Volumes
    BY <1>1, NodeRequestFields
  <1>3. HostTypeOK' /\ Shows(r.staging)' = r.volume
    BY <1>1, <1>2, StackTypes DEF CanMount, MountDevice
  <1>4. content'[r.volume] = r.fstype
    BY DEF CanMount, MountDevice
  <1>5. NodeOpen(c)
    BY DEF NodeOpen, NodeOpened, StageSteps
  <1>6. "staged" \in NodeFacts(c)'
    BY <1>1, <1>3, <1>4 DEF NodeFacts, NodeFactNames
  <1>7. nreq[c].rpc = "NodeStageVolume"
    BY <1>1 DEF NodePcOK, StageSteps
  <1>8. NodePromised(c)'
    BY <1>1, <1>5, <1>6, <1>7 DEF NodePromised
  <1> QED
    BY <1>3, <1>8, SameMethodGoesOn DEF NodeOpened, StageSteps

\* A bind of the staging path on the target is what a publish promises.
LEMMA BindingKeeps ==
    ASSUME NodeIInv, NEW c \in NodeCalls, NodeObserve, npc[c] = "bind",
           CanBind(nreq[c]), BindMount(nreq[c]), NodeGoto(c, "return")
    PROVE  NodeKept(c)
  <1> DEFINE r == nreq[c]
  <1>1. /\ HostTypeOK /\ NodeControlTypeOK /\ NodeHistoryTypeOK /\ NodePcOK(c)
        /\ nreq' = nreq
        /\ NodeOpen(c) \/ NodeOpen(c)' => nsaw'[c] = nsaw[c] \cup NodeFacts(c)'
    BY NodeFrame DEF NodeCallOK
  <1>2. r.staging \in Paths /\ r.target \in Paths
    BY <1>1, NodeRequestFields
  <1>3. Behind(r.staging) \in Volumes \cup {"root"}
    BY <1>1, <1>2, BehindType
  <1>4. /\ HostTypeOK' /\ Shows(r.target)' = Behind(r.staging)
        /\ \A q \in Paths \ {r.target} : mounts'[q] = mounts[q]
    BY <1>1, <1>2, <1>3, StackTypes DEF CanBind, BindMount
  <1>5. Behind(r.staging)' = Behind(r.staging)
    <2>1. CASE r.staging = r.target
      <3>1. mounts'[r.target] # <<>>
        <4>1. mounts[r.target] \in Seq(Volumes \cup {"root"})
          BY <1>1, <1>2 DEF HostTypeOK
        <4>2. mounts'[r.target] = <<Behind(r.staging)>> \o mounts[r.target]
          BY <1>1, <1>2 DEF BindMount, HostTypeOK
        <4> QED
          BY <1>3, <4>1, <4>2
      <3> QED
        BY <1>1, <1>4, <2>1, <3>1 DEF Shows, Behind
    <2>2. CASE r.staging # r.target
      BY <1>1, <1>2, <1>4, <2>2 DEF Behind
    <2> QED
      BY <2>1, <2>2
  <1>6. "mirrored" \in NodeFacts(c)'
    BY <1>1, <1>4, <1>5 DEF NodeFacts, NodeFactNames
  <1>7. NodeOpen(c) /\ nreq[c].rpc = "NodePublishVolume"
    BY <1>1 DEF NodeOpen, NodeOpened, PublishSteps, NodePcOK
  <1>8. NodePromised(c)'
    BY <1>1, <1>6, <1>7 DEF NodePromised
  <1> QED
    BY <1>4, <1>8, SameMethodGoesOn DEF NodeOpened, PublishSteps

LEMMA StageKeeps ==
    ASSUME NodeIInv, NEW c \in NodeCalls,
           \/ VerifyDevicePath(c) \/ StageCheck(c) \/ StageMkdir(c) \/ Fsck(c) \/ StageMount(c)
           \/ getDiskFormat(c) \/ Mkfs(c) \/ StageRemount(c)
    PROVE  NodeKept(c) /\ NodeObserve
  <1>0. NodeObserve
    BY DEF VerifyDevicePath, StageCheck, StageMkdir, Fsck, StageMount, getDiskFormat, Mkfs,
           StageRemount, Looks
  <1>1. /\ HostTypeOK /\ NodeControlTypeOK /\ NodeHistoryTypeOK /\ NodeCallOK(c)
        /\ nreq' = nreq /\ nsaw[c] \subseteq nsaw'[c]
        /\ NodeOpen(c) \/ NodeOpen(c)' => nsaw'[c] = nsaw[c] \cup NodeFacts(c)'
    BY <1>0, NodeFrame
  <1>2. /\ nreq[c].staging \in Paths /\ nreq[c].target \in Paths
        /\ nreq[c].volume \in Volumes /\ nreq[c].fstype \in FsTypes
    BY <1>1, NodeRequestFields
  <1>3. UNCHANGED host => HostTypeOK'
    BY <1>1, HostUnchangedTypes
  <1>4. CASE VerifyDevicePath(c)
    BY <1>0, <1>3, <1>4, SameMethodGoesOn, FailureKeeps
       DEF VerifyDevicePath, Looks, NodeOpened, StageSteps, NodeCodes
  <1>5. CASE StageCheck(c)
    BY <1>0, <1>3, <1>5, SameMethodGoesOn, FailureKeeps
       DEF StageCheck, OnlyFileSystems, Looks, NodeOpened, StageSteps, NodeCodes
  <1>6. CASE StageMkdir(c)
    <2>1. MkdirAll(nreq[c].staging) => HostTypeOK'
      BY <1>1, <1>2, MkdirTypes
    <2> QED
      BY <1>0, <1>3, <1>6, <2>1, SameMethodGoesOn, FailureKeeps
         DEF StageMkdir, OnlyFileSystems, NodeOpened, StageSteps, NodeCodes
  <1>7. CASE Fsck(c)
    BY <1>0, <1>3, <1>7, SameMethodGoesOn, FailureKeeps
       DEF Fsck, Looks, NodeOpened, StageSteps, NodeCodes
  <1>8. CASE StageMount(c)
    <2>1. CASE NodeGoto(c, "lsblk") /\ UNCHANGED host
      BY <1>0, <1>3, <1>8, <2>1, SameMethodGoesOn DEF StageMount, NodeOpened, StageSteps
    <2>2. CASE CanMount(nreq[c]) /\ MountDevice(nreq[c]) /\ NodeGoto(c, "return")
      BY <1>0, <1>8, <2>2, StagingKeeps DEF StageMount
    <2> QED
      BY <1>0, <1>8, <2>1, <2>2 DEF StageMount
  <1>9. CASE getDiskFormat(c)
    <2>1. CASE content[nreq[c].volume] = "blank" /\ NodeGoto(c, "mkfs")
      <3>1. "blank" \in nsaw'[c]
        BY <1>1, <1>9, <2>1 DEF getDiskFormat, Looks, host, NodeFacts, NodeFactNames,
                                NodeOpen, NodeOpened, StageSteps
      <3> QED
        BY <1>0, <1>3, <1>9, <2>1, <3>1, SameMethodGoesOn
           DEF getDiskFormat, Looks, NodeOpened, StageSteps
    <2>2. CASE NodeAnswer(c, "Internal")
      BY <1>0, <1>3, <1>9, <2>2, FailureKeeps DEF getDiskFormat, Looks, NodeCodes
    <2> QED
      BY <1>9, <2>1, <2>2 DEF getDiskFormat
  <1>10. CASE Mkfs(c)
    <2>1. content' = [content EXCEPT ![nreq[c].volume] = nreq[c].fstype]
              /\ UNCHANGED <<device, dirs, mounts>> => HostTypeOK'
      BY <1>1, <1>2 DEF HostTypeOK, Contents
    <2> QED
      BY <1>0, <1>3, <1>10, <2>1, SameMethodGoesOn, FailureKeeps
         DEF Mkfs, NodeOpened, StageSteps, NodeCodes
  <1>11. CASE StageRemount(c)
    BY <1>0, <1>3, <1>11, StagingKeeps, FailureKeeps DEF StageRemount, NodeCodes
  <1> QED
    BY <1>0, <1>4, <1>5, <1>6, <1>7, <1>8, <1>9, <1>10, <1>11

LEMMA PublishKeeps ==
    ASSUME NodeIInv, NEW c \in NodeCalls,
           \/ TargetCheck(c) \/ TargetMkdir(c) \/ TargetBind(c) \/ CleanCheck(c)
           \/ CleanUmount(c) \/ CleanRecheck(c) \/ TargetRemove(c)
    PROVE  NodeKept(c) /\ NodeObserve
  <1>0. NodeObserve
    BY DEF TargetCheck, TargetMkdir, TargetBind, CleanCheck, CleanUmount, CleanRecheck,
           TargetRemove, Looks
  <1>1. HostTypeOK /\ NodeControlTypeOK /\ NodeHistoryTypeOK
    BY <1>0, NodeFrame
  <1>2. nreq[c].target \in Paths
    BY <1>1, NodeRequestFields
  <1>3. UNCHANGED host => HostTypeOK'
    BY <1>1, HostUnchangedTypes
  <1>4. CASE TargetCheck(c)
    BY <1>0, <1>3, <1>4, SameMethodGoesOn, FailureKeeps
       DEF TargetCheck, Looks, NodeOpened, PublishSteps, NodeCodes
  <1>5. CASE TargetMkdir(c)
    <2>1. MkdirAll(nreq[c].target) => HostTypeOK'
      BY <1>1, <1>2, MkdirTypes
    <2> QED
      BY <1>0, <1>3, <1>5, <2>1, SameMethodGoesOn, FailureKeeps
         DEF TargetMkdir, NodeOpened, PublishSteps, NodeCodes
  <1>6. CASE TargetBind(c)
    <2>1. CASE NodeGoto(c, "cleanCheck") /\ UNCHANGED host
      BY <1>0, <1>3, <1>6, <2>1, SameMethodGoesOn DEF TargetBind, NodeOpened, PublishSteps
    <2> QED
      BY <1>0, <1>6, <2>1, BindingKeeps DEF TargetBind
  <1>7. CASE CleanCheck(c)
    BY <1>0, <1>3, <1>7, SameMethodGoesOn, FailureKeeps
       DEF CleanCheck, Looks, NodeOpened, PublishSteps, NodeCodes
  <1>8. CASE CleanUmount(c)
    <2>1. Umount(nreq[c].target) => HostTypeOK'
      BY <1>1, <1>2, UmountTypes
    <2> QED
      BY <1>0, <1>3, <1>8, <2>1, SameMethodGoesOn, FailureKeeps
         DEF CleanUmount, NodeOpened, PublishSteps, NodeCodes
  <1>9. CASE CleanRecheck(c)
    BY <1>0, <1>3, <1>9, SameMethodGoesOn, FailureKeeps
       DEF CleanRecheck, Looks, NodeOpened, PublishSteps, NodeCodes
  <1>10. CASE TargetRemove(c)
    <2>1. HostTypeOK'
      BY <1>1, <1>2, <1>3, <1>10 DEF TargetRemove, HostTypeOK
    <2> QED
      BY <1>0, <1>10, <2>1, FailureKeeps DEF TargetRemove, NodeCodes
  <1> QED
    BY <1>0, <1>4, <1>5, <1>6, <1>7, <1>8, <1>9, <1>10

LEMMA UnmountKeeps ==
    ASSUME NodeIInv, NEW c \in NodeCalls, UnmountVolume(c)
    PROVE  NodeKept(c) /\ NodeObserve
  <1>0. NodeObserve /\ npc[c] = "umount"
    BY DEF UnmountVolume
  <1>1. /\ HostTypeOK /\ NodeControlTypeOK /\ NodeHistoryTypeOK /\ NodePcOK(c) /\ nreq' = nreq
    BY <1>0, NodeFrame DEF NodeCallOK
  <1>2. UnmountPath(c) \in Paths
    BY <1>1, NodeRequestFields DEF UnmountPath
  <1>3. UNCHANGED host \/ Umount(UnmountPath(c)) => HostTypeOK'
    BY <1>1, <1>2, HostUnchangedTypes, UmountTypes
  <1>4. NodePromised(c)'
    BY <1>0, <1>1 DEF NodePromised, NodePcOK
  <1> QED
    BY <1>0, <1>3, <1>4, SameMethodGoesOn, FailureKeeps DEF UnmountVolume, NodeOpened, NodeCodes

LEMMA ReturnKeeps ==
    ASSUME NodeIInv, NEW c \in NodeCalls, Return(c)
    PROVE  NodeKept(c) /\ NodeObserve
  <1>1. NodeObserve /\ npc[c] = "return" /\ UNCHANGED host /\ NodeAnswer(c, "OK")
    BY DEF Return, Looks
  <1>2. HostTypeOK' /\ NodeCallOK(c) /\ nreq' = nreq /\ nsaw[c] \subseteq nsaw'[c]
    BY <1>1, NodeFrame, HostUnchangedTypes
  <1>3. NodePromised(c)'
    BY <1>1, <1>2 DEF NodeCallOK, NodeEvidence, NodePromised
  <1> QED
    BY <1>1, <1>2, <1>3, NodeAnswered DEF NodeCodes
-----------------------------------------------------------------------------
(* The environment *)

\* A lost call has no answer, and a call without one promises nothing.
LEMMA LosingKeeps ==
    ASSUME NodeIInv, NodeObserve, LoseCalls, HostTypeOK'
    PROVE  NodeIInv'
  <1>1. NodeControlTypeOK /\ NodeHistoryTypeOK /\ \A e \in NodeCalls : NodeCallOK(e)
    BY NodeTypeOKParts DEF NodeIInv
  <1>2. NodeHistoryTypeOK' /\ nreq' = nreq /\ \A e \in NodeCalls : nsaw[e] \subseteq nsaw'[e]
    BY <1>1, NodeObserveTypes DEF NodeObserve
  <1>3. NodeControlTypeOK'
    BY <1>1 DEF NodeControlTypeOK, LoseCalls, NodeCodes, NodeOpen, NodeOpened, StageSteps,
                PublishSteps
  <1>4. ASSUME NEW c \in NodeCalls PROVE NodeCallOK(c)'
    <2>1. CASE NodeOpen(c)
      <3>1. npc'[c] = "done" /\ nres'[c] = "NoAnswer"
        BY <2>1 DEF LoseCalls
      <3> QED
        BY <3>1 DEF NodeCallOK, NodePcOK, NodeEvidence, StageSteps, PublishSteps
    <2>2. CASE ~NodeOpen(c)
      BY <1>1, <1>2, <2>2, NodeCallIsLocal DEF LoseCalls
    <2> QED
      BY <2>1, <2>2
  <1>5. NodeTypeOK'
    BY <1>2, <1>3 DEF NodeTypeOK, HostTypeOK, NodeControlTypeOK, NodeHistoryTypeOK
  <1> QED
    BY <1>4, <1>5 DEF NodeIInv

LEMMA RebootKeeps ==
    ASSUME NodeIInv, NodeReboot
    PROVE  NodeIInv'
  <1>1. HostTypeOK
    BY NodeTypeOKParts DEF NodeIInv
  <1>2. HostTypeOK'
    BY <1>1 DEF NodeReboot, NothingMounted, HostTypeOK
  <1> QED
    BY <1>2, LosingKeeps DEF NodeReboot

\* A step of the host in which no handler moves.
LEMMA NobodyMoves ==
    ASSUME NodeIInv, NodeObserve, HostTypeOK', UNCHANGED <<npc, nres>>
    PROVE  NodeIInv'
  <1>1. NodeControlTypeOK /\ NodeHistoryTypeOK /\ \A e \in NodeCalls : NodeCallOK(e)
    BY NodeTypeOKParts DEF NodeIInv
  <1>2. NodeHistoryTypeOK' /\ nreq' = nreq /\ \A e \in NodeCalls : nsaw[e] \subseteq nsaw'[e]
    BY <1>1, NodeObserveTypes DEF NodeObserve
  <1>3. \A c \in NodeCalls : NodeCallOK(c)'
    BY <1>1, <1>2, NodeCallIsLocal
  <1>4. NodeTypeOK'
    BY <1>1, <1>2 DEF NodeTypeOK, HostTypeOK, NodeControlTypeOK, NodeHistoryTypeOK
  <1> QED
    BY <1>3, <1>4 DEF NodeIInv

LEMMA DevicesKeep ==
    ASSUME NodeIInv, DeviceChanges
    PROVE  NodeIInv'
  <1>1. HostTypeOK
    BY NodeTypeOKParts DEF NodeIInv
  <1>2. device' \in [Volumes -> BOOLEAN]
    BY <1>1 DEF DeviceChanges, DeviceComes, DeviceGoes, HostTypeOK
  <1>3. HostTypeOK'
    BY <1>1, <1>2 DEF DeviceChanges, HostTypeOK
  <1> QED
    BY <1>3, NobodyMoves DEF DeviceChanges

LEMMA NodeStutterKeeps ==
    ASSUME NodeIInv, UNCHANGED nodeVars
    PROVE  NodeIInv'
  BY DEF nodeVars, NodeIInv, NodeTypeOK, NodeCallOK, NodePcOK, NodeEvidence, NodePromised
-----------------------------------------------------------------------------
(* The invariant *)

LEMMA NodeInitHolds == NodeInit => NodeIInv
  <1> SUFFICES ASSUME NodeInit PROVE NodeIInv
    OBVIOUS
  <1>1. mounts = [p \in Paths |-> <<>>] /\ <<>> \in Seq(Volumes \cup {"root"})
    BY DEF NodeInit, NothingMounted
  <1>2. HostTypeOK
    BY <1>1, InitialContentsAssumption DEF NodeInit, HostTypeOK
  <1>3. NodeControlTypeOK /\ NodeHistoryTypeOK
    BY DEF NodeInit, NodeControlTypeOK, NodeHistoryTypeOK, NodeFactNames
  <1>4. \A c \in NodeCalls : NodeCallOK(c)
    BY DEF NodeInit, NodeCallOK, NodePcOK, NodeEvidence, StageSteps, PublishSteps
  <1> QED
    BY <1>2, <1>3, <1>4, NodeTypeOKParts DEF NodeIInv

LEMMA NodeStepKeeps == NodeIInv /\ [NodeNext]_nodeVars => NodeIInv'
  <1> SUFFICES ASSUME NodeIInv, [NodeNext]_nodeVars PROVE NodeIInv'
    OBVIOUS
  <1>1. ASSUME NEW c \in NodeCalls, NodeInvoke(c) PROVE NodeIInv'
    BY <1>1, NodeInvokeKeeps, NodeOthersKeep
  <1>2. ASSUME NEW c \in NodeCalls, NodeServe(c) PROVE NodeIInv'
    <2>1. NodeKept(c) /\ NodeObserve
      BY <1>2, StageKeeps, PublishKeeps, UnmountKeeps, ReturnKeeps DEF NodeServe
    <2> QED
      BY <2>1, NodeOthersKeep
  <1>3. CASE DriverCrash
    <2>1. HostTypeOK'
      BY <1>3, HostUnchangedTypes, NodeTypeOKParts DEF NodeIInv, DriverCrash, Looks
    <2> QED
      BY <1>3, <2>1, LosingKeeps DEF DriverCrash, Looks
  <1>4. CASE NodeReboot
    BY <1>4, RebootKeeps
  <1>5. CASE DeviceChanges
    BY <1>5, DevicesKeep
  <1>6. CASE NodeQuiescent \/ UNCHANGED nodeVars
    BY <1>6, NodeStutterKeeps DEF NodeQuiescent
  <1> QED
    BY <1>1, <1>2, <1>3, <1>4, <1>5, <1>6 DEF NodeNext

\* Every reachable state satisfies the inductive invariant.
LEMMA NodeInductive == NodeSpec => []NodeIInv
  BY NodeInitHolds, NodeStepKeeps, PTL DEF NodeSpec
-----------------------------------------------------------------------------
(* The results *)

\* Every variable keeps its type, only an existing directory has mounts on
\* it, and a call has an answer exactly when its handler is over: in
\* particular a handler never answers twice.
THEOREM NodeTypeCorrect == NodeSpec => []NodeTypeOK
  <1>1. NodeIInv => NodeTypeOK
    BY DEF NodeIInv
  <1> QED
    BY <1>1, NodeInductive, PTL

\* For any number of concurrent calls, crashes and reboots, a stage answered
\* OK had its volume mounted with the right file system at some moment of the
\* call, and a publish answered OK had its target show the staging path.
THEOREM NodeEveryOkIsEarned == NodeSpec => []NodeOkIsEarned
  <1>1. NodeIInv => NodeOkIsEarned
    BY DEF NodeIInv, NodeCallOK, NodeEvidence, NodeOkIsEarned
  <1> QED
    BY <1>1, NodeInductive, PTL

\* However the calls interleave, mkfs is run by a call only on a disk that
\* was blank at some moment of that call.
THEOREM NodeOldDataSurvives == NodeSpec => OldDataIsSafe
  <1>1. NodeIInv => \A c \in NodeCalls : Formats(c) => "blank" \in nsaw[c]
    BY DEF NodeIInv, NodeCallOK, NodeEvidence, Formats
  <1>2. NodeIInv /\ [NodeNext]_nodeVars
            => [\A c \in NodeCalls : Formats(c) => "blank" \in nsaw[c]]_nodeVars
    BY <1>1
  <1> QED
    BY <1>2, NodeInductive, PTL DEF NodeSpec, OldDataIsSafe
-----------------------------------------------------------------------------
(* Termination, as far as it is a matter of single steps *)

\* The steps of its own that a call takes at most from here on.
NodeStepsLeft(at) ==
    CASE at = "idle"                               -> 10
      [] at = "device"                             -> 9
      [] at = "check"                              -> 8
      [] at \in {"stageDir", "target"}             -> 7
      [] at \in {"fsck", "mkdir"}                  -> 6
      [] at \in {"mount", "bind"}                  -> 5
      [] at \in {"lsblk", "cleanCheck"}            -> 4
      [] at \in {"mkfs", "cleanUmount"}            -> 3
      [] at \in {"remount", "cleanRecheck", "umount"} -> 2
      [] at \in {"return", "remove"}               -> 1
      [] OTHER                                     -> 0

\* Nothing happens to a call, or it comes nearer to its end.
NodeNearer(c) ==
    \/ npc'[c] = npc[c] /\ nres'[c] = nres[c]
    \/ NodeStepsLeft(npc'[c]) < NodeStepsLeft(npc[c])

LEMMA NodeGoingNearer ==
    ASSUME NodeIInv, NEW c \in NodeCalls, NEW next, NodeGoto(c, next),
           NodeStepsLeft(next) < NodeStepsLeft(npc[c])
    PROVE  NodeNearer(c)
  BY DEF NodeIInv, NodeTypeOK, NodeGoto, NodeNearer

LEMMA NodeAnswerIsNearer ==
    ASSUME NodeIInv, NEW c \in NodeCalls, NEW code, NodeAnswer(c, code),
           npc[c] \in {"idle"} \cup NodeOpened
    PROVE  NodeNearer(c)
  <1>1. npc'[c] = "done"
    BY DEF NodeIInv, NodeTypeOK, NodeAnswer
  <1>2. NodeStepsLeft("done") = 0
    BY DEF NodeStepsLeft
  <1>3. NodeStepsLeft(npc[c]) \in 1 .. 10
    BY DEF NodeStepsLeft, NodeOpened, StageSteps, PublishSteps
  <1> QED
    BY <1>1, <1>2, <1>3 DEF NodeNearer

LEMMA NodeEntryIsNearer ==
    ASSUME NodeIInv, NEW c \in NodeCalls, NodeInvoke(c)
    PROVE  NodeNearer(c)
  <1>1. npc[c] = "idle"
    BY DEF NodeInvoke, NodeStageVolume, NodeUnstageVolume, NodePublishVolume,
           NodeUnpublishVolume, NodeEnter
  <1>2. \/ \E code : NodeAnswer(c, code)
        \/ \E next \in {"device", "umount", "target"} : NodeGoto(c, next)
    BY DEF NodeInvoke, NodeStageVolume, NodeUnstageVolume, NodePublishVolume,
           NodeUnpublishVolume, NodeEnter
  <1>3. \A next \in {"device", "umount", "target"} : NodeStepsLeft(next) < NodeStepsLeft("idle")
    BY DEF NodeStepsLeft
  <1> QED
    BY <1>1, <1>2, <1>3, NodeAnswerIsNearer, NodeGoingNearer

\* A handler runs each of its commands once, but for the mount before and
\* after mkfs.
LEMMA NodeServeIsNearer ==
    ASSUME NodeIInv, NEW c \in NodeCalls, NodeServe(c)
    PROVE  NodeNearer(c)
  <1>1. CASE \/ VerifyDevicePath(c) \/ StageCheck(c) \/ StageMkdir(c) \/ Fsck(c) \/ StageMount(c)
             \/ getDiskFormat(c) \/ Mkfs(c) \/ StageRemount(c)
    <2>1. npc[c] \in NodeOpened
      BY <1>1 DEF VerifyDevicePath, StageCheck, StageMkdir, OnlyFileSystems, Fsck, StageMount,
                  getDiskFormat, Mkfs, StageRemount, NodeOpened, StageSteps
    <2>2. \/ \E code : NodeAnswer(c, code)
          \/ npc[c] = "device" /\ NodeGoto(c, "check")
          \/ npc[c] = "check" /\ (NodeGoto(c, "stageDir") \/ NodeGoto(c, "fsck"))
          \/ npc[c] = "stageDir" /\ NodeGoto(c, "fsck")
          \/ npc[c] = "fsck" /\ NodeGoto(c, "mount")
          \/ npc[c] = "mount" /\ (NodeGoto(c, "return") \/ NodeGoto(c, "lsblk"))
          \/ npc[c] = "lsblk" /\ NodeGoto(c, "mkfs")
          \/ npc[c] = "mkfs" /\ NodeGoto(c, "remount")
          \/ npc[c] = "remount" /\ NodeGoto(c, "return")
      BY <1>1 DEF VerifyDevicePath, StageCheck, StageMkdir, OnlyFileSystems, Fsck, StageMount,
                  getDiskFormat, Mkfs, StageRemount
    <2>3. /\ NodeStepsLeft("check") < NodeStepsLeft("device")
          /\ NodeStepsLeft("stageDir") < NodeStepsLeft("check")
          /\ NodeStepsLeft("fsck") < NodeStepsLeft("check")
          /\ NodeStepsLeft("fsck") < NodeStepsLeft("stageDir")
          /\ NodeStepsLeft("mount") < NodeStepsLeft("fsck")
          /\ NodeStepsLeft("return") < NodeStepsLeft("mount")
          /\ NodeStepsLeft("lsblk") < NodeStepsLeft("mount")
          /\ NodeStepsLeft("mkfs") < NodeStepsLeft("lsblk")
          /\ NodeStepsLeft("remount") < NodeStepsLeft("mkfs")
          /\ NodeStepsLeft("return") < NodeStepsLeft("remount")
      BY DEF NodeStepsLeft
    <2> QED
      BY <2>1, <2>2, <2>3, NodeAnswerIsNearer, NodeGoingNearer
  <1>2. CASE \/ TargetCheck(c) \/ TargetMkdir(c) \/ TargetBind(c)
             \/ CleanCheck(c) \/ CleanUmount(c) \/ CleanRecheck(c) \/ TargetRemove(c)
    <2>1. npc[c] \in NodeOpened
      BY <1>2 DEF TargetCheck, TargetMkdir, TargetBind, CleanCheck, CleanUmount, CleanRecheck,
                  TargetRemove, NodeOpened, PublishSteps
    <2>2. \/ \E code : NodeAnswer(c, code)
          \/ npc[c] = "target" /\ NodeGoto(c, "mkdir")
          \/ npc[c] = "mkdir" /\ NodeGoto(c, "bind")
          \/ npc[c] = "bind" /\ (NodeGoto(c, "return") \/ NodeGoto(c, "cleanCheck"))
          \/ npc[c] = "cleanCheck" /\ (NodeGoto(c, "cleanUmount") \/ NodeGoto(c, "remove"))
          \/ npc[c] = "cleanUmount" /\ NodeGoto(c, "cleanRecheck")
          \/ npc[c] = "cleanRecheck" /\ NodeGoto(c, "remove")
      BY <1>2 DEF TargetCheck, TargetMkdir, TargetBind, CleanCheck, CleanUmount, CleanRecheck,
                  TargetRemove
    <2>3. /\ NodeStepsLeft("mkdir") < NodeStepsLeft("target")
          /\ NodeStepsLeft("bind") < NodeStepsLeft("mkdir")
          /\ NodeStepsLeft("return") < NodeStepsLeft("bind")
          /\ NodeStepsLeft("cleanCheck") < NodeStepsLeft("bind")
          /\ NodeStepsLeft("cleanUmount") < NodeStepsLeft("cleanCheck")
          /\ NodeStepsLeft("remove") < NodeStepsLeft("cleanCheck")
          /\ NodeStepsLeft("cleanRecheck") < NodeStepsLeft("cleanUmount")
          /\ NodeStepsLeft("remove") < NodeStepsLeft("cleanRecheck")
      BY DEF NodeStepsLeft
    <2> QED
      BY <2>1, <2>2, <2>3, NodeAnswerIsNearer, NodeGoingNearer
  <1>3. CASE UnmountVolume(c) \/ Return(c)
    <2>1. npc[c] \in NodeOpened
      BY <1>3 DEF UnmountVolume, Return, NodeOpened
    <2>2. \/ \E code : NodeAnswer(c, code)
          \/ npc[c] = "umount" /\ NodeGoto(c, "return")
      BY <1>3 DEF UnmountVolume, Return
    <2>3. NodeStepsLeft("return") < NodeStepsLeft("umount")
      BY DEF NodeStepsLeft
    <2> QED
      BY <2>1, <2>2, <2>3, NodeAnswerIsNearer, NodeGoingNearer
  <1> QED
    BY <1>1, <1>2, <1>3 DEF NodeServe

LEMMA LostIsNearer ==
    ASSUME LoseCalls, NEW c \in NodeCalls
    PROVE  NodeNearer(c)
  <1>1. CASE NodeOpen(c)
    <2>1. npc'[c] = "done" /\ npc[c] \in NodeOpened
      BY <1>1 DEF LoseCalls, NodeOpen
    <2>2. \A at \in NodeOpened : NodeStepsLeft("done") < NodeStepsLeft(at)
      BY DEF NodeStepsLeft, NodeOpened, StageSteps, PublishSteps
    <2> QED
      BY <2>1, <2>2 DEF NodeNearer
  <1>2. CASE ~NodeOpen(c)
    BY <1>2 DEF LoseCalls, NodeNearer
  <1> QED
    BY <1>1, <1>2

\* A handler takes ten steps at most, and an answer that was given stays:
\* whatever the host and the other handlers do, each step leaves a call as it
\* is or brings it nearer to its end; no handler waits for another.
\* (node.go 35-233, mounter.go 126-190)
THEOREM NodeCallsOnlyMoveOn == NodeSpec => [][\A c \in NodeCalls : NodeNearer(c)]_nodeVars
  <1>1. NodeIInv /\ [NodeNext]_nodeVars => [\A c \in NodeCalls : NodeNearer(c)]_nodeVars
    <2> SUFFICES ASSUME NodeIInv, NodeNext, NEW c \in NodeCalls PROVE NodeNearer(c)
      OBVIOUS
    <2>1. ASSUME NEW e \in NodeCalls, NodeInvoke(e) \/ NodeServe(e) PROVE NodeNearer(c)
      <3>1. CASE e = c
        BY <2>1, <3>1, NodeEntryIsNearer, NodeServeIsNearer
      <3>2. CASE e # c
        <4>1. NodeOnlyMoves(e)
          BY <2>1, NodeInvokeKeeps, StageKeeps, PublishKeeps, UnmountKeeps, ReturnKeeps
             DEF NodeServe, NodeKept
        <4> QED
          BY <3>2, <4>1 DEF NodeOnlyMoves, NodeNearer
      <3> QED
        BY <3>1, <3>2
    <2>2. CASE DriverCrash \/ NodeReboot
      BY <2>2, LostIsNearer DEF DriverCrash, NodeReboot
    <2>3. CASE DeviceChanges \/ NodeQuiescent
      BY <2>3 DEF DeviceChanges, NodeQuiescent, NodeNearer, nodeVars
    <2> QED
      BY <2>1, <2>2, <2>3 DEF NodeNext
  <1> QED
    BY <1>1, NodeInductive, PTL DEF NodeSpec
=============================================================================
