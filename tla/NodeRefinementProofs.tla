------------------------ MODULE NodeRefinementProofs ------------------------
(***************************************************************************)
(* NodeServer implements MountService, for any volumes, paths and calls.   *)
(*                                                                         *)
(* Beyond the invariant of NodeProofs the refinement needs that a stage    *)
(* that has come as far as its mount is for a file system, and that an     *)
(* open call has seen its disk blank if it is blank now, so that a step    *)
(* which changes nothing kubelet sees adds nothing to the history either.  *)
(***************************************************************************)
EXTENDS NodeProofs, NodeRefinement

\* Block volumes are refused before the first of these steps.
ForFileSystem(c) ==
    npc[c] \in {"fsck", "mount", "lsblk", "mkfs", "remount"} => nreq[c].access = "mount"

BlankIsSeen(c) == NodeOpen(c) /\ content[nreq[c].volume] = "blank" => "blank" \in nsaw[c]

NRInv == NodeIInv /\ \A c \in NodeCalls : ForFileSystem(c) /\ BlankIsSeen(c)
-----------------------------------------------------------------------------
(* History *)

LEMMA NodeWatchRefines ==
    ASSUME NodeObserve
    PROVE  MS!Watch
  <1>1. /\ nreq' = nreq
        /\ nsaw' = [c \in NodeCalls |->
                      IF NodeOpen(c) \/ NodeOpen(c)' THEN nsaw[c] \cup NodeFacts(c)' ELSE nsaw[c]]
    BY DEF NodeObserve
  <1>2. ASSUME NEW c \in NodeCalls
        PROVE  /\ "open" \in {NodeStageOf(c), NodeStageOf(c)'} <=> NodeOpen(c) \/ NodeOpen(c)'
               /\ "blank" \in NodeFacts(c)' <=> content'[nreq[c].volume] = "blank"
    <2>1. "open" \in {NodeStageOf(c), NodeStageOf(c)'} <=> NodeOpen(c) \/ NodeOpen(c)'
      BY DEF NodeStageOf, NodeOpen, NodeOpened, StageSteps, PublishSteps
    <2>2. "blank" \in NodeFacts(c)' <=> content'[nreq[c].volume] = "blank"
      BY <1>1 DEF NodeFacts, NodeFactNames
    <2> QED
      BY <2>1, <2>2
  <1> HIDE DEF NodeFacts
  <1>3. ASSUME NEW c \in NodeCalls
        PROVE  "blank" \in nsaw'[c] <=>
                 \/ "blank" \in nsaw[c]
                 \/ /\ "open" \in {NodeStageOf(c), NodeStageOf(c)'}
                    /\ content'[nreq[c].volume] = "blank"
    BY <1>1, <1>2
  <1> QED
    BY <1>1, <1>3 DEF MS!Watch
-----------------------------------------------------------------------------
(* What kubelet sees of a handler's step *)

\* The calls other than c look the same after a step of c.
LEMMA OtherCallsLookTheSame ==
    ASSUME NodeControlTypeOK, NEW c \in NodeCalls, NodeOnlyMoves(c)
    PROVE  \A e \in NodeCalls \ {c} : /\ NodeStageOf(e)' = NodeStageOf(e)
                                      /\ NodeEffectOf(e)' = NodeEffectOf(e)
  BY DEF NodeOnlyMoves, NodeStageOf, NodeEffectOf, NodeOpen

\* A handler that goes on keeps its call open.
LEMMA GoingOn ==
    ASSUME NRInv, NEW c \in NodeCalls, npc[c] # "done", NEW next \in NodeOpened,
           NodeGoto(c, next)
    PROVE  /\ npc'[c] = next /\ nres' = nres /\ nres[c] = "None"
           /\ NodeOnlyMoves(c) /\ NodeControlTypeOK
           /\ NodeStageOf(c)' = "open"
           /\ \A e \in NodeCalls \ {c} : /\ NodeStageOf(e)' = NodeStageOf(e)
                                         /\ NodeEffectOf(e)' = NodeEffectOf(e)
  <1>1. NodeControlTypeOK
    BY NodeTypeOKParts DEF NRInv, NodeIInv
  <1>2. npc'[c] = next /\ nres' = nres /\ NodeOnlyMoves(c) /\ nres[c] = "None"
    BY <1>1 DEF NodeGoto, NodeControlTypeOK, NodeOnlyMoves
  <1>3. NodeStageOf(c)' = "open"
    BY <1>2 DEF NodeStageOf, NodeOpen, NodeOpened, StageSteps, PublishSteps
  <1> QED
    BY <1>1, <1>2, <1>3, OtherCallsLookTheSame

\* A step that kubelet does not see.
LEMMA Unseen ==
    ASSUME NRInv, NEW c \in NodeCalls, NodeOpen(c), NEW next \in NodeOpened, NodeGoto(c, next),
           NodeEffectOf(c)' = NodeEffectOf(c), NodeObserve,
           device' = device, content' = content, mounts' = mounts
    PROVE  UNCHANGED MS!service
  <1>1. npc[c] # "done" /\ NodeStageOf(c) = "open"
    BY DEF NodeStageOf, NodeOpen, NodeOpened, StageSteps, PublishSteps
  <1>2. /\ nres' = nres
        /\ \A e \in NodeCalls : /\ NodeStageOf(e)' = NodeStageOf(e)
                                /\ NodeEffectOf(e)' = NodeEffectOf(e)
    BY <1>1, GoingOn
  <1>3. nreq' = nreq
    BY DEF NodeObserve
  <1>4. ASSUME NEW e \in NodeCalls PROVE "blank" \in nsaw'[e] <=> "blank" \in nsaw[e]
    <2>1. NodeOpen(e)' <=> NodeOpen(e)
      BY <1>2 DEF NodeStageOf, NodeOpen, NodeOpened, StageSteps, PublishSteps
    <2>2. "blank" \in NodeFacts(e)' <=> content[nreq[e].volume] = "blank"
      BY <1>3 DEF NodeFacts, NodeFactNames
    <2>3. nsaw'[e] = IF NodeOpen(e) THEN nsaw[e] \cup NodeFacts(e)' ELSE nsaw[e]
      BY <2>1 DEF NodeObserve
    <2>4. BlankIsSeen(e)
      BY DEF NRInv
    <2> QED
      BY <2>2, <2>3, <2>4 DEF BlankIsSeen
  <1> QED
    BY <1>2, <1>3, <1>4 DEF MS!service

\* A step that has an effect.
LEMMA Seen ==
    ASSUME NRInv, NEW c \in NodeCalls, NodeOpen(c), NEW next \in NodeOpened, NodeGoto(c, next),
           NEW effect, NodeEffectOf(c)' = effect, NodeObserve, device' = device
    PROVE  MS!Does(c, effect)
  <1>1. npc[c] # "done" /\ NodeStageOf(c) = "open"
    BY DEF NodeStageOf, NodeOpen, NodeOpened, StageSteps, PublishSteps
  <1>2. /\ nres' = nres /\ NodeStageOf(c)' = "open"
        /\ \A e \in NodeCalls \ {c} : /\ NodeStageOf(e)' = NodeStageOf(e)
                                      /\ NodeEffectOf(e)' = NodeEffectOf(e)
    BY <1>1, GoingOn
  <1> QED
    BY <1>1, <1>2, NodeWatchRefines DEF MS!Does

\* An answer closes the call, and settles what it has done.
LEMMA Closing ==
    ASSUME NRInv, NEW c \in NodeCalls, NEW code \in NodeCodes, NodeAnswer(c, code), NodeObserve,
           device' = device, content' = content, mounts' = mounts
    PROVE  MS!Close(c, code, IF code = "OK" THEN "done" ELSE "spent")
  <1>1. NodeControlTypeOK
    BY NodeTypeOKParts DEF NRInv, NodeIInv
  <1>2. npc'[c] = "done" /\ nres' = [nres EXCEPT ![c] = code] /\ nres'[c] = code
        /\ NodeOnlyMoves(c)
    BY <1>1 DEF NodeAnswer, NodeControlTypeOK, NodeOnlyMoves
  <1>3. NodeStageOf(c)' = "closed"
    BY <1>2 DEF NodeStageOf, NodeOpen, NodeOpened, StageSteps, PublishSteps
  <1>4. NodeEffectOf(c)' = IF code = "OK" THEN "done" ELSE "spent"
    BY <1>2 DEF NodeEffectOf
  <1> QED
    BY <1>1, <1>2, <1>3, <1>4, OtherCallsLookTheSame, NodeWatchRefines DEF MS!Close, MS!node
-----------------------------------------------------------------------------
(* The steps *)

LEMMA NodeInitRefines == NodeInit => MS!MInit
  <1> SUFFICES ASSUME NodeInit PROVE MS!MInit
    OBVIOUS
  <1>1. \A c \in NodeCalls : NodeStageOf(c) = "idle" /\ NodeEffectOf(c) = "possible"
    BY DEF NodeInit, NodeStageOf, NodeEffectOf
  <1>2. \A c \in NodeCalls : "blank" \notin nsaw[c]
    BY DEF NodeInit
  <1> QED
    BY <1>1, <1>2 DEF NodeInit, NothingMounted, MS!MInit

LEMMA NodeInvokeRefines ==
    ASSUME NRInv, NEW c \in NodeCalls, NodeInvoke(c)
    PROVE  MS!Begin(c) \/ MS!TurnAway(c)
  <1>1. /\ npc[c] = "idle" /\ NodeObserve /\ UNCHANGED host
    BY DEF NodeInvoke, NodeStageVolume, NodeUnstageVolume, NodePublishVolume,
           NodeUnpublishVolume, NodeEnter, Looks
  <1>2. NodeStageOf(c) = "idle" /\ NodeEffectOf(c) = "possible"
    BY <1>1 DEF NodeStageOf, NodeEffectOf
  <1>3. \/ \E code \in MS!ArgumentsEarn(nreq[c]) : NodeAnswer(c, code)
        \/ MS!ArgumentsEarn(nreq[c]) = {} /\ \E next \in {"device", "target", "umount"} :
                                                 NodeGoto(c, next)
    BY DEF NodeInvoke, NodeStageVolume, NodeUnstageVolume, NodePublishVolume,
           NodeUnpublishVolume, NodeEnter, MS!ArgumentsEarn, MS!IsStage
  <1>4. ASSUME NEW code \in MS!ArgumentsEarn(nreq[c]), NodeAnswer(c, code)
        PROVE  MS!TurnAway(c)
    <2>1. code \in NodeCodes /\ code # "OK"
      BY <1>4 DEF MS!ArgumentsEarn, NodeCodes
    <2>2. MS!Close(c, code, "spent")
      BY <1>1, <1>4, <2>1, Closing DEF host
    <2> QED
      BY <1>2, <1>4, <2>2 DEF MS!TurnAway
  <1>5. ASSUME MS!ArgumentsEarn(nreq[c]) = {}, NEW next \in {"device", "target", "umount"},
               NodeGoto(c, next)
        PROVE  MS!Begin(c)
    <2>1. next \in NodeOpened /\ npc[c] # "done"
      BY <1>1 DEF NodeOpened, StageSteps, PublishSteps
    <2>2. /\ npc'[c] = next /\ nres' = nres /\ nres[c] = "None" /\ NodeStageOf(c)' = "open"
          /\ \A e \in NodeCalls \ {c} : /\ NodeStageOf(e)' = NodeStageOf(e)
                                        /\ NodeEffectOf(e)' = NodeEffectOf(e)
      BY <1>5, <2>1, GoingOn
    <2>3. NodeEffectOf(c)' = NodeEffectOf(c)
      BY <1>2, <2>2 DEF NodeEffectOf
    <2> QED
      BY <1>1, <1>2, <1>5, <2>2, <2>3, NodeWatchRefines DEF MS!Begin, MS!node, host
  <1> QED
    BY <1>3, <1>4, <1>5

\* A handler that fails says so: with Internal whatever it has got to, with
\* another code only if it has not touched anything.
LEMMA FailingRefines ==
    ASSUME NRInv, NEW c \in NodeCalls, NodeOpen(c), NEW code, NodeAnswer(c, code), NodeObserve,
           device' = device, content' = content, mounts' = mounts,
           \/ code = "Internal" /\ npc[c] # "return"
           \/ /\ code \in MS!Refusals(nreq[c]) /\ code \in NodeCodes \ {"OK"}
              /\ NodeEffectOf(c) = "possible"
    PROVE  MS!Fail(c) \/ MS!Refuse(c)
  <1>1. code \in NodeCodes \ {"OK"}
    BY DEF NodeCodes
  <1>2. MS!Close(c, code, "spent")
    BY <1>1, Closing
  <1>3. npc[c] # "done" /\ NodeStageOf(c) = "open"
    BY DEF NodeStageOf, NodeOpen, NodeOpened, StageSteps, PublishSteps
  <1>4. CASE code = "Internal" /\ npc[c] # "return"
    <2>1. NodeEffectOf(c) # "done"
      BY <1>3, <1>4 DEF NodeEffectOf
    <2> QED
      BY <1>2, <1>3, <1>4, <2>1 DEF MS!Fail
  <1>5. CASE code \in MS!Refusals(nreq[c]) /\ NodeEffectOf(c) = "possible"
    BY <1>2, <1>3, <1>5 DEF MS!Refuse
  <1> QED
    BY <1>4, <1>5

\* The steps that come before a call has had any effect.
EarlySteps ==
    {"device", "check", "stageDir", "fsck", "mount", "lsblk", "mkfs", "target", "mkdir", "bind",
     "cleanCheck", "cleanUmount", "umount"}

LEMMA EarlyIsPossible ==
    ASSUME NEW c \in NodeCalls
    PROVE  /\ npc[c] \in EarlySteps => NodeEffectOf(c) = "possible" /\ NodeOpen(c)
           /\ npc'[c] \in EarlySteps => NodeEffectOf(c)' = "possible"
           /\ npc[c] = "remount" => NodeEffectOf(c) = "formatted" /\ NodeOpen(c)
           /\ npc'[c] = "remount" => NodeEffectOf(c)' = "formatted"
           /\ npc[c] = "return" => NodeEffectOf(c) = "done" /\ NodeOpen(c)
           /\ npc'[c] = "return" => NodeEffectOf(c)' = "done"
           /\ npc[c] \in {"cleanRecheck", "remove"} => NodeEffectOf(c) = "spent" /\ NodeOpen(c)
           /\ npc'[c] \in {"cleanRecheck", "remove"} => NodeEffectOf(c)' = "spent"
           /\ EarlySteps \cup {"remount", "return", "cleanRecheck", "remove"} = NodeOpened
  BY DEF EarlySteps, NodeEffectOf, NodeOpen, NodeOpened, StageSteps, PublishSteps

\* One early step after another.
LEMMA EarlyUnseen ==
    ASSUME NRInv, NEW c \in NodeCalls, npc[c] \in EarlySteps, NEW next \in EarlySteps,
           NodeGoto(c, next), NodeObserve,
           device' = device, content' = content, mounts' = mounts
    PROVE  UNCHANGED MS!service
  <1>1. NodeEffectOf(c) = "possible" /\ NodeOpen(c) /\ next \in NodeOpened /\ npc[c] # "done"
    BY EarlyIsPossible DEF EarlySteps
  <1>2. npc'[c] = next
    BY <1>1, GoingOn
  <1>3. NodeEffectOf(c)' = NodeEffectOf(c)
    BY <1>1, <1>2, EarlyIsPossible
  <1> QED
    BY <1>1, <1>3, Unseen

LEMMA MountingRefines ==
    ASSUME NRInv, NEW c \in NodeCalls, npc[c] \in {"mount", "remount"},
           CanMount(nreq[c]), MountDevice(nreq[c]), NodeGoto(c, "return"), NodeObserve
    PROVE  MS!MountVolume(c)
  <1>1. /\ NodeOpen(c) /\ NodeEffectOf(c) \in {"possible", "formatted"}
        /\ "return" \in NodeOpened /\ npc[c] # "done"
    BY EarlyIsPossible DEF EarlySteps
  <1>2. NodeEffectOf(c)' = "done"
    BY <1>1, GoingOn, EarlyIsPossible
  <1>3. MS!Does(c, "done")
    BY <1>1, <1>2, Seen DEF MountDevice
  <1>4. nreq[c].rpc = "NodeStageVolume" /\ nreq[c].access = "mount"
    BY DEF NRInv, NodeIInv, NodeCallOK, NodePcOK, ForFileSystem, StageSteps
  <1>5. mounts[nreq[c].staging] = <<>> \/ Head(mounts[nreq[c].staging]) # nreq[c].volume
    BY DEF CanMount, Shows
  <1> QED
    BY <1>1, <1>3, <1>4, <1>5
       DEF MS!MountVolume, MS!IsStage, MS!PutOn, CanMount, MountDevice

LEMMA FormattingRefines ==
    ASSUME NRInv, NEW c \in NodeCalls, npc[c] = "mkfs", CanFormat(nreq[c]),
           content' = [content EXCEPT ![nreq[c].volume] = nreq[c].fstype],
           UNCHANGED <<device, dirs, mounts>>, NodeGoto(c, "remount"), NodeObserve
    PROVE  MS!Format(c)
  <1>1. /\ NodeOpen(c) /\ NodeEffectOf(c) = "possible"
        /\ "remount" \in NodeOpened /\ npc[c] # "done"
    BY EarlyIsPossible DEF EarlySteps
  <1>2. NodeEffectOf(c)' = "formatted"
    BY <1>1, GoingOn, EarlyIsPossible
  <1>3. MS!Does(c, "formatted")
    BY <1>1, <1>2, Seen
  <1>4. nreq[c].rpc = "NodeStageVolume" /\ nreq[c].access = "mount" /\ "blank" \in nsaw[c]
    BY DEF NRInv, NodeIInv, NodeCallOK, NodePcOK, NodeEvidence, ForFileSystem, StageSteps
  <1>5. device[nreq[c].volume] /\ ~MS!InUse(nreq[c].volume)
    BY DEF CanFormat, Mounted, MS!InUse
  <1> QED
    BY <1>1, <1>3, <1>4, <1>5 DEF MS!Format, MS!IsStage

LEMMA StageRefines ==
    ASSUME NRInv, NEW c \in NodeCalls,
           \/ VerifyDevicePath(c) \/ StageCheck(c) \/ StageMkdir(c) \/ Fsck(c) \/ StageMount(c)
           \/ getDiskFormat(c) \/ Mkfs(c) \/ StageRemount(c)
    PROVE  MS!MNext \/ UNCHANGED MS!service
  <1>1. /\ NodeObserve
        /\ npc[c] \in EarlySteps \cup {"remount"} /\ npc[c] \in StageSteps
    BY DEF VerifyDevicePath, StageCheck, StageMkdir, Fsck, StageMount, getDiskFormat, Mkfs,
           StageRemount, Looks, EarlySteps, StageSteps
  <1>2. NodeOpen(c) /\ nreq[c].rpc = "NodeStageVolume"
    BY <1>1, EarlyIsPossible DEF NRInv, NodeIInv, NodeCallOK, NodePcOK
  <1>3. ASSUME NodeAnswer(c, "Internal"), UNCHANGED host PROVE MS!MNext
    <2>1. MS!Fail(c) \/ MS!Refuse(c)
      BY <1>1, <1>2, <1>3, FailingRefines DEF host, StageSteps
    <2> QED
      BY <2>1 DEF MS!MNext
  <1>4. CASE VerifyDevicePath(c)
    BY <1>1, <1>3, <1>4, EarlyUnseen DEF VerifyDevicePath, Looks, host, EarlySteps
  <1>5. ASSUME npc[c] \in {"check", "stageDir"}, OnlyFileSystems(c),
               device' = device, content' = content, mounts' = mounts
        PROVE  MS!MNext \/ UNCHANGED MS!service
    <2>1. NodeEffectOf(c) = "possible" /\ npc[c] \in EarlySteps /\ "fsck" \in EarlySteps
      BY <1>5, EarlyIsPossible DEF EarlySteps
    <2>2. CASE NodeGoto(c, "fsck")
      BY <1>1, <1>5, <2>1, <2>2, EarlyUnseen
    <2>3. CASE nreq[c].access = "block" /\ NodeAnswer(c, "Unimplemented")
      <3>1. "Unimplemented" \in MS!Refusals(nreq[c]) /\ "Unimplemented" \in NodeCodes \ {"OK"}
        BY <1>2, <2>3 DEF MS!Refusals, MS!IsStage, NodeCodes
      <3>2. MS!Fail(c) \/ MS!Refuse(c)
        BY <1>1, <1>2, <1>5, <2>1, <2>3, <3>1, FailingRefines
      <3> QED
        BY <3>2 DEF MS!MNext
    <2> QED
      BY <1>5, <2>2, <2>3 DEF OnlyFileSystems
  <1>6. CASE StageCheck(c)
    <2>1. npc[c] = "check" /\ NodeEffectOf(c) = "possible" /\ UNCHANGED host
      BY <1>6, EarlyIsPossible DEF StageCheck, EarlySteps, Looks
    <2>2. CASE NodeAnswer(c, "Internal")
      BY <1>3, <2>1, <2>2
    <2>3. CASE /\ "mountPoint" \in IsLikelyNotMountPoint(nreq[c].staging)
               /\ NodeAnswer(c, "Unknown")
      <3>1. MS!ShowsVolume(nreq[c].staging)
        BY <2>3, VolumesAssumption DEF IsLikelyNotMountPoint, Shows, MS!ShowsVolume
      <3>2. "Unknown" \in MS!Refusals(nreq[c]) /\ "Unknown" \in NodeCodes \ {"OK"}
        BY <1>2, <3>1 DEF MS!Refusals, MS!IsStage, NodeCodes
      <3>3. MS!Fail(c) \/ MS!Refuse(c)
        BY <1>1, <1>2, <2>1, <2>3, <3>2, FailingRefines DEF host
      <3> QED
        BY <3>3 DEF MS!MNext
    <2>4. CASE NodeGoto(c, "stageDir")
      BY <1>1, <2>1, <2>4, EarlyUnseen DEF host, EarlySteps
    <2>5. CASE OnlyFileSystems(c)
      BY <1>5, <2>1, <2>5 DEF host
    <2> QED
      BY <1>6, <2>2, <2>3, <2>4, <2>5 DEF StageCheck
  <1>7. CASE StageMkdir(c)
    <2>1. CASE NodeAnswer(c, "Internal") /\ UNCHANGED host
      BY <1>3, <2>1
    <2>2. CASE MkdirAll(nreq[c].staging) /\ OnlyFileSystems(c)
      BY <1>5, <1>7, <2>2 DEF StageMkdir, MkdirAll
    <2> QED
      BY <1>7, <2>1, <2>2 DEF StageMkdir
  <1>8. CASE Fsck(c)
    BY <1>1, <1>3, <1>8, EarlyUnseen DEF Fsck, Looks, host, EarlySteps
  <1>9. CASE StageMount(c)
    <2>1. CASE NodeGoto(c, "lsblk") /\ UNCHANGED host
      BY <1>1, <1>9, <2>1, EarlyUnseen DEF StageMount, host, EarlySteps
    <2>2. CASE CanMount(nreq[c]) /\ MountDevice(nreq[c]) /\ NodeGoto(c, "return")
      BY <1>1, <1>9, <2>2, MountingRefines DEF StageMount, MS!MNext
    <2> QED
      BY <1>9, <2>1, <2>2 DEF StageMount
  <1>10. CASE getDiskFormat(c)
    BY <1>1, <1>3, <1>10, EarlyUnseen DEF getDiskFormat, Looks, host, EarlySteps
  <1>11. CASE Mkfs(c)
    <2>1. CASE /\ CanFormat(nreq[c]) /\ NodeGoto(c, "remount")
               /\ content' = [content EXCEPT ![nreq[c].volume] = nreq[c].fstype]
               /\ UNCHANGED <<device, dirs, mounts>>
      BY <1>1, <1>11, <2>1, FormattingRefines DEF Mkfs, MS!MNext
    <2> QED
      BY <1>3, <1>11, <2>1 DEF Mkfs
  <1>12. CASE StageRemount(c)
    <2>1. CASE CanMount(nreq[c]) /\ MountDevice(nreq[c]) /\ NodeGoto(c, "return")
      BY <1>1, <1>12, <2>1, MountingRefines DEF StageRemount, MS!MNext
    <2> QED
      BY <1>3, <1>12, <2>1 DEF StageRemount
  <1> QED
    BY <1>4, <1>6, <1>7, <1>8, <1>9, <1>10, <1>11, <1>12

\* A publish that gives up, with or without a mount taken off its target.
LEMMA CleaningRefines ==
    ASSUME NRInv, NEW c \in NodeCalls, npc[c] \in {"cleanCheck", "cleanUmount"},
           NEW next \in {"cleanRecheck", "remove"}, NodeGoto(c, next), NodeObserve,
           UNCHANGED host \/ Umount(nreq[c].target)
    PROVE  MS!CleanUp(c)
  <1>1. /\ NodeOpen(c) /\ NodeEffectOf(c) = "possible" /\ next \in NodeOpened /\ npc[c] # "done"
    BY EarlyIsPossible DEF EarlySteps
  <1>2. NodeEffectOf(c)' = "spent"
    BY <1>1, GoingOn, EarlyIsPossible
  <1>3. MS!Does(c, "spent")
    BY <1>1, <1>2, Seen DEF host, Umount
  <1>4. nreq[c].rpc = "NodePublishVolume"
    BY DEF NRInv, NodeIInv, NodeCallOK, NodePcOK, PublishSteps
  <1> QED
    BY <1>1, <1>3, <1>4 DEF MS!CleanUp, MS!IsPublish, MS!TakeOff, host, Umount

LEMMA BindingRefines ==
    ASSUME NRInv, NEW c \in NodeCalls, npc[c] = "bind", BindMount(nreq[c]),
           NodeGoto(c, "return"), NodeObserve
    PROVE  MS!BindTarget(c)
  <1>1. /\ NodeOpen(c) /\ NodeEffectOf(c) = "possible"
        /\ "return" \in NodeOpened /\ npc[c] # "done"
    BY EarlyIsPossible DEF EarlySteps
  <1>2. NodeEffectOf(c)' = "done"
    BY <1>1, GoingOn, EarlyIsPossible
  <1>3. MS!Does(c, "done")
    BY <1>1, <1>2, Seen DEF BindMount
  <1>4. nreq[c].rpc = "NodePublishVolume"
    BY DEF NRInv, NodeIInv, NodeCallOK, NodePcOK, PublishSteps
  <1> QED
    BY <1>1, <1>3, <1>4 DEF MS!BindTarget, MS!IsPublish, MS!PutOn, BindMount, Behind

LEMMA PublishRefines ==
    ASSUME NRInv, NEW c \in NodeCalls,
           \/ TargetCheck(c) \/ TargetMkdir(c) \/ TargetBind(c) \/ CleanCheck(c)
           \/ CleanUmount(c) \/ CleanRecheck(c) \/ TargetRemove(c)
    PROVE  MS!MNext \/ UNCHANGED MS!service
  <1>1. /\ NodeObserve
        /\ npc[c] \in EarlySteps \cup {"cleanRecheck", "remove"} /\ npc[c] \in PublishSteps
    BY DEF TargetCheck, TargetMkdir, TargetBind, CleanCheck, CleanUmount, CleanRecheck,
           TargetRemove, Looks, EarlySteps, PublishSteps
  <1>2. NodeOpen(c) /\ nreq[c].rpc = "NodePublishVolume"
    BY <1>1, EarlyIsPossible DEF NRInv, NodeIInv, NodeCallOK, NodePcOK
  <1>3. ASSUME NodeAnswer(c, "Internal"), UNCHANGED <<device, content, mounts>> PROVE MS!MNext
    <2>1. MS!Fail(c) \/ MS!Refuse(c)
      BY <1>1, <1>2, <1>3, FailingRefines DEF PublishSteps
    <2> QED
      BY <2>1 DEF MS!MNext
  <1>4. ASSUME NEW code \in MS!Refusals(nreq[c]), code \in {"Unknown", "Nil"},
               npc[c] \in EarlySteps, NodeAnswer(c, code), UNCHANGED host
        PROVE  MS!MNext
    <2>1. NodeEffectOf(c) = "possible" /\ code \in NodeCodes \ {"OK"}
      BY <1>4, EarlyIsPossible DEF NodeCodes
    <2>2. MS!Fail(c) \/ MS!Refuse(c)
      BY <1>1, <1>2, <1>4, <2>1, FailingRefines DEF host
    <2> QED
      BY <2>2 DEF MS!MNext
  <1>5. "Unknown" \in MS!Refusals(nreq[c])
    BY <1>2 DEF MS!Refusals, MS!IsPublish
  <1>6. CASE TargetCheck(c)
    <2>1. npc[c] \in EarlySteps
      BY <1>6 DEF TargetCheck, EarlySteps
    <2>2. CASE NodeAnswer(c, "Unknown")
      BY <1>4, <1>5, <1>6, <2>1, <2>2 DEF TargetCheck, Looks
    <2>3. CASE "mountPoint" \in IsLikelyNotMountPoint(nreq[c].target) /\ NodeAnswer(c, "Nil")
      <3>1. MS!ShowsVolume(nreq[c].target)
        BY <2>3, VolumesAssumption DEF IsLikelyNotMountPoint, Shows, MS!ShowsVolume
      <3>2. "Nil" \in MS!Refusals(nreq[c])
        BY <1>2, <3>1 DEF MS!Refusals, MS!IsPublish
      <3> QED
        BY <1>4, <1>6, <2>1, <2>3, <3>2 DEF TargetCheck, Looks
    <2>4. CASE NodeGoto(c, "mkdir")
      BY <1>1, <1>6, <2>1, <2>4, EarlyUnseen DEF TargetCheck, Looks, host, EarlySteps
    <2> QED
      BY <1>6, <2>2, <2>3, <2>4 DEF TargetCheck
  <1>7. CASE TargetMkdir(c)
    <2>1. CASE MkdirAll(nreq[c].target) /\ NodeGoto(c, "bind")
      BY <1>1, <1>7, <2>1, EarlyUnseen DEF TargetMkdir, MkdirAll, EarlySteps
    <2>2. CASE NodeAnswer(c, "Unknown") /\ UNCHANGED host
      BY <1>4, <1>5, <1>7, <2>2 DEF TargetMkdir, EarlySteps
    <2> QED
      BY <1>7, <2>1, <2>2 DEF TargetMkdir
  <1>8. CASE TargetBind(c)
    <2>1. CASE BindMount(nreq[c]) /\ NodeGoto(c, "return")
      BY <1>1, <1>8, <2>1, BindingRefines DEF TargetBind, MS!MNext
    <2>2. CASE NodeGoto(c, "cleanCheck") /\ UNCHANGED host
      BY <1>1, <1>8, <2>2, EarlyUnseen DEF TargetBind, host, EarlySteps
    <2> QED
      BY <1>8, <2>1, <2>2 DEF TargetBind
  <1>9. CASE CleanCheck(c)
    <2>1. CASE NodeAnswer(c, "Internal")
      BY <1>3, <1>9, <2>1 DEF CleanCheck, Looks, host
    <2>2. CASE NodeGoto(c, "cleanUmount")
      BY <1>1, <1>9, <2>2, EarlyUnseen DEF CleanCheck, Looks, host, EarlySteps
    <2>3. CASE NodeGoto(c, "remove")
      BY <1>1, <1>9, <2>3, CleaningRefines DEF CleanCheck, Looks, MS!MNext
    <2> QED
      BY <1>9, <2>1, <2>2, <2>3 DEF CleanCheck
  <1>10. CASE CleanUmount(c)
    <2>1. CASE Umount(nreq[c].target) /\ NodeGoto(c, "cleanRecheck")
      BY <1>1, <1>10, <2>1, CleaningRefines DEF CleanUmount, MS!MNext
    <2>2. CASE NodeAnswer(c, "Internal") /\ UNCHANGED host
      BY <1>3, <2>2 DEF host
    <2> QED
      BY <1>10, <2>1, <2>2 DEF CleanUmount
  <1>11. CASE CleanRecheck(c)
    <2>1. CASE NodeAnswer(c, "Internal")
      BY <1>3, <1>11, <2>1 DEF CleanRecheck, Looks, host
    <2>2. CASE NodeGoto(c, "remove")
      <3>1. /\ npc[c] = "cleanRecheck" /\ npc[c] # "done" /\ "remove" \in NodeOpened
            /\ NodeEffectOf(c) = "spent"
        BY <1>11, EarlyIsPossible DEF CleanRecheck
      <3>2. NodeEffectOf(c)' = "spent"
        BY <2>2, <3>1, GoingOn, EarlyIsPossible
      <3> QED
        BY <1>1, <1>2, <1>11, <2>2, <3>1, <3>2, Unseen DEF CleanRecheck, Looks, host
    <2> QED
      BY <1>11, <2>1, <2>2 DEF CleanRecheck
  <1>12. CASE TargetRemove(c)
    BY <1>3, <1>12 DEF TargetRemove, host
  <1> QED
    BY <1>6, <1>7, <1>8, <1>9, <1>10, <1>11, <1>12

LEMMA UnmountRefines ==
    ASSUME NRInv, NEW c \in NodeCalls, UnmountVolume(c)
    PROVE  MS!Unmount(c) \/ MS!Fail(c) \/ MS!Refuse(c)
  <1>1. /\ NodeObserve /\ npc[c] = "umount" /\ NodeOpen(c) /\ NodeEffectOf(c) = "possible"
        /\ "return" \in NodeOpened /\ npc[c] # "done"
    BY EarlyIsPossible DEF UnmountVolume, EarlySteps
  <1>2. nreq[c].rpc \in {"NodeUnstageVolume", "NodeUnpublishVolume"}
    BY <1>1 DEF NRInv, NodeIInv, NodeCallOK, NodePcOK
  <1>3. CASE Umount(UnmountPath(c)) /\ NodeGoto(c, "return")
    <2>1. NodeEffectOf(c)' = "done"
      BY <1>1, <1>3, GoingOn, EarlyIsPossible
    <2>2. MS!Does(c, "done")
      BY <1>1, <1>3, <2>1, Seen DEF Umount
    <2>3. UnmountPath(c) = MS!PathOf(nreq[c])
      BY <1>2 DEF UnmountPath, MS!PathOf
    <2> QED
      BY <1>1, <1>2, <1>3, <2>2, <2>3 DEF MS!Unmount, MS!TakesDown, MS!TakeOff, Umount
  <1>4. CASE NodeAnswer(c, "Internal") /\ UNCHANGED host
    BY <1>1, <1>4, FailingRefines DEF host
  <1> QED
    BY <1>3, <1>4 DEF UnmountVolume

LEMMA ReturnRefines ==
    ASSUME NRInv, NEW c \in NodeCalls, Return(c)
    PROVE  MS!Confirm(c)
  <1>1. /\ NodeObserve /\ npc[c] = "return" /\ NodeAnswer(c, "OK") /\ UNCHANGED host
        /\ NodeOpen(c) /\ NodeEffectOf(c) = "done"
    BY EarlyIsPossible DEF Return, Looks
  <1>2. MS!Close(c, "OK", "done")
    BY <1>1, Closing DEF host, NodeCodes
  <1>3. NodeStageOf(c) = "open"
    BY <1>1 DEF NodeStageOf
  <1> QED
    BY <1>1, <1>2, <1>3 DEF MS!Confirm
-----------------------------------------------------------------------------
(* The environment *)

LEMMA LosingRefines ==
    ASSUME NRInv, LoseCalls, NodeObserve, device' = device, content' = content,
           mounts' = mounts \/ mounts' = NothingMounted
    PROVE  MS!GoDown
  <1>1. NodeControlTypeOK
    BY NodeTypeOKParts DEF NRInv, NodeIInv
  <1>2. ASSUME NEW c \in NodeCalls
        PROVE  /\ NodeStageOf(c) = "open" <=> NodeOpen(c)
               /\ NodeOpen(c) => NodeStageOf(c)' = "closed" /\ NodeEffectOf(c)' = "spent"
               /\ ~NodeOpen(c) => /\ NodeStageOf(c)' = NodeStageOf(c)
                                  /\ NodeEffectOf(c)' = NodeEffectOf(c)
    <2>1. NodeStageOf(c) = "open" <=> NodeOpen(c)
      BY DEF NodeStageOf, NodeOpen, NodeOpened, StageSteps, PublishSteps
    <2>2. ASSUME NodeOpen(c) PROVE NodeStageOf(c)' = "closed" /\ NodeEffectOf(c)' = "spent"
      <3>1. npc'[c] = "done" /\ nres'[c] = "NoAnswer"
        BY <2>2 DEF LoseCalls
      <3> QED
        BY <3>1 DEF NodeStageOf, NodeEffectOf, NodeOpen, NodeOpened, StageSteps, PublishSteps
    <2>3. ASSUME ~NodeOpen(c)
          PROVE NodeStageOf(c)' = NodeStageOf(c) /\ NodeEffectOf(c)' = NodeEffectOf(c)
      <3>1. npc'[c] = npc[c] /\ nres'[c] = nres[c]
        BY <2>3 DEF LoseCalls
      <3> QED
        BY <3>1 DEF NodeStageOf, NodeEffectOf, NodeOpen
    <2> QED
      BY <2>1, <2>2, <2>3
  <1>3. nres' = [c \in NodeCalls |-> IF NodeOpen(c) THEN "NoAnswer" ELSE nres[c]]
    BY DEF LoseCalls
  <1> QED
    BY <1>2, <1>3, NodeWatchRefines DEF MS!GoDown, NothingMounted

LEMMA DevicesRefine ==
    ASSUME NRInv, DeviceChanges
    PROVE  \E v \in Volumes : MS!DiskMoves(v)
  <1>1. device \in [Volumes -> BOOLEAN]
    BY NodeTypeOKParts DEF NRInv, NodeIInv, HostTypeOK
  <1>2. PICK v \in Volumes : DeviceComes(v) \/ DeviceGoes(v)
    BY DEF DeviceChanges
  <1>3. device' = [device EXCEPT ![v] = ~@] /\ (~device[v] \/ ~MS!InUse(v))
    BY <1>1, <1>2 DEF DeviceComes, DeviceGoes, Mounted, MS!InUse
  <1>4. /\ NodeObserve /\ UNCHANGED <<content, mounts, nres>>
        /\ \A c \in NodeCalls : /\ NodeStageOf(c)' = NodeStageOf(c)
                                /\ NodeEffectOf(c)' = NodeEffectOf(c)
    BY DEF DeviceChanges, NodeStageOf, NodeEffectOf, NodeOpen
  <1> QED
    BY <1>3, <1>4, NodeWatchRefines DEF MS!DiskMoves
-----------------------------------------------------------------------------
(* The invariant *)

LEMMA BlankIsSeenAfter ==
    ASSUME NodeObserve, NEW c \in NodeCalls
    PROVE  BlankIsSeen(c)'
  <1>1. NodeOpen(c)' => NodeFacts(c)' \subseteq nsaw'[c]
    BY DEF NodeObserve
  <1>2. content'[nreq'[c].volume] = "blank" => "blank" \in NodeFacts(c)'
    BY DEF NodeFacts, NodeFactNames
  <1> QED
    BY <1>1, <1>2 DEF BlankIsSeen

LEMMA StepsAreForFileSystem ==
    ASSUME NRInv, NEW c \in NodeCalls, NodeInvoke(c) \/ NodeServe(c)
    PROVE  \A e \in NodeCalls : ForFileSystem(e)'
  <1>1. /\ NodeControlTypeOK /\ \A e \in NodeCalls : ForFileSystem(e)
        /\ NodeOnlyMoves(c) /\ nreq' = nreq
    <2>1. NodeKept(c) /\ NodeObserve
      BY NodeInvokeKeeps, StageKeeps, PublishKeeps, UnmountKeeps, ReturnKeeps DEF NodeServe, NRInv
    <2> QED
      BY <2>1, NodeTypeOKParts DEF NRInv, NodeIInv, NodeKept, NodeObserve
  <1>2. \A e \in NodeCalls \ {c} : ForFileSystem(e)'
    BY <1>1 DEF ForFileSystem, NodeOnlyMoves
  <1>3. CASE NodeInvoke(c)
    <2>1. npc'[c] \in {"device", "target", "umount", "done"}
      BY <1>1, <1>3 DEF NodeInvoke, NodeStageVolume, NodeUnstageVolume, NodePublishVolume,
         NodeUnpublishVolume, NodeEnter, NodeGoto, NodeAnswer, NodeControlTypeOK
    <2> QED
      BY <1>2, <2>1 DEF ForFileSystem
  <1>4. CASE StageCheck(c) \/ StageMkdir(c)
    <2>1. npc'[c] \in {"done", "stageDir"} \/ nreq[c].access = "mount"
      BY <1>1, <1>4 DEF StageCheck, StageMkdir, OnlyFileSystems, NodeGoto, NodeAnswer,
         NodeControlTypeOK
    <2> QED
      BY <1>1, <1>2, <2>1 DEF ForFileSystem
  <1>5. CASE Fsck(c) \/ StageMount(c) \/ getDiskFormat(c) \/ Mkfs(c) \/ StageRemount(c)
    <2>1. npc[c] \in {"fsck", "mount", "lsblk", "mkfs", "remount"}
      BY <1>5 DEF Fsck, StageMount, getDiskFormat, Mkfs, StageRemount
    <2> QED
      BY <1>1, <1>2, <2>1 DEF ForFileSystem
  <1>6. CASE \/ VerifyDevicePath(c) \/ TargetCheck(c) \/ TargetMkdir(c) \/ TargetBind(c)
             \/ CleanCheck(c) \/ CleanUmount(c) \/ CleanRecheck(c) \/ TargetRemove(c)
             \/ UnmountVolume(c) \/ Return(c)
    <2>1. npc'[c] \in {"check", "done", "return"} \cup PublishSteps
      BY <1>1, <1>6 DEF VerifyDevicePath, TargetCheck, TargetMkdir, TargetBind, CleanCheck,
         CleanUmount, CleanRecheck, TargetRemove, UnmountVolume, Return, NodeGoto, NodeAnswer,
         NodeControlTypeOK, PublishSteps
    <2> QED
      BY <1>2, <2>1 DEF ForFileSystem, PublishSteps
  <1> QED
    BY <1>3, <1>4, <1>5, <1>6 DEF NodeServe

LEMMA NRInit == NodeInit => NRInv
  <1> SUFFICES ASSUME NodeInit PROVE NRInv
    OBVIOUS
  <1>1. \A c \in NodeCalls : npc[c] = "idle" /\ ~NodeOpen(c)
    BY DEF NodeInit, NodeOpen, NodeOpened, StageSteps, PublishSteps
  <1> QED
    BY <1>1, NodeInitHolds DEF NRInv, ForFileSystem, BlankIsSeen

LEMMA NRNext == NRInv /\ [NodeNext]_nodeVars => NRInv'
  <1> SUFFICES ASSUME NRInv, [NodeNext]_nodeVars PROVE NRInv'
    OBVIOUS
  <1>1. NodeIInv'
    BY NodeStepKeeps DEF NRInv
  <1>2. NodeControlTypeOK /\ \A c \in NodeCalls : ForFileSystem(c)
    BY NodeTypeOKParts DEF NRInv, NodeIInv
  <1>3. ASSUME NEW c \in NodeCalls, NodeInvoke(c) \/ NodeServe(c) PROVE NRInv'
    <2>1. NodeObserve
      BY <1>3, NodeInvokeKeeps, StageKeeps, PublishKeeps, UnmountKeeps, ReturnKeeps
         DEF NodeServe, NRInv
    <2> QED
      BY <1>1, <1>3, <2>1, StepsAreForFileSystem, BlankIsSeenAfter DEF NRInv
  <1>4. ASSUME LoseCalls, NodeObserve PROVE NRInv'
    <2>1. \A c \in NodeCalls : npc'[c] = "done" \/ npc'[c] = npc[c]
      BY <1>4 DEF LoseCalls
    <2>2. \A c \in NodeCalls : ForFileSystem(c)'
      BY <1>2, <1>4, <2>1 DEF ForFileSystem, NodeObserve
    <2> QED
      BY <1>1, <1>4, <2>2, BlankIsSeenAfter DEF NRInv
  <1>5. CASE DriverCrash \/ NodeReboot
    BY <1>4, <1>5 DEF DriverCrash, NodeReboot, Looks
  <1>6. CASE DeviceChanges
    <2>1. \A c \in NodeCalls : ForFileSystem(c)'
      BY <1>2, <1>6 DEF DeviceChanges, NodeObserve, ForFileSystem
    <2> QED
      BY <1>1, <1>6, <2>1, BlankIsSeenAfter DEF NRInv, DeviceChanges
  <1>7. CASE NodeQuiescent \/ UNCHANGED nodeVars
    BY <1>1, <1>7 DEF NodeQuiescent, nodeVars, NRInv, ForFileSystem, BlankIsSeen, NodeOpen
  <1> QED
    BY <1>3, <1>5, <1>6, <1>7 DEF NodeNext

LEMMA NodeNextRefines == NRInv /\ [NodeNext]_nodeVars => [MS!MNext]_MS!service
  <1> SUFFICES ASSUME NRInv, [NodeNext]_nodeVars PROVE [MS!MNext]_MS!service
    OBVIOUS
  <1>1. ASSUME NEW c \in NodeCalls, NodeInvoke(c) \/ NodeServe(c)
        PROVE  [MS!MNext]_MS!service
    BY <1>1, NodeInvokeRefines, StageRefines, PublishRefines, UnmountRefines, ReturnRefines
       DEF NodeServe, MS!MNext
  <1>2. CASE DriverCrash \/ NodeReboot
    BY <1>2, LosingRefines DEF DriverCrash, NodeReboot, Looks, host, MS!MNext
  <1>3. CASE DeviceChanges
    BY <1>3, DevicesRefine DEF MS!MNext
  <1>4. CASE NodeQuiescent \/ UNCHANGED nodeVars
    BY <1>4 DEF NodeQuiescent, nodeVars, MS!service, NodeStageOf, NodeEffectOf, NodeOpen
  <1> QED
    BY <1>1, <1>2, <1>3, <1>4 DEF NodeNext
-----------------------------------------------------------------------------
(* The result *)

\* The node service implements MountService, for any number of calls and
\* whatever fails or goes down: every call puts up or takes down one mount at
\* most, before it is answered, and OK is answered only when it has; an error
\* other than the loss of the driver means that it has not; a stage formats
\* once at most.  (node.go 35-218, mounter.go 108-196)
THEOREM NodeImplementsMountService == NodeSpec => ImplementsMountService
  BY NodeInitRefines, NRInit, NRNext, NodeNextRefines, PTL
     DEF NodeSpec, ImplementsMountService, MS!MSpec
=============================================================================
