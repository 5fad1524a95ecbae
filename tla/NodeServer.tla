----------------------------- MODULE NodeServer -----------------------------
(***************************************************************************)
(* GCENodeServer (node.go) over the real GCEMounter (mounter.go): stage,   *)
(* publish, unpublish and unstage as the commands and system calls each    *)
(* handler runs on the node, one per step.  Handlers run concurrently and  *)
(* take no lock.  The commands are not tied to the request's context, so a *)
(* caller that gives up changes nothing here: its handler runs on beside   *)
(* the retry.                                                              *)
(*                                                                         *)
(* The mount table is the kernel's: mounts stack, a bind mount shows what  *)
(* its source showed when it was made, and binding a directory that has    *)
(* nothing mounted on it shows the root file system.                       *)
(***************************************************************************)
EXTENDS Naturals, Sequences

CONSTANTS
    Volumes,        \* persistent disks
    Paths,          \* staging and target paths
    FsTypes,        \* file system types
    NodeCalls,      \* RPC invocations
    NodeRequests,   \* the requests they may carry
    InitialContents \* what a disk may hold when the driver starts

NodeRpcs == {"NodeStageVolume", "NodeUnstageVolume", "NodePublishVolume", "NodeUnpublishVolume"}

\* Not file system types: nothing at all, and partitions or other data that
\* lsblk reports no file system for.
Contents == FsTypes \cup {"blank", "partitions"}

\* access: the capability's type; a request without a file system type asks
\* for ext4, which is filled in here.
NodeRequestType ==
    [rpc : NodeRpcs, args : {"valid", "missing", "badId"}, volume : Volumes,
     staging : Paths, target : Paths, access : {"mount", "block"}, fstype : FsTypes]

ASSUME NodeRequestsAssumption == NodeRequests \subseteq NodeRequestType
ASSUME InitialContentsAssumption == InitialContents \subseteq Contents
\* The root file system and "nothing" are not volumes.
ASSUME VolumesAssumption == Volumes \cap {"root", "nothing"} = {}

VARIABLES
    device,     \* volume -> its device node exists (the disk is attached)
    content,    \* volume -> what is on the disk
    dirs,       \* the paths that exist
    mounts,     \* path -> the mounts on it, the visible one first
    nreq,       \* call -> its request
    npc,        \* call -> the next thing its handler does
    nres,       \* call -> what it was answered with
    nsaw        \* call -> history: facts that held at some moment of it

host == <<device, content, dirs, mounts>>
nodeVars == <<device, content, dirs, mounts, nreq, npc, nres, nsaw>>

StageSteps == {"device", "check", "stageDir", "fsck", "mount", "lsblk", "mkfs", "remount"}
PublishSteps == {"target", "mkdir", "bind", "cleanCheck", "cleanUmount", "cleanRecheck", "remove"}
NodeOpened == StageSteps \cup PublishSteps \cup {"umount", "return"}

\* "Nil" is the (nil, nil) return: no error, and no response either.
NodeCodes == {"OK", "Nil", "InvalidArgument", "Internal", "Unimplemented", "Unknown", "NoAnswer"}

NodeOpen(c) == npc[c] \in NodeOpened

Shows(p) == IF mounts[p] = <<>> THEN "nothing" ELSE Head(mounts[p])

\* What a bind mount of p would show.
Behind(p) == IF mounts[p] = <<>> THEN "root" ELSE Head(mounts[p])

NothingMounted == [p \in Paths |-> <<>>]
-----------------------------------------------------------------------------
(* History *)

NodeFactNames == {"blank", "staged", "mirrored"}

NodeFacts(c) ==
    LET r == nreq[c] IN
    {f \in NodeFactNames :
        \/ f = "blank"    /\ content[r.volume] = "blank"
        \/ f = "staged"   /\ Shows(r.staging) = r.volume /\ content[r.volume] = r.fstype
        \/ f = "mirrored" /\ Shows(r.target) = Behind(r.staging)}

NodeObserve ==
    /\ UNCHANGED nreq
    /\ nsaw' = [c \in NodeCalls |->
                    IF NodeOpen(c) \/ NodeOpen(c)' THEN nsaw[c] \cup NodeFacts(c)' ELSE nsaw[c]]

NodeGoto(c, next) == npc' = [npc EXCEPT ![c] = next] /\ UNCHANGED nres

NodeAnswer(c, code) ==
    /\ npc' = [npc EXCEPT ![c] = "done"]
    /\ nres' = [nres EXCEPT ![c] = code]

\* A handler step that leaves the host as it is.
Looks == UNCHANGED host /\ NodeObserve
-----------------------------------------------------------------------------
(* The mounter *)

\* Compares the device of the path with its parent's: a mount of the root
\* file system itself is not recognised.
IsLikelyNotMountPoint(p) ==
    {"error", CASE p \notin dirs                   -> "notExist"
                [] p \in dirs /\ Shows(p) \in Volumes    -> "mountPoint"
                [] p \in dirs /\ Shows(p) \notin Volumes -> "notMount"}

MkdirAll(p) == dirs' = dirs \cup {p} /\ UNCHANGED <<device, content, mounts>>

\* mount -t fstype device p.  The kernel refuses to mount a device on the
\* path that already shows it.
CanMount(r) ==
    /\ device[r.volume] /\ content[r.volume] = r.fstype
    /\ r.staging \in dirs /\ Shows(r.staging) # r.volume

MountDevice(r) ==
    /\ mounts' = [mounts EXCEPT ![r.staging] = <<r.volume>> \o @]
    /\ UNCHANGED <<device, content, dirs>>

\* mount -o bind staging target
CanBind(r) == r.staging \in dirs /\ r.target \in dirs

BindMount(r) ==
    /\ mounts' = [mounts EXCEPT ![r.target] = <<Behind(r.staging)>> \o @]
    /\ UNCHANGED <<device, content, dirs>>

\* umount p takes the visible mount away.
Umount(p) ==
    /\ mounts[p] # <<>>
    /\ mounts' = [mounts EXCEPT ![p] = Tail(@)]
    /\ UNCHANGED <<device, content, dirs>>

\* The types FormatAndMount passes -F for.  One -F overwrites a file system
\* but not a mounted device; without it mkfs refuses both.
Forced == {"ext4", "ext3"}

Mounted(v) == \E p \in Paths : \E i \in DOMAIN mounts[p] : mounts[p][i] = v

CanFormat(r) ==
    /\ device[r.volume] /\ ~Mounted(r.volume)
    /\ content[r.volume] = "blank" \/ r.fstype \in Forced
-----------------------------------------------------------------------------
(* Entry and argument checks *)

NodeEnter(c, rpc, badIdMatters, first) ==
    /\ npc[c] = "idle" /\ nreq[c].rpc = rpc
    /\ \/ nreq[c].args = "missing" /\ NodeAnswer(c, "InvalidArgument")
       \/ nreq[c].args = "badId" /\ badIdMatters /\ NodeAnswer(c, "Unknown")
       \/ /\ nreq[c].args = "valid" \/ (nreq[c].args = "badId" /\ ~badIdMatters)
          /\ NodeGoto(c, first)
    /\ Looks

NodeStageVolume(c)     == NodeEnter(c, "NodeStageVolume", TRUE, "device")
NodeUnstageVolume(c)   == NodeEnter(c, "NodeUnstageVolume", FALSE, "umount")
NodePublishVolume(c)   == NodeEnter(c, "NodePublishVolume", FALSE, "target")
NodeUnpublishVolume(c) == NodeEnter(c, "NodeUnpublishVolume", FALSE, "umount")

NodeInvoke(c) ==
    NodeStageVolume(c) \/ NodeUnstageVolume(c) \/ NodePublishVolume(c) \/ NodeUnpublishVolume(c)
-----------------------------------------------------------------------------
(* NodeStageVolume *)

VerifyDevicePath(c) ==
    /\ npc[c] = "device"
    /\ \/ device[nreq[c].volume] /\ NodeGoto(c, "check")
       \/ NodeAnswer(c, "Internal")
    /\ Looks

\* Block volumes are refused only once the directory is there.
OnlyFileSystems(c) ==
    \/ nreq[c].access = "mount" /\ NodeGoto(c, "fsck")
    \/ nreq[c].access = "block" /\ NodeAnswer(c, "Unimplemented")

\* A staging path that is already a mount point is an error, whoever
\* mounted it.
StageCheck(c) ==
    /\ npc[c] = "check"
    /\ \E found \in IsLikelyNotMountPoint(nreq[c].staging) :
          \/ found = "error"      /\ NodeAnswer(c, "Internal")
          \/ found = "mountPoint" /\ NodeAnswer(c, "Unknown")
          \/ found = "notExist"   /\ NodeGoto(c, "stageDir")
          \/ found = "notMount"   /\ OnlyFileSystems(c)
    /\ Looks

StageMkdir(c) ==
    /\ npc[c] = "stageDir"
    /\ \/ MkdirAll(nreq[c].staging) /\ OnlyFileSystems(c)
       \/ NodeAnswer(c, "Internal") /\ UNCHANGED host
    /\ NodeObserve

\* Only errors that fsck leaves uncorrected stop the mount.
Fsck(c) ==
    npc[c] = "fsck" /\ (NodeGoto(c, "mount") \/ NodeAnswer(c, "Internal")) /\ Looks

StageMount(c) ==
    /\ npc[c] = "mount"
    /\ \/ CanMount(nreq[c]) /\ MountDevice(nreq[c]) /\ NodeGoto(c, "return")
       \/ NodeGoto(c, "lsblk") /\ UNCHANGED host
    /\ NodeObserve

\* Not the code: formats whenever the mount failed.
getDiskFormatSkipped(c) == npc[c] = "lsblk" /\ NodeGoto(c, "mkfs") /\ Looks

\* A disk is formatted only if lsblk shows nothing on it.
getDiskFormat(c) ==
    /\ npc[c] = "lsblk"
    /\ \/ content[nreq[c].volume] = "blank" /\ NodeGoto(c, "mkfs")
       \/ NodeAnswer(c, "Internal")
    /\ Looks

Mkfs(c) ==
    /\ npc[c] = "mkfs"
    /\ LET r == nreq[c] IN
       \/ /\ CanFormat(r)
          /\ content' = [content EXCEPT ![r.volume] = r.fstype]
          /\ UNCHANGED <<device, dirs, mounts>>
          /\ NodeGoto(c, "remount")
       \/ NodeAnswer(c, "Internal") /\ UNCHANGED host
    /\ NodeObserve

\* Not the code: a formatted disk counts as a mounted one.
StageRemountAssumed(c) == npc[c] = "remount" /\ NodeGoto(c, "return") /\ Looks

StageRemount(c) ==
    /\ npc[c] = "remount"
    /\ \/ CanMount(nreq[c]) /\ MountDevice(nreq[c]) /\ NodeGoto(c, "return")
       \/ NodeAnswer(c, "Internal") /\ UNCHANGED host
    /\ NodeObserve
-----------------------------------------------------------------------------
(* NodePublishVolume *)

\* A target that is already a mount point ends the call with neither an
\* error nor a response, which gRPC cannot marshal: the caller gets an error.
TargetCheck(c) ==
    /\ npc[c] = "target"
    /\ \E found \in IsLikelyNotMountPoint(nreq[c].target) :
          \/ found = "error"      /\ NodeAnswer(c, "Unknown")
          \/ found = "mountPoint" /\ NodeAnswer(c, "Nil")
          \/ found \in {"notExist", "notMount"} /\ NodeGoto(c, "mkdir")
    /\ Looks

TargetMkdir(c) ==
    /\ npc[c] = "mkdir"
    /\ \/ MkdirAll(nreq[c].target) /\ NodeGoto(c, "bind")
       \/ NodeAnswer(c, "Unknown") /\ UNCHANGED host
    /\ NodeObserve

\* What is bound is whatever the staging path shows at this moment.
TargetBind(c) ==
    /\ npc[c] = "bind"
    /\ \/ CanBind(nreq[c]) /\ BindMount(nreq[c]) /\ NodeGoto(c, "return")
       \/ NodeGoto(c, "cleanCheck") /\ UNCHANGED host
    /\ NodeObserve

CleanCheck(c) ==
    /\ npc[c] = "cleanCheck"
    /\ \E found \in IsLikelyNotMountPoint(nreq[c].target) :
          \/ found \in {"error", "notExist"} /\ NodeAnswer(c, "Internal")
          \/ found = "mountPoint"            /\ NodeGoto(c, "cleanUmount")
          \/ found = "notMount"              /\ NodeGoto(c, "remove")
    /\ Looks

CleanUmount(c) ==
    /\ npc[c] = "cleanUmount"
    /\ \/ Umount(nreq[c].target) /\ NodeGoto(c, "cleanRecheck")
       \/ NodeAnswer(c, "Internal") /\ UNCHANGED host
    /\ NodeObserve

\* Not the code: tries the bind again, once the target is clean.
CleanRecheckAgain(c) ==
    /\ npc[c] = "cleanRecheck"
    /\ \E found \in IsLikelyNotMountPoint(nreq[c].target) :
          \/ found # "notMount" /\ NodeAnswer(c, "Internal")
          \/ found = "notMount" /\ NodeGoto(c, "bind")
    /\ Looks

CleanRecheck(c) ==
    /\ npc[c] = "cleanRecheck"
    /\ \E found \in IsLikelyNotMountPoint(nreq[c].target) :
          \/ found # "notMount" /\ NodeAnswer(c, "Internal")
          \/ found = "notMount" /\ NodeGoto(c, "remove")
    /\ Looks

\* Not the code: removes the target and whatever is under it.
TargetRemoveAll(c) ==
    /\ npc[c] = "remove"
    /\ dirs' = dirs \ {nreq[c].target} /\ UNCHANGED <<device, content, mounts>>
    /\ NodeAnswer(c, "Internal")
    /\ NodeObserve

\* rmdir: refused for a mount point; its error is ignored.
TargetRemove(c) ==
    /\ npc[c] = "remove"
    /\ \/ UNCHANGED host
       \/ /\ mounts[nreq[c].target] = <<>>
          /\ dirs' = dirs \ {nreq[c].target}
          /\ UNCHANGED <<device, content, mounts>>
    /\ NodeAnswer(c, "Internal")
    /\ NodeObserve
-----------------------------------------------------------------------------
(* NodeUnpublishVolume and NodeUnstageVolume: one umount, which fails when  *)
(* nothing is mounted, so that a repeated call fails.                       *)

UnmountPath(c) == IF nreq[c].rpc = "NodeUnstageVolume" THEN nreq[c].staging ELSE nreq[c].target

\* Not the code: whatever umount says, nothing is mounted any more.
UnmountErrorIgnored(c) ==
    /\ npc[c] = "umount"
    /\ Umount(UnmountPath(c)) \/ UNCHANGED host
    /\ NodeGoto(c, "return") /\ NodeObserve

UnmountVolume(c) ==
    /\ npc[c] = "umount"
    /\ \/ Umount(UnmountPath(c)) /\ NodeGoto(c, "return")
       \/ NodeAnswer(c, "Internal") /\ UNCHANGED host
    /\ NodeObserve
-----------------------------------------------------------------------------
(* The command has succeeded; the driver may still go down before it says  *)
(* so.                                                                     *)

Return(c) == npc[c] = "return" /\ NodeAnswer(c, "OK") /\ Looks
-----------------------------------------------------------------------------
(* The driver, or the node, goes down: every open call is lost.  Mounts are *)
(* the node's and survive the driver; directories survive the node too.     *)

LoseCalls ==
    /\ npc' = [c \in NodeCalls |-> IF NodeOpen(c) THEN "done" ELSE npc[c]]
    /\ nres' = [c \in NodeCalls |-> IF NodeOpen(c) THEN "NoAnswer" ELSE nres[c]]

DriverCrash ==
    /\ \E c \in NodeCalls : NodeOpen(c)
    /\ LoseCalls /\ Looks

NodeReboot ==
    /\ mounts # NothingMounted
    /\ LoseCalls
    /\ mounts' = NothingMounted /\ UNCHANGED <<device, content, dirs>>
    /\ NodeObserve

\* The disk is attached, or detached, by ControllerPublishVolume and
\* ControllerUnpublishVolume; only a disk that is not mounted is pulled.
DeviceComes(v) == ~device[v] /\ device' = [device EXCEPT ![v] = TRUE]

DeviceGoes(v) == device[v] /\ ~Mounted(v) /\ device' = [device EXCEPT ![v] = FALSE]

DeviceChanges ==
    /\ \E v \in Volumes : DeviceComes(v) \/ DeviceGoes(v)
    /\ UNCHANGED <<content, dirs, mounts, npc, nres>>
    /\ NodeObserve
-----------------------------------------------------------------------------
NodeInit ==
    /\ device \in [Volumes -> BOOLEAN]
    /\ content \in [Volumes -> InitialContents]
    /\ dirs = {}
    /\ mounts = NothingMounted
    /\ nreq \in [NodeCalls -> NodeRequests]
    /\ npc = [c \in NodeCalls |-> "idle"]
    /\ nres = [c \in NodeCalls |-> "None"]
    /\ nsaw = [c \in NodeCalls |-> {}]

NodeServe(c) ==
    \/ VerifyDevicePath(c) \/ StageCheck(c) \/ StageMkdir(c) \/ Fsck(c) \/ StageMount(c)
    \/ getDiskFormat(c) \/ Mkfs(c) \/ StageRemount(c)
    \/ TargetCheck(c) \/ TargetMkdir(c) \/ TargetBind(c)
    \/ CleanCheck(c) \/ CleanUmount(c) \/ CleanRecheck(c) \/ TargetRemove(c)
    \/ UnmountVolume(c) \/ Return(c)

NodeQuiescent == (\A c \in NodeCalls : npc[c] = "done") /\ UNCHANGED nodeVars

NodeNext ==
    \/ \E c \in NodeCalls : NodeInvoke(c) \/ NodeServe(c)
    \/ DriverCrash \/ NodeReboot \/ DeviceChanges
    \/ NodeQuiescent

NodeSpec == NodeInit /\ [][NodeNext]_nodeVars
-----------------------------------------------------------------------------
\* Only a directory that exists has mounts on it; a call has an answer
\* exactly when its handler is over.
NodeTypeOK ==
    /\ device \in [Volumes -> BOOLEAN]
    /\ content \in [Volumes -> Contents]
    /\ dirs \in SUBSET Paths
    /\ mounts \in [Paths -> Seq(Volumes \cup {"root"})]
    /\ \A p \in Paths : mounts[p] # <<>> => p \in dirs
    /\ nreq \in [NodeCalls -> NodeRequests]
    /\ npc \in [NodeCalls -> {"idle", "done"} \cup NodeOpened]
    /\ nres \in [NodeCalls -> NodeCodes \cup {"None"}]
    /\ nsaw \in [NodeCalls -> SUBSET NodeFactNames]
    /\ \A c \in NodeCalls : npc[c] = "done" <=> nres[c] # "None"

\* What an OK says, by what was seen during the call.
NodePromised(c) ==
    /\ nreq[c].rpc = "NodeStageVolume" => "staged" \in nsaw[c]
    /\ nreq[c].rpc = "NodePublishVolume" => "mirrored" \in nsaw[c]

\* A stage answered OK had the volume mounted at the staging path with the
\* file system asked for, and a publish answered OK had the target show what
\* the staging path showed, at some moment of the call, whatever concurrent
\* calls mount, unmount and format in between.  (node.go 35-108, 132-218)
NodeOkIsEarned == \A c \in NodeCalls : nres[c] = "OK" => NodePromised(c)

\* The step that writes a file system.
Formats(c) == npc[c] = "mkfs" /\ npc'[c] = "remount"

\* A stage call only formats a disk that was blank at some moment of that
\* call: data that was there before the call began is safe, however the
\* calls interleave.  (mounter.go 149-176)
OldDataIsSafe ==
    [][\A c \in NodeCalls : Formats(c) => "blank" \in nsaw[c]]_nodeVars

\* mounter.go:158 says, of the step to mkfs: "Disk is unformatted so format
\* it."  A disk that a stage call has formatted or mounted and answered OK for
\* is not formatted again.  (Does not hold: lsblk and mkfs are two commands,
\* and between those of one call another may stage the disk and an unstage
\* take it down.)
StagedDiskIsNotFormatted ==
    [][\A c, d \in NodeCalls :
          (/\ nreq[d].rpc = "NodeStageVolume" /\ nres[d] = "OK"
           /\ nreq[d].volume = nreq[c].volume /\ content[nreq[c].volume] # "blank")
              => ~Formats(c)
      ]_nodeVars
=============================================================================
