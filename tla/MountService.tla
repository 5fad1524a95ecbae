---------------------------- MODULE MountService ----------------------------
(***************************************************************************)
(* What the node service promises kubelet, with nothing said of how: no    *)
(* directories, no mount point tests, no commands.  A call puts one mount  *)
(* up or takes one down, once, and before it is answered; a stage may make *)
(* a file system first, on a disk that it has seen blank; an OK says that  *)
(* the call has done its work, and an error that it has put nothing up.    *)
(* Only a driver that goes down leaves its callers in doubt.               *)
(*                                                                         *)
(* NodeRefinement shows that NodeServer implements this.                   *)
(***************************************************************************)
EXTENDS Sequences

CONSTANTS Volumes, Paths, Calls

VARIABLES
    present,    \* volume -> its disk is attached to the node
    holds,      \* volume -> what is on the disk
    stacks,     \* path -> the mounts on it, the visible one first
    request,    \* call -> its request
    stage,      \* call -> "idle", "open" or "closed"
    answer,     \* call -> the code it was answered with
    effect,     \* call -> what it has done, or may still do
    sawBlank    \* history: the calls during which their disk was blank for a moment

node    == <<present, holds, stacks>>
service == <<present, holds, stacks, request, stage, answer, effect, sawBlank>>

\* "possible": none yet; "formatted": the disk has a new file system; "done":
\* the mount is up, or down; "spent": there will be none any more.
Effects == {"possible", "formatted", "done", "spent"}

IsStage(r)   == r.rpc = "NodeStageVolume"
IsPublish(r) == r.rpc = "NodePublishVolume"
TakesDown(r) == r.rpc \in {"NodeUnstageVolume", "NodeUnpublishVolume"}

\* The path a call is about.
PathOf(r) == IF r.rpc \in {"NodeStageVolume", "NodeUnstageVolume"} THEN r.staging ELSE r.target

ShowsVolume(p) == stacks[p] # <<>> /\ Head(stacks[p]) \in Volumes
InUse(v) == \E p \in Paths : \E i \in DOMAIN stacks[p] : stacks[p][i] = v

PutOn(p, what) == stacks' = [stacks EXCEPT ![p] = <<what>> \o @]
TakeOff(p) == stacks[p] # <<>> /\ stacks' = [stacks EXCEPT ![p] = Tail(@)]

Watch ==
    /\ UNCHANGED request
    /\ sawBlank' = sawBlank \cup
          {c \in Calls : "open" \in {stage[c], stage'[c]} /\ holds'[request[c].volume] = "blank"}
-----------------------------------------------------------------------------
\* The errors a malformed request is turned away with; none, if it is well
\* formed.  Only a stage reads the volume's id.
ArgumentsEarn(r) ==
    CASE r.args = "missing" -> {"InvalidArgument"}
      [] r.args = "badId" /\ IsStage(r) -> {"Unknown"}
      [] OTHER -> {}

\* The errors that say that nothing was tried.
Refusals(r) ==
    (IF IsStage(r) /\ r.access = "block" THEN {"Unimplemented"} ELSE {})
    \cup (IF IsStage(r) /\ ShowsVolume(r.staging) THEN {"Unknown"} ELSE {})
    \cup (IF IsPublish(r) THEN {"Unknown"} ELSE {})
    \cup (IF IsPublish(r) /\ ShowsVolume(r.target) THEN {"Nil"} ELSE {})

Begin(c) ==
    /\ stage[c] = "idle" /\ ArgumentsEarn(request[c]) = {}
    /\ stage' = [stage EXCEPT ![c] = "open"]
    /\ UNCHANGED <<node, answer, effect>> /\ Watch

Close(c, code, end) ==
    /\ stage' = [stage EXCEPT ![c] = "closed"]
    /\ answer' = [answer EXCEPT ![c] = code]
    /\ effect' = [effect EXCEPT ![c] = end]
    /\ UNCHANGED node /\ Watch

TurnAway(c) ==
    stage[c] = "idle" /\ \E code \in ArgumentsEarn(request[c]) : Close(c, code, "spent")

\* OK: the work is done.
Confirm(c) == stage[c] = "open" /\ effect[c] = "done" /\ Close(c, "OK", "done")

\* A refusal: nothing was touched.
Refuse(c) ==
    /\ stage[c] = "open" /\ effect[c] = "possible"
    /\ \E code \in Refusals(request[c]) : Close(c, code, "spent")

\* Internal: the call has put nothing up and taken down nothing it was asked to.
Fail(c) == stage[c] = "open" /\ effect[c] # "done" /\ Close(c, "Internal", "spent")
-----------------------------------------------------------------------------
(* What an open call does. *)

Does(c, next) ==
    /\ stage[c] = "open" /\ effect' = [effect EXCEPT ![c] = next]
    /\ UNCHANGED <<present, stage, answer>> /\ Watch

Format(c) ==
    LET r == request[c] IN
    /\ IsStage(r) /\ r.access = "mount" /\ effect[c] = "possible"
    /\ c \in sawBlank /\ present[r.volume] /\ ~InUse(r.volume)
    /\ holds' = [holds EXCEPT ![r.volume] = r.fstype]
    /\ UNCHANGED stacks /\ Does(c, "formatted")

MountVolume(c) ==
    LET r == request[c] IN
    /\ IsStage(r) /\ r.access = "mount" /\ effect[c] \in {"possible", "formatted"}
    /\ present[r.volume] /\ holds[r.volume] = r.fstype
    /\ stacks[r.staging] = <<>> \/ Head(stacks[r.staging]) # r.volume
    /\ PutOn(r.staging, r.volume)
    /\ UNCHANGED holds /\ Does(c, "done")

\* The target comes to show what the staging path shows, which is the root
\* file system if nothing is staged.
BindTarget(c) ==
    LET r == request[c] IN
    /\ IsPublish(r) /\ effect[c] = "possible"
    /\ PutOn(r.target, IF stacks[r.staging] = <<>> THEN "root" ELSE Head(stacks[r.staging]))
    /\ UNCHANGED holds /\ Does(c, "done")

Unmount(c) ==
    LET r == request[c] IN
    /\ TakesDown(r) /\ effect[c] = "possible"
    /\ TakeOff(PathOf(r))
    /\ UNCHANGED holds /\ Does(c, "done")

\* A publish whose bind has failed gives up, and may take one mount off the
\* target, which is another call's.
CleanUp(c) ==
    LET r == request[c] IN
    /\ IsPublish(r) /\ effect[c] = "possible"
    /\ UNCHANGED stacks \/ TakeOff(r.target)
    /\ UNCHANGED holds /\ Does(c, "spent")
-----------------------------------------------------------------------------
(* The driver goes down, with or without the node; disks come and go.      *)

GoDown ==
    LET Lost(c) == stage[c] = "open" IN
    /\ stage' = [c \in Calls |-> IF Lost(c) THEN "closed" ELSE stage[c]]
    /\ answer' = [c \in Calls |-> IF Lost(c) THEN "NoAnswer" ELSE answer[c]]
    /\ effect' = [c \in Calls |-> IF Lost(c) THEN "spent" ELSE effect[c]]
    /\ UNCHANGED stacks \/ stacks' = [p \in Paths |-> <<>>]
    /\ UNCHANGED <<present, holds>> /\ Watch

\* Only a disk that is not mounted goes.
DiskMoves(v) ==
    /\ ~present[v] \/ ~InUse(v)
    /\ present' = [present EXCEPT ![v] = ~@]
    /\ UNCHANGED <<holds, stacks, stage, answer, effect>> /\ Watch
-----------------------------------------------------------------------------
MInit ==
    /\ stacks = [p \in Paths |-> <<>>]
    /\ stage = [c \in Calls |-> "idle"]
    /\ answer = [c \in Calls |-> "None"]
    /\ effect = [c \in Calls |-> "possible"]
    /\ sawBlank = {}

MNext ==
    \/ \E c \in Calls :
          \/ Begin(c) \/ TurnAway(c) \/ Confirm(c) \/ Refuse(c) \/ Fail(c)
          \/ Format(c) \/ MountVolume(c) \/ BindTarget(c) \/ Unmount(c) \/ CleanUp(c)
    \/ GoDown
    \/ \E v \in Volumes : DiskMoves(v)

MSpec == MInit /\ [][MNext]_service
=============================================================================
