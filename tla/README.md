# A TLA+ model of the GCE persistent disk CSI driver

The driver lets a container orchestrator create, delete, attach, detach, mount
and unmount Compute Engine persistent disks through the Container Storage
Interface. It keeps no state of its own: what it knows lives in the compute
service, in the kernel's mount table and in the arguments of the calls it gets.
What can go wrong is therefore in the interleaving of calls (gRPC runs every
call in a goroutine, and no handler takes a lock), in calls that are given up
while their work goes on, and in looking at a state that has changed since.

Paths below are relative to the repository. "Not the code" in a comment marks a
variant of the definition that follows it, with a plausible bug in it: each
property is known to fail for at least one of them (`mutants` in
`PROJECT.json`).

## Inventory

| Component | State | Operations | Modelled in |
|---|---|---|---|
| Controller service, `pkg/gce-csi-driver/controller.go` | none but the locals of each handler | CreateVolume, DeleteVolume, ControllerPublishVolume, ControllerUnpublishVolume; ValidateVolumeCapabilities, ListVolumes, GetCapacity, ControllerGetCapabilities, which change nothing | `ControllerServer` (the first four) |
| Cloud provider, `pkg/gce-cloud-provider/gce-compute.go`, `gce.go` | client, project, zone: constant | GET, insert, delete of disks; GET, attach, detach on instances; WaitForOp; GetAndValidateExistingDisk | `ControllerServer` for the code, `GCE` for the service behind it |
| Capacity arithmetic, `controller.go` 52-69 and 136-139, `pkg/utils/utils.go` | none | getRequestCapacity, BytesToGb, GbToBytes | `Capacity` |
| Node service, `pkg/gce-csi-driver/node.go` | none | NodeStageVolume, NodeUnstageVolume, NodePublishVolume, NodeUnpublishVolume; NodeGetId, NodeGetCapabilities, which return constants | `NodeServer` (the first four) |
| Mounter, `pkg/mount-manager/` | the node's mount table, directories, disk contents | fsck, mount, lsblk, mkfs, umount, mkdir, rmdir, the mount point test | `NodeServer` |
| Process, `cmd/main.go`, `gce-driver.go`, `server.go`, `identity.go`, `gce.go` 48-131 | two goroutines, a WaitGroup, the driver's name and node id, the socket file | start-up, serving, GetPluginInfo, being killed and restarted | `DriverProcess` |
| Fake provider, `fake-gce.go` | two maps: the disks, and the instances with their slices of attached disks | the interface of the cloud provider, for tests | `FakeProvider` |
| Fake mounter, `fake-mounter.go` | none | returns fixed values, for tests | not modelled |
| Sanity and e2e harness, `test/` | | creating instances, copying archives, running tests over ssh | not modelled |
| Manifests, `deploy/` | | | assumptions of `DriverProcess` |
| Vendored libraries | | gRPC, the compute client, `wait.Poll`, `exec` | by what the driver sees of them |

### How the parts interact

* `main` builds the cloud provider (token polling, then two metadata reads), then
  the driver, then starts the gRPC server in a goroutine and waits for ever.
* The external-provisioner and external-attacher sidecars call the controller
  service; kubelet calls the node service. All calls can overlap, be repeated, be
  cancelled, and be outlived by their own effects.
* A controller handler makes one to four HTTP requests. A mutating request returns a
  zone operation that runs on by itself; `WaitForOp` polls it every 3 seconds for up
  to 5 minutes and looks at its status only.
* A node handler runs commands on the host. `execRun` does not pass the request's
  context on, so a handler whose caller has gone continues beside the retry.
* Controller and node service meet only through the compute service (a disk that is
  attached appears as a device) and through the orchestrator that calls both, which
  `Lifecycle` models as far as it matters: one call at a time for a volume, repeated,
  reversed or given up.

### What makes each part correct, and what is hard about it

`PROJECT.json` lists the hazards at their lines, with the properties that cover
them. In short:

* Controller: an answer must be worth something under any interleaving. An OK is
  not premature, a refusal has a true cause, an answer other than Internal leaves no
  work running behind the caller's back, every call returns, retries of a create
  converge on one disk that fits.
* Capacity: limits and minimum sizes at their boundaries.
* Node: a stage or publish that is answered OK mounted what it says; data on a disk
  is never formatted over; concurrent calls leave the directories and the mount
  table consistent.
* The services together: what the caller of the two was told is so, though
  calls that were given up go on behind its back; a mounted disk is not detached.
* Process: only a complete driver answers, and it comes back after any crash.

## Modules

| Module | What it is |
|---|---|
| `Capacity` | operators over byte counts, in a unit scaled by its constants; no state |
| `GCE` | the compute service as an external component: disks, instances, attachments, asynchronous operations |
| `ControllerServer` | EXTENDS both; the four stateful controller methods |
| `VolumeService` | the controller service as its clients may see it, abstractly |
| `ControllerRefinement` | EXTENDS `ControllerServer`; how its state maps to `VolumeService` |
| `NodeServer` | the four stateful node methods over the mounter and the kernel |
| `MountService` | the node service as kubelet may see it, abstractly |
| `NodeRefinement` | EXTENDS `NodeServer`; how its state maps to `MountService` |
| `Lifecycle` | EXTENDS `ControllerServer` and `NodeServer`; a caller that takes a volume up and down |
| `FakeProvider` | EXTENDS `Capacity`; the controller over the fake of the sanity test |
| `DriverProcess` | main goroutine, serve goroutine, restarts |
| `CapacityProofs`, `FakeProofs`, `ControllerProofs`, `RefinementProofs`, `NodeProofs`, `NodeRefinementProofs`, `LifecycleProofs`, `ProcessProofs` | theorems and their proofs |
| `MCCapacity`, `MCController`, `MCNode`, `MCLifecycle`, `MCProcess` | instances for TLC |

### Capacity

`RequestCapacity`, `BytesToGb`, `GbToBytes`, `DiskSizeGb` are the functions of the
code. `CapacityFits` and `TypeFits` are the two halves of
`GetAndValidateExistingDisk`, including its `!=` and its demand that both bounds be
given. The constants `GiB`, `DefaultVolumeSize` and `MinimumDiskSizeInGb` stand for
2^30, 5000000000 and 5; the assumption keeps what matters of them: the default is
just below the minimum disk.

### FakeProvider

The controller's four methods over `FakeCloudProvider`, one step per call since the fake
has no operations to wait for and the sanity test makes one call at a time. `fdisks` and
`fattached` are its two Go maps, `last` the call just made and its answer. Its rule for
a disk that exists (`FakeCapacityFits`) is not the real one: a bound that is not given
does not count. Its disks all have the type "", because its `GetDiskTypeURI` returns that,
so that a create with the type "" is refused on a retry and one with any other type is
not. `Without` is what DetachDisk does to the slice: the last entry takes the place of the
one that goes.

### GCE

A disk stands for a volume id, that is a zone and a name. It is absent, CREATING or
READY; `ops[c]` is the operation that call `c` started. Each API request answers from
a set of replies that depends on the state, always including an error without effect
and, for mutating requests, `lost`: the work is accepted and the answer is not
delivered. Operations check their conditions again when they run, and may fail at any
point before they take effect. An operation that ended with `Operation.Error` has status DONE for
the driver and FAILED in the model. Instances can be deleted at any time.

### ControllerServer

One call is one `req[c]` with a program counter `pc[c]` that names the API request
its handler makes next; everything the handler does with the answer is in the same
step, as it touches nothing shared. Actions carry the names of the functions:
`CreateVolume`, `DeleteVolume`, `ControllerPublishVolume` and
`ControllerUnpublishVolume` check the arguments; `CreateGet`, `CreateInsert`,
`CreateRecheck`, `DeleteIssue`, `GetDiskOrError`, `GetInstanceOrError`,
`PublishAttach`, `UnpublishDetach` are the requests; `WaitDone`, `WaitPollError`,
`WaitTimeout` are the ends of `WaitForOp`. The branch of CreateVolume for an
alreadyExists error out of `WaitForOp` (controller.go 167-177) has no action:
`WaitForOp` returns an API error only from its own GET of the operation, which
does not answer alreadyExists. The GET of an instance is the one request that is sent without
the context of the call (gce-compute.go 169), so a caller that gives up is released by it only when it has
been answered; `Abandon` releases the caller at once there too, which no property can tell.

`Abandon` is a deadline, a cancellation or a restart of the driver; a request that was
being sent at that moment may still arrive (`OrphanLands`). A retry is simply another
call with the same request, so retries of retries are covered by three calls.

`saw[c]` is a history variable, read by no guard: the facts about the volume and the
node of `c` that held at some moment between its invocation and its answer. The
properties are stated over it because a concurrent system can promise no more: by
the time an answer arrives the state may have changed again.

`saw[c]` keeps the facts an answer to the method of `c` may depend on (`FactsFor`), and
no others.

### VolumeService and ControllerRefinement

What a client may rely on, with nothing said of API calls or operations. A call is idle,
open or closed. It has one effect at most (`possible`, then `begun` for a disk that is being
made, and `done` or `botched`; or `never`), in one step, in the way of its method, possibly after
it was answered. It is answered once: OK or a refusal only if that was true at some moment
of the call (`due`), or, for OK, if the call's own work failed, since the code does not look
at `Operation.Error`; a definite answer settles the effect for good, while Internal and silence leave
it open. So a call never acts twice, a refused call never acts, and nothing an
OK stands for is still to come.

`ControllerRefinement` maps the state of `ControllerServer`: `StageOf` reads the program
counter, `EffectOf` the status of the operation, `DueFor` the history.
`ImplementsVolumeService` is the mapped specification; TLC checks it on the run
`concurrent` and `RefinementProofs` proves it.

### NodeServer

`mounts[p]` is the stack of mounts on path `p`; `dirs` the paths that exist;
`content[v]` what is on a disk; `device[v]` whether its device node is there. Every
command and system call of a handler is a step, the test of a path and the making of it
included (`StageCheck`, `StageMkdir`). A bind shows what its source showed
at that moment, or the root file system if nothing was mounted there;
`IsLikelyNotMountPoint` compares device numbers and therefore does not see a bind of
the root file system. What mount, mkfs and umount refuse is the kernel's and the
tools' business and marked external (`CanMount`, `CanBind`, `CanFormat`). `Return`
is a step of its own so that the driver may die between a successful command and
the answer. `DriverCrash` loses the calls and keeps the mounts; `NodeReboot` loses
both and keeps directories and disks. mkfs is atomic in the model, and a device is
only removed while it is not mounted.

### MountService and NodeRefinement

What kubelet may rely on, with nothing said of directories, mount point tests or
commands. A call is idle, open or closed, and has one effect at most: a stage puts
the volume on the staging path, a publish puts what the staging path shows on the
target, an unstage or unpublish takes one mount off its path. The effect comes
before the answer, never after it, and only a driver that goes down leaves the caller in
doubt; here the node service promises more than the controller can. OK is the answer
exactly if the call has had its effect. A stage may make a file system once, on a
disk it has seen blank and that is not mounted, and only before it mounts. The one
thing that is not the call's own: a publish whose bind failed may take one mount off
the target in its clean-up (node.go 86-108), which is then another call's.

`NodeRefinement` reads the abstract call off the program counter and the answer
(`NodeStageOf`, `NodeEffectOf`); host and requests map to themselves.
`ImplementsMountService` is the mapped specification; TLC checks it on the run
`node` and `NodeRefinementProofs` proves it.

### Lifecycle

Controller service, cloud and node service composed under one caller, for one volume and one node.
The caller knows four steps (create, attach, stage, publish): `sure` of them it was told are
done, at most one more (`top`) is in doubt. It goes up or down, one call at a time (`asked`),
repeats a call that failed or turns round, and may stop waiting: for a controller call that is
`Abandon`, for a node call `NodeGiveUp`, after which the handler runs on. A slot that still has a call or an
operation in it is a leftover (`Leftovers`); `Forget` frees it at its end.

The two services are used as they are: `ControllerStep`, `CloudStep`, `NodeStep` and
`InstanceDeleted` are made of the actions of their modules. The device node follows the attachment (`DeviceFollows`), except that
it stays while the disk is mounted; a disk that is made anew is blank. `Crash` is a crash of the
driver on the node, `Reboot` takes kubelet with it (`KubeletGoes`), which then starts again from the
attached disk. `InstanceDeleted` is the cloud's `InstanceGoes` for this node: its disk is detached, its mounts
and directories are no more, the calls of kubelet are lost and no more are made, while the controller
service is asked on: it answers NotFound where it looks for the instance. A step above the first rests on the
node, and is `Sound` only while the node is there.
The history of the services plays no part here, and starts full so that it adds no states. The
life begins before the disk is created, and all requests agree but for the method
(`OrderAssumption`, `NodeOrderAssumption`).

A leftover can spoil what the caller was told: an insert that fails after a second
CreateVolume answered OK for its disk, a publish that binds after the unpublish, a detach that lands
after the next attach. Nothing in the repository promises otherwise, and no property may
hide it either: `Spoils` says exactly when a step of the cloud or of the node undoes a step that is wanted or
does one that is not, on behalf of a call the caller is not waiting for, or stacks a mount
on a mount; `lapsed` remembers the steps this befell. An OK for an operation that
ended in an error counts as a lapse too. The properties hold for whatever has not lapsed:
only those causes, and no interleaving, crash, lost answer or repetition by itself,
can make the caller's view wrong.

### DriverProcess

`main` and `serving` are the program counters of the two goroutines, `wg` the
WaitGroup's counter. A fatal log ends the process, and only the socket's file
survives it. Clients connect from `net.Listen` on, since the kernel queues
connections, and are answered once `Serve` accepts. All bad events (credentials that cannot be
found, a token poll or metadata read that fails, a socket that cannot be removed or opened, an Accept error,
a kill) draw on one budget of `MaxFaults`.

## Runs

Checked with two workers; each finishes within half a minute on a recent machine.

| Run | Instance | What it shows |
|---|---|---|
| `capacity` | 2 disks, an instance and a node id that is none; ranges with bounds out of 0, 13, 15, 16, 17, 18, 21; GiB = 3, default 14, minimum 5 GiB; 39,866 states | `LimitHonoured`, `ShortfallIsBounded`, `RetryFindsOwnDisk`; `FakeTypeOK`, `OthersStayAttached`, `FakeAcceptsRetry` |
| `concurrent` | 3 calls in six casts: creates that differ or agree beside a delete, on a disk that is absent; publishes that agree, clash in mode or clash in node beside an unpublish, a publish and an unpublish beside a delete, on a disk that is READY; 413,448 states | `TypeOK`, `OkIsEarned`, `ErrorsAreTruthful`, `AnswersAreFinal`, `ImplementsVolumeService` |
| `lifecycle` | 1 volume, 1 node, 2 controller slots, 2 node slots; 2 stacked mounts, 1 leftover, calls up to the first lapse; 747,932 states | `LifeTypeOK`, `ToldUpIsUp`, `ToldDownIsDown`, `NotFoundMeansNodeGone`, `MountedDiskIsNotPulled`, `StagedDataStays` |
| `returns` | 2 calls of all methods, well formed or not; a node in another zone; fairness | `ErrorsAreTruthful` with malformed requests, `EveryCallReturns` |
| `node` | 3 calls of all node methods on one volume, one staging and one target path; ext4 and xfs; a disk blank, formatted or partitioned; 310,370 states | `NodeTypeOK`, `NodeOkIsEarned`, `OldDataIsSafe`, `ImplementsMountService` |
| `process` | every command line, 2 clients, 2 token polls, 3 faults; 3,790 states | `ProcTypeOK`, `OnlyCompleteDriverAnswers`, `ServesInTheEnd` |

Six runs show what the code does against what the repository says of it; each has an
entry under `findings`:

| Run | Sentence | What happens |
|---|---|---|
| `ok_means_done` | controller.go:299 "Disk %v attached to instance %v successfully" | an operation that ended in an error is answered OK |
| `idempotent` | csi-test sanity/controller.go:267 "should not fail when requesting to create a volume with already exisiting name and same capacity." | the type comparison is inverted, a retry with the same type is refused |
| `created_then_gone` | csi.pb.go:407-408 "the CO may call `CreateVolume` again, with the same name, to ensure the volume exists" | a create that met the CREATING disk of another is answered OK though that insert has failed and the disk is gone |
| `reuse` | csi-test sanity/controller.go:328 "should fail when requesting to create a volume with already exisiting name and different capacity." | two failed GETs and a disk of another size is reused |
| `format_after_stage` | mounter.go:158 "Disk is unformatted so format it." | a stage call that lingers between lsblk and mkfs formats a disk another stage has handed over |
| `wait_hangs` | server.go:32 "Waits for the service to stop" | nothing calls `wg.Done`: when Serve returns, the process hangs |

### The properties

* `LimitHonoured`, `ShortfallIsBounded`, `RetryFindsOwnDisk`: how default size, minimum disk,
  limit and truncation work together. The disk may have less than the required bytes, by up to a GiB, where
  csi.pb.go:712 says "Volume must be at least this big."; and a retry finds its own disk only if both
  bounds were given, as an absent one counts as one that does not fit (gce-compute.go 88-89).
* `OkIsEarned`: unless the call's own operation failed (which the code does not read),
  the disk existed (was READY, if the call inserted it), was gone, was attached in the
  mode asked for, or was detached, at some moment of the call.
* `ErrorsAreTruthful`: NotFound, AlreadyExists and FailedPrecondition have a cause that
  held during the call, so a transient failure never looks like a definite one.
* `AnswersAreFinal`: after OK or a refusal no operation of the call is still running.
* `EveryCallReturns`: an open call is answered or abandoned, whatever the cloud does.
* `ImplementsVolumeService`: at most one effect per call, none after a definite answer.
* `ToldUpIsUp`, `ToldDownIsDown`: a step the caller was told is done, and that it has not taken down, is
  in effect, unless it or one below lapsed, or the node of it is gone; of a step it was told is undone nothing is
  left, not even a mount under another, unless it lapsed.
* `MountedDiskIsNotPulled`: without a lapse the disk is never detached while mounted anywhere
  on a node that stays:
  the unmounts' answers are good enough to go by, though the controller asks no node.
* `StagedDataStays`: a volume the caller was told is staged holds the file system it asked for,
  and keeps it: no stage that was given up between lsblk and mkfs, no delete or create that
  lands late, writes over it. The handlers check several commands before they act; what
  makes this right is that mkfs refuses a mounted disk, the cloud an attached one, and
  no stage is answered OK before its mount.
* `NotFoundMeansNodeGone`: the driver says NotFound of a disk and of an instance alike, and an
  unpublish will meet it again at every repetition. Without a lapse it is the instance that is gone; the disk is
  there, also when it was still CREATING when its creation was answered OK, and
  nothing of it is left attached or mounted, so a caller that stops repeating may delete it.
* `FakeAcceptsRetry`, beside `RetryFindsOwnDisk`: over the fake every create of whole
  GiB that names a type can be repeated, over the real rule only one with both bounds, and only in
  capacity (run `idempotent`): such tests against the fake cannot notice.
* `OthersStayAttached`: a call over the fake leaves every other disk of the instance attached as it
  was, though an unpublish swaps entries of the slice.
* `NodeOkIsEarned`, `OldDataIsSafe`: the same for the node; a stage formats only a disk
  that was blank at some moment of that stage.
* `ImplementsMountService`: one mount up or down per call, before its answer, and an OK
  exactly for that.
* `OnlyCompleteDriverAnswers`, `ServesInTheEnd`: start-up order and recovery.

### Bounds, and why they are enough

Disks do not interact, so one disk; two nodes make a disk used elsewhere possible.
Handlers share no memory: every interference is one call changing the cloud between
two requests of another, which two calls show; the third lets an abandoned operation
land between a call and its retry. Each call makes one request, fixed at the
start. `concurrent` lists the casts of three that conflict in a way of their own
(`ProvisionCasts`, `AttachCasts`) and leaves out those that only repeat them: all
multisets of three out of these requests, 2.15 million states, hold the same properties and are too
slow to be a run. On the node three calls are what `format_after_stage` needs (a lingering stage, a
second one, an unstage). In `lifecycle` two slots of each service let one leftover run beside the call the caller
waits for; a slot is used again and again, so behaviours are of any length. Two stacked mounts are
the least that one umount does not undo. After the first lapse the caller makes no more
calls (`Stopped` is the stuttering step of a caller at that bound), while the call it waits for and the
leftovers run to their end. The properties also hold where it goes on until a second lapse, on 3.9 million
states, and with two leftovers and no lapse allowed, on 5.6 million; those are too slow to be runs, and the
theorems about `Lifecycle` have no such bound. In `capacity` the bounds
are 0 for absent, the default and the minimum disk, a multiple of a GiB and its
neighbours. Calls are interchangeable, and the safety runs use that symmetry; the
liveness run does not. In `process`, three faults cover a kill during every phase followed by
another failure on the way up; two token polls stand for the seven or so that fit in 30 seconds.
Deadlock checking is off in `process` and `wait_hangs` because the system may come to
rest there: everybody answered, no faults left.

### Fairness

`FairSpec` of `ControllerServer` gives weak fairness to each handler: goroutines are
scheduled, HTTP requests return or fail, `wait.Poll` has its own deadline. The cloud is
given none: an operation may stay pending for ever. `ProcSpec` gives weak fairness
to the restart of the container (the manifests leave the default restart policy), to
the main goroutine and to the serve goroutine; faults and clients have none.

## Proofs

`CapacityProofs` proves, for all values of the constants and all ranges, that the new
disk keeps within a satisfiable limit (`NewDiskRespectsLimit`), is short by less than
a GiB (`NewDiskNearlyBigEnough`) and passes the capacity check of a retry
(`RetryAcceptsOwnDisk`), from facts about integer division.

`ControllerProofs` proves `Spec => []TypeOK` (`TypeCorrect`) and the three safety
invariants (`EveryOkIsEarned`, `EveryErrorIsTruthful`, `EveryAnswerIsFinal`) for any sets of
calls, disks, nodes and requests, from the named assumptions on the constants alone. The invariants are not
inductive: that a WaitDone answers rightly depends on what the operation did several
steps before, and that depends on which method the call is in. `IInv` adds for every
call: which program counters go with which method and with which state of its operation
(`PcOK`), and what the history holds at each of them (`Evidence`), for instance that an
attach operation that is DONE has left `served` in the history of its call. The
argument is local: the history of a call only grows, another call's step leaves its
program counter, answer and operation alone (`CallIsLocal`, `OthersKeep`), so each action is
checked for the call it belongs to. TLC checked the same `IInv` on the three
controller instances. `CallsOnlyMoveOn` is an action property of the same model: each step
leaves a call and its answer as they are or brings the call nearer to its end (`StepsLeft`), which is five
steps away at most, so a handler can neither go round nor post a request twice.

`RefinementProofs` proves `ControllerImplementsService`: initial states map to initial states, and
every step of `ControllerServer` maps to a step of `VolumeService` or a stutter, for any
constants. It needs `IInv` and one fact more, `OneMaker` (`DisksHaveOneMaker`): a disk that is
CREATING has exactly one running insert, so that its end is the end of the call the abstract disk
was begun by. The step lemmas go by kind (an answer, an accepted request,
an operation at work), and one lemma (`DueGrows` and its like) shows that the history
maps to the answers that are due.

`FakeProofs` proves the invariants of the run `capacity` for all names, instances, ranges and units. `Position`
is shown to find a disk that the slice holds, `Without` to keep the others (`WithoutKeepsOthers`) and to keep
them distinct; the three facts about ranges follow from `CapacityProofs`, since every range a call is made
with is one of `Ranges`.

`NodeProofs` proves `NodeTypeCorrect`, `NodeEveryOkIsEarned` and `NodeOldDataSurvives` for
any volumes, paths, file systems and calls, by the same local argument. The inductive
invariant `NodeIInv` adds which steps belong to which method (`NodePcOK`) and what a step has
behind it (`NodeEvidence`): a handler about to run mkfs has seen the disk blank, a handler
about to return has seen what its method promises. The mount table enters in two steps only,
the mount of a volume (`StagingKeeps`) and the bind of a target (`BindingKeeps`); in the
second the staging path may be the target itself, which a finite instance with one path of
each kind does not cover. `NodeCallsOnlyMoveOn` bounds a node handler by ten steps in the same way
(`NodeStepsLeft`): each step leaves a call and its answer as they are or brings the call nearer to its end.

`NodeRefinementProofs` proves `NodeImplementsMountService`: initial states map to initial
states, and every step of `NodeServer` maps to a step of `MountService` or a stutter, for
any volumes, paths, calls and requests. It needs `NodeIInv` and two facts more
(`NRInv`): a stage that has come as far as fsck is for a file system, since block volumes are
refused before (`ForFileSystem`), and an open call whose disk is blank has seen it blank
(`BlankIsSeen`), so that a step kubelet does not see adds nothing to the history. The
step lemmas go by what a step shows kubelet: nothing (`Unseen`), that the call is open or
has done something (`Seen`), or an answer (`Closing`).

`LifecycleProofs` proves the six properties of the run `lifecycle` for any order of the caller,
any number of slots and leftovers, and without the bounds on mounts, leftovers and lapses that the instance needs.
It assumes that every request asks for the same volume, node and paths, that the volume is in
the zone of the node, that staging and target path differ, and that the two services have slots
of their own. The inductive invariant `LInv` takes over `IInv` and `NodeIInv`, which
the steps of the caller keep too (`SlotKeeps`, `NodeSlotKeeps`), and adds three things. The call
that is waited for is the one its step and direction call for (`AskedOK`). When that call is
bound to be answered OK, its step is already as an OK would have it (`Earning`); without this an answer
that is taken in several steps after its cause could not be believed. And a path has at
most one mount unless its step has lapsed (`MountsOK`), so that one umount is enough. The
argument then has two halves: a step of a leftover leaves the view right or is a lapse
(`LeftoverHarmless`), by what a lapse is; and a step of the call that is waited for touches the step
in doubt only (`AskedNodeStep`, `AskedCloudStep`, `AskedServe`), where the steps below it are
what makes it right: a bind shows the volume because the staging path does, and a publish
finds the disk because its creation was answered OK. The end of the node changes the view in one
lemma with the reboot (`KubeletGoneKeepsAll`): what it takes away is no longer `Sound`. For
`NotFoundMeansGone` the invariant says that only a call on the attachment is told NotFound of a
node that is gone (`NotFoundOK`), and that nothing is attached to such a node (`GoneOK`), which a late
attach keeps because the cloud looks for the instance again (`OnlyToANodeThatIsThere`).

`StagedDataSurvives` needs more than `LInv`, since the view says nothing of what is on a disk.
`DInv` adds that an insert runs only for a disk that is CREATING, one at a time, while an
attached disk is READY (`DiskOK`), so that no disk is replaced under a staging; that every slot asks for one file system
(`SameFs`); and that a staging which counts, because the caller was told of it or
because the stage it waits for can no longer fail, has this file system under it
(`HasData`). It is made to count by a mount, which the kernel does only for that file system
(`StageShowsData`), and while it counts the volume is mounted (`StagingStands`), which is why
mkfs refuses (`NodeLeavesData`) and no new disk appears (`CloudLeavesData`).

`ProcessProofs` proves `ProcTypeCorrect` and `DriverIsComplete` for any
number of clients, token polls and faults: the budget of faults bounds the instance TLC
checks, not the theorem. `ProgressOK` is what start-up order gives: the goroutine is counted
and the driver named from `Start` on, and a server accepts only with all services registered.

Only model-checked: liveness (`EveryCallReturns`, `ServesInTheEnd`), which is out of the
prover's reach. Of `EveryCallReturns`, `CallsOnlyMoveOn` proves the part that is a matter of
single steps: a handler never goes back and has only a bounded way to go. That an open handler
can always take its next step, and that fairness makes it, takes ENABLED and temporal
reasoning, and stays with the run `returns`.

## Not modelled

* Reading the parameters and ids of a request as strings: a request is valid, lacks
  something, or has a bad id. A request whose parameters name another zone is a
  request for another disk.
* The contents of the response: `CapacityBytes` is the size asked for, not the
  disk's (controller.go:116).
* The readonly flag and mount flags of node calls, the udevadm workaround, partial mkfs.
* int64 overflow of `GbToBytes`, which takes a disk of 2^33 GiB.
* `Stop` and `ForceStop`, which nothing calls.
* The constant answers (capabilities, NodeGetId, Probe), ListVolumes and GetCapacity.
* The fake mounter, which has no behaviour, and the test harness. Concurrent use of the fake
  provider, whose maps have no lock: the sanity test makes one call at a time.
* More than one volume or node in `Lifecycle`: volumes share nothing but the node's device names. An instance
  that was deleted does not come back there, and the pods of a node that is gone are not moved to another.

## Plan

Done, most important first: capacity; the controller, the node and the process, each with its proofs; the
abstract services of controller and node and their refinements, checked and proved; the composition under a caller, checked
and proved; the fake provider, checked and proved. What is left:

1. A second volume that takes over the target or staging path of the first.
2. ValidateVolumeCapabilities, once the driver acts on what it answers.
