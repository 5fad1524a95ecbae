---------------------------- MODULE FakeProvider ----------------------------
(***************************************************************************)
(* The controller over FakeCloudProvider (fake-gce.go), as the sanity test *)
(* runs it: one call at a time, no zones, no operations, no refusals by    *)
(* the service.  The fake keeps two Go maps without a lock, so each call   *)
(* is one step here.                                                       *)
(***************************************************************************)
EXTENDS Capacity, Sequences

CONSTANTS
    Names,      \* disk names
    Instances,  \* the instances the test has inserted
    NodeIds,    \* the node ids it asks for
    Ranges,     \* the capacity ranges it asks for
    AskedTypes  \* the disk types it asks for

ASSUME RangesAssumption == Ranges \subseteq [required : Nat, limit : Nat]

VARIABLES
    fdisks,     \* name -> size in GiB; 0: no such disk
    fattached,  \* instance -> its Disks slice
    last        \* the last call, and how it was answered

fakeVars == <<fdisks, fattached, last>>

AttachModes == {"READ_WRITE", "READ_ONLY"}
AnyRange == [required |-> 0, limit |-> 0]

Called(rpc, n, r, t, code) ==
    last' = [rpc |-> rpc, disk |-> n, range |-> r, type |-> t, answer |-> code]

Answered(rpc, n, code) == Called(rpc, n, AnyRange, "", code)

\* Not the code: the rule of the real provider.
FakeCapacityFitsBoth(gb, r) == CapacityFits(gb, r.required, r.limit)

\* Unlike the real provider's rule, an absent bound is no bound.
FakeCapacityFits(gb, r) ==
    /\ GbToBytes(gb) >= r.required \/ r.required = 0
    /\ GbToBytes(gb) <= r.limit \/ r.limit = 0

\* GetDiskTypeURI returns "", which is therefore the type of every disk.
FakeFits(gb, r, t) == FakeCapacityFits(gb, r) /\ TypeFits("", t)

FakeCreateVolume(n, r, t) ==
    LET size == fdisks[n] IN
    /\ \/ size = 0 /\ fdisks' = [fdisks EXCEPT ![n] = DiskSizeGb(r.required, r.limit)]
       \/ size # 0 /\ UNCHANGED fdisks
    /\ Called("CreateVolume", n, r, t,
              IF size = 0 \/ FakeFits(size, r, t) THEN "OK" ELSE "AlreadyExists")
    /\ UNCHANGED fattached

\* Neither whether the disk is there nor whether it is attached matters.
FakeDeleteVolume(n) ==
    /\ fdisks' = [fdisks EXCEPT ![n] = 0]
    /\ Answered("DeleteVolume", n, "OK")
    /\ UNCHANGED fattached

Position(s, n) == CHOOSE i \in DOMAIN s : s[i].disk = n /\ \A j \in 1 .. i - 1 : s[j].disk # n

Holds(s, n) == \E i \in DOMAIN s : s[i].disk = n

\* Not the code: the slice is cut before the last entry has been moved.
CutShort(s, n) == SubSeq(s, 1, Len(s) - 1)

\* The last entry takes the place of the one that goes.
Without(s, n) == SubSeq([s EXCEPT ![Position(s, n)] = s[Len(s)]], 1, Len(s) - 1)

HeldAs(s, n, mode) == \E i \in DOMAIN s : s[i] = [disk |-> n, mode |-> mode]

Found(n, i) == fdisks[n] # 0 /\ i \in Instances

\* The fake's errors are plain ones, which gRPC reports as Unknown.
FakeNotFound(rpc, n, i) ==
    ~Found(n, i) /\ Answered(rpc, n, "Unknown") /\ UNCHANGED <<fdisks, fattached>>

FakeAttach(n, i, mode) ==
    /\ fattached' = [fattached EXCEPT ![i] = Append(@, [disk |-> n, mode |-> mode])]
    /\ Answered("ControllerPublishVolume", n, "OK")

\* Called only for a disk that the slice holds: DetachDisk does not look.
FakeDetach(n, i) ==
    /\ fattached' = [fattached EXCEPT ![i] = Without(@, n)]
    /\ Answered("ControllerUnpublishVolume", n, "OK")

\* Not the code: attaches without a look at what the instance has.
FakePublishUnchecked(n, i, mode) ==
    \/ FakeNotFound("ControllerPublishVolume", n, i)
    \/ Found(n, i) /\ FakeAttach(n, i, mode) /\ UNCHANGED fdisks

FakePublishVolume(n, i, mode) ==
    \/ FakeNotFound("ControllerPublishVolume", n, i)
    \/ /\ Found(n, i) /\ UNCHANGED fdisks
       /\ LET s == fattached[i] IN
          \/ ~Holds(s, n) /\ FakeAttach(n, i, mode)
          \/ /\ Holds(s, n) /\ UNCHANGED fattached
             /\ Answered("ControllerPublishVolume", n,
                         IF s[Position(s, n)].mode = mode THEN "OK" ELSE "AlreadyExists")

FakeUnpublishVolume(n, i) ==
    \/ FakeNotFound("ControllerUnpublishVolume", n, i)
    \/ /\ Found(n, i) /\ UNCHANGED fdisks
       /\ \/ Holds(fattached[i], n) /\ FakeDetach(n, i)
          \/ /\ ~Holds(fattached[i], n) /\ UNCHANGED fattached
             /\ Answered("ControllerUnpublishVolume", n, "OK")
-----------------------------------------------------------------------------
FakeInit ==
    /\ fdisks = [n \in Names |-> 0]
    /\ fattached = [i \in Instances |-> <<>>]
    /\ \E n \in Names :
          last = [rpc |-> "None", disk |-> n, range |-> AnyRange, type |-> "", answer |-> "None"]

FakeNext ==
    \E n \in Names :
        \/ \E r \in Ranges, t \in AskedTypes : FakeCreateVolume(n, r, t)
        \/ FakeDeleteVolume(n)
        \/ \E i \in NodeIds :
              \/ \E mode \in AttachModes : FakePublishVolume(n, i, mode)
              \/ FakeUnpublishVolume(n, i)

FakeSpec == FakeInit /\ [][FakeNext]_fakeVars
-----------------------------------------------------------------------------
\* An instance holds a disk at most once.
FakeTypeOK ==
    /\ fdisks \in [Names -> Nat]
    /\ fattached \in [Instances -> Seq([disk : Names, mode : AttachModes])]
    /\ \A i \in Instances : \A a, b \in DOMAIN fattached[i] :
          fattached[i][a].disk = fattached[i][b].disk => a = b
    /\ last.disk \in Names /\ last.range \in [required : Nat, limit : Nat]

\* A call moves no disk but its own: whatever an unpublish swaps in the slice
\* of the instance, the other disks stay attached in their modes, and none
\* turns up that was not there.  (fake-gce.go 107-131)
OthersStayAttached ==
    [][\A i \in Instances, n \in Names \ {last'.disk}, mode \in AttachModes :
          HeldAs(fattached[i], n, mode) <=> HeldAs(fattached'[i], n, mode)]_fakeVars

\* Over the fake a create that was answered OK is answered OK again, if it
\* is for whole GiB, has room for the smallest disk and names a type.  (With
\* "type" set to "" it is refused here too: the comparison of types is
\* inverted, and every disk of the fake has the type "".)  The real rule
\* refuses more, for a bound that is not given (CapacityFits) and for a type
\* that is the same (run idempotent), so that no test against the
\* fake that names a type can notice.  (fake-gce.go 64-92)
FakeAcceptsRetry ==
    LET r == last.range IN
    (/\ last.rpc = "CreateVolume" /\ last.answer = "OK" /\ last.type # ""
     /\ Aligned(r.required) /\ (r.limit = 0 \/ Satisfiable(r.required, r.limit)))
        => FakeFits(fdisks[last.disk], r, last.type)

\* The limit of a satisfiable range bounds the new disk. (controller.go 52-69, 136-139)
LimitHonoured == LimitIsHonoured(last.range.required, last.range.limit)

\* A new disk is short of the required bytes by less than one GiB. (utils.go 24-27)
ShortfallIsBounded == ShortfallBelowOneGb(last.range.required, last.range.limit)

\* A retry of a whole-GiB request with both bounds passes the capacity check
\* of the real provider on the disk the first call made. (gce-compute.go 88-90)
RetryFindsOwnDisk == OwnDiskFits(last.range.required, last.range.limit)
=============================================================================
