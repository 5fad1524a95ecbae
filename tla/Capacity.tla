------------------------------ MODULE Capacity ------------------------------
(***************************************************************************)
(* The arithmetic of CreateVolume: how a CSI capacity range becomes a disk *)
(* size in whole GiB, and how an existing disk is compared with the range  *)
(* a retry carries.  Pure operators over byte counts; the unit is scaled   *)
(* by the constants, which keep the order the code's values have:          *)
(*   GiB                 2^30 bytes                    (utils.go)          *)
(*   DefaultVolumeSize   5000000000 bytes              (controller.go)     *)
(*   MinimumDiskSizeInGb 5                             (controller.go)     *)
(* An absent range, and an absent bound, is 0, as the protobuf getters     *)
(* return it.                                                              *)
(***************************************************************************)
EXTENDS Integers

CONSTANTS GiB, DefaultVolumeSize, MinimumDiskSizeInGb

\* 5000000000 is a little less than 5 GiB: the default is below the minimum
\* disk, which is why a defaulted request still needs the bump to 5.
ASSUME CapacityAssumption ==
    /\ GiB \in Nat \ {0}
    /\ DefaultVolumeSize \in Nat \ {0}
    /\ MinimumDiskSizeInGb \in Nat \ {0}
    /\ DefaultVolumeSize <= MinimumDiskSizeInGb * GiB

Floor(n, least) == IF n < least THEN least ELSE n

\* Not the code: prefers the limit to the required bytes.
LimitFirst(required, limit) ==
    Floor(IF limit > 0 THEN limit ELSE required, DefaultVolumeSize)

\* getRequestCapacity: the required bytes, else the limit, and never less
\* than the default.
RequestCapacity(required, limit) ==
    Floor(IF required > 0 THEN required ELSE limit, DefaultVolumeSize)

\* Not the code: rounds up.
BytesToGbUp(bytes) == (bytes + GiB - 1) \div GiB

\* Integer division: the remainder of a GiB is dropped.
BytesToGb(bytes) == bytes \div GiB

GbToBytes(gb) == gb * GiB

\* The size CreateVolume puts in the disk it inserts.
DiskSizeGb(required, limit) ==
    Floor(BytesToGb(RequestCapacity(required, limit)), MinimumDiskSizeInGb)

\* Not the code: the lower bound is exclusive.
CapacityFitsStrictly(gb, required, limit) ==
    /\ GbToBytes(gb) > required /\ required # 0
    /\ GbToBytes(gb) <= limit /\ limit # 0

\* The capacity half of GetAndValidateExistingDisk: an existing disk is
\* acceptable only to a request that gives BOTH bounds.
CapacityFits(gb, required, limit) ==
    /\ GbToBytes(gb) >= required /\ required # 0
    /\ GbToBytes(gb) <= limit /\ limit # 0

\* The type half: typeMatch is written with !=, so a disk is acceptable when
\* its type DIFFERS from the one asked for (or when none was asked for).
TypeFits(have, want) == have # want \/ (want = "" /\ have = "pd-standard")
-----------------------------------------------------------------------------
(* What the arithmetic promises for one capacity range.                    *)

\* A range CreateVolume can satisfy: consistent, and with room for the
\* smallest disk the driver makes.
Satisfiable(required, limit) ==
    /\ required <= limit
    /\ GbToBytes(MinimumDiskSizeInGb) <= limit

Aligned(bytes) == bytes % GiB = 0

\* A new disk never exceeds the limit of a range with room for the smallest
\* disk: not when only a limit is given, not when the default or the minimum
\* raises the size.  (controller.go getRequestCapacity, CreateVolume 136-139)
LimitIsHonoured(required, limit) ==
    Satisfiable(required, limit) => GbToBytes(DiskSizeGb(required, limit)) <= limit

\* Truncating to whole GiB loses less than one GiB of what was required.
\* (utils.go BytesToGb)
ShortfallBelowOneGb(required, limit) ==
    required - GbToBytes(DiskSizeGb(required, limit)) < GiB

\* A fully bounded request for whole GiB finds the disk it created itself
\* acceptable when it is retried, as far as capacity goes.
\* (controller.go CreateVolume 136-139 against gce-compute.go 88-90)
OwnDiskFits(required, limit) ==
    (Satisfiable(required, limit) /\ required # 0 /\ Aligned(required))
        => CapacityFits(DiskSizeGb(required, limit), required, limit)
=============================================================================
