--------------------------- MODULE CapacityProofs ---------------------------
(***************************************************************************)
(* The arithmetic of Capacity for every unit, every default and every      *)
(* range.  Sizes are compared in bytes; the one fact about division that   *)
(* is needed is that BytesToGb drops less than one GiB.                    *)
(***************************************************************************)
EXTENDS Capacity, TLAPS

USE CapacityAssumption

\* Floor raises to the least value and changes nothing else.
LEMMA FloorFacts ==
    ASSUME NEW n \in Nat, NEW least \in Nat
    PROVE  /\ Floor(n, least) \in Nat
           /\ Floor(n, least) >= n
           /\ Floor(n, least) >= least
           /\ Floor(n, least) \in {n, least}
  BY DEF Floor

\* Whole GiB lose less than one GiB, and nothing of an aligned count.
LEMMA BytesToGbFacts ==
    ASSUME NEW b \in Nat
    PROVE  /\ BytesToGb(b) \in Nat
           /\ GbToBytes(BytesToGb(b)) <= b
           /\ b - GbToBytes(BytesToGb(b)) < GiB
           /\ Aligned(b) => GbToBytes(BytesToGb(b)) = b
  BY DEF BytesToGb, GbToBytes, Aligned

\* More GiB are more bytes.
LEMMA GbToBytesMonotone ==
    ASSUME NEW a \in Nat, NEW b \in Nat, a <= b
    PROVE  GbToBytes(a) \in Nat /\ GbToBytes(a) <= GbToBytes(b)
  BY DEF GbToBytes

\* What is asked of the service, against the two bounds of the range.
LEMMA RequestCapacityFacts ==
    ASSUME NEW required \in Nat, NEW limit \in Nat
    PROVE  /\ RequestCapacity(required, limit) \in Nat
           /\ RequestCapacity(required, limit) >= required
           /\ Satisfiable(required, limit) => RequestCapacity(required, limit) <= limit
  <1>1. DefaultVolumeSize <= GbToBytes(MinimumDiskSizeInGb)
    BY DEF GbToBytes
  <1>2. GbToBytes(MinimumDiskSizeInGb) \in Nat
    BY DEF GbToBytes
  <1> QED
    BY <1>1, <1>2 DEF RequestCapacity, Floor, Satisfiable

\* The size CreateVolume asks for is a natural number of GiB: the type of
\* every disk the driver makes.
THEOREM DiskSizeIsNat ==
    \A required, limit \in Nat : DiskSizeGb(required, limit) \in Nat
  BY RequestCapacityFacts, BytesToGbFacts, FloorFacts DEF DiskSizeGb

\* The new disk in bytes: either the truncated capacity or the minimum disk.
LEMMA DiskSizeFacts ==
    ASSUME NEW required \in Nat, NEW limit \in Nat
    PROVE  LET cap  == RequestCapacity(required, limit)
               size == GbToBytes(DiskSizeGb(required, limit))
           IN  /\ size \in Nat
               /\ size >= GbToBytes(BytesToGb(cap))
               /\ size \in {GbToBytes(BytesToGb(cap)), GbToBytes(MinimumDiskSizeInGb)}
  <1> DEFINE cap == RequestCapacity(required, limit)
  <1>1. cap \in Nat
    BY RequestCapacityFacts
  <1>2. BytesToGb(cap) \in Nat
    BY <1>1, BytesToGbFacts
  <1>3. /\ DiskSizeGb(required, limit) \in Nat
        /\ DiskSizeGb(required, limit) >= BytesToGb(cap)
        /\ DiskSizeGb(required, limit) \in {BytesToGb(cap), MinimumDiskSizeInGb}
    BY <1>2, FloorFacts DEF DiskSizeGb
  <1>4. GbToBytes(DiskSizeGb(required, limit)) >= GbToBytes(BytesToGb(cap))
    BY <1>2, <1>3, GbToBytesMonotone
  <1>5. GbToBytes(DiskSizeGb(required, limit)) \in Nat
    BY <1>3, GbToBytesMonotone
  <1> QED
    BY <1>3, <1>4, <1>5

\* The limit of a satisfiable range bounds the new disk.  (controller.go
\* getRequestCapacity and CreateVolume 136-139)
THEOREM NewDiskRespectsLimit ==
    \A required, limit \in Nat : LimitIsHonoured(required, limit)
  <1> SUFFICES ASSUME NEW required \in Nat, NEW limit \in Nat,
                      Satisfiable(required, limit)
               PROVE  GbToBytes(DiskSizeGb(required, limit)) <= limit
    BY DEF LimitIsHonoured
  <1> DEFINE cap == RequestCapacity(required, limit)
  <1>1. cap \in Nat /\ cap <= limit
    BY RequestCapacityFacts
  <1>2. GbToBytes(BytesToGb(cap)) \in Nat /\ GbToBytes(BytesToGb(cap)) <= cap
    BY <1>1, BytesToGbFacts, GbToBytesMonotone
  <1>3. CASE GbToBytes(DiskSizeGb(required, limit)) = GbToBytes(BytesToGb(cap))
    BY <1>1, <1>2, <1>3
  <1>4. CASE GbToBytes(DiskSizeGb(required, limit)) = GbToBytes(MinimumDiskSizeInGb)
    BY <1>4 DEF Satisfiable
  <1> QED
    BY <1>3, <1>4, DiskSizeFacts

\* A new disk is short of the required bytes by less than one GiB.  (utils.go
\* BytesToGb)
THEOREM NewDiskNearlyBigEnough ==
    \A required, limit \in Nat : ShortfallBelowOneGb(required, limit)
  <1> SUFFICES ASSUME NEW required \in Nat, NEW limit \in Nat
               PROVE  required - GbToBytes(DiskSizeGb(required, limit)) < GiB
    BY DEF ShortfallBelowOneGb
  <1> DEFINE cap == RequestCapacity(required, limit)
  <1>1. cap \in Nat /\ cap >= required
    BY RequestCapacityFacts
  <1>2. /\ BytesToGb(cap) \in Nat
        /\ cap - GbToBytes(BytesToGb(cap)) < GiB
    BY <1>1, BytesToGbFacts
  <1>3. GbToBytes(BytesToGb(cap)) \in Nat
    BY <1>2, GbToBytesMonotone
  <1>4. /\ GbToBytes(DiskSizeGb(required, limit)) \in Nat
        /\ GbToBytes(DiskSizeGb(required, limit)) >= GbToBytes(BytesToGb(cap))
    BY DiskSizeFacts
  <1> HIDE DEF cap
  <1> QED
    BY <1>1, <1>2, <1>3, <1>4

\* A whole number of GiB is not cut: the disk has all that is required.
LEMMA AlignedIsBigEnough ==
    ASSUME NEW required \in Nat, NEW limit \in Nat, Aligned(required), required # 0
    PROVE  GbToBytes(DiskSizeGb(required, limit)) >= required
  <1> DEFINE cap == RequestCapacity(required, limit)
  <1>1. CASE DefaultVolumeSize <= required
    <2>1. cap = required
      BY <1>1 DEF RequestCapacity, Floor
    <2>2. GbToBytes(BytesToGb(cap)) = required
      BY <2>1, BytesToGbFacts
    <2> QED
      BY <2>2, DiskSizeFacts
  <1>2. CASE required < DefaultVolumeSize
    <2>1. BytesToGb(cap) \in Nat
      BY RequestCapacityFacts, BytesToGbFacts
    <2>2. /\ DiskSizeGb(required, limit) \in Nat
          /\ DiskSizeGb(required, limit) >= MinimumDiskSizeInGb
      BY <2>1, FloorFacts DEF DiskSizeGb
    <2>3. /\ GbToBytes(MinimumDiskSizeInGb) \in Nat
          /\ GbToBytes(MinimumDiskSizeInGb) <= GbToBytes(DiskSizeGb(required, limit))
      BY <2>2, GbToBytesMonotone
    <2>4. GbToBytes(DiskSizeGb(required, limit)) \in Nat
      BY DiskSizeFacts
    <2>5. required < GbToBytes(MinimumDiskSizeInGb)
      BY <1>2 DEF GbToBytes
    <2> QED
      BY <2>3, <2>4, <2>5
  <1> QED
    BY <1>1, <1>2

\* An aligned, fully bounded, satisfiable request accepts the disk it
\* created when it is retried.  (controller.go CreateVolume 136-139 against
\* gce-compute.go 88-90)
THEOREM RetryAcceptsOwnDisk ==
    \A required, limit \in Nat : OwnDiskFits(required, limit)
  <1> SUFFICES ASSUME NEW required \in Nat, NEW limit \in Nat,
                      Satisfiable(required, limit), required # 0, Aligned(required)
               PROVE  CapacityFits(DiskSizeGb(required, limit), required, limit)
    BY DEF OwnDiskFits
  <1>1. GbToBytes(DiskSizeGb(required, limit)) <= limit
    BY NewDiskRespectsLimit DEF LimitIsHonoured
  <1>2. GbToBytes(DiskSizeGb(required, limit)) >= required
    BY AlignedIsBigEnough
  <1>3. limit # 0
    BY DEF Satisfiable
  <1> QED
    BY <1>1, <1>2, <1>3 DEF CapacityFits
=============================================================================
