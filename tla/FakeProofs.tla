----------------------------- MODULE FakeProofs -----------------------------
(***************************************************************************)
(* The driver over the fake provider, for any disks, instances and ranges. *)
(* FakeIInv is inductive: the slices stay free of duplicates because the   *)
(* driver looks before it attaches and detaches, and what a create leaves  *)
(* behind follows from the arithmetic of CapacityProofs.                   *)
(***************************************************************************)
EXTENDS CapacityProofs, FakeProvider

USE CapacityAssumption

Entries == [disk : Names, mode : AttachModes]

NoneTwice(s) == \A a, b \in DOMAIN s : s[a].disk = s[b].disk => a = b

\* Where a disk is found in the slice.
LEMMA PositionFacts ==
    ASSUME NEW s \in Seq(Entries), NEW n, Holds(s, n), NoneTwice(s)
    PROVE  Position(s, n) \in DOMAIN s /\ s[Position(s, n)].disk = n
  <1>1. PICK i \in DOMAIN s : s[i].disk = n
    BY DEF Holds
  <1>2. \A j \in 1 .. i - 1 : s[j].disk # n
    BY <1>1 DEF NoneTwice
  <1> QED
    BY <1>1, <1>2 DEF Position

\* Appending a disk that is not there keeps the entries apart.
LEMMA AppendKeepsApart ==
    ASSUME NEW s \in Seq(Entries), NEW e \in Entries, NoneTwice(s), ~Holds(s, e.disk)
    PROVE  Append(s, e) \in Seq(Entries) /\ NoneTwice(Append(s, e))
  BY DEF NoneTwice, Holds, Entries

\* And so does taking one out.
LEMMA WithoutKeepsApart ==
    ASSUME NEW s \in Seq(Entries), NEW n, Holds(s, n), NoneTwice(s)
    PROVE  Without(s, n) \in Seq(Entries) /\ NoneTwice(Without(s, n))
  <1> DEFINE p == Position(s, n)
             t == [s EXCEPT ![p] = s[Len(s)]]
             k == Len(s) - 1
  <1>1. p \in 1 .. Len(s)
    BY PositionFacts
  <1> HIDE DEF p
  <1>2. t \in Seq(Entries) /\ Len(t) = Len(s) /\ k \in Nat
    BY <1>1
  <1>3. \A a \in 1 .. k : t[a] = IF a = p THEN s[Len(s)] ELSE s[a]
    BY <1>1
  <1> HIDE DEF t
  <1>4. /\ SubSeq(t, 1, k) \in Seq(Entries)
        /\ Len(SubSeq(t, 1, k)) = k
        /\ \A a \in 1 .. k : SubSeq(t, 1, k)[a] = t[a]
    BY <1>2
  <1>5. NoneTwice(SubSeq(t, 1, k))
    <2> SUFFICES ASSUME NEW a \in 1 .. k, NEW b \in 1 .. k, t[a].disk = t[b].disk
                 PROVE  a = b
      BY <1>4 DEF NoneTwice
    <2> QED
      BY <1>3 DEF NoneTwice
  <1> QED
    BY <1>4, <1>5 DEF Without, p, t

\* Neither moves another disk.
LEMMA AppendKeepsOthers ==
    ASSUME NEW s \in Seq(Entries), NEW e \in Entries, NEW n, NEW mode, n # e.disk
    PROVE  HeldAs(s, n, mode) <=> HeldAs(Append(s, e), n, mode)
  <1> DEFINE t == Append(s, e)
             entry == [disk |-> n, mode |-> mode]
  <1>1. /\ DOMAIN s = 1 .. Len(s) /\ DOMAIN t = 1 .. Len(s) + 1 /\ Len(s) \in Nat
        /\ \A a \in 1 .. Len(s) : t[a] = s[a]
        /\ t[Len(s) + 1] = e
    OBVIOUS
  <1>2. entry # e
    OBVIOUS
  <1> HIDE DEF t, entry
  <1>3. (\E a \in DOMAIN s : s[a] = entry) <=> (\E a \in DOMAIN t : t[a] = entry)
    BY <1>1, <1>2
  <1> QED
    BY <1>3 DEF HeldAs, t, entry

LEMMA WithoutKeepsOthers ==
    ASSUME NEW s \in Seq(Entries), NEW d, NEW n, NEW mode,
           Holds(s, d), NoneTwice(s), n # d
    PROVE  HeldAs(s, n, mode) <=> HeldAs(Without(s, d), n, mode)
  <1> DEFINE p == Position(s, d)
             t == [s EXCEPT ![p] = s[Len(s)]]
             k == Len(s) - 1
             w == SubSeq(t, 1, k)
             entry == [disk |-> n, mode |-> mode]
  <1>1. p \in 1 .. Len(s) /\ s[p].disk = d
    BY PositionFacts
  <1> HIDE DEF p
  <1>2. t \in Seq(Entries) /\ Len(t) = Len(s) /\ k \in Nat
    BY <1>1
  <1>3. \A a \in 1 .. k : t[a] = IF a = p THEN s[Len(s)] ELSE s[a]
    BY <1>1
  <1>4. s[p] # entry
    BY <1>1
  <1>5. DOMAIN s = 1 .. k + 1 /\ Len(s) = k + 1
    BY <1>2
  <1> HIDE DEF t, entry
  <1>6. DOMAIN w = 1 .. k /\ \A a \in 1 .. k : w[a] = t[a]
    BY <1>2
  <1> HIDE DEF k, w
  <1>7. ASSUME NEW a \in DOMAIN s, s[a] = entry PROVE \E b \in DOMAIN w : w[b] = entry
    <2>1. CASE a = k + 1
      <3>1. p \in 1 .. k /\ w[p] = entry
        BY <1>1, <1>2, <1>3, <1>4, <1>5, <1>6, <1>7, <2>1
      <3> QED
        BY <3>1, <1>6
    <2>2. CASE a # k + 1
      <3>1. a \in 1 .. k /\ w[a] = entry
        BY <1>2, <1>3, <1>4, <1>5, <1>6, <1>7, <2>2
      <3> QED
        BY <3>1, <1>6
    <2> QED
      BY <2>1, <2>2
  <1>8. ASSUME NEW b \in DOMAIN w, w[b] = entry PROVE \E a \in DOMAIN s : s[a] = entry
    <2>1. b \in 1 .. k + 1 /\ k + 1 \in 1 .. k + 1
      BY <1>2, <1>6
    <2>2. s[b] = entry \/ s[k + 1] = entry
      BY <1>3, <1>5, <1>6, <1>8
    <2> QED
      BY <1>5, <2>1, <2>2
  <1> QED
    BY <1>7, <1>8 DEF HeldAs, Without, p, t, k, w, entry

FakeIInv == FakeTypeOK /\ FakeAcceptsRetry

LEMMA FakeInitGood == FakeInit => FakeIInv
  <1> SUFFICES ASSUME FakeInit PROVE FakeIInv
    OBVIOUS
  <1> DEFINE S == Seq(Entries)
  <1>0. <<>> \in S
    OBVIOUS
  <1> HIDE DEF S
  <1>1. fattached \in [Instances -> S]
    BY <1>0 DEF FakeInit
  <1>2. /\ last.disk \in Names /\ last.range \in [required : Nat, limit : Nat]
        /\ last.rpc = "None" /\ last.answer = "None"
    <2>1. AnyRange \in [required : Nat, limit : Nat]
      BY DEF AnyRange
    <2>2. PICK n \in Names :
             last = [rpc |-> "None", disk |-> n, range |-> AnyRange, type |-> "", answer |-> "None"]
      BY DEF FakeInit
    <2> QED
      BY <2>1, <2>2
  <1>3. \A i \in Instances : DOMAIN fattached[i] = {}
    <2>1. \A i \in Instances : fattached[i] = <<>>
      BY DEF FakeInit
    <2>2. DOMAIN <<>> = {}
      OBVIOUS
    <2> QED
      BY <2>1, <2>2
  <1> QED
    BY <1>1, <1>2, <1>3 DEF FakeInit, FakeIInv, FakeTypeOK, FakeAcceptsRetry, Entries, S

LEMMA CreateGood ==
    ASSUME FakeIInv, NEW n \in Names, NEW r \in Ranges, NEW t \in AskedTypes,
           FakeCreateVolume(n, r, t)
    PROVE  FakeIInv'
  <1>1. r \in [required : Nat, limit : Nat]
    BY RangesAssumption
  <1>2. DiskSizeGb(r.required, r.limit) \in Nat
    BY <1>1, DiskSizeIsNat
  <1>3. FakeTypeOK'
    BY <1>1, <1>2 DEF FakeIInv, FakeTypeOK, FakeCreateVolume, Called
  <1>4. FakeAcceptsRetry'
    <2> SUFFICES ASSUME last'.answer = "OK", t # "", Aligned(r.required),
                        r.limit = 0 \/ Satisfiable(r.required, r.limit)
                 PROVE  FakeFits(fdisks'[n], r, t)
      BY DEF FakeAcceptsRetry, FakeCreateVolume, Called
    <2>1. CASE fdisks[n] # 0
      BY <2>1 DEF FakeCreateVolume, Called
    <2>2. CASE fdisks[n] = 0
      <3>1. fdisks'[n] = DiskSizeGb(r.required, r.limit)
        BY <2>2 DEF FakeCreateVolume, FakeIInv, FakeTypeOK
      <3>2. \/ GbToBytes(DiskSizeGb(r.required, r.limit)) >= r.required
            \/ r.required = 0
        BY <1>1, AlignedIsBigEnough
      <3>3. \/ GbToBytes(DiskSizeGb(r.required, r.limit)) <= r.limit
            \/ r.limit = 0
        BY <1>1, NewDiskRespectsLimit DEF LimitIsHonoured
      <3> QED
        BY <3>1, <3>2, <3>3 DEF FakeFits, FakeCapacityFits, TypeFits
    <2> QED
      BY <2>1, <2>2
  <1> QED
    BY <1>3, <1>4 DEF FakeIInv

LEMMA DeleteGood ==
    ASSUME FakeIInv, NEW n \in Names, FakeDeleteVolume(n)
    PROVE  FakeIInv'
  BY DEF FakeIInv, FakeTypeOK, FakeAcceptsRetry,
         FakeDeleteVolume, Answered, Called, AnyRange

\* A call other than CreateVolume: what is left to show is that it keeps the
\* slices well formed.
LEMMA OtherCallGood ==
    ASSUME FakeIInv, NEW n \in Names, NEW rpc, NEW code, Answered(rpc, n, code),
           rpc # "CreateVolume", UNCHANGED fdisks,
           fattached' \in [Instances -> Seq(Entries)],
           \A i \in Instances : NoneTwice(fattached'[i])
    PROVE  FakeIInv'
  BY DEF FakeIInv, FakeTypeOK, FakeAcceptsRetry,
         Answered, Called, AnyRange, NoneTwice, Entries

LEMMA PublishGood ==
    ASSUME FakeIInv, NEW n \in Names, NEW i \in NodeIds, NEW mode \in AttachModes,
           FakePublishVolume(n, i, mode)
    PROVE  FakeIInv'
  <1> DEFINE rpc == "ControllerPublishVolume"
             s == fattached[i]
  <1>0. /\ fattached \in [Instances -> Seq(Entries)]
        /\ \A j \in Instances : NoneTwice(fattached[j])
    BY DEF FakeIInv, FakeTypeOK, NoneTwice, Entries
  <1>1. CASE FakeNotFound(rpc, n, i)
    BY <1>0, <1>1, OtherCallGood DEF FakeNotFound
  <1>2. CASE Found(n, i) /\ ~Holds(s, n) /\ FakeAttach(n, i, mode) /\ UNCHANGED fdisks
    <2>1. [disk |-> n, mode |-> mode] \in Entries /\ s \in Seq(Entries) /\ NoneTwice(s)
      BY <1>0, <1>2 DEF Entries, Found
    <2>2. /\ Append(s, [disk |-> n, mode |-> mode]) \in Seq(Entries)
          /\ NoneTwice(Append(s, [disk |-> n, mode |-> mode]))
      BY <1>2, <2>1, AppendKeepsApart
    <2>3. fattached' = [fattached EXCEPT ![i] = Append(s, [disk |-> n, mode |-> mode])]
      BY <1>2 DEF FakeAttach
    <2>4. /\ fattached' \in [Instances -> Seq(Entries)]
          /\ \A j \in Instances : NoneTwice(fattached'[j])
      BY <1>0, <2>2, <2>3, <1>2 DEF Found
    <2> QED
      BY <1>2, <2>4, OtherCallGood DEF FakeAttach
  <1>3. CASE Found(n, i) /\ Holds(s, n) /\ UNCHANGED <<fdisks, fattached>>
    <2> PICK code : Answered(rpc, n, code)
      BY <1>3 DEF FakePublishVolume, FakeNotFound
    <2> QED
      BY <1>0, <1>3, OtherCallGood
  <1> QED
    BY <1>1, <1>2, <1>3 DEF FakePublishVolume

LEMMA UnpublishGood ==
    ASSUME FakeIInv, NEW n \in Names, NEW i \in NodeIds, FakeUnpublishVolume(n, i)
    PROVE  FakeIInv'
  <1> DEFINE rpc == "ControllerUnpublishVolume"
             s == fattached[i]
  <1>0. /\ fattached \in [Instances -> Seq(Entries)]
        /\ \A j \in Instances : NoneTwice(fattached[j])
    BY DEF FakeIInv, FakeTypeOK, NoneTwice, Entries
  <1>1. CASE FakeNotFound(rpc, n, i)
    BY <1>0, <1>1, OtherCallGood DEF FakeNotFound
  <1>2. CASE Found(n, i) /\ Holds(s, n) /\ FakeDetach(n, i) /\ UNCHANGED fdisks
    <2>1. s \in Seq(Entries) /\ NoneTwice(s) /\ i \in Instances
      BY <1>0, <1>2 DEF Found
    <2>2. Without(s, n) \in Seq(Entries) /\ NoneTwice(Without(s, n))
      BY <1>2, <2>1, WithoutKeepsApart
    <2>3. fattached' = [fattached EXCEPT ![i] = Without(s, n)] /\ Answered(rpc, n, "OK")
      BY <1>2 DEF FakeDetach
    <2>4. /\ fattached' \in [Instances -> Seq(Entries)]
          /\ \A j \in Instances : NoneTwice(fattached'[j])
      BY <1>0, <2>1, <2>2, <2>3
    <2> QED
      BY <1>2, <2>3, <2>4, OtherCallGood
  <1>3. CASE Found(n, i) /\ UNCHANGED <<fdisks, fattached>> /\ Answered(rpc, n, "OK")
    BY <1>0, <1>3, OtherCallGood
  <1> QED
    BY <1>1, <1>2, <1>3 DEF FakeUnpublishVolume

LEMMA FakeStepGood == FakeIInv /\ [FakeNext]_fakeVars => FakeIInv'
  <1> SUFFICES ASSUME FakeIInv, [FakeNext]_fakeVars
               PROVE  FakeIInv'
    OBVIOUS
  <1>1. CASE FakeNext
    BY <1>1, CreateGood, DeleteGood, PublishGood, UnpublishGood DEF FakeNext
  <1>2. CASE UNCHANGED fakeVars
    BY <1>2 DEF fakeVars, FakeIInv, FakeTypeOK, FakeAcceptsRetry,
                FakeFits, FakeCapacityFits
  <1> QED
    BY <1>1, <1>2

THEOREM FakeInvariant == FakeSpec => []FakeIInv
  BY FakeInitGood, FakeStepGood, PTL DEF FakeSpec

\* Over the fake every instance holds a disk at most once, whatever the
\* test calls, deletions of attached disks included.
THEOREM FakeTypeCorrect == FakeSpec => []FakeTypeOK
  <1>1. FakeIInv => FakeTypeOK
    BY DEF FakeIInv
  <1> QED
    BY <1>1, FakeInvariant, PTL

LEMMA OthersStayAtEachStep ==
    ASSUME FakeIInv, FakeNext, NEW i \in Instances, NEW n \in Names, n # last'.disk,
           NEW mode \in AttachModes
    PROVE  HeldAs(fattached[i], n, mode) <=> HeldAs(fattached'[i], n, mode)
  <1>1. /\ fattached \in [Instances -> Seq(Entries)]
        /\ \A j \in Instances : NoneTwice(fattached[j])
    BY DEF FakeIInv, FakeTypeOK, NoneTwice, Entries
  <1>2. CASE UNCHANGED fattached
    BY <1>2
  <1>3. ASSUME NEW d \in Names, NEW j \in NodeIds, NEW how \in AttachModes,
               Found(d, j), FakeAttach(d, j, how)
        PROVE  HeldAs(fattached[i], n, mode) <=> HeldAs(fattached'[i], n, mode)
    <2>1. /\ last'.disk = d /\ j \in Instances
          /\ fattached' = [fattached EXCEPT ![j] = Append(@, [disk |-> d, mode |-> how])]
      BY <1>3 DEF FakeAttach, Answered, Called, Found
    <2>2. fattached[i] \in Seq(Entries) /\ [disk |-> d, mode |-> how] \in Entries
      BY <1>1 DEF Entries
    <2>3. CASE i = j
      BY <1>1, <2>1, <2>2, <2>3, AppendKeepsOthers
    <2>4. CASE i # j
      BY <1>1, <2>1, <2>4
    <2> QED
      BY <2>3, <2>4
  <1>4. ASSUME NEW d \in Names, NEW j \in NodeIds,
               Found(d, j), Holds(fattached[j], d), FakeDetach(d, j)
        PROVE  HeldAs(fattached[i], n, mode) <=> HeldAs(fattached'[i], n, mode)
    <2>1. /\ last'.disk = d /\ j \in Instances
          /\ fattached' = [fattached EXCEPT ![j] = Without(@, d)]
      BY <1>4 DEF FakeDetach, Answered, Called, Found
    <2>2. CASE i = j
      BY <1>1, <1>4, <2>1, <2>2, WithoutKeepsOthers
    <2>3. CASE i # j
      BY <1>1, <2>1, <2>3
    <2> QED
      BY <2>2, <2>3
  <1>5. ASSUME NEW d \in Names, NEW j \in NodeIds, NEW how \in AttachModes,
               FakePublishVolume(d, j, how)
        PROVE  HeldAs(fattached[i], n, mode) <=> HeldAs(fattached'[i], n, mode)
    BY <1>2, <1>3, <1>5 DEF FakePublishVolume, FakeNotFound
  <1>6. ASSUME NEW d \in Names, NEW j \in NodeIds, FakeUnpublishVolume(d, j)
        PROVE  HeldAs(fattached[i], n, mode) <=> HeldAs(fattached'[i], n, mode)
    BY <1>2, <1>4, <1>6 DEF FakeUnpublishVolume, FakeNotFound
  <1> QED
    BY <1>2, <1>5, <1>6 DEF FakeNext, FakeCreateVolume, FakeDeleteVolume

\* Whatever was called before, and wherever in the slice of an instance a
\* disk is, the call for it leaves every other disk attached as it was.
THEOREM OthersAlwaysStay == FakeSpec => OthersStayAttached
  <1>1. FakeIInv /\ [FakeNext]_fakeVars
          => [\A i \in Instances, n \in Names \ {last'.disk}, mode \in AttachModes :
                HeldAs(fattached[i], n, mode) <=> HeldAs(fattached'[i], n, mode)]_fakeVars
    BY OthersStayAtEachStep
  <1> QED
    BY <1>1, FakeInvariant, PTL DEF FakeSpec, OthersStayAttached

\* The fake accepts the retry of every create for whole GiB that names a type
\* and that it answered OK.
THEOREM FakeRetriesAreAccepted == FakeSpec => []FakeAcceptsRetry
  <1>1. FakeIInv => FakeAcceptsRetry
    BY DEF FakeIInv
  <1> QED
    BY <1>1, FakeInvariant, PTL

\* The disk of every create keeps within a satisfiable limit.
THEOREM LimitAlwaysHonoured == FakeSpec => []LimitHonoured
  <1>1. FakeIInv => LimitHonoured
    BY NewDiskRespectsLimit DEF FakeIInv, FakeTypeOK, LimitHonoured
  <1> QED
    BY <1>1, FakeInvariant, PTL

\* The disk of every create is short of the required bytes by less than a GiB.
THEOREM ShortfallAlwaysBounded == FakeSpec => []ShortfallIsBounded
  <1>1. FakeIInv => ShortfallIsBounded
    BY NewDiskNearlyBigEnough DEF FakeIInv, FakeTypeOK, ShortfallIsBounded
  <1> QED
    BY <1>1, FakeInvariant, PTL

\* The disk of every fully bounded create for whole GiB passes the capacity
\* check of the real provider.
THEOREM OwnDiskAlwaysFits == FakeSpec => []RetryFindsOwnDisk
  <1>1. FakeIInv => RetryFindsOwnDisk
    BY RetryAcceptsOwnDisk DEF FakeIInv, FakeTypeOK, RetryFindsOwnDisk
  <1> QED
    BY <1>1, FakeInvariant, PTL
=============================================================================
