-------------------------- MODULE RefinementProofs --------------------------
(***************************************************************************)
(* ControllerServer implements VolumeService, for any set of calls, disks, *)
(* nodes and requests.                                                     *)
(*                                                                         *)
(* The refinement needs two facts beyond the invariant of                  *)
(* ControllerProofs: a disk that is being made has one maker and is as the *)
(* maker asked, and an open call has taken in everything that is true now, *)
(* so that a step which changes nothing abstract adds nothing to its       *)
(* history either.                                                         *)
(***************************************************************************)
EXTENDS ControllerProofs, ControllerRefinement

\* A running operation is a create, and its disk is the one it is making.
Making(c) ==
    ops[c] = "RUNNING" =>
        /\ req[c].rpc = "CreateVolume"
        /\ disks[req[c].disk] =
              Disk("CREATING", DiskSizeGb(req[c].required, req[c].limit), req[c].type)

OneMaker ==
    \A a, b \in Calls :
        (ops[a] = "RUNNING" /\ ops[b] = "RUNNING" /\ req[a].disk = req[b].disk) => a = b

UpToDate(c) == Open(c) => Facts(c) \subseteq saw[c]

RInv == IInv /\ OneMaker /\ \A c \in Calls : Making(c) /\ UpToDate(c)
-----------------------------------------------------------------------------
(* History *)

\* The answers a call is due after a step are those it was due before and
\* those it has earned by the state the step leads to.
LEMMA DueGrows ==
    ASSUME TypeOK', req' = req, NEW c \in Calls, NEW seen
    PROVE  DueFor(req[c], seen \cup Facts(c)') = DueFor(req[c], seen) \cup VS!EarnedNow(req[c])'
  <1> DEFINE r == req[c]
             mode == attached'[r.node][r.disk]
             got == Facts(c)'
             absent == ~VS!There(r.disk)'
             astray == r.node \notin instances' \cap NodesOf[r.disk]
  <1>1. r.rpc \in Rpcs /\ r.disk \in Disks /\ r.node \in Nodes
    <2>1. req[c] \in Requests
      BY DEF TypeOK
    <2> QED
      BY <2>1, RequestsAssumption DEF RequestType
  <1>2. /\ "disk" \in got <=> r.rpc = "CreateVolume" /\ ~absent
        /\ "ready" \in got => r.rpc = "CreateVolume" /\ ~absent
        /\ "misfit" \in got <=>
              r.rpc = "CreateVolume" /\ ~absent /\ ~Compatible(disks'[r.disk], r)
        /\ r.rpc # "CreateVolume" => ("noDisk" \in got <=> absent)
        /\ "inUse" \in got <=> r.rpc = "DeleteVolume" /\ VS!Taken(r.disk)'
        /\ r.rpc = "ControllerPublishVolume" =>
              /\ "served" \in got <=> mode = r.mode
              /\ "clash" \in got <=> mode \notin {"NONE", r.mode}
              /\ "noNode" \in got <=> astray
        /\ r.rpc = "ControllerUnpublishVolume" =>
              /\ "detached" \in got <=> mode = "NONE"
              /\ "noNode" \in got <=> astray
    <2>1. Exists(r.disk)' <=> ~absent
      BY <1>1 DEF Exists, VS!There, Absent, TypeOK, CloudTypeOK, DiskStates
    <2>2. disks'[r.disk].status = "READY" => ~absent
      BY DEF VS!There
    <2>3. InUse(r.disk)' <=> VS!Taken(r.disk)'
      BY DEF InUse, VS!Taken
    <2>4. Fits(r)' <=> Compatible(disks'[r.disk], r)
      BY DEF Fits, Compatible
    <2> HIDE DEF absent
    <2> QED
      BY <1>1, <2>1, <2>2, <2>3, <2>4 DEF Facts, FactsFor, Rpcs
  <1>3. ASSUME NEW code
        PROVE  code \in VS!EarnedNow(r)' <=>
                 \/ /\ code = "OK"
                    /\ \/ r.rpc = "CreateVolume" /\ ~absent
                       \/ r.rpc = "DeleteVolume" /\ absent
                       \/ r.rpc = "ControllerPublishVolume" /\ mode = r.mode
                       \/ r.rpc = "ControllerUnpublishVolume" /\ mode = "NONE"
                 \/ /\ code = "NotFound"
                    /\ r.rpc \in {"ControllerPublishVolume", "ControllerUnpublishVolume"}
                    /\ absent \/ astray
                 \/ /\ code = "AlreadyExists"
                    /\ \/ /\ r.rpc = "CreateVolume" /\ ~absent
                          /\ ~Compatible(disks'[r.disk], r)
                       \/ r.rpc = "ControllerPublishVolume" /\ mode \notin {"NONE", r.mode}
                 \/ code = "FailedPrecondition" /\ r.rpc = "DeleteVolume" /\ VS!Taken(r.disk)'
    BY DEF VS!EarnedNow, VS!Definite, VS!IsPublish, VS!IsUnpublish
  <1> HIDE DEF r, mode, got, absent, astray
  <1>4. ASSUME NEW code
        PROVE  code \in DueFor(r, seen \cup got) <=>
               code \in DueFor(r, seen) \/ code \in VS!EarnedNow(r)'
    BY <1>1, <1>2, <1>3 DEF DueFor, Rpcs
  <1> QED
    BY <1>4 DEF r, got

LEMMA WatchRefines ==
    ASSUME TypeOK', Observe
    PROVE  VS!Watch
  <1>1. /\ req' = req
        /\ saw' = [c \in Calls |-> IF Open(c) \/ Open(c)' THEN saw[c] \cup Facts(c)' ELSE saw[c]]
    BY DEF Observe
  <1>2. ASSUME NEW c \in Calls
        PROVE  /\ "open" \in {StageOf(c), StageOf(c)'} <=> Open(c) \/ Open(c)'
               /\ DueFor(req[c], saw[c] \cup Facts(c)')
                     = DueFor(req[c], saw[c]) \cup VS!EarnedNow(req[c])'
    <2>1. "open" \in {StageOf(c), StageOf(c)'} <=> Open(c) \/ Open(c)'
      BY DEF StageOf, Open, Opened, Mutating
    <2> QED
      BY <1>1, <2>1, DueGrows
  <1> QED
    BY <1>1, <1>2 DEF VS!Watch

\* A step that shows nothing of itself: the clients' view stands still.
LEMMA Invisible ==
    ASSUME TypeOK, Observe, \A c \in Calls : UpToDate(c),
           disks' = disks, instances' = instances, attached' = attached, res' = res,
           \A c \in Calls : StageOf(c)' = StageOf(c) /\ EffectOf(c)' = EffectOf(c)
    PROVE  UNCHANGED VS!service
  <1>1. /\ req' = req
        /\ saw' = [c \in Calls |-> IF Open(c) \/ Open(c)' THEN saw[c] \cup Facts(c)' ELSE saw[c]]
    BY DEF Observe
  <1>2. ASSUME NEW c \in Calls PROVE saw'[c] = saw[c]
    <2>1. Facts(c)' = Facts(c)
      BY <1>1 DEF Facts, Exists, Fits, InRange, InUse
    <2>2. Open(c)' <=> Open(c)
      BY DEF StageOf, Open, Opened, Mutating
    <2> QED
      BY <1>1, <2>1, <2>2 DEF UpToDate
  <1>3. \A c \in Calls : DueFor(req[c], saw[c])' = DueFor(req[c], saw[c])
    BY <1>1, <1>2
  <1> QED
    BY <1>1, <1>3 DEF VS!service

\* What the other calls look like after a step of call c.
LEMMA OthersLookTheSame ==
    ASSUME NEW c \in Calls, OnlyMoves(c)
    PROVE  \A e \in Calls \ {c} : /\ StageOf(e)' = StageOf(e) /\ EffectOf(e)' = EffectOf(e)
                                  /\ res'[e] = res[e]
  BY DEF OnlyMoves, StageOf, EffectOf, Open

\* A handler that answers closes its call.
LEMMA AnswerCloses ==
    ASSUME TypeOK, NEW c \in Calls, NEW code, OnlyMoves(c), Answer(c, code),
           disks' = disks, instances' = instances, attached' = attached
    PROVE  VS!Close(c) /\ VS!Says(c, code)
  <1>1. pc'[c] = "done" /\ res' = [res EXCEPT ![c] = code]
    BY DEF Answer, TypeOK
  <1>2. StageOf(c)' = "closed"
    BY <1>1 DEF StageOf, Open, Opened, Mutating
  <1> QED
    BY <1>1, <1>2, OthersLookTheSame DEF VS!Close, VS!Says, VS!world
-----------------------------------------------------------------------------
(* The steps *)

LEMMA InitRefines == Init => VS!VInit
  <1> SUFFICES ASSUME Init PROVE VS!VInit
    OBVIOUS
  <1>1. \A r : DueFor(r, {}) = {}
    BY DEF DueFor
  <1>2. \A c \in Calls : StageOf(c) = "idle" /\ EffectOf(c) = "possible"
    BY DEF Init, CloudInit, StageOf, EffectOf
  <1>3. \A c \in Calls : saw[c] = {}
    BY DEF Init
  <1> QED
    BY <1>1, <1>2, <1>3 DEF Init, CloudInit, VS!VInit

LEMMA InvokeRefines ==
    ASSUME RInv, TypeOK', NEW c \in Calls, Invoke(c)
    PROVE  VS!Begin(c) \/ VS!TurnAway(c)
  <1>1. TypeOK /\ OnlyMoves(c) /\ CallOK(c)
    BY InvokeKeeps DEF RInv, IInv
  <1>2. /\ pc[c] = "idle" /\ Observe /\ ops' = ops
        /\ disks' = disks /\ instances' = instances /\ attached' = attached
    BY DEF Invoke, CreateVolume, DeleteVolume, ControllerPublishVolume,
           ControllerUnpublishVolume, Enter, cloud
  <1>3. ops[c] = "NONE"
    BY <1>1, <1>2 DEF CallOK, Evidence
  <1>4. VS!Watch
    BY <1>2, WatchRefines
  <1>5. StageOf(c) = "idle"
    BY <1>2 DEF StageOf
  <1>6. req[c].args \in {"valid", "missing", "badId"}
    BY <1>1, RequestFields, TypeOKParts
  <1>7. \/ \E code \in VS!ArgumentsEarn(req[c]) : Answer(c, code)
        \/ VS!ArgumentsEarn(req[c]) = {} /\ \E next \in Opened : Goto(c, next)
    <2>1. CASE CreateVolume(c)
      BY <1>6, <2>1 DEF CreateVolume, Enter, VS!ArgumentsEarn, VS!IsPublish, VS!IsUnpublish, Opened
    <2>2. CASE DeleteVolume(c)
      BY <1>6, <2>2 DEF DeleteVolume, Enter, CheckArguments, VS!ArgumentsEarn, VS!IsPublish, VS!IsUnpublish, Opened, Mutating
    <2>3. CASE ControllerPublishVolume(c)
      BY <1>6, <2>3 DEF ControllerPublishVolume, Enter, CheckArguments, VS!ArgumentsEarn, VS!IsPublish, VS!IsUnpublish, Opened
    <2>4. CASE ControllerUnpublishVolume(c)
      BY <1>6, <2>4 DEF ControllerUnpublishVolume, Enter, CheckArguments, VS!ArgumentsEarn, VS!IsPublish, VS!IsUnpublish, Opened
    <2> QED
      BY <2>1, <2>2, <2>3, <2>4 DEF Invoke
  <1>8. CASE \E code \in VS!ArgumentsEarn(req[c]) : Answer(c, code)
    <2>1. PICK code \in VS!ArgumentsEarn(req[c]) : Answer(c, code)
      BY <1>8
    <2>2. VS!Close(c) /\ VS!Says(c, code)
      BY <1>1, <1>2, <2>1, AnswerCloses
    <2>3. EffectOf(c)' = "never"
      BY <1>1, <1>2, <1>3, <2>1 DEF EffectOf, Answer, TypeOK
    <2> QED
      BY <1>1, <1>4, <1>5, <2>1, <2>2, <2>3, OthersLookTheSame DEF VS!TurnAway
  <1>9. CASE VS!ArgumentsEarn(req[c]) = {} /\ \E next \in Opened : Goto(c, next)
    <2>1. pc'[c] \in Opened /\ res' = res
      BY <1>1, <1>9 DEF Goto, TypeOK
    <2>2. StageOf(c)' = "open" /\ EffectOf(c)' = EffectOf(c)
      BY <1>2, <1>3, <2>1 DEF StageOf, EffectOf, Open, Opened, Mutating
    <2> QED
      BY <1>1, <1>2, <1>4, <1>5, <1>9, <2>1, <2>2, OthersLookTheSame DEF VS!Begin, VS!world
  <1> QED
    BY <1>7, <1>8, <1>9

\* The codes each method answers with, once it is past its arguments.
AnswersOf(r) ==
    {"OK", "Internal"} \cup
    CASE r.rpc = "CreateVolume"              -> {"AlreadyExists"}
      [] r.rpc = "DeleteVolume"              -> {"FailedPrecondition"}
      [] r.rpc = "ControllerPublishVolume"   -> {"NotFound", "AlreadyExists"}
      [] r.rpc = "ControllerUnpublishVolume" -> {"NotFound"}

\* How a handler step ends: it goes on, or it answers; and what it may do to
\* its operation.
LEMMA ServeEnds ==
    ASSUME RInv, NEW c \in Calls, Serve(c)
    PROVE  /\ \/ \E next \in Opened : Goto(c, next)
              \/ \E code \in AnswersOf(req[c]) : Answer(c, code)
           /\ ops'[c] = ops[c] \/ (ops[c] = "NONE" /\ ops'[c] = "PENDING")
  <1>0. /\ TypeOK /\ CallOK(c)
    BY DEF RInv, IInv
  <1>1. /\ PcOK(c) /\ Evidence(c) /\ req[c].rpc \in Rpcs
    BY <1>0, TypeOKParts, RequestFields DEF CallOK
  <1>2. \/ \E next \in Opened : Goto(c, next)
        \/ \E code \in AnswersOf(req[c]) : Answer(c, code)
    <2>1. CASE CreateGet(c) \/ CreateInsert(c) \/ CreateRecheck(c)
      BY <1>1, <2>1 DEF CreateGet, CreateInsert, CreateRecheck, PcOK, AnswersOf, Opened, Mutating
    <2>2. CASE DeleteIssue(c)
      BY <1>1, <2>2 DEF DeleteIssue, PcOK, AnswersOf, Opened
    <2>3. CASE GetDiskOrError(c)
      BY <1>1, <2>3 DEF GetDiskOrError, PcOK, AnswersOf, Opened
    <2>4. CASE GetInstanceOrError(c)
      BY <1>1, <2>4 DEF GetInstanceOrError, diskIsAttachedAndCompatible, diskIsAttached, PcOK,
                        AnswersOf, Opened, Mutating
    <2>5. CASE PublishAttach(c) \/ UnpublishDetach(c)
      BY <2>5 DEF PublishAttach, UnpublishDetach, AnswersOf, Opened
    <2>6. CASE WaitDone(c) \/ WaitPollError(c) \/ WaitTimeout(c)
      BY <2>6 DEF WaitDone, WaitPollError, WaitTimeout, AnswersOf
    <2> QED
      BY <2>1, <2>2, <2>3, <2>4, <2>5, <2>6 DEF Serve, Progress
  <1>3. ops'[c] = ops[c] \/ (ops[c] = "NONE" /\ ops'[c] = "PENDING")
    <2>1. \/ ops' = ops
          \/ pc[c] \notin {"wait", "done"} /\ \E reply : Submit(c, reply)
      BY DEF Serve, Progress, CreateGet, CreateInsert, CreateRecheck, DeleteIssue,
             GetDiskOrError, GetInstanceOrError, PublishAttach, UnpublishDetach, WaitDone,
             WaitPollError, WaitTimeout, cloud
    <2> QED
      BY <1>0, <1>1, <2>1 DEF Evidence, Submit, TypeOK, CloudTypeOK
  <1> QED
    BY <1>2, <1>3

LEMMA ServeRefines ==
    ASSUME RInv, TypeOK', NEW c \in Calls, Serve(c)
    PROVE  VS!Answer(c) \/ UNCHANGED VS!service
  <1>1. /\ TypeOK /\ CallOK(c) /\ CallOK(c)' /\ Open(c) /\ OnlyMoves(c)
        /\ req' = req /\ saw'[c] = saw[c] \cup Facts(c)'
        /\ disks' = disks /\ instances' = instances /\ attached' = attached
    BY ServeFrame, ServeKeeps DEF RInv
  <1>2. Observe
    BY DEF Serve, Progress, CreateGet, CreateInsert, CreateRecheck, DeleteIssue, GetDiskOrError,
           GetInstanceOrError, PublishAttach, UnpublishDetach, WaitDone, WaitPollError,
           WaitTimeout
  <1>3. ops'[c] = ops[c] \/ (ops[c] = "NONE" /\ ops'[c] = "PENDING")
    BY ServeEnds
  <1>4. StageOf(c) = "open" /\ pc[c] # "done"
    BY <1>1 DEF StageOf, Open, Opened, Mutating
  <1>5. CASE \E next \in Opened : Goto(c, next)
    <2>1. pc'[c] \in Opened /\ res' = res
      BY <1>1, <1>5 DEF Goto, TypeOK
    <2>2. StageOf(c)' = StageOf(c) /\ EffectOf(c)' = EffectOf(c)
      BY <1>3, <1>4, <2>1 DEF StageOf, EffectOf, Open, Opened, Mutating
    <2>3. \A e \in Calls : UpToDate(e)
      BY DEF RInv
    <2> QED
      BY <1>1, <1>2, <2>1, <2>2, <2>3, OthersLookTheSame, Invisible
  <1>6. ASSUME NEW code \in AnswersOf(req[c]), Answer(c, code)
        PROVE  VS!Answer(c)
    <2>1. VS!Close(c) /\ VS!Says(c, code) /\ VS!Watch
      BY <1>1, <1>2, <1>6, AnswerCloses, WatchRefines
    <2>2. pc'[c] = "done" /\ res'[c] = code
      BY <1>1, <1>6 DEF Answer, TypeOK
    <2>3. Earned(c)' /\ Truthful(c)' /\ Final(c)'
      BY <1>1 DEF CallOK
    <2>4. ops[c] \in OpStates
      BY <1>1 DEF TypeOK, CloudTypeOK
    <2>5. \A e \in Calls \ {c} : EffectOf(e)' = EffectOf(e)
      BY <1>1, OthersLookTheSame
    <2>6. CASE code = "OK"
      <3>1. ops'[c] \in {"NONE", "DONE", "FAILED"} /\ ops'[c] = ops[c]
        BY <1>3, <2>2, <2>3, <2>4, <2>6 DEF Final, Over, OpStates
      <3>2. EffectOf(c) # "begun"
        BY <3>1 DEF EffectOf
      <3>3. EffectOf(c)' = IF EffectOf(c) = "possible" THEN "never" ELSE EffectOf(c)
        BY <1>4, <2>2, <3>1 DEF EffectOf
      <3>4. "OK" \in DueFor(req[c], saw[c])' \/ EffectOf(c) = "botched"
        <4>1. CASE ops'[c] = "FAILED"
          BY <3>1, <4>1 DEF EffectOf
        <4>2. CASE ops'[c] # "FAILED"
          <5>1. Promised(req[c], saw'[c], ops'[c])
            BY <1>1, <2>2, <2>3, <2>6, <4>2 DEF Earned
          <5>2. req[c].rpc \in Rpcs /\ (req[c].rpc = "DeleteVolume" => req[c].args # "badId")
            BY <1>1, TypeOKParts, RequestFields DEF CallOK, PcOK
          <5> QED
            BY <1>1, <5>1, <5>2 DEF Promised, DueFor, Rpcs
        <4> QED
          BY <4>1, <4>2
      <3>5. VS!Settle(c)
        BY <2>5, <3>3 DEF VS!Settle
      <3>6. VS!AnswerOK(c)
        BY <2>1, <2>6, <3>2, <3>4, <3>5 DEF VS!AnswerOK
      <3> QED
        BY <1>4, <2>1, <3>6 DEF VS!Answer
    <2>7. CASE code = "Internal"
      <3>1. \/ EffectOf(c)' = EffectOf(c)
            \/ EffectOf(c)' = IF EffectOf(c) = "possible" THEN "never" ELSE EffectOf(c)
        BY <1>3, <1>4, <2>2, <2>4 DEF EffectOf, OpStates
      <3>2. VS!Settle(c) \/ UNCHANGED [e \in Calls |-> EffectOf(e)]
        BY <2>5, <3>1 DEF VS!Settle
      <3>3. VS!LeaveOpen(c)
        BY <2>1, <2>7, <3>2 DEF VS!LeaveOpen, VS!Unsure
      <3> QED
        BY <1>4, <2>1, <3>3 DEF VS!Answer
    <2>8. CASE code \notin {"OK", "Internal"}
      <3>1. code \in {"NotFound", "AlreadyExists", "FailedPrecondition"}
        BY <1>6, <2>8, <1>1, TypeOKParts, RequestFields DEF AnswersOf, Rpcs
      <3>2. ops'[c] = "NONE" /\ ops[c] = "NONE"
        BY <1>3, <2>2, <2>3, <3>1 DEF Final, Over
      <3>3. EffectOf(c) = "possible" /\ EffectOf(c)' = "never"
        BY <1>4, <2>2, <3>2 DEF EffectOf
      <3>4. code \in DueFor(req[c], saw[c])'
        <4>1. req[c].rpc \in Rpcs
          BY <1>1, TypeOKParts, RequestFields
        <4> QED
          BY <1>1, <1>6, <2>2, <2>3, <3>1, <4>1 DEF Truthful, DueFor, AnswersOf, Rpcs
      <3>5. VS!Settle(c)
        BY <2>5, <3>3 DEF VS!Settle
      <3>6. VS!Refuse(c)
        BY <2>1, <3>1, <3>3, <3>4, <3>5 DEF VS!Refuse, VS!Definite
      <3> QED
        BY <1>4, <2>1, <3>6 DEF VS!Answer
    <2> QED
      BY <2>6, <2>7, <2>8
  <1> QED
    BY <1>5, <1>6, ServeEnds

LEMMA LeavingRefines ==
    ASSUME RInv, TypeOK', NEW c \in Calls, Abandon(c) \/ OrphanLands(c)
    PROVE  VS!Answer(c) \/ VS!TakeEffect(c) \/ UNCHANGED VS!service
  <1>1. /\ TypeOK /\ CallOK(c) /\ OnlyMoves(c) /\ Observe
        /\ disks' = disks /\ instances' = instances /\ attached' = attached
    BY LeavingKeeps DEF RInv, IInv, Abandon, OrphanLands, cloud
  <1>2. VS!Watch /\ ops[c] \in OpStates
    BY <1>1, WatchRefines DEF TypeOK, CloudTypeOK
  <1>3. \A e \in Calls \ {c} : /\ StageOf(e)' = StageOf(e) /\ EffectOf(e)' = EffectOf(e)
                               /\ res'[e] = res[e]
    BY <1>1, OthersLookTheSame
  <1>4. CASE Abandon(c)
    <2>1. /\ pc'[c] = IF pc[c] \in Mutating THEN "orphan" ELSE "done"
          /\ res' = [res EXCEPT ![c] = "NoAnswer"] /\ ops' = ops /\ Open(c)
      BY <1>1, <1>4 DEF Abandon, TypeOK, cloud
    <2>2. StageOf(c) = "open" /\ StageOf(c)' = "closed"
      BY <2>1 DEF StageOf, Open, Opened, Mutating
    <2>3. \/ EffectOf(c)' = EffectOf(c)
          \/ EffectOf(c)' = IF EffectOf(c) = "possible" THEN "never" ELSE EffectOf(c)
      BY <1>2, <2>1 DEF EffectOf, OpStates, Open, Opened, Mutating
    <2>4. VS!Settle(c) \/ UNCHANGED [e \in Calls |-> EffectOf(e)]
      BY <1>3, <2>3 DEF VS!Settle
    <2>5. VS!LeaveOpen(c)
      BY <2>1, <2>4 DEF VS!LeaveOpen, VS!Says, VS!Unsure
    <2>6. VS!Close(c)
      BY <1>1, <1>3, <2>2 DEF VS!Close, VS!world
    <2> QED
      BY <1>2, <2>2, <2>5, <2>6 DEF VS!Answer
  <1>5. CASE OrphanLands(c)
    <2>1. pc[c] = "orphan" /\ pc'[c] = "done" /\ res' = res /\ \E reply : Submit(c, reply)
      BY <1>1, <1>5 DEF OrphanLands, Goto, TypeOK
    <2>2. ops[c] = "NONE" /\ ops'[c] \in {"NONE", "PENDING"}
      BY <1>1, <2>1 DEF CallOK, Evidence, Submit, TypeOK, CloudTypeOK
    <2>3. StageOf(c) = "closed" /\ StageOf(c)' = "closed"
      BY <2>1 DEF StageOf, Open, Opened, Mutating
    <2>4. CASE ops'[c] = "PENDING"
      <3>1. EffectOf(c)' = EffectOf(c)
        BY <2>1, <2>2, <2>4 DEF EffectOf
      <3>2. \A e \in Calls : UpToDate(e)
        BY DEF RInv
      <3> QED
        BY <1>1, <1>3, <2>1, <2>3, <3>1, <3>2, Invisible
    <2>5. CASE ops'[c] = "NONE"
      <3>1. EffectOf(c) = "possible" /\ EffectOf(c)' = "never"
        BY <2>1, <2>2, <2>5 DEF EffectOf
      <3>2. VS!Fizzle(c)
        BY <1>1, <1>3, <2>3, <3>1 DEF VS!Fizzle, VS!world
      <3> QED
        BY <1>2, <1>3, <2>1, <2>3, <3>2 DEF VS!TakeEffect
    <2> QED
      BY <2>2, <2>4, <2>5
  <1> QED
    BY <1>4, <1>5

LEMMA OperationRefines ==
    ASSUME RInv, TypeOK', NEW c \in Calls, OperationStep(c)
    PROVE  VS!TakeEffect(c)
  <1> DEFINE r == req[c]
             gb == DiskSizeGb(r.required, r.limit)
  <1>1. /\ TypeOK /\ CallOK(c) /\ OnlyMoves(c) /\ Observe /\ Making(c)
        /\ pc' = pc /\ res' = res
    BY OperationKeeps DEF RInv, IInv, OperationStep
  <1>2. VS!Watch /\ r.disk \in Disks /\ r.node \in Nodes
    BY <1>1, WatchRefines, TypeOKParts, RequestFields
  <1>3. \A e \in Calls \ {c} : EffectOf(e)' = EffectOf(e)
    BY <1>1, OthersLookTheSame
  <1>4. \A e \in Calls : StageOf(e)' = StageOf(e)
    BY <1>1 DEF StageOf, Open
  <1>5. ops[c] \in {"PENDING", "RUNNING"} /\ StageOf(c) # "idle"
    <2>1. ops[c] \in {"PENDING", "RUNNING"}
      BY DEF OperationStep, InsertWorks, InsertBegins, InsertCompletes, InsertFails, DeleteWorks,
             DeleteCompletes, AttachWorks, AttachCompletes, DetachWorks, DetachCompletes, OpFails
    <2> QED
      BY <1>1, <2>1 DEF CallOK, Evidence, StageOf
  <1>6. CASE InsertBegins(c, r.disk, gb, r.type) /\ r.rpc = "CreateVolume"
    <2>1. ops[c] = "PENDING" /\ ops'[c] = "RUNNING" /\ ~Exists(r.disk)
      BY <1>1, <1>6 DEF InsertBegins, TypeOK, CloudTypeOK
    <2>2. EffectOf(c) = "possible" /\ EffectOf(c)' = "begun"
      BY <2>1 DEF EffectOf
    <2>3. ~VS!There(r.disk)
      BY <2>1 DEF Exists, VS!There, Absent
    <2>4. /\ disks'[r.disk].status = "CREATING" /\ disks'[r.disk].type = r.type
          /\ \A e \in Disks \ {r.disk} : disks'[e] = disks[e]
          /\ UNCHANGED <<instances, attached>>
      BY <1>1, <1>2, <1>6 DEF InsertBegins, Disk, TypeOK, CloudTypeOK
    <2>5. VS!Make(c)
      BY <1>3, <1>6, <2>2, <2>3, <2>4 DEF VS!Make
    <2> QED
      BY <1>1, <1>2, <1>4, <1>5, <2>5 DEF VS!TakeEffect
  <1>7. CASE InsertCompletes(c, r.disk, gb, r.type) /\ r.rpc = "CreateVolume"
    <2>1. ops[c] = "RUNNING" /\ ops'[c] = "DONE"
      BY <1>1, <1>7 DEF InsertCompletes, TypeOK, CloudTypeOK
    <2>2. EffectOf(c) = "begun" /\ EffectOf(c)' = "done"
      BY <2>1 DEF EffectOf
    <2> HIDE DEF gb
    <2>3. disks[r.disk] = Disk("CREATING", gb, r.type) /\ disks'[r.disk] = Disk("READY", gb, r.type)
      BY <1>1, <1>2, <1>7, <2>1 DEF Making, InsertCompletes, TypeOK, CloudTypeOK, gb
    <2>4. /\ disks[r.disk].status = "CREATING"
          /\ disks'[r.disk] = [disks[r.disk] EXCEPT !.status = "READY"]
      BY <2>3 DEF Disk
    <2>5. /\ \A e \in Disks \ {r.disk} : disks'[e] = disks[e]
          /\ UNCHANGED <<instances, attached>>
      BY <1>1, <1>2, <1>7 DEF InsertCompletes, TypeOK, CloudTypeOK
    <2>6. VS!Make(c)
      BY <1>3, <1>7, <2>2, <2>4, <2>5 DEF VS!Make
    <2> QED
      BY <1>1, <1>2, <1>4, <1>5, <2>6 DEF VS!TakeEffect
  <1>8. CASE InsertFails(c, r.disk) /\ r.rpc = "CreateVolume"
    <2>1. ops[c] = "RUNNING" /\ ops'[c] = "FAILED"
      BY <1>1, <1>8 DEF InsertFails, TypeOK, CloudTypeOK
    <2>2. EffectOf(c) = "begun" /\ EffectOf(c)' = "botched"
      BY <2>1 DEF EffectOf
    <2>3. disks[r.disk].status = "CREATING"
      BY <1>1, <2>1 DEF Making, Disk
    <2>4. /\ disks'[r.disk].status = "ABSENT"
          /\ \A e \in Disks \ {r.disk} : disks'[e] = disks[e]
          /\ UNCHANGED <<instances, attached>>
      BY <1>1, <1>2, <1>8 DEF InsertFails, Absent, TypeOK, CloudTypeOK
    <2>5. VS!Make(c)
      BY <1>3, <1>8, <2>2, <2>3, <2>4 DEF VS!Make
    <2> QED
      BY <1>1, <1>2, <1>4, <1>5, <2>5 DEF VS!TakeEffect
  <1>9. ASSUME ops[c] = "PENDING", ops'[c] = "DONE"
         PROVE  EffectOf(c) = "possible" /\ EffectOf(c)' = "done"
    BY <1>9 DEF EffectOf
  <1>10. CASE DeleteWorks(c)
    <2>1. /\ r.rpc = "DeleteVolume" /\ ops[c] = "PENDING" /\ ops'[c] = "DONE"
          /\ disks[r.disk].status = "READY" /\ ~VS!Taken(r.disk)
          /\ disks'[r.disk].status = "ABSENT"
          /\ \A e \in Disks \ {r.disk} : disks'[e] = disks[e]
          /\ UNCHANGED <<instances, attached>>
      BY <1>1, <1>2, <1>10
         DEF DeleteWorks, DeleteCompletes, Absent, InUse, VS!Taken, TypeOK, CloudTypeOK
    <2>2. VS!Remove(c)
      BY <1>3, <1>9, <2>1 DEF VS!Remove
    <2> QED
      BY <1>1, <1>2, <1>4, <1>5, <2>2 DEF VS!TakeEffect
  <1>11. CASE AttachWorks(c)
    <2>1. /\ VS!IsPublish(r) /\ ops[c] = "PENDING" /\ ops'[c] = "DONE"
          /\ CanAttach(r.disk, r.node, r.mode)
          /\ attached' = [attached EXCEPT ![r.node][r.disk] = r.mode]
          /\ UNCHANGED <<disks, instances>>
      BY <1>1, <1>11 DEF AttachWorks, AttachCompletes, VS!IsPublish, TypeOK, CloudTypeOK
    <2>2. /\ disks[r.disk].status = "READY" /\ r.node \in instances
          /\ attached[r.node][r.disk] = "NONE"
          /\ r.mode = "READ_WRITE" => ~VS!Taken(r.disk)
      BY <2>1 DEF CanAttach, VS!Taken
    <2>3. VS!Attach(c)
      BY <1>3, <1>9, <2>1, <2>2 DEF VS!Attach
    <2> QED
      BY <1>1, <1>2, <1>4, <1>5, <2>3 DEF VS!TakeEffect
  <1>12. CASE DetachWorks(c)
    <2>1. /\ VS!IsUnpublish(r) /\ ops[c] = "PENDING" /\ ops'[c] = "DONE"
          /\ attached[r.node][r.disk] # "NONE"
          /\ attached' = [attached EXCEPT ![r.node][r.disk] = "NONE"]
          /\ UNCHANGED <<disks, instances>>
      BY <1>1, <1>12 DEF DetachWorks, DetachCompletes, VS!IsUnpublish, TypeOK, CloudTypeOK
    <2>2. VS!Detach(c)
      BY <1>3, <1>9, <2>1 DEF VS!Detach
    <2> QED
      BY <1>1, <1>2, <1>4, <1>5, <2>2 DEF VS!TakeEffect
  <1>13. CASE OpFails(c)
    <2>1. /\ ops[c] = "PENDING" /\ ops'[c] = "FAILED"
          /\ UNCHANGED <<disks, instances, attached>>
      BY <1>1, <1>13 DEF OpFails, TypeOK, CloudTypeOK
    <2>2. EffectOf(c) = "possible" /\ EffectOf(c)' = "botched"
      BY <2>1 DEF EffectOf
    <2>3. VS!Fizzle(c)
      BY <1>3, <2>1, <2>2 DEF VS!Fizzle, VS!world
    <2> QED
      BY <1>1, <1>2, <1>4, <1>5, <2>3 DEF VS!TakeEffect
  <1> QED
    BY <1>6, <1>7, <1>8, <1>10, <1>11, <1>12, <1>13 DEF OperationStep, InsertWorks

LEMMA InstanceRefines ==
    ASSUME RInv, TypeOK', NEW n \in Nodes, InstanceGoes(n)
    PROVE  VS!NodeGoes(n)
  <1>1. Observe /\ pc' = pc /\ res' = res /\ ops' = ops /\ disks' = disks
    BY DEF InstanceGoes, DeleteInstance
  <1>2. \A e \in Calls : StageOf(e)' = StageOf(e) /\ EffectOf(e)' = EffectOf(e)
    BY <1>1 DEF StageOf, EffectOf, Open
  <1> QED
    BY <1>1, <1>2, WatchRefines DEF InstanceGoes, DeleteInstance, VS!NodeGoes
-----------------------------------------------------------------------------
(* The invariant *)

\* A step that leaves the disks alone and sets no operation running.
LEMMA MakingIsQuiet ==
    ASSUME OneMaker, \A c \in Calls : Making(c), req' = req, disks' = disks,
           \A c \in Calls : ops'[c] = "RUNNING" => ops[c] = "RUNNING"
    PROVE  OneMaker' /\ \A c \in Calls : Making(c)'
  BY DEF OneMaker, Making

LEMMA OperationMakes ==
    ASSUME RInv, NEW c \in Calls, OperationStep(c)
    PROVE  OneMaker' /\ \A e \in Calls : Making(e)'
  <1> DEFINE r == req[c]
             gb == DiskSizeGb(r.required, r.limit)
  <1>1. TypeOK /\ OnlyMoves(c) /\ req' = req /\ r.disk \in Disks
    BY OperationKeeps, HistoryGrows, TypeOKParts, RequestFields DEF RInv, IInv
  <1>2. OneMaker /\ \A e \in Calls : Making(e)
    BY DEF RInv
  <1>3. \A e \in Calls \ {c} : ops'[e] = ops[e]
    BY <1>1 DEF OnlyMoves
  <1>4. ASSUME disks[r.disk].status = "READY" \/ disks[r.disk] = Absent,
               NEW e \in Calls, ops[e] = "RUNNING"
        PROVE  req[e].disk # r.disk
    <2>1. disks[req[e].disk].status = "CREATING"
      <3>1. Making(e) /\ ops[e] = "RUNNING"
        BY <1>2, <1>4
      <3> QED
        BY <3>1 DEF Making, Disk
    <2>2. disks[r.disk].status # "CREATING"
      BY <1>4 DEF Absent
    <2> HIDE DEF r
    <2> QED
      BY <2>1, <2>2
  <1>5. CASE InsertBegins(c, r.disk, gb, r.type) /\ r.rpc = "CreateVolume"
    <2> HIDE DEF gb
    <2>1. /\ disks[r.disk] = Absent /\ ops'[c] = "RUNNING"
          /\ disks' = [disks EXCEPT ![r.disk] = Disk("CREATING", gb, r.type)]
      BY <1>1, <1>5 DEF InsertBegins, Exists, TypeOK, CloudTypeOK
    <2>2. \A e \in Calls \ {c} : ops'[e] = "RUNNING" => req[e].disk # r.disk
      BY <1>3, <1>4, <2>1
    <2>3. OneMaker'
      BY <1>1, <1>2, <1>3, <2>2 DEF OneMaker
    <2>4. disks'[r.disk] = Disk("CREATING", gb, r.type)
      BY <1>1, <2>1 DEF TypeOK, CloudTypeOK
    <2>5. Making(c)'
      BY <1>1, <1>5, <2>4 DEF Making, gb
    <2>6. \A e \in Calls \ {c} : Making(e)'
      BY <1>1, <1>2, <1>3, <2>1, <2>2 DEF Making, TypeOK, CloudTypeOK
    <2> QED
      BY <2>3, <2>5, <2>6
  <1>6. CASE InsertCompletes(c, r.disk, gb, r.type) \/ InsertFails(c, r.disk)
    <2> HIDE DEF gb
    <2>1. /\ ops[c] = "RUNNING" /\ ops'[c] # "RUNNING"
          /\ \A d \in Disks \ {r.disk} : disks'[d] = disks[d]
      BY <1>1, <1>6 DEF InsertCompletes, InsertFails, TypeOK, CloudTypeOK
    <2>2. \A e \in Calls : ops'[e] = "RUNNING" => ops[e] = "RUNNING" /\ req[e].disk # r.disk
      BY <1>2, <1>3, <2>1 DEF OneMaker
    <2>3. \A e \in Calls : req[e].disk \in Disks
      BY <1>1, TypeOKParts, RequestFields
    <2> QED
      BY <1>1, <1>2, <2>1, <2>2, <2>3 DEF OneMaker, Making
  <1>7. CASE DeleteWorks(c)
    <2>1. /\ disks[r.disk].status = "READY" /\ ops'[c] # "RUNNING"
          /\ \A d \in Disks \ {r.disk} : disks'[d] = disks[d]
      BY <1>1, <1>7 DEF DeleteWorks, DeleteCompletes, TypeOK, CloudTypeOK
    <2>2. \A e \in Calls : ops'[e] = "RUNNING" => ops[e] = "RUNNING" /\ req[e].disk # r.disk
      BY <1>3, <1>4, <2>1
    <2>3. \A e \in Calls : req[e].disk \in Disks
      BY <1>1, TypeOKParts, RequestFields
    <2> QED
      BY <1>1, <1>2, <2>1, <2>2, <2>3 DEF OneMaker, Making
  <1>8. CASE AttachWorks(c) \/ DetachWorks(c) \/ OpFails(c)
    <2>1. disks' = disks /\ ops'[c] # "RUNNING"
      BY <1>1, <1>8 DEF AttachWorks, AttachCompletes, DetachWorks, DetachCompletes, OpFails,
                        TypeOK, CloudTypeOK
    <2> QED
      BY <1>1, <1>2, <1>3, <2>1, MakingIsQuiet
  <1> QED
    BY <1>5, <1>6, <1>7, <1>8 DEF OperationStep, InsertWorks

LEMMA RInit == Init => RInv
  <1> SUFFICES ASSUME Init PROVE RInv
    OBVIOUS
  <1>1. \A c \in Calls : ops[c] = "NONE" /\ ~Open(c)
    BY DEF Init, CloudInit, Open, Opened, Mutating
  <1> QED
    BY <1>1, InitInvariant DEF RInv, OneMaker, Making, UpToDate

LEMMA RNext == RInv /\ [Next]_vars => RInv'
  <1> SUFFICES ASSUME RInv, [Next]_vars PROVE RInv'
    OBVIOUS
  <1>1. TypeOK /\ OneMaker /\ (\A c \in Calls : Making(c) /\ UpToDate(c)) /\ IInv'
    BY NextInvariant DEF RInv, IInv
  <1>2. CASE UNCHANGED vars
    <2>1. \A c \in Calls : UpToDate(c)'
      BY <1>1, <1>2 DEF vars, UpToDate, Open, Facts, Exists, Fits, InRange, InUse
    <2> QED
      BY <1>1, <1>2, <2>1, MakingIsQuiet DEF vars, RInv
  <1>3. ASSUME Observe PROVE \A c \in Calls : UpToDate(c)'
    BY <1>1, <1>3, HistoryGrows DEF UpToDate
  <1>4. ASSUME NEW c \in Calls, Invoke(c) \/ Serve(c) \/ Abandon(c) \/ OrphanLands(c)
        PROVE  Observe /\ OneMaker' /\ \A e \in Calls : Making(e)'
    <2>1. /\ Observe /\ disks' = disks
          /\ ops' = ops \/ \E reply : Submit(c, reply)
      BY <1>4 DEF Invoke, CreateVolume, DeleteVolume, ControllerPublishVolume,
           ControllerUnpublishVolume, Enter, cloud, Abandon, OrphanLands,
           Serve, Progress, CreateGet, CreateInsert, CreateRecheck, DeleteIssue, GetDiskOrError,
           GetInstanceOrError, PublishAttach, UnpublishDetach, WaitDone, WaitPollError,
           WaitTimeout
    <2>2. \A e \in Calls : ops'[e] = "RUNNING" => ops[e] = "RUNNING"
      BY <1>1, <2>1 DEF Submit, TypeOK, CloudTypeOK
    <2> QED
      BY <1>1, <2>1, <2>2, MakingIsQuiet DEF Observe
  <1>5. ASSUME NEW c \in Calls, OperationStep(c)
        PROVE  Observe /\ OneMaker' /\ \A e \in Calls : Making(e)'
    BY <1>5, OperationMakes DEF OperationStep
  <1>6. ASSUME NEW n \in Nodes, InstanceGoes(n)
        PROVE  Observe /\ OneMaker' /\ \A e \in Calls : Making(e)'
    BY <1>1, <1>6, MakingIsQuiet DEF InstanceGoes, DeleteInstance, Observe
  <1> QED
    BY <1>1, <1>2, <1>3, <1>4, <1>5, <1>6 DEF Next, Quiescent, RInv

LEMMA NextRefines == RInv /\ TypeOK' /\ [Next]_vars => [VS!VNext]_VS!service
  <1> SUFFICES ASSUME RInv, TypeOK', [Next]_vars PROVE [VS!VNext]_VS!service
    OBVIOUS
  <1>1. ASSUME NEW c \in Calls,
               Invoke(c) \/ Serve(c) \/ Abandon(c) \/ OrphanLands(c) \/ OperationStep(c)
        PROVE  [VS!VNext]_VS!service
    BY <1>1, InvokeRefines, ServeRefines, LeavingRefines, OperationRefines DEF VS!VNext
  <1>2. ASSUME NEW n \in Nodes, InstanceGoes(n) PROVE VS!VNext
    BY <1>2, InstanceRefines DEF VS!VNext
  <1>3. CASE UNCHANGED vars
    BY <1>3 DEF vars, VS!service, StageOf, EffectOf, Open
  <1> QED
    BY <1>1, <1>2, <1>3 DEF Next, Quiescent

\* The controller service implements VolumeService, for any number of calls
\* and whatever the cloud does: every call takes effect at most once, in the
\* way of its method, and never after a definite answer; every definite
\* answer is one the call was entitled to while it was open.
\* (controller.go 71-349, gce-compute.go 58-179)
THEOREM ControllerImplementsService == Spec => ImplementsVolumeService
  <1>1. RInv => TypeOK
    BY DEF RInv, IInv
  <1> QED
    BY <1>1, InitRefines, RInit, RNext, NextRefines, PTL
       DEF Spec, ImplementsVolumeService, VS!VSpec

\* A disk that is being made has one maker, however many creates of it race.
\* (controller.go 124-175)
THEOREM DisksHaveOneMaker == Spec => []OneMaker
  <1>1. RInv => OneMaker
    BY DEF RInv
  <1> QED
    BY <1>1, RInit, RNext, PTL DEF Spec
=============================================================================
