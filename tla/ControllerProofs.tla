-------------------------- MODULE ControllerProofs --------------------------
(***************************************************************************)
(* ControllerServer for any set of calls, disks, nodes and requests: the   *)
(* type invariant, and that answers are earned, truthful and final.        *)
(*                                                                         *)
(* Every property is a conjunction over the calls, and what it says of one *)
(* call c depends only on pc[c], res[c], ops[c], req[c] and saw[c], and    *)
(* stays true when saw[c] grows.  So a step of one call cannot disturb     *)
(* another (CallIsLocal), and each action has to be looked at only for the *)
(* call that takes it.                                                     *)
(***************************************************************************)
EXTENDS ControllerServer, CapacityProofs

\* What the pc says of the request being served.
PcOK(c) ==
    /\ pc[c] \in {"get", "insert", "recheck"} => req[c].rpc = "CreateVolume"
    /\ pc[c] = "delete" => req[c].rpc = "DeleteVolume"
    /\ pc[c] \in {"getDisk", "getInstance"} =>
          req[c].rpc \in {"ControllerPublishVolume", "ControllerUnpublishVolume"}
    /\ pc[c] = "attach" => req[c].rpc = "ControllerPublishVolume"
    /\ pc[c] = "detach" => req[c].rpc = "ControllerUnpublishVolume"
    /\ Open(c) => \/ req[c].args = "valid"
                  \/ req[c].args = "badId" /\ req[c].rpc = "CreateVolume"

\* Why an answer still to come will be earned: the handler waits only for
\* its own operation, and a finished one has shown its effect.
Evidence(c) ==
    /\ pc[c] \notin {"wait", "done"} => ops[c] = "NONE"
    /\ pc[c] = "recheck" => "disk" \in saw[c]
    /\ pc[c] = "orphan" => res[c] = "NoAnswer"
    /\ (pc[c] = "wait" /\ ops[c] = "DONE") => Promised(req[c], saw[c], "DONE")

CallOK(c) == PcOK(c) /\ Evidence(c) /\ Earned(c) /\ Truthful(c) /\ Final(c)

IInv == TypeOK /\ \A c \in Calls : CallOK(c)
-----------------------------------------------------------------------------
(* Types *)

ControlTypeOK ==
    /\ pc \in [Calls -> {"idle", "orphan", "done"} \cup Opened]
    /\ res \in [Calls -> Codes \cup {"None"}]
    /\ \A c \in Calls : Over(c) <=> res[c] # "None"

HistoryTypeOK == req \in [Calls -> Requests] /\ saw \in [Calls -> SUBSET FactNames]

LEMMA TypeOKParts == TypeOK <=> (CloudTypeOK /\ ControlTypeOK /\ HistoryTypeOK)
  BY DEF TypeOK, ControlTypeOK, HistoryTypeOK

\* The fields of a request have their types.
LEMMA RequestFields ==
    ASSUME HistoryTypeOK, NEW c \in Calls
    PROVE  /\ req[c] \in Requests
           /\ req[c].rpc \in Rpcs
           /\ req[c].args \in {"valid", "missing", "badId"}
           /\ req[c].disk \in Disks /\ req[c].node \in Nodes
           /\ req[c].mode \in Modes /\ req[c].type \in Types
           /\ req[c].required \in Nat /\ req[c].limit \in Nat
  <1>1. req[c] \in Requests
    BY DEF HistoryTypeOK
  <1> QED
    BY <1>1, RequestsAssumption DEF RequestType

LEMMA GotoTypes ==
    ASSUME ControlTypeOK, NEW c \in Calls, NEW next \in Opened, ~Over(c), Goto(c, next)
    PROVE  ControlTypeOK'
  BY DEF ControlTypeOK, Goto, Over, Opened, Mutating

LEMMA AnswerTypes ==
    ASSUME ControlTypeOK, NEW c \in Calls, NEW code \in Codes, Answer(c, code)
    PROVE  ControlTypeOK'
  BY DEF ControlTypeOK, Answer, Over, Codes

LEMMA SubmitTypes ==
    ASSUME CloudTypeOK, NEW c \in Calls, NEW reply, Submit(c, reply),
           UNCHANGED <<disks, instances, attached>>
    PROVE  CloudTypeOK'
  BY DEF CloudTypeOK, Submit, OpStates

LEMMA ObserveTypes ==
    ASSUME HistoryTypeOK, Observe
    PROVE  HistoryTypeOK'
  <1>1. req' = req /\ \A c \in Calls : req[c].rpc \in Rpcs
    BY RequestFields DEF Observe
  <1>2. \A c \in Calls : Facts(c)' \subseteq FactNames
    <2> SUFFICES ASSUME NEW c \in Calls PROVE FactsFor(req[c].rpc) \subseteq FactNames
      BY <1>1 DEF Facts
    <2> QED
      BY <1>1 DEF FactsFor, FactNames, Rpcs
  <1> QED
    BY <1>1, <1>2 DEF HistoryTypeOK, Observe

LEMMA CloudUnchangedTypes ==
    ASSUME CloudTypeOK, UNCHANGED cloud
    PROVE  CloudTypeOK'
  BY DEF CloudTypeOK, cloud

\* A handler action: what it does to the control part and to the cloud.
LEMMA InvokeTypes ==
    ASSUME TypeOK, NEW c \in Calls, Invoke(c)
    PROVE  TypeOK'
  <1>1. CloudTypeOK /\ ControlTypeOK /\ HistoryTypeOK
    BY TypeOKParts
  <1>2. UNCHANGED cloud /\ Observe /\ ~Over(c)
    BY DEF Invoke, CreateVolume, DeleteVolume, ControllerPublishVolume,
           ControllerUnpublishVolume, Enter, Over
  <1>3. \/ \E code \in Codes : Answer(c, code)
        \/ \E next \in Opened : Goto(c, next)
    BY DEF Invoke, CreateVolume, DeleteVolume, ControllerPublishVolume,
           ControllerUnpublishVolume, CheckArguments, Codes, Opened, Mutating
  <1>4. ControlTypeOK'
    BY <1>1, <1>2, <1>3, GotoTypes, AnswerTypes
  <1> QED
    BY <1>1, <1>2, <1>4, CloudUnchangedTypes, ObserveTypes
       DEF TypeOK, ControlTypeOK, HistoryTypeOK

LEMMA ServeTypes ==
    ASSUME TypeOK, NEW c \in Calls, Serve(c)
    PROVE  TypeOK'
  <1>1. CloudTypeOK /\ ControlTypeOK /\ HistoryTypeOK
    BY TypeOKParts
  <1>2. Observe /\ ~Over(c)
    BY DEF Serve, Progress, CreateGet, CreateInsert, CreateRecheck, DeleteIssue, GetDiskOrError,
           GetInstanceOrError, PublishAttach, UnpublishDetach, WaitDone, WaitPollError,
           WaitTimeout, Over
  <1>3. \/ \E code \in Codes : Answer(c, code)
        \/ \E next \in Opened : Goto(c, next)
    BY DEF Serve, Progress, CreateGet, CreateInsert, CreateRecheck, DeleteIssue, GetDiskOrError,
           GetInstanceOrError, PublishAttach, UnpublishDetach, WaitDone, WaitPollError,
           WaitTimeout, diskIsAttachedAndCompatible, diskIsAttached, Codes, Opened, Mutating
  <1>4. ControlTypeOK'
    BY <1>1, <1>2, <1>3, GotoTypes, AnswerTypes
  <1>5. \/ UNCHANGED cloud
        \/ UNCHANGED <<disks, instances, attached>> /\ \E reply : Submit(c, reply)
    BY DEF Serve, Progress, CreateGet, CreateInsert, CreateRecheck, DeleteIssue, GetDiskOrError,
           GetInstanceOrError, PublishAttach, UnpublishDetach, WaitDone, WaitPollError,
           WaitTimeout
  <1>6. CloudTypeOK'
    BY <1>1, <1>5, CloudUnchangedTypes, SubmitTypes
  <1> QED
    BY <1>1, <1>2, <1>4, <1>6, ObserveTypes DEF TypeOK, ControlTypeOK, HistoryTypeOK

LEMMA LeavingTypes ==
    ASSUME TypeOK, NEW c \in Calls, Abandon(c) \/ OrphanLands(c)
    PROVE  TypeOK'
  <1>1. CloudTypeOK /\ ControlTypeOK /\ HistoryTypeOK
    BY TypeOKParts
  <1>2. HistoryTypeOK'
    BY <1>1, ObserveTypes DEF Abandon, OrphanLands
  <1>3. CASE Abandon(c)
    <2>1. ControlTypeOK'
      BY <1>1, <1>3 DEF Abandon, ControlTypeOK, Open, Over, Opened, Mutating, Codes
    <2> QED
      BY <1>1, <1>2, <1>3, <2>1, CloudUnchangedTypes
         DEF Abandon, TypeOK, ControlTypeOK, HistoryTypeOK
  <1>4. CASE OrphanLands(c)
    <2>1. UNCHANGED <<disks, instances, attached>> /\ \E reply : Submit(c, reply)
      BY <1>4 DEF OrphanLands
    <2>2. CloudTypeOK'
      BY <1>1, <2>1, SubmitTypes
    <2>3. ControlTypeOK'
      BY <1>1, <1>4 DEF OrphanLands, Goto, ControlTypeOK, Over
    <2> QED
      BY <1>2, <2>2, <2>3 DEF TypeOK, ControlTypeOK, HistoryTypeOK
  <1> QED
    BY <1>3, <1>4

LEMMA OperationTypes ==
    ASSUME TypeOK, NEW c \in Calls, OperationStep(c)
    PROVE  TypeOK'
  <1>1. CloudTypeOK /\ ControlTypeOK /\ HistoryTypeOK
    BY TypeOKParts
  <1>2. HistoryTypeOK' /\ ControlTypeOK'
    BY <1>1, ObserveTypes DEF OperationStep, ControlTypeOK, Over
  <1> DEFINE r == req[c]
             gb == DiskSizeGb(r.required, r.limit)
  <1>3. /\ r.disk \in Disks /\ r.node \in Nodes /\ r.mode \in Modes /\ r.type \in Types
        /\ gb \in Nat
    BY <1>1, RequestFields, DiskSizeIsNat
  <1>4. CloudTypeOK'
    <2>1. CASE InsertWorks(c)
      <3>1. Disk("CREATING", gb, r.type) \in DiskStates /\ Disk("READY", gb, r.type) \in DiskStates
        BY <1>3 DEF Disk, DiskStates
      <3> HIDE DEF gb
      <3>2. \/ InsertBegins(c, r.disk, gb, r.type)
            \/ InsertCompletes(c, r.disk, gb, r.type)
            \/ InsertFails(c, r.disk)
        BY <2>1 DEF InsertWorks, gb
      <3> QED
        BY <1>1, <1>3, <3>1, <3>2 DEF CloudTypeOK, InsertBegins, InsertCompletes,
           InsertFails, OpStates, DiskStates
    <2>2. CASE DeleteWorks(c)
      BY <1>1, <1>3, <2>2 DEF CloudTypeOK, DeleteWorks, DeleteCompletes, OpStates, DiskStates
    <2>3. CASE AttachWorks(c)
      BY <1>1, <1>3, <2>3 DEF CloudTypeOK, AttachWorks, AttachCompletes, OpStates
    <2>4. CASE DetachWorks(c)
      BY <1>1, <1>3, <2>4 DEF CloudTypeOK, DetachWorks, DetachCompletes, OpStates
    <2>5. CASE OpFails(c)
      BY <1>1, <2>5 DEF CloudTypeOK, OpFails, OpStates
    <2> QED
      BY <2>1, <2>2, <2>3, <2>4, <2>5 DEF OperationStep
  <1> QED
    BY <1>2, <1>4 DEF TypeOK, ControlTypeOK, HistoryTypeOK

LEMMA InstanceTypes ==
    ASSUME TypeOK, NEW n \in Nodes, InstanceGoes(n)
    PROVE  TypeOK'
  <1>1. CloudTypeOK /\ ControlTypeOK /\ HistoryTypeOK
    BY TypeOKParts
  <1>2. HistoryTypeOK' /\ ControlTypeOK'
    BY <1>1, ObserveTypes DEF InstanceGoes, ControlTypeOK, Over
  <1>3. CloudTypeOK'
    BY <1>1 DEF InstanceGoes, DeleteInstance, CloudTypeOK
  <1> QED
    BY <1>2, <1>3 DEF TypeOK, ControlTypeOK, HistoryTypeOK

LEMMA UnchangedTypes ==
    ASSUME TypeOK, UNCHANGED vars
    PROVE  TypeOK'
  BY DEF TypeOK, CloudTypeOK, Over, vars

LEMMA InitTypes == Init => TypeOK
  BY InitialDisksAssumption
     DEF Init, CloudInit, TypeOK, CloudTypeOK, OpStates, Over, Modes

LEMMA NextTypes == TypeOK /\ [Next]_vars => TypeOK'
  <1> SUFFICES ASSUME TypeOK, [Next]_vars PROVE TypeOK'
    OBVIOUS
  <1>1. ASSUME NEW c \in Calls,
               Invoke(c) \/ Serve(c) \/ Abandon(c) \/ OrphanLands(c) \/ OperationStep(c)
        PROVE  TypeOK'
    BY <1>1, InvokeTypes, ServeTypes, LeavingTypes, OperationTypes
  <1>2. ASSUME NEW n \in Nodes, InstanceGoes(n) PROVE TypeOK'
    BY <1>2, InstanceTypes
  <1>3. CASE UNCHANGED vars
    BY <1>3, UnchangedTypes
  <1> QED
    BY <1>1, <1>2, <1>3 DEF Next, Quiescent

\* Every reachable state is well typed, for any number of calls and any
\* requests of the declared shape; in particular a call has an answer exactly
\* when its handler is over.  (controller.go 71-349)
THEOREM TypeCorrect == Spec => []TypeOK
  BY InitTypes, NextTypes, PTL DEF Spec
-----------------------------------------------------------------------------
(* Locality *)

\* The history only grows, and for a call that is open before or after the
\* step it takes in what holds after it.
LEMMA HistoryGrows ==
    ASSUME TypeOK, Observe
    PROVE  /\ req' = req
           /\ \A c \in Calls : saw[c] \subseteq saw'[c]
           /\ \A c \in Calls : Open(c) \/ Open(c)' => saw'[c] = saw[c] \cup Facts(c)'
  BY DEF TypeOK, Observe

\* What CallOK says of a call depends on its own part of the state, and
\* survives more history.
LEMMA CallIsLocal ==
    ASSUME TypeOK, NEW c \in Calls, CallOK(c), req'[c] = req[c], saw[c] \subseteq saw'[c],
           pc'[c] = pc[c], res'[c] = res[c], ops'[c] = ops[c]
    PROVE  CallOK(c)'
  <1>1. /\ PcOK(c)' = PcOK(c) /\ Final(c)' = Final(c) /\ Over(c)' = Over(c)
    BY DEF PcOK, Final, Over, Open
  <1>2. \A r, op : Promised(r, saw[c], op) => Promised(r, saw'[c], op)
    BY DEF Promised
  <1>3. Earned(c)' /\ Evidence(c)'
    BY <1>2 DEF CallOK, Earned, Evidence
  <1>4. Truthful(c)'
    BY <1>1 DEF CallOK, Truthful
  <1> QED
    BY <1>1, <1>3, <1>4 DEF CallOK

\* A step that changes the control state and the operation of c alone.
OnlyMoves(c) ==
    \A e \in Calls \ {c} : pc'[e] = pc[e] /\ res'[e] = res[e] /\ ops'[e] = ops[e]

LEMMA OthersKeep ==
    ASSUME IInv, NEW c \in Calls, OnlyMoves(c), Observe, CallOK(c)'
    PROVE  \A e \in Calls : CallOK(e)'
  <1> SUFFICES ASSUME NEW e \in Calls \ {c} PROVE CallOK(e)'
    OBVIOUS
  <1>1. TypeOK /\ CallOK(e)
    BY DEF IInv
  <1> QED
    BY <1>1, HistoryGrows, CallIsLocal DEF OnlyMoves
-----------------------------------------------------------------------------
(* The two ways a handler step ends *)

\* The handler goes on to its next API call.
LEMMA WentOn ==
    ASSUME TypeOK, NEW c \in Calls, NEW next \in Opened, ~Over(c), Goto(c, next),
           PcOK(c)', Evidence(c)'
    PROVE  CallOK(c)'
  <1>1. pc'[c] = next /\ res'[c] = "None"
    BY DEF TypeOK, Goto, Codes
  <1>2. ~Over(c)'
    BY <1>1 DEF Over, Opened, Mutating
  <1> QED
    BY <1>1, <1>2 DEF CallOK, Earned, Truthful, Final

\* The handler answers.
LEMMA Answered ==
    ASSUME TypeOK, NEW c \in Calls, NEW code \in Codes, Open(c), PcOK(c), req' = req,
           Answer(c, code),
           Earned(c)',
           code = "NotFound" => saw'[c] \cap {"noDisk", "noNode"} # {},
           code = "FailedPrecondition" => "inUse" \in saw'[c],
           code = "AlreadyExists" => IF req[c].rpc = "CreateVolume" THEN "misfit" \in saw'[c]
                                                                    ELSE "clash" \in saw'[c],
           code # "InvalidArgument",
           ops'[c] \in {"PENDING", "RUNNING"} => code \in {"Internal", "NoAnswer"},
           ops'[c] # "NONE" => code \in {"OK", "Internal", "NoAnswer"}
    PROVE  CallOK(c)'
  <1>1. pc'[c] = "done" /\ res'[c] = code
    BY DEF TypeOK, Answer
  <1>2. PcOK(c)' /\ Evidence(c)'
    BY <1>1 DEF PcOK, Evidence, Open, Opened, Mutating
  <1>3. req[c].args # "missing"
    BY DEF PcOK
  <1>4. Truthful(c)' /\ Final(c)'
    BY <1>1, <1>3 DEF Truthful, Final
  <1> QED
    BY <1>2, <1>4 DEF CallOK

\* A request that answers Internal, or nothing, has nothing to prove but that
\* it is over.
LEMMA AnsweredInternal ==
    ASSUME TypeOK, NEW c \in Calls, Open(c), PcOK(c), req' = req, Answer(c, "Internal")
    PROVE  CallOK(c)'
  <1>1. res'[c] = "Internal"
    BY DEF TypeOK, Answer
  <1>2. Earned(c)'
    BY <1>1 DEF Earned
  <1> QED
    BY <1>2, Answered DEF Codes
-----------------------------------------------------------------------------
(* The actions *)

LEMMA InvokeKeeps ==
    ASSUME IInv, NEW c \in Calls, Invoke(c)
    PROVE  CallOK(c)' /\ OnlyMoves(c)
  <1>1. TypeOK /\ CallOK(c)
    BY DEF IInv
  <1>2. pc[c] = "idle" /\ ops' = ops /\ Observe
    BY DEF Invoke, CreateVolume, DeleteVolume, ControllerPublishVolume,
           ControllerUnpublishVolume, Enter, cloud
  <1>3. ops[c] = "NONE" /\ res[c] = "None" /\ req' = req /\ ~Over(c)
    BY <1>1, <1>2, HistoryGrows DEF CallOK, Evidence, TypeOK, Over
  <1>4. req[c].args \in {"valid", "missing", "badId"}
    BY <1>1, RequestFields, TypeOKParts
  <1>5. \/ req[c].args = "missing" /\ Answer(c, "InvalidArgument")
        \/ req[c].args = "badId" /\ req[c].rpc = "DeleteVolume" /\ Answer(c, "OK")
        \/ req[c].args = "badId" /\ Answer(c, "Unknown")
        \/ /\ req[c].args = "valid" \/ (req[c].args = "badId" /\ req[c].rpc = "CreateVolume")
           /\ \/ req[c].rpc = "CreateVolume" /\ Goto(c, "get")
              \/ req[c].rpc = "DeleteVolume" /\ Goto(c, "delete")
              \/ /\ req[c].rpc \in {"ControllerPublishVolume", "ControllerUnpublishVolume"}
                 /\ Goto(c, "getDisk")
    <2>1. CASE CreateVolume(c)
      BY <1>4, <2>1 DEF CreateVolume, Enter
    <2>2. CASE DeleteVolume(c)
      BY <2>2 DEF DeleteVolume, Enter, CheckArguments
    <2>3. CASE ControllerPublishVolume(c)
      BY <2>3 DEF ControllerPublishVolume, Enter, CheckArguments
    <2>4. CASE ControllerUnpublishVolume(c)
      BY <2>4 DEF ControllerUnpublishVolume, Enter, CheckArguments
    <2> QED
      BY <2>1, <2>2, <2>3, <2>4 DEF Invoke
  <1>6. OnlyMoves(c)
    BY <1>1, <1>2, <1>5 DEF OnlyMoves, Goto, Answer, TypeOK
  <1>7. CASE \/ req[c].args = "missing" /\ Answer(c, "InvalidArgument")
             \/ req[c].args = "badId" /\ req[c].rpc = "DeleteVolume" /\ Answer(c, "OK")
             \/ req[c].args = "badId" /\ Answer(c, "Unknown")
    <2>1. pc'[c] = "done" /\ ops'[c] = "NONE" /\ req'[c] = req[c]
      BY <1>1, <1>2, <1>3, <1>7 DEF TypeOK, Answer
    <2>2. \/ req[c].args = "missing" /\ res'[c] = "InvalidArgument"
          \/ req[c].args = "badId" /\ req[c].rpc = "DeleteVolume" /\ res'[c] = "OK"
          \/ req[c].args = "badId" /\ res'[c] = "Unknown"
      BY <1>1, <1>7 DEF TypeOK, Answer
    <2>3. PcOK(c)' /\ Evidence(c)'
      BY <2>1 DEF PcOK, Evidence, Open, Opened, Mutating
    <2>4. Earned(c)' /\ Truthful(c)' /\ Final(c)'
      BY <2>1, <2>2 DEF Earned, Promised, Truthful, Final, Over
    <2> QED
      BY <1>6, <2>3, <2>4 DEF CallOK
  <1>8. ASSUME NEW next \in {"get", "delete", "getDisk"}, Goto(c, next), PcOK(c)'
        PROVE  CallOK(c)'
    <2>1. pc'[c] = next /\ ops'[c] = "NONE"
      BY <1>1, <1>2, <1>3, <1>8 DEF TypeOK, Goto
    <2>2. Evidence(c)'
      BY <2>1 DEF Evidence
    <2> QED
      BY <1>1, <1>3, <1>8, <2>2, WentOn DEF Opened, Mutating
  <1>9. CASE /\ req[c].args = "valid" \/ (req[c].args = "badId" /\ req[c].rpc = "CreateVolume")
             /\ \/ req[c].rpc = "CreateVolume" /\ Goto(c, "get")
                \/ req[c].rpc = "DeleteVolume" /\ Goto(c, "delete")
                \/ /\ req[c].rpc \in {"ControllerPublishVolume", "ControllerUnpublishVolume"}
                   /\ Goto(c, "getDisk")
    <2>1. PcOK(c)'
      BY <1>1, <1>3, <1>9 DEF PcOK, Goto, TypeOK
    <2> QED
      BY <1>6, <1>8, <1>9, <2>1
  <1> QED
    BY <1>5, <1>7, <1>9

\* What every step of a handler has in common.
LEMMA ServeFrame ==
    ASSUME IInv, NEW c \in Calls, Serve(c)
    PROVE  /\ TypeOK /\ CallOK(c) /\ Open(c) /\ ~Over(c) /\ res[c] = "None"
           /\ req' = req /\ saw'[c] = saw[c] \cup Facts(c)'
           /\ disks' = disks /\ instances' = instances /\ attached' = attached
           /\ OnlyMoves(c)
  <1>1. TypeOK /\ CallOK(c)
    BY DEF IInv
  <1>2. Observe /\ Open(c) /\ disks' = disks /\ instances' = instances /\ attached' = attached
    BY DEF Serve, Progress, CreateGet, CreateInsert, CreateRecheck, DeleteIssue, GetDiskOrError,
           GetInstanceOrError, PublishAttach, UnpublishDetach, WaitDone, WaitPollError,
           WaitTimeout, Open, Opened, Mutating, cloud
  <1>3. ~Over(c) /\ res[c] = "None"
    BY <1>1, <1>2 DEF Over, Open, Opened, Mutating, TypeOK
  <1>4. \/ \E code : Answer(c, code)
        \/ \E next : Goto(c, next)
    BY DEF Serve, Progress, CreateGet, CreateInsert, CreateRecheck, DeleteIssue, GetDiskOrError,
           GetInstanceOrError, PublishAttach, UnpublishDetach, WaitDone, WaitPollError,
           WaitTimeout, diskIsAttachedAndCompatible, diskIsAttached
  <1>5. ops' = ops \/ \E reply : Submit(c, reply)
    BY DEF Serve, Progress, CreateGet, CreateInsert, CreateRecheck, DeleteIssue, GetDiskOrError,
           GetInstanceOrError, PublishAttach, UnpublishDetach, WaitDone, WaitPollError,
           WaitTimeout, cloud
  <1>6. \A e \in Calls \ {c} : pc'[e] = pc[e] /\ res'[e] = res[e]
    BY <1>1, <1>4 DEF Goto, Answer, TypeOK
  <1>7. \A e \in Calls \ {c} : ops'[e] = ops[e]
    BY <1>1, <1>5 DEF Submit, TypeOK, CloudTypeOK
  <1> QED
    BY <1>1, <1>2, <1>3, <1>6, <1>7, HistoryGrows DEF OnlyMoves

\* CreateVolume
LEMMA CreateKeeps ==
    ASSUME IInv, NEW c \in Calls, CreateGet(c) \/ CreateInsert(c) \/ CreateRecheck(c)
    PROVE  CallOK(c)' /\ OnlyMoves(c)
  <1>0. /\ TypeOK /\ CallOK(c) /\ Open(c) /\ ~Over(c) /\ res[c] = "None"
        /\ req' = req /\ saw'[c] = saw[c] \cup Facts(c)' /\ disks' = disks
        /\ OnlyMoves(c)
    BY ServeFrame DEF Serve, Progress
  <1>1. req[c].rpc = "CreateVolume" /\ PcOK(c) /\ ops[c] = "NONE"
    BY <1>0 DEF CallOK, PcOK, Evidence, CreateGet, CreateInsert, CreateRecheck
  <1>2. /\ Exists(req[c].disk) => "disk" \in saw'[c]
        /\ Exists(req[c].disk) /\ ~Fits(req[c]) => "misfit" \in saw'[c]
    BY <1>0, <1>1 DEF Facts, FactsFor, Exists, Fits
  <1>3. \A found \in GetAndValidateExistingDisk(req[c]) :
            /\ found \in {"absent", "compatible", "incompatible"}
            /\ found = "compatible" => Exists(req[c].disk)
            /\ found = "incompatible" => Exists(req[c].disk) /\ ~Fits(req[c])
    BY DEF GetAndValidateExistingDisk, DiskGetReplies
  <1>4. CASE CreateGet(c)
    <2>1. ops'[c] = "NONE"
      BY <1>1, <1>4 DEF CreateGet, cloud
    <2>2. CASE Goto(c, "insert")
      <3>1. pc'[c] = "insert"
        BY <1>0, <2>2 DEF Goto, TypeOK
      <3>2. PcOK(c)' /\ Evidence(c)'
        BY <1>0, <1>1, <1>4, <2>1, <3>1 DEF CreateGet, PcOK, Evidence, Open
      <3> QED
        BY <1>0, <2>2, <3>2, WentOn DEF Opened, Mutating
    <2>3. CASE Answer(c, "OK") /\ Exists(req[c].disk)
      <3>1. Earned(c)'
        BY <1>0, <1>1, <1>2, <2>1, <2>3 DEF Earned, Promised
      <3> QED
        BY <1>0, <1>1, <2>1, <2>3, <3>1, Answered DEF Codes
    <2>4. CASE Answer(c, "AlreadyExists") /\ Exists(req[c].disk) /\ ~Fits(req[c])
      <3>1. Earned(c)'
        BY <1>0, <2>4 DEF Earned, Answer, TypeOK
      <3> QED
        BY <1>0, <1>1, <1>2, <2>1, <2>4, <3>1, Answered DEF Codes
    <2> QED
      BY <1>0, <1>3, <1>4, <2>2, <2>3, <2>4 DEF CreateGet
  <1>5. CASE CreateInsert(c)
    <2>1. PICK reply \in InsertReplies(req[c].disk) :
            /\ Submit(c, reply)
            /\ \/ reply = "accepted"          /\ Goto(c, "wait")
               \/ reply = "alreadyExists"     /\ Goto(c, "recheck")
               \/ reply \in {"error", "lost"} /\ Answer(c, "Internal")
      BY <1>5 DEF CreateInsert
    <2>2. CASE reply = "accepted" /\ Goto(c, "wait")
      <3>1. pc'[c] = "wait" /\ ops'[c] = "PENDING"
        BY <1>0, <2>1, <2>2 DEF Goto, Submit, Starts, TypeOK, CloudTypeOK
      <3>2. PcOK(c)' /\ Evidence(c)'
        BY <1>0, <1>1, <1>5, <3>1 DEF CreateInsert, PcOK, Evidence, Open
      <3> QED
        BY <1>0, <2>2, <3>2, WentOn DEF Opened
    <2>3. CASE reply = "alreadyExists" /\ Goto(c, "recheck")
      <3>1. pc'[c] = "recheck" /\ ops'[c] = "NONE"
        BY <1>0, <1>1, <2>1, <2>3 DEF Goto, Submit, Starts, TypeOK, CloudTypeOK
      <3>2. Exists(req[c].disk)
        BY <2>1, <2>3 DEF InsertReplies, Accepting
      <3>3. PcOK(c)' /\ Evidence(c)'
        BY <1>0, <1>1, <1>2, <1>5, <3>1, <3>2 DEF CreateInsert, PcOK, Evidence, Open
      <3> QED
        BY <1>0, <2>3, <3>3, WentOn DEF Opened
    <2> QED
      BY <1>0, <1>1, <2>1, <2>2, <2>3, AnsweredInternal
  <1>6. CASE CreateRecheck(c)
    <2>1. ops'[c] = "NONE" /\ "disk" \in saw'[c]
      BY <1>0, <1>1, <1>6 DEF CreateRecheck, CallOK, Evidence, cloud
    <2>2. PICK found \in GetAndValidateExistingDisk(req[c]) :
            Answer(c, IF found = "incompatible" THEN "AlreadyExists" ELSE "OK")
      BY <1>6 DEF CreateRecheck
    <2>3. Earned(c)'
      BY <1>0, <1>1, <2>1 DEF Earned, Promised
    <2>4. CASE found = "incompatible"
      BY <1>0, <1>1, <1>2, <1>3, <2>1, <2>2, <2>3, <2>4, Answered DEF Codes
    <2>5. CASE found # "incompatible"
      BY <1>0, <1>1, <2>1, <2>2, <2>3, <2>5, Answered DEF Codes
    <2> QED
      BY <2>4, <2>5
  <1> QED
    BY <1>0, <1>4, <1>5, <1>6

\* DeleteVolume
LEMMA DeleteKeeps ==
    ASSUME IInv, NEW c \in Calls, DeleteIssue(c)
    PROVE  CallOK(c)' /\ OnlyMoves(c)
  <1>0. /\ TypeOK /\ CallOK(c) /\ Open(c) /\ ~Over(c) /\ res[c] = "None"
        /\ req' = req /\ saw'[c] = saw[c] \cup Facts(c)'
        /\ disks' = disks /\ attached' = attached
        /\ OnlyMoves(c)
    BY ServeFrame DEF Serve, Progress
  <1>1. req[c].rpc = "DeleteVolume" /\ PcOK(c) /\ ops[c] = "NONE"
    BY <1>0 DEF CallOK, PcOK, Evidence, DeleteIssue
  <1>2. PICK reply \in DeleteReplies(req[c].disk) :
          /\ Submit(c, reply)
          /\ \/ reply = "accepted"          /\ Goto(c, "wait")
             \/ reply = "resourceInUse"     /\ Answer(c, "FailedPrecondition")
             \/ reply = "notFound"          /\ Answer(c, "OK")
             \/ reply \in {"error", "lost"} /\ Answer(c, "Internal")
    BY DEF DeleteIssue
  <1>3. CASE reply = "accepted" /\ Goto(c, "wait")
    <2>1. pc'[c] = "wait" /\ ops'[c] = "PENDING"
      BY <1>0, <1>2, <1>3 DEF Goto, Submit, Starts, TypeOK, CloudTypeOK
    <2>2. PcOK(c)' /\ Evidence(c)'
      BY <1>0, <1>1, <2>1 DEF DeleteIssue, PcOK, Evidence, Open
    <2> QED
      BY <1>0, <1>3, <2>2, WentOn DEF Opened
  <1>4. CASE reply = "resourceInUse" /\ Answer(c, "FailedPrecondition")
    <2>1. InUse(req[c].disk)
      BY <1>2, <1>4 DEF DeleteReplies, Accepting
    <2>2. "inUse" \in saw'[c]
      BY <1>0, <1>1, <2>1 DEF Facts, FactsFor, InUse
    <2>3. Earned(c)' /\ ops'[c] = "NONE"
      BY <1>0, <1>1, <1>2, <1>4 DEF Earned, Answer, Submit, Starts, TypeOK
    <2> QED
      BY <1>0, <1>1, <1>4, <2>2, <2>3, Answered DEF Codes
  <1>5. CASE reply = "notFound" /\ Answer(c, "OK")
    <2>1. ~Exists(req[c].disk)
      BY <1>2, <1>5 DEF DeleteReplies, Accepting
    <2>2. "noDisk" \in saw'[c]
      BY <1>0, <1>1, <2>1 DEF Facts, FactsFor, Exists
    <2>3. Earned(c)' /\ ops'[c] = "NONE"
      BY <1>0, <1>1, <1>2, <1>5, <2>2 DEF Earned, Promised, Submit, Starts, TypeOK
    <2> QED
      BY <1>0, <1>1, <1>5, <2>3, Answered DEF Codes
  <1> QED
    BY <1>0, <1>1, <1>2, <1>3, <1>4, <1>5, AnsweredInternal

\* The two GETs of ControllerPublishVolume and ControllerUnpublishVolume
LEMMA GetsKeep ==
    ASSUME IInv, NEW c \in Calls, GetDiskOrError(c) \/ GetInstanceOrError(c)
    PROVE  CallOK(c)' /\ OnlyMoves(c)
  <1> DEFINE r == req[c]
             mode == attached[r.node][r.disk]
  <1>0. /\ TypeOK /\ CallOK(c) /\ Open(c) /\ ~Over(c) /\ res[c] = "None"
        /\ req' = req /\ saw'[c] = saw[c] \cup Facts(c)'
        /\ disks' = disks /\ instances' = instances /\ attached' = attached
        /\ OnlyMoves(c)
    BY ServeFrame DEF Serve, Progress
  <1>1. /\ r.rpc \in {"ControllerPublishVolume", "ControllerUnpublishVolume"}
        /\ PcOK(c) /\ ops[c] = "NONE" /\ ops'[c] = "NONE"
    BY <1>0 DEF CallOK, PcOK, Evidence, GetDiskOrError, GetInstanceOrError, cloud
  <1>2. /\ ~Exists(r.disk) => "noDisk" \in saw'[c]
        /\ r.node \notin instances \cap NodesOf[r.disk] => "noNode" \in saw'[c]
        /\ r.rpc = "ControllerPublishVolume" =>
              /\ mode = r.mode => "served" \in saw'[c]
              /\ mode \notin {"NONE", r.mode} => "clash" \in saw'[c]
        /\ (r.rpc = "ControllerUnpublishVolume" /\ mode = "NONE") => "detached" \in saw'[c]
    BY <1>0, <1>1 DEF Facts, FactsFor, Exists
  <1>3. ASSUME NEW next \in {"getInstance", "attach", "detach"}, Goto(c, next),
               next = "attach" => r.rpc = "ControllerPublishVolume",
               next = "detach" => r.rpc = "ControllerUnpublishVolume"
        PROVE  CallOK(c)'
    <2>1. pc'[c] = next
      BY <1>0, <1>3 DEF Goto, TypeOK
    <2>2. PcOK(c)' /\ Evidence(c)'
      BY <1>0, <1>1, <1>3, <2>1 DEF PcOK, Evidence, Open
    <2> QED
      BY <1>0, <1>3, <2>2, WentOn DEF Opened, Mutating
  <1>4. ASSUME Answer(c, "NotFound"),
               ~Exists(r.disk) \/ r.node \notin instances \cap NodesOf[r.disk]
        PROVE  CallOK(c)'
    <2>1. Earned(c)'
      BY <1>0, <1>4 DEF Earned, Answer, TypeOK
    <2> QED
      BY <1>0, <1>1, <1>2, <1>4, <2>1, Answered DEF Codes
  <1>5. ASSUME Answer(c, "OK"),
               \/ r.rpc = "ControllerPublishVolume" /\ mode = r.mode
               \/ r.rpc = "ControllerUnpublishVolume" /\ mode = "NONE"
        PROVE  CallOK(c)'
    <2>1. Earned(c)'
      BY <1>0, <1>1, <1>2, <1>5 DEF Earned, Promised
    <2> QED
      BY <1>0, <1>1, <1>5, <2>1, Answered DEF Codes
  <1>6. ASSUME Answer(c, "AlreadyExists"), r.rpc = "ControllerPublishVolume",
               mode \notin {"NONE", r.mode}
        PROVE  CallOK(c)'
    <2>1. Earned(c)'
      BY <1>0, <1>6 DEF Earned, Answer, TypeOK
    <2> QED
      BY <1>0, <1>1, <1>2, <1>6, <2>1, Answered DEF Codes
  <1>7. CASE GetDiskOrError(c)
    <2>1. \/ Goto(c, "getInstance")
          \/ Answer(c, "NotFound") /\ ~Exists(r.disk)
          \/ Answer(c, "Internal")
      BY <1>7 DEF GetDiskOrError, DiskGetReplies
    <2> QED
      BY <1>0, <1>1, <1>3, <1>4, <2>1, AnsweredInternal
  <1>8. CASE GetInstanceOrError(c)
    <2>1. PICK reply \in InstanceGetReplies(r.node, r.node \in NodesOf[r.disk]) :
            \/ reply = "notFound" /\ Answer(c, "NotFound")
            \/ reply = "error"    /\ Answer(c, "Internal")
            \/ /\ reply = "found"
               /\ IF r.rpc = "ControllerPublishVolume"
                  THEN diskIsAttachedAndCompatible(c, mode)
                  ELSE diskIsAttached(c, mode)
      BY <1>8 DEF GetInstanceOrError
    <2>2. reply = "notFound" => r.node \notin instances \cap NodesOf[r.disk]
      BY <2>1 DEF InstanceGetReplies
    <2>3. CASE reply = "found" /\ r.rpc = "ControllerPublishVolume"
      BY <1>0, <1>3, <1>5, <1>6, <2>1, <2>3 DEF diskIsAttachedAndCompatible
    <2>4. CASE reply = "found" /\ r.rpc # "ControllerPublishVolume"
      BY <1>0, <1>1, <1>3, <1>5, <2>1, <2>4 DEF diskIsAttached
    <2> QED
      BY <1>0, <1>1, <1>4, <2>1, <2>2, <2>3, <2>4, AnsweredInternal
  <1> QED
    BY <1>0, <1>7, <1>8

\* The attach and the detach requests
LEMMA MovesKeep ==
    ASSUME IInv, NEW c \in Calls, PublishAttach(c) \/ UnpublishDetach(c)
    PROVE  CallOK(c)' /\ OnlyMoves(c)
  <1>0. /\ TypeOK /\ CallOK(c) /\ Open(c) /\ ~Over(c) /\ res[c] = "None"
        /\ req' = req /\ OnlyMoves(c)
    BY ServeFrame DEF Serve, Progress
  <1>1. PcOK(c)
    BY <1>0 DEF CallOK
  <1>2. PICK reply : /\ Submit(c, reply)
                     /\ \/ reply = "accepted" /\ Goto(c, "wait")
                        \/ reply # "accepted" /\ Answer(c, "Internal")
    BY DEF PublishAttach, UnpublishDetach
  <1>3. CASE reply = "accepted" /\ Goto(c, "wait")
    <2>1. pc'[c] = "wait" /\ ops'[c] = "PENDING"
      BY <1>0, <1>2, <1>3 DEF Goto, Submit, Starts, TypeOK, CloudTypeOK
    <2>2. PcOK(c)' /\ Evidence(c)'
      BY <1>0, <1>1, <2>1 DEF PcOK, Evidence, Open
    <2> QED
      BY <1>0, <1>3, <2>2, WentOn DEF Opened
  <1> QED
    BY <1>0, <1>1, <1>2, <1>3, AnsweredInternal

\* WaitForOp
LEMMA WaitKeeps ==
    ASSUME IInv, NEW c \in Calls, WaitDone(c) \/ WaitPollError(c) \/ WaitTimeout(c)
    PROVE  CallOK(c)' /\ OnlyMoves(c)
  <1>0. /\ TypeOK /\ CallOK(c) /\ Open(c)
        /\ req' = req /\ saw'[c] = saw[c] \cup Facts(c)' /\ OnlyMoves(c)
    BY ServeFrame DEF Serve, Progress
  <1>1. PcOK(c) /\ ops'[c] = ops[c]
    BY <1>0 DEF CallOK, WaitDone, WaitPollError, WaitTimeout, cloud
  <1>2. CASE WaitDone(c)
    <2>1. Answer(c, "OK") /\ ops'[c] \in {"DONE", "FAILED"}
      BY <1>1, <1>2 DEF WaitDone, opIsDone
    <2>2. ops[c] = "DONE" => Promised(req[c], saw[c], "DONE")
      BY <1>0, <1>2 DEF WaitDone, CallOK, Evidence
    <2>3. Earned(c)'
      BY <1>0, <1>1, <2>1, <2>2 DEF Earned, Promised
    <2> QED
      BY <1>0, <1>1, <2>1, <2>3, Answered DEF Codes
  <1>3. CASE WaitPollError(c) \/ WaitTimeout(c)
    BY <1>0, <1>1, <1>3, AnsweredInternal DEF WaitPollError, WaitTimeout
  <1> QED
    BY <1>0, <1>2, <1>3

\* Every step of a handler keeps what is known of its call.
LEMMA ServeKeeps ==
    ASSUME IInv, NEW c \in Calls, Serve(c)
    PROVE  CallOK(c)' /\ OnlyMoves(c)
  BY CreateKeeps, DeleteKeeps, GetsKeep, MovesKeep, WaitKeeps DEF Serve, Progress

\* A call that is left, and the request it may leave behind
LEMMA LeavingKeeps ==
    ASSUME IInv, NEW c \in Calls, Abandon(c) \/ OrphanLands(c)
    PROVE  CallOK(c)' /\ OnlyMoves(c) /\ Observe
  <1>0. /\ TypeOK /\ CallOK(c) /\ Observe /\ req' = req /\ saw[c] \subseteq saw'[c]
    BY HistoryGrows DEF IInv, Abandon, OrphanLands
  <1>1. CASE Abandon(c)
    <2>1. /\ pc'[c] \in {"orphan", "done"} /\ res'[c] = "NoAnswer" /\ ops' = ops
          /\ pc[c] \in Mutating => pc'[c] = "orphan"
          /\ pc[c] \notin Mutating => pc'[c] = "done"
          /\ OnlyMoves(c)
      BY <1>0, <1>1 DEF Abandon, OnlyMoves, TypeOK, cloud
    <2>2. Open(c) /\ PcOK(c) /\ Evidence(c)
      BY <1>0, <1>1 DEF CallOK, Abandon
    <2>3. PcOK(c)' /\ Evidence(c)'
      BY <2>1, <2>2 DEF PcOK, Evidence, Open, Opened, Mutating
    <2>4. Earned(c)' /\ Truthful(c)' /\ Final(c)'
      BY <1>0, <2>1, <2>2 DEF Earned, Truthful, Final, PcOK
    <2> QED
      BY <1>0, <2>1, <2>3, <2>4 DEF CallOK
  <1>2. CASE OrphanLands(c)
    <2>1. pc[c] = "orphan" /\ pc'[c] = "done" /\ res' = res /\ \E reply : Submit(c, reply)
      BY <1>0, <1>2 DEF OrphanLands, Goto, TypeOK
    <2>2. OnlyMoves(c)
      BY <1>0, <1>2, <2>1 DEF OrphanLands, Goto, Submit, OnlyMoves, TypeOK, CloudTypeOK
    <2>3. PcOK(c)' /\ Evidence(c)'
      BY <2>1 DEF PcOK, Evidence, Open, Opened, Mutating
    <2>4. Earned(c)' /\ Truthful(c)' /\ Final(c)'
      BY <1>0, <2>1 DEF CallOK, Evidence, Earned, Truthful, Final, Over
    <2> QED
      BY <1>0, <2>1, <2>2, <2>3, <2>4 DEF CallOK
  <1> QED
    BY <1>1, <1>2

\* An operation of the service: when it is done, its effect is in the history
LEMMA OperationKeeps ==
    ASSUME IInv, NEW c \in Calls, OperationStep(c)
    PROVE  CallOK(c)' /\ OnlyMoves(c) /\ Observe
  <1>0. /\ TypeOK /\ CallOK(c) /\ Observe /\ req' = req /\ saw[c] \subseteq saw'[c]
        /\ pc' = pc /\ res' = res
    BY HistoryGrows DEF IInv, OperationStep
  <1>1. ops[c] \in {"PENDING", "RUNNING"}
    BY DEF OperationStep, InsertWorks, InsertBegins, InsertCompletes, InsertFails, DeleteWorks,
           DeleteCompletes, AttachWorks, AttachCompletes, DetachWorks, DetachCompletes, OpFails
  <1>2. OnlyMoves(c) /\ ops'[c] \in {"RUNNING", "DONE", "FAILED"}
    BY <1>0
       DEF OperationStep, InsertWorks, InsertBegins, InsertCompletes, InsertFails, DeleteWorks,
           DeleteCompletes, AttachWorks, AttachCompletes, DetachWorks, DetachCompletes, OpFails,
           OnlyMoves, TypeOK, CloudTypeOK
  <1>3. pc[c] \in {"wait", "done"}
    BY <1>0, <1>1 DEF CallOK, Evidence
  <1>4. res[c] \notin {"NotFound", "FailedPrecondition", "AlreadyExists", "OK"}
    BY <1>0, <1>1, <1>3 DEF CallOK, Final, Over, TypeOK
  <1>5. ASSUME pc[c] = "wait", ops'[c] = "DONE"
        PROVE  Promised(req[c], saw'[c], "DONE")
    <2>0. saw'[c] = saw[c] \cup Facts(c)'
      BY <1>0, <1>5, HistoryGrows DEF Open, Opened
    <2>1. CASE InsertWorks(c)
      <3>1. disks'[req[c].disk].status = "READY"
        BY <1>0, <1>1, <1>5, <2>1, TypeOKParts, RequestFields
           DEF InsertWorks, InsertBegins, InsertCompletes, InsertFails, Disk,
               TypeOK, CloudTypeOK
      <3> QED
        BY <1>0, <2>0, <2>1, <3>1 DEF InsertWorks, Promised, Facts, FactsFor
    <2>2. CASE DeleteWorks(c)
      <3>1. disks'[req[c].disk] = Absent
        BY <1>0, <2>2, TypeOKParts, RequestFields
           DEF DeleteWorks, DeleteCompletes, TypeOK, CloudTypeOK
      <3> QED
        BY <1>0, <2>0, <2>2, <3>1 DEF DeleteWorks, Promised, Facts, FactsFor, Exists
    <2>3. CASE AttachWorks(c)
      <3>1. attached'[req[c].node][req[c].disk] = req[c].mode
        BY <1>0, <2>3, TypeOKParts, RequestFields
           DEF AttachWorks, AttachCompletes, TypeOK, CloudTypeOK
      <3> QED
        BY <1>0, <2>0, <2>3, <3>1 DEF AttachWorks, Promised, Facts, FactsFor
    <2>4. CASE DetachWorks(c)
      <3>1. attached'[req[c].node][req[c].disk] = "NONE"
        BY <1>0, <2>4, TypeOKParts, RequestFields
           DEF DetachWorks, DetachCompletes, TypeOK, CloudTypeOK
      <3> QED
        BY <1>0, <2>0, <2>4, <3>1 DEF DetachWorks, Promised, Facts, FactsFor
    <2>5. CASE OpFails(c)
      BY <1>0, <1>5, <2>5 DEF OpFails, TypeOK, CloudTypeOK
    <2> QED
      BY <2>1, <2>2, <2>3, <2>4, <2>5 DEF OperationStep
  <1>6. PcOK(c)'
    BY <1>0 DEF CallOK, PcOK, Open
  <1>7. Evidence(c)'
    BY <1>0, <1>3, <1>5 DEF Evidence
  <1>8. Earned(c)' /\ Truthful(c)' /\ Final(c)'
    BY <1>0, <1>1, <1>2, <1>4 DEF CallOK, Earned, Truthful, Final, Over
  <1> QED
    BY <1>0, <1>2, <1>6, <1>7, <1>8 DEF CallOK
-----------------------------------------------------------------------------
(* The invariant *)

LEMMA InitInvariant == Init => IInv
  BY InitTypes DEF Init, CloudInit, IInv, CallOK, PcOK, Evidence, Earned, Truthful, Final,
                   Open, Over, Opened, Mutating

LEMMA NextInvariant == IInv /\ [Next]_vars => IInv'
  <1> SUFFICES ASSUME IInv, [Next]_vars PROVE \A c \in Calls : CallOK(c)'
    BY NextTypes DEF IInv
  <1>0. TypeOK /\ \A c \in Calls : CallOK(c)
    BY DEF IInv
  <1>1. ASSUME NEW c \in Calls, Invoke(c) PROVE \A e \in Calls : CallOK(e)'
    <2>1. Observe
      BY <1>1 DEF Invoke, CreateVolume, DeleteVolume, ControllerPublishVolume,
                  ControllerUnpublishVolume
    <2> QED
      BY <1>1, <2>1, InvokeKeeps, OthersKeep
  <1>2. ASSUME NEW c \in Calls, Serve(c) PROVE \A e \in Calls : CallOK(e)'
    <2>1. Observe
      BY <1>2 DEF Serve, Progress, CreateGet, CreateInsert, CreateRecheck, DeleteIssue, GetDiskOrError,
                  GetInstanceOrError, PublishAttach, UnpublishDetach, WaitDone,
                  WaitPollError, WaitTimeout
    <2> QED
      BY <1>2, <2>1, ServeKeeps, OthersKeep
  <1>3. ASSUME NEW c \in Calls, Abandon(c) \/ OrphanLands(c)
        PROVE  \A e \in Calls : CallOK(e)'
    BY <1>3, LeavingKeeps, OthersKeep
  <1>4. ASSUME NEW c \in Calls, OperationStep(c) PROVE \A e \in Calls : CallOK(e)'
    BY <1>4, OperationKeeps, OthersKeep
  <1>5. ASSUME NEW n \in Nodes, InstanceGoes(n) PROVE \A e \in Calls : CallOK(e)'
    BY <1>0, <1>5, HistoryGrows, CallIsLocal DEF InstanceGoes, DeleteInstance
  <1>6. CASE UNCHANGED vars
    BY <1>0, <1>6, CallIsLocal DEF vars
  <1> QED
    BY <1>1, <1>2, <1>3, <1>4, <1>5, <1>6 DEF Next, Quiescent

LEMMA Invariant == Spec => []IInv
  BY InitInvariant, NextInvariant, PTL DEF Spec

\* No OK is premature, for any number of concurrent calls, abandoned or not:
\* what it promises was true while the call was open, unless the call's own
\* operation ended in an error.  (controller.go 71-349, gce-compute.go 146-163)
THEOREM EveryOkIsEarned == Spec => []OkIsEarned
  <1>1. IInv => OkIsEarned
    BY DEF IInv, CallOK, OkIsEarned
  <1> QED
    BY <1>1, Invariant, PTL

\* NotFound, AlreadyExists, FailedPrecondition and InvalidArgument always
\* have the cause they name.  (controller.go 71-349, gce-compute.go 58-111, 165-179)
THEOREM EveryErrorIsTruthful == Spec => []ErrorsAreTruthful
  <1>1. IInv => ErrorsAreTruthful
    BY DEF IInv, CallOK, ErrorsAreTruthful
  <1> QED
    BY <1>1, Invariant, PTL

\* Only Internal or silence leaves an operation running, and a refusal never
\* started one.  (controller.go 71-349)
THEOREM EveryAnswerIsFinal == Spec => []AnswersAreFinal
  <1>1. IInv => AnswersAreFinal
    BY DEF IInv, CallOK, AnswersAreFinal
  <1> QED
    BY <1>1, Invariant, PTL
-----------------------------------------------------------------------------
(* Termination, as far as it is a matter of single steps *)

\* The steps of its own that a call takes at most from here on.
StepsLeft(at) ==
    CASE at = "idle"                           -> 5
      [] at \in {"get", "getDisk"}             -> 4
      [] at \in {"insert", "getInstance"}      -> 3
      [] at \in {"delete", "attach", "detach"} -> 2
      [] at \in {"wait", "recheck", "orphan"}  -> 1
      [] OTHER                                 -> 0

\* Nothing happens to a call, or it comes nearer to its end.
Nearer(c) ==
    \/ pc'[c] = pc[c] /\ res'[c] = res[c]
    \/ StepsLeft(pc'[c]) < StepsLeft(pc[c])

LEMMA GoingNearer ==
    ASSUME TypeOK, NEW c \in Calls, NEW next, Goto(c, next), StepsLeft(next) < StepsLeft(pc[c])
    PROVE  Nearer(c)
  BY DEF TypeOK, Goto, Nearer

LEMMA AnswerIsNearer ==
    ASSUME TypeOK, NEW c \in Calls, NEW code, Answer(c, code), pc[c] \in {"idle"} \cup Opened
    PROVE  Nearer(c)
  <1>1. pc'[c] = "done"
    BY DEF TypeOK, Answer
  <1>2. StepsLeft("done") = 0
    BY DEF StepsLeft
  <1>3. StepsLeft(pc[c]) \in 1 .. 5
    BY DEF StepsLeft, Opened, Mutating
  <1> QED
    BY <1>1, <1>2, <1>3 DEF Nearer

LEMMA EntryIsNearer ==
    ASSUME TypeOK, NEW c \in Calls, Invoke(c)
    PROVE  Nearer(c)
  <1>1. pc[c] = "idle"
    BY DEF Invoke, CreateVolume, DeleteVolume, ControllerPublishVolume,
           ControllerUnpublishVolume, Enter
  <1>2. \/ \E code : Answer(c, code)
        \/ \E next \in {"get", "delete", "getDisk"} : Goto(c, next)
    BY DEF Invoke, CreateVolume, DeleteVolume, ControllerPublishVolume,
           ControllerUnpublishVolume, CheckArguments
  <1>3. \A next \in {"get", "delete", "getDisk"} : StepsLeft(next) < StepsLeft("idle")
    BY DEF StepsLeft
  <1> QED
    BY <1>1, <1>2, <1>3, AnswerIsNearer, GoingNearer

\* A handler never repeats a request.
LEMMA ServeIsNearer ==
    ASSUME TypeOK, NEW c \in Calls, Serve(c)
    PROVE  Nearer(c)
  <1>1. pc[c] \in Opened
    BY DEF Serve, Progress, CreateGet, CreateInsert, CreateRecheck, DeleteIssue, GetDiskOrError,
           GetInstanceOrError, PublishAttach, UnpublishDetach, WaitDone, WaitPollError,
           WaitTimeout, Opened, Mutating
  <1>2. \/ \E code : Answer(c, code)
        \/ pc[c] = "get" /\ Goto(c, "insert")
        \/ pc[c] = "getDisk" /\ Goto(c, "getInstance")
        \/ pc[c] = "insert" /\ (Goto(c, "wait") \/ Goto(c, "recheck"))
        \/ pc[c] = "getInstance" /\ (Goto(c, "attach") \/ Goto(c, "detach"))
        \/ pc[c] \in {"delete", "attach", "detach"} /\ Goto(c, "wait")
    BY DEF Serve, Progress, CreateGet, CreateInsert, CreateRecheck, DeleteIssue, GetDiskOrError,
           GetInstanceOrError, PublishAttach, UnpublishDetach, WaitDone, WaitPollError,
           WaitTimeout, diskIsAttachedAndCompatible, diskIsAttached
  <1>3. /\ StepsLeft("insert") < StepsLeft("get")
        /\ StepsLeft("getInstance") < StepsLeft("getDisk")
        /\ StepsLeft("wait") < StepsLeft("insert") /\ StepsLeft("recheck") < StepsLeft("insert")
        /\ \A next \in {"attach", "detach"} : StepsLeft(next) < StepsLeft("getInstance")
        /\ \A at \in {"delete", "attach", "detach"} : StepsLeft("wait") < StepsLeft(at)
    BY DEF StepsLeft
  <1> QED
    BY <1>1, <1>2, <1>3, AnswerIsNearer, GoingNearer

LEMMA LeavingIsNearer ==
    ASSUME TypeOK, NEW c \in Calls, Abandon(c) \/ OrphanLands(c)
    PROVE  Nearer(c)
  <1>1. CASE Abandon(c)
    <2>1. /\ pc[c] \in Opened
          /\ pc'[c] = IF pc[c] \in Mutating THEN "orphan" ELSE "done"
      BY <1>1 DEF Abandon, Open, TypeOK
    <2>2. \A at \in Mutating : StepsLeft("orphan") < StepsLeft(at)
      BY DEF StepsLeft, Mutating
    <2>3. \A at \in Opened : StepsLeft("done") < StepsLeft(at)
      BY DEF StepsLeft, Opened, Mutating
    <2> QED
      BY <2>1, <2>2, <2>3 DEF Nearer
  <1>2. CASE OrphanLands(c)
    <2>1. pc[c] = "orphan" /\ Goto(c, "done") /\ StepsLeft("done") < StepsLeft("orphan")
      BY <1>2 DEF OrphanLands, StepsLeft
    <2> QED
      BY <2>1, GoingNearer
  <1> QED
    BY <1>1, <1>2

\* A handler takes five steps at most, repeats no request, and an answer that
\* was given stays: whatever the cloud, the caller or other calls do, each
\* step leaves a call as it is or brings it nearer to its end.  What fairness
\* has to add for every call to return is only that handlers keep moving.
\* (controller.go 71-350, gce-compute.go 146-163)
THEOREM CallsOnlyMoveOn == Spec => [][\A c \in Calls : Nearer(c)]_vars
  <1>1. IInv /\ [Next]_vars => [\A c \in Calls : Nearer(c)]_vars
    <2> SUFFICES ASSUME IInv, Next, NEW c \in Calls PROVE Nearer(c)
      OBVIOUS
    <2>1. TypeOK
      BY DEF IInv
    <2>2. ASSUME NEW e \in Calls, Invoke(e) \/ Serve(e) \/ Abandon(e) \/ OrphanLands(e)
          PROVE  Nearer(c)
      <3>1. CASE e = c
        BY <2>1, <2>2, <3>1, EntryIsNearer, ServeIsNearer, LeavingIsNearer
      <3>2. CASE e # c
        <4>1. OnlyMoves(e)
          BY <2>2, InvokeKeeps, ServeKeeps, LeavingKeeps
        <4> QED
          BY <3>2, <4>1 DEF OnlyMoves, Nearer
      <3> QED
        BY <3>1, <3>2
    <2>3. ASSUME NEW e \in Calls, OperationStep(e) PROVE Nearer(c)
      BY <2>3 DEF OperationStep, Nearer
    <2>4. ASSUME NEW n \in Nodes, InstanceGoes(n) PROVE Nearer(c)
      BY <2>4 DEF InstanceGoes, Nearer
    <2>5. CASE Quiescent
      BY <2>5 DEF Quiescent, Nearer, vars
    <2> QED
      BY <2>2, <2>3, <2>4, <2>5 DEF Next
  <1> QED
    BY <1>1, Invariant, PTL DEF Spec
=============================================================================
