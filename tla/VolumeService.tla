--------------------------- MODULE VolumeService ---------------------------
(***************************************************************************)
(* What the controller service promises its clients, with nothing said of  *)
(* how: no API calls, no zone operations, no polling.  Every RPC changes   *)
(* the world at most once and only in the way of its method; it is         *)
(* answered at most once; and a definite answer (any but Internal and      *)
(* silence) was true at some moment of the call, and settles what the call *)
(* has done, once and for all.                                             *)
(*                                                                         *)
(* ControllerRefinement shows that ControllerServer implements this.       *)
(***************************************************************************)
CONSTANTS
    Disks, Nodes, Calls,
    NodesOf,        \* disk -> the nodes in its zone
    Serves(_, _)    \* whether a disk that exists will do for a create request

VARIABLES
    volume,     \* disk -> the disk as clients see it
    nodes,      \* the instances that exist
    attachment, \* node -> disk -> the mode it is attached with, or "NONE"
    request,    \* call -> its request
    stage,      \* call -> "idle", "open" or "closed"
    answer,     \* call -> the code it was answered with
    effect,     \* call -> what it has done to the world, or may still do
    due         \* call -> history: the answers that it has been entitled to

world   == <<volume, nodes, attachment>>
service == <<volume, nodes, attachment, request, stage, answer, effect, due>>

\* "possible": none yet; "begun": a disk is being made; "done"; "botched":
\* it failed; "never": there will be none.
Effects  == {"possible", "begun", "done", "botched", "never"}
Unsure   == {"Internal", "NoAnswer"}
Definite == {"OK", "NotFound", "AlreadyExists", "FailedPrecondition"}

There(d) == volume[d].status # "ABSENT"
Taken(d) == \E n \in Nodes : attachment[n][d] # "NONE"

IsPublish(r)   == r.rpc = "ControllerPublishVolume"
IsUnpublish(r) == r.rpc = "ControllerUnpublishVolume"
-----------------------------------------------------------------------------
\* The answers request r is entitled to as things stand.
EarnedNow(r) ==
    LET mode == attachment[r.node][r.disk] IN
    {code \in Definite :
        CASE code = "OK" ->
                \/ r.rpc = "CreateVolume" /\ There(r.disk)
                \/ r.rpc = "DeleteVolume" /\ ~There(r.disk)
                \/ IsPublish(r) /\ mode = r.mode
                \/ IsUnpublish(r) /\ mode = "NONE"
          [] code = "NotFound" ->
                /\ IsPublish(r) \/ IsUnpublish(r)
                /\ ~There(r.disk) \/ r.node \notin nodes \cap NodesOf[r.disk]
          [] code = "AlreadyExists" ->
                \/ r.rpc = "CreateVolume" /\ There(r.disk) /\ ~Serves(volume[r.disk], r)
                \/ IsPublish(r) /\ mode \notin {"NONE", r.mode}
          [] code = "FailedPrecondition" ->
                r.rpc = "DeleteVolume" /\ Taken(r.disk)}

\* The answers a malformed request is entitled to; none, if it is well formed.
ArgumentsEarn(r) ==
    CASE r.args = "missing" -> {"InvalidArgument"}
      [] r.args = "badId" /\ r.rpc = "DeleteVolume" -> {"OK"}
      [] r.args = "badId" /\ (IsPublish(r) \/ IsUnpublish(r)) -> {"Unknown"}
      [] OTHER -> {}

Watch ==
    /\ UNCHANGED request
    /\ due' = [c \in Calls |->
                 IF "open" \in {stage[c], stage'[c]} THEN due[c] \cup EarnedNow(request[c])'
                                                     ELSE due[c]]
-----------------------------------------------------------------------------
Begin(c) ==
    /\ stage[c] = "idle" /\ ArgumentsEarn(request[c]) = {}
    /\ stage' = [stage EXCEPT ![c] = "open"]
    /\ UNCHANGED <<world, answer, effect>> /\ Watch

Says(c, code) == answer' = [answer EXCEPT ![c] = code]

Close(c) == stage' = [stage EXCEPT ![c] = "closed"] /\ UNCHANGED world

TurnAway(c) ==
    /\ stage[c] = "idle" /\ Close(c)
    /\ \E code \in ArgumentsEarn(request[c]) : Says(c, code)
    /\ effect' = [effect EXCEPT ![c] = "never"]
    /\ Watch

\* The effect of a call that ends without having any: it never will have.
Settle(c) ==
    effect' = [effect EXCEPT ![c] = IF @ = "possible" THEN "never" ELSE @]

\* OK: it was true, or the call's own work failed unnoticed; and the work is
\* over.
AnswerOK(c) ==
    /\ effect[c] # "begun" /\ Says(c, "OK")
    /\ "OK" \in due'[c] \/ effect[c] = "botched"
    /\ Settle(c)

\* A refusal: it was true, and the call has changed nothing and will not.
Refuse(c) ==
    /\ effect[c] = "possible"
    /\ \E code \in Definite \ {"OK"} : Says(c, code) /\ code \in due'[c]
    /\ Settle(c)

\* Internal, or silence: nobody knows.
LeaveOpen(c) ==
    /\ \E code \in Unsure : Says(c, code)
    /\ Settle(c) \/ UNCHANGED effect

Answer(c) ==
    /\ stage[c] = "open" /\ Close(c)
    /\ AnswerOK(c) \/ Refuse(c) \/ LeaveOpen(c)
    /\ Watch
-----------------------------------------------------------------------------
(* The one effect of a call, which may come after its answer. *)

Make(c) ==
    LET r == request[c] d == r.disk IN
    /\ r.rpc = "CreateVolume"
    /\ \A e \in Disks \ {d} : volume'[e] = volume[e]
    /\ \/ /\ effect[c] = "possible" /\ ~There(d)
          /\ volume'[d].status = "CREATING" /\ volume'[d].type = r.type
          /\ effect' = [effect EXCEPT ![c] = "begun"]
       \/ /\ effect[c] = "begun" /\ volume[d].status = "CREATING"
          /\ volume'[d] = [volume[d] EXCEPT !.status = "READY"]
          /\ effect' = [effect EXCEPT ![c] = "done"]
       \/ /\ effect[c] = "begun" /\ volume[d].status = "CREATING"
          /\ volume'[d].status = "ABSENT"
          /\ effect' = [effect EXCEPT ![c] = "botched"]
    /\ UNCHANGED <<nodes, attachment>>

Remove(c) ==
    LET r == request[c] d == r.disk IN
    /\ r.rpc = "DeleteVolume" /\ effect[c] = "possible"
    /\ volume[d].status = "READY" /\ ~Taken(d)
    /\ \A e \in Disks \ {d} : volume'[e] = volume[e]
    /\ volume'[d].status = "ABSENT"
    /\ effect' = [effect EXCEPT ![c] = "done"]
    /\ UNCHANGED <<nodes, attachment>>

Attach(c) ==
    LET r == request[c] IN
    /\ IsPublish(r) /\ effect[c] = "possible"
    /\ volume[r.disk].status = "READY" /\ r.node \in nodes
    /\ r.mode = "READ_WRITE" => ~Taken(r.disk)
    /\ attachment[r.node][r.disk] = "NONE"
    /\ attachment' = [attachment EXCEPT ![r.node][r.disk] = r.mode]
    /\ effect' = [effect EXCEPT ![c] = "done"]
    /\ UNCHANGED <<volume, nodes>>

Detach(c) ==
    LET r == request[c] IN
    /\ IsUnpublish(r) /\ effect[c] = "possible"
    /\ attachment[r.node][r.disk] # "NONE"
    /\ attachment' = [attachment EXCEPT ![r.node][r.disk] = "NONE"]
    /\ effect' = [effect EXCEPT ![c] = "done"]
    /\ UNCHANGED <<volume, nodes>>

\* What the call was to do fails, or its request is never carried out.
Fizzle(c) ==
    /\ effect[c] = "possible"
    /\ \/ effect' = [effect EXCEPT ![c] = "botched"]
       \/ stage[c] = "closed" /\ effect' = [effect EXCEPT ![c] = "never"]
    /\ UNCHANGED world

TakeEffect(c) ==
    /\ stage[c] # "idle" /\ UNCHANGED <<stage, answer>>
    /\ Make(c) \/ Remove(c) \/ Attach(c) \/ Detach(c) \/ Fizzle(c)
    /\ Watch

NodeGoes(n) ==
    /\ n \in nodes
    /\ nodes' = nodes \ {n}
    /\ attachment' = [attachment EXCEPT ![n] = [d \in Disks |-> "NONE"]]
    /\ UNCHANGED <<volume, stage, answer, effect>> /\ Watch
-----------------------------------------------------------------------------
VInit ==
    /\ nodes = Nodes
    /\ attachment = [n \in Nodes |-> [d \in Disks |-> "NONE"]]
    /\ stage = [c \in Calls |-> "idle"]
    /\ answer = [c \in Calls |-> "None"]
    /\ effect = [c \in Calls |-> "possible"]
    /\ due = [c \in Calls |-> {}]

VNext ==
    \/ \E c \in Calls : Begin(c) \/ TurnAway(c) \/ Answer(c) \/ TakeEffect(c)
    \/ \E n \in Nodes : NodeGoes(n)

VSpec == VInit /\ [][VNext]_service
=============================================================================
