------------------------ MODULE ControllerRefinement ------------------------
(***************************************************************************)
(* ControllerServer implements VolumeService: what clients can observe of  *)
(* it, and how each of the abstract variables is read off its state.       *)
(***************************************************************************)
EXTENDS ControllerServer

StageOf(c) == IF pc[c] = "idle" THEN "idle" ELSE IF Open(c) THEN "open" ELSE "closed"

\* A call may still change the world as long as it has no operation and can
\* get one, or has one that waits to run.
EffectOf(c) ==
    CASE ops[c] = "NONE"    -> IF pc[c] = "done" THEN "never" ELSE "possible"
      [] ops[c] = "PENDING" -> "possible"
      [] ops[c] = "RUNNING" -> "begun"
      [] ops[c] = "DONE"    -> "done"
      [] ops[c] = "FAILED"  -> "botched"

\* The answers that a call with request r is entitled to once it has seen.
DueFor(r, seen) ==
    {code \in {"OK", "NotFound", "AlreadyExists", "FailedPrecondition"} :
        CASE code = "OK" ->
                \/ r.rpc = "CreateVolume" /\ seen \cap {"disk", "ready"} # {}
                \/ r.rpc = "DeleteVolume" /\ "noDisk" \in seen
                \/ r.rpc = "ControllerPublishVolume" /\ "served" \in seen
                \/ r.rpc = "ControllerUnpublishVolume" /\ "detached" \in seen
          [] code = "NotFound" ->
                /\ r.rpc \in {"ControllerPublishVolume", "ControllerUnpublishVolume"}
                /\ seen \cap {"noDisk", "noNode"} # {}
          [] code = "AlreadyExists" ->
                \/ r.rpc = "CreateVolume" /\ "misfit" \in seen
                \/ r.rpc = "ControllerPublishVolume" /\ "clash" \in seen
          [] code = "FailedPrecondition" -> r.rpc = "DeleteVolume" /\ "inUse" \in seen}

Compatible(disk, r) ==
    CapacityFits(disk.gb, r.required, r.limit) /\ TypeFits(disk.type, r.type)

VS == INSTANCE VolumeService WITH
        Serves     <- Compatible,
        volume     <- disks,
        nodes      <- instances,
        attachment <- attached,
        request    <- req,
        stage      <- [c \in Calls |-> StageOf(c)],
        answer     <- res,
        effect     <- [c \in Calls |-> EffectOf(c)],
        due        <- [c \in Calls |-> DueFor(req[c], saw[c])]

\* The controller service is the service VolumeService describes: whatever
\* calls, failures, abandonments and late operations interleave, each call has
\* at most one effect, of its own kind, and none after a definite answer; and
\* definite answers are earned.  (controller.go 71-349, gce-compute.go 58-179)
ImplementsVolumeService == VS!VSpec
=============================================================================
