--------------------------- MODULE NodeRefinement ---------------------------
(***************************************************************************)
(* NodeServer implements MountService: what kubelet can observe of it, and *)
(* how each of the abstract variables is read off its state.               *)
(***************************************************************************)
EXTENDS NodeServer

NodeStageOf(c) ==
    IF npc[c] = "idle" THEN "idle" ELSE IF NodeOpen(c) THEN "open" ELSE "closed"

\* What a call has done is known by the step its handler has come to, and
\* once it is over by its answer.
NodeEffectOf(c) ==
    CASE npc[c] = "remount" -> "formatted"
      [] npc[c] = "return"  -> "done"
      [] npc[c] \in {"cleanRecheck", "remove"} -> "spent"
      [] npc[c] = "done" -> IF nres[c] = "OK" THEN "done" ELSE "spent"
      [] OTHER -> "possible"

MS == INSTANCE MountService WITH
        Calls    <- NodeCalls,
        present  <- device,
        holds    <- content,
        stacks   <- mounts,
        request  <- nreq,
        stage    <- [c \in NodeCalls |-> NodeStageOf(c)],
        answer   <- nres,
        effect   <- [c \in NodeCalls |-> NodeEffectOf(c)],
        sawBlank <- {c \in NodeCalls : "blank" \in nsaw[c]}

\* The node service is the service MountService describes: whatever calls,
\* failures, crashes and reboots interleave, each call puts up or takes down
\* one mount at most, before it is answered, and is answered OK exactly if it
\* has; only the cleanup of a publish that fails touches another's mount, and
\* one at most; a stage formats once at most.  (node.go 35-218)
ImplementsMountService == MS!MSpec
=============================================================================
