---------------------------- MODULE DriverProcess ----------------------------
(***************************************************************************)
(* The driver's process: main (cmd/main.go) builds the cloud provider and  *)
(* the driver, starts the gRPC server in a goroutine of its own            *)
(* (server.go) and waits on a WaitGroup.  A process that exits or is       *)
(* killed is launched again; the only thing it leaves behind is the file   *)
(* of its unix socket, on a volume that outlives the container.            *)
(*                                                                         *)
(* Everything that may go wrong from outside takes one of MaxFaults        *)
(* faults, so that a run is a bounded number of bad events and then peace. *)
(***************************************************************************)
EXTENDS Naturals, Sequences

CONSTANTS
    Clients,        \* sidecars and kubelet, each with one call to make
    MaxTokenPolls,  \* polls of the token source within its 30 seconds
    MaxFaults,      \* bound on the events that go wrong
    Configurations  \* the command lines the driver may be given

\* In the order they are registered in.
Services == <<"Identity", "Controller", "Node">>
ServiceNames == {Services[i] : i \in DOMAIN Services}

\* complete: neither the driver's name nor the node id is empty.
ConfigurationType == [endpoint : {"unix", "tcp", "malformed"}, complete : BOOLEAN]

ASSUME ProcessAssumption ==
    /\ MaxTokenPolls \in Nat \ {0}
    /\ MaxFaults \in Nat
    /\ Configurations \subseteq ConfigurationType

VARIABLES
    config,     \* the command line
    main,       \* what the main goroutine does next; "down": no process
    serving,    \* what the serve goroutine does next
    wg,         \* the WaitGroup's counter
    polls,      \* polls of the token source so far
    named,      \* SetupGCEDriver has filled the driver in
    registered, \* how many of Services are registered
    socketFile, \* the socket's file exists
    calls,      \* client -> the state of its call
    faults      \* faults left

process == <<main, serving, wg, polls, named, registered>>
procVars == <<config, main, serving, wg, polls, named, registered, socketFile, calls, faults>>

MainSteps == {"down", "token", "metadata", "setup", "start", "wait", "parked"}
ServeSteps == {"none", "parse", "remove", "listen", "register", "accept", "returned"}

\* A call that is under way is known by the service it is for.
CallStates == {"idle", "OK", "Unimplemented", "Unavailable"} \cup ServiceNames

\* From net.Listen on, the kernel queues connections.
Listening == serving \in {"register", "accept"}

Fault == faults > 0 /\ faults' = faults - 1

\* The process is gone, and its connections with it.
Ends ==
    /\ main' = "down" /\ serving' = "none" /\ wg' = 0 /\ polls' = 0
    /\ named' = FALSE /\ registered' = 0
    /\ calls' = [c \in Clients |-> IF calls[c] \in ServiceNames THEN "idle" ELSE calls[c]]
    /\ UNCHANGED <<config, socketFile>>
-----------------------------------------------------------------------------
(* The main goroutine *)

\* The container runtime starts the driver, again if need be.
Launch ==
    /\ main = "down" /\ main' = "token"
    /\ UNCHANGED <<config, serving, wg, polls, named, registered, socketFile, calls, faults>>

MainGoes(next) ==
    main' = next /\ UNCHANGED <<config, serving, wg, named, registered, socketFile, calls>>

\* Not the code: the polls never run out.
newDefaultOauthClientForever ==
    /\ main = "token"
    /\ \/ MainGoes("metadata") /\ UNCHANGED <<polls, faults>>
       \/ Fault /\ MainGoes("token") /\ polls' = polls + 1

\* Without a token source the process gives up at once; errors of the token
\* source are retried until the polls run out.
newDefaultOauthClient ==
    /\ main = "token"
    /\ \/ polls = 0 /\ Fault /\ Ends
       \/ MainGoes("metadata") /\ UNCHANGED <<polls, faults>>
       \/ polls + 1 < MaxTokenPolls /\ Fault /\ MainGoes("token") /\ polls' = polls + 1
       \/ polls + 1 = MaxTokenPolls /\ Fault /\ Ends

getProjectAndZoneFromMetadata ==
    /\ main = "metadata"
    /\ \/ MainGoes("setup") /\ UNCHANGED <<polls, faults>>
       \/ Fault /\ Ends

SetupGCEDriver ==
    /\ main = "setup"
    /\ \/ /\ config.complete /\ named' = TRUE /\ main' = "start"
          /\ UNCHANGED <<config, serving, wg, polls, registered, socketFile, calls, faults>>
       \/ ~config.complete /\ Ends /\ UNCHANGED faults

Start ==
    /\ main = "start" /\ main' = "wait"
    /\ wg' = wg + 1 /\ serving' = "parse"
    /\ UNCHANGED <<config, polls, named, registered, socketFile, calls, faults>>

\* Run returns when Wait does, and main then exits with status 0.  With the
\* counter above 0 Wait parks the goroutine until a Done makes it 0, and
\* nothing ever calls Done.
Wait ==
    /\ main = "wait"
    /\ \/ wg = 0 /\ Ends
       \/ wg > 0 /\ MainGoes("parked") /\ UNCHANGED polls
    /\ UNCHANGED faults
-----------------------------------------------------------------------------
(* The serve goroutine. *)

ServeGoes(next) ==
    serving' = next /\ UNCHANGED <<config, main, wg, polls, named, calls>>

ParseEndpoint ==
    /\ serving = "parse"
    /\ CASE config.endpoint = "unix" -> ServeGoes("remove") /\ UNCHANGED <<registered, socketFile>>
         [] config.endpoint = "tcp"  -> ServeGoes("listen") /\ UNCHANGED <<registered, socketFile>>
         [] OTHER                    -> Ends
    /\ UNCHANGED faults

\* Not the code: leaves the file of the last process where it is.
RemoveSocketSkipped ==
    /\ serving = "remove" /\ ServeGoes("listen")
    /\ UNCHANGED <<socketFile, registered, faults>>

\* os.Remove of the file the last process may have left.
RemoveSocket ==
    /\ serving = "remove"
    /\ \/ ServeGoes("listen") /\ socketFile' = FALSE /\ UNCHANGED <<registered, faults>>
       \/ Fault /\ Ends

\* Not the code: accepts before the services are registered.
ListenAndAccept ==
    /\ serving = "listen" /\ ServeGoes("accept")
    /\ socketFile' = (config.endpoint = "unix") /\ UNCHANGED <<registered, faults>>

\* Binding to a path that exists fails.
Listen ==
    /\ serving = "listen"
    /\ \/ /\ ~socketFile /\ ServeGoes("register")
          /\ socketFile' = (config.endpoint = "unix") /\ UNCHANGED <<registered, faults>>
       \/ socketFile /\ Ends /\ UNCHANGED faults
       \/ Fault /\ Ends

Register ==
    /\ serving = "register" /\ registered' = registered + 1
    /\ ServeGoes(IF registered' = Len(Services) THEN "accept" ELSE "register")
    /\ UNCHANGED <<socketFile, faults>>

\* Serve gives up on a permanent error of Accept: the listener is closed,
\* which unlinks its file, and the goroutine ends without a word.
ServeReturns ==
    /\ serving = "accept" /\ Fault /\ ServeGoes("returned")
    /\ socketFile' = FALSE /\ UNCHANGED registered
-----------------------------------------------------------------------------
(* Clients *)

Connect(c) ==
    /\ Listening /\ calls[c] = "idle"
    /\ \E s \in ServiceNames : calls' = [calls EXCEPT ![c] = s]
    /\ UNCHANGED <<process, config, socketFile, faults>>

\* gRPC answers Unimplemented for a service it does not know, and
\* GetPluginInfo Unavailable as long as the driver has no name.
Answers(c) ==
    /\ serving = "accept"
    /\ \E i \in DOMAIN Services :
          /\ calls[c] = Services[i]
          /\ calls' = [calls EXCEPT ![c] =
                          IF registered < i THEN "Unimplemented"
                          ELSE IF Services[i] = "Identity" /\ ~named THEN "Unavailable" ELSE "OK"]
    /\ UNCHANGED <<process, config, socketFile, faults>>

\* The container is killed.
Killed == main # "down" /\ Fault /\ Ends
-----------------------------------------------------------------------------
ProcInit ==
    /\ config \in Configurations
    /\ main = "down" /\ serving = "none" /\ wg = 0 /\ polls = 0
    /\ named = FALSE /\ registered = 0
    /\ socketFile \in BOOLEAN /\ (socketFile => config.endpoint = "unix")
    /\ calls = [c \in Clients |-> "idle"]
    /\ faults = MaxFaults

MainStep ==
    newDefaultOauthClient \/ getProjectAndZoneFromMetadata \/ SetupGCEDriver \/ Start \/ Wait

ServeStep == ParseEndpoint \/ RemoveSocket \/ Listen \/ Register

ProcNext ==
    \/ Launch \/ MainStep \/ ServeStep \/ ServeReturns \/ Killed
    \/ \E c \in Clients : Connect(c) \/ Answers(c)

\* The runtime restarts the container and both goroutines are scheduled.
\* No fault is fair.
ProcSpec ==
    /\ ProcInit /\ [][ProcNext]_procVars
    /\ WF_procVars(Launch) /\ WF_procVars(MainStep) /\ WF_procVars(ServeStep)
-----------------------------------------------------------------------------
\* The goroutine and what it has registered belong to a process.
ProcTypeOK ==
    /\ config \in Configurations
    /\ main \in MainSteps /\ serving \in ServeSteps
    /\ wg \in Nat /\ polls \in 0..(MaxTokenPolls - 1)
    /\ named \in BOOLEAN /\ registered \in 0..Len(Services)
    /\ socketFile \in BOOLEAN
    /\ calls \in [Clients -> CallStates]
    /\ faults \in 0..MaxFaults
    /\ serving # "none" => main \in {"wait", "parked"}

\* Whoever gets through to the driver finds a driver that is complete: no
\* call meets a service that is not registered yet or a driver without a
\* name, although the socket takes connections before either is looked at.
\* (gce-driver.go 45-78, server.go 85-108)
OnlyCompleteDriverAnswers ==
    \A c \in Clients : calls[c] \notin {"Unimplemented", "Unavailable"}

\* However the driver is killed, and whatever the last process left on the
\* disk, a correctly configured driver serves in the end, once faults stop;
\* or it is in the state of WaitSeesTheEnd below.
ServesInTheEnd ==
    (config.complete /\ config.endpoint # "malformed")
        => <>[](serving \in {"accept", "returned"})

\* server.go:32 says of Wait: "Waits for the service to stop".  (Does not
\* hold: serve never calls wg.Done, so that a driver whose listener failed
\* hangs where an exit would have it restarted.)
WaitSeesTheEnd == serving = "returned" ~> main \notin {"wait", "parked"}
=============================================================================
