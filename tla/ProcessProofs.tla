---------------------------- MODULE ProcessProofs ----------------------------
(***************************************************************************)
(* DriverProcess for any clients, any number of token polls and any number *)
(* of faults: the type invariant, and that only a complete driver answers. *)
(***************************************************************************)
EXTENDS DriverProcess, TLAPS

\* How far the process has come: the serve goroutine is counted and the
\* driver named as soon as it exists, nothing is accepted before everything
\* is registered, and a call under way is one that a listening socket took.
ProgressOK ==
    /\ main \in {"start", "wait", "parked"} => named
    /\ main \in {"wait", "parked"} => wg = 1
    /\ serving \in {"accept", "returned"} => registered = Len(Services)
    /\ serving = "register" => registered < Len(Services)
    /\ main \notin {"wait", "parked"} => wg = 0
    /\ serving \in {"none", "parse", "remove", "listen"} => registered = 0

ProcIInv == ProcTypeOK /\ ProgressOK /\ OnlyCompleteDriverAnswers

LEMMA ThreeServices ==
    Len(Services) = 3 /\ DOMAIN Services = 1..3 /\ ServiceNames \subseteq CallStates
  BY DEF Services, ServiceNames, CallStates
-----------------------------------------------------------------------------
(* The shapes a step may have *)

\* A process that ends leaves a state that promises nothing.
LEMMA EndingKeeps ==
    ASSUME ProcIInv, Ends, faults' \in 0..MaxFaults
    PROVE  ProcIInv'
  <1>1. calls' \in [Clients -> CallStates]
        /\ \A c \in Clients : calls'[c] \notin {"Unimplemented", "Unavailable"}
    BY DEF Ends, ProcIInv, ProcTypeOK, OnlyCompleteDriverAnswers, CallStates
  <1>2. 0 \in 0..(MaxTokenPolls - 1) /\ 0 \in 0..Len(Services)
    BY ThreeServices, ProcessAssumption
  <1>3. ProcTypeOK'
    BY <1>1, <1>2 DEF Ends, ProcIInv, ProcTypeOK, MainSteps, ServeSteps
  <1>4. ProgressOK'
    BY ThreeServices DEF Ends, ProgressOK
  <1>5. OnlyCompleteDriverAnswers'
    BY <1>1 DEF OnlyCompleteDriverAnswers
  <1> QED
    BY <1>3, <1>4, <1>5 DEF ProcIInv

LEMMA FaultTypes ==
    ASSUME ProcIInv, Fault
    PROVE  faults' \in 0..MaxFaults
  <1>1. MaxFaults \in Nat /\ faults \in 0..MaxFaults
    BY ProcessAssumption DEF ProcIInv, ProcTypeOK
  <1>2. faults > 0 /\ faults' = faults - 1
    BY DEF Fault
  <1> QED
    BY <1>1, <1>2

\* A step that leaves the calls as they are keeps what is promised of them.
LEMMA CallsKept ==
    ASSUME ProcIInv, UNCHANGED calls
    PROVE  OnlyCompleteDriverAnswers'
  BY DEF ProcIInv, OnlyCompleteDriverAnswers
-----------------------------------------------------------------------------
(* The steps *)

LEMMA LaunchKeeps ==
    ASSUME ProcIInv, Launch
    PROVE  ProcIInv'
  <1>1. ProcTypeOK'
    BY DEF ProcIInv, ProcTypeOK, Launch, MainSteps
  <1>2. ProgressOK'
    BY DEF ProcIInv, ProcTypeOK, ProgressOK, Launch
  <1> QED
    BY <1>1, <1>2, CallsKept DEF ProcIInv, Launch

LEMMA MainKeeps ==
    ASSUME ProcIInv, MainStep
    PROVE  ProcIInv'
  <1>0. ProcTypeOK /\ ProgressOK
    BY DEF ProcIInv
  <1>1. CASE newDefaultOauthClient
    <2>1. CASE Fault /\ Ends
      BY <2>1, FaultTypes, EndingKeeps
    <2>2. CASE MainGoes("metadata") /\ UNCHANGED <<polls, faults>>
      <3>1. ProcTypeOK'
        BY <1>0, <1>1, <2>2 DEF newDefaultOauthClient, MainGoes, ProcTypeOK, MainSteps
      <3>2. ProgressOK'
        BY <1>0, <1>1, <2>2 DEF newDefaultOauthClient, MainGoes, ProgressOK
      <3> QED
        BY <2>2, <3>1, <3>2, CallsKept DEF ProcIInv, MainGoes
    <2>3. CASE polls + 1 < MaxTokenPolls /\ Fault /\ MainGoes("token") /\ polls' = polls + 1
      <3>1. polls \in 0..(MaxTokenPolls - 1) /\ MaxTokenPolls \in Nat
        BY <1>0, ProcessAssumption DEF ProcTypeOK
      <3>2. faults' \in 0..MaxFaults /\ polls' \in 0..(MaxTokenPolls - 1)
        BY <2>3, <3>1, FaultTypes
      <3>3. ProcTypeOK'
        BY <1>0, <1>1, <2>3, <3>2 DEF newDefaultOauthClient, MainGoes, ProcTypeOK, MainSteps
      <3>4. ProgressOK'
        BY <1>0, <1>1, <2>3 DEF newDefaultOauthClient, MainGoes, ProgressOK
      <3> QED
        BY <2>3, <3>3, <3>4, CallsKept DEF ProcIInv, MainGoes
    <2> QED
      BY <1>1, <2>1, <2>2, <2>3 DEF newDefaultOauthClient
  <1>2. CASE getProjectAndZoneFromMetadata
    <2>1. CASE Fault /\ Ends
      BY <2>1, FaultTypes, EndingKeeps
    <2>2. CASE MainGoes("setup") /\ UNCHANGED <<polls, faults>>
      <3>1. ProcTypeOK'
        BY <1>0, <1>2, <2>2 DEF getProjectAndZoneFromMetadata, MainGoes, ProcTypeOK, MainSteps
      <3>2. ProgressOK'
        BY <1>0, <1>2, <2>2 DEF getProjectAndZoneFromMetadata, MainGoes, ProgressOK
      <3> QED
        BY <2>2, <3>1, <3>2, CallsKept DEF ProcIInv, MainGoes
    <2> QED
      BY <1>2, <2>1, <2>2 DEF getProjectAndZoneFromMetadata
  <1>3. CASE SetupGCEDriver
    <2>1. CASE Ends /\ UNCHANGED faults
      BY <1>0, <2>1, EndingKeeps DEF ProcTypeOK
    <2>2. CASE named' = TRUE /\ main' = "start"
              /\ UNCHANGED <<config, serving, wg, polls, registered, socketFile, calls, faults>>
      <3>1. ProcTypeOK'
        BY <1>0, <1>3, <2>2 DEF SetupGCEDriver, ProcTypeOK, MainSteps
      <3>2. ProgressOK'
        BY <1>0, <1>3, <2>2 DEF SetupGCEDriver, ProgressOK
      <3> QED
        BY <2>2, <3>1, <3>2, CallsKept DEF ProcIInv
    <2> QED
      BY <1>3, <2>1, <2>2 DEF SetupGCEDriver
  <1>4. CASE Start
    <2>1. serving = "none" /\ wg = 0 /\ named /\ registered = 0
      BY <1>0, <1>4 DEF Start, ProcTypeOK, ProgressOK
    <2>2. /\ main' = "wait" /\ serving' = "parse" /\ wg' = 1
          /\ UNCHANGED <<config, polls, named, registered, socketFile, calls, faults>>
      BY <1>4, <2>1 DEF Start
    <2>3. ProcTypeOK'
      BY <1>0, <2>2 DEF ProcTypeOK, MainSteps, ServeSteps
    <2>4. ProgressOK'
      BY <1>0, <2>1, <2>2 DEF ProgressOK
    <2> QED
      BY <2>2, <2>3, <2>4, CallsKept DEF ProcIInv
  <1>5. CASE Wait
    <2>1. wg = 1 /\ MainGoes("parked") /\ UNCHANGED <<polls, faults>>
      BY <1>0, <1>5 DEF Wait, ProgressOK
    <2>2. ProcTypeOK'
      BY <1>0, <2>1 DEF MainGoes, ProcTypeOK, MainSteps
    <2>3. ProgressOK'
      BY <1>0, <1>5, <2>1 DEF Wait, MainGoes, ProgressOK
    <2> QED
      BY <2>1, <2>2, <2>3, CallsKept DEF ProcIInv, MainGoes
  <1> QED
    BY <1>1, <1>2, <1>3, <1>4, <1>5 DEF MainStep

LEMMA ServeKeeps ==
    ASSUME ProcIInv, ServeStep \/ ServeReturns
    PROVE  ProcIInv'
  <1>0. ProcTypeOK /\ ProgressOK
    BY DEF ProcIInv
  <1>1. CASE ParseEndpoint
    <2>1. CASE Ends
      BY <1>0, <1>1, <2>1, EndingKeeps DEF ParseEndpoint, ProcTypeOK
    <2>2. ASSUME NEW next \in {"remove", "listen"}, ServeGoes(next),
                 UNCHANGED <<registered, socketFile>>
          PROVE  ProcIInv'
      <3>1. ProcTypeOK'
        BY <1>0, <1>1, <2>2 DEF ParseEndpoint, ServeGoes, ProcTypeOK, ServeSteps
      <3>2. ProgressOK'
        BY <1>0, <1>1, <2>2 DEF ParseEndpoint, ServeGoes, ProgressOK
      <3> QED
        BY <2>2, <3>1, <3>2, CallsKept DEF ProcIInv, ServeGoes
    <2> QED
      BY <1>1, <2>1, <2>2 DEF ParseEndpoint
  <1>2. CASE RemoveSocket
    <2>1. CASE Fault /\ Ends
      BY <2>1, FaultTypes, EndingKeeps
    <2>2. CASE ServeGoes("listen") /\ socketFile' = FALSE /\ UNCHANGED <<registered, faults>>
      <3>1. ProcTypeOK'
        BY <1>0, <1>2, <2>2 DEF RemoveSocket, ServeGoes, ProcTypeOK, ServeSteps
      <3>2. ProgressOK'
        BY <1>0, <1>2, <2>2 DEF RemoveSocket, ServeGoes, ProgressOK
      <3> QED
        BY <2>2, <3>1, <3>2, CallsKept DEF ProcIInv, ServeGoes
    <2> QED
      BY <1>2, <2>1, <2>2 DEF RemoveSocket
  <1>3. CASE Listen
    <2>1. CASE Fault /\ Ends
      BY <2>1, FaultTypes, EndingKeeps
    <2>2. CASE Ends /\ UNCHANGED faults
      BY <1>0, <2>2, EndingKeeps DEF ProcTypeOK
    <2>3. CASE ServeGoes("register") /\ socketFile' = (config.endpoint = "unix")
              /\ UNCHANGED <<registered, faults>>
      <3>1. ProcTypeOK'
        BY <1>0, <1>3, <2>3 DEF Listen, ServeGoes, ProcTypeOK, ServeSteps
      <3>2. ProgressOK'
        BY <1>0, <1>3, <2>3, ThreeServices DEF Listen, ServeGoes, ProgressOK
      <3> QED
        BY <2>3, <3>1, <3>2, CallsKept DEF ProcIInv, ServeGoes
    <2> QED
      BY <1>3, <2>1, <2>2, <2>3 DEF Listen
  <1>4. CASE Register
    <2>1. /\ serving = "register" /\ registered' = registered + 1
          /\ serving' = IF registered' = Len(Services) THEN "accept" ELSE "register"
          /\ UNCHANGED <<config, main, wg, polls, named, socketFile, calls, faults>>
      BY <1>4 DEF Register, ServeGoes
    <2>2. registered \in 0..Len(Services) /\ registered < Len(Services) /\ Len(Services) \in Nat
      <3>1. registered < Len(Services)
        BY <1>0, <2>1 DEF ProgressOK
      <3>2. registered \in 0..Len(Services)
        BY <1>0 DEF ProcTypeOK
      <3> QED
        BY <3>1, <3>2, ThreeServices
    <2>3. /\ registered' \in 0..Len(Services)
          /\ serving' = "accept" => registered' = Len(Services)
          /\ serving' = "register" => registered' < Len(Services)
          /\ serving' \in {"accept", "register"}
      BY <2>1, <2>2
    <2>4. ProcTypeOK'
      BY <1>0, <2>1, <2>3 DEF ProcTypeOK, ServeSteps
    <2>5. ProgressOK'
      BY <1>0, <2>1, <2>3 DEF ProgressOK
    <2> QED
      BY <2>1, <2>4, <2>5, CallsKept DEF ProcIInv
  <1>5. CASE ServeReturns
    <2>1. faults' \in 0..MaxFaults
      BY <1>5, FaultTypes DEF ServeReturns
    <2>2. ProcTypeOK'
      BY <1>0, <1>5, <2>1 DEF ServeReturns, ServeGoes, ProcTypeOK, ServeSteps
    <2>3. ProgressOK'
      BY <1>0, <1>5 DEF ServeReturns, ServeGoes, ProgressOK
    <2> QED
      BY <1>5, <2>2, <2>3, CallsKept DEF ProcIInv, ServeReturns, ServeGoes
  <1> QED
    BY <1>1, <1>2, <1>3, <1>4, <1>5 DEF ServeStep

LEMMA ClientsKeep ==
    ASSUME ProcIInv, NEW c \in Clients, Connect(c) \/ Answers(c)
    PROVE  ProcIInv'
  <1>0. ProcTypeOK /\ ProgressOK
    BY DEF ProcIInv
  <1>1. UNCHANGED <<process, config, socketFile, faults>>
    BY DEF Connect, Answers
  <1>2. \E answer \in ServiceNames \cup {"OK"} : calls' = [calls EXCEPT ![c] = answer]
    <2>1. CASE Connect(c)
      BY <2>1 DEF Connect
    <2>2. CASE Answers(c)
      <3>1. registered = 3 /\ named
        BY <1>0, <2>2, ThreeServices DEF Answers, ProgressOK, ProcTypeOK
      <3>2. PICK i \in DOMAIN Services :
               calls' = [calls EXCEPT ![c] =
                  IF registered < i THEN "Unimplemented"
                  ELSE IF Services[i] = "Identity" /\ ~named THEN "Unavailable" ELSE "OK"]
        BY <2>2 DEF Answers
      <3>3. ~(registered < i)
        BY <3>1, ThreeServices
      <3> QED
        BY <3>1, <3>2, <3>3
    <2> QED
      BY <2>1, <2>2
  <1>3. PICK answer \in ServiceNames \cup {"OK"} : calls' = [calls EXCEPT ![c] = answer]
    BY <1>2
  <1>4. answer \in CallStates /\ answer \notin {"Unimplemented", "Unavailable"}
    BY DEF Services, ServiceNames, CallStates
  <1>5. ProcTypeOK'
    BY <1>0, <1>1, <1>3, <1>4 DEF ProcTypeOK, process
  <1>6. ProgressOK'
    BY <1>0, <1>1 DEF ProgressOK, process
  <1>7. OnlyCompleteDriverAnswers'
    BY <1>0, <1>3, <1>4 DEF ProcIInv, ProcTypeOK, OnlyCompleteDriverAnswers
  <1> QED
    BY <1>5, <1>6, <1>7 DEF ProcIInv
-----------------------------------------------------------------------------
(* The invariant *)

LEMMA ProcInitHolds == ProcInit => ProcIInv
  <1> SUFFICES ASSUME ProcInit PROVE ProcIInv
    OBVIOUS
  <1>1. /\ 0 \in 0..(MaxTokenPolls - 1) /\ 0 \in 0..Len(Services)
        /\ MaxFaults \in 0..MaxFaults
    BY ThreeServices, ProcessAssumption
  <1>2. ProcTypeOK
    BY <1>1 DEF ProcInit, ProcTypeOK, MainSteps, ServeSteps, CallStates
  <1>3. ProgressOK
    BY DEF ProcInit, ProgressOK
  <1>4. OnlyCompleteDriverAnswers
    BY DEF ProcInit, OnlyCompleteDriverAnswers
  <1> QED
    BY <1>2, <1>3, <1>4 DEF ProcIInv

LEMMA ProcStepKeeps == ProcIInv /\ [ProcNext]_procVars => ProcIInv'
  <1> SUFFICES ASSUME ProcIInv, [ProcNext]_procVars PROVE ProcIInv'
    OBVIOUS
  <1>1. CASE Launch
    BY <1>1, LaunchKeeps
  <1>2. CASE MainStep
    BY <1>2, MainKeeps
  <1>3. CASE ServeStep \/ ServeReturns
    BY <1>3, ServeKeeps
  <1>4. CASE Killed
    BY <1>4, FaultTypes, EndingKeeps DEF Killed
  <1>5. ASSUME NEW c \in Clients, Connect(c) \/ Answers(c) PROVE ProcIInv'
    BY <1>5, ClientsKeep
  <1>6. CASE UNCHANGED procVars
    BY <1>6 DEF procVars, ProcIInv, ProcTypeOK, ProgressOK, OnlyCompleteDriverAnswers
  <1> QED
    BY <1>1, <1>2, <1>3, <1>4, <1>5, <1>6 DEF ProcNext

\* Every reachable state satisfies the inductive invariant.
LEMMA ProcInductive == ProcSpec => []ProcIInv
  BY ProcInitHolds, ProcStepKeeps, PTL DEF ProcSpec
-----------------------------------------------------------------------------
(* The results *)

\* Every variable keeps its type, and a serve goroutine exists only beside a
\* main that has come as far as Wait.
THEOREM ProcTypeCorrect == ProcSpec => []ProcTypeOK
  <1>1. ProcIInv => ProcTypeOK
    BY DEF ProcIInv
  <1> QED
    BY <1>1, ProcInductive, PTL

\* However often the process is killed and however its start-up fails, no
\* call is answered by a driver without a name or meets a service that is
\* not registered.
THEOREM DriverIsComplete == ProcSpec => []OnlyCompleteDriverAnswers
  <1>1. ProcIInv => OnlyCompleteDriverAnswers
    BY DEF ProcIInv
  <1> QED
    BY <1>1, ProcInductive, PTL
=============================================================================
