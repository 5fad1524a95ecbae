------------------------------ MODULE MCProcess ------------------------------
(* Instances of DriverProcess for TLC. *)
EXTENDS DriverProcess

\* Every command line.
AnyConfiguration == ConfigurationType

\* What deploy/kubernetes gives the driver.
Deployed == {[endpoint |-> "unix", complete |-> TRUE]}
=============================================================================
