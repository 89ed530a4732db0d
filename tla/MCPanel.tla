------------------------------ MODULE MCPanel ------------------------------
(***************************************************************************)
(* An instance for TLC of five parts of the panel that share no variable:  *)
(* the managed core, the nodes, the accounts, the readiness locks and the  *)
(* endpoint settings.                                                      *)
(* Each behaviour is one of one part, so that their state spaces add.  *)
(***************************************************************************)
EXTENDS MCCore, Nodes, Accounts, Readiness, Endpoints

VARIABLE part

panelVars == <<coreVars, nodesVars, accountsVars, readinessVars, endpointsVars, part>>

PanelInit ==
  /\ CoreInit /\ NodesInit /\ AccountsInit /\ ReadinessInit /\ EndpointsInit
  /\ part \in {"core", "nodes", "accounts", "readiness", "endpoints"}
  \* The parts that do not run start from one state.
  /\ part # "core" => external
  /\ part # "accounts" => admin = 0

Core ==
  /\ part = "core" /\ CoreNext
  /\ UNCHANGED <<nodesVars, accountsVars, readinessVars, endpointsVars, part>>
NodeRequests ==
  /\ part = "nodes" /\ NodesNext
  /\ UNCHANGED <<coreVars, accountsVars, readinessVars, endpointsVars, part>>
AccountRequests ==
  /\ part = "accounts" /\ AccountsNext
  /\ UNCHANGED <<coreVars, nodesVars, readinessVars, endpointsVars, part>>
Locking ==
  /\ part = "readiness" /\ ReadinessNext
  /\ UNCHANGED <<coreVars, nodesVars, accountsVars, endpointsVars, part>>
EndpointChanges ==
  /\ part = "endpoints" /\ EndpointsNext
  /\ UNCHANGED <<coreVars, nodesVars, accountsVars, readinessVars, part>>

PanelNext == Core \/ NodeRequests \/ AccountRequests \/ Locking \/ EndpointChanges

PanelSpec ==
  /\ PanelInit /\ [][PanelNext]_panelVars
  /\ WF_coreVars(Step) /\ WF_coreVars(Schedule) /\ WF_nodesVars(Expire)
=============================================================================
