---------------------------- MODULE OnloadRollout ---------------------------
(***************************************************************************)
(* OnloadController as an implementation of RollingUpgrade: the KMM label  *)
(* of a node is the version it is meant to run, the Onload label puts it   *)
(* in service, and the Device Plugin and the application pods are its use. *)
(***************************************************************************)
EXTENDS OnloadController

SelectedNodes == {n \in Nodes : zone[n] \in Selectors}

NodeVersion == [n \in Nodes |-> label[n]["kmm"]]

NodesInService == {n \in Nodes : label[n]["onl"] # None}

NodesInUse == {n \in Nodes : dp[n] # None \/ app[n] # "none"}

LoadedVersion == [n \in Nodes |-> ldr[n]["onload"]]

Upgrade == INSTANCE RollingUpgrade WITH
  selected <- SelectedNodes,
  version <- NodeVersion,
  service <- NodesInService,
  used <- NodesInUse,
  loaded <- LoadedVersion

\* Every behaviour of the reconciler and its cluster, whatever users change
\* meanwhile and whatever fails, is a rolling upgrade: a node out of service
\* and out of use before it loses its version, one node at a time, and a
\* kernel module that comes and goes as the node's version says.
ImplementsRollingUpgrade == Upgrade!Spec
=============================================================================
