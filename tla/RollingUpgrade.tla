--------------------------- MODULE RollingUpgrade ---------------------------
(***************************************************************************)
(* What the operator promises to those who use Onload on a cluster.  Each  *)
(* selected node is meant to run one version of Onload or none.  A node is *)
(* in service while pods may start to use Onload on it, and in use while a *)
(* pod does.  A version is taken from a node only out of service and out   *)
(* of use, from one node at a time, and the kernel module of a node is     *)
(* loaded and unloaded as its version says.                                *)
(*                                                                         *)
(* The reconciler, its labels, Modules, DaemonSet, caches, requeues and    *)
(* crashes do not appear: OnloadRollout maps OnloadController onto this.   *)
(***************************************************************************)
CONSTANTS Nodes, Versions, None

VARIABLES
  selected,  \* the nodes that are to run Onload
  version,   \* the version each node is meant to run, or None
  service,   \* the nodes on which pods may start to use Onload
  used,      \* the nodes on which a pod uses Onload
  loaded     \* the version of the Onload kernel module of each node, or None

vars == <<selected, version, service, used, loaded>>

Init ==
  /\ selected \subseteq Nodes
  /\ version = [n \in Nodes |-> None]
  /\ service = {}
  /\ used = {}
  /\ loaded = [n \in Nodes |-> None]

\* A version is given to a node on which nothing is loaded any more.
Assign(n, v) ==
  /\ n \in selected
  /\ version[n] = None
  /\ loaded[n] = None
  /\ version' = [version EXCEPT ![n] = v]
  /\ UNCHANGED <<selected, service, used, loaded>>

Offer(n) ==
  /\ version[n] # None
  /\ n \notin service
  /\ service' = service \cup {n}
  /\ UNCHANGED <<selected, version, used, loaded>>

Withdraw(n) ==
  /\ n \in service
  /\ service' = service \ {n}
  /\ UNCHANGED <<selected, version, used, loaded>>

StartUse(n) ==
  /\ n \in service
  /\ n \notin used
  /\ used' = used \cup {n}
  /\ UNCHANGED <<selected, version, service, loaded>>

EndUse(n) ==
  /\ n \in used
  /\ used' = used \ {n}
  /\ UNCHANGED <<selected, version, service, loaded>>

\* One node at a time, and only when nothing uses it.
Retire(n) ==
  /\ version[n] # None
  /\ n \notin service \cup used
  /\ \A k \in selected \ {n} : version[k] # None
  /\ version' = [version EXCEPT ![n] = None]
  /\ UNCHANGED <<selected, service, used, loaded>>

Load(n) ==
  /\ version[n] # None
  /\ loaded[n] = None
  /\ loaded' = [loaded EXCEPT ![n] = version[n]]
  /\ UNCHANGED <<selected, version, service, used>>

Unload(n) ==
  /\ version[n] = None
  /\ loaded[n] # None
  /\ loaded' = [loaded EXCEPT ![n] = None]
  /\ UNCHANGED <<selected, version, service, used>>

Next ==
  \E n \in Nodes :
    \/ \E v \in Versions : Assign(n, v)
    \/ Offer(n)
    \/ Withdraw(n)
    \/ StartUse(n)
    \/ EndUse(n)
    \/ Retire(n)
    \/ Load(n)
    \/ Unload(n)

Spec == Init /\ [][Next]_vars
=============================================================================
