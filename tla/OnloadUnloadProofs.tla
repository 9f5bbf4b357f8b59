------------------------- MODULE OnloadUnloadProofs -------------------------
(***************************************************************************)
(* A node is taken out of service before its kernel modules are unloaded,  *)
(* proved for every cluster on top of what is known of the order in which  *)
(* a pass adds and removes labels: from OnloadUpgradeProofs here, and from *)
(* OnloadVersionProofs for node caches that lag.                           *)
(***************************************************************************)
EXTENDS OnloadUpgradeProofs

-----------------------------------------------------------------------------
(***************************************************************************)
(* Which steps change what.                                                *)
(***************************************************************************)

\* The operator's labels.
LEMMA LabelChanges ==
  ASSUME pc \notin {"staleLoop", "delLoop"}, [Next]_vars
  PROVE  \/ UNCHANGED label
         \/ \E n \in Nodes, l \in {"kmm", "sfc"} : AddKmmLabelToNode(n, l)
         \/ \E n \in Nodes : AddOnloadLabelToNode(n)
         \/ DropOnloadLabel \/ DropSfcLabel \/ DropKmmLabel
<1>1. CASE ReconcileStep
  <2>1. \A n \in Nodes, l \in LabelKeys : ~RemoveStaleLabel(n, l) /\ ~DeleteLabelFromNode(n, l)
    BY DEF RemoveStaleLabel, DeleteLabelFromNode
  <2> QED
    BY <1>1, <2>1 DEF ReconcileStep, Reconcile, AddKmmLabelsToNodes, RemoveStaleLabels,
       CreateAndAddModule, AddOnloadLabelsToNodes, CreateDevicePluginDaemonSet,
       HandleDevicePluginUpdate, PatchOrDeleteModule, HandleUpdate, CheckDevicePluginPod,
       EvictOnloadedPods, DeleteLabels, objects
<1>2. CASE FaultStep \/ InformerStep \/ UserStep
  BY <1>2 DEF FaultStep, AbortPass, SkipFailedDelete, ListPodsFails, Crash,
     DevicePluginPodLost, InformerStep, Sync, Restart, Heartbeat, UserStep, CreateOnload,
     EditOnload, DeleteOnload, RelabelNode, objects
<1>3. CASE ClusterStep
  BY <1>3 DEF ClusterStep, CollectModule, CollectDaemonSet, FinishDeletion, LoaderStart,
     LoaderStop, DevicePluginStart, DevicePluginStop, AppStart, AppStop, objects
<1>4. CASE UNCHANGED vars
  BY <1>4 DEF vars, objects
<1> QED
  BY <1>1, <1>2, <1>3, <1>4 DEF Next

\* The pods.
LEMMA PodChanges ==
  ASSUME [Next]_vars
  PROVE  \/ UNCHANGED pods
         \/ EvictOnloadedPods
         \/ \E n \in Nodes :
              \/ DevicePluginPodLost(n)
              \/ DevicePluginStart(n) \/ DevicePluginStop(n)
              \/ AppStart(n) \/ AppStop(n)
         \/ \E n \in Nodes, m \in Modules : LoaderStart(n, m) \/ LoaderStop(n, m)
<1>1. CASE ReconcileStep
  BY <1>1 DEF ReconcileStep, Reconcile, AddKmmLabelsToNodes, AddKmmLabelToNode,
     RemoveStaleLabels, RemoveStaleLabel, CreateAndAddModule, AddOnloadLabelsToNodes,
     AddOnloadLabelToNode, CreateDevicePluginDaemonSet, HandleDevicePluginUpdate,
     PatchOrDeleteModule, HandleUpdate, DropOnloadLabel, CheckDevicePluginPod,
     DropSfcLabel, DropKmmLabel, DeleteLabels, DeleteLabelFromNode
<1>2. CASE FaultStep \/ InformerStep \/ UserStep
  BY <1>2 DEF FaultStep, AbortPass, SkipFailedDelete, ListPodsFails, Crash, InformerStep,
     Sync, Restart, Heartbeat, UserStep, CreateOnload, EditOnload, DeleteOnload, RelabelNode
<1>3. CASE ClusterStep
  BY <1>3 DEF ClusterStep, CollectModule, CollectDaemonSet, FinishDeletion
<1>4. CASE UNCHANGED vars
  BY <1>4 DEF vars
<1> QED
  BY <1>1, <1>2, <1>3, <1>4 DEF Next

DrainedSteps == {"evict", "dropSfc", "dropKmm"}

\* The steps that lead to the eviction and beyond.
LEMMA DrainedChanges ==
  ASSUME [Next]_vars, pc' \in DrainedSteps
  PROVE  /\ cur' = cur
         /\ \/ UNCHANGED pc
            \/ CheckDevicePluginPod /\ pc' = "evict"
            \/ (EvictOnloadedPods \/ ListPodsFails) /\ pc' = "dropSfc"
            \/ DropSfcLabel
<1>1. CASE ReconcileStep
  <2> USE DEF DrainedSteps, Goto, Requeue, Done, EndPass, WorkOrElse, NextWork
  <2>1. CASE \/ Reconcile \/ AddKmmLabelsToNodes
             \/ \E n \in Nodes, l \in {"kmm", "sfc"} : AddKmmLabelToNode(n, l)
             \/ \E l \in LabelKeys : RemoveStaleLabels(l)
             \/ \E n \in Nodes, l \in LabelKeys : RemoveStaleLabel(n, l)
             \/ AddOnloadLabelsToNodes
             \/ \E n \in Nodes : AddOnloadLabelToNode(n)
             \/ \E l \in LabelKeys : DeleteLabels(l)
             \/ \E n \in Nodes, l \in LabelKeys : DeleteLabelFromNode(n, l)
    BY <2>1 DEF Reconcile, locals, AddKmmLabelsToNodes, AddKmmLabelToNode, RemoveStaleLabels,
       AfterStale, RemoveStaleLabel, AddOnloadLabelsToNodes, AddOnloadLabelToNode,
       DeleteLabels, DeleteLabelFromNode, AfterDelete, NextDelete
  <2>2. CASE \/ \E m \in Modules : CreateAndAddModule(m) \/ PatchOrDeleteModule(m)
             \/ CreateDevicePluginDaemonSet
             \/ HandleDevicePluginUpdate
    BY <2>2 DEF CreateAndAddModule, AfterCreate, PatchOrDeleteModule, AfterUpdate,
       CreateDevicePluginDaemonSet, HandleDevicePluginUpdate
  <2>3. CASE HandleUpdate \/ DropOnloadLabel \/ CheckDevicePluginPod \/ EvictOnloadedPods
             \/ DropSfcLabel \/ DropKmmLabel
    BY <2>3 DEF HandleUpdate, DropOnloadLabel, CheckDevicePluginPod, EvictOnloadedPods,
       DropSfcLabel, DropKmmLabel
  <2> QED
    BY <1>1, <2>1, <2>2, <2>3 DEF ReconcileStep
<1>2. CASE FaultStep \/ InformerStep \/ UserStep
  BY <1>2 DEF FaultStep, AbortPass, Requeue, EndPass, SkipFailedDelete, NextDelete,
     AfterDelete, ListPodsFails, Goto, Crash, DevicePluginPodLost, InformerStep, Sync,
     Restart, Heartbeat, UserStep, CreateOnload, EditOnload, DeleteOnload, RelabelNode,
     locals, DrainedSteps
<1>3. CASE ClusterStep
  BY <1>3 DEF ClusterStep, CollectModule, CollectDaemonSet, FinishDeletion, LoaderStart,
     LoaderStop, DevicePluginStart, DevicePluginStop, AppStart, AppStop, locals
<1>4. CASE UNCHANGED vars
  BY <1>4 DEF vars, locals
<1> QED
  BY <1>1, <1>2, <1>3, <1>4 DEF Next

-----------------------------------------------------------------------------
(***************************************************************************)
(* The order of the labels.                                                *)
(***************************************************************************)

\* A KMM label is added to a selected node without another one, an Onload label
\* beside the other labels of its version; the Onload label goes before the
\* eviction, and the KMM label while no other selected node is without one.
LabelOrder ==
  /\ TypeInv
  /\ ResourceStays
  /\ pc \notin {"staleLoop", "delLoop"}
  /\ pc = "kmmLoop" =>
       \A n \in Nodes :
         <<n, "kmm">> \in work => zone[n] \in Selectors /\ label[n]["kmm"] \in {None, req.ver}
  /\ pc = "onlLoop" =>
       \A n \in Nodes :
         <<n, "onl">> \in work =>
           /\ label[n]["kmm"] = req.ver
           /\ req.sfc => label[n]["sfc"] # None
  /\ pc \in DrainedSteps => label[cur]["onl"] = None
  /\ pc = "dropKmm" /\ label[cur]["kmm"] # None =>
       \A n \in Nodes \ {cur} : zone[n] \in Selectors => label[n]["kmm"] # None

\* A node cache that does not lag is enough for it.
LEMMA SteadyOrder == LabelInv => LabelOrder
<1> SUFFICES ASSUME LabelInv PROVE LabelOrder
  OBVIOUS
<1> USE DEF LabelInv
<1>1. pc = "kmmLoop" =>
        \A n \in Nodes :
          <<n, "kmm">> \in work => zone[n] \in Selectors /\ label[n]["kmm"] \in {None, req.ver}
  BY DEF KmmLoopInv, LabelKeys
<1>2. pc = "onlLoop" =>
        \A n \in Nodes :
          <<n, "onl">> \in work =>
            /\ label[n]["kmm"] = req.ver
            /\ req.sfc => label[n]["sfc"] # None
  BY DEF OnloadLoopInv, AllLabelled, LaterSteps, LabelKeys
<1>3. /\ pc \in DrainedSteps => label[cur]["onl"] = None
      /\ pc = "dropKmm" /\ label[cur]["kmm"] # None =>
           \A n \in Nodes \ {cur} : zone[n] \in Selectors => label[n]["kmm"] # None
  BY DEF NodeUpgradeInv, AllLabelled, LaterSteps, DrainedSteps
<1> QED
  BY <1>1, <1>2, <1>3 DEF LabelOrder, LabelsSelected

-----------------------------------------------------------------------------
(***************************************************************************)
(* The Device Plugin is gone before pods are evicted.                      *)
(***************************************************************************)

\* No Device Plugin runs on a node that is past the wait for it.
DevicePluginGone == pc \in DrainedSteps => dp[cur] = None

DrainInv == LabelOrder /\ DevicePluginGone

LEMMA DrainStep ==
  ASSUME "pod" \notin Lagging, DrainInv, [Next]_vars
  PROVE  DevicePluginGone'
<1>1. ASSUME pc' \in DrainedSteps PROVE dp'[cur] = None /\ cur' = cur
  <2>1. cur' = cur /\ cur \in Nodes
    BY <1>1, DrainedChanges
       DEF DrainInv, LabelOrder, TypeInv, TypeOK, PassTyped, DrainedSteps,
           CheckDevicePluginPod, EvictOnloadedPods, ListPodsFails, DropSfcLabel
  <2>2. dp[cur] = None
    BY <1>1, DrainedChanges
       DEF DrainInv, DevicePluginGone, DrainedSteps, CheckDevicePluginPod, vDp, Requeue, EndPass,
           EvictOnloadedPods, ListPodsFails, DropSfcLabel
  <2>3. dp \in [Nodes -> VersionOrNone]
    BY DEF DrainInv, LabelOrder, TypeInv, TypeOK
  <2>4. ~DevicePluginStart(cur)
    <3>1. ASSUME DevicePluginStart(cur) PROVE FALSE
      <4>1. pc' = pc /\ label[cur]["onl"] # None
        BY <3>1 DEF DevicePluginStart, WantsDevicePlugin, locals
      <4> QED
        BY <1>1, <4>1 DEF DrainInv, LabelOrder
    <3> QED
      BY <3>1
  <2> QED
    BY <2>1, <2>2, <2>3, <2>4, PodChanges
       DEF pods, EvictOnloadedPods, DevicePluginPodLost, DevicePluginStart,
           DevicePluginStop, AppStart, AppStop, LoaderStart, LoaderStop
<1> QED
  BY <1>1 DEF DevicePluginGone

\* What the invariant says of an eviction.
LEMMA EvictsDrained ==
  ASSUME DrainInv, [Next]_vars, NEW n \in Nodes,
         app[n] = "running", app'[n] = "terminating"
  PROVE  dp[n] = None /\ label[n]["onl"] = None
<1>1. app \in [Nodes -> AppStates]
  BY DEF DrainInv, LabelOrder, TypeInv, TypeOK
<1>2. EvictOnloadedPods /\ cur = n
  BY <1>1, PodChanges DEF pods, EvictOnloadedPods, DevicePluginPodLost, DevicePluginStart,
     DevicePluginStop, AppStart, AppStop, LoaderStart, LoaderStop
<1> QED
  BY <1>2 DEF EvictOnloadedPods, DrainInv, DevicePluginGone, DrainedSteps, LabelOrder

\* evictOnloadedPods acts on a node without a Device Plugin only, and none can
\* come back to it: the wait in handleNodeUpdate is enough as long as the pod
\* cache shows the Device Plugin pods that run.
THEOREM EvictionAfterDevicePlugin ==
  ASSUME SteadySelection, "pod" \notin Lagging
  PROVE  Spec => EvictAfterDevicePlugin
<1>1. Init => LabelInv /\ DevicePluginGone
  BY InitLabels DEF Init, DevicePluginGone, DrainedSteps
<1>2. LabelInv /\ DevicePluginGone /\ [Next]_vars => LabelInv' /\ DevicePluginGone'
  BY LabelStep, SteadyOrder, DrainStep DEF DrainInv
<1>3. LabelInv /\ DevicePluginGone /\ [Next]_vars =>
        [\A n \in Nodes :
           (app[n] = "running" /\ app'[n] = "terminating") =>
             (dp[n] = None /\ label[n]["onl"] = None)]_vars
  BY SteadyOrder, EvictsDrained DEF DrainInv
<1> QED
  BY <1>1, <1>2, <1>3, PTL DEF Spec, EvictAfterDevicePlugin

-----------------------------------------------------------------------------
(***************************************************************************)
(* Nothing uses a module that is unloaded.                                 *)
(***************************************************************************)

\* What this needs beyond FixedSelection: the pods that run are seen, a list
\* of pods does not fail, and the resource does not start or stop to use SFC.
SteadyPods ==
  /\ "pod" \notin Lagging
  /\ "podlist" \notin FaultKinds
  /\ \A s, t \in SfcUse : s = t

\* The Modules and the DaemonSet belong to the resource, so nothing collects
\* them, and there is an SFC Module only for a resource that uses SFC.
ObjectsOwned ==
  /\ cache.cr # None => cache.cr.uid = cr.uid
  /\ req # None => req.uid = cr.uid
  /\ pc = "createSfc" => req.sfc
  /\ \A m \in Modules : mod[m] # None => cr # None /\ mod[m].uid = cr.uid
  /\ mod["sfc"] # None => TRUE \in SfcUse

\* A loaded version is the one of the node's label while there is a label.
LoadedAsLabelled ==
  \A n \in Nodes, m \in Modules :
    ldr[n][m] # None =>
      /\ label[n][LabelOf(m)] \in {None, ldr[n][m]}
      /\ zone[n] \in Selectors
      /\ mod[m] # None

\* A node on which Onload is or can be used has the labels that keep its
\* modules loaded.
UsedIsLabelled ==
  \A n \in Nodes :
    (label[n]["onl"] # None \/ dp[n] # None \/ app[n] # "none") =>
      /\ label[n]["kmm"] # None
      /\ TRUE \in SfcUse => label[n]["sfc"] # None

\* No pod uses Onload on a node that is about to lose its KMM labels.
PodsGone == pc \in {"dropSfc", "dropKmm"} => app[cur] = "none"

UnloadInv ==
  /\ DrainInv
  /\ ObjectsOwned
  /\ LoadedAsLabelled
  /\ UsedIsLabelled
  /\ PodsGone

LEMMA InitUnload == Init => UnloadInv
<1> SUFFICES ASSUME Init PROVE UnloadInv
  OBVIOUS
<1>1. DrainInv
  BY InitLabels, SteadyOrder DEF Init, DrainInv, DevicePluginGone, DrainedSteps
<1>2. ObjectsOwned
  BY DEF Init, Snapshot, ObjectsOwned, Modules
<1> QED
  BY <1>1, <1>2 DEF Init, UnloadInv, LoadedAsLabelled, UsedIsLabelled, PodsGone, LabelKeys

\* The Modules.
LEMMA ModuleChanges ==
  ASSUME [Next]_vars
  PROVE  \/ UNCHANGED mod
         \/ \E m \in Modules :
              CreateAndAddModule(m) \/ PatchOrDeleteModule(m) \/ CollectModule(m)
<1>1. CASE ReconcileStep
  BY <1>1 DEF ReconcileStep, Reconcile, AddKmmLabelsToNodes, AddKmmLabelToNode,
     RemoveStaleLabels, RemoveStaleLabel, AddOnloadLabelsToNodes,
     AddOnloadLabelToNode, CreateDevicePluginDaemonSet, HandleDevicePluginUpdate,
     HandleUpdate, DropOnloadLabel, CheckDevicePluginPod, EvictOnloadedPods,
     DropSfcLabel, DropKmmLabel, DeleteLabels, DeleteLabelFromNode, objects
<1>2. CASE FaultStep \/ InformerStep \/ UserStep
  BY <1>2 DEF FaultStep, AbortPass, SkipFailedDelete, ListPodsFails, Crash,
     DevicePluginPodLost, InformerStep, Sync, Restart, Heartbeat, UserStep, CreateOnload,
     EditOnload, DeleteOnload, RelabelNode, objects
<1>3. CASE ClusterStep
  BY <1>3 DEF ClusterStep, CollectDaemonSet, FinishDeletion, LoaderStart, LoaderStop,
     DevicePluginStart, DevicePluginStop, AppStart, AppStop, objects
<1>4. CASE UNCHANGED vars
  BY <1>4 DEF vars, objects
<1> QED
  BY <1>1, <1>2, <1>3, <1>4 DEF Next

\* A Module stays once it is there, and belongs to the resource.
LEMMA ModulesStay ==
  ASSUME FixedSelection, SteadyPods, UnloadInv, [Next]_vars
  PROVE  /\ \A m \in Modules : mod[m] # None => mod'[m] # None
         /\ \A m \in Modules : mod'[m] # None => cr # None /\ mod'[m].uid = cr.uid
         /\ mod'["sfc"] # None => TRUE \in SfcUse
<1> USE DEF UnloadInv, DrainInv, LabelOrder
<1>0. mod \in [Modules -> Dependents \cup {None}]
  BY DEF TypeInv, TypeOK
<1>1. CASE UNCHANGED mod
  BY <1>1 DEF ObjectsOwned
<1>2. ASSUME NEW m \in Modules, CollectModule(m) PROVE FALSE
  BY <1>2 DEF CollectModule, Orphan, ObjectsOwned, ResourceStays
<1>3. ASSUME NEW m \in Modules, CreateAndAddModule(m), mod' # mod
      PROVE  /\ \A k \in Modules : mod[k] # None => mod'[k] # None
             /\ \A k \in Modules : mod'[k] # None => cr # None /\ mod'[k].uid = cr.uid
             /\ mod'["sfc"] # None => TRUE \in SfcUse
  <2>1. req \in Onloads /\ req # None /\ cr # None
    BY <1>3 DEF CreateAndAddModule, CreateStep, TypeInv, TypeOK, PassTyped, Steps,
       ResourceStays, vCr
  <2>2. mod' = [mod EXCEPT ![m] = NewDependent]
    BY <1>3 DEF CreateAndAddModule
  <2>3. NewDependent.uid = cr.uid /\ NewDependent # None
    BY <2>1, WrittenTyped, AbsentAssumption DEF NewDependent, ObjectsOwned
  <2>4. m = "sfc" => TRUE \in SfcUse
    BY <1>3, <2>1 DEF CreateAndAddModule, CreateStep, ObjectsOwned, Onloads
  <2> QED
    BY <1>0, <2>1, <2>2, <2>3, <2>4 DEF ObjectsOwned, Modules
<1>4. ASSUME NEW m \in Modules, PatchOrDeleteModule(m), mod' # mod
      PROVE  /\ \A k \in Modules : mod[k] # None => mod'[k] # None
             /\ \A k \in Modules : mod'[k] # None => cr # None /\ mod'[k].uid = cr.uid
             /\ mod'["sfc"] # None => TRUE \in SfcUse
  <2>1. req \in Onloads /\ req # None /\ req.sfc \in SfcUse
    BY <1>4 DEF PatchOrDeleteModule, UpdateStep, TypeInv, TypeOK, PassTyped, Steps, Onloads
  <2>2. \/ mod' = [mod EXCEPT ![m] = Patched(mod[m])]
        \/ mod' = [mod EXCEPT ![m] = None] /\ m = "sfc" /\ ~req.sfc
    BY <1>4 DEF PatchOrDeleteModule, IsUsed, Modules
  <2>3. mod[m] # None
    BY <1>0, <1>4, <2>2 DEF Patched
  <2>4. CASE mod' = [mod EXCEPT ![m] = Patched(mod[m])]
    <3>1. Patched(mod[m]) \in Dependents /\ Patched(mod[m]).uid = mod[m].uid
      BY <1>0, <2>1, <2>3 DEF Patched, Dependents, Onloads
    <3> QED
      BY <1>0, <2>3, <2>4, <3>1, AbsentAssumption DEF ObjectsOwned, Modules
  <2>5. CASE m = "sfc" /\ ~req.sfc
    BY <2>1, <2>3, <2>5 DEF ObjectsOwned, SteadyPods
  <2> QED
    BY <2>2, <2>4, <2>5
<1> QED
  BY <1>1, <1>2, <1>3, <1>4, ModuleChanges

\* The resource stays and keeps its identity, and its cache only catches up.
LEMMA ResourceKept ==
  ASSUME FixedSelection, TypeInv, ResourceStays, [Next]_vars
  PROVE  /\ cr # None => cr' # None /\ cr'.uid = cr.uid
         /\ cache'.cr \in {cache.cr, cr}
         /\ UNCHANGED cr \/ CreateOnload \/ EditOnload
<1>1. CASE CreateOnload
  BY <1>1 DEF CreateOnload
<1>2. CASE EditOnload
  <2>1. cr \in Onloads /\ cr' \in Onloads /\ cr'.uid = cr.uid
    BY <1>2 DEF EditOnload, TypeInv, TypeOK, Onloads
  <2> QED
    BY <1>2, <2>1, AbsentAssumption DEF EditOnload
<1>3. ASSUME NEW k \in Kinds, Sync(k) PROVE UNCHANGED cr /\ cache'.cr \in {cache.cr, cr}
  BY <1>3 DEF Sync, Synced, WithCr, WithNode, WithMod, WithDs, WithPod, TypeInv, TypeOK,
     Caches, objects
<1>4. CASE Restart
  BY <1>4 DEF Restart, WithCr, WithNode, WithMod, WithDs, WithPod, TypeInv, TypeOK, Caches,
     objects
<1>5. CASE UserStep \/ InformerStep
  BY <1>1, <1>2, <1>3, <1>4, <1>5 DEF UserStep, DeleteOnload, RelabelNode, UserEdit,
     FixedSelection, InformerStep, Heartbeat, objects
<1>6. CASE ReconcileStep
  BY <1>6 DEF ReconcileStep, Reconcile, AddKmmLabelsToNodes, AddKmmLabelToNode,
     RemoveStaleLabels, RemoveStaleLabel, CreateAndAddModule, AddOnloadLabelsToNodes,
     AddOnloadLabelToNode, CreateDevicePluginDaemonSet, HandleDevicePluginUpdate,
     PatchOrDeleteModule, HandleUpdate, DropOnloadLabel, CheckDevicePluginPod,
     EvictOnloadedPods, DropSfcLabel, DropKmmLabel, DeleteLabels, DeleteLabelFromNode,
     objects
<1>7. CASE FaultStep
  BY <1>7 DEF FaultStep, AbortPass, SkipFailedDelete, ListPodsFails, Crash,
     DevicePluginPodLost, objects
<1>8. CASE ClusterStep
  BY <1>8 DEF ClusterStep, CollectModule, CollectDaemonSet, FinishDeletion, LoaderStart,
     LoaderStop, DevicePluginStart, DevicePluginStop, AppStart, AppStop, objects,
     ResourceStays
<1>9. CASE UNCHANGED vars
  BY <1>9 DEF vars, objects
<1> QED
  BY <1>5, <1>6, <1>7, <1>8, <1>9 DEF Next

\* The copy of the resource that a pass works on is the one it began with.
LEMMA CopyKept ==
  ASSUME [Next]_vars
  PROVE  /\ req' = req \/ req' = None \/ (req' = vCr /\ Reconcile)
         /\ pc' = "createSfc" => (req' = req /\ (pc = "createSfc" \/ req.sfc))
<1> USE DEF Goto, Requeue, Done, EndPass, WorkOrElse, NextWork, locals
<1>1. CASE \/ Reconcile \/ AddKmmLabelsToNodes
           \/ \E n \in Nodes, l \in {"kmm", "sfc"} : AddKmmLabelToNode(n, l)
           \/ \E l \in LabelKeys : RemoveStaleLabels(l)
           \/ \E n \in Nodes, l \in LabelKeys : RemoveStaleLabel(n, l)
           \/ AddOnloadLabelsToNodes
           \/ \E n \in Nodes : AddOnloadLabelToNode(n)
           \/ \E l \in LabelKeys : DeleteLabels(l)
           \/ \E n \in Nodes, l \in LabelKeys : DeleteLabelFromNode(n, l)
  BY <1>1 DEF Reconcile, objects, AddKmmLabelsToNodes, AddKmmLabelToNode,
     RemoveStaleLabels, AfterStale, RemoveStaleLabel, AddOnloadLabelsToNodes,
     AddOnloadLabelToNode, DeleteLabels, DeleteLabelFromNode, AfterDelete, NextDelete
<1>2. CASE \/ \E m \in Modules : CreateAndAddModule(m) \/ PatchOrDeleteModule(m)
           \/ CreateDevicePluginDaemonSet
           \/ HandleDevicePluginUpdate
  BY <1>2 DEF CreateAndAddModule, AfterCreate, PatchOrDeleteModule, AfterUpdate,
     CreateDevicePluginDaemonSet, HandleDevicePluginUpdate
<1>3. CASE HandleUpdate \/ DropOnloadLabel \/ CheckDevicePluginPod \/ EvictOnloadedPods
           \/ DropSfcLabel \/ DropKmmLabel
  BY <1>3 DEF HandleUpdate, DropOnloadLabel, CheckDevicePluginPod, EvictOnloadedPods,
     DropSfcLabel, DropKmmLabel
<1>4. CASE FaultStep \/ InformerStep \/ UserStep
  BY <1>4 DEF FaultStep, AbortPass, SkipFailedDelete, NextDelete, AfterDelete,
     ListPodsFails, Crash, DevicePluginPodLost, InformerStep, Sync, Restart, Heartbeat,
     UserStep, CreateOnload, EditOnload, DeleteOnload, RelabelNode
<1>5. CASE ClusterStep
  BY <1>5 DEF ClusterStep, CollectModule, CollectDaemonSet, FinishDeletion, LoaderStart,
     LoaderStop, DevicePluginStart, DevicePluginStop, AppStart, AppStop
<1>6. CASE UNCHANGED vars
  BY <1>6 DEF vars
<1> QED
  BY <1>1, <1>2, <1>3, <1>4, <1>5, <1>6 DEF Next, ReconcileStep

\* The resource keeps its identity, and a pass that creates an SFC Module works
\* on a resource that uses SFC.
LEMMA OwnedStep ==
  ASSUME FixedSelection, SteadyPods, UnloadInv, [Next]_vars
  PROVE  ObjectsOwned'
<1> USE DEF UnloadInv, DrainInv, LabelOrder
<1>1. /\ cr # None => cr' # None /\ cr'.uid = cr.uid
      /\ cache'.cr \in {cache.cr, cr}
  BY ResourceKept
<1>2. /\ req' = req \/ req' = None \/ (req' = vCr /\ UNCHANGED cr)
      /\ pc' = "createSfc" => (req' = req /\ (pc = "createSfc" \/ req.sfc))
  BY CopyKept DEF Reconcile, objects
<1>3. /\ cache'.cr # None => cache'.cr.uid = cr'.uid
      /\ req' # None => req'.uid = cr'.uid
  BY <1>1, <1>2 DEF ObjectsOwned, ResourceStays, vCr
<1> QED
  BY <1>1, <1>2, <1>3, ModulesStay DEF ObjectsOwned

\* Nodes stay in or out of the selection.
LEMMA ZoneStays ==
  ASSUME FixedSelection, [Next]_vars
  PROVE  UNCHANGED zone
<1>1. CASE ReconcileStep
  BY <1>1 DEF ReconcileStep, Reconcile, AddKmmLabelsToNodes, AddKmmLabelToNode,
     RemoveStaleLabels, RemoveStaleLabel, CreateAndAddModule, AddOnloadLabelsToNodes,
     AddOnloadLabelToNode, CreateDevicePluginDaemonSet, HandleDevicePluginUpdate,
     PatchOrDeleteModule, HandleUpdate, DropOnloadLabel, CheckDevicePluginPod,
     EvictOnloadedPods, DropSfcLabel, DropKmmLabel, DeleteLabels, DeleteLabelFromNode,
     objects
<1>2. CASE FaultStep \/ InformerStep \/ UserStep
  BY <1>2 DEF FixedSelection, FaultStep, AbortPass, SkipFailedDelete, ListPodsFails, Crash,
     DevicePluginPodLost, InformerStep, Sync, Restart, Heartbeat, UserStep, CreateOnload,
     EditOnload, DeleteOnload, RelabelNode, UserEdit, objects
<1>3. CASE ClusterStep
  BY <1>3 DEF ClusterStep, CollectModule, CollectDaemonSet, FinishDeletion, LoaderStart,
     LoaderStop, DevicePluginStart, DevicePluginStop, AppStart, AppStop, objects
<1>4. CASE UNCHANGED vars
  BY <1>4 DEF vars, objects
<1> QED
  BY <1>1, <1>2, <1>3, <1>4 DEF Next

\* KMM loads what the label says, and a label is only added to a node that has
\* nothing loaded (the wait for lingering pods in addKmmLabelToNode).
LEMMA LoadedStep ==
  ASSUME FixedSelection, SteadyPods, UnloadInv, [Next]_vars, TypeInv'
  PROVE  LoadedAsLabelled'
<1> SUFFICES ASSUME NEW n \in Nodes, NEW m \in Modules, ldr'[n][m] # None
             PROVE  /\ label'[n][LabelOf(m)] \in {None, ldr'[n][m]}
                    /\ zone'[n] \in Selectors
                    /\ mod'[m] # None
  BY DEF LoadedAsLabelled
<1> USE DEF UnloadInv, DrainInv, LabelOrder
<1>0. /\ label \in [Nodes -> [LabelKeys -> VersionOrNone]]
      /\ ldr \in [Nodes -> [Modules -> VersionOrNone]]
      /\ mod \in [Modules -> Dependents \cup {None}]
      /\ LabelOf(m) \in {"kmm", "sfc"}
      /\ zone' = zone
      /\ mod[m] # None => mod'[m] # None
  BY ZoneStays, ModulesStay DEF TypeInv, TypeOK, LabelOf
<1>1. CASE UNCHANGED ldr
  <2>1. /\ label[n][LabelOf(m)] \in {None, ldr[n][m]}
        /\ zone[n] \in Selectors
        /\ mod[m] # None
    BY <1>1 DEF LoadedAsLabelled
  <2>2. label'[n][LabelOf(m)] \in {None, label[n][LabelOf(m)]}
    <3>1. ASSUME NEW k \in Nodes, NEW l \in {"kmm", "sfc"}, AddKmmLabelToNode(k, l)
          PROVE  label'[n][LabelOf(m)] \in {None, label[n][LabelOf(m)]}
      <4>1. k = n /\ l = LabelOf(m) => ldr[k][ModuleOf(l)] # None
        BY <1>1 DEF LabelOf, ModuleOf, Modules
      <4> QED
        BY <1>0, <3>1, <4>1 DEF AddKmmLabelToNode, vLdr, SteadyPods, LabelKeys
    <3>2. CASE UNCHANGED label
      BY <3>2
    <3>3. ASSUME NEW k \in Nodes, AddOnloadLabelToNode(k)
          PROVE  label'[n][LabelOf(m)] = label[n][LabelOf(m)]
      BY <1>0, <3>3 DEF AddOnloadLabelToNode, LabelKeys
    <3>4. CASE DropOnloadLabel
      BY <1>0, <3>4 DEF DropOnloadLabel, LabelKeys
    <3>5. CASE DropSfcLabel
      BY <1>0, <3>5 DEF DropSfcLabel, LabelKeys
    <3>6. CASE DropKmmLabel
      BY <1>0, <3>6 DEF DropKmmLabel, LabelKeys
    <3> QED
      BY <3>1, <3>2, <3>3, <3>4, <3>5, <3>6, LabelChanges
  <2> QED
    BY <1>0, <1>1, <2>1, <2>2
<1>2. ASSUME NEW k \in Nodes, NEW h \in Modules, LoaderStart(k, h) \/ LoaderStop(k, h)
      PROVE  /\ label[n][LabelOf(m)] \in {None, ldr'[n][m]}
             /\ zone[n] \in Selectors
             /\ mod[m] # None
             /\ label' = label
  <2>1. CASE k = n /\ h = m
    BY <1>0, <1>2, <2>1 DEF LoaderStart, LoaderStop, Dependents, objects
  <2>2. CASE ~(k = n /\ h = m)
    <3>1. ldr'[n][m] = ldr[n][m] /\ label' = label
      BY <1>0, <1>2, <2>2 DEF LoaderStart, LoaderStop, objects
    <3> QED
      BY <3>1 DEF LoadedAsLabelled
  <2> QED
    BY <2>1, <2>2
<1> QED
  BY <1>0, <1>1, <1>2, PodChanges DEF pods, EvictOnloadedPods, DevicePluginPodLost,
     DevicePluginStart, DevicePluginStop, AppStart, AppStop

\* The labels that keep the modules loaded are there before the Onload label
\* and go after the last pod.
LEMMA UsedStep ==
  ASSUME FixedSelection, SteadyPods, UnloadInv, [Next]_vars, TypeInv'
  PROVE  UsedIsLabelled'
<1> USE DEF UnloadInv, DrainInv, LabelOrder
<1>0. /\ label \in [Nodes -> [LabelKeys -> VersionOrNone]]
      /\ dp \in [Nodes -> VersionOrNone]
      /\ app \in [Nodes -> AppStates]
  BY DEF TypeInv, TypeOK
<1>1. CASE UNCHANGED label
  <2>1. ASSUME NEW n \in Nodes
        PROVE  (dp'[n] # None \/ app'[n] # "none") =>
                 (label[n]["onl"] # None \/ dp[n] # None \/ app[n] # "none")
    BY <1>0, PodChanges DEF pods, EvictOnloadedPods, DevicePluginPodLost, DevicePluginStart,
       WantsDevicePlugin, DevicePluginStop, AppStart, AppStop, LoaderStart, LoaderStop
  <2> QED
    BY <1>1, <2>1 DEF UsedIsLabelled
<1>2. ASSUME NEW k \in Nodes, NEW l \in {"kmm", "sfc"}, AddKmmLabelToNode(k, l)
      PROVE  UsedIsLabelled'
  <2>1. req \in Onloads /\ req.ver # None
    BY <1>2, NoneAssumption DEF AddKmmLabelToNode, TypeInv, TypeOK, PassTyped, Steps, Onloads
  <2> QED
    BY <1>0, <1>2, <2>1 DEF AddKmmLabelToNode, UsedIsLabelled, LabelKeys, pods
<1>3. ASSUME NEW k \in Nodes, AddOnloadLabelToNode(k)
      PROVE  UsedIsLabelled'
  <2>1. /\ req \in Onloads /\ label[k]["kmm"] = req.ver
        /\ req.sfc => label[k]["sfc"] # None
    BY <1>3 DEF AddOnloadLabelToNode, TypeInv, TypeOK, PassTyped, Steps
  <2>2. label[k]["kmm"] # None /\ (TRUE \in SfcUse => label[k]["sfc"] # None)
    BY <2>1, NoneAssumption DEF Onloads, SteadyPods
  <2> QED
    BY <1>0, <1>3, <2>2 DEF AddOnloadLabelToNode, UsedIsLabelled, LabelKeys, pods
<1>4. CASE DropOnloadLabel
  BY <1>0, <1>4 DEF DropOnloadLabel, UsedIsLabelled, LabelKeys, pods
<1>5. CASE DropSfcLabel \/ DropKmmLabel
  <2>1. /\ cur \in Nodes /\ label[cur]["onl"] = None
        /\ dp[cur] = None /\ app[cur] = "none"
    BY <1>5 DEF DropSfcLabel, DropKmmLabel, TypeInv, TypeOK, PassTyped,
       DevicePluginGone, DrainedSteps, PodsGone
  <2> QED
    BY <1>0, <1>5, <2>1 DEF DropSfcLabel, DropKmmLabel, UsedIsLabelled, LabelKeys, pods
<1> QED
  BY <1>1, <1>2, <1>3, <1>4, <1>5, LabelChanges

\* No pod starts to use Onload on a node without a Device Plugin.
LEMMA PodsGoneStep ==
  ASSUME FixedSelection, SteadyPods, UnloadInv, [Next]_vars
  PROVE  PodsGone'
<1> SUFFICES ASSUME pc' \in {"dropSfc", "dropKmm"} PROVE app'[cur'] = "none"
  BY DEF PodsGone
<1> USE DEF UnloadInv, DrainInv, LabelOrder
<1>1. cur' = cur /\ pc \in DrainedSteps
  BY DrainedChanges DEF DrainedSteps, EvictOnloadedPods, ListPodsFails, DropSfcLabel
<1>2. cur \in Nodes /\ dp[cur] = None
  BY <1>1 DEF DevicePluginGone, DrainedSteps, TypeInv, TypeOK, PassTyped
<1>3. app \in [Nodes -> AppStates]
  BY DEF TypeInv, TypeOK
<1>4. app[cur] = "none"
  BY DrainedChanges DEF DrainedSteps, EvictOnloadedPods, ListPodsFails, Fault, DropSfcLabel,
     PodsGone, vApp, SteadyPods, Requeue, EndPass
<1> QED
  BY <1>1, <1>2, <1>3, <1>4, PodChanges DEF pods, EvictOnloadedPods, DevicePluginPodLost,
     DevicePluginStart, DevicePluginStop, AppStart, AppStop, LoaderStart, LoaderStop

LEMMA UnloadStep ==
  ASSUME FixedSelection, SteadyPods, UnloadInv, [Next]_vars, LabelOrder'
  PROVE  UnloadInv'
<1>1. TypeInv' /\ DrainInv'
  BY DrainStep DEF UnloadInv, SteadyPods, DrainInv, LabelOrder
<1> QED
  BY <1>1, OwnedStep, LoadedStep, UsedStep, PodsGoneStep DEF UnloadInv

\* What the invariant says of a loader pod that stops.
LEMMA UnloadsDrained ==
  ASSUME FixedSelection, SteadyPods, UnloadInv, [Next]_vars, NEW n \in Nodes, NEW m \in Modules,
         ldr[n][m] # None, ldr'[n][m] = None
  PROVE  dp[n] = None /\ app[n] = "none"
<1>1. /\ ldr \in [Nodes -> [Modules -> VersionOrNone]]
      /\ mod \in [Modules -> Dependents \cup {None}]
  BY DEF UnloadInv, DrainInv, LabelOrder, TypeInv, TypeOK
<1>2. LoaderStop(n, m)
  <2>1. ASSUME NEW k \in Nodes, NEW h \in Modules, LoaderStart(k, h) PROVE FALSE
    <3>1. mod[h].ver # None
      BY <1>1, <2>1, NoneAssumption DEF LoaderStart, Dependents
    <3> QED
      BY <1>1, <2>1, <3>1 DEF LoaderStart
  <2>2. ASSUME NEW k \in Nodes, NEW h \in Modules, LoaderStop(k, h) PROVE k = n /\ h = m
    BY <1>1, <2>2 DEF LoaderStop
  <2> QED
    BY <2>1, <2>2, PodChanges DEF pods, EvictOnloadedPods, DevicePluginPodLost,
       DevicePluginStart, DevicePluginStop, AppStart, AppStop
<1>3. /\ label[n][LabelOf(m)] \in {None, ldr[n][m]}
      /\ zone[n] \in Selectors
      /\ mod[m] # None
  BY DEF UnloadInv, LoadedAsLabelled
<1>4. zone[n] = mod[m].sel
  BY <1>1, <1>3 DEF Dependents, FixedSelection
<1>5. label[n][LabelOf(m)] = None
  BY <1>2, <1>3, <1>4 DEF LoaderStop
<1>6. m = "sfc" => TRUE \in SfcUse
  BY <1>3 DEF UnloadInv, ObjectsOwned
<1> QED
  BY <1>5, <1>6 DEF UnloadInv, UsedIsLabelled, LabelOf

\* No loader pod stops on a node with a Device Plugin or a pod that uses Onload:
\* handleNodeUpdate drains the node before it removes the KMM labels, and only
\* that makes KMM unload a module.
THEOREM UnloadIsSafe ==
  ASSUME SteadySelection, SteadyPods
  PROVE  Spec => NeverUnloadedInUse
<1>1. LabelOrder' /\ UnloadInv /\ [Next]_vars => UnloadInv'
  BY UnloadStep DEF SteadySelection
<1>2. UnloadInv /\ [Next]_vars =>
        [\A n \in Nodes, m \in Modules :
           /\ cr # None
           /\ ~cr.del
           /\ zone[n] = cr.sel
           /\ ldr[n][m] # None
           /\ ldr'[n][m] = None
           => dp[n] = None /\ app[n] = "none"]_vars
  BY UnloadsDrained DEF SteadySelection
<1> QED
  BY <1>1, <1>2, InitLabels, InitUnload, LabelStep, SteadyOrder, PTL DEF Spec, NeverUnloadedInUse
=============================================================================
