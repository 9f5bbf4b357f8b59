------------------------ MODULE OnloadVersionProofs -------------------------
(***************************************************************************)
(* What users who wait get: as long as every change of the resource is     *)
(* rolled out before the next one, the caches of the resource, the nodes,  *)
(* the Modules and the DaemonSet may lag.  This module states the          *)
(* inductive invariant, for every cluster, and proves the half of it that  *)
(* is about objects and pods; OnloadLagProofs proves the half about the    *)
(* labels, and the theorems.                                               *)
(***************************************************************************)
EXTENDS OnloadUnloadProofs

\* What the theorems assume beyond FixedSelection: users wait, the pods that
\* run are seen, and nobody but the DaemonSet controller stops a Device Plugin.
PatientUsers ==
  /\ EditsWait
  /\ "pod" \notin Lagging
  /\ "restart" \notin FaultKinds

\* The version that is to be rolled out.
Wanted == IF cr = None THEN None ELSE cr.ver

InSelection(n) == zone[n] \in Selectors

-----------------------------------------------------------------------------
(***************************************************************************)
(* The invariant: objects and pods.                                        *)
(***************************************************************************)

\* The SFC Module and the DaemonSet belong to the resource, so nothing collects
\* them, and they are not created before the resource is seen.
ObjectsKept ==
  /\ cache.cr # None => cache.cr.uid = cr.uid
  /\ req # None => req.uid = cr.uid /\ ~req.del
  /\ ds # None => vCr # None /\ ds.uid = cr.uid
  /\ vDs # None => ds # None
  /\ mod["sfc"] # None => vCr # None /\ mod["sfc"].uid = cr.uid
  /\ pc = "createSfc" => req.sfc

\* A resource that is rolled out.
Settled(r) ==
  /\ ds # None
  /\ ds.ver = r.ver
  /\ mod["sfc"] # None <=> r.sfc
  /\ \A n \in Nodes :
       InSelection(n) =>
         /\ label[n]["kmm"] = r.ver
         /\ label[n]["sfc"] = IF r.sfc THEN r.ver ELSE None
         /\ label[n]["onl"] = r.ver
         /\ dp[n] = r.ver

\* A pass, or a cache, that does not know the resource as it is knows it as it
\* was before the last edit, and that is still rolled out.
StaleIsSettled ==
  /\ vCr # None /\ vCr # cr => Settled(vCr) /\ (req # None => req = vCr)
  /\ req # None /\ req # cr => Settled(req)

\* A kernel module is loaded as the KMM label says.
ModuleAsLabelled ==
  \A n \in Nodes : ldr[n]["onload"] # None => label[n]["kmm"] \in {None, ldr[n]["onload"]}

\* So is a Device Plugin started, and it does not outlive the label.
DevicePluginAsLabelled ==
  \A n \in Nodes : dp[n] # None => dp[n] = label[n]["kmm"]

\* A node that is still in service with another version than the resource's
\* keeps its Device Plugin: none is started there.
OldStaysInService ==
  \A n \in Nodes : label[n]["onl"] \notin {None, Wanted} => dp[n] # None

\* There is no other version before there is a DaemonSet.
FirstRollout ==
  ds = None => \A n \in Nodes : label[n]["kmm"] \in {None, Wanted}

\* The DaemonSet, and what the cache shows of it, come to the version of the
\* resource before any node does.
DaemonSetFirst ==
  \A n \in Nodes :
    /\ InSelection(n)
    /\ label[n]["kmm"] \in {None, Wanted}
    => /\ ds # None => ds.ver = Wanted
       /\ vDs # None => vDs.ver = Wanted

\* The cache shows the version of the resource only when the DaemonSet has it:
\* no rollout ends before the cache has seen the DaemonSet of that rollout.
DaemonSetSeen ==
  \A n \in Nodes :
    InSelection(n) /\ vDs # None /\ vDs.ver = Wanted => ds.ver = Wanted

\* The steps after handleDevicePluginUpdate found nothing to do.
UpdatedSteps ==
  {"updateOnload", "updateSfc", "pick", "dropOnl", "checkDp", "evict", "dropSfc", "dropKmm"}

DaemonSetUpdated ==
  pc \in UpdatedSteps =>
    \A n \in Nodes : InSelection(n) => vDs # None /\ vDs.ver = req.ver

RolloutInv ==
  /\ ObjectsKept
  /\ StaleIsSettled
  /\ ModuleAsLabelled
  /\ DevicePluginAsLabelled
  /\ OldStaysInService
  /\ FirstRollout
  /\ DaemonSetFirst
  /\ DaemonSetSeen
  /\ DaemonSetUpdated

-----------------------------------------------------------------------------
(***************************************************************************)
(* The invariant: labels, and what the node cache shows of them.           *)
(***************************************************************************)

\* A node that is out of service and does not have the version to be rolled out.
IsOut(n) == label[n]["onl"] = None /\ label[n]["kmm"] # Wanted

NoLabelSeen == \A n \in Nodes, l \in LabelKeys : label[n][l] = None /\ vLabel[n][l] = None

\* Labels are on selected nodes only, and there are none before the resource
\* is seen: the loops that remove labels find nothing.
LabelsOnSelected ==
  /\ vZone = zone
  /\ \A n \in Nodes, l \in LabelKeys :
       label[n][l] # None \/ vLabel[n][l] # None => InSelection(n)
  /\ vCr = None => NoLabelSeen
  /\ pc \in {"delKmm", "delSfc", "delOnl"} => NoLabelSeen
  /\ pc \notin {"staleLoop", "delLoop"}

CachedLabelsAgree ==
  \A n \in Nodes : \A l \in {"sfc", "onl"} : vLabel[n][l] \in {None, vLabel[n]["kmm"]}

\* The cache is at most one change of a KMM label behind: a label is only added
\* to a node that was seen without one, an Onload label only to a node that was
\* seen with its KMM label.
KmmLag ==
  \A n \in Nodes :
    InSelection(n) =>
      IF vLabel[n]["kmm"] = None
      THEN label[n]["onl"] = None /\ label[n]["kmm"] \in {None, Wanted}
      ELSE \/ label[n]["kmm"] = vLabel[n]["kmm"]
           \/ label[n]["kmm"] = None /\ vLabel[n]["kmm"] # Wanted

\* The same of an SFC label.  An SFC Module is not created, and a node not put
\* in service, before the SFC labels are seen.
SfcLag ==
  \A n \in Nodes :
    InSelection(n) =>
      IF vLabel[n]["sfc"] = None
      THEN label[n]["sfc"] # None =>
             /\ cr.sfc
             /\ label[n]["kmm"] = Wanted
             /\ label[n]["onl"] = None \/ mod["sfc"] = None
             /\ pc \notin LaterSteps
      ELSE \/ label[n]["sfc"] = vLabel[n]["sfc"]
           \/ label[n]["sfc"] = None /\ vLabel[n]["kmm"] # Wanted

\* A node in service gets its SFC label before there is an SFC Module.
SfcModuleLast ==
  \A n \in Nodes :
    /\ InSelection(n)
    /\ cr # None /\ cr.sfc
    /\ label[n]["onl"] # None
    /\ label[n]["kmm"] = Wanted
    /\ label[n]["sfc"] = None
    => mod["sfc"] = None

\* Nodes are taken out of service in the order of their names: the cache shows
\* the nodes before one that is out as upgraded or on their way.
InOrder ==
  \A j, k \in Nodes :
    InSelection(j) /\ InSelection(k) /\ j < k /\ IsOut(k) => vLabel[j]["kmm"] \in {None, Wanted}

\* Beyond addKmmLabelsToNodes no node is out beside one without a KMM label,
\* and the nodes that are upgraded have their SFC label.
OneNodeOut ==
  pc \in LaterSteps =>
    \A k \in Nodes :
      InSelection(k) =>
        /\ label[k]["kmm"] = None => \A j \in Nodes \ {k} : InSelection(j) => ~IsOut(j)
        /\ req.sfc /\ label[k]["kmm"] = req.ver => label[k]["sfc"] # None

\* What the rest of addKmmLabelsToNodes is going to do.
KmmLoopLag ==
  pc = "kmmLoop" =>
    \A n \in Nodes, l \in LabelKeys :
      <<n, l>> \in work =>
        /\ InSelection(n)
        /\ req = cr
        /\ l = "kmm" =>
             /\ label[n]["onl"] = None
             /\ label[n]["kmm"] \in {None, req.ver}
             /\ vLabel[n]["kmm"] \in {None, label[n]["kmm"]}
        /\ l = "sfc" =>
             /\ req.sfc
             /\ label[n]["onl"] = None \/ mod["sfc"] = None
             /\ <<n, "kmm">> \in work \/ label[n]["kmm"] = req.ver
        /\ l # "onl"

\* What the rest of addOnloadLabelsToNodes is going to do.
OnloadLoopLag ==
  pc = "onlLoop" =>
    \A n \in Nodes, l \in LabelKeys :
      <<n, l>> \in work =>
        /\ l = "onl"
        /\ InSelection(n)
        /\ label[n]["kmm"] = req.ver
        /\ vLabel[n]["kmm"] = req.ver

UpgradeSteps == {"dropOnl", "checkDp", "evict", "dropSfc", "dropKmm"}

\* The node that is being upgraded.
NodeUpgradeLag ==
  /\ pc \in UpgradeSteps =>
       /\ req = cr
       /\ InSelection(cur)
       /\ label[cur]["kmm"] # Wanted
       /\ \A j \in Nodes : InSelection(j) /\ j < cur => vLabel[j]["kmm"] \in {None, Wanted}
  /\ pc \in DrainedSteps => label[cur]["onl"] = None
  /\ pc \in UpgradeSteps \ {"dropKmm"} => (label[cur]["sfc"] # None => <<cur, "sfc">> \in work)
  /\ pc = "dropKmm" => label[cur]["sfc"] = None

LagInv ==
  /\ LabelsOnSelected
  /\ LabelsAgree
  /\ CachedLabelsAgree
  /\ KmmLag
  /\ SfcLag
  /\ SfcModuleLast
  /\ InOrder
  /\ OneNodeOut
  /\ KmmLoopLag
  /\ OnloadLoopLag
  /\ NodeUpgradeLag

VersionInv ==
  /\ TypeInv
  /\ ResourceStays
  /\ DevicePluginGone
  /\ RolloutInv
  /\ LagInv

-----------------------------------------------------------------------------
(***************************************************************************)
(* Which steps change what.                                                *)
(***************************************************************************)

\* The DaemonSet.
LEMMA DaemonSetChanges ==
  ASSUME [Next]_vars
  PROVE  \/ UNCHANGED ds
         \/ CreateDevicePluginDaemonSet
         \/ HandleDevicePluginUpdate
         \/ CollectDaemonSet
<1>1. CASE ReconcileStep
  BY <1>1 DEF ReconcileStep, Reconcile, AddKmmLabelsToNodes, AddKmmLabelToNode,
     RemoveStaleLabels, RemoveStaleLabel, AddOnloadLabelsToNodes, AddOnloadLabelToNode,
     CreateAndAddModule, PatchOrDeleteModule, HandleUpdate, DropOnloadLabel,
     CheckDevicePluginPod, EvictOnloadedPods, DropSfcLabel, DropKmmLabel, DeleteLabels,
     DeleteLabelFromNode, objects
<1>2. CASE FaultStep \/ InformerStep \/ UserStep
  BY <1>2 DEF FaultStep, AbortPass, SkipFailedDelete, ListPodsFails, Crash,
     DevicePluginPodLost, InformerStep, Sync, Restart, Heartbeat, UserStep, CreateOnload,
     EditOnload, DeleteOnload, RelabelNode, objects
<1>3. CASE ClusterStep
  BY <1>3 DEF ClusterStep, CollectModule, FinishDeletion, LoaderStart, LoaderStop,
     DevicePluginStart, DevicePluginStop, AppStart, AppStop, objects
<1>4. CASE UNCHANGED vars
  BY <1>4 DEF vars, objects
<1> QED
  BY <1>1, <1>2, <1>3, <1>4 DEF Next

\* The caches.
LEMMA CacheChanges ==
  ASSUME [Next]_vars
  PROVE  UNCHANGED cache \/ (\E k \in Kinds : Sync(k)) \/ Restart
<1>1. CASE ReconcileStep
  BY <1>1 DEF ReconcileStep, Reconcile, AddKmmLabelsToNodes, AddKmmLabelToNode,
     RemoveStaleLabels, RemoveStaleLabel, CreateAndAddModule, AddOnloadLabelsToNodes,
     AddOnloadLabelToNode, CreateDevicePluginDaemonSet, HandleDevicePluginUpdate,
     PatchOrDeleteModule, HandleUpdate, DropOnloadLabel, CheckDevicePluginPod,
     EvictOnloadedPods, DropSfcLabel, DropKmmLabel, DeleteLabels, DeleteLabelFromNode
<1>2. CASE FaultStep \/ UserStep
  BY <1>2 DEF FaultStep, AbortPass, SkipFailedDelete, ListPodsFails, Crash,
     DevicePluginPodLost, UserStep, CreateOnload, EditOnload, DeleteOnload, RelabelNode
<1>3. CASE ClusterStep
  BY <1>3 DEF ClusterStep, CollectModule, CollectDaemonSet, FinishDeletion, LoaderStart,
     LoaderStop, DevicePluginStart, DevicePluginStop, AppStart, AppStop
<1>4. CASE InformerStep \/ UNCHANGED vars
  BY <1>4 DEF InformerStep, Heartbeat, vars
<1> QED
  BY <1>1, <1>2, <1>3, <1>4 DEF Next

\* What is read of the resource and of the DaemonSet stays or is current.
LEMMA ViewsFollow ==
  ASSUME TypeInv, [Next]_vars
  PROVE  vCr' \in {vCr, cr'} /\ vDs' \in {vDs, ds'}
<1>1. CASE UNCHANGED cache
  BY <1>1 DEF vCr, vDs
<1>2. ASSUME NEW k \in Kinds, Sync(k)
      PROVE  /\ UNCHANGED <<cr, ds>>
             /\ cache'.cr \in {cache.cr, cr}
             /\ cache'.ds \in {cache.ds, ds}
  BY <1>2 DEF Sync, Synced, WithCr, WithNode, WithMod, WithDs, WithPod, TypeInv, TypeOK,
     Caches, objects
<1>3. ASSUME Restart
      PROVE  /\ UNCHANGED <<cr, ds>>
             /\ cache'.cr \in {cache.cr, cr}
             /\ cache'.ds \in {cache.ds, ds}
  BY <1>3 DEF Restart, WithCr, WithNode, WithMod, WithDs, WithPod, TypeInv, TypeOK, Caches,
     objects
<1> QED
  BY <1>1, <1>2, <1>3, CacheChanges DEF vCr, vDs

\* The steps beyond handleDevicePluginUpdate.
LEMMA UpdatedChanges ==
  ASSUME [Next]_vars, pc' \in UpdatedSteps
  PROVE  /\ req' = req
         /\ \/ pc \in UpdatedSteps
            \/ HandleDevicePluginUpdate /\ vDs # None /\ vDs.ver = req.ver
<1> USE DEF UpdatedSteps
<1>1. CASE ReconcileStep
  <2> USE DEF Goto, Requeue, Done, EndPass, WorkOrElse, NextWork
  <2>1. CASE \/ Reconcile \/ AddKmmLabelsToNodes
             \/ \E n \in Nodes, l \in {"kmm", "sfc"} : AddKmmLabelToNode(n, l)
             \/ \E l \in LabelKeys : RemoveStaleLabels(l)
             \/ \E n \in Nodes, l \in LabelKeys : RemoveStaleLabel(n, l)
             \/ AddOnloadLabelsToNodes
             \/ \E n \in Nodes : AddOnloadLabelToNode(n)
             \/ \E l \in LabelKeys : DeleteLabels(l)
             \/ \E n \in Nodes, l \in LabelKeys : DeleteLabelFromNode(n, l)
    BY <2>1 DEF Reconcile, locals, AddKmmLabelsToNodes, AddKmmLabelToNode, RemoveStaleLabels,
       AfterStale, RemoveStaleLabel, AddOnloadLabelsToNodes, AddOnloadLabelToNode,
       DeleteLabels, DeleteLabelFromNode, AfterDelete, NextDelete
  <2>2. CASE \E m \in Modules : CreateAndAddModule(m) \/ PatchOrDeleteModule(m)
    BY <2>2 DEF CreateAndAddModule, AfterCreate, PatchOrDeleteModule, UpdateStep, AfterUpdate
  <2>3. CASE CreateDevicePluginDaemonSet \/ HandleDevicePluginUpdate
    BY <2>3 DEF CreateDevicePluginDaemonSet, HandleDevicePluginUpdate
  <2>4. CASE HandleUpdate \/ DropOnloadLabel \/ CheckDevicePluginPod \/ EvictOnloadedPods
             \/ DropSfcLabel \/ DropKmmLabel
    BY <2>4 DEF HandleUpdate, DropOnloadLabel, CheckDevicePluginPod, EvictOnloadedPods,
       DropSfcLabel, DropKmmLabel
  <2> QED
    BY <1>1, <2>1, <2>2, <2>3, <2>4 DEF ReconcileStep
<1>2. CASE FaultStep \/ InformerStep \/ UserStep
  BY <1>2 DEF FaultStep, AbortPass, Requeue, EndPass, SkipFailedDelete, NextDelete,
     AfterDelete, ListPodsFails, Goto, Crash, DevicePluginPodLost, InformerStep, Sync,
     Restart, Heartbeat, UserStep, CreateOnload, EditOnload, DeleteOnload, RelabelNode,
     locals
<1>3. CASE ClusterStep
  BY <1>3 DEF ClusterStep, CollectModule, CollectDaemonSet, FinishDeletion, LoaderStart,
     LoaderStop, DevicePluginStart, DevicePluginStop, AppStart, AppStop, locals
<1>4. CASE UNCHANGED vars
  BY <1>4 DEF vars, locals
<1> QED
  BY <1>1, <1>2, <1>3, <1>4 DEF Next

-----------------------------------------------------------------------------
(***************************************************************************)
(* The invariant is inductive.                                             *)
(***************************************************************************)
LEMMA InitVersions == Init => VersionInv
<1> SUFFICES ASSUME Init PROVE VersionInv
  OBVIOUS
<1>1. TypeInv /\ ResourceStays /\ DevicePluginGone
  BY InitLabels DEF Init, LabelInv, DevicePluginGone, DrainedSteps
<1>2. /\ cr = None /\ cache.cr = None /\ ds = None /\ cache.ds = None /\ req = None
      /\ vCr = None /\ vDs = None /\ pc = "idle" /\ vZone = zone /\ mod["sfc"] = None
  BY DEF Init, Snapshot, vCr, vDs, vZone, Modules
<1>3. NoLabelSeen
  BY DEF Init, Snapshot, NoLabelSeen, vLabel
<1>4. ObjectsKept /\ StaleIsSettled /\ DaemonSetFirst /\ DaemonSetSeen /\ DaemonSetUpdated
  BY <1>2 DEF ObjectsKept, StaleIsSettled, DaemonSetFirst, DaemonSetSeen,
     DaemonSetUpdated, UpdatedSteps
<1>5. /\ ModuleAsLabelled /\ DevicePluginAsLabelled /\ OldStaysInService
      /\ FirstRollout
  BY DEF Init, ModuleAsLabelled, DevicePluginAsLabelled, OldStaysInService, FirstRollout,
     LabelKeys, Modules
<1>6. LabelsOnSelected /\ LabelsAgree /\ CachedLabelsAgree
  BY <1>2, <1>3 DEF LabelsOnSelected, LabelsAgree, CachedLabelsAgree, NoLabelSeen, LabelKeys
<1>7. KmmLag /\ SfcLag /\ SfcModuleLast /\ InOrder
  BY <1>2, <1>3 DEF KmmLag, SfcLag, SfcModuleLast, InOrder, NoLabelSeen, LabelKeys
<1>8. OneNodeOut /\ KmmLoopLag /\ OnloadLoopLag /\ NodeUpgradeLag
  BY <1>2 DEF OneNodeOut, LaterSteps, KmmLoopLag, OnloadLoopLag, NodeUpgradeLag, UpgradeSteps,
     DrainedSteps
<1> QED
  BY <1>1, <1>4, <1>5, <1>6, <1>7, <1>8 DEF VersionInv, RolloutInv, LagInv

\* Nothing deletes the DaemonSet, and a pass writes it with the version of its
\* copy of the resource.
LEMMA DaemonSetWritten ==
  ASSUME VersionInv, [Next]_vars
  PROVE  \/ UNCHANGED ds
         \/ /\ pc \in {"createDs", "updateDs"}
            /\ pc' = "idle"
            /\ req \in Onloads
            /\ req # None
            /\ ds' # None
            /\ ds'.ver = req.ver
            /\ ds'.uid = IF ds = None THEN req.uid ELSE ds.uid
<1> USE DEF VersionInv, RolloutInv
<1>0. ds \in Dependents \cup {None}
  BY DEF TypeInv, TypeOK
<1>1. ~CollectDaemonSet
  BY DEF CollectDaemonSet, Orphan, ObjectsKept, ResourceStays, vCr
<1>2. ASSUME CreateDevicePluginDaemonSet \/ HandleDevicePluginUpdate, ds' # ds
      PROVE  /\ pc \in {"createDs", "updateDs"} /\ pc' = "idle"
             /\ req \in Onloads /\ req # None
             /\ ds' = IF ds = None THEN NewDependent ELSE Patched(ds)
  <2>1. pc \in {"createDs", "updateDs"} /\ pc' = "idle"
    BY <1>2 DEF CreateDevicePluginDaemonSet, HandleDevicePluginUpdate, Requeue, EndPass, Goto
  <2>2. req \in Onloads /\ req # None
    BY <2>1 DEF TypeInv, TypeOK, PassTyped, Steps
  <2>3. vDs # None => ds # None
    BY DEF ObjectsKept
  <2> QED
    BY <1>2, <2>1, <2>2, <2>3 DEF CreateDevicePluginDaemonSet, HandleDevicePluginUpdate
<1>3. CASE ds' # ds
  <2>1. ds' \in Dependents /\ ds'.ver = req.ver
        /\ ds'.uid = IF ds = None THEN req.uid ELSE ds.uid
    BY <1>0, <1>1, <1>2, <1>3, DaemonSetChanges
       DEF NewDependent, Patched, Dependents, Onloads
  <2> QED
    BY <1>1, <1>2, <1>3, <2>1, DaemonSetChanges, AbsentAssumption
<1> QED
  BY <1>3

\* Only a pass creates and deletes the SFC Module, as its copy of the resource
\* says.
LEMMA SfcModuleWritten ==
  ASSUME VersionInv, [Next]_vars
  PROVE  \/ /\ mod'["sfc"] = None <=> mod["sfc"] = None
            /\ mod["sfc"] # None => mod'["sfc"].uid = mod["sfc"].uid
         \/ /\ pc = "createSfc"
            /\ pc' = "idle"
            /\ req # None
            /\ req.sfc
            /\ mod["sfc"] = None
            /\ mod'["sfc"] # None
            /\ mod'["sfc"].uid = req.uid
            /\ UNCHANGED <<cr, label, cache>>
         \/ /\ pc = "updateSfc"
            /\ req # None
            /\ ~req.sfc
            /\ mod'["sfc"] = None
            /\ UNCHANGED <<cr, label, cache>>
<1> USE DEF VersionInv, RolloutInv
<1>0. mod \in [Modules -> Dependents \cup {None}] /\ "sfc" \in Modules
  BY DEF TypeInv, TypeOK, Modules
<1>1. ASSUME NEW m \in Modules, CollectModule(m), m = "sfc" PROVE FALSE
  BY <1>1 DEF CollectModule, Orphan, ObjectsKept, ResourceStays, vCr
<1>2. ASSUME NEW m \in Modules,
             CreateAndAddModule(m) \/ PatchOrDeleteModule(m) \/ CollectModule(m), m # "sfc"
      PROVE  mod'["sfc"] = mod["sfc"]
  BY <1>0, <1>2 DEF CreateAndAddModule, PatchOrDeleteModule, CollectModule
<1>3. ASSUME CreateAndAddModule("sfc"), mod' # mod
      PROVE  /\ pc = "createSfc" /\ pc' = "idle" /\ req # None /\ req.sfc
             /\ mod["sfc"] = None /\ mod'["sfc"] # None /\ mod'["sfc"].uid = req.uid
             /\ UNCHANGED <<cr, label, cache>>
  <2>1. /\ pc = "createSfc" /\ pc' = "idle" /\ mod["sfc"] = None
        /\ mod' = [mod EXCEPT !["sfc"] = NewDependent]
        /\ UNCHANGED <<cr, label, cache>>
    BY <1>3 DEF CreateAndAddModule, CreateStep, Requeue, EndPass
  <2>2. req \in Onloads /\ req # None /\ req.sfc
    BY <2>1 DEF TypeInv, TypeOK, PassTyped, Steps, ObjectsKept
  <2>3. NewDependent \in Dependents /\ NewDependent.uid = req.uid
    BY <2>2, WrittenTyped DEF NewDependent
  <2> QED
    BY <1>0, <2>1, <2>2, <2>3, AbsentAssumption
<1>4. ASSUME PatchOrDeleteModule("sfc"), mod' # mod
      PROVE  \/ mod'["sfc"] # None /\ mod["sfc"] # None /\ mod'["sfc"].uid = mod["sfc"].uid
             \/ /\ pc = "updateSfc" /\ req # None /\ ~req.sfc /\ mod'["sfc"] = None
                /\ UNCHANGED <<cr, label, cache>>
  <2>1. /\ pc = "updateSfc" /\ UNCHANGED <<cr, label, cache>>
        /\ \/ mod' = [mod EXCEPT !["sfc"] = Patched(mod["sfc"])]
           \/ mod' = [mod EXCEPT !["sfc"] = None] /\ ~req.sfc
    BY <1>4 DEF PatchOrDeleteModule, UpdateStep, IsUsed
  <2>2. req \in Onloads /\ req # None
    BY <2>1 DEF TypeInv, TypeOK, PassTyped, Steps
  <2>3. CASE mod' = [mod EXCEPT !["sfc"] = Patched(mod["sfc"])]
    <3>1. mod["sfc"] # None
      BY <1>0, <1>4, <2>3 DEF Patched
    <3>2. Patched(mod["sfc"]) \in Dependents /\ Patched(mod["sfc"]).uid = mod["sfc"].uid
      BY <1>0, <2>2, <3>1 DEF Patched, Dependents, Onloads
    <3> QED
      BY <1>0, <2>3, <3>1, <3>2, AbsentAssumption
  <2>4. CASE mod' = [mod EXCEPT !["sfc"] = None] /\ ~req.sfc
    BY <1>0, <2>1, <2>2, <2>4
  <2> QED
    BY <2>1, <2>3, <2>4
<1> QED
  BY <1>1, <1>2, <1>3, <1>4, ModuleChanges

LEMMA ObjectsKeptStep ==
  ASSUME FixedSelection, VersionInv, [Next]_vars
  PROVE  ObjectsKept'
<1> USE DEF VersionInv, RolloutInv
<1>1. /\ cr # None => cr' # None /\ cr'.uid = cr.uid
      /\ cache'.cr \in {cache.cr, cr}
  BY ResourceKept
<1>2. /\ req' = req \/ req' = None \/ (req' = vCr /\ UNCHANGED cr)
      /\ pc' = "createSfc" => req'.sfc
  BY CopyKept DEF Reconcile, objects, ObjectsKept
<1>3. vCr # None => vCr' # None /\ cr # None
  BY <1>1, ViewsFollow DEF ResourceStays, vCr
<1>4. /\ cache'.cr # None => cache'.cr.uid = cr'.uid
      /\ req' # None => req'.uid = cr'.uid /\ ~req'.del
  BY <1>1, <1>2 DEF ObjectsKept, ResourceStays, vCr
<1>5. ds # None => ds' # None
  BY DaemonSetWritten
<1>6. ds' # None => vCr' # None /\ ds'.uid = cr'.uid
  BY <1>1, <1>3, DaemonSetWritten DEF ObjectsKept, ResourceStays
<1>7. vDs' # None => ds' # None
  BY <1>5, ViewsFollow DEF ObjectsKept
<1>8. mod'["sfc"] # None => vCr' # None /\ mod'["sfc"].uid = cr'.uid
  BY <1>1, <1>3, SfcModuleWritten DEF ObjectsKept, ResourceStays
<1> QED
  BY <1>2, <1>4, <1>6, <1>7, <1>8 DEF ObjectsKept

\* Nobody changes a label without a copy of the resource, or with an old one.
LEMMA OldCopyIdle ==
  ASSUME VersionInv, [Next]_vars, req = None \/ req # cr
  PROVE  UNCHANGED label
<1> USE DEF VersionInv, RolloutInv, LagInv
<1>0. label \in [Nodes -> [LabelKeys -> VersionOrNone]] /\ LabelKeys = {"kmm", "sfc", "onl"}
  BY DEF TypeInv, TypeOK, LabelKeys
<1>1. ASSUME NEW n \in Nodes, NEW l \in {"kmm", "sfc"}, AddKmmLabelToNode(n, l) PROVE FALSE
  BY <1>0, <1>1 DEF AddKmmLabelToNode, IsNext, KmmLoopLag, TypeInv, PassTyped, Steps
<1>2. ASSUME NEW n \in Nodes, AddOnloadLabelToNode(n) PROVE UNCHANGED label
  <2>1. /\ label' = [label EXCEPT ![n]["onl"] = req.ver]
        /\ pc = "onlLoop" /\ <<n, "onl">> \in work
    BY <1>2 DEF AddOnloadLabelToNode
  <2>2. InSelection(n) /\ req # None
    BY <1>0, <2>1 DEF OnloadLoopLag, TypeInv, PassTyped, Steps
  <2>3. label[n]["onl"] = req.ver
    BY <2>2 DEF StaleIsSettled, Settled
  <2> QED
    BY <1>0, <2>1, <2>3
<1>3. ~DropOnloadLabel /\ ~DropSfcLabel /\ ~DropKmmLabel
  BY DEF DropOnloadLabel, DropSfcLabel, DropKmmLabel, NodeUpgradeLag, UpgradeSteps, TypeInv,
     PassTyped, Steps
<1> QED
  BY <1>1, <1>2, <1>3, LabelChanges DEF LabelsOnSelected

\* A Device Plugin stays on a selected node that is in service.
LEMMA DevicePluginStays ==
  ASSUME FixedSelection, PatientUsers, VersionInv, [Next]_vars,
         NEW n \in Nodes, ds # None, InSelection(n), label[n]["onl"] # None, dp[n] # None
  PROVE  dp'[n] = dp[n]
<1> USE DEF VersionInv
<1>1. dp \in [Nodes -> VersionOrNone]
  BY DEF TypeInv, TypeOK
<1>2. WantsDevicePlugin(n)
  BY DEF WantsDevicePlugin, InSelection, FixedSelection, TypeInv, TypeOK, Dependents
<1>3. \A k \in Nodes : ~DevicePluginPodLost(k)
  BY DEF DevicePluginPodLost, Fault, PatientUsers
<1> QED
  BY <1>1, <1>2, <1>3, PodChanges DEF pods, EvictOnloadedPods, DevicePluginStart,
     DevicePluginStop, AppStart, AppStop, LoaderStart, LoaderStop

\* What was rolled out stays so as long as no pass knows the new content.
LEMMA SettledStays ==
  ASSUME FixedSelection, PatientUsers, VersionInv, [Next]_vars,
         NEW r \in Onloads, Settled(r), r # cr, req # None => req = r
  PROVE  Settled(r)'
<1>1. ds' # None /\ ds'.ver = r.ver
  BY DaemonSetWritten DEF Settled
<1>2. r.ver # None
  BY NoneAssumption DEF Onloads
<1>3. label' = label
  BY OldCopyIdle
<1>4. ASSUME NEW n \in Nodes, InSelection(n) PROVE dp'[n] = r.ver
  BY <1>2, <1>4, DevicePluginStays DEF Settled
<1>5. mod'["sfc"] # None <=> r.sfc
  BY SfcModuleWritten DEF Settled
<1> QED
  BY <1>1, <1>3, <1>4, <1>5, ZoneStays DEF Settled, InSelection

\* Two states of the resource that are rolled out alike are the same.
LEMMA SameWhenSettled ==
  ASSUME FixedSelection, NEW r \in Onloads, NEW q \in Onloads,
         r.uid = q.uid, ~r.del, ~q.del, Settled(r), Settled(q)
  PROVE  r = q
<1>1. r.ver = q.ver
  BY DEF Settled
<1>2. r.sfc \in BOOLEAN /\ q.sfc \in BOOLEAN /\ r.sel = q.sel
  BY SfcUseAssumption DEF Onloads, FixedSelection
<1>3. r.sfc = q.sfc
  BY <1>2 DEF Settled
<1>4. r.del = q.del
  BY DEF Onloads
<1> QED
  BY <1>1, <1>2, <1>3, <1>4 DEF Onloads

\* Users who wait change a resource that is rolled out, and every copy of it
\* is current.
LEMMA EditedWhenSettled ==
  ASSUME FixedSelection, PatientUsers, VersionInv, EditOnload
  PROVE  /\ cr \in Onloads /\ cr # None /\ cr.ver # None /\ Wanted = cr.ver
         /\ Settled(cr)
         /\ vCr = cr
         /\ req # None => req = cr
         /\ \A n \in Nodes : zone[n] \in Selectors => zone[n] = cr.sel
<1> USE DEF VersionInv, RolloutInv
<1>1. cr \in Onloads /\ cr # None /\ ~cr.del /\ RolloutDone
  BY DEF EditOnload, UserEdit, PatientUsers, TypeInv, TypeOK
<1>2. /\ ds # None /\ ds.ver = cr.ver /\ \A n \in Nodes : NodeReady(n)
      /\ mod["sfc"] # None <=> cr.sfc
  BY <1>1 DEF RolloutDone, ObjectsReady, Modules
<1>3. \A n \in Nodes : zone[n] \in Selectors => zone[n] = cr.sel
  BY <1>1 DEF FixedSelection, Onloads
<1>4. Settled(cr)
  BY <1>2, <1>3 DEF Settled, NodeReady, InSelection
<1>5. vCr # None /\ vCr \in Onloads /\ vCr.uid = cr.uid /\ ~vCr.del
  BY <1>1, <1>2, ViewsTyped DEF ObjectsKept, TypeInv, vCr, ResourceStays
<1>6. vCr = cr
  BY <1>1, <1>4, <1>5, SameWhenSettled DEF StaleIsSettled
<1>7. ASSUME req # None PROVE req = cr
  <2>1. req \in Onloads /\ req.uid = cr.uid /\ ~req.del
    BY <1>7 DEF TypeInv, TypeOK, ObjectsKept
  <2> QED
    BY <1>1, <1>4, <1>7, <2>1, SameWhenSettled DEF StaleIsSettled
<1> QED
  BY <1>1, <1>3, <1>4, <1>6, <1>7, NoneAssumption DEF Onloads, Wanted

\* The resource changes when it is created, before there is anything else, and
\* when it is edited.
LEMMA WantedChanges ==
  ASSUME FixedSelection, VersionInv, [Next]_vars
  PROVE  \/ Wanted' = Wanted /\ UNCHANGED cr
         \/ /\ CreateOnload /\ NoLabelSeen /\ ds = None /\ vDs = None /\ mod["sfc"] = None
            /\ req = None /\ vCr = None
         \/ EditOnload
<1> USE DEF VersionInv, RolloutInv, LagInv
<1>1. CASE UNCHANGED cr
  BY <1>1 DEF Wanted
<1>2. CASE CreateOnload
  <2>1. vCr = None
    BY <1>2 DEF CreateOnload, ResourceStays, vCr
  <2> QED
    BY <1>2, <2>1 DEF ResourceStays, LabelsOnSelected, ObjectsKept
<1> QED
  BY <1>1, <1>2, ResourceKept

LEMMA StaleSettledStep ==
  ASSUME FixedSelection, PatientUsers, VersionInv, [Next]_vars
  PROVE  StaleIsSettled'
<1> USE DEF VersionInv, RolloutInv
<1>0. /\ vCr # None => vCr \in Onloads
      /\ req # None => req \in Onloads
  BY ViewsTyped DEF TypeInv, TypeOK
<1>1. CASE EditOnload
  <2>1. UNCHANGED <<zone, label, mod, ds, dp, req, cache>>
    BY <1>1 DEF EditOnload, pods, locals
  <2>2. PICK r \in Onloads : r = cr
    BY <1>1, EditedWhenSettled
  <2>3. Settled(r)'
    BY <1>1, <2>1, <2>2, EditedWhenSettled DEF Settled, InSelection
  <2>4. (req # None => req = r) /\ vCr = r
    BY <1>1, <2>2, EditedWhenSettled
  <2>5. vCr' = vCr \/ vCr' = cr'
    BY <1>1, ViewsFollow
  <2> QED
    BY <2>1, <2>3, <2>4, <2>5 DEF StaleIsSettled
<1>2. CASE CreateOnload /\ req = None /\ vCr = None
  <2>1. req' = None /\ (vCr' = None \/ vCr' = cr')
    BY <1>2, ViewsFollow DEF CreateOnload, locals
  <2> QED
    BY <2>1 DEF StaleIsSettled
<1>3. CASE UNCHANGED cr
  <2>1. CASE Reconcile
    <3>1. UNCHANGED <<zone, label, mod, ds, dp, cr, vCr>>
      BY <2>1 DEF Reconcile, objects, pods, vCr
    <3>2. req' \in {req, None, vCr}
      BY CopyKept
    <3>3. \A r : Settled(r) => Settled(r)'
      BY <3>1 DEF Settled, InSelection
    <3> QED
      BY <1>3, <3>1, <3>2, <3>3 DEF StaleIsSettled
  <2>2. CASE ~Reconcile
    <3>1. req' = req \/ req' = None
      BY <2>2, CopyKept
    <3>2. vCr' = vCr \/ vCr' = cr
      BY <1>3, ViewsFollow
    <3>3. ASSUME NEW r \in Onloads, r # cr, vCr # None, r = vCr PROVE Settled(r)'
      BY <3>3, SettledStays DEF StaleIsSettled
    <3>4. ASSUME NEW r \in Onloads, r # cr, req # None, r = req PROVE Settled(r)'
      BY <3>4, SettledStays DEF StaleIsSettled
    <3> QED
      BY <1>0, <1>3, <3>1, <3>2, <3>3, <3>4 DEF StaleIsSettled
  <2> QED
    BY <2>1, <2>2
<1> QED
  BY <1>1, <1>2, <1>3, WantedChanges

\* A pass that finds something to be done has a current copy of the resource.
LEMMA CopyIsCurrent ==
  ASSUME VersionInv, req # None,
         \/ ds = None
         \/ ds.ver # req.ver
         \/ \E n \in Nodes : InSelection(n) /\ label[n]["kmm"] # req.ver
  PROVE  req = cr /\ req.ver = Wanted
BY DEF VersionInv, RolloutInv, StaleIsSettled, Settled, Wanted

\* A node gets a KMM label when nothing is loaded, and loses it when no Device
\* Plugin is left.
LEMMA KmmLabelChanges ==
  ASSUME FixedSelection, PatientUsers, VersionInv, [Next]_vars, TypeInv', NEW n \in Nodes
  PROVE  \/ label'[n]["kmm"] = label[n]["kmm"]
         \/ /\ label[n]["kmm"] = None
            /\ InSelection(n)
            /\ ldr[n]["onload"] = None
            /\ req # None
            /\ label'[n]["kmm"] = req.ver
            /\ UNCHANGED <<cr, ds, pods>>
         \/ /\ pc = "dropKmm"
            /\ label[n]["kmm"] \notin {None, req.ver}
            /\ InSelection(n)
            /\ dp[n] = None
            /\ req # None
            /\ label'[n]["kmm"] = None
            /\ UNCHANGED <<cr, ds, pods>>
<1> USE DEF VersionInv, RolloutInv, LagInv
<1>0. /\ label \in [Nodes -> [LabelKeys -> VersionOrNone]]
      /\ cur \in Nodes \cup {None}
      /\ "kmm" \in LabelKeys
  BY DEF TypeInv, TypeOK, LabelKeys
<1>1. ASSUME NEW k \in Nodes, NEW l \in {"kmm", "sfc"}, AddKmmLabelToNode(k, l),
             label'[n]["kmm"] # label[n]["kmm"]
      PROVE  /\ label[n]["kmm"] = None /\ InSelection(n) /\ ldr[n]["onload"] = None
             /\ req # None /\ label'[n]["kmm"] = req.ver /\ UNCHANGED <<cr, ds, pods>>
  <2>1. /\ label' = [label EXCEPT ![k][l] = req.ver] /\ vLdr[k][ModuleOf(l)] = None
        /\ UNCHANGED <<cr, ds, pods>>
    BY <1>1 DEF AddKmmLabelToNode
  <2>2. k = n /\ l = "kmm"
    BY <1>0, <1>1, <2>1
  <2>3. <<n, "kmm">> \in work /\ pc = "kmmLoop"
    BY <1>1, <2>2 DEF AddKmmLabelToNode, IsNext
  <2>4. label[n]["kmm"] = None /\ InSelection(n) /\ req # None
    <3>1. label'[n]["kmm"] = req.ver
      BY <1>0, <2>1, <2>2
    <3> QED
      BY <1>0, <1>1, <2>3, <3>1 DEF KmmLoopLag, TypeInv, PassTyped, Steps
  <2> QED
    BY <1>0, <2>1, <2>2, <2>4 DEF ModuleOf, vLdr, PatientUsers
<1>2. ASSUME NEW k \in Nodes, AddOnloadLabelToNode(k)
      PROVE  label'[n]["kmm"] = label[n]["kmm"]
  BY <1>0, <1>2 DEF AddOnloadLabelToNode, LabelKeys
<1>3. ASSUME DropOnloadLabel \/ DropSfcLabel
      PROVE  label'[n]["kmm"] = label[n]["kmm"]
  BY <1>0, <1>3 DEF DropOnloadLabel, DropSfcLabel, LabelKeys
<1>4. ASSUME DropKmmLabel, label'[n]["kmm"] # label[n]["kmm"]
      PROVE  /\ pc = "dropKmm" /\ label[n]["kmm"] \notin {None, req.ver} /\ InSelection(n)
             /\ dp[n] = None /\ req # None /\ label'[n]["kmm"] = None
             /\ UNCHANGED <<cr, ds, pods>>
  <2>1. /\ pc = "dropKmm" /\ label' = [label EXCEPT ![cur]["kmm"] = None]
        /\ UNCHANGED <<cr, ds, pods>>
    BY <1>4 DEF DropKmmLabel
  <2>2. cur = n
    BY <1>0, <1>4, <2>1
  <2>3. label'[n]["kmm"] = None
    BY <1>0, <2>1, <2>2
  <2>4. req # None /\ req = cr /\ InSelection(n) /\ dp[n] = None /\ label[n]["kmm"] # Wanted
    BY <2>1, <2>2 DEF NodeUpgradeLag, UpgradeSteps, DevicePluginGone, DrainedSteps, TypeInv,
       PassTyped, Steps
  <2> QED
    BY <1>4, <2>1, <2>3, <2>4 DEF Wanted
<1> QED
  BY <1>1, <1>2, <1>3, <1>4, LabelChanges DEF LabelsOnSelected

\* A node gets an Onload label of the version of its KMM label.
LEMMA OnloadLabelChanges ==
  ASSUME VersionInv, [Next]_vars, TypeInv', NEW n \in Nodes
  PROVE  \/ label'[n]["onl"] \in {None, label[n]["onl"]}
         \/ /\ req # None
            /\ InSelection(n)
            /\ label[n]["kmm"] = req.ver
            /\ label'[n]["onl"] = req.ver
            /\ UNCHANGED <<cr, ds, pods>>
<1> USE DEF VersionInv, RolloutInv, LagInv
<1>0. /\ label \in [Nodes -> [LabelKeys -> VersionOrNone]]
      /\ "onl" \in LabelKeys
  BY DEF TypeInv, TypeOK, LabelKeys
<1>1. ASSUME NEW k \in Nodes, NEW l \in {"kmm", "sfc"}, AddKmmLabelToNode(k, l)
      PROVE  label'[n]["onl"] = label[n]["onl"]
  BY <1>0, <1>1 DEF AddKmmLabelToNode, LabelKeys
<1>2. ASSUME NEW k \in Nodes, AddOnloadLabelToNode(k), label'[n]["onl"] # label[n]["onl"]
      PROVE  /\ req # None /\ InSelection(n) /\ label[n]["kmm"] = req.ver
             /\ label'[n]["onl"] = req.ver /\ UNCHANGED <<cr, ds, pods>>
  <2>1. /\ pc = "onlLoop" /\ <<k, "onl">> \in work
        /\ label' = [label EXCEPT ![k]["onl"] = req.ver]
        /\ UNCHANGED <<cr, ds, pods>>
    BY <1>2 DEF AddOnloadLabelToNode
  <2>2. k = n
    BY <1>0, <1>2, <2>1
  <2> QED
    BY <1>0, <2>1, <2>2 DEF OnloadLoopLag, InSelection, TypeInv, PassTyped, Steps
<1>3. ASSUME DropOnloadLabel \/ DropSfcLabel \/ DropKmmLabel
      PROVE  label'[n]["onl"] \in {None, label[n]["onl"]}
  BY <1>0, <1>3 DEF DropOnloadLabel, DropSfcLabel, DropKmmLabel, LabelKeys
<1> QED
  BY <1>1, <1>2, <1>3, LabelChanges DEF LabelsOnSelected

LEMMA ModuleLabelledStep ==
  ASSUME FixedSelection, PatientUsers, VersionInv, [Next]_vars, TypeInv'
  PROVE  ModuleAsLabelled'
<1> USE DEF VersionInv, RolloutInv, LagInv
<1> SUFFICES ASSUME NEW n \in Nodes, ldr'[n]["onload"] # None
             PROVE  label'[n]["kmm"] \in {None, ldr'[n]["onload"]}
  BY DEF ModuleAsLabelled
<1>0. ldr \in [Nodes -> [Modules -> VersionOrNone]] /\ "onload" \in Modules
  BY DEF TypeInv, TypeOK, Modules
<1>1. CASE \E k \in Nodes, m \in Modules : LoaderStart(k, m)
  <2>1. PICK k \in Nodes, m \in Modules : LoaderStart(k, m)
    BY <1>1
  <2>2. label' = label /\ ldr' = [ldr EXCEPT ![k][m] = mod[m].ver]
        /\ label[k][LabelOf(m)] = mod[m].ver
    BY <2>1 DEF LoaderStart, objects
  <2>3. CASE k = n /\ m = "onload"
    BY <1>0, <2>2, <2>3 DEF LabelOf
  <2>4. CASE ~(k = n /\ m = "onload")
    <3>1. ldr'[n]["onload"] = ldr[n]["onload"]
      BY <1>0, <2>2, <2>4
    <3> QED
      BY <2>2, <3>1 DEF ModuleAsLabelled
  <2> QED
    BY <2>3, <2>4
<1>2. CASE ~\E k \in Nodes, m \in Modules : LoaderStart(k, m)
  <2>1. ldr'[n]["onload"] = ldr[n]["onload"]
    BY <1>0, <1>2, PodChanges DEF pods, EvictOnloadedPods, DevicePluginPodLost,
       DevicePluginStart, DevicePluginStop, AppStart, AppStop, LoaderStop
  <2> QED
    BY <2>1, KmmLabelChanges DEF ModuleAsLabelled
<1> QED
  BY <1>1, <1>2

LEMMA DevicePluginLabelledStep ==
  ASSUME FixedSelection, PatientUsers, VersionInv, [Next]_vars, TypeInv'
  PROVE  DevicePluginAsLabelled'
<1> USE DEF VersionInv, RolloutInv, LagInv
<1> SUFFICES ASSUME NEW n \in Nodes, dp'[n] # None
             PROVE  dp'[n] = label'[n]["kmm"]
  BY DEF DevicePluginAsLabelled
<1>0. dp \in [Nodes -> VersionOrNone]
  BY DEF TypeInv, TypeOK
<1>1. CASE DevicePluginStart(n)
  <2>1. /\ label' = label /\ label[n]["onl"] # None /\ dp[n] = None
        /\ ds # None /\ dp'[n] = ds.ver
    BY <1>0, <1>1 DEF DevicePluginStart, WantsDevicePlugin, objects
  <2>2. label[n]["kmm"] = Wanted
    BY <2>1 DEF OldStaysInService, LabelsAgree
  <2>3. InSelection(n)
    BY <2>1 DEF LabelsOnSelected, InSelection, LabelKeys
  <2> QED
    BY <2>1, <2>2, <2>3 DEF DaemonSetFirst
<1>2. CASE ~DevicePluginStart(n)
  <2>1. dp'[n] = dp[n]
    BY <1>0, <1>2, PodChanges DEF pods, EvictOnloadedPods, DevicePluginPodLost,
       DevicePluginStart, DevicePluginStop, AppStart, AppStop, LoaderStart, LoaderStop
  <2> QED
    BY <2>1, KmmLabelChanges DEF DevicePluginAsLabelled
<1> QED
  BY <1>1, <1>2

LEMMA OldInServiceStep ==
  ASSUME FixedSelection, PatientUsers, VersionInv, [Next]_vars, TypeInv'
  PROVE  OldStaysInService'
<1> USE DEF VersionInv, RolloutInv, LagInv
<1> SUFFICES ASSUME NEW n \in Nodes, label'[n]["onl"] \notin {None, Wanted'}
             PROVE  dp'[n] # None
  BY DEF OldStaysInService
<1>1. CASE EditOnload
  <2>1. UNCHANGED <<label, dp>>
    BY <1>1 DEF EditOnload, pods
  <2>2. InSelection(n)
    BY <2>1 DEF LabelsOnSelected, InSelection, LabelKeys
  <2> QED
    BY <1>1, <2>1, <2>2, EditedWhenSettled, NoneAssumption DEF Settled
<1>2. CASE CreateOnload /\ NoLabelSeen
  BY <1>2 DEF CreateOnload, NoLabelSeen, LabelKeys
<1>3. CASE Wanted' = Wanted
  <2>1. CASE label'[n]["onl"] = label[n]["onl"]
    <3>1. dp[n] # None /\ label[n]["kmm"] \notin {None, Wanted}
      BY <1>3, <2>1 DEF OldStaysInService, LabelsAgree
    <3>2. ds # None /\ InSelection(n)
      BY <2>1, <3>1 DEF FirstRollout, LabelsOnSelected, InSelection, LabelKeys
    <3> QED
      BY <2>1, <3>1, <3>2, DevicePluginStays
  <2>2. CASE label'[n]["onl"] # label[n]["onl"]
    <3>1. /\ req # None /\ InSelection(n) /\ req.ver # Wanted /\ UNCHANGED dp
      BY <1>3, <2>2, OnloadLabelChanges DEF pods
    <3>2. req.ver \in Versions
      BY <3>1 DEF TypeInv, TypeOK, Onloads
    <3> QED
      BY <3>1, <3>2, NoneAssumption DEF StaleIsSettled, Settled, Wanted
  <2> QED
    BY <2>1, <2>2
<1> QED
  BY <1>1, <1>2, <1>3, WantedChanges

LEMMA FirstRolloutStep ==
  ASSUME FixedSelection, PatientUsers, VersionInv, [Next]_vars, TypeInv'
  PROVE  FirstRollout'
<1> SUFFICES ASSUME ds' = None, NEW n \in Nodes
             PROVE  label'[n]["kmm"] \in {None, Wanted'}
  BY DEF FirstRollout
<1>0. ds = None
  BY DaemonSetWritten
<1>1. ~EditOnload
  BY <1>0, EditedWhenSettled DEF Settled
<1>2. CASE CreateOnload /\ NoLabelSeen
  BY <1>2 DEF CreateOnload, NoLabelSeen, LabelKeys
<1>3. CASE Wanted' = Wanted
  BY <1>0, <1>3, KmmLabelChanges, CopyIsCurrent DEF VersionInv, RolloutInv, FirstRollout
<1> QED
  BY <1>1, <1>2, <1>3, WantedChanges

LEMMA DaemonSetFirstStep ==
  ASSUME FixedSelection, PatientUsers, VersionInv, [Next]_vars, TypeInv'
  PROVE  DaemonSetFirst'
<1> USE DEF VersionInv, RolloutInv, LagInv
<1> SUFFICES ASSUME NEW n \in Nodes, InSelection(n), label'[n]["kmm"] \in {None, Wanted'}
             PROVE  /\ ds' # None => ds'.ver = Wanted'
                    /\ vDs' # None => vDs'.ver = Wanted'
  BY ZoneStays DEF DaemonSetFirst, InSelection
<1>1. CASE EditOnload
  <2>1. UNCHANGED <<label, ds>>
    BY <1>1 DEF EditOnload
  <2>2. label[n]["kmm"] = Wanted /\ Wanted # None
    BY <1>1, EditedWhenSettled, NoneAssumption DEF Settled
  <2>3. Wanted' = Wanted
    BY <2>1, <2>2
  <2> QED
    BY <2>1, <2>2, <2>3, ViewsFollow DEF DaemonSetFirst
<1>2. CASE CreateOnload /\ ds = None /\ vDs = None
  BY <1>2, ViewsFollow DEF CreateOnload
<1>3. CASE Wanted' = Wanted
  <2>1. CASE label[n]["kmm"] \in {None, Wanted}
    <3>1. /\ ds # None => ds.ver = Wanted
          /\ vDs # None => vDs.ver = Wanted
      BY <2>1 DEF DaemonSetFirst
    <3>2. ds' # None => ds'.ver = Wanted
      BY <3>1, DaemonSetWritten, CopyIsCurrent
    <3> QED
      BY <1>3, <3>1, <3>2, ViewsFollow
  <2>2. CASE label[n]["kmm"] \notin {None, Wanted}
    <3>1. pc = "dropKmm" /\ req # None /\ label[n]["kmm"] # req.ver /\ UNCHANGED ds
      BY <1>3, <2>2, KmmLabelChanges
    <3>2. req.ver = Wanted
      BY <3>1, CopyIsCurrent
    <3>3. vDs # None /\ vDs.ver = Wanted /\ ds.ver = Wanted
      BY <3>1, <3>2 DEF DaemonSetUpdated, UpdatedSteps, DaemonSetSeen
    <3> QED
      BY <1>3, <3>1, <3>3, ViewsFollow
  <2> QED
    BY <2>1, <2>2
<1> QED
  BY <1>1, <1>2, <1>3, WantedChanges

LEMMA DaemonSetSeenStep ==
  ASSUME FixedSelection, PatientUsers, VersionInv, [Next]_vars
  PROVE  DaemonSetSeen'
<1> USE DEF VersionInv, RolloutInv, LagInv
<1> SUFFICES ASSUME NEW n \in Nodes, InSelection(n), vDs' # None, vDs'.ver = Wanted'
             PROVE  ds'.ver = Wanted'
  BY ZoneStays DEF DaemonSetSeen, InSelection
<1>1. CASE EditOnload
  <2>1. UNCHANGED ds
    BY <1>1 DEF EditOnload
  <2>2. label[n]["kmm"] = Wanted /\ ds # None
    BY <1>1, EditedWhenSettled DEF Settled
  <2>3. ds.ver = Wanted /\ (vDs # None => vDs.ver = Wanted)
    BY <2>2 DEF DaemonSetFirst
  <2> QED
    BY <2>1, <2>3, ViewsFollow
<1>2. CASE CreateOnload /\ ds = None /\ vDs = None
  BY <1>2, ViewsFollow DEF CreateOnload
<1>3. CASE Wanted' = Wanted
  <2>1. CASE vDs' = ds'
    BY <2>1
  <2>2. CASE vDs' = vDs
    <3>1. ds # None /\ ds.ver = Wanted
      BY <1>3, <2>2 DEF DaemonSetSeen, ObjectsKept
    <3> QED
      BY <1>3, <3>1, DaemonSetWritten, CopyIsCurrent
  <2> QED
    BY <2>1, <2>2, ViewsFollow
<1> QED
  BY <1>1, <1>2, <1>3, WantedChanges

LEMMA DaemonSetUpdatedStep ==
  ASSUME FixedSelection, PatientUsers, VersionInv, [Next]_vars, TypeInv'
  PROVE  DaemonSetUpdated'
<1> USE DEF VersionInv, RolloutInv, LagInv
<1> SUFFICES ASSUME pc' \in UpdatedSteps, NEW n \in Nodes, InSelection(n)
             PROVE  vDs' # None /\ vDs'.ver = req'.ver
  BY ZoneStays DEF DaemonSetUpdated, InSelection
<1>1. req' = req /\ req # None
  BY UpdatedChanges DEF UpdatedSteps, TypeInv, PassTyped, Steps
<1>2. vDs # None /\ vDs.ver = req.ver
  BY UpdatedChanges DEF DaemonSetUpdated
<1>3. UNCHANGED ds
  BY DaemonSetWritten DEF UpdatedSteps
<1>4. ds # None /\ ds.ver = req.ver
  BY <1>1, <1>2, CopyIsCurrent DEF DaemonSetSeen, ObjectsKept
<1> QED
  BY <1>1, <1>2, <1>3, <1>4, ViewsFollow

LEMMA RolloutStep ==
  ASSUME FixedSelection, PatientUsers, VersionInv, [Next]_vars, TypeInv'
  PROVE  RolloutInv'
BY ObjectsKeptStep, StaleSettledStep, ModuleLabelledStep, DevicePluginLabelledStep,
   OldInServiceStep, FirstRolloutStep, DaemonSetFirstStep, DaemonSetSeenStep,
   DaemonSetUpdatedStep
   DEF RolloutInv
=============================================================================
