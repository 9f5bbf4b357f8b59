-------------------------- MODULE OnloadLagProofs ---------------------------
(***************************************************************************)
(* The labels under a node cache that lags: the other half of the          *)
(* invariant of OnloadVersionProofs, and what it gives users who wait for  *)
(* each change to be rolled out before they make the next.                 *)
(***************************************************************************)
EXTENDS OnloadVersionProofs, OnloadRolloutProofs

-----------------------------------------------------------------------------
(***************************************************************************)
(* Which steps change what.                                                *)
(***************************************************************************)

\* What is read of the nodes stays or is current.
LEMMA NodeViewFollows ==
  ASSUME FixedSelection, VersionInv, [Next]_vars
  PROVE  zone' = zone /\ vZone' = zone' /\ vLabel' \in {vLabel, label'}
<1>0. zone' = zone /\ vZone = zone /\ TypeOK
  BY ZoneStays DEF VersionInv, LagInv, LabelsOnSelected, TypeInv
<1>1. CASE UNCHANGED cache
  BY <1>0, <1>1 DEF vZone, vLabel
<1>2. ASSUME NEW k \in Kinds, Sync(k)
      PROVE  /\ UNCHANGED <<zone, label>>
             /\ cache'.zone \in {cache.zone, zone}
             /\ cache'.label \in {cache.label, label}
  BY <1>0, <1>2 DEF Sync, Synced, WithCr, WithNode, WithMod, WithDs, WithPod, TypeOK,
     Caches, objects
<1>3. ASSUME Restart
      PROVE  /\ UNCHANGED <<zone, label>>
             /\ cache'.zone \in {cache.zone, zone}
             /\ cache'.label \in {cache.label, label}
  BY <1>0, <1>3 DEF Restart, WithCr, WithNode, WithMod, WithDs, WithPod, TypeOK, Caches,
     objects
<1> QED
  BY <1>0, <1>1, <1>2, <1>3, CacheChanges DEF vZone, vLabel

\* The two loops that add labels, and the upgrade of a node: how a pass gets
\* there and what it does there.
LoopSteps ==
  /\ pc' = "kmmLoop" =>
       /\ req' = req
       /\ \/ pc = "kmmLoop" /\ UNCHANGED <<work, label>>
          \/ AddKmmLabelsToNodes /\ work' = KmmWork
          \/ \E n \in Nodes, l \in {"kmm", "sfc"} :
               AddKmmLabelToNode(n, l) /\ work' = work \ {<<n, l>>}
  /\ pc' = "onlLoop" =>
       /\ req' = req
       /\ \/ pc = "onlLoop" /\ work' \subseteq work
          \/ AddOnloadLabelsToNodes /\ work' = OnloadWork
  /\ pc' \in UpgradeSteps =>
       /\ req' = req
       /\ \/ HandleUpdate
          \/ pc \in UpgradeSteps /\ UNCHANGED <<cur, work>>
  /\ pc' \in LaterSteps =>
       /\ req' = req
       /\ pc \in LaterSteps \/ (AddKmmLabelsToNodes /\ KmmWork = {})

LEMMA PassChanges ==
  ASSUME [Next]_vars
  PROVE  LoopSteps
<1> USE DEF LoopSteps, UpgradeSteps, LaterSteps
<1>1. CASE ReconcileStep
  <2> USE DEF Goto, Requeue, Done, EndPass, WorkOrElse, NextWork
  <2>1. CASE Reconcile \/ (\E l \in LabelKeys : DeleteLabels(l))
             \/ \E n \in Nodes, l \in LabelKeys : DeleteLabelFromNode(n, l)
    BY <2>1 DEF Reconcile, locals, objects, DeleteLabels, DeleteLabelFromNode, DeleteStep,
       AfterDelete, NextDelete
  <2>2. CASE AddKmmLabelsToNodes
    BY <2>2 DEF AddKmmLabelsToNodes
  <2>3. ASSUME NEW n \in Nodes, NEW l \in {"kmm", "sfc"}, AddKmmLabelToNode(n, l)
        PROVE  LoopSteps
    BY <2>3 DEF AddKmmLabelToNode
  <2>4. ASSUME NEW l \in LabelKeys, RemoveStaleLabels(l) PROVE LoopSteps
    BY <2>4 DEF RemoveStaleLabels, StaleStep, AfterStale, objects
  <2>5. ASSUME NEW n \in Nodes, NEW l \in LabelKeys, RemoveStaleLabel(n, l) PROVE LoopSteps
    BY <2>5 DEF RemoveStaleLabel
  <2>6. ASSUME NEW m \in Modules, CreateAndAddModule(m) \/ PatchOrDeleteModule(m)
        PROVE  LoopSteps
    BY <2>6 DEF CreateAndAddModule, CreateStep, AfterCreate, PatchOrDeleteModule, UpdateStep,
       AfterUpdate
  <2>7. CASE AddOnloadLabelsToNodes
    BY <2>7 DEF AddOnloadLabelsToNodes
  <2>8. ASSUME NEW n \in Nodes, AddOnloadLabelToNode(n) PROVE LoopSteps
    BY <2>8 DEF AddOnloadLabelToNode
  <2>9. CASE CreateDevicePluginDaemonSet \/ HandleDevicePluginUpdate
    BY <2>9 DEF CreateDevicePluginDaemonSet, HandleDevicePluginUpdate
  <2>10. CASE HandleUpdate \/ DropOnloadLabel \/ DropKmmLabel
    BY <2>10 DEF HandleUpdate, DropOnloadLabel, DropKmmLabel
  <2>11. CASE CheckDevicePluginPod \/ EvictOnloadedPods \/ DropSfcLabel
    BY <2>11 DEF CheckDevicePluginPod, EvictOnloadedPods, DropSfcLabel
  <2> QED
    BY <1>1, <2>1, <2>2, <2>3, <2>4, <2>5, <2>6, <2>7, <2>8, <2>9, <2>10, <2>11
       DEF ReconcileStep
<1>2. CASE FaultStep \/ InformerStep \/ UserStep
  <2>1. CASE UNCHANGED <<locals, label>>
    BY <2>1 DEF locals
  <2>2. CASE pc' \in {"idle", "down", "delSfc", "delOnl", "delLoop"}
    BY <2>2
  <2>3. CASE ListPodsFails
    BY <2>3 DEF ListPodsFails, Goto
  <2> QED
    BY <1>2, <2>1, <2>2, <2>3 DEF FaultStep, AbortPass, Requeue, EndPass, SkipFailedDelete,
       NextDelete, AfterDelete, Crash, DevicePluginPodLost, InformerStep, Sync, Restart,
       Heartbeat, UserStep, CreateOnload, EditOnload, DeleteOnload, RelabelNode, objects
<1>3. CASE ClusterStep \/ UNCHANGED vars
  <2>1. UNCHANGED <<locals, label>>
    BY <1>3 DEF ClusterStep, CollectModule, CollectDaemonSet, FinishDeletion, LoaderStart,
       LoaderStop, DevicePluginStart, DevicePluginStop, AppStart, AppStop, objects, vars
  <2> QED
    BY <2>1 DEF locals
<1> QED
  BY <1>1, <1>2, <1>3 DEF Next

\* What a pass with a current copy of the resource does to the labels of a node.
Moved(n) ==
  \/ /\ pc = "kmmLoop" /\ pc' \notin LaterSteps
     /\ label[n]["kmm"] = None /\ label[n]["onl"] = None /\ vLabel[n]["kmm"] = None
     /\ label'[n]["kmm"] = Wanted
     /\ label'[n]["sfc"] = label[n]["sfc"] /\ label'[n]["onl"] = label[n]["onl"]
  \/ /\ pc = "kmmLoop" /\ pc' \notin LaterSteps
     /\ cr.sfc
     /\ label[n]["kmm"] = Wanted /\ label[n]["sfc"] = None
     /\ label[n]["onl"] = None \/ mod["sfc"] = None
     /\ label'[n]["sfc"] = Wanted
     /\ label'[n]["kmm"] = label[n]["kmm"] /\ label'[n]["onl"] = label[n]["onl"]
  \/ /\ pc = "onlLoop"
     /\ label[n]["kmm"] = Wanted /\ vLabel[n]["kmm"] = Wanted
     /\ label'[n]["onl"] = Wanted
     /\ label'[n]["kmm"] = label[n]["kmm"] /\ label'[n]["sfc"] = label[n]["sfc"]
  \/ /\ pc = "dropOnl" /\ pc' = "idle" /\ n = cur
     /\ label[n]["kmm"] # Wanted
     /\ label'[n]["onl"] = None
     /\ label'[n]["kmm"] = label[n]["kmm"] /\ label'[n]["sfc"] = label[n]["sfc"]
  \/ /\ pc = "dropSfc" /\ n = cur
     /\ label[n]["kmm"] # Wanted /\ label[n]["onl"] = None
     /\ label'[n]["sfc"] = None
     /\ label'[n]["kmm"] = label[n]["kmm"] /\ label'[n]["onl"] = label[n]["onl"]
  \/ /\ pc = "dropKmm" /\ pc' = "idle" /\ n = cur
     /\ label[n]["kmm"] # Wanted /\ label[n]["onl"] = None /\ label[n]["sfc"] = None
     /\ label'[n]["kmm"] = None
     /\ label'[n]["sfc"] = label[n]["sfc"] /\ label'[n]["onl"] = label[n]["onl"]

LEMMA LabelMoved ==
  ASSUME FixedSelection, VersionInv, [Next]_vars, NEW n \in Nodes
  PROVE  \/ label'[n] = label[n]
         \/ /\ Moved(n)
            /\ InSelection(n)
            /\ req = cr
            /\ cr \in Onloads
            /\ Wanted = cr.ver
            /\ Wanted # None
            /\ UNCHANGED <<cr, mod>>
<1> USE DEF VersionInv, LagInv
<1> SUFFICES ASSUME label'[n] # label[n]
             PROVE  /\ Moved(n)
                    /\ InSelection(n)
                    /\ req = cr
                    /\ cr \in Onloads
                    /\ Wanted = cr.ver
                    /\ Wanted # None
                    /\ UNCHANGED <<cr, mod>>
  OBVIOUS
<1>0. label \in [Nodes -> [LabelKeys -> VersionOrNone]] /\ LabelKeys = {"kmm", "sfc", "onl"}
  BY DEF TypeInv, TypeOK, LabelKeys
<1>1. req = cr /\ req # None
  BY OldCopyIdle
<1>2. cr \in Onloads /\ Wanted = cr.ver /\ Wanted = req.ver /\ Wanted # None
  BY <1>1, NoneAssumption DEF TypeInv, TypeOK, Onloads, Wanted
<1>3. ASSUME NEW k \in Nodes, NEW l \in {"kmm", "sfc"}, AddKmmLabelToNode(k, l)
      PROVE  Moved(n) /\ InSelection(n) /\ UNCHANGED <<cr, mod>>
  <2>1. /\ pc = "kmmLoop" /\ label' = [label EXCEPT ![k][l] = req.ver]
        /\ NextWork(<<k, l>>, k) /\ UNCHANGED <<cr, mod>>
        /\ <<k, l>> \in work /\ (l = "sfc" => <<k, "kmm">> \notin work)
    BY <1>3 DEF AddKmmLabelToNode, IsNext
  <2>2. k = n
    BY <1>0, <2>1
  <2>3. pc' \notin LaterSteps
    BY <2>1 DEF NextWork, Requeue, EndPass, LaterSteps
  <2>4. InSelection(n)
    BY <1>0, <2>1, <2>2 DEF KmmLoopLag
  <2>5. CASE l = "kmm"
    <3>1. /\ label[n]["onl"] = None /\ label[n]["kmm"] \in {None, req.ver}
          /\ vLabel[n]["kmm"] \in {None, label[n]["kmm"]}
      BY <1>0, <2>1, <2>2, <2>5 DEF KmmLoopLag
    <3>2. /\ label'[n]["kmm"] = req.ver /\ label'[n]["sfc"] = label[n]["sfc"]
          /\ label'[n]["onl"] = label[n]["onl"]
      BY <1>0, <2>1, <2>2, <2>5
    <3>3. label[n]["kmm"] # req.ver
      BY <1>0, <2>1, <2>2, <2>5
    <3> QED
      BY <1>2, <2>1, <2>3, <2>4, <3>1, <3>2, <3>3 DEF Moved
  <2>6. CASE l = "sfc"
    <3>1. /\ req.sfc /\ label[n]["kmm"] = req.ver
          /\ label[n]["onl"] = None \/ mod["sfc"] = None
      BY <1>0, <2>1, <2>2, <2>6 DEF KmmLoopLag
    <3>2. /\ label'[n]["sfc"] = req.ver /\ label'[n]["kmm"] = label[n]["kmm"]
          /\ label'[n]["onl"] = label[n]["onl"]
      BY <1>0, <2>1, <2>2, <2>6
    <3>3. label[n]["sfc"] # req.ver
      BY <1>0, <2>1, <2>2, <2>6
    <3>4. label[n]["sfc"] = None
      BY <3>1, <3>3 DEF LabelsAgree
    <3> QED
      BY <1>1, <1>2, <2>1, <2>3, <2>4, <3>1, <3>2, <3>4 DEF Moved
  <2> QED
    BY <2>5, <2>6
<1>4. ASSUME NEW k \in Nodes, AddOnloadLabelToNode(k)
      PROVE  Moved(n) /\ InSelection(n) /\ UNCHANGED <<cr, mod>>
  <2>1. /\ pc = "onlLoop" /\ label' = [label EXCEPT ![k]["onl"] = req.ver]
        /\ UNCHANGED <<cr, mod>> /\ <<k, "onl">> \in work
    BY <1>4 DEF AddOnloadLabelToNode
  <2>2. k = n
    BY <1>0, <2>1
  <2>3. InSelection(n) /\ label[n]["kmm"] = req.ver /\ vLabel[n]["kmm"] = req.ver
    BY <1>0, <2>1, <2>2 DEF OnloadLoopLag
  <2>4. /\ label'[n]["onl"] = req.ver /\ label'[n]["kmm"] = label[n]["kmm"]
        /\ label'[n]["sfc"] = label[n]["sfc"]
    BY <1>0, <2>1, <2>2
  <2> QED
    BY <1>2, <2>1, <2>3, <2>4 DEF Moved
<1>5. ASSUME DropOnloadLabel \/ DropSfcLabel \/ DropKmmLabel
      PROVE  Moved(n) /\ InSelection(n) /\ UNCHANGED <<cr, mod>>
  <2>1. /\ pc \in {"dropOnl", "dropSfc", "dropKmm"} /\ UNCHANGED <<cr, mod>>
        /\ pc # "dropSfc" => pc' = "idle"
        /\ label' = [label EXCEPT ![cur][IF pc = "dropOnl" THEN "onl"
                                         ELSE IF pc = "dropSfc" THEN "sfc" ELSE "kmm"] = None]
    BY <1>0, <1>5 DEF DropOnloadLabel, DropSfcLabel, DropKmmLabel, Requeue, EndPass
  <2>2. cur = n
    BY <1>0, <2>1
  <2>3. InSelection(n) /\ label[n]["kmm"] # Wanted
    BY <2>1, <2>2 DEF NodeUpgradeLag, UpgradeSteps
  <2>4. /\ pc # "dropOnl" => label[n]["onl"] = None
        /\ pc = "dropKmm" => label[n]["sfc"] = None
    BY <2>1, <2>2 DEF NodeUpgradeLag, DrainedSteps
  <2>5. CASE pc = "dropOnl"
    BY <1>0, <2>1, <2>2, <2>3, <2>5 DEF Moved
  <2>6. CASE pc = "dropSfc"
    BY <1>0, <2>1, <2>2, <2>3, <2>4, <2>6 DEF Moved
  <2>7. CASE pc = "dropKmm"
    BY <1>0, <2>1, <2>2, <2>3, <2>4, <2>7 DEF Moved
  <2> QED
    BY <2>1, <2>3, <2>5, <2>6, <2>7
<1> QED
  BY <1>1, <1>2, <1>3, <1>4, <1>5, LabelChanges DEF LabelsOnSelected

-----------------------------------------------------------------------------
(***************************************************************************)
(* What a node list says.                                                  *)
(***************************************************************************)

\* The nodes that a pass selects are the selected ones.
LEMMA PassSelects ==
  ASSUME FixedSelection, VersionInv, req # None
  PROVE  /\ req \in Onloads
         /\ req.ver # None
         /\ cr # None
         /\ \A n \in Nodes : Selected(n) <=> InSelection(n)
<1>1. req \in Onloads /\ vZone = zone
  BY DEF VersionInv, TypeInv, TypeOK, LagInv, LabelsOnSelected
<1>2. cr # None
  BY DEF VersionInv, ResourceStays, vCr
<1> QED
  BY <1>1, <1>2, NoneAssumption DEF Onloads, Selected, InSelection, FixedSelection

\* addKmmLabelsToNodes finds nothing to do: the SFC labels are as seen.
LEMMA KmmWorkDone ==
  ASSUME FixedSelection, VersionInv, req # None, KmmWork = {},
         NEW n \in Nodes, InSelection(n)
  PROVE  /\ vLabel[n]["kmm"] # None
         /\ vLabel[n]["sfc"] = None => label[n]["sfc"] = None
         /\ req.sfc /\ label[n]["kmm"] = req.ver => label[n]["sfc"] # None
<1> USE DEF VersionInv, RolloutInv, LagInv
<1>1. Selected(n) /\ req.ver # None /\ cr # None
  BY PassSelects
<1>2. vLabel[n]["kmm"] # None
  BY <1>1 DEF KmmWork
<1>3. req.sfc /\ vLabel[n]["kmm"] = req.ver => vLabel[n]["sfc"] # None
  BY <1>1 DEF KmmWork
<1>4. label[n]["kmm"] # None => label[n]["kmm"] = vLabel[n]["kmm"]
  BY <1>2 DEF KmmLag
<1>5. req = cr => Wanted = req.ver
  BY <1>1 DEF Wanted
<1>6. ASSUME req # cr
      PROVE  /\ label[n]["kmm"] = req.ver
             /\ label[n]["sfc"] = IF req.sfc THEN req.ver ELSE None
  BY <1>6 DEF StaleIsSettled, Settled
<1>7. ASSUME vLabel[n]["sfc"] = None PROVE label[n]["sfc"] = None
  <2>1. CASE req = cr
    BY <1>1, <1>3, <1>4, <1>5, <1>7, <2>1 DEF SfcLag
  <2>2. CASE req # cr
    BY <1>1, <1>3, <1>4, <1>6, <1>7, <2>2
  <2> QED
    BY <2>1, <2>2
<1>8. ASSUME req.sfc, label[n]["kmm"] = req.ver PROVE label[n]["sfc"] # None
  <2>1. CASE req = cr
    BY <1>1, <1>3, <1>4, <1>5, <1>8, <2>1 DEF SfcLag
  <2>2. CASE req # cr
    BY <1>1, <1>6, <1>8, <2>2
  <2> QED
    BY <2>1, <2>2
<1> QED
  BY <1>2, <1>7, <1>8

\* addKmmLabelsToNodes finds a label to be added: the copy of the resource is
\* current, and no other version is on the node.
LEMMA KmmWorkCurrent ==
  ASSUME FixedSelection, VersionInv, req # None, NEW n \in Nodes, NEW l \in LabelKeys,
         <<n, l>> \in KmmWork
  PROVE  /\ InSelection(n)
         /\ req = cr
         /\ l = "kmm" =>
              /\ label[n]["onl"] = None
              /\ label[n]["kmm"] \in {None, req.ver}
              /\ vLabel[n]["kmm"] = None
         /\ l = "sfc" =>
              /\ req.sfc
              /\ label[n]["onl"] = None \/ mod["sfc"] = None
              /\ <<n, "kmm">> \in KmmWork \/ label[n]["kmm"] = req.ver
         /\ l # "onl"
<1> USE DEF VersionInv, RolloutInv, LagInv
<1>1. InSelection(n) /\ Selected(n) /\ req.ver # None /\ cr # None
  BY PassSelects DEF KmmWork
<1>2. l # "onl" /\ (l = "kmm" => vLabel[n]["kmm"] = None)
  BY DEF KmmWork
<1>3. l = "sfc" =>
        /\ req.sfc /\ vLabel[n]["sfc"] = None
        /\ vLabel[n]["kmm"] = None \/ vLabel[n]["kmm"] = req.ver
  BY DEF KmmWork
<1>4. vLabel[n]["kmm"] = None => label[n]["onl"] = None /\ label[n]["kmm"] \in {None, Wanted}
  BY <1>1 DEF KmmLag
<1>5. req = cr
  <2> SUFFICES ASSUME req # cr PROVE FALSE
    OBVIOUS
  <2>1. /\ label[n]["sfc"] = IF req.sfc THEN req.ver ELSE None
        /\ label[n]["onl"] = req.ver
        /\ mod["sfc"] # None <=> req.sfc
    BY <1>1 DEF StaleIsSettled, Settled
  <2>2. l = "sfc" => label[n]["onl"] = None \/ mod["sfc"] = None
    BY <1>1, <1>3, <2>1 DEF SfcLag
  <2> QED
    BY <1>1, <1>2, <1>3, <1>4, <2>1, <2>2 DEF LabelKeys
<1>6. Wanted = req.ver
  BY <1>1, <1>5 DEF Wanted
<1>7. ASSUME l = "sfc", vLabel[n]["kmm"] = req.ver
      PROVE  label[n]["kmm"] = req.ver /\ (label[n]["onl"] = None \/ mod["sfc"] = None)
  <2>1. label[n]["kmm"] = req.ver
    BY <1>1, <1>6, <1>7 DEF KmmLag
  <2> QED
    BY <1>1, <1>3, <1>5, <1>6, <1>7, <2>1 DEF SfcLag, SfcModuleLast
<1>8. vLabel[n]["kmm"] = None => <<n, "kmm">> \in KmmWork
  BY <1>1 DEF KmmWork
<1> QED
  BY <1>1, <1>2, <1>3, <1>4, <1>5, <1>6, <1>7, <1>8

\* addOnloadLabelsToNodes finds a label to be added: the KMM label is there.
LEMMA OnloadWorkCurrent ==
  ASSUME FixedSelection, VersionInv, req # None, NEW n \in Nodes, NEW l \in LabelKeys,
         <<n, l>> \in OnloadWork
  PROVE  /\ l = "onl"
         /\ InSelection(n)
         /\ label[n]["kmm"] = req.ver
         /\ vLabel[n]["kmm"] = req.ver
<1> USE DEF VersionInv, RolloutInv, LagInv
<1>1. /\ l = "onl" /\ InSelection(n) /\ Value(vLabel[n]["kmm"]) = req.ver
      /\ req.ver \in Versions /\ cr # None
  BY PassSelects DEF OnloadWork, Onloads
<1>2. vLabel[n]["kmm"] = req.ver /\ req.ver # None
  BY <1>1, NoneAssumption DEF Value, FixedSelection
<1>3. CASE req = cr
  BY <1>1, <1>2, <1>3 DEF KmmLag, Wanted
<1>4. CASE req # cr
  BY <1>1, <1>2, <1>4 DEF StaleIsSettled, Settled
<1> QED
  BY <1>1, <1>2, <1>3, <1>4

\* handleUpdate finds a node to be upgraded: the copy of the resource is current,
\* and the nodes before it have their new version.
LEMMA UpgradeCurrent ==
  ASSUME FixedSelection, VersionInv, HandleUpdate, pc' \in UpgradeSteps
  PROVE  /\ req' = req
         /\ req = cr
         /\ cur' \in Nodes
         /\ pc' \in {"checkDp", "dropOnl"}
         /\ work' = DropWork(cur')
         /\ InSelection(cur')
         /\ label[cur']["kmm"] # Wanted
         /\ \A j \in Nodes : j < cur' => vLabel[j]["kmm"] \in {None, Wanted}
         /\ label[cur']["sfc"] # None => <<cur', "sfc">> \in DropWork(cur')
         /\ UNCHANGED <<cr, label, zone, cache>>
<1> USE DEF VersionInv, RolloutInv, LagInv
<1>1. PICK n \in GetNodesToUpgrade :
        /\ \A k \in GetNodesToUpgrade : n <= k
        /\ cur' = n
        /\ work' = DropWork(n)
        /\ pc' = IF vLabel[n]["onl"] \in {None, req.ver} THEN "checkDp" ELSE "dropOnl"
        /\ UNCHANGED req
  BY DEF HandleUpdate, Done, EndPass, UpgradeSteps
<1>2. /\ pc = "pick" /\ req # None /\ n \in Nodes /\ vLabel[n]["kmm"] \notin {None, req.ver}
      /\ UNCHANGED <<cr, label, zone, cache>>
  BY DEF HandleUpdate, GetNodesToUpgrade, TypeInv, PassTyped, Steps, objects
<1>3. InSelection(n) /\ req.ver # None /\ cr # None
  BY <1>2, PassSelects DEF LabelsOnSelected, LabelKeys
<1>4. req = cr
  <2>1. req # cr => label[n]["kmm"] = req.ver
    BY <1>2, <1>3 DEF StaleIsSettled, Settled
  <2> QED
    BY <1>2, <1>3, <2>1 DEF KmmLag
<1>5. Wanted = req.ver
  BY <1>3, <1>4 DEF Wanted
<1>6. label[n]["kmm"] # Wanted
  BY <1>2, <1>3, <1>5 DEF KmmLag
<1>7. ASSUME NEW j \in Nodes, j < n PROVE vLabel[j]["kmm"] \in {None, Wanted}
  <2>1. j \in Nat /\ n \in Nat
    BY <1>2, NodesAssumption
  <2>2. ~(n <= j)
    BY <1>7, <2>1
  <2> QED
    BY <1>1, <1>5, <2>2 DEF GetNodesToUpgrade
<1>8. vLabel[n]["sfc"] = None => label[n]["sfc"] = None
  BY <1>2, <1>3 DEF SfcLag, LaterSteps
<1>9. vLabel[n]["sfc"] # None => <<n, "sfc">> \in DropWork(n)
  BY DEF DropWork
<1> QED
  BY <1>1, <1>2, <1>3, <1>4, <1>6, <1>7, <1>8, <1>9

-----------------------------------------------------------------------------
(***************************************************************************)
(* The labels on the nodes.                                                *)
(***************************************************************************)
DeleteSteps == {"delKmm", "delSfc", "delOnl"}

\* The steps for nodes outside the selection, and for a resource that is gone.
OutsideSteps ==
  /\ pc' = "staleLoop" =>
       /\ pc \in {"staleKmm", "staleSfc", "staleOnl"}
       /\ \E n \in Nodes, l \in LabelKeys : vLabel[n][l] # None /\ ~Selected(n)
  /\ pc' = "delLoop" =>
       /\ pc \in DeleteSteps
       /\ \E n \in Nodes, l \in LabelKeys : vLabel[n][l] # None
  /\ pc' \in DeleteSteps => UNCHANGED label /\ (pc \in DeleteSteps \/ vCr = None)

LEMMA OutsideChanges ==
  ASSUME [Next]_vars, pc \notin {"staleLoop", "delLoop"}
  PROVE  OutsideSteps
<1> USE DEF OutsideSteps, DeleteSteps
<1>1. CASE ReconcileStep
  <2> USE DEF Goto, Requeue, Done, EndPass, WorkOrElse, NextWork
  <2>1. CASE Reconcile
    BY <2>1 DEF Reconcile, locals, objects
  <2>2. ASSUME NEW l \in LabelKeys, DeleteLabels(l) PROVE OutsideSteps
    <3>1. pc \in DeleteSteps /\ UNCHANGED label /\ pc' \in {"delLoop", AfterDelete(l)}
      BY <2>2 DEF DeleteLabels, DeleteStep, objects
    <3>2. AfterDelete(l) \in {"delSfc", "delOnl", "idle"}
      BY DEF AfterDelete
    <3>3. pc' = "delLoop" => \E n \in Nodes : vLabel[n][l] # None
      BY <2>2, <3>2 DEF DeleteLabels
    <3> QED
      BY <3>1, <3>2, <3>3
  <2>3. ASSUME NEW l \in LabelKeys, RemoveStaleLabels(l) PROVE OutsideSteps
    <3>1. pc \in {"staleKmm", "staleSfc", "staleOnl"} /\ pc' \in {"staleLoop", AfterStale(l)}
      BY <2>3 DEF RemoveStaleLabels, StaleStep
    <3>2. AfterStale(l) \in {"staleSfc", "createOnload", "createDs"}
      BY DEF AfterStale
    <3>3. pc' = "staleLoop" => \E n \in Nodes : vLabel[n][l] # None /\ ~Selected(n)
      BY <2>3, <3>2 DEF RemoveStaleLabels
    <3> QED
      BY <3>1, <3>2, <3>3
  <2>4. ASSUME NEW n \in Nodes, NEW l \in LabelKeys
        PROVE  ~DeleteLabelFromNode(n, l) /\ ~RemoveStaleLabel(n, l)
    BY DEF DeleteLabelFromNode, RemoveStaleLabel
  <2>5. CASE \/ AddKmmLabelsToNodes
             \/ \E n \in Nodes, l \in {"kmm", "sfc"} : AddKmmLabelToNode(n, l)
             \/ AddOnloadLabelsToNodes
             \/ \E n \in Nodes : AddOnloadLabelToNode(n)
    BY <2>5 DEF AddKmmLabelsToNodes, AddKmmLabelToNode, AddOnloadLabelsToNodes,
       AddOnloadLabelToNode
  <2>6. CASE \/ \E m \in Modules : CreateAndAddModule(m) \/ PatchOrDeleteModule(m)
             \/ CreateDevicePluginDaemonSet
             \/ HandleDevicePluginUpdate
    BY <2>6 DEF CreateAndAddModule, AfterCreate, PatchOrDeleteModule, AfterUpdate,
       CreateDevicePluginDaemonSet, HandleDevicePluginUpdate
  <2>7. CASE HandleUpdate \/ DropOnloadLabel \/ CheckDevicePluginPod \/ EvictOnloadedPods
             \/ DropSfcLabel \/ DropKmmLabel
    BY <2>7 DEF HandleUpdate, DropOnloadLabel, CheckDevicePluginPod, EvictOnloadedPods,
       DropSfcLabel, DropKmmLabel
  <2> QED
    BY <1>1, <2>1, <2>2, <2>3, <2>4, <2>5, <2>6, <2>7 DEF ReconcileStep
<1>2. CASE FaultStep \/ InformerStep \/ UserStep
  <2>1. \/ UNCHANGED <<locals, label>>
        \/ pc' \in {"idle", "down", "dropSfc"}
    BY <1>2 DEF FaultStep, AbortPass, Requeue, EndPass, SkipFailedDelete, ListPodsFails, Goto,
       Crash, DevicePluginPodLost, InformerStep, Sync, Restart, Heartbeat, UserStep,
       CreateOnload, EditOnload, DeleteOnload, RelabelNode, objects
  <2> QED
    BY <2>1 DEF locals
<1>3. CASE ClusterStep \/ UNCHANGED vars
  <2>1. UNCHANGED <<locals, label>>
    BY <1>3 DEF ClusterStep, CollectModule, CollectDaemonSet, FinishDeletion, LoaderStart,
       LoaderStop, DevicePluginStart, DevicePluginStop, AppStart, AppStop, objects, vars
  <2> QED
    BY <2>1 DEF locals
<1> QED
  BY <1>1, <1>2, <1>3 DEF Next

LEMMA OnSelectedStep ==
  ASSUME FixedSelection, VersionInv, [Next]_vars
  PROVE  LabelsOnSelected'
<1> USE DEF VersionInv, LagInv
<1>1. zone' = zone /\ vZone' = zone' /\ vLabel' \in {vLabel, label'}
  BY NodeViewFollows
<1>2. ASSUME NEW n \in Nodes, NEW l \in LabelKeys, label'[n][l] # None \/ vLabel'[n][l] # None
      PROVE  zone'[n] \in Selectors
  BY <1>1, <1>2, LabelMoved DEF LabelsOnSelected, InSelection
<1>3. ASSUME NoLabelSeen, UNCHANGED label PROVE NoLabelSeen'
  BY <1>1, <1>3 DEF NoLabelSeen
<1>4. ASSUME vCr' = None PROVE NoLabelSeen'
  <2>1. vCr = None
    BY <1>4, ResourceKept, ViewsFollow DEF ResourceStays, vCr
  <2>2. UNCHANGED label
    BY <2>1, OldCopyIdle DEF ResourceStays
  <2> QED
    BY <1>3, <2>1, <2>2 DEF LabelsOnSelected
<1>5. OutsideSteps
  BY OutsideChanges DEF LabelsOnSelected
<1>6. ASSUME pc' \in DeleteSteps PROVE NoLabelSeen'
  BY <1>3, <1>5, <1>6 DEF OutsideSteps, DeleteSteps, LabelsOnSelected
<1>7. pc' # "staleLoop"
  BY <1>5, PassSelects DEF OutsideSteps, LabelsOnSelected, TypeInv, PassTyped, Steps
<1>8. pc' # "delLoop"
  BY <1>5 DEF OutsideSteps, DeleteSteps, LabelsOnSelected, NoLabelSeen
<1> QED
  BY <1>1, <1>2, <1>4, <1>6, <1>7, <1>8 DEF LabelsOnSelected, InSelection, DeleteSteps

\* The labels of a node agree, and so do those that are seen.
LEMMA AgreeStep ==
  ASSUME FixedSelection, VersionInv, [Next]_vars
  PROVE  LabelsAgree' /\ CachedLabelsAgree'
<1>1. ASSUME NEW n \in Nodes, NEW l \in {"sfc", "onl"}
      PROVE  label'[n][l] \in {None, label'[n]["kmm"]}
  <2>1. label[n]["sfc"] \in {None, label[n]["kmm"]} /\ label[n]["onl"] \in {None, label[n]["kmm"]}
    BY DEF VersionInv, LagInv, LabelsAgree
  <2>2. CASE label'[n] = label[n]
    BY <2>1, <2>2
  <2>3. CASE Moved(n)
    BY <2>1, <2>3 DEF Moved
  <2> QED
    BY <2>2, <2>3, LabelMoved
<1> QED
  BY <1>1, NodeViewFollows DEF VersionInv, LagInv, LabelsAgree, CachedLabelsAgree

-----------------------------------------------------------------------------
(***************************************************************************)
(* A step that leaves the resource as it is.                               *)
(***************************************************************************)
LEMMA KmmLagStep ==
  ASSUME FixedSelection, VersionInv, [Next]_vars, UNCHANGED cr, LabelsAgree'
  PROVE  KmmLag'
<1> SUFFICES ASSUME NEW n \in Nodes, InSelection(n)
             PROVE  IF vLabel'[n]["kmm"] = None
                    THEN label'[n]["onl"] = None /\ label'[n]["kmm"] \in {None, Wanted}
                    ELSE \/ label'[n]["kmm"] = vLabel'[n]["kmm"]
                         \/ label'[n]["kmm"] = None /\ vLabel'[n]["kmm"] # Wanted
  BY NodeViewFollows DEF KmmLag, InSelection, Wanted
<1>1. IF vLabel[n]["kmm"] = None
      THEN label[n]["onl"] = None /\ label[n]["kmm"] \in {None, Wanted}
      ELSE \/ label[n]["kmm"] = vLabel[n]["kmm"]
           \/ label[n]["kmm"] = None /\ vLabel[n]["kmm"] # Wanted
  BY DEF VersionInv, LagInv, KmmLag
<1>2. CASE vLabel' = label'
  BY <1>2 DEF LabelsAgree
<1>3. CASE vLabel' = vLabel
  <2>1. CASE label'[n] = label[n]
    BY <1>1, <1>3, <2>1
  <2>2. CASE Moved(n) /\ Wanted # None
    BY <1>1, <1>3, <2>2 DEF Moved
  <2> QED
    BY <2>1, <2>2, LabelMoved
<1> QED
  BY <1>2, <1>3, NodeViewFollows

LEMMA SfcLagStep ==
  ASSUME FixedSelection, VersionInv, [Next]_vars, UNCHANGED cr
  PROVE  SfcLag'
<1> USE DEF VersionInv, LagInv
<1> SUFFICES ASSUME NEW n \in Nodes, InSelection(n)
             PROVE  IF vLabel'[n]["sfc"] = None
                    THEN label'[n]["sfc"] # None =>
                           /\ cr.sfc
                           /\ label'[n]["kmm"] = Wanted
                           /\ label'[n]["onl"] = None \/ mod'["sfc"] = None
                           /\ pc' \notin LaterSteps
                    ELSE \/ label'[n]["sfc"] = vLabel'[n]["sfc"]
                         \/ label'[n]["sfc"] = None /\ vLabel'[n]["kmm"] # Wanted
  BY NodeViewFollows DEF SfcLag, InSelection, Wanted
<1>1. CASE vLabel' = label'
  BY <1>1
<1>2. CASE vLabel' = vLabel /\ vLabel[n]["sfc"] = None
  <2> SUFFICES ASSUME label'[n]["sfc"] # None
               PROVE  /\ cr.sfc
                      /\ label'[n]["kmm"] = Wanted
                      /\ label'[n]["onl"] = None \/ mod'["sfc"] = None
                      /\ pc' \notin LaterSteps
    BY <1>2
  <2>1. label[n]["sfc"] # None =>
          /\ cr.sfc
          /\ label[n]["kmm"] = Wanted
          /\ label[n]["onl"] = None \/ mod["sfc"] = None
          /\ pc \notin LaterSteps
    BY <1>2 DEF SfcLag
  <2>2. CASE label'[n] = label[n]
    <3>1. mod["sfc"] = None => mod'["sfc"] = None
      BY <2>1, <2>2, SfcModuleWritten DEF LaterSteps
    <3>2. ASSUME pc' \in LaterSteps PROVE FALSE
      <4>1. AddKmmLabelsToNodes /\ KmmWork = {}
        BY <2>1, <2>2, <3>2, PassChanges DEF LoopSteps
      <4>2. req # None
        BY <4>1 DEF AddKmmLabelsToNodes, TypeInv, PassTyped, Steps
      <4> QED
        BY <1>2, <2>2, <4>1, <4>2, KmmWorkDone
    <3> QED
      BY <2>1, <2>2, <3>1, <3>2
  <2>3. CASE Moved(n) /\ Wanted # None /\ mod' = mod
    BY <2>1, <2>3 DEF Moved, LaterSteps
  <2> QED
    BY <2>2, <2>3, LabelMoved
<1>3. CASE vLabel' = vLabel /\ vLabel[n]["sfc"] # None
  <2>1. \/ label[n]["sfc"] = vLabel[n]["sfc"]
        \/ label[n]["sfc"] = None /\ vLabel[n]["kmm"] # Wanted
    BY <1>3 DEF SfcLag
  <2>2. /\ vLabel[n]["kmm"] # None
        /\ \/ label[n]["kmm"] = vLabel[n]["kmm"]
           \/ label[n]["kmm"] = None /\ vLabel[n]["kmm"] # Wanted
    BY <1>3 DEF CachedLabelsAgree, KmmLag
  <2>3. CASE label'[n] = label[n]
    BY <1>3, <2>1, <2>3
  <2>4. CASE Moved(n) /\ Wanted # None
    BY <1>3, <2>1, <2>2, <2>4 DEF Moved
  <2> QED
    BY <2>3, <2>4, LabelMoved
<1> QED
  BY <1>1, <1>2, <1>3, NodeViewFollows

LEMMA SfcModuleLastStep ==
  ASSUME FixedSelection, VersionInv, [Next]_vars, UNCHANGED cr
  PROVE  SfcModuleLast'
<1> USE DEF VersionInv, RolloutInv, LagInv
<1> SUFFICES ASSUME NEW n \in Nodes, InSelection(n), cr # None, cr.sfc,
                    label'[n]["onl"] # None, label'[n]["kmm"] = Wanted, label'[n]["sfc"] = None
             PROVE  mod'["sfc"] = None
  BY NodeViewFollows DEF SfcModuleLast, InSelection, Wanted
<1>1. CASE label'[n] = label[n]
  <2>1. mod["sfc"] = None
    BY <1>1 DEF SfcModuleLast
  <2>2. ASSUME pc = "createSfc", req # None, req.sfc PROVE FALSE
    <3>1. req = cr
      BY <2>1, <2>2 DEF StaleIsSettled, Settled
    <3> QED
      BY <1>1, <2>2, <3>1 DEF OneNodeOut, LaterSteps, Wanted
  <2> QED
    BY <2>1, <2>2, SfcModuleWritten
<1>2. CASE Moved(n) /\ req = cr /\ Wanted = cr.ver /\ Wanted # None /\ mod' = mod
  <2>1. pc \in LaterSteps /\ label[n]["kmm"] = req.ver => label[n]["sfc"] # None
    BY <1>2 DEF OneNodeOut
  <2> QED
    BY <1>2, <2>1 DEF Moved, LaterSteps
<1> QED
  BY <1>1, <1>2, LabelMoved

LEMMA InOrderStep ==
  ASSUME FixedSelection, VersionInv, [Next]_vars, UNCHANGED cr
  PROVE  InOrder'
<1> USE DEF VersionInv, LagInv
<1> SUFFICES ASSUME NEW j \in Nodes, NEW k \in Nodes, InSelection(j), InSelection(k), j < k,
                    label'[k]["onl"] = None, label'[k]["kmm"] # Wanted
             PROVE  vLabel'[j]["kmm"] \in {None, Wanted}
  BY NodeViewFollows DEF InOrder, InSelection, IsOut, Wanted
<1>1. vLabel[j]["kmm"] \in {None, Wanted}
  <2>1. CASE IsOut(k)
    BY <2>1 DEF InOrder
  <2>2. CASE Moved(k) /\ ~IsOut(k)
    <3>1. pc = "dropOnl" /\ k = cur
      BY <2>2 DEF Moved, IsOut
    <3> QED
      BY <3>1 DEF NodeUpgradeLag, UpgradeSteps
  <2> QED
    BY <2>1, <2>2, LabelMoved DEF IsOut
<1>2. label[j]["kmm"] \in {None, Wanted}
  BY <1>1 DEF KmmLag
<1>3. label'[j]["kmm"] \in {None, Wanted}
  BY <1>2, LabelMoved DEF Moved
<1> QED
  BY <1>1, <1>3, NodeViewFollows

LEMMA OneNodeOutStep ==
  ASSUME FixedSelection, VersionInv, [Next]_vars, UNCHANGED cr
  PROVE  OneNodeOut'
<1> USE DEF VersionInv, LagInv
<1> SUFFICES ASSUME pc' \in LaterSteps, NEW k \in Nodes, InSelection(k)
             PROVE  /\ label'[k]["kmm"] = None =>
                         \A j \in Nodes \ {k} :
                           InSelection(j) => label'[j]["onl"] # None \/ label'[j]["kmm"] = Wanted
                    /\ req.sfc /\ label'[k]["kmm"] = req.ver => label'[k]["sfc"] # None
  BY NodeViewFollows, PassChanges DEF OneNodeOut, InSelection, IsOut, Wanted, LoopSteps
<1>1. CASE AddKmmLabelsToNodes /\ KmmWork = {}
  <2>1. req # None /\ label' = label
    BY <1>1 DEF AddKmmLabelsToNodes, TypeInv, PassTyped, Steps, objects
  <2>2. Wanted # None
    BY <2>1, PassSelects, NoneAssumption DEF Wanted, Onloads, TypeInv, TypeOK
  <2>3. ASSUME label[k]["kmm"] = None, NEW j \in Nodes \ {k}, InSelection(j), IsOut(j)
        PROVE  FALSE
    <3>1. IsOut(k)
      BY <2>2, <2>3 DEF IsOut, LabelsAgree
    <3>2. vLabel[k]["kmm"] \notin {None, Wanted} /\ vLabel[j]["kmm"] \notin {None, Wanted}
      BY <1>1, <2>1, <2>3, <3>1, KmmWorkDone DEF KmmLag, IsOut
    <3>3. ~(j < k) /\ ~(k < j)
      BY <2>3, <3>1, <3>2 DEF InOrder
    <3>4. j \in Nat /\ k \in Nat
      BY NodesAssumption
    <3> QED
      BY <3>3, <3>4
  <2>4. req.sfc /\ label[k]["kmm"] = req.ver => label[k]["sfc"] # None
    BY <1>1, <2>1, KmmWorkDone
  <2> QED
    BY <2>1, <2>3, <2>4 DEF IsOut
<1>2. CASE pc \in LaterSteps
  <2>1. ASSUME NEW n \in Nodes
        PROVE  /\ label'[n]["kmm"] = label[n]["kmm"]
               /\ label[n]["onl"] # None \/ label[n]["kmm"] = Wanted =>
                    label'[n]["onl"] # None \/ label'[n]["kmm"] = Wanted
               /\ label'[n]["sfc"] = label[n]["sfc"] \/ (req = cr /\ label[n]["kmm"] # Wanted)
    BY <1>2, LabelMoved DEF Moved, LaterSteps
  <2>2. req # None
    BY <1>2 DEF LaterSteps, TypeInv, PassTyped, Steps
  <2>3. req = cr => req.ver = Wanted
    BY <2>2 DEF Wanted
  <2> QED
    BY <1>2, <2>1, <2>3 DEF OneNodeOut, IsOut
<1> QED
  BY <1>1, <1>2, PassChanges DEF LoopSteps

LEMMA KmmLoopLagStep ==
  ASSUME FixedSelection, VersionInv, [Next]_vars, UNCHANGED cr
  PROVE  KmmLoopLag'
<1> USE DEF VersionInv, LagInv
<1> SUFFICES ASSUME pc' = "kmmLoop", NEW n \in Nodes, NEW l \in LabelKeys, <<n, l>> \in work'
             PROVE  /\ InSelection(n)
                    /\ req = cr
                    /\ l = "kmm" =>
                         /\ label'[n]["onl"] = None
                         /\ label'[n]["kmm"] \in {None, req.ver}
                         /\ vLabel[n]["kmm"] \in {None, label'[n]["kmm"]}
                    /\ l = "sfc" =>
                         /\ req.sfc
                         /\ label'[n]["onl"] = None \/ mod'["sfc"] = None
                         /\ <<n, "kmm">> \in work' \/ label'[n]["kmm"] = req.ver
                    /\ l # "onl"
  BY NodeViewFollows, PassChanges DEF KmmLoopLag, InSelection, LoopSteps
<1>1. CASE AddKmmLabelsToNodes /\ work' = KmmWork
  <2>1. req # None /\ UNCHANGED <<label, mod>>
    BY <1>1 DEF AddKmmLabelsToNodes, TypeInv, PassTyped, Steps, objects
  <2> QED
    BY <1>1, <2>1, KmmWorkCurrent
<1>2. ASSUME pc = "kmmLoop", <<n, l>> \in work
      PROVE  /\ InSelection(n)
             /\ req = cr
             /\ l = "kmm" =>
                  /\ label[n]["onl"] = None
                  /\ label[n]["kmm"] \in {None, req.ver}
                  /\ vLabel[n]["kmm"] \in {None, label[n]["kmm"]}
             /\ l = "sfc" =>
                  /\ req.sfc
                  /\ label[n]["onl"] = None \/ mod'["sfc"] = None
                  /\ <<n, "kmm">> \in work \/ label[n]["kmm"] = req.ver
             /\ l # "onl"
  BY <1>2, SfcModuleWritten DEF KmmLoopLag
<1>3. CASE pc = "kmmLoop" /\ UNCHANGED <<work, label>>
  BY <1>2, <1>3
<1>4. ASSUME NEW k \in Nodes, NEW h \in {"kmm", "sfc"},
             AddKmmLabelToNode(k, h), work' = work \ {<<k, h>>}
      PROVE  /\ label'[n]["onl"] = label[n]["onl"]
             /\ label'[n]["kmm"] \in {label[n]["kmm"], req.ver}
             /\ <<k, h>> # <<n, "kmm">> => label'[n]["kmm"] = label[n]["kmm"]
             /\ <<k, h>> = <<n, "kmm">> => label'[n]["kmm"] = req.ver
             /\ pc = "kmmLoop" /\ <<n, l>> \in work
  <2>1. label \in [Nodes -> [LabelKeys -> VersionOrNone]]
    BY DEF TypeInv, TypeOK
  <2>2. pc = "kmmLoop" /\ label' = [label EXCEPT ![k][h] = req.ver]
    BY <1>4 DEF AddKmmLabelToNode, Requeue, EndPass
  <2> QED
    BY <1>4, <2>1, <2>2 DEF LabelKeys
<1>5. CASE \E k \in Nodes, h \in {"kmm", "sfc"} :
             AddKmmLabelToNode(k, h) /\ work' = work \ {<<k, h>>}
  <2>1. PICK k \in Nodes, h \in {"kmm", "sfc"} :
          AddKmmLabelToNode(k, h) /\ work' = work \ {<<k, h>>}
    BY <1>5
  <2>2. <<n, l>> # <<k, h>>
    BY <2>1
  <2>3. CASE l = "kmm"
    BY <1>2, <1>4, <2>1, <2>2, <2>3
  <2>4. CASE l = "sfc"
    BY <1>2, <1>4, <2>1, <2>4
  <2> QED
    BY <1>2, <1>4, <2>1, <2>3, <2>4 DEF LabelKeys
<1> QED
  BY <1>1, <1>3, <1>5, PassChanges DEF LoopSteps

LEMMA OnloadLoopLagStep ==
  ASSUME FixedSelection, VersionInv, [Next]_vars
  PROVE  OnloadLoopLag'
<1> USE DEF VersionInv, LagInv
<1> SUFFICES ASSUME pc' = "onlLoop", NEW n \in Nodes, NEW l \in LabelKeys, <<n, l>> \in work'
             PROVE  /\ l = "onl"
                    /\ InSelection(n)
                    /\ label'[n]["kmm"] = req.ver
                    /\ vLabel[n]["kmm"] = req.ver
  BY NodeViewFollows, PassChanges DEF OnloadLoopLag, InSelection, LoopSteps
<1>1. CASE AddOnloadLabelsToNodes /\ work' = OnloadWork
  <2>1. req # None /\ UNCHANGED label
    BY <1>1 DEF AddOnloadLabelsToNodes, TypeInv, PassTyped, Steps, objects
  <2> QED
    BY <1>1, <2>1, OnloadWorkCurrent
<1>2. CASE pc = "onlLoop" /\ work' \subseteq work
  <2>1. label'[n]["kmm"] = label[n]["kmm"]
    BY <1>2, LabelMoved DEF Moved
  <2> QED
    BY <1>2, <2>1 DEF OnloadLoopLag
<1> QED
  BY <1>1, <1>2, PassChanges DEF LoopSteps

LEMMA NodeUpgradeLagStep ==
  ASSUME FixedSelection, PatientUsers, VersionInv, [Next]_vars, UNCHANGED cr
  PROVE  NodeUpgradeLag'
<1> USE DEF VersionInv, RolloutInv, LagInv
<1>0. UNCHANGED <<Wanted, zone>>
  BY NodeViewFollows DEF Wanted
<1>1. CASE HandleUpdate /\ pc' \in UpgradeSteps
  <2>1. vLabel' = vLabel /\ label' = label
    BY <1>1, UpgradeCurrent DEF vLabel
  <2> QED
    BY <1>0, <1>1, <2>1, UpgradeCurrent DEF NodeUpgradeLag, UpgradeSteps, DrainedSteps,
       InSelection
<1>2. CASE pc \in UpgradeSteps /\ pc' \in UpgradeSteps /\ UNCHANGED <<cur, work, req>>
  <2>0. cur \in Nodes /\ req = cr /\ InSelection(cur) /\ label[cur]["kmm"] # Wanted
    BY <1>2 DEF NodeUpgradeLag, UpgradeSteps, TypeInv, TypeOK, PassTyped
  <2>1. /\ label'[cur]["kmm"] # Wanted
        /\ label[cur]["sfc"] = None => label'[cur]["sfc"] = None
        /\ label[cur]["onl"] = None => label'[cur]["onl"] = None
    BY <1>2, <2>0, LabelMoved DEF Moved, UpgradeSteps
  <2>2. ASSUME NEW j \in Nodes, InSelection(j), j < cur
        PROVE  vLabel'[j]["kmm"] \in {None, Wanted}
    <3>1. vLabel[j]["kmm"] \in {None, Wanted}
      BY <1>2, <2>2 DEF NodeUpgradeLag
    <3>2. label[j]["kmm"] \in {None, Wanted}
      BY <2>2, <3>1 DEF KmmLag
    <3>3. label'[j]["kmm"] \in {None, Wanted}
      BY <3>2, LabelMoved DEF Moved
    <3> QED
      BY <3>1, <3>3, NodeViewFollows
  <2>3. ASSUME pc' \in DrainedSteps PROVE label'[cur]["onl"] = None
    <3>1. CASE CheckDevicePluginPod /\ pc' = "evict"
      <4>1. dp[cur] = None /\ label' = label
        BY <3>1 DEF CheckDevicePluginPod, vDp, PatientUsers, Requeue, EndPass, objects
      <4> QED
        BY <2>0, <4>1 DEF OldStaysInService, LabelsAgree
    <3>2. CASE pc \in DrainedSteps
      BY <2>1, <3>2 DEF NodeUpgradeLag
    <3> QED
      BY <2>3, <3>1, <3>2, DrainedChanges DEF DrainedSteps, EvictOnloadedPods, ListPodsFails,
         DropSfcLabel
  <2>4. ASSUME pc' # "dropKmm", label'[cur]["sfc"] # None PROVE <<cur, "sfc">> \in work
    BY <1>2, <2>1, <2>4 DEF NodeUpgradeLag
  <2>5. ASSUME pc' = "dropKmm" PROVE label'[cur]["sfc"] = None
    <3>1. CASE pc = "dropKmm"
      BY <2>1, <3>1 DEF NodeUpgradeLag
    <3>2. CASE DropSfcLabel
      <4>1. label \in [Nodes -> [LabelKeys -> VersionOrNone]]
        BY DEF TypeInv, TypeOK
      <4>2. label[cur]["sfc"] # None => <<cur, "sfc">> \in work
        BY <3>2 DEF DropSfcLabel, NodeUpgradeLag, UpgradeSteps
      <4> QED
        BY <2>0, <3>2, <4>1, <4>2 DEF DropSfcLabel, LabelKeys
    <3> QED
      BY <2>5, <3>1, <3>2, DrainedChanges DEF DrainedSteps
  <2> QED
    BY <1>0, <1>2, <2>0, <2>1, <2>2, <2>3, <2>4, <2>5 DEF NodeUpgradeLag, InSelection
<1>3. CASE pc' \notin UpgradeSteps
  BY <1>3 DEF NodeUpgradeLag, UpgradeSteps, DrainedSteps
<1> QED
  BY <1>1, <1>2, <1>3, PassChanges DEF LoopSteps

-----------------------------------------------------------------------------
(***************************************************************************)
(* A step that changes the resource.                                       *)
(***************************************************************************)

\* What these steps leave to be shown of LagInv.
ResourceLag ==
  /\ KmmLag
  /\ SfcLag
  /\ SfcModuleLast
  /\ InOrder
  /\ OneNodeOut
  /\ KmmLoopLag
  /\ NodeUpgradeLag

\* Nothing is labelled when the resource is created, and no pass runs for it.
LEMMA CreatedLag ==
  ASSUME VersionInv, CreateOnload, NoLabelSeen, req = None
  PROVE  ResourceLag'
<1>1. UNCHANGED <<zone, label, vLabel, mod, pc, req, work, cur>>
  BY DEF CreateOnload, locals, vLabel
<1>2. pc \notin LaterSteps \cup UpgradeSteps \cup DrainedSteps \cup {"kmmLoop", "dropKmm"}
  BY DEF VersionInv, TypeInv, PassTyped, Steps, LaterSteps, UpgradeSteps, DrainedSteps
<1>3. \A n \in Nodes, l \in LabelKeys : label'[n][l] = None /\ vLabel'[n][l] = None
  BY <1>1 DEF NoLabelSeen
<1>4. KmmLag' /\ SfcLag' /\ SfcModuleLast' /\ InOrder'
  BY <1>3 DEF KmmLag, SfcLag, SfcModuleLast, InOrder, LabelKeys
<1>5. OneNodeOut' /\ KmmLoopLag' /\ NodeUpgradeLag'
  BY <1>1, <1>2 DEF OneNodeOut, KmmLoopLag, NodeUpgradeLag
<1> QED
  BY <1>4, <1>5 DEF ResourceLag

\* A user who waits edits a resource when every node is labelled as it says and
\* is seen so: the passes that still run have nothing left to do.
LEMMA EditedLag ==
  ASSUME FixedSelection, PatientUsers, VersionInv, EditOnload
  PROVE  ResourceLag'
<1> USE DEF VersionInv, LagInv
<1>1. UNCHANGED <<zone, label, vLabel, mod, pc, req, work, cur>>
  BY DEF EditOnload, locals, vLabel
<1>2. cr # None /\ Wanted # None /\ Wanted = cr.ver /\ (req # None => req = cr)
  BY EditedWhenSettled
<1>3. ASSUME NEW n \in Nodes, InSelection(n)
      PROVE  /\ label[n]["kmm"] = Wanted
             /\ label[n]["sfc"] = IF cr.sfc THEN Wanted ELSE None
             /\ label[n]["onl"] = Wanted
  BY <1>2, <1>3, EditedWhenSettled DEF Settled
<1>4. mod["sfc"] # None <=> cr.sfc
  BY EditedWhenSettled DEF Settled
<1>5. ASSUME NEW n \in Nodes, InSelection(n)
      PROVE  vLabel[n]["kmm"] = Wanted /\ vLabel[n]["sfc"] = label[n]["sfc"]
  <2>1. vLabel[n]["kmm"] = Wanted
    BY <1>2, <1>3, <1>5 DEF KmmLag
  <2> QED
    BY <1>2, <1>3, <1>4, <1>5, <2>1 DEF SfcLag
<1>6. KmmLag' /\ SfcLag' /\ InOrder'
  BY <1>1, <1>2, <1>3, <1>5 DEF KmmLag, SfcLag, InOrder, InSelection, IsOut
<1>7. SfcModuleLast'
  BY <1>1, <1>2, <1>3, <1>4 DEF SfcModuleLast, InSelection
<1>8. OneNodeOut'
  BY <1>1, <1>2, <1>3 DEF OneNodeOut, InSelection, IsOut
<1>9. ASSUME pc = "kmmLoop", NEW n \in Nodes, NEW l \in LabelKeys, <<n, l>> \in work
      PROVE  FALSE
  BY <1>2, <1>3, <1>4, <1>9 DEF KmmLoopLag, LabelKeys
<1>10. KmmLoopLag'
  BY <1>1, <1>9 DEF KmmLoopLag
<1>11. pc \notin UpgradeSteps
  BY <1>3 DEF NodeUpgradeLag, UpgradeSteps, TypeInv, TypeOK, PassTyped
<1>12. NodeUpgradeLag'
  BY <1>1, <1>11 DEF NodeUpgradeLag, UpgradeSteps, DrainedSteps
<1> QED
  BY <1>6, <1>7, <1>8, <1>10, <1>12 DEF ResourceLag

LEMMA LagStep ==
  ASSUME FixedSelection, PatientUsers, VersionInv, [Next]_vars
  PROVE  LagInv'
<1>1. LabelsOnSelected' /\ LabelsAgree' /\ CachedLabelsAgree' /\ OnloadLoopLag'
  BY OnSelectedStep, AgreeStep, OnloadLoopLagStep
<1>2. CASE UNCHANGED cr
  BY <1>1, <1>2, KmmLagStep, SfcLagStep, SfcModuleLastStep, InOrderStep, OneNodeOutStep,
     KmmLoopLagStep, NodeUpgradeLagStep
     DEF LagInv
<1>3. CASE CreateOnload /\ NoLabelSeen /\ req = None
  BY <1>1, <1>3, CreatedLag DEF LagInv, ResourceLag
<1>4. CASE EditOnload
  BY <1>1, <1>4, EditedLag DEF LagInv, ResourceLag
<1> QED
  BY <1>2, <1>3, <1>4, WantedChanges

-----------------------------------------------------------------------------
(***************************************************************************)
(* The whole invariant.                                                    *)
(***************************************************************************)
LEMMA ResourceStaysStep ==
  ASSUME FixedSelection, VersionInv, [Next]_vars
  PROVE  ResourceStays'
<1> USE DEF VersionInv
<1>1. (cr # None => cr' # None) /\ cache'.cr \in {cache.cr, cr}
  BY ResourceKept
<1>2. cr' # None => ~cr'.del
  <2>1. CASE UNCHANGED cr
    BY <2>1 DEF ResourceStays
  <2>2. CASE CreateOnload
    BY <2>2 DEF CreateOnload
  <2>3. CASE EditOnload
    <3>1. cr'.del = cr.del
      BY <2>3 DEF EditOnload, TypeInv, TypeOK, Onloads
    <3> QED
      BY <2>3, <3>1 DEF EditOnload
  <2> QED
    BY <2>1, <2>2, <2>3, ResourceKept
<1>3. vCr # None => vCr' # None
  BY <1>1, ViewsFollow DEF ResourceStays, vCr
<1>4. req' # None => vCr' # None
  BY <1>3, CopyKept DEF ResourceStays
<1> QED
  BY <1>1, <1>2, <1>4 DEF ResourceStays

\* The order of the labels, from a node cache that may lag.
LEMMA VersionOrder == VersionInv => LabelOrder
<1> SUFFICES ASSUME VersionInv PROVE LabelOrder
  OBVIOUS
<1> USE DEF VersionInv, LagInv
<1>1. pc = "kmmLoop" =>
        \A n \in Nodes :
          <<n, "kmm">> \in work => zone[n] \in Selectors /\ label[n]["kmm"] \in {None, req.ver}
  BY DEF KmmLoopLag, LabelKeys, InSelection
<1>2. pc = "onlLoop" =>
        \A n \in Nodes :
          <<n, "onl">> \in work =>
            /\ label[n]["kmm"] = req.ver
            /\ req.sfc => label[n]["sfc"] # None
  BY DEF OnloadLoopLag, OneNodeOut, LaterSteps, LabelKeys
<1>3. pc \in DrainedSteps => label[cur]["onl"] = None
  BY DEF NodeUpgradeLag
<1>4. ASSUME pc = "dropKmm", NEW n \in Nodes \ {cur}, zone[n] \in Selectors
      PROVE  label[n]["kmm"] # None
  <2>1. cur \in Nodes /\ InSelection(cur) /\ IsOut(cur)
    BY <1>4 DEF NodeUpgradeLag, UpgradeSteps, DrainedSteps, IsOut, TypeInv, TypeOK, PassTyped
  <2> QED
    BY <1>4, <2>1 DEF OneNodeOut, LaterSteps, InSelection
<1> QED
  BY <1>1, <1>2, <1>3, <1>4 DEF LabelOrder, LabelsOnSelected

LEMMA VersionStep ==
  ASSUME FixedSelection, PatientUsers
  PROVE  VersionInv /\ [Next]_vars => VersionInv'
<1> SUFFICES ASSUME VersionInv, [Next]_vars PROVE VersionInv'
  OBVIOUS
<1>1. TypeInv'
  BY TypeStep DEF VersionInv
<1>2. DevicePluginGone'
  BY VersionOrder, DrainStep DEF VersionInv, DrainInv, PatientUsers
<1> QED
  BY <1>1, <1>2, ResourceStaysStep, RolloutStep, LagStep DEF VersionInv

-----------------------------------------------------------------------------
(***************************************************************************)
(* What users who wait get.  The caches of the resource, of the nodes, of  *)
(* the Modules and of the DaemonSet may lag, any pass may fail or be cut   *)
(* short by a crash of the operator, and the rollouts may be any number.   *)
(***************************************************************************)

\* The user-space files that a Device Plugin installed and the kernel module
\* that is loaded beside it always have the same version: handleUpdate patches
\* the DaemonSet before it touches a node, and a Device Plugin is stopped before
\* its node's module is replaced.
THEOREM VersionsStayTogether ==
  ASSUME FixedSelection, PatientUsers
  PROVE  Spec => []VersionsMatch
<1>1. VersionInv => VersionsMatch
  BY DEF VersionInv, RolloutInv, ModuleAsLabelled, DevicePluginAsLabelled, VersionsMatch
<1> QED
  BY <1>1, InitVersions, VersionStep, PTL DEF Spec

\* A node's SFC and Onload labels keep to the version of its KMM label, although
\* addKmmLabelsToNodes and addOnloadLabelsToNodes decide from old node lists.
THEOREM LabelsStayTogetherLagging ==
  ASSUME FixedSelection, PatientUsers
  PROVE  Spec => []LabelsAgree
<1>1. VersionInv => LabelsAgree
  BY DEF VersionInv, LagInv
<1> QED
  BY <1>1, InitVersions, VersionStep, PTL DEF Spec

\* handleUpdate takes the KMM label off one node at a time, although a node list
\* may show a label that the operator has already removed.
THEOREM UpgradeIsNodeByNodeLagging ==
  ASSUME FixedSelection, PatientUsers
  PROVE  Spec => NodeByNode
<1>1. VersionInv /\ [Next]_vars =>
        [\A n \in Nodes :
           (pc = "dropKmm" /\ label[n]["kmm"] # None /\ label'[n]["kmm"] = None) =>
             \A k \in Nodes \ {n} : zone[k] = req.sel => label[k]["kmm"] # None]_vars
  <2> SUFFICES ASSUME VersionInv, [Next]_vars, NEW n \in Nodes, NEW k \in Nodes \ {n},
                      pc = "dropKmm", label[n]["kmm"] # None, label'[n]["kmm"] = None,
                      zone[k] = req.sel
               PROVE  label[k]["kmm"] # None
    OBVIOUS
  <2>1. n = cur
    BY LabelMoved DEF Moved
  <2>2. zone[k] \in Selectors
    BY DEF VersionInv, TypeInv, TypeOK, PassTyped, Steps, Onloads
  <2> QED
    BY <2>1, <2>2, VersionOrder DEF LabelOrder
<1> QED
  BY <1>1, InitVersions, VersionStep, PTL DEF Spec, NodeByNode

\* evictOnloadedPods acts on a node without a Device Plugin only, and none can
\* come back to it.
THEOREM EvictionAfterDevicePluginLagging ==
  ASSUME FixedSelection, PatientUsers
  PROVE  Spec => EvictAfterDevicePlugin
<1>1. VersionInv /\ [Next]_vars =>
        [\A n \in Nodes :
           (app[n] = "running" /\ app'[n] = "terminating") =>
             (dp[n] = None /\ label[n]["onl"] = None)]_vars
  BY VersionOrder, EvictsDrained DEF VersionInv, DrainInv
<1> QED
  BY <1>1, InitVersions, VersionStep, PTL DEF Spec, EvictAfterDevicePlugin

\* No loader pod stops on a node with a Device Plugin or a pod that uses Onload,
\* although the drain in handleNodeUpdate starts from an old node list.
THEOREM UnloadIsSafeLagging ==
  ASSUME FixedSelection, PatientUsers, SteadyPods
  PROVE  Spec => NeverUnloadedInUse
<1>1. LabelOrder' /\ UnloadInv /\ [Next]_vars => UnloadInv'
  BY UnloadStep
<1>2. UnloadInv /\ [Next]_vars =>
        [\A n \in Nodes, m \in Modules :
           /\ cr # None
           /\ ~cr.del
           /\ zone[n] = cr.sel
           /\ ldr[n][m] # None
           /\ ldr'[n][m] = None
           => dp[n] = None /\ app[n] = "none"]_vars
  BY UnloadsDrained
<1> QED
  BY <1>1, <1>2, InitVersions, InitUnload, VersionStep, VersionOrder, PTL
     DEF Spec, NeverUnloadedInUse

\* The operator keeps the promise of RollingUpgrade with caches that lag, too.
THEOREM RolloutIsRollingUpgradeLagging ==
  ASSUME FixedSelection, PatientUsers, SteadyPods
  PROVE  Spec => ImplementsRollingUpgrade
<1>1. LabelOrder' /\ UnloadInv /\ [Next]_vars => UnloadInv'
  BY UnloadStep
<1>2. UnloadInv /\ [Next]_vars => [Upgrade!Next]_(Upgrade!vars)
  BY LabelStepsMapped, PodStepsMapped
<1> QED
  BY <1>1, <1>2, InitMapped, InitVersions, InitUnload, VersionStep, VersionOrder, PTL
     DEF Spec, ImplementsRollingUpgrade, Upgrade!Spec
=============================================================================
