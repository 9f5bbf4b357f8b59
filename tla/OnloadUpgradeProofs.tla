------------------------ MODULE OnloadUpgradeProofs -------------------------
(***************************************************************************)
(* The safety of a rolling upgrade, proved for every cluster, set of       *)
(* versions and number of edits and faults.                                *)
(***************************************************************************)
EXTENDS OnloadControllerProofs

\* What the theorems assume of users: the resource is edited but not deleted,
\* its selection stays, and versions are not empty.
FixedSelection ==
  /\ UserOps \cap {"delete", "relabel"} = {}
  /\ \A j, k \in Selectors : j = k
  /\ EmptyVersion \notin Versions

\* What the theorems below assume of the caches as well: a node list shows the
\* operator's own label patches.
SteadySelection == FixedSelection /\ "node" \notin Lagging

-----------------------------------------------------------------------------
(***************************************************************************)
(* The labels.                                                             *)
(***************************************************************************)
Unlabelled == \A n \in Nodes, l \in LabelKeys : label[n][l] = None

\* The resource is never deleted, and a pass that has a copy of it has seen it.
ResourceStays ==
  /\ cr # None => ~cr.del
  /\ cache.cr # None => cr # None /\ ~cache.cr.del
  /\ req # None => vCr # None

\* Labels are on selected nodes only, and there are none before the resource
\* is seen: the loops that remove labels find nothing.
LabelsSelected ==
  /\ \A n \in Nodes, l \in LabelKeys : label[n][l] # None => zone[n] \in Selectors
  /\ vCr = None => Unlabelled
  /\ pc \in {"delKmm", "delSfc", "delOnl"} => Unlabelled
  /\ pc \notin {"staleLoop", "delLoop"}

\* What the rest of addKmmLabelsToNodes is going to do.
KmmLoopInv ==
  pc = "kmmLoop" =>
    \A n \in Nodes, l \in LabelKeys :
      <<n, l>> \in work =>
        /\ l # "onl"
        /\ label[n][l] = None
        /\ zone[n] \in Selectors
        /\ l = "sfc" => <<n, "kmm">> \in work \/ label[n]["kmm"] = req.ver

\* What the rest of addOnloadLabelsToNodes is going to do.
OnloadLoopInv ==
  pc = "onlLoop" =>
    \A n \in Nodes, l \in LabelKeys :
      <<n, l>> \in work =>
        /\ l = "onl"
        /\ zone[n] \in Selectors
        /\ label[n]["kmm"] = req.ver

\* The steps after addKmmLabelsToNodes found every label in place.
LaterSteps ==
  {"staleKmm", "staleSfc", "staleOnl", "createOnload", "createSfc", "onl", "onlLoop",
   "createDs", "updateDs", "updateOnload", "updateSfc", "pick", "dropOnl",
   "checkDp", "evict", "dropSfc", "dropKmm"}

AllLabelled ==
  pc \in LaterSteps =>
    \A n \in Nodes :
      zone[n] \in Selectors =>
        /\ label[n]["kmm"] # None
        /\ (req.sfc /\ label[n]["kmm"] = req.ver) => label[n]["sfc"] # None

\* The node that is being upgraded: it loses the Onload label first, the KMM
\* label last.
NodeUpgradeInv ==
  /\ pc \in {"dropOnl", "checkDp", "evict", "dropSfc", "dropKmm"} =>
       label[cur]["kmm"] \notin {None, req.ver}
  /\ pc \in {"checkDp", "evict", "dropSfc", "dropKmm"} => label[cur]["onl"] = None
  /\ pc \in {"dropOnl", "checkDp", "evict", "dropSfc"} =>
       (label[cur]["sfc"] # None => <<cur, "sfc">> \in work)
  /\ pc = "dropKmm" => label[cur]["sfc"] = None

LabelInv ==
  /\ TypeInv
  /\ LabelsAgree
  /\ ResourceStays
  /\ LabelsSelected
  /\ KmmLoopInv
  /\ OnloadLoopInv
  /\ AllLabelled
  /\ NodeUpgradeInv


LEMMA InitLabels == Init => LabelInv
<1> SUFFICES ASSUME Init PROVE LabelInv
  OBVIOUS
<1>1. TypeInv
  BY InitTyped
<1>2. Unlabelled /\ LabelsAgree
  BY DEF Init, Unlabelled, LabelsAgree, LabelKeys
<1>3. cr = None /\ cache.cr = None /\ req = None /\ pc = "idle"
  BY DEF Init, Snapshot
<1> QED
  BY <1>1, <1>2, <1>3 DEF LabelInv, ResourceStays, LabelsSelected, Unlabelled, KmmLoopInv,
     OnloadLoopInv, AllLabelled, LaterSteps, NodeUpgradeInv

\* A step of the rest of the cluster.
LEMMA LabelFrame ==
  ASSUME LabelInv, TypeInv', UNCHANGED <<cr, zone, label, cache, locals>>
  PROVE  LabelInv'
BY DEF LabelInv, LabelsAgree, ResourceStays, LabelsSelected, Unlabelled, KmmLoopInv,
   OnloadLoopInv, AllLabelled, NodeUpgradeInv, locals, vCr

\* A pass that ends leaves nothing to be shown but the agreement of the labels.
LEMMA LabelEndPass ==
  ASSUME LabelInv, TypeInv', UNCHANGED <<cr, zone, label, cache>>,
         req' = None, pc' \in {"idle", "down"}
  PROVE  LabelInv'
BY DEF LabelInv, LabelsAgree, ResourceStays, LabelsSelected, Unlabelled, KmmLoopInv,
   OnloadLoopInv, AllLabelled, LaterSteps, NodeUpgradeInv, vCr

\* A pass that goes on to one of the steps without an obligation of its own.
LEMMA LabelGoto ==
  ASSUME LabelInv, TypeInv', UNCHANGED <<cr, zone, label, cache, req>>,
         pc \in LaterSteps,
         pc' \in {"staleSfc", "staleOnl", "createOnload", "createSfc", "onl",
                  "createDs", "updateDs", "updateOnload", "updateSfc", "pick"}
  PROVE  LabelInv'
<1>1. pc' \in LaterSteps /\ AllLabelled'
  BY DEF LabelInv, AllLabelled, LaterSteps
<1>2. LabelsAgree' /\ ResourceStays' /\ LabelsSelected'
  BY DEF LabelInv, LabelsAgree, ResourceStays, LabelsSelected, Unlabelled, vCr
<1> QED
  BY <1>1, <1>2 DEF LabelInv, KmmLoopInv, OnloadLoopInv, NodeUpgradeInv

\* With a current node cache and a fixed selection a pass sees the labels as
\* they are, and the nodes that it selects are the selected ones.
LEMMA SteadyViews ==
  ASSUME SteadySelection, TypeInv
  PROVE  /\ vLabel = label
         /\ vZone = zone
         /\ req # None =>
              /\ req.ver \in Versions
              /\ req.ver # None
              /\ \A n \in Nodes : Selected(n) <=> zone[n] \in Selectors
BY NoneAssumption
   DEF SteadySelection, FixedSelection, TypeInv, TypeOK, vLabel, vZone, Onloads, Selected

\* The steps of addKmmLabelsToNodes.
LEMMA KmmLabels ==
  ASSUME SteadySelection, LabelInv, TypeInv'
  PROVE  /\ AddKmmLabelsToNodes => LabelInv'
         /\ \A n \in Nodes, l \in {"kmm", "sfc"} : AddKmmLabelToNode(n, l) => LabelInv'
<1> USE SteadyViews DEF LabelInv
<1>1. ASSUME AddKmmLabelsToNodes PROVE LabelInv'
  <2> USE <1>1 DEF AddKmmLabelsToNodes, WorkOrElse, objects
  <2>1. req # None
    BY DEF TypeInv, PassTyped, Steps
  <2>2. LabelsAgree' /\ ResourceStays'
    BY DEF LabelsAgree, ResourceStays, vCr
  <2>3. LabelsSelected' /\ OnloadLoopInv' /\ NodeUpgradeInv'
    BY DEF LabelsSelected, Unlabelled, vCr, OnloadLoopInv, NodeUpgradeInv
  <2>4. KmmLoopInv'
    BY <2>1 DEF KmmLoopInv, KmmWork
  <2>5. AllLabelled'
    <3> SUFFICES ASSUME KmmWork = {}, NEW n \in Nodes, zone[n] \in Selectors
                 PROVE  /\ label[n]["kmm"] # None
                        /\ (req.sfc /\ label[n]["kmm"] = req.ver) => label[n]["sfc"] # None
      BY DEF AllLabelled, LaterSteps
    <3>1. Selected(n)
      BY <2>1
    <3>2. label[n]["kmm"] # None
      BY <3>1 DEF KmmWork
    <3>3. (req.sfc /\ label[n]["kmm"] = req.ver) => label[n]["sfc"] # None
      BY <3>1 DEF KmmWork
    <3> QED
      BY <3>2, <3>3
  <2> QED
    BY <2>2, <2>3, <2>4, <2>5
<1>2. ASSUME NEW n \in Nodes, NEW l \in {"kmm", "sfc"}, AddKmmLabelToNode(n, l)
      PROVE  LabelInv'
  <2>0. /\ pc = "kmmLoop" /\ req # None /\ <<n, l>> \in work /\ l \in LabelKeys
        /\ UNCHANGED <<cr, zone, cache>>
    BY <1>2 DEF AddKmmLabelToNode, IsNext, TypeInv, PassTyped, Steps, LabelKeys
  <2>1. CASE vLdr[n][ModuleOf(l)] # None
    BY <1>2, <2>0, <2>1, LabelEndPass DEF AddKmmLabelToNode, Requeue, EndPass
  <2>2. CASE vLdr[n][ModuleOf(l)] = None
    <3>1. label' = [label EXCEPT ![n][l] = req.ver] /\ NextWork(<<n, l>>, n)
      BY <1>2, <2>2 DEF AddKmmLabelToNode
    <3>2. /\ label[n][l] = None /\ zone[n] \in Selectors
          /\ l = "sfc" => label[n]["kmm"] = req.ver
      BY <1>2, <2>0 DEF KmmLoopInv, AddKmmLabelToNode, IsNext
    <3>3. /\ label' \in [Nodes -> [LabelKeys -> VersionOrNone]]
          /\ label \in [Nodes -> [LabelKeys -> VersionOrNone]]
      BY DEF TypeInv, TypeOK
    <3>4. LabelsAgree'
      BY <2>0, <3>1, <3>2, <3>3 DEF LabelsAgree, LabelKeys
    <3>5. ResourceStays' /\ vCr' = vCr /\ vCr # None
      BY <2>0, <3>1 DEF ResourceStays, vCr, NextWork, Requeue, EndPass
    <3>6. pc' \in {"kmmLoop", "idle"}
      BY <2>0, <3>1 DEF NextWork, Requeue, EndPass
    <3>7. LabelsSelected'
      BY <2>0, <3>1, <3>2, <3>3, <3>5, <3>6 DEF LabelsSelected
    <3>8. KmmLoopInv'
      <4> SUFFICES ASSUME pc' = "kmmLoop", NEW k \in Nodes, NEW h \in LabelKeys,
                          <<k, h>> \in work'
                   PROVE  /\ h # "onl"
                          /\ label'[k][h] = None
                          /\ zone[k] \in Selectors
                          /\ h = "sfc" => \/ <<k, "kmm">> \in work'
                                          \/ label'[k]["kmm"] = req'.ver
        BY <2>0 DEF KmmLoopInv
      <4>1. work' = work \ {<<n, l>>} /\ req' = req
        BY <3>1 DEF NextWork, Requeue, EndPass
      <4>2. <<k, h>> \in work /\ <<k, h>> # <<n, l>>
        BY <4>1
      <4>3. /\ h # "onl" /\ label[k][h] = None /\ zone[k] \in Selectors
            /\ h = "sfc" => <<k, "kmm">> \in work \/ label[k]["kmm"] = req.ver
        BY <2>0, <4>2 DEF KmmLoopInv
      <4>4. label'[k][h] = None
        BY <2>0, <3>1, <3>3, <4>2, <4>3
      <4>5. ASSUME h = "sfc"
            PROVE  <<k, "kmm">> \in work' \/ label'[k]["kmm"] = req'.ver
        BY <2>0, <3>1, <3>3, <4>1, <4>2, <4>3, <4>5 DEF LabelKeys
      <4> QED
        BY <4>3, <4>4, <4>5
    <3> QED
      BY <3>4, <3>5, <3>6, <3>7, <3>8
         DEF OnloadLoopInv, AllLabelled, LaterSteps, NodeUpgradeInv
  <2> QED
    BY <2>1, <2>2
<1> QED
  BY <1>1, <1>2

\* The steps of removeStaleLabels: there is nothing to remove.
LEMMA StaleLabels ==
  ASSUME SteadySelection, LabelInv, TypeInv'
  PROVE  /\ \A l \in LabelKeys : RemoveStaleLabels(l) => LabelInv'
         /\ \A n \in Nodes, l \in LabelKeys : ~RemoveStaleLabel(n, l)
<1>1. ASSUME NEW l \in LabelKeys, RemoveStaleLabels(l) PROVE LabelInv'
  <2>1. pc \in {"staleKmm", "staleSfc", "staleOnl"} /\ pc \in LaterSteps
    BY <1>1 DEF RemoveStaleLabels, StaleStep, LaterSteps
  <2>2. req # None
    BY <2>1 DEF LabelInv, TypeInv, PassTyped, Steps
  <2>3. {<<n, l>> : n \in {k \in Nodes : vLabel[k][l] # None /\ ~Selected(k)}} = {}
    BY <2>2, SteadyViews DEF LabelInv, LabelsSelected
  <2>4. pc' = AfterStale(l) /\ UNCHANGED <<cr, zone, label, cache, req>>
    BY <1>1, <2>3 DEF RemoveStaleLabels, WorkOrElse, objects
  <2>5. AfterStale(l) \in {"staleSfc", "createOnload", "createDs"}
    BY DEF AfterStale
  <2> QED
    BY <2>1, <2>4, <2>5, LabelGoto
<1>2. \A n \in Nodes, l \in LabelKeys : ~RemoveStaleLabel(n, l)
  BY DEF LabelInv, LabelsSelected, RemoveStaleLabel
<1> QED
  BY <1>1, <1>2

\* The steps of addOnloadLabelsToNodes.
LEMMA OnloadLabels ==
  ASSUME SteadySelection, LabelInv, TypeInv'
  PROVE  /\ AddOnloadLabelsToNodes => LabelInv'
         /\ \A n \in Nodes : AddOnloadLabelToNode(n) => LabelInv'
<1> USE SteadyViews DEF LabelInv
<1>1. ASSUME AddOnloadLabelsToNodes PROVE LabelInv'
  <2> USE <1>1 DEF AddOnloadLabelsToNodes, WorkOrElse, objects
  <2>1. req # None
    BY DEF TypeInv, PassTyped, Steps
  <2>2. LabelsAgree' /\ ResourceStays'
    BY DEF LabelsAgree, ResourceStays, vCr
  <2>3. LabelsSelected' /\ KmmLoopInv' /\ NodeUpgradeInv'
    BY DEF LabelsSelected, Unlabelled, vCr, KmmLoopInv, NodeUpgradeInv
  <2>4. \A n \in Nodes : Value(label[n]["kmm"]) = req.ver => label[n]["kmm"] = req.ver
    BY <2>1 DEF Value, SteadySelection, FixedSelection
  <2>5. OnloadLoopInv'
    BY <2>1, <2>4 DEF OnloadLoopInv, OnloadWork
  <2>6. AllLabelled'
    BY DEF AllLabelled, LaterSteps
  <2> QED
    BY <2>2, <2>3, <2>5, <2>6
<1>2. ASSUME NEW n \in Nodes, AddOnloadLabelToNode(n) PROVE LabelInv'
  <2>1. /\ pc = "onlLoop" /\ req # None /\ <<n, "onl">> \in work
        /\ label' = [label EXCEPT ![n]["onl"] = req.ver]
        /\ NextWork(<<n, "onl">>, n)
        /\ UNCHANGED <<cr, zone, cache>>
    BY <1>2 DEF AddOnloadLabelToNode, TypeInv, PassTyped, Steps
  <2>2. label[n]["kmm"] = req.ver /\ zone[n] \in Selectors
    BY <2>1 DEF OnloadLoopInv, LabelKeys
  <2>3. /\ label' \in [Nodes -> [LabelKeys -> VersionOrNone]]
        /\ label \in [Nodes -> [LabelKeys -> VersionOrNone]]
    BY DEF TypeInv, TypeOK
  <2>4. LabelsAgree'
    BY <2>1, <2>2, <2>3 DEF LabelsAgree, LabelKeys
  <2>5. ResourceStays' /\ vCr' = vCr /\ vCr # None
    BY <2>1 DEF ResourceStays, vCr, NextWork, Requeue, EndPass
  <2>6. \/ pc' = "idle"
        \/ pc' = "onlLoop" /\ req' = req /\ work' \subseteq work
    BY <2>1 DEF NextWork, Requeue, EndPass
  <2>7. LabelsSelected'
    BY <2>1, <2>2, <2>3, <2>5, <2>6 DEF LabelsSelected
  <2>8. \A k \in Nodes : /\ label'[k]["kmm"] = label[k]["kmm"]
                         /\ label'[k]["sfc"] = label[k]["sfc"]
    BY <2>1, <2>3 DEF LabelKeys
  <2>9. OnloadLoopInv' /\ AllLabelled'
    BY <2>1, <2>6, <2>8 DEF OnloadLoopInv, AllLabelled, LaterSteps
  <2> QED
    BY <2>4, <2>5, <2>6, <2>7, <2>9 DEF KmmLoopInv, NodeUpgradeInv
<1> QED
  BY <1>1, <1>2

\* Creating and updating Modules and the DaemonSet leaves the labels alone.
LEMMA ObjectSteps ==
  ASSUME LabelInv, TypeInv',
         \/ \E m \in Modules : CreateAndAddModule(m) \/ PatchOrDeleteModule(m)
         \/ CreateDevicePluginDaemonSet
         \/ HandleDevicePluginUpdate
  PROVE  LabelInv'
<1>1. pc \in LaterSteps /\ UNCHANGED <<cr, zone, label, cache>>
  BY DEF CreateAndAddModule, CreateStep, PatchOrDeleteModule, UpdateStep,
     CreateDevicePluginDaemonSet, HandleDevicePluginUpdate, LaterSteps
<1>2. \/ pc' = "idle" /\ req' = None
      \/ /\ req' = req
         /\ pc' \in {"createSfc", "onl", "updateDs", "updateOnload", "updateSfc", "pick"}
  BY DEF CreateAndAddModule, AfterCreate, PatchOrDeleteModule, AfterUpdate,
     CreateDevicePluginDaemonSet, HandleDevicePluginUpdate, Goto, Requeue, EndPass
<1> QED
  BY <1>1, <1>2, LabelEndPass, LabelGoto

\* The steps of handleUpdate and handleNodeUpdate.
LEMMA NodeSteps ==
  ASSUME SteadySelection, LabelInv, TypeInv',
         \/ HandleUpdate
         \/ DropOnloadLabel
         \/ CheckDevicePluginPod
         \/ EvictOnloadedPods \/ ListPodsFails
         \/ DropSfcLabel
         \/ DropKmmLabel
  PROVE  LabelInv'
<1> USE SteadyViews DEF LabelInv
<1>0. /\ label' \in [Nodes -> [LabelKeys -> VersionOrNone]]
      /\ label \in [Nodes -> [LabelKeys -> VersionOrNone]]
  BY DEF TypeInv, TypeOK
<1>1. UNCHANGED <<cr, zone, cache>> /\ vCr' = vCr
  BY DEF HandleUpdate, DropOnloadLabel, CheckDevicePluginPod, EvictOnloadedPods,
     ListPodsFails, DropSfcLabel, DropKmmLabel, objects, vCr
<1>2. CASE HandleUpdate
  <2>1. CASE Done
    BY <1>1, <1>2, <2>1, LabelEndPass DEF HandleUpdate, Done, EndPass, objects
  <2>2. ASSUME NEW n \in GetNodesToUpgrade,
               cur' = n,
               work' = DropWork(n),
               pc' = IF vLabel[n]["onl"] \in {None, req.ver} THEN "checkDp" ELSE "dropOnl",
               UNCHANGED req
        PROVE  LabelInv'
    <3>1. /\ n \in Nodes /\ label[n]["kmm"] \notin {None, req.ver}
          /\ pc = "pick" /\ label' = label
      BY <1>2 DEF GetNodesToUpgrade, HandleUpdate, objects
    <3>2. label[n]["onl"] \in {None, req.ver} => label[n]["onl"] = None
      BY <3>1 DEF LabelsAgree
    <3>3. NodeUpgradeInv'
      BY <2>2, <3>1, <3>2 DEF NodeUpgradeInv, DropWork
    <3>4. LabelsAgree' /\ ResourceStays' /\ LabelsSelected' /\ AllLabelled'
      BY <1>1, <2>2, <3>1
         DEF LabelsAgree, ResourceStays, LabelsSelected, Unlabelled, AllLabelled, LaterSteps
    <3> QED
      BY <2>2, <3>3, <3>4 DEF KmmLoopInv, OnloadLoopInv
  <2> QED
    BY <1>2, <2>1, <2>2 DEF HandleUpdate
<1>3. CASE DropOnloadLabel \/ DropKmmLabel
  <2>1. /\ cur \in Nodes
        /\ \E l \in {"onl", "kmm"} : label' = [label EXCEPT ![cur][l] = None]
        /\ pc' = "idle" /\ req' = None
    BY <1>3 DEF TypeInv, TypeOK, PassTyped, DropOnloadLabel, DropKmmLabel, Requeue, EndPass
  <2>2. LabelsAgree'
    BY <1>0, <1>3, <2>1
       DEF LabelsAgree, LabelKeys, DropOnloadLabel, DropKmmLabel, NodeUpgradeInv
  <2>3. \A n \in Nodes, l \in LabelKeys : label[n][l] = None => label'[n][l] = None
    BY <1>0, <2>1 DEF LabelKeys
  <2>4. ResourceStays' /\ LabelsSelected'
    BY <1>1, <2>1, <2>3 DEF ResourceStays, LabelsSelected, Unlabelled
  <2> QED
    BY <2>1, <2>2, <2>4 DEF KmmLoopInv, OnloadLoopInv, AllLabelled, LaterSteps, NodeUpgradeInv
<1>4. CASE CheckDevicePluginPod \/ EvictOnloadedPods \/ ListPodsFails
  <2>1. label' = label /\ pc \in {"checkDp", "evict"}
    BY <1>4 DEF CheckDevicePluginPod, EvictOnloadedPods, ListPodsFails, objects
  <2>2. CASE pc' = "idle" /\ req' = None
    BY <1>1, <2>1, <2>2, LabelEndPass
  <2>3. CASE pc' \in {"evict", "dropSfc"} /\ UNCHANGED <<req, work, cur>>
    <3>1. LabelsAgree' /\ ResourceStays' /\ LabelsSelected' /\ AllLabelled'
      BY <1>1, <2>1, <2>3
         DEF LabelsAgree, ResourceStays, LabelsSelected, Unlabelled, AllLabelled, LaterSteps
    <3>2. NodeUpgradeInv'
      BY <2>1, <2>3 DEF NodeUpgradeInv
    <3> QED
      BY <2>3, <3>1, <3>2 DEF KmmLoopInv, OnloadLoopInv
  <2> QED
    BY <1>4, <2>2, <2>3
       DEF CheckDevicePluginPod, EvictOnloadedPods, ListPodsFails, Goto, Requeue, EndPass
<1>5. CASE DropSfcLabel
  <2>1. /\ cur \in Nodes /\ pc = "dropSfc" /\ pc' = "dropKmm"
        /\ UNCHANGED <<req, work, cur>>
    BY <1>5 DEF TypeInv, TypeOK, PassTyped, DropSfcLabel, Goto
  <2>2. label' = [label EXCEPT ![cur]["sfc"] = None]
    BY <1>0, <1>5, <2>1 DEF DropSfcLabel, NodeUpgradeInv, LabelKeys
  <2>3. \A n \in Nodes : /\ label'[n]["kmm"] = label[n]["kmm"]
                         /\ label'[n]["onl"] = label[n]["onl"]
                         /\ label'[n]["sfc"] = IF n = cur THEN None ELSE label[n]["sfc"]
    BY <1>0, <2>1, <2>2 DEF LabelKeys
  <2>4. LabelsAgree' /\ NodeUpgradeInv'
    BY <2>1, <2>3 DEF LabelsAgree, NodeUpgradeInv
  <2>5. AllLabelled'
    BY <1>1, <2>1, <2>3 DEF AllLabelled, NodeUpgradeInv, LaterSteps
  <2>6. ResourceStays' /\ LabelsSelected'
    BY <1>1, <2>1, <2>3 DEF ResourceStays, LabelsSelected, Unlabelled, LabelKeys
  <2> QED
    BY <2>1, <2>4, <2>5, <2>6 DEF KmmLoopInv, OnloadLoopInv
<1> QED
  BY <1>2, <1>3, <1>4, <1>5

\* The start of a pass, and the steps of deleteLabels, which find no label.
LEMMA OuterSteps ==
  ASSUME SteadySelection, LabelInv, TypeInv',
         \/ Reconcile
         \/ \E l \in LabelKeys : DeleteLabels(l)
         \/ \E n \in Nodes, l \in LabelKeys : DeleteLabelFromNode(n, l) \/ SkipFailedDelete(n, l)
  PROVE  LabelInv'
<1> USE SteadyViews DEF LabelInv
<1>1. CASE Reconcile
  <2>1. UNCHANGED <<cr, zone, label, cache>> /\ vCr' = vCr
    BY <1>1 DEF Reconcile, objects, vCr
  <2>2. CASE UNCHANGED locals
    BY <2>1, <2>2, LabelFrame
  <2>3. CASE pc' = "delKmm" /\ vCr = None /\ UNCHANGED <<req, work, cur>>
    BY <2>1, <2>3 DEF LabelsAgree, ResourceStays, LabelsSelected, Unlabelled,
       KmmLoopInv, OnloadLoopInv, AllLabelled, LaterSteps, NodeUpgradeInv
  <2>4. CASE pc' = "kmm" /\ vCr # None /\ req' = vCr
    BY <2>1, <2>4 DEF LabelsAgree, ResourceStays, LabelsSelected, Unlabelled,
       KmmLoopInv, OnloadLoopInv, AllLabelled, LaterSteps, NodeUpgradeInv
  <2> QED
    BY <1>1, <2>2, <2>3, <2>4 DEF Reconcile
<1>2. ASSUME NEW l \in LabelKeys, DeleteLabels(l) PROVE LabelInv'
  <2>1. pc \in {"delKmm", "delSfc", "delOnl"} /\ Unlabelled
    BY <1>2 DEF DeleteLabels, DeleteStep, LabelsSelected
  <2>2. {<<n, l>> : n \in {k \in Nodes : vLabel[k][l] # None}} = {}
    BY <2>1 DEF Unlabelled
  <2>3. /\ pc' \in {"delSfc", "delOnl", "idle"} /\ req' = req
        /\ UNCHANGED <<cr, zone, label, cache>> /\ vCr' = vCr
    BY <1>2, <2>2 DEF DeleteLabels, WorkOrElse, AfterDelete, objects, vCr
  <2> QED
    BY <2>1, <2>3 DEF LabelsAgree, ResourceStays, LabelsSelected, Unlabelled,
       KmmLoopInv, OnloadLoopInv, AllLabelled, LaterSteps, NodeUpgradeInv
<1>3. \A n \in Nodes, l \in LabelKeys : ~DeleteLabelFromNode(n, l) /\ ~SkipFailedDelete(n, l)
  BY DEF LabelsSelected, DeleteLabelFromNode, SkipFailedDelete
<1> QED
  BY <1>1, <1>2, <1>3

\* The users' edits and the synchronisation of the resource's cache.
LEMMA ResourceSteps ==
  ASSUME SteadySelection, LabelInv, TypeInv', UserStep \/ InformerStep
  PROVE  LabelInv'
<1> USE DEF LabelInv
<1>1. UNCHANGED <<zone, label, req, work, cur>>
  BY DEF SteadySelection, FixedSelection, UserStep, CreateOnload, EditOnload, DeleteOnload, RelabelNode,
     UserEdit, InformerStep, Sync, Restart, Heartbeat, objects, locals
<1>2. pc' = pc \/ (pc = "down" /\ pc' = "idle")
  BY DEF SteadySelection, FixedSelection, UserStep, CreateOnload, EditOnload, DeleteOnload, RelabelNode,
     UserEdit, InformerStep, Sync, Restart, Heartbeat, locals
<1>3. /\ cr # None => cr' # None
      /\ cr' # None => ~cr'.del
  <2>1. CASE UNCHANGED cr
    BY <2>1 DEF ResourceStays
  <2>2. CASE CreateOnload
    BY <2>2 DEF CreateOnload
  <2>3. CASE EditOnload
    <3>1. cr' \in Onloads /\ cr'.del = cr.del
      BY <2>3 DEF EditOnload, TypeInv, TypeOK, Onloads
    <3> QED
      BY <2>3, <3>1, AbsentAssumption DEF EditOnload, ResourceStays
  <2> QED
    BY <2>1, <2>2, <2>3 DEF SteadySelection, FixedSelection, UserStep, DeleteOnload, RelabelNode,
       UserEdit, InformerStep, Sync, Restart, Heartbeat, objects
<1>4. cache'.cr = cache.cr \/ (UNCHANGED cr /\ cache'.cr = cr)
  <2>1. CASE UNCHANGED cache
    BY <2>1
  <2>2. ASSUME NEW k \in Kinds, Sync(k) PROVE cache'.cr = cache.cr \/ (UNCHANGED cr /\ cache'.cr = cr)
    BY <2>2 DEF Sync, Synced, WithCr, WithNode, WithMod, WithDs, WithPod, TypeInv, TypeOK, Caches, objects
  <2>3. CASE Restart
    BY <2>3 DEF Restart, WithCr, WithNode, WithMod, WithDs, WithPod, TypeInv, TypeOK, Caches, objects
  <2> QED
    BY <2>1, <2>2, <2>3 DEF UserStep, CreateOnload, EditOnload, DeleteOnload, RelabelNode,
       InformerStep, Heartbeat
<1>5. ResourceStays' /\ (vCr # None => vCr' # None)
  BY <1>1, <1>3, <1>4 DEF ResourceStays, vCr
<1>6. LabelsSelected'
  BY <1>1, <1>2, <1>5 DEF LabelsSelected, Unlabelled
<1>7. LabelsAgree' /\ KmmLoopInv' /\ OnloadLoopInv' /\ AllLabelled' /\ NodeUpgradeInv'
  BY <1>1, <1>2 DEF LabelsAgree, KmmLoopInv, OnloadLoopInv, AllLabelled, LaterSteps, NodeUpgradeInv
<1> QED
  BY <1>5, <1>6, <1>7

LEMMA LabelStep ==
  ASSUME SteadySelection
  PROVE  LabelInv /\ [Next]_vars => LabelInv'
<1> SUFFICES ASSUME LabelInv, [Next]_vars PROVE LabelInv'
  OBVIOUS
<1>0. TypeInv'
  BY TypeStep DEF LabelInv
<1>1. CASE ReconcileStep
  BY <1>0, <1>1, OuterSteps, KmmLabels, StaleLabels, OnloadLabels, ObjectSteps, NodeSteps
     DEF ReconcileStep
<1>2. CASE FaultStep
  <2>1. CASE AbortPass \/ Crash
    BY <1>0, <2>1, LabelEndPass DEF AbortPass, Requeue, EndPass, Crash, objects
  <2>2. ASSUME NEW n \in Nodes, DevicePluginPodLost(n) PROVE LabelInv'
    BY <1>0, <2>2, LabelFrame DEF DevicePluginPodLost, objects
  <2> QED
    BY <1>0, <1>2, <2>1, <2>2, OuterSteps, NodeSteps DEF FaultStep
<1>3. CASE InformerStep \/ UserStep
  BY <1>0, <1>3, ResourceSteps
<1>4. CASE ClusterStep
  <2>1. ~FinishDeletion
    BY DEF LabelInv, ResourceStays, FinishDeletion
  <2>2. UNCHANGED <<cr, zone, label, cache, locals>>
    BY <1>4, <2>1 DEF ClusterStep, CollectModule, CollectDaemonSet, LoaderStart, LoaderStop,
       DevicePluginStart, DevicePluginStop, AppStart, AppStop, objects
  <2> QED
    BY <1>0, <2>2, LabelFrame
<1>5. CASE UNCHANGED vars
  BY <1>0, <1>5, LabelFrame DEF vars, objects
<1> QED
  BY <1>1, <1>2, <1>3, <1>4, <1>5 DEF Next

\* However users edit the version and whatever fails, the labels of a node name
\* one version: addKmmLabelsToNodes, addOnloadLabelsToNodes and handleNodeUpdate
\* add them in one order and remove them in the reverse order.
THEOREM LabelsStayTogether ==
  ASSUME SteadySelection
  PROVE  Spec => []LabelsAgree
<1>1. LabelInv => LabelsAgree
  BY DEF LabelInv
<1> QED
  BY <1>1, InitLabels, LabelStep, PTL DEF Spec

\* handleUpdate takes the KMM label off one node at a time.
THEOREM UpgradeIsNodeByNode ==
  ASSUME SteadySelection
  PROVE  Spec => NodeByNode
<1>1. LabelInv /\ [Next]_vars =>
        [\A n \in Nodes :
           (pc = "dropKmm" /\ label[n]["kmm"] # None /\ label'[n]["kmm"] = None) =>
             \A k \in Nodes \ {n} : zone[k] = req.sel => label[k]["kmm"] # None]_vars
  <2> SUFFICES ASSUME LabelInv, pc = "dropKmm", NEW k \in Nodes, zone[k] = req.sel
               PROVE  label[k]["kmm"] # None
    OBVIOUS
  <2>1. req \in Onloads
    BY DEF LabelInv, TypeInv, TypeOK, PassTyped, Steps
  <2> QED
    BY <2>1 DEF LabelInv, AllLabelled, LaterSteps, Onloads
<1> QED
  BY <1>1, InitLabels, LabelStep, PTL DEF Spec, NodeByNode
=============================================================================
