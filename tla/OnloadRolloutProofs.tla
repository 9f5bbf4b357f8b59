------------------------- MODULE OnloadRolloutProofs ------------------------
(***************************************************************************)
(* OnloadController implements RollingUpgrade, for every cluster: each     *)
(* step of the reconciler and of its cluster is a step of the abstract     *)
(* specification or leaves its variables unchanged.                        *)
(***************************************************************************)
EXTENDS OnloadUnloadProofs, OnloadRollout

\* A step that leaves the labels and the pods alone.
LEMMA UpgradeStutters ==
  ASSUME UNCHANGED <<zone, label, pods>>
  PROVE  UNCHANGED Upgrade!vars
BY DEF Upgrade!vars, SelectedNodes, NodeVersion, NodesInService, NodesInUse,
   LoadedVersion, pods

\* What is left to be shown of a step that changes one label of one node.
LEMMA LabelMapped ==
  ASSUME label \in [Nodes -> [LabelKeys -> VersionOrNone]],
         NEW n \in Nodes, NEW l \in LabelKeys, NEW v \in VersionOrNone,
         label' = [label EXCEPT ![n][l] = v]
  PROVE  /\ NodeVersion' = IF l = "kmm" THEN [NodeVersion EXCEPT ![n] = v] ELSE NodeVersion
         /\ NodesInService' =
              IF l # "onl" THEN NodesInService
              ELSE (NodesInService \ {n}) \cup (IF v # None THEN {n} ELSE {})
<1> USE DEF LabelKeys
<1>1. CASE l = "kmm"
  BY <1>1 DEF NodeVersion, NodesInService
<1>2. CASE l = "sfc"
  BY <1>2 DEF NodeVersion, NodesInService
<1>3. CASE l = "onl"
  BY <1>3 DEF NodeVersion, NodesInService
<1> QED
  BY <1>1, <1>2, <1>3

\* The steps that change labels.
LEMMA LabelStepsMapped ==
  ASSUME FixedSelection, SteadyPods, UnloadInv, [Next]_vars, label' # label
  PROVE  [Upgrade!Next]_(Upgrade!vars)
<1> USE DEF UnloadInv, DrainInv, LabelOrder
<1>0. /\ label \in [Nodes -> [LabelKeys -> VersionOrNone]]
      /\ zone' = zone
  BY ZoneStays DEF TypeInv, TypeOK
<1>1. SelectedNodes' = SelectedNodes
  BY <1>0 DEF SelectedNodes
<1>2. ASSUME UNCHANGED pods
      PROVE  NodesInUse' = NodesInUse /\ LoadedVersion' = LoadedVersion
  BY <1>2 DEF NodesInUse, LoadedVersion, pods
<1>3. ASSUME NEW n \in Nodes, NEW l \in {"kmm", "sfc"}, AddKmmLabelToNode(n, l)
      PROVE  [Upgrade!Next]_(Upgrade!vars)
  <2>1. req.ver \in Versions /\ req.ver # None
    BY <1>3, NoneAssumption DEF AddKmmLabelToNode, TypeInv, TypeOK, PassTyped, Steps, Onloads
  <2>2. /\ label' = [label EXCEPT ![n][l] = req.ver]
        /\ UNCHANGED pods
        /\ ldr[n][ModuleOf(l)] = None
        /\ pc = "kmmLoop"
        /\ <<n, l>> \in work
        /\ IsNext(n, l)
    BY <1>3 DEF AddKmmLabelToNode, vLdr, SteadyPods, IsNext
  <2>3. CASE l = "sfc"
    <3>1. NodeVersion' = NodeVersion /\ NodesInService' = NodesInService
      BY <1>0, <2>1, <2>2, <2>3, LabelMapped DEF LabelKeys, VersionOrNone
    <3> QED
      BY <1>1, <1>2, <2>2, <3>1 DEF Upgrade!vars
  <2>4. CASE l = "kmm"
    <3>1. /\ NodeVersion' = [NodeVersion EXCEPT ![n] = req.ver]
          /\ NodesInService' = NodesInService
      BY <1>0, <2>1, <2>2, <2>4, LabelMapped DEF LabelKeys, VersionOrNone
    <3>2. n \in SelectedNodes /\ LoadedVersion[n] = None
      BY <2>2, <2>4 DEF SelectedNodes, LoadedVersion, ModuleOf
    <3>3. label[n]["kmm"] = None
      <4>1. label[n]["kmm"] \in {None, req.ver}
        BY <2>2, <2>4
      <4>2. label[n]["kmm"] # req.ver
        BY <1>0, <2>2, <2>4 DEF LabelKeys
      <4> QED
        BY <4>1, <4>2
    <3>4. Upgrade!Assign(n, req.ver)
      BY <1>1, <1>2, <2>2, <3>1, <3>2, <3>3 DEF Upgrade!Assign, NodeVersion
    <3> QED
      BY <2>1, <3>4 DEF Upgrade!Next
  <2> QED
    BY <2>3, <2>4
<1>4. ASSUME NEW n \in Nodes, AddOnloadLabelToNode(n)
      PROVE  [Upgrade!Next]_(Upgrade!vars)
  <2>1. /\ req \in Onloads /\ label[n]["kmm"] = req.ver
        /\ label' = [label EXCEPT ![n]["onl"] = req.ver]
        /\ UNCHANGED pods
    <3>1. pc = "onlLoop" /\ <<n, "onl">> \in work
      BY <1>4 DEF AddOnloadLabelToNode
    <3> QED
      BY <1>4, <3>1 DEF AddOnloadLabelToNode, TypeInv, TypeOK, PassTyped, Steps
  <2>2. req.ver \in Versions /\ req.ver # None
    BY <2>1, NoneAssumption DEF Onloads
  <2>3. NodeVersion' = NodeVersion /\ NodesInService' = NodesInService \cup {n}
    <3>1. "onl" \in LabelKeys /\ req.ver \in VersionOrNone
      BY <2>2 DEF LabelKeys, VersionOrNone
    <3>2. NodeVersion' = NodeVersion /\ NodesInService' = (NodesInService \ {n}) \cup {n}
      BY <1>0, <2>1, <2>2, <3>1, LabelMapped
    <3> QED
      BY <3>2
  <2>4. NodeVersion[n] # None
    BY <2>1, <2>2 DEF NodeVersion
  <2>5. CASE n \in NodesInService
    BY <1>1, <1>2, <2>1, <2>3, <2>5 DEF Upgrade!vars
  <2>6. CASE n \notin NodesInService
    BY <1>1, <1>2, <2>1, <2>3, <2>4, <2>6 DEF Upgrade!Offer, Upgrade!Next
  <2> QED
    BY <2>5, <2>6
<1>5. CASE DropOnloadLabel
  <2>1. cur \in Nodes /\ label' = [label EXCEPT ![cur]["onl"] = None] /\ UNCHANGED pods
    BY <1>5 DEF DropOnloadLabel, TypeInv, TypeOK, PassTyped
  <2>2. NodeVersion' = NodeVersion /\ NodesInService' = NodesInService \ {cur}
    BY <1>0, <2>1, LabelMapped DEF LabelKeys, VersionOrNone
  <2>3. cur \in NodesInService
    BY <1>0, <2>1 DEF NodesInService, LabelKeys
  <2> QED
    BY <1>1, <1>2, <2>1, <2>2, <2>3 DEF Upgrade!Withdraw, Upgrade!Next
<1>6. CASE DropSfcLabel
  <2>1. cur \in Nodes /\ label' = [label EXCEPT ![cur]["sfc"] = None] /\ UNCHANGED pods
    BY <1>6 DEF DropSfcLabel, TypeInv, TypeOK, PassTyped
  <2>2. NodeVersion' = NodeVersion /\ NodesInService' = NodesInService
    BY <1>0, <2>1, LabelMapped DEF LabelKeys, VersionOrNone
  <2> QED
    BY <1>1, <1>2, <2>1, <2>2 DEF Upgrade!vars
<1>7. CASE DropKmmLabel
  <2>1. /\ cur \in Nodes /\ label' = [label EXCEPT ![cur]["kmm"] = None] /\ UNCHANGED pods
        /\ pc = "dropKmm" /\ req \in Onloads
    BY <1>7 DEF DropKmmLabel, TypeInv, TypeOK, PassTyped, Steps
  <2>2. /\ NodeVersion' = [NodeVersion EXCEPT ![cur] = None]
        /\ NodesInService' = NodesInService
    BY <1>0, <2>1, LabelMapped DEF LabelKeys, VersionOrNone
  <2>3. cur \notin NodesInService \cup NodesInUse /\ NodeVersion[cur] # None
    <3>1. label[cur]["kmm"] # None
      BY <1>0, <2>1 DEF LabelKeys
    <3> QED
      BY <2>1, <3>1 DEF DevicePluginGone, DrainedSteps, PodsGone, NodesInService,
         NodesInUse, NodeVersion
  <2>4. \A k \in SelectedNodes \ {cur} : NodeVersion[k] # None
    BY <2>1, <2>3 DEF SelectedNodes, NodeVersion
  <2>5. Upgrade!Retire(cur)
    BY <1>1, <1>2, <2>1, <2>2, <2>3, <2>4 DEF Upgrade!Retire
  <2> QED
    BY <2>1, <2>5 DEF Upgrade!Next
<1> QED
  BY <1>3, <1>4, <1>5, <1>6, <1>7, LabelChanges

\* The steps of the pods.
LEMMA PodStepsMapped ==
  ASSUME FixedSelection, SteadyPods, UnloadInv, [Next]_vars, label' = label
  PROVE  [Upgrade!Next]_(Upgrade!vars)
<1> USE DEF UnloadInv, DrainInv, LabelOrder
<1>0. /\ dp \in [Nodes -> VersionOrNone]
      /\ app \in [Nodes -> AppStates]
      /\ ldr \in [Nodes -> [Modules -> VersionOrNone]]
      /\ mod \in [Modules -> Dependents \cup {None}]
      /\ zone' = zone
  BY ZoneStays DEF TypeInv, TypeOK
<1>1. SelectedNodes' = SelectedNodes /\ NodeVersion' = NodeVersion
      /\ NodesInService' = NodesInService
  BY <1>0 DEF SelectedNodes, NodeVersion, NodesInService
<1>2. CASE UNCHANGED pods
  BY <1>0, <1>2, UpgradeStutters
<1>3. CASE EvictOnloadedPods
  <2>1. cur \in Nodes
    BY <1>3 DEF EvictOnloadedPods, TypeInv, TypeOK, PassTyped
  <2>2. NodesInUse' = NodesInUse /\ LoadedVersion' = LoadedVersion
    BY <1>0, <1>3, <2>1 DEF EvictOnloadedPods, NodesInUse, LoadedVersion
  <2> QED
    BY <1>1, <2>2 DEF Upgrade!vars
<1>4. ASSUME NEW n \in Nodes,
             \/ DevicePluginPodLost(n)
             \/ DevicePluginStart(n) \/ DevicePluginStop(n)
             \/ AppStart(n) \/ AppStop(n)
      PROVE  [Upgrade!Next]_(Upgrade!vars)
  <2>1. LoadedVersion' = LoadedVersion
    BY <1>4 DEF DevicePluginPodLost, DevicePluginStart, DevicePluginStop, AppStart, AppStop,
       LoadedVersion
  <2>2. CASE DevicePluginStart(n)
    <3>1. NodesInUse' \in {NodesInUse, NodesInUse \cup {n}} /\ n \in NodesInService
      <4>1. \A k \in Nodes \ {n} : dp'[k] = dp[k]
        BY <1>0, <2>2 DEF DevicePluginStart
      <4>2. app' = app /\ label[n]["onl"] # None
        BY <2>2 DEF DevicePluginStart, WantsDevicePlugin
      <4>3. \A k \in Nodes \ {n} : k \in NodesInUse' <=> k \in NodesInUse
        BY <4>1, <4>2 DEF NodesInUse
      <4>4. n \in NodesInUse => n \in NodesInUse'
        BY <2>2, <4>2 DEF DevicePluginStart, NodesInUse
      <4>5. NodesInUse \subseteq Nodes /\ NodesInUse' \subseteq Nodes
        BY DEF NodesInUse
      <4>6. n \in NodesInService
        BY <4>2 DEF NodesInService
      <4> QED
        BY <4>3, <4>4, <4>5, <4>6
    <3> QED
      BY <1>1, <2>1, <3>1 DEF Upgrade!vars, Upgrade!StartUse, Upgrade!Next
  <2>3. CASE AppStart(n)
    <3>1. NodesInUse' = NodesInUse
      BY <1>0, <2>3 DEF AppStart, NodesInUse
    <3> QED
      BY <1>1, <2>1, <3>1 DEF Upgrade!vars
  <2>4. CASE DevicePluginPodLost(n) \/ DevicePluginStop(n) \/ AppStop(n)
    <3>1. NodesInUse' \in {NodesInUse, NodesInUse \ {n}} /\ n \in NodesInUse
      <4>1. \A k \in Nodes \ {n} : dp'[k] = dp[k] /\ app'[k] = app[k]
        BY <1>0, <2>4 DEF DevicePluginPodLost, DevicePluginStop, AppStop
      <4>2. n \in NodesInUse
        BY <2>4 DEF DevicePluginPodLost, DevicePluginStop, AppStop, NodesInUse
      <4> QED
        BY <1>0, <4>1, <4>2 DEF NodesInUse
    <3> QED
      BY <1>1, <2>1, <3>1 DEF Upgrade!vars, Upgrade!EndUse, Upgrade!Next
  <2> QED
    BY <1>4, <2>2, <2>3, <2>4
<1>5. ASSUME NEW n \in Nodes, NEW m \in Modules, LoaderStart(n, m) \/ LoaderStop(n, m)
      PROVE  [Upgrade!Next]_(Upgrade!vars)
  <2>1. NodesInUse' = NodesInUse
    BY <1>5 DEF LoaderStart, LoaderStop, NodesInUse
  <2>2. CASE m = "sfc"
    <3>1. LoadedVersion' = LoadedVersion
      BY <1>0, <1>5, <2>2 DEF LoaderStart, LoaderStop, LoadedVersion, Modules
    <3> QED
      BY <1>1, <2>1, <3>1 DEF Upgrade!vars
  <2>3. CASE m = "onload" /\ LoaderStart(n, m)
    <3>1. /\ LoadedVersion[n] = None
          /\ LoadedVersion' = [LoadedVersion EXCEPT ![n] = NodeVersion[n]]
      BY <1>0, <2>3 DEF LoaderStart, LoadedVersion, NodeVersion, LabelOf, Modules
    <3>2. NodeVersion[n] # None
      BY <1>0, <2>3, NoneAssumption DEF LoaderStart, NodeVersion, LabelOf, Dependents
    <3> QED
      BY <1>1, <2>1, <3>1, <3>2 DEF Upgrade!Load, Upgrade!Next
  <2>4. CASE m = "onload" /\ LoaderStop(n, m)
    <3>1. /\ LoadedVersion[n] # None
          /\ LoadedVersion' = [LoadedVersion EXCEPT ![n] = None]
      BY <1>0, <2>4 DEF LoaderStop, LoadedVersion, Modules
    <3>2. label[n]["kmm"] \in {None, ldr[n][m]} /\ zone[n] \in Selectors /\ mod[m] # None
      BY <2>4 DEF LoaderStop, LoadedAsLabelled, LabelOf
    <3>3. zone[n] = mod[m].sel
      BY <1>0, <3>2 DEF Dependents, FixedSelection
    <3>4. NodeVersion[n] = None
      BY <2>4, <3>2, <3>3 DEF LoaderStop, NodeVersion, LabelOf
    <3> QED
      BY <1>1, <2>1, <3>1, <3>4 DEF Upgrade!Unload, Upgrade!Next
  <2> QED
    BY <1>5, <2>2, <2>3, <2>4 DEF Modules
<1> QED
  BY <1>2, <1>3, <1>4, <1>5, PodChanges

LEMMA InitMapped == Init => Upgrade!Init
BY DEF Init, Upgrade!Init, SelectedNodes, NodeVersion, NodesInService, NodesInUse,
   LoadedVersion, LabelKeys, Modules

\* The operator keeps the promise of RollingUpgrade: with a steady selection
\* and pods that are seen, every behaviour of OnloadController is one of the
\* abstract specification, for any number of nodes, versions, edits and faults.
THEOREM RolloutIsRollingUpgrade ==
  ASSUME SteadySelection, SteadyPods
  PROVE  Spec => ImplementsRollingUpgrade
<1>1. LabelOrder' /\ UnloadInv /\ [Next]_vars => UnloadInv'
  BY UnloadStep DEF SteadySelection
<1>2. UnloadInv /\ [Next]_vars => [Upgrade!Next]_(Upgrade!vars)
  BY LabelStepsMapped, PodStepsMapped DEF SteadySelection
<1> QED
  BY <1>1, <1>2, InitMapped, InitLabels, InitUnload, LabelStep, SteadyOrder, PTL
     DEF Spec, ImplementsRollingUpgrade, Upgrade!Spec
=============================================================================
