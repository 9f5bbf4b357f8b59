----------------------- MODULE OnloadControllerProofs -----------------------
(***************************************************************************)
(* Theorems about OnloadController, for every value of the constants.      *)
(***************************************************************************)
EXTENDS OnloadController, TLAPS

-----------------------------------------------------------------------------
(***************************************************************************)
(* Type correctness.                                                       *)
(***************************************************************************)

\* A pass works on a copy of the resource, and the upgrade of a node on a node.
PassTyped ==
  /\ pc \in Steps \ {"delKmm", "delSfc", "delOnl", "delLoop"} => req # None
  /\ pc \in {"dropOnl", "checkDp", "evict", "dropSfc", "dropKmm"} => cur # None

TypeInv == TypeOK /\ PassTyped

\* What the reconciler reads is well typed, whichever caches lag.
LEMMA ViewsTyped ==
  ASSUME TypeOK
  PROVE  /\ vCr \in Onloads \cup {None}
         /\ vZone \in [Nodes -> Keys]
         /\ vLabel \in [Nodes -> [LabelKeys -> VersionOrNone]]
         /\ vMod \in [Modules -> Dependents \cup {None}]
         /\ vDs \in Dependents \cup {None}
         /\ vDp \in [Nodes -> VersionOrNone]
         /\ vLdr \in [Nodes -> [Modules -> VersionOrNone]]
         /\ vApp \in [Nodes -> AppStates]
BY DEF TypeOK, Caches, vCr, vZone, vLabel, vMod, vDs, vDp, vLdr, vApp

\* The objects that a pass creates and patches are well typed.
LEMMA WrittenTyped ==
  ASSUME req \in Onloads
  PROVE  /\ req.ver \in Versions
         /\ NewDependent \in Dependents
         /\ \A obj \in Dependents \cup {None} : Patched(obj) \in Dependents \cup {None}
BY DEF Onloads, NewDependent, Dependents, Patched

\* Setting or removing a label keeps the labels well typed.
LEMMA LabelTyped ==
  ASSUME label \in [Nodes -> [LabelKeys -> VersionOrNone]],
         NEW n \in Nodes, NEW l \in LabelKeys, NEW v \in VersionOrNone
  PROVE  [label EXCEPT ![n][l] = v] \in [Nodes -> [LabelKeys -> VersionOrNone]]
OBVIOUS

LEMMA InitTyped == Init => TypeInv
<1> SUFFICES ASSUME Init PROVE TypeInv
  OBVIOUS
<1>1. /\ label \in [Nodes -> [LabelKeys -> VersionOrNone]]
      /\ mod \in [Modules -> Dependents \cup {None}]
      /\ dp \in [Nodes -> VersionOrNone]
      /\ ldr \in [Nodes -> [Modules -> VersionOrNone]]
      /\ app \in [Nodes -> AppStates]
  BY DEF Init, VersionOrNone, AppStates
<1>2. cache \in Caches
  BY <1>1 DEF Init, Snapshot, Caches
<1>3. edits \in 0..MaxEdits /\ faults \in 0..MaxFaults
  BY BoundAssumption DEF Init
<1> QED
  BY <1>1, <1>2, <1>3 DEF Init, TypeInv, TypeOK, PassTyped, Steps

\* The steps of the reconciler.
LEMMA ReconcileStepTyped == TypeInv /\ ReconcileStep => TypeInv'
<1> SUFFICES ASSUME TypeInv, ReconcileStep PROVE TypeInv'
  OBVIOUS
<1> USE ViewsTyped DEF TypeInv, TypeOK, PassTyped, objects, pods, locals, bounds, Steps
<1>1. CASE Reconcile
  BY <1>1 DEF Reconcile
<1>2. CASE AddKmmLabelsToNodes
  BY <1>2 DEF AddKmmLabelsToNodes, WorkOrElse, KmmWork, LabelKeys
<1>3. ASSUME NEW n \in Nodes, NEW l \in {"kmm", "sfc"}, AddKmmLabelToNode(n, l)
      PROVE  TypeInv'
  <2>1. req \in Onloads /\ req.ver \in VersionOrNone
    BY <1>3, WrittenTyped DEF AddKmmLabelToNode, VersionOrNone
  <2>2. l \in LabelKeys
    BY DEF LabelKeys
  <2>3. [label EXCEPT ![n][l] = req.ver] \in [Nodes -> [LabelKeys -> VersionOrNone]]
    BY <2>1, <2>2, LabelTyped
  <2>4. label' \in [Nodes -> [LabelKeys -> VersionOrNone]]
    BY <1>3, <2>3 DEF AddKmmLabelToNode
  <2> QED
    BY <1>3, <2>1, <2>4 DEF AddKmmLabelToNode, NextWork, Requeue, EndPass
<1>4. ASSUME NEW l \in LabelKeys, RemoveStaleLabels(l)
      PROVE  TypeInv'
  BY <1>4 DEF RemoveStaleLabels, WorkOrElse, StaleStep, AfterStale
<1>5. ASSUME NEW n \in Nodes, NEW l \in LabelKeys, RemoveStaleLabel(n, l)
      PROVE  TypeInv'
  BY <1>5, LabelTyped DEF RemoveStaleLabel, NextWork, Requeue, EndPass, VersionOrNone
<1>6. ASSUME NEW m \in Modules, CreateAndAddModule(m)
      PROVE  TypeInv'
  <2>1. req \in Onloads /\ req # None
    BY <1>6 DEF CreateAndAddModule, CreateStep
  <2>2. mod' \in [Modules -> Dependents \cup {None}]
    BY <1>6, <2>1, WrittenTyped DEF CreateAndAddModule
  <2>3. pc' \in {"createSfc", "onl", "idle"} /\ (pc' = "idle" \/ req' = req)
    BY <1>6 DEF CreateAndAddModule, AfterCreate, Goto, Requeue, EndPass
  <2>4. UNCHANGED <<req, work, cur>> \/ (req' = None /\ work' = {} /\ cur' = None)
    BY <1>6 DEF CreateAndAddModule, Goto, Requeue, EndPass
  <2>5. queued' \in BOOLEAN
    BY <1>6 DEF CreateAndAddModule, Goto, Requeue, EndPass
  <2>6. UNCHANGED <<cr, zone, label, ds, pods, cache, bounds>>
    BY <1>6 DEF CreateAndAddModule
  <2> QED
    BY <2>1, <2>2, <2>3, <2>4, <2>5, <2>6
<1>7. CASE AddOnloadLabelsToNodes
  BY <1>7 DEF AddOnloadLabelsToNodes, WorkOrElse, OnloadWork, LabelKeys
<1>8. ASSUME NEW n \in Nodes, AddOnloadLabelToNode(n)
      PROVE  TypeInv'
  <2>1. req \in Onloads /\ req.ver \in VersionOrNone
    BY <1>8, WrittenTyped DEF AddOnloadLabelToNode, VersionOrNone
  <2>2. label' \in [Nodes -> [LabelKeys -> VersionOrNone]]
    BY <1>8, <2>1, LabelTyped DEF AddOnloadLabelToNode, LabelKeys
  <2> QED
    BY <1>8, <2>1, <2>2 DEF AddOnloadLabelToNode, NextWork, Requeue, EndPass
<1>9. CASE CreateDevicePluginDaemonSet
  <2>1. req \in Onloads
    BY <1>9 DEF CreateDevicePluginDaemonSet
  <2>2. ds' \in Dependents \cup {None}
    BY <1>9, <2>1, WrittenTyped DEF CreateDevicePluginDaemonSet
  <2> QED
    BY <1>9, <2>1, <2>2 DEF CreateDevicePluginDaemonSet, Goto, Requeue, EndPass
<1>10. CASE HandleDevicePluginUpdate
  <2>1. req \in Onloads
    BY <1>10 DEF HandleDevicePluginUpdate
  <2>2. ds' \in Dependents \cup {None}
    BY <1>10, <2>1, WrittenTyped DEF HandleDevicePluginUpdate
  <2> QED
    BY <1>10, <2>1, <2>2 DEF HandleDevicePluginUpdate, Goto, Requeue, EndPass
<1>11. ASSUME NEW m \in Modules, PatchOrDeleteModule(m)
       PROVE  TypeInv'
  <2>1. req \in Onloads /\ req # None
    BY <1>11 DEF PatchOrDeleteModule, UpdateStep
  <2>2. Patched(mod[m]) \in Dependents \cup {None}
    BY <2>1, WrittenTyped
  <2>3. mod' \in [Modules -> Dependents \cup {None}]
    BY <1>11, <2>2 DEF PatchOrDeleteModule
  <2>4. pc' \in {"updateSfc", "pick", "idle"} /\ (pc' = "idle" \/ req' = req)
    BY <1>11 DEF PatchOrDeleteModule, AfterUpdate, Goto, Requeue, EndPass
  <2>5. UNCHANGED <<req, work, cur>> \/ (req' = None /\ work' = {} /\ cur' = None)
    BY <1>11 DEF PatchOrDeleteModule, Goto, Requeue, EndPass
  <2>6. queued' \in BOOLEAN
    BY <1>11 DEF PatchOrDeleteModule, Goto, Requeue, EndPass
  <2>7. UNCHANGED <<cr, zone, label, ds, pods, cache, bounds>>
    BY <1>11 DEF PatchOrDeleteModule
  <2> QED
    BY <2>1, <2>3, <2>4, <2>5, <2>6, <2>7
<1>12. CASE HandleUpdate
  <2>1. CASE GetNodesToUpgrade = {} /\ Done
    BY <1>12, <2>1 DEF HandleUpdate, Done, EndPass
  <2>2. ASSUME NEW n \in GetNodesToUpgrade,
               cur' = n,
               work' = DropWork(n),
               pc' \in {"checkDp", "dropOnl"},
               UNCHANGED <<req, queued>>
        PROVE  TypeInv'
    <3>1. n \in Nodes /\ n # None
      BY NoneAssumption DEF GetNodesToUpgrade
    <3>2. work' \subseteq Nodes \X LabelKeys
      BY <2>2, <3>1 DEF DropWork, LabelKeys
    <3> QED
      BY <1>12, <2>2, <3>1, <3>2 DEF HandleUpdate
  <2> QED
    BY <1>12, <2>1, <2>2 DEF HandleUpdate
<1>13. CASE DropOnloadLabel
  BY <1>13, LabelTyped DEF DropOnloadLabel, Requeue, EndPass, VersionOrNone, LabelKeys
<1>14. CASE CheckDevicePluginPod
  BY <1>14 DEF CheckDevicePluginPod, Goto, Requeue, EndPass
<1>15. CASE EvictOnloadedPods
  BY <1>15 DEF EvictOnloadedPods, Goto, Requeue, EndPass, AppStates
<1>16. CASE DropSfcLabel
  BY <1>16, LabelTyped DEF DropSfcLabel, Goto, VersionOrNone, LabelKeys
<1>17. CASE DropKmmLabel
  BY <1>17, LabelTyped DEF DropKmmLabel, Requeue, EndPass, VersionOrNone, LabelKeys
<1>18. ASSUME NEW l \in LabelKeys, DeleteLabels(l)
       PROVE  TypeInv'
  BY <1>18 DEF DeleteLabels, WorkOrElse, DeleteStep, AfterDelete
<1>19. ASSUME NEW n \in Nodes, NEW l \in LabelKeys, DeleteLabelFromNode(n, l)
       PROVE  TypeInv'
  BY <1>19, LabelTyped DEF DeleteLabelFromNode, NextDelete, AfterDelete, VersionOrNone
<1> QED
  BY <1>1, <1>2, <1>3, <1>4, <1>5, <1>6, <1>7, <1>8, <1>9, <1>10, <1>11, <1>12,
     <1>13, <1>14, <1>15, <1>16, <1>17, <1>18, <1>19 DEF ReconcileStep

\* Faults.
LEMMA FaultStepTyped == TypeInv /\ FaultStep => TypeInv'
<1> SUFFICES ASSUME TypeInv, FaultStep PROVE TypeInv'
  OBVIOUS
<1> USE DEF TypeInv, TypeOK, PassTyped, objects, pods, locals, Steps
<1>1. ASSUME NEW kind, Fault(kind)
      PROVE  edits' \in 0..MaxEdits /\ faults' \in 0..MaxFaults
  BY <1>1, BoundAssumption DEF Fault
<1>2. CASE AbortPass
  BY <1>1, <1>2 DEF AbortPass, Requeue, EndPass
<1>3. ASSUME NEW n \in Nodes, NEW l \in LabelKeys, SkipFailedDelete(n, l)
      PROVE  TypeInv'
  BY <1>1, <1>3 DEF SkipFailedDelete, NextDelete, AfterDelete
<1>4. CASE ListPodsFails
  BY <1>1, <1>4 DEF ListPodsFails, Goto
<1>5. CASE Crash
  BY <1>1, <1>5 DEF Crash
<1>6. ASSUME NEW n \in Nodes, DevicePluginPodLost(n)
      PROVE  TypeInv'
  BY <1>1, <1>6 DEF DevicePluginPodLost, VersionOrNone
<1> QED
  BY <1>2, <1>3, <1>4, <1>5, <1>6 DEF FaultStep

\* The caches stay well typed, whichever of them is synchronised.
LEMMA SyncTyped ==
  ASSUME TypeOK, NEW c \in Caches
  PROVE  /\ WithCr(c) \in Caches
         /\ WithNode(c) \in Caches
         /\ WithMod(c) \in Caches
         /\ WithDs(c) \in Caches
         /\ WithPod(c) \in Caches
BY DEF TypeOK, Caches, WithCr, WithNode, WithMod, WithDs, WithPod

\* The informers and the process.
LEMMA InformerStepTyped == TypeInv /\ InformerStep => TypeInv'
<1> SUFFICES ASSUME TypeInv, InformerStep PROVE TypeInv'
  OBVIOUS
<1> USE DEF TypeInv, TypeOK, PassTyped, objects, pods, locals, bounds, Steps
<1>1. ASSUME NEW k \in Kinds, Sync(k)
      PROVE  TypeInv'
  <2>1. cache' \in Caches
    BY <1>1, SyncTyped DEF Sync, Synced
  <2> QED
    BY <1>1, <2>1 DEF Sync
<1>2. CASE Restart
  <2>1. cache' \in Caches
    BY <1>2, SyncTyped DEF Restart
  <2> QED
    BY <1>2, <2>1 DEF Restart
<1>3. CASE Heartbeat
  BY <1>3 DEF Heartbeat
<1> QED
  BY <1>1, <1>2, <1>3 DEF InformerStep

\* The users.
LEMMA UserStepTyped == TypeInv /\ UserStep => TypeInv'
<1> SUFFICES ASSUME TypeInv, UserStep PROVE TypeInv'
  OBVIOUS
<1> USE DEF TypeInv, TypeOK, PassTyped, pods, locals
<1>1. ASSUME NEW op, NEW kind, UserEdit(op, kind)
      PROVE  /\ edits' \in 0..MaxEdits
             /\ faults' \in 0..MaxFaults
             /\ queued' \in BOOLEAN
  BY <1>1, BoundAssumption DEF UserEdit
<1>2. CASE CreateOnload
  <2>1. cr' \in Onloads
    BY <1>2 DEF CreateOnload, Onloads
  <2> QED
    BY <1>1, <1>2, <2>1 DEF CreateOnload
<1>3. CASE EditOnload
  <2>1. cr' \in Onloads
    BY <1>3 DEF EditOnload, Onloads
  <2> QED
    BY <1>1, <1>3, <2>1 DEF EditOnload
<1>4. CASE DeleteOnload
  <2>1. cr' \in Onloads \cup {None}
    BY <1>4 DEF DeleteOnload, Onloads
  <2> QED
    BY <1>1, <1>4, <2>1 DEF DeleteOnload
<1>5. ASSUME NEW n \in Nodes, RelabelNode(n)
      PROVE  TypeInv'
  <2>1. zone' \in [Nodes -> Keys]
    BY <1>5 DEF RelabelNode
  <2> QED
    BY <1>1, <1>5, <2>1 DEF RelabelNode
<1> QED
  BY <1>2, <1>3, <1>4, <1>5 DEF UserStep

\* The rest of the cluster.
LEMMA ClusterStepTyped == TypeInv /\ ClusterStep => TypeInv'
<1> SUFFICES ASSUME TypeInv, ClusterStep PROVE TypeInv'
  OBVIOUS
<1> USE DEF TypeInv, TypeOK, PassTyped, objects, locals, bounds
<1>1. ASSUME NEW m \in Modules, CollectModule(m)
      PROVE  TypeInv'
  BY <1>1 DEF CollectModule, pods
<1>2. CASE CollectDaemonSet
  BY <1>2 DEF CollectDaemonSet, pods
<1>3. CASE FinishDeletion
  BY <1>3 DEF FinishDeletion, pods
<1>4. ASSUME NEW n \in Nodes, NEW m \in Modules, LoaderStart(n, m)
      PROVE  TypeInv'
  <2>1. mod[m].ver \in VersionOrNone
    BY <1>4 DEF LoaderStart, Dependents, VersionOrNone
  <2> QED
    BY <1>4, <2>1 DEF LoaderStart
<1>5. ASSUME NEW n \in Nodes, NEW m \in Modules, LoaderStop(n, m)
      PROVE  TypeInv'
  BY <1>5 DEF LoaderStop, VersionOrNone
<1>6. ASSUME NEW n \in Nodes, DevicePluginStart(n)
      PROVE  TypeInv'
  <2>1. ds.ver \in VersionOrNone
    BY <1>6 DEF DevicePluginStart, WantsDevicePlugin, Dependents, VersionOrNone
  <2> QED
    BY <1>6, <2>1 DEF DevicePluginStart
<1>7. ASSUME NEW n \in Nodes, DevicePluginStop(n)
      PROVE  TypeInv'
  BY <1>7 DEF DevicePluginStop, VersionOrNone
<1>8. ASSUME NEW n \in Nodes, AppStart(n)
      PROVE  TypeInv'
  BY <1>8 DEF AppStart, AppStates
<1>9. ASSUME NEW n \in Nodes, AppStop(n)
      PROVE  TypeInv'
  BY <1>9 DEF AppStop, AppStates
<1> QED
  BY <1>1, <1>2, <1>3, <1>4, <1>5, <1>6, <1>7, <1>8, <1>9 DEF ClusterStep

LEMMA TypeStep == TypeInv /\ [Next]_vars => TypeInv'
<1>1. TypeInv /\ UNCHANGED vars => TypeInv'
  BY DEF vars, objects, pods, locals, bounds, TypeInv, TypeOK, PassTyped
<1> QED
  BY <1>1, ReconcileStepTyped, FaultStepTyped, InformerStepTyped, UserStepTyped,
     ClusterStepTyped DEF Next

\* Every behaviour is well typed, whatever the cluster, the caches, the faults
\* and the users do; in particular every label and every object carries a
\* version that the resource has had, and no step reads a field of a missing
\* resource.
THEOREM TypeCorrect == Spec => []TypeOK
<1>1. TypeInv => TypeOK
  BY DEF TypeInv
<1> QED
  BY <1>1, InitTyped, TypeStep, PTL DEF Spec

-----------------------------------------------------------------------------
(***************************************************************************)
(* A resource whose name is too long.                                      *)
(***************************************************************************)

\* No pass gets past the check of the name, and the passes that remove labels
\* find none, in the API server or in a cache that lags.
NoTrace ==
  /\ Clean
  /\ \A n \in Nodes, l \in LabelKeys : cache.label[n][l] = None
  /\ pc \in {"idle", "down", "delKmm", "delSfc", "delOnl"}

LEMMA NoTraceStep ==
  ASSUME TooLong
  PROVE  TypeInv /\ NoTrace /\ [Next]_vars => NoTrace'
<1> SUFFICES ASSUME TypeInv, NoTrace, [Next]_vars PROVE NoTrace'
  OBVIOUS
<1> USE DEF NoTrace
<1>1. CASE ReconcileStep
  <2>1. \A l \in LabelKeys : {<<n, l>> : n \in {k \in Nodes : vLabel[k][l] # None}} = {}
    BY DEF vLabel, Clean
  <2>2. ASSUME NEW l \in LabelKeys, DeleteLabels(l) PROVE NoTrace'
    BY <2>1, <2>2 DEF DeleteLabels, WorkOrElse, AfterDelete, Clean, objects, pods
  <2>3. CASE Reconcile
    BY <2>3 DEF Reconcile, locals, Clean, objects, pods
  <2> QED
    BY <1>1, <2>2, <2>3 DEF ReconcileStep, AddKmmLabelsToNodes, AddKmmLabelToNode,
       RemoveStaleLabels, StaleStep, RemoveStaleLabel, CreateAndAddModule, CreateStep,
       AddOnloadLabelsToNodes, AddOnloadLabelToNode, CreateDevicePluginDaemonSet,
       HandleDevicePluginUpdate, PatchOrDeleteModule, UpdateStep, HandleUpdate,
       DropOnloadLabel, CheckDevicePluginPod, EvictOnloadedPods, DropSfcLabel,
       DropKmmLabel, DeleteLabelFromNode
<1>2. CASE FaultStep
  BY <1>2 DEF FaultStep, AbortPass, Requeue, EndPass, SkipFailedDelete, ListPodsFails, Crash,
     DevicePluginPodLost, Clean, objects, pods
<1>3. CASE InformerStep
  <2>1. UNCHANGED <<objects, pods>> /\ pc' \in {pc, "idle"}
    BY <1>3 DEF InformerStep, Sync, Restart, Heartbeat, locals
  <2>2. cache'.label \in {cache.label, label}
    <3>1. ASSUME NEW k \in Kinds, Sync(k) PROVE cache'.label \in {cache.label, label}
      BY <3>1 DEF Sync, Synced, WithCr, WithNode, WithMod, WithDs, WithPod, TypeInv,
         TypeOK, Caches
    <3>2. CASE Restart
      BY <3>2 DEF Restart, WithCr, WithNode, WithMod, WithDs, WithPod, TypeInv, TypeOK,
         Caches
    <3> QED
      BY <1>3, <3>1, <3>2 DEF InformerStep, Heartbeat
  <2> QED
    BY <2>1, <2>2 DEF Clean, objects, pods
<1>4. CASE UserStep
  <2>1. UNCHANGED <<label, mod, ds, pods, cache, locals>>
    BY <1>4 DEF UserStep, CreateOnload, EditOnload, DeleteOnload, RelabelNode
  <2> QED
    BY <2>1 DEF Clean, pods, locals
<1>5. CASE ClusterStep
  BY <1>5 DEF ClusterStep, CollectModule, Orphan, CollectDaemonSet, FinishDeletion,
     LoaderStart, LoaderStop, DevicePluginStart, WantsDevicePlugin, DevicePluginStop,
     AppStart, AppStop, Clean, objects, pods, locals
<1>6. CASE UNCHANGED vars
  BY <1>6 DEF vars, Clean, objects, pods, locals
<1> QED
  BY <1>1, <1>2, <1>3, <1>4, <1>5, <1>6 DEF Next

\* Reconcile's check of the length of the name keeps such a resource from
\* leaving anything in the cluster, whatever users, caches and faults do: the
\* passes that run before it is created or after it is deleted write nothing
\* either.
THEOREM LongNamesLeaveNoTrace == Spec => []LongNameIgnored
<1>1. CASE TooLong
  <2>1. Init => TypeInv /\ NoTrace
    BY InitTyped DEF Init, Snapshot, NoTrace, Clean
  <2>2. NoTrace => LongNameIgnored
    BY DEF NoTrace, LongNameIgnored
  <2> QED
    BY <1>1, <2>1, <2>2, TypeStep, NoTraceStep, PTL DEF Spec
<1>2. CASE ~TooLong
  <2>1. LongNameIgnored
    BY <1>2, CombinedLenAssumption DEF TooLong, LongNameIgnored
  <2> QED
    BY <2>1, PTL
<1> QED
  BY <1>1, <1>2
=============================================================================
