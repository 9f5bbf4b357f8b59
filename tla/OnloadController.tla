-------------------------- MODULE OnloadController --------------------------
(***************************************************************************)
(* The Onload operator's reconciler (src/controllers/onload_controller.go) *)
(* for one Onload custom resource, with the cluster around it.             *)
(*                                                                         *)
(* The reconciler is sequential: controller-runtime runs one Reconcile at  *)
(* a time for a resource.  It reads Kubernetes objects through informer    *)
(* caches, which may lag behind the API server, and writes straight to the *)
(* API server with merge patches that carry no resource version.  A pass   *)
(* of Reconcile is not atomic: users, the KMM operator, the DaemonSet      *)
(* controller, the garbage collector and the application pods act between  *)
(* any two of its API calls.  Hence one action here is some cache reads    *)
(* and at most one API write.                                              *)
(***************************************************************************)
EXTENDS Naturals, FiniteSets

CONSTANTS
  Nodes,        \* the cluster's nodes, numbered in the order of their names
  Versions,     \* values of spec.onload.version
  EmptyVersion, \* the empty string, which a Go map yields for a missing key
  None,         \* an absent label, object or pod
  Keys,         \* values of the node label that spec.selector selects on
  Selectors,    \* the values users put in spec.selector: a subset of Keys
  SfcUse,       \* the answers onloadUsesSFC may give: a subset of BOOLEAN
  CombinedLen,  \* len(onload.Name) + len(onload.Namespace)
  Lagging,      \* the kinds whose informer cache may lag behind the API server
  FaultKinds,   \* the faults that may happen
  UserOps,      \* what users do: a subset of Operations
  EditsWait,    \* TRUE: users wait for the rollout to finish before each change
  MaxEdits,     \* bound on the users' changes (resource and node labels)
  MaxFaults     \* bound on the faults

Kinds == {"cr", "node", "mod", "ds", "pod"}

Faults == {"write", "podlist", "crash", "restart"}

Operations == {"create", "edit", "delete", "relabel"}

ASSUME NodesAssumption == Nodes \subseteq Nat

ASSUME NoneAssumption == None \notin Versions \cup Nodes

ASSUME SelectorsAssumption == Selectors \subseteq Keys

ASSUME SfcUseAssumption == SfcUse \subseteq BOOLEAN

ASSUME CombinedLenAssumption == CombinedLen \in Nat

ASSUME LaggingAssumption == Lagging \subseteq Kinds

ASSUME FaultAssumption == FaultKinds \subseteq Faults

ASSUME UserOpsAssumption == UserOps \subseteq Operations

ASSUME BoundAssumption == MaxEdits \in Nat /\ MaxFaults \in Nat

-----------------------------------------------------------------------------

VARIABLES
  \* What the API server holds.
  cr,      \* the Onload resource, or None
  zone,    \* per node, the value of the label that the selector is about
  label,   \* per node, the operator's own labels
  mod,     \* the KMM Module objects
  ds,      \* the Device Plugin DaemonSet, or None
  dp,      \* per node, the version a Device Plugin pod was started from
  ldr,     \* per node and Module, the version its loader pod has loaded
  app,     \* per node, the pods that request amd.com/onload
  \* The operator process.
  cache,   \* what its informers have seen of the above
  queued,  \* the resource's name is in the work queue
  pc,      \* where the current pass of Reconcile is
  req,     \* the copy of the resource that the pass read
  work,    \* label changes still to be made, as decided from a node list
  cur,     \* the node that the pass is working on
  \* Bounds.
  edits, faults

objects == <<cr, zone, label, mod, ds>>
pods == <<dp, ldr, app>>
locals == <<pc, req, work, cur>>
bounds == <<edits, faults>>
vars == <<objects, pods, cache, queued, locals, bounds>>

\* The three label keys: kmmOnloadLabelName, kmmSFCLabelName, onloadLabelName.
LabelKeys == {"kmm", "sfc", "onl"}

\* The two Modules: onloadModuleNameSuffix, sfcModuleNameSuffix.
Modules == {"onload", "sfc"}

\* The Module whose loader pods a KMM label gates.
ModuleOf(l) == IF l = "sfc" THEN "sfc" ELSE "onload"

\* The label that gates the loader pods of a Module.
LabelOf(m) == IF m = "sfc" THEN "sfc" ELSE "kmm"

VersionOrNone == Versions \cup {None}

\* The fields of an Onload resource that the reconciler acts on.
Onloads == [ver: Versions, sfc: SfcUse, sel: Selectors, del: BOOLEAN, uid: Nat]

\* Modules and the DaemonSet: version, copied selector and controller owner.
Dependents == [ver: Versions, sel: Selectors, uid: Nat]

\* An absent object is none of the objects.
ASSUME AbsentAssumption == None \notin Onloads /\ None \notin Dependents

AppStates == {"none", "running", "terminating"}

Steps == {"kmm", "kmmLoop", "staleKmm", "staleSfc", "staleOnl", "staleLoop",
          "createOnload", "createSfc", "onl", "onlLoop", "createDs",
          "updateDs", "updateOnload", "updateSfc", "pick", "dropOnl",
          "checkDp", "evict", "dropSfc", "dropKmm",
          "delKmm", "delSfc", "delOnl", "delLoop"}

Caches ==
  [cr: Onloads \cup {None}, zone: [Nodes -> Keys],
   label: [Nodes -> [LabelKeys -> VersionOrNone]],
   mod: [Modules -> Dependents \cup {None}], ds: Dependents \cup {None},
   dp: [Nodes -> VersionOrNone],
   ldr: [Nodes -> [Modules -> VersionOrNone]], app: [Nodes -> AppStates]]

\* Every variable holds a value of its kind: labels carry versions the
\* resource has had, a pass works on nodes of the cluster, and the bounds hold.
TypeOK ==
  /\ cr \in Onloads \cup {None}
  /\ zone \in [Nodes -> Keys]
  /\ label \in [Nodes -> [LabelKeys -> VersionOrNone]]
  /\ mod \in [Modules -> Dependents \cup {None}]
  /\ ds \in Dependents \cup {None}
  /\ dp \in [Nodes -> VersionOrNone]
  /\ ldr \in [Nodes -> [Modules -> VersionOrNone]]
  /\ app \in [Nodes -> AppStates]
  /\ cache \in Caches
  /\ queued \in BOOLEAN
  /\ pc \in Steps \cup {"idle", "down"}
  /\ req \in Onloads \cup {None}
  /\ work \subseteq Nodes \X LabelKeys
  /\ cur \in Nodes \cup {None}
  /\ edits \in 0..MaxEdits
  /\ faults \in 0..MaxFaults

Snapshot ==
  [cr |-> cr, zone |-> zone, label |-> label, mod |-> mod, ds |-> ds,
   dp |-> dp, ldr |-> ldr, app |-> app]

Init ==
  /\ cr = None
  /\ zone \in [Nodes -> Keys]
  /\ label = [n \in Nodes |-> [l \in LabelKeys |-> None]]
  /\ mod = [m \in Modules |-> None]
  /\ ds = None
  /\ dp = [n \in Nodes |-> None]
  /\ ldr = [n \in Nodes |-> [m \in Modules |-> None]]
  /\ app = [n \in Nodes |-> "none"]
  /\ cache = Snapshot
  /\ queued = FALSE
  /\ pc = "idle"
  /\ req = None
  /\ work = {}
  /\ cur = None
  /\ edits = 0
  /\ faults = 0

-----------------------------------------------------------------------------
(***************************************************************************)
(* Reads go to the cache of a kind when that cache may lag.                *)
(***************************************************************************)
vCr == IF "cr" \in Lagging THEN cache.cr ELSE cr
vZone == IF "node" \in Lagging THEN cache.zone ELSE zone
vLabel == IF "node" \in Lagging THEN cache.label ELSE label
vMod == IF "mod" \in Lagging THEN cache.mod ELSE mod
vDs == IF "ds" \in Lagging THEN cache.ds ELSE ds
vDp == IF "pod" \in Lagging THEN cache.dp ELSE dp
vLdr == IF "pod" \in Lagging THEN cache.ldr ELSE ldr
vApp == IF "pod" \in Lagging THEN cache.app ELSE app

\* Whether the watch event for a change of kind k reaches the work queue: the
\* event of a node is mapped to the resources that exist at that moment.
Enqueues(k) == k = "node" => vCr # None

\* A change of kind k is seen at once when its cache does not lag; otherwise
\* the event comes with the synchronisation of the cache.
SeenAtOnce(k) == k \notin Lagging /\ Enqueues(k)

\* What the Go expression node.Labels[key] evaluates to.
Value(l) == IF l = None THEN EmptyVersion ELSE l

Goto(step) == pc' = step /\ UNCHANGED <<req, work, cur>>

EndPass == pc' = "idle" /\ req' = None /\ work' = {} /\ cur' = None

\* Reconcile returns a Result with Requeue or RequeueAfter, or an error.
Requeue == EndPass /\ queued' = TRUE

\* Reconcile returns an empty Result.
Done == EndPass /\ UNCHANGED queued

\* Starts on the label changes decided from a node list, or moves on.
WorkOrElse(todo, loop, next) ==
  /\ work' = todo
  /\ pc' = IF todo = {} THEN next ELSE loop
  /\ cur' = None
  /\ UNCHANGED <<req, queued>>

\* Ends an iteration of such a loop; a loop that changed something requeues.
NextWork(item, n) ==
  IF work = {item} THEN Requeue
  ELSE /\ work' = work \ {item}
       /\ cur' = n
       /\ queued' = (queued \/ SeenAtOnce("node"))
       /\ UNCHANGED <<pc, req>>

-----------------------------------------------------------------------------
(***************************************************************************)
(* Reconcile.                                                              *)
(***************************************************************************)

\* Slip: the suffix is not counted.
TooLongSlip == CombinedLen > 39

\* KMM limits the length of a Module's name and namespace; the suffix
\* "-module" is added to the name of the resource.
TooLong == CombinedLen + 7 > 39

\* Slip: a resource that is being deleted is reconciled like any other.
ReconcileSlip ==
  /\ pc = "idle"
  /\ queued
  /\ pc' = IF vCr = None THEN "delKmm" ELSE "kmm"
  /\ req' = vCr
  /\ queued' = FALSE
  /\ UNCHANGED <<objects, pods, cache, bounds, work, cur>>

\* The start of a pass: a missing resource means label removal, one that is
\* being deleted is left alone, one with a long name is an error.
Reconcile ==
  /\ pc = "idle"
  /\ queued
  /\ UNCHANGED <<objects, pods, cache, bounds>>
  /\ \/ /\ vCr = None
        /\ pc' = "delKmm"
        /\ queued' = FALSE
        /\ UNCHANGED <<req, work, cur>>
     \/ /\ vCr # None
        /\ vCr.del
        /\ queued' = FALSE
        /\ UNCHANGED locals
     \/ /\ vCr # None
        /\ ~vCr.del
        /\ TooLong
        /\ UNCHANGED <<queued, locals>>
     \/ /\ vCr # None
        /\ ~vCr.del
        /\ ~TooLong
        /\ pc' = "kmm"
        /\ req' = vCr
        /\ queued' = FALSE
        /\ UNCHANGED <<work, cur>>

-----------------------------------------------------------------------------
(***************************************************************************)
(* addKmmLabelsToNodes, addOnloadLabelsToNodes, removeStaleLabels.         *)
(***************************************************************************)
Selected(n) == vZone[n] = req.sel

\* The KMM label goes to the selected nodes without one; the SFC label only
\* beside a KMM label of the resource's version, which may be one that the
\* same iteration has just set.
KmmWork ==
  {<<n, "kmm">> : n \in {k \in Nodes : Selected(k) /\ vLabel[k]["kmm"] = None}}
  \cup
  {<<n, "sfc">> : n \in {k \in Nodes :
      /\ Selected(k)
      /\ req.sfc
      /\ vLabel[k]["sfc"] = None
      /\ vLabel[k]["kmm"] = None \/ vLabel[k]["kmm"] = req.ver}}

AddKmmLabelsToNodes ==
  /\ pc = "kmm"
  /\ WorkOrElse(KmmWork, "kmmLoop", "staleKmm")
  /\ UNCHANGED <<objects, pods, cache, bounds>>

\* The order of the nodes is arbitrary; a node's two labels are handled one
\* after the other, the KMM label first.
IsNext(n, l) ==
  /\ <<n, l>> \in work
  /\ l = "sfc" => <<n, "kmm">> \notin work
  /\ (\E k \in LabelKeys : <<cur, k>> \in work) => n = cur

\* Slip: a node with a lingering loader pod is skipped instead of waited for.
AddKmmLabelToNodeSkip(n, l) ==
  /\ pc = "kmmLoop"
  /\ IsNext(n, l)
  /\ IF vLdr[n][ModuleOf(l)] # None
     THEN /\ work' = work \ {<<n, l>>}
          /\ pc' = IF work' = {} THEN "staleKmm" ELSE pc
          /\ cur' = n
          /\ UNCHANGED <<label, req, queued>>
     ELSE /\ label' = [label EXCEPT ![n][l] = req.ver]
          /\ NextWork(<<n, l>>, n)
  /\ UNCHANGED <<cr, zone, mod, ds, pods, cache, bounds>>

\* Slip: lingering loader pods are not looked for.
AddKmmLabelToNodeNow(n, l) ==
  /\ pc = "kmmLoop"
  /\ IsNext(n, l)
  /\ label' = [label EXCEPT ![n][l] = req.ver]
  /\ NextWork(<<n, l>>, n)
  /\ UNCHANGED <<cr, zone, mod, ds, pods, cache, bounds>>

\* A lingering loader pod ends the pass, with a later retry.
AddKmmLabelToNode(n, l) ==
  /\ pc = "kmmLoop"
  /\ IsNext(n, l)
  /\ IF vLdr[n][ModuleOf(l)] # None
     THEN Requeue /\ UNCHANGED label
     ELSE /\ label' = [label EXCEPT ![n][l] = req.ver]
          /\ NextWork(<<n, l>>, n)
  /\ UNCHANGED <<cr, zone, mod, ds, pods, cache, bounds>>

\* The phases that look for labels on nodes outside the selector.
StaleStep(l) ==
  CASE l = "kmm" -> "staleKmm" [] l = "sfc" -> "staleSfc" [] OTHER -> "staleOnl"

AfterStale(l) ==
  CASE l = "kmm" -> "staleSfc" [] l = "sfc" -> "createOnload" [] OTHER -> "createDs"

RemoveStaleLabels(l) ==
  /\ pc = StaleStep(l)
  /\ WorkOrElse({<<n, l>> : n \in {k \in Nodes : vLabel[k][l] # None /\ ~Selected(k)}},
                "staleLoop", AfterStale(l))
  /\ UNCHANGED <<objects, pods, cache, bounds>>

RemoveStaleLabel(n, l) ==
  /\ pc = "staleLoop"
  /\ <<n, l>> \in work
  /\ label' = [label EXCEPT ![n][l] = None]
  /\ NextWork(<<n, l>>, n)
  /\ UNCHANGED <<cr, zone, mod, ds, pods, cache, bounds>>

\* An Onload label that is already there is never changed.
OnloadWork ==
  {<<n, "onl">> : n \in {k \in Nodes :
      /\ Selected(k)
      /\ Value(vLabel[k]["kmm"]) = req.ver
      /\ vLabel[k]["onl"] = None}}

AddOnloadLabelsToNodes ==
  /\ pc = "onl"
  /\ WorkOrElse(OnloadWork, "onlLoop", "staleOnl")
  /\ UNCHANGED <<objects, pods, cache, bounds>>

AddOnloadLabelToNode(n) ==
  /\ pc = "onlLoop"
  /\ <<n, "onl">> \in work
  /\ label' = [label EXCEPT ![n]["onl"] = req.ver]
  /\ NextWork(<<n, "onl">>, n)
  /\ UNCHANGED <<cr, zone, mod, ds, pods, cache, bounds>>

-----------------------------------------------------------------------------
(***************************************************************************)
(* createAndAddModules, createDevicePluginDaemonSet.                       *)
(***************************************************************************)
NewDependent == [ver |-> req.ver, sel |-> req.sel, uid |-> req.uid]

CreateStep(m) == IF m = "onload" THEN "createOnload" ELSE "createSfc"

AfterCreate(m) == IF m = "onload" /\ req.sfc THEN "createSfc" ELSE "onl"

\* An object that exists although the cache does not show it makes the
\* creation fail, which is an error of the pass.
CreateAndAddModule(m) ==
  /\ pc = CreateStep(m)
  /\ IF vMod[m] # None
     THEN Goto(AfterCreate(m)) /\ UNCHANGED <<mod, queued>>
     ELSE /\ mod' = IF mod[m] = None THEN [mod EXCEPT ![m] = NewDependent] ELSE mod
          /\ Requeue
  /\ UNCHANGED <<cr, zone, label, ds, pods, cache, bounds>>

CreateDevicePluginDaemonSet ==
  /\ pc = "createDs"
  /\ IF vDs # None
     THEN Goto("updateDs") /\ UNCHANGED <<ds, queued>>
     ELSE /\ ds' = IF ds = None THEN NewDependent ELSE ds
          /\ Requeue
  /\ UNCHANGED <<cr, zone, label, mod, pods, cache, bounds>>

-----------------------------------------------------------------------------
(***************************************************************************)
(* handleUpdate: handleDevicePluginUpdate, handleModuleUpdate, and         *)
(* handleNodeUpdate for the first node that needs it.                      *)
(***************************************************************************)

\* A patch changes the version and leaves the copied selector; it fails when
\* the object has gone.
Patched(obj) == IF obj = None THEN None ELSE [obj EXCEPT !.ver = req.ver]

\* Slip: the DaemonSet is left at the version that it was created with.
HandleDevicePluginUpdateSlip ==
  /\ pc = "updateDs"
  /\ Goto("updateOnload")
  /\ UNCHANGED <<objects, pods, cache, queued, bounds>>

HandleDevicePluginUpdate ==
  /\ pc = "updateDs"
  /\ IF vDs # None /\ vDs.ver = req.ver
     THEN Goto("updateOnload") /\ UNCHANGED <<ds, queued>>
     ELSE /\ ds' = IF vDs = None THEN ds ELSE Patched(ds)
          /\ Requeue
  /\ UNCHANGED <<cr, zone, label, mod, pods, cache, bounds>>

UpdateStep(m) == IF m = "onload" THEN "updateOnload" ELSE "updateSfc"

AfterUpdate(m) == IF m = "onload" THEN "updateSfc" ELSE "pick"

IsUsed(m) == m = "onload" \/ req.sfc

\* The table in handleModuleUpdate: patch, delete, error or continue.
PatchOrDeleteModule(m) ==
  /\ pc = UpdateStep(m)
  /\ IF (IsUsed(m) /\ vMod[m] # None /\ vMod[m].ver = req.ver)
           \/ (~IsUsed(m) /\ vMod[m] = None)
     THEN Goto(AfterUpdate(m)) /\ UNCHANGED <<mod, queued>>
     ELSE /\ mod' = CASE vMod[m] = None -> mod
                      [] vMod[m] # None /\ IsUsed(m) ->
                           [mod EXCEPT ![m] = Patched(mod[m])]
                      [] OTHER -> [mod EXCEPT ![m] = None]
          /\ Requeue
  /\ UNCHANGED <<cr, zone, label, ds, pods, cache, bounds>>

GetNodesToUpgrade == {n \in Nodes : vLabel[n]["kmm"] \notin {None, req.ver}}

\* The labels that a merge patch computed from the listed node would remove.
DropWork(n) == {<<n, l>> : l \in {k \in {"kmm", "sfc"} : vLabel[n][k] # None}}

\* The first node by name.  Its Onload label goes first, unless it already
\* has the new version.
HandleUpdate ==
  /\ pc = "pick"
  /\ \/ /\ GetNodesToUpgrade = {}
        /\ Done
     \/ \E n \in GetNodesToUpgrade :
          /\ \A k \in GetNodesToUpgrade : n <= k
          /\ cur' = n
          /\ work' = DropWork(n)
          /\ pc' = IF vLabel[n]["onl"] \in {None, req.ver} THEN "checkDp" ELSE "dropOnl"
          /\ UNCHANGED <<req, queued>>
  /\ UNCHANGED <<objects, pods, cache, bounds>>

DropOnloadLabel ==
  /\ pc = "dropOnl"
  /\ label' = [label EXCEPT ![cur]["onl"] = None]
  /\ Requeue
  /\ UNCHANGED <<cr, zone, mod, ds, pods, cache, bounds>>

\* Slip: the Device Plugin pod is not waited for.
CheckDevicePluginPodSkip ==
  /\ pc = "checkDp"
  /\ Goto("evict")
  /\ UNCHANGED <<objects, pods, cache, queued, bounds>>

\* Slip: a remaining Device Plugin pod ends the pass without a later retry.
CheckDevicePluginPodDone ==
  /\ pc = "checkDp"
  /\ IF vDp[cur] # None
     THEN Done
     ELSE Goto("evict") /\ UNCHANGED queued
  /\ UNCHANGED <<objects, pods, cache, bounds>>

CheckDevicePluginPod ==
  /\ pc = "checkDp"
  /\ IF vDp[cur] # None
     THEN Requeue
     ELSE Goto("evict") /\ UNCHANGED queued
  /\ UNCHANGED <<objects, pods, cache, bounds>>

\* Slip: a pod that is being terminated counts as gone.
EvictOnloadedPodsHasty ==
  /\ pc = "evict"
  /\ IF vApp[cur] # "running"
     THEN Goto("dropSfc") /\ UNCHANGED <<app, queued>>
     ELSE /\ app' = IF app[cur] = "running"
                    THEN [app EXCEPT ![cur] = "terminating"] ELSE app
          /\ Requeue
  /\ UNCHANGED <<objects, dp, ldr, cache, bounds>>

\* Slip: no later retry after the evictions.
EvictOnloadedPodsDone ==
  /\ pc = "evict"
  /\ IF vApp[cur] = "none"
     THEN Goto("dropSfc") /\ UNCHANGED app
     ELSE /\ app' = IF vApp[cur] = "running" /\ app[cur] = "running"
                    THEN [app EXCEPT ![cur] = "terminating"] ELSE app
          /\ EndPass
  /\ UNCHANGED <<objects, dp, ldr, cache, queued, bounds>>

\* Evicting a pod that has gone in the meantime is an error of the pass.
EvictOnloadedPods ==
  /\ pc = "evict"
  /\ IF vApp[cur] = "none"
     THEN Goto("dropSfc") /\ UNCHANGED <<app, queued>>
     ELSE /\ app' = IF vApp[cur] = "running" /\ app[cur] = "running"
                    THEN [app EXCEPT ![cur] = "terminating"] ELSE app
          /\ Requeue
  /\ UNCHANGED <<objects, dp, ldr, cache, bounds>>

\* Slip: the SFC label stays behind.
DropSfcLabelSlip ==
  /\ pc = "dropSfc"
  /\ Goto("dropKmm")
  /\ UNCHANGED <<objects, pods, cache, queued, bounds>>

DropSfcLabel ==
  /\ pc = "dropSfc"
  /\ label' = IF <<cur, "sfc">> \in work
              THEN [label EXCEPT ![cur]["sfc"] = None] ELSE label
  /\ Goto("dropKmm")
  /\ queued' = (queued \/ (label' # label /\ SeenAtOnce("node")))
  /\ UNCHANGED <<cr, zone, mod, ds, pods, cache, bounds>>

\* Slip: the label is emptied instead of removed.
DropKmmLabelSlip ==
  /\ pc = "dropKmm"
  /\ label' = [label EXCEPT ![cur]["kmm"] = EmptyVersion]
  /\ Requeue
  /\ UNCHANGED <<cr, zone, mod, ds, pods, cache, bounds>>

DropKmmLabel ==
  /\ pc = "dropKmm"
  /\ label' = [label EXCEPT ![cur]["kmm"] = None]
  /\ Requeue
  /\ UNCHANGED <<cr, zone, mod, ds, pods, cache, bounds>>

-----------------------------------------------------------------------------
(***************************************************************************)
(* deleteLabels, for a resource that is gone.                              *)
(***************************************************************************)
DeleteStep(l) ==
  CASE l = "kmm" -> "delKmm" [] l = "sfc" -> "delSfc" [] OTHER -> "delOnl"

\* Slip: the SFC labels are forgotten.
AfterDeleteSlip(l) == IF l = "kmm" THEN "delOnl" ELSE "idle"

AfterDelete(l) ==
  CASE l = "kmm" -> "delSfc" [] l = "sfc" -> "delOnl" [] OTHER -> "idle"

DeleteLabels(l) ==
  /\ pc = DeleteStep(l)
  /\ WorkOrElse({<<n, l>> : n \in {k \in Nodes : vLabel[k][l] # None}},
                "delLoop", AfterDelete(l))
  /\ UNCHANGED <<objects, pods, cache, bounds>>

\* The end of an iteration, whether or not its patch succeeded.
NextDelete(n, l) ==
  /\ work' = work \ {<<n, l>>}
  /\ pc' = IF work = {<<n, l>>} THEN AfterDelete(l) ELSE pc
  /\ UNCHANGED <<req, cur>>

DeleteLabelFromNode(n, l) ==
  /\ pc = "delLoop"
  /\ <<n, l>> \in work
  /\ label' = [label EXCEPT ![n][l] = None]
  /\ NextDelete(n, l)
  /\ queued' = (queued \/ SeenAtOnce("node"))
  /\ UNCHANGED <<cr, zone, mod, ds, pods, cache, bounds>>

-----------------------------------------------------------------------------
(***************************************************************************)
(* Faults, each counted against MaxFaults.                                 *)
(***************************************************************************)
Fault(kind) ==
  /\ kind \in FaultKinds
  /\ faults < MaxFaults
  /\ faults' = faults + 1
  /\ UNCHANGED edits

\* An API call fails: the pass returns the error, and what it had already
\* changed stays changed.
AbortPass ==
  /\ pc \notin {"idle", "down", "delLoop"}
  /\ Requeue
  /\ Fault("write")
  /\ UNCHANGED <<objects, pods, cache>>

\* In deleteLabels a failed patch is logged and the loop goes on.
SkipFailedDelete(n, l) ==
  /\ pc = "delLoop"
  /\ <<n, l>> \in work
  /\ NextDelete(n, l)
  /\ Fault("write")
  /\ UNCHANGED <<objects, pods, cache, queued>>

\* getPodsUsingOnload logs a failed list and returns the empty list.
ListPodsFails ==
  /\ pc = "evict"
  /\ Goto("dropSfc")
  /\ Fault("podlist")
  /\ UNCHANGED <<objects, pods, cache, queued>>

\* The operator's process ends.
Crash ==
  /\ pc # "down"
  /\ pc' = "down"
  /\ req' = None
  /\ work' = {}
  /\ cur' = None
  /\ queued' = FALSE
  /\ Fault("crash")
  /\ UNCHANGED <<objects, pods, cache>>

\* A Device Plugin pod is deleted by a node failure or by hand.
DevicePluginPodLost(n) ==
  /\ dp[n] # None
  /\ dp' = [dp EXCEPT ![n] = None]
  /\ Fault("restart")
  /\ UNCHANGED <<objects, ldr, app, cache, queued, locals>>

-----------------------------------------------------------------------------
(***************************************************************************)
(* Informers: a synchronisation brings a kind's cache up to date and       *)
(* enqueues the resource; pods are cached but not watched.                 *)
(***************************************************************************)
WithCr(c) == IF "cr" \in Lagging THEN [c EXCEPT !.cr = cr] ELSE c

WithNode(c) ==
  IF "node" \in Lagging THEN [c EXCEPT !.zone = zone, !.label = label] ELSE c

WithMod(c) == IF "mod" \in Lagging THEN [c EXCEPT !.mod = mod] ELSE c

WithDs(c) == IF "ds" \in Lagging THEN [c EXCEPT !.ds = ds] ELSE c

WithPod(c) ==
  IF "pod" \in Lagging THEN [c EXCEPT !.dp = dp, !.ldr = ldr, !.app = app] ELSE c

Synced(k) ==
  CASE k = "cr" -> WithCr(cache) [] k = "node" -> WithNode(cache)
    [] k = "mod" -> WithMod(cache) [] k = "ds" -> WithDs(cache)
    [] OTHER -> WithPod(cache)

Sync(k) ==
  /\ pc # "down"
  /\ k \in Lagging
  /\ cache' = Synced(k)
  /\ cache' # cache
  /\ queued' = (queued \/ (k # "pod" /\ Enqueues(k)))
  /\ UNCHANGED <<objects, pods, locals, bounds>>

\* Every informer lists its kind before the controller starts; the resource
\* is enqueued for itself and for each object that it owns.
Restart ==
  /\ pc = "down"
  /\ pc' = "idle"
  /\ cache' = WithCr(WithNode(WithMod(WithDs(WithPod(cache)))))
  /\ queued' = (cr # None \/ ds # None \/ \E m \in Modules : mod[m] # None)
  /\ UNCHANGED <<objects, pods, req, work, cur, bounds>>

\* A node's kubelet updates the node's status.
Heartbeat ==
  /\ pc # "down"
  /\ ~queued
  /\ vCr # None
  /\ queued' = TRUE
  /\ UNCHANGED <<objects, pods, cache, locals, bounds>>

-----------------------------------------------------------------------------
(***************************************************************************)
(* Users.                                                                  *)
(***************************************************************************)

\* A node that runs what a resource of this content asks for.
NodeReady(n) ==
  IF zone[n] = cr.sel
  THEN /\ label[n]["kmm"] = cr.ver
       /\ label[n]["sfc"] = IF cr.sfc THEN cr.ver ELSE None
       /\ label[n]["onl"] = cr.ver
       /\ dp[n] = cr.ver
       /\ \A m \in Modules : ldr[n][m] = label[n][LabelOf(m)]
  ELSE /\ \A l \in LabelKeys : label[n][l] = None
       /\ dp[n] = None
       /\ \A m \in Modules : ldr[n][m] = None

\* Nothing of a resource is left in the cluster.
Clean ==
  /\ ds = None
  /\ \A m \in Modules : mod[m] = None
  /\ \A n \in Nodes :
       /\ \A l \in LabelKeys : label[n][l] = None
       /\ dp[n] = None
       /\ \A m \in Modules : ldr[n][m] = None

\* The Modules and the DaemonSet are those that the resource asks for.
ObjectsReady ==
  /\ ds # None
  /\ ds.ver = cr.ver
  /\ \A m \in Modules :
       IF m = "onload" \/ cr.sfc THEN mod[m] # None /\ mod[m].ver = cr.ver
       ELSE mod[m] = None

\* What kubectl shows to a user who waits for a change to be carried out.
RolloutDone ==
  IF cr = None THEN Clean ELSE ObjectsReady /\ \A n \in Nodes : NodeReady(n)

UserEdit(op, kind) ==
  /\ op \in UserOps
  /\ edits < MaxEdits
  /\ EditsWait => RolloutDone
  /\ edits' = edits + 1
  /\ queued' = (queued \/ SeenAtOnce(kind))
  /\ UNCHANGED faults

CreateOnload ==
  /\ cr = None
  /\ \E v \in Versions, s \in SfcUse, k \in Selectors :
       cr' = [ver |-> v, sfc |-> s, sel |-> k, del |-> FALSE, uid |-> edits]
  /\ UserEdit("create", "cr")
  /\ UNCHANGED <<zone, label, mod, ds, pods, cache, locals>>

EditOnload ==
  /\ cr # None
  /\ ~cr.del
  /\ \E v \in Versions, s \in SfcUse, k \in Selectors :
       cr' = [cr EXCEPT !.ver = v, !.sfc = s, !.sel = k]
  /\ cr' # cr
  /\ UserEdit("edit", "cr")
  /\ UNCHANGED <<zone, label, mod, ds, pods, cache, locals>>

\* Deletion with the background policy removes the resource at once, with the
\* foreground policy after the objects that it owns.
DeleteOnload ==
  /\ cr # None
  /\ ~cr.del
  /\ cr' \in {None, [cr EXCEPT !.del = TRUE]}
  /\ UserEdit("delete", "cr")
  /\ UNCHANGED <<zone, label, mod, ds, pods, cache, locals>>

RelabelNode(n) ==
  /\ \E k \in Keys \ {zone[n]} : zone' = [zone EXCEPT ![n] = k]
  /\ UserEdit("relabel", "node")
  /\ UNCHANGED <<cr, label, mod, ds, pods, cache, locals>>

-----------------------------------------------------------------------------
(***************************************************************************)
(* Kubernetes' garbage collector, the KMM operator, the DaemonSet          *)
(* controller and the application pods.                                    *)
(***************************************************************************)
Orphan(obj) == obj # None /\ (cr # None => cr.del \/ cr.uid # obj.uid)

CollectModule(m) ==
  /\ Orphan(mod[m])
  /\ mod' = [mod EXCEPT ![m] = None]
  /\ queued' = (queued \/ SeenAtOnce("mod"))
  /\ UNCHANGED <<cr, zone, label, ds, pods, cache, locals, bounds>>

CollectDaemonSet ==
  /\ Orphan(ds)
  /\ ds' = None
  /\ queued' = (queued \/ SeenAtOnce("ds"))
  /\ UNCHANGED <<cr, zone, label, mod, pods, cache, locals, bounds>>

FinishDeletion ==
  /\ cr # None
  /\ cr.del
  /\ ds # None => ds.uid # cr.uid
  /\ \A m \in Modules : mod[m] # None => mod[m].uid # cr.uid
  /\ cr' = None
  /\ queued' = (queued \/ SeenAtOnce("cr"))
  /\ UNCHANGED <<zone, label, mod, ds, pods, cache, locals, bounds>>

\* KMM runs a loader pod where the Module's selector and the node's version
\* label agree with the Module; a loaded version stays while its label stays.
LoaderStart(n, m) ==
  /\ mod[m] # None
  /\ zone[n] = mod[m].sel
  /\ label[n][LabelOf(m)] = mod[m].ver
  /\ ldr[n][m] = None
  /\ ldr' = [ldr EXCEPT ![n][m] = mod[m].ver]
  /\ UNCHANGED <<objects, dp, app, cache, queued, locals, bounds>>

LoaderStop(n, m) ==
  /\ ldr[n][m] # None
  /\ \/ mod[m] = None
     \/ mod[m] # None /\ zone[n] # mod[m].sel
     \/ label[n][LabelOf(m)] # ldr[n][m]
  /\ ldr' = [ldr EXCEPT ![n][m] = None]
  /\ UNCHANGED <<objects, dp, app, cache, queued, locals, bounds>>

\* The DaemonSet's node selector and node affinity; with the OnDelete strategy
\* a running pod keeps the template that it was started from.
WantsDevicePlugin(n) ==
  ds # None /\ zone[n] = ds.sel /\ label[n]["onl"] # None

DevicePluginStart(n) ==
  /\ WantsDevicePlugin(n)
  /\ dp[n] = None
  /\ dp' = [dp EXCEPT ![n] = ds.ver]
  /\ UNCHANGED <<objects, ldr, app, cache, queued, locals, bounds>>

DevicePluginStop(n) ==
  /\ dp[n] # None
  /\ ~WantsDevicePlugin(n)
  /\ dp' = [dp EXCEPT ![n] = None]
  /\ UNCHANGED <<objects, ldr, app, cache, queued, locals, bounds>>

\* A pod that requests amd.com/onload needs a Device Plugin on its node.
AppStart(n) ==
  /\ app[n] = "none"
  /\ dp[n] # None
  /\ app' = [app EXCEPT ![n] = "running"]
  /\ UNCHANGED <<objects, dp, ldr, cache, queued, locals, bounds>>

AppStop(n) ==
  /\ app[n] # "none"
  /\ app' = [app EXCEPT ![n] = "none"]
  /\ UNCHANGED <<objects, dp, ldr, cache, queued, locals, bounds>>

-----------------------------------------------------------------------------

\* One step of the reconciler's code.
ReconcileStep ==
  \/ Reconcile
  \/ AddKmmLabelsToNodes
  \/ \E n \in Nodes, l \in {"kmm", "sfc"} : AddKmmLabelToNode(n, l)
  \/ \E l \in LabelKeys : RemoveStaleLabels(l)
  \/ \E n \in Nodes, l \in LabelKeys : RemoveStaleLabel(n, l)
  \/ \E m \in Modules : CreateAndAddModule(m)
  \/ AddOnloadLabelsToNodes
  \/ \E n \in Nodes : AddOnloadLabelToNode(n)
  \/ CreateDevicePluginDaemonSet
  \/ HandleDevicePluginUpdate
  \/ \E m \in Modules : PatchOrDeleteModule(m)
  \/ HandleUpdate
  \/ DropOnloadLabel
  \/ CheckDevicePluginPod
  \/ EvictOnloadedPods
  \/ DropSfcLabel
  \/ DropKmmLabel
  \/ \E l \in LabelKeys : DeleteLabels(l)
  \/ \E n \in Nodes, l \in LabelKeys : DeleteLabelFromNode(n, l)

FaultStep ==
  \/ AbortPass
  \/ \E n \in Nodes, l \in LabelKeys : SkipFailedDelete(n, l)
  \/ ListPodsFails
  \/ Crash
  \/ \E n \in Nodes : DevicePluginPodLost(n)

InformerStep == (\E k \in Kinds : Sync(k)) \/ Restart \/ Heartbeat

UserStep ==
  \/ CreateOnload
  \/ EditOnload
  \/ DeleteOnload
  \/ \E n \in Nodes : RelabelNode(n)

ClusterStep ==
  \/ \E m \in Modules : CollectModule(m)
  \/ CollectDaemonSet
  \/ FinishDeletion
  \/ \E n \in Nodes, m \in Modules : LoaderStart(n, m) \/ LoaderStop(n, m)
  \/ \E n \in Nodes : DevicePluginStart(n) \/ DevicePluginStop(n)
  \/ \E n \in Nodes : AppStart(n) \/ AppStop(n)

Next == ReconcileStep \/ FaultStep \/ InformerStep \/ UserStep \/ ClusterStep

Spec == Init /\ [][Next]_vars

\* The work queue runs a queued resource, caches catch up, a crashed operator
\* is restarted, and the cluster's controllers act on what they see.  Users do
\* nothing they need to; a pod that is being terminated terminates.
Fairness ==
  /\ WF_vars(ReconcileStep)
  /\ \A k \in Kinds : WF_vars(Sync(k))
  /\ WF_vars(Restart)
  /\ \A m \in Modules : WF_vars(CollectModule(m))
  /\ WF_vars(CollectDaemonSet)
  /\ WF_vars(FinishDeletion)
  /\ \A n \in Nodes :
       /\ \A m \in Modules : WF_vars(LoaderStart(n, m)) /\ WF_vars(LoaderStop(n, m))
       /\ WF_vars(DevicePluginStart(n))
       /\ WF_vars(DevicePluginStop(n))
       /\ WF_vars(app[n] = "terminating" /\ AppStop(n))

FairSpec == Spec /\ Fairness

-----------------------------------------------------------------------------
(***************************************************************************)
(* Properties.                                                             *)
(***************************************************************************)

\* A node's SFC and Onload labels never name another version than its KMM
\* label, and never outlive it: such a node would count as upgraded, and no
\* later pass would bring its labels together (addKmmLabelsToNodes and
\* addOnloadLabelsToNodes only add labels that are missing).
LabelsAgree ==
  \A n \in Nodes : \A l \in {"sfc", "onl"} : label[n][l] \in {None, label[n]["kmm"]}

\* handleNodeUpdate takes a node out of service before its kernel modules are
\* unloaded: on a node that the resource selects no loader pod stops while the
\* node runs a Device Plugin or a pod that uses Onload.
NeverUnloadedInUse ==
  [][\A n \in Nodes, m \in Modules :
       /\ cr # None
       /\ ~cr.del
       /\ zone[n] = cr.sel
       /\ ldr[n][m] # None
       /\ ldr'[n][m] = None
       => dp[n] = None /\ app[n] = "none"]_vars

\* evictOnloadedPods acts on a node only once the node's Device Plugin is gone
\* for good, so that an evicted pod does not come back to the same node.
EvictAfterDevicePlugin ==
  [][\A n \in Nodes :
       (app[n] = "running" /\ app'[n] = "terminating") =>
         (dp[n] = None /\ label[n]["onl"] = None)]_vars

\* handleUpdate upgrades one node at a time: a node loses its KMM label to an
\* upgrade only while every other selected node has one.
NodeByNode ==
  [][\A n \in Nodes :
       (pc = "dropKmm" /\ label[n]["kmm"] # None /\ label'[n]["kmm"] = None) =>
         \A k \in Nodes \ {n} : zone[k] = req.sel => label[k]["kmm"] # None]_vars

\* The user-space files that a node's Device Plugin installed and the Onload
\* kernel module loaded there have the same version.
VersionsMatch ==
  \A n \in Nodes :
    (dp[n] # None /\ ldr[n]["onload"] # None) => dp[n] = ldr[n]["onload"]

\* The next node is touched only once the nodes before it are back in service:
\* module loaded and Device Plugin running at the new version.
UpgradedBeforeNext ==
  [][\A n \in Nodes :
       (pc = "dropOnl" /\ label[n]["onl"] # None /\ label'[n]["onl"] = None) =>
         \A k \in Nodes \ {n} :
           label[k]["kmm"] = req.ver => ldr[k]["onload"] = req.ver /\ dp[k] = req.ver]_vars

\* Once users stop, labels, Modules and DaemonSet come to the version of the
\* resource and stay there.
LabelsConverge ==
  <>[](cr = None \/ cr.del
        \/ /\ ObjectsReady
           /\ \A n \in Nodes :
                IF zone[n] = cr.sel
                THEN /\ label[n]["kmm"] = cr.ver
                     /\ label[n]["onl"] = cr.ver
                     /\ cr.sfc => label[n]["sfc"] = cr.ver
                ELSE \A l \in LabelKeys : label[n][l] = None)

\* Once users stop, every selected node gets the KMM label of the version of
\* the resource: the upgrade does not stop half way.
NodesUpgraded ==
  <>[](cr = None \/ cr.del
        \/ \A n \in Nodes : zone[n] = cr.sel => label[n]["kmm"] = cr.ver)

\* Once users stop, every selected node runs the version of the resource.
Converges == <>[](cr = None \/ cr.del \/ \A n \in Nodes : NodeReady(n))

\* Deletion completes: the Modules, the DaemonSet and their pods go, those
\* included that a pass in flight creates late, and so does the resource,
\* unless it is created again first.
Uninstalled ==
  (cr = None \/ cr.del) ~>
    \/ cr # None /\ ~cr.del
    \/ /\ cr = None
       /\ ds = None
       /\ \A m \in Modules : mod[m] = None
       /\ \A n \in Nodes : dp[n] = None /\ \A m \in Modules : ldr[n][m] = None

\* A resource whose name is too long leaves no trace in the cluster.
LongNameIgnored == CombinedLen > 32 => Clean

\* After the resource is gone the operator's labels are removed from every
\* node, unless the resource is created again first.
LabelsRemoved ==
  cr = None ~> (cr # None \/ \A n \in Nodes, l \in LabelKeys : label[n][l] = None)

\* The same as long as no call of the operator fails and it does not crash.
CleanedUp ==
  cr = None ~> \/ cr # None
              \/ faults > 0
              \/ \A n \in Nodes, l \in LabelKeys : label[n][l] = None
=============================================================================
