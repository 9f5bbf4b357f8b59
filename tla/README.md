# A verification project for the Onload operator

The repository holds the Kubernetes operator that deploys Onload: a reconciler
(`src/controllers/onload_controller.go`), a Device Plugin
(`src/pkg/deviceplugin`, `src/cmd/deviceplugin`) and a Worker
(`src/cmd/worker`, `src/pkg/client_helper`, `src/pkg/control_plane`).  This
directory models the reconciler together with the cluster that it acts in, and
the pod of the Device Plugin and the Worker together with the node that it runs
on, checks the models with TLC and proves part of them with TLAPS.

## Inventory

| Component | State | Operations | Interactions |
|---|---|---|---|
| Onload reconciler (`onload_controller.go`) | none of its own between two passes; all of it is in API objects: three labels per node, two KMM `Module`s, one DaemonSet | one pass of `Reconcile`: label nodes, remove stale labels, create Modules and DaemonSet, patch or delete them, take one node out of service, or remove all labels after deletion | reads through informer caches, writes merge patches to the API server, asks to be run again with `RequeueAfter` |
| Operator process (`main.go`) | informer caches, work queue | start, stop | restarted by its Deployment; one active replica (leader election) |
| API types (`api/v1alpha1`) | the `Onload` resource | created, edited, deleted by users | |
| Kernel mappings (`onloadKernelMapper`, `sfcKernelMapper`) | pure | conversion to KMM's mappings | |
| Device Plugin manager and RPC (`manager.go`, `rpc.go`, `callbacks.go`) | registered or not, known NICs, device list | serve, register, `ListAndWatch`, `Allocate` | kubelet over gRPC, restarts by its DaemonSet |
| NIC query and mounts (`nic.go`, `mounts.go`) | pure | parse `lshw`; choose libraries and mounts | |
| Worker (`cmd/worker`, `client_helper`, `control_plane`) | kernel parameters | poll the pod's status for the container ID, write two parameters, sleep | API server, the kernel module |
| KMM, DaemonSet controller, garbage collector, informers, users | external | start and stop loader and Device Plugin pods, collect owned objects | |

The two models meet in the Device Plugin pod: for the reconciler it is a pod
with a version that starts and stops per node (`dp`); for the pod's model the
reconciler is whoever creates and deletes it and loads the module (`CreatePod`,
`DeletePod`, `LoadModule`, `UnloadModule`).  The pod's model assumes no order between
them.  In an upgrade the module goes after the pod (`NeverUnloadedInUse`), but that
is claimed of selected nodes and a resource that stays; on a deselected node and
after deletion the reconciler takes the KMM label off under a pod that runs, so
`UnloadModule` may come at any time.

What makes the reconciler hard:

* a pass is a sequence of API calls and everybody else acts between them;
* a pass may stop after any call (a failed call, a crash) and the next one starts
  over from whatever the cluster then looks like;
* caches lag, also behind the operator's own writes;
* labels are the only memory of an upgrade, they are only added where missing
  and removed where present, and three labels must agree;
* pods are not watched: progress depends on `RequeueAfter`;
* the resource has no finalizer, so removal of labels is not guarded by it.

The properties that make it correct: the labels of a node agree; a module is
not unloaded on a node in use; nodes are upgraded one at a time; kernel module
and user-space files have one version; an edit is eventually carried out in
full; deletion leaves nothing behind.  For the Device Plugin: the kubelet's view
of the devices comes to agree with the NICs, a process that has registered can be
reached, and no pod is handed files that are missing or of another version.  For
the Worker: it sleeps only when the kernel module points at the container that
it looked up, and it comes to sleep in the end.

What makes the pod hard: two goroutines and two processes that start in any
order with the kubelet, the module and the socket; processes whose only error
handling is to end and be restarted; files, kernel parameters and a socket on
the host that outlive the process that made them; and a kubelet that forgets
its plugins when it is restarted.
`PROJECT.json` lists the hazards line by line.

## Modules

* `OnloadController` - one Onload resource, the reconciler, its caches, faults,
  users and the cluster's controllers; the properties.
* `RollingUpgrade` - the abstract specification: nodes that are given a version,
  put in service, used, taken out of service and out of use, and only then, one
  at a time, retired; a kernel module that follows.
* `OnloadRollout` - the refinement mapping from `OnloadController`.
* `MCOnloadController` - the instance that TLC runs, with the symmetry of the
  versions.
* `PodHost` - one node: phases of the pod, files on the host, the kernel module
  and its parameters, the kubelet.
* `DevicePlugin`, `OnloadWorker` - the two processes of the pod; each extends
  `PodHost`.
* `DevicePluginPod` - their composition, with what happens to both (end of the
  pod, reboot), the fairness and the properties.
* `MCDevicePluginPod` - the instance that TLC runs.
* `OnloadControllerProofs` - type correctness; resources with long names.
* `OnloadUpgradeProofs` - theorems about the labels; extends the former.
* `OnloadUnloadProofs` - theorems about the pods; extends the former.
* `OnloadRolloutProofs` - the refinement; extends the former.
* `OnloadVersionProofs`, `OnloadLagProofs` - the inductive invariant and the theorems
  for users who wait and node caches that lag; the first proves the half about
  objects and pods, the second the half about labels.
* `DevicePluginPodProofs` - theorems about the Device Plugin pod.

### State and code

`cr` is the Onload resource, `zone` the value per node of the label that
`spec.selector` is about, `label` the operator's three labels (`kmm` and `sfc`
are KMM's version labels of the two Modules, `onl` is `onloadLabelName`), `mod`
the Modules, `ds` the DaemonSet.  `dp`, `ldr` and `app` are the pods per node:
the version that a Device Plugin was started from, the version a loader pod has
loaded per Module, and the application pods.  `cache` is what the informers have
seen; `vCr`, `vLabel` and so on are what a read returns, the cache for the kinds
in `Lagging` and the API server's object for the others.  `pc`, `req`, `work`
and `cur` are the local variables of a pass; `queued` is the work queue.

A pass is cut at its API writes.  Each action is a phase of `Reconcile`: it
reads, decides, and does at most one write.  Where the code loops over a list
of nodes (`addKmmLabelsToNodes`, `addOnloadLabelsToNodes`, `removeStaleLabels`,
`deleteLabels`) the list is read once, becomes the set `work`, and one action
performs one patch; the decisions in such a loop rest on the list and not on
later events, as in the code.  The order of nodes in a list is left open,
except in `handleUpdate`, where the code takes the first one.  `Requeue` is a
return with `RequeueAfter` or with an error, `Done` is an empty result.

| Phase of the code | Steps of `pc` |
|---|---|
| `Reconcile`: read the resource, length check | `idle` |
| `addKmmLabelsToNodes` | `kmm`, `kmmLoop`, `staleKmm`, `staleSfc`, `staleLoop` |
| `createAndAddModules` | `createOnload`, `createSfc` |
| `addOnloadLabelsToNodes` | `onl`, `onlLoop`, `staleOnl`, `staleLoop` |
| `createDevicePluginDaemonSet` | `createDs` |
| `handleDevicePluginUpdate`, `handleModuleUpdate` | `updateDs`, `updateOnload`, `updateSfc` |
| `handleUpdate`, `handleNodeUpdate` | `pick`, `dropOnl`, `checkDp`, `evict`, `dropSfc`, `dropKmm` |
| `deleteLabels` | `delKmm`, `delSfc`, `delOnl`, `delLoop` |

`AbortPass` (a call fails), `SkipFailedDelete` and `ListPodsFails` (the two
places where the code swallows a failure), `Crash`, `Restart` and
`DevicePluginPodLost` are the faults.

The abstract variables of `RollingUpgrade` are mapped as follows: the version of a
node is its KMM label, it is in service while it has an Onload label, in use
while a Device Plugin or an application pod runs on it, and what is loaded is
the version of its Onload loader pod.

In the model of the pod, `pod`, `files`, `loaded`, `cpPath`, `cpParams` and
`kubelet` belong to the node.  `main` and `server` are the two goroutines of `Run`,
`socket` is the file they meet at, `listed` says that at least one loop of
`ListAndWatch` exists in the process (they never return, so they are not told
apart).  `endpoint` and `capacity` are the kubelet's device manager's: an endpoint is
registered, connected by a stream, or broken, when its process has ended and the
kubelet has not noticed.  `worker` is the position in `main` of `cmd/worker`,
`elapsed` the time of its context and `delay` its back-off, in tenths of a second,
`status` the container that `DefaultContainerHelper` would find in the API, which may
be one that is gone, and `device` the `/dev/onload` of the worker's container: the
one of the module that is loaded, or, once that was unloaded, a stale one.

| Code | Actions |
|---|---|
| `NewNicManager`, `initMounts`, `queryNics` | `NewNicManager`, whose argument says whether the library directory can be read |
| `Run`: `Serve`, `WaitUntilUp`, `Register` | `Serve`, `WaitUntilUp`, `Register` |
| `ListAndWatch`, `CheckNics` | `ConnectEndpoint` (the call), `ListAndWatch` (a round) |
| `Allocate` | no action, for it changes nothing: `Allocate` is when the kubelet calls it, `Response` what it answers |
| `glog.Fatal` of the Device Plugin | `PluginEnds`, at once where the code decides it, in `PluginFails` where a call fails |
| `os.Stat("/dev/onload")` | `StatDevice` |
| `GetContainerID` | `GetContainerID` (one call), `WaitForTimer` |
| `Configure` | `SetControlPlaneServerPath`, `SetControlPlaneServerParams`; without the module the write fails |
| init container, `preStop` | `InitContainer`, `PreStop` |

Definitions introduced by a comment that begins with "Slip" are not part of the
specifications: each is a variant of the definition after it with one plausible
mistake, and is used to confirm that a property would notice it.

### Abstractions

* One Onload resource; several resources have disjoint labels and objects.
* `ver` stands for version, user image and kernel mappings: the code updates all
  of them exactly when the version differs.  `SfcUse` is whether some mapping has
  an `sfc` field.
* A pod template is its version, its copied selector and its owner; update
  strategy, node selector and affinity are in `WantsDevicePlugin` and
  `DevicePluginStart`.
* `app` stands for all pods on a node that use `amd.com/onload`: a pod that is
  being terminated still uses the module.
* A cache jumps to the present state when it synchronises; a lagging cache may
  hence skip states but never go back.
* KMM is modelled from the use that the reconciler makes of it: a loader pod
  runs where the Module's selector matches and the version label equals the
  Module's version, stays while the label stays, and unloads when it stops.  A
  Module goes at once when it is deleted.
* Nodes do not leave the cluster.
* A node has one Device Plugin pod at a time: the DaemonSet controller waits for
  the old one to go.
* A container ID is the running container's ("own") or not ("gone"): nothing in
  the code compares two IDs.
* `libonload` and `libonload_ext` are one library, with its plain name and one name
  per version; `cp -TRv` replaces the plain one and adds the other.
* The reads of the library directory for `libonload` and `libonload_ext` succeed or
  fail together.  The three device nodes are there exactly while the module is
  loaded; `Allocate` hands them out in either case.
* The kubelet removes the sockets in its directory when it starts, and finds out
  some time after the end of a process that its stream has ended; both from the
  kubelet's documented behaviour, to which `Serve` and `Register` are written.
* An API call takes one of `CallTimes`, up to the five seconds of the context, and
  looks at the status at its end.  An entry of client-go's back-off that was not
  used for twice the longest delay, because a call took that long, starts over.
* The unload of a module under a pod counts as an event; between two pods it is
  free.

## Runs

Passing:

| Run | Question | Bounds |
|---|---|---|
| `rollout` | Do labels agree, are modules unloaded only on nodes out of service, is eviction after the Device Plugin, is it node by node - with the version changed at any moment? Is it all the rolling upgrade of `RollingUpgrade`? | 2 nodes, 2 versions (symmetric), SFC module, 3 edits, 1 fault (failed call, crash or lost Device Plugin pod), the cache of the resource lags |
| `settled_upgrade` | With users who wait for `RolloutDone` before each change, does every change arrive in full, with matching versions, also when nodes join and leave the selection and the node cache lags? | 2 nodes, 2 versions, 2 label values, 3 edits, 1 failed call or crash, caches of resource, nodes and DaemonSet lag |
| `relentless_edits` | With version and SFC use changed at any moment, do labels and objects come to the last version? | 1 node, 3 edits, 1 failed call, failed pod list or crash, the cache of the Modules lags |
| `removal` | After deletion and possible re-creation, does everything go? | 1 node, 3 edits, the cache of the resource lags, 1 failed call or crash |
| `device_plugin_pod` | Can a pod that registered be reached, does it hand out only its own files, does the control plane stay configured, are interface changes noticed, and are devices offered and the control plane configured whenever the node is left alone? | 2 pods, 2 versions, 2 lists of interfaces, 2 events (kubelet restart, reboot, interface change, failure of a process, unreadable directory, unload under the pod), calls of half a second and of four seconds |
| `long_name` | Is a resource with a too long name left alone? | name and namespace of 33 characters |

Two nodes are the fewest for which "one at a time" means something, and the
code never relates more than two nodes: loops treat each alone, `handleUpdate`
picks one.  Two versions give old and new; three edits give create, change and
change back, which is the shortest sequence that returns to a version that is
still in use somewhere.  One fault is enough to start a pass from any point
that a pass can stop at.

For the pod, two pods of two versions give every content of the host that the
code can tell apart; two events give a fault followed by another before the
system has recovered, and a kubelet restart with an interface change in its
shadow.  With calls of half a second the back-off grows to its maximum and both
its timer and a call reach the deadline; a call of four seconds makes the entry of
the back-off expire.  The invariants also hold with three events, three lists of
interfaces and calls that take the whole of the deadline, and all properties
with one pod, three events and calls of half a second and of two and a half.

Runs that show a statement of the documentation, or of the code's own error
handling, not to hold of the code (each with a finding in `PROJECT.json`):

| Run | What TLC finds |
|---|---|
| `sfc_module_deleted` | Dropping `sfc` from the kernel mappings deletes the SFC Module on all nodes at once, under running pods. |
| `pod_list_fails` | A failed list of pods counts as an empty list and the module is unloaded under running pods. |
| `edit_during_upgrade` | A version change during an upgrade lets a Device Plugin of the previous version start; nothing replaces it. |
| `stuck_upgrade` | A node that leaves and rejoins the selection during a version change keeps an old Onload label that later blocks the upgrade for good. |
| `next_node_too_soon` | The next node is taken out of service before the previous one is back. |
| `label_leak` | A patch that fails while labels are removed is not retried. |

Two limits of the passing runs were found in the same way.  When the pod cache
lags behind the start of a pod, `NeverUnloadedInUse` fails, because
`handleNodeUpdate` sees no pod where one has just started; `rollout` and
`settled_upgrade` take that cache as current.  When the node cache lags and the
version is changed back within the lag, a node can end with a KMM and an Onload
label of different versions; `settled_upgrade` therefore has users who wait.

For the pod, what the code leaves open is named in the properties themselves.
Without any one of these conditions TLC finds the property violated:

* `EndpointIsServed` exempts a registration with a kubelet that was restarted between
  `WaitUntilUp` and `Register`: it has removed the socket, its dial fails, and `main`
  waits for ever (`Forgotten`).
* `DevicesAdvertised` exempts every process that was listening while the kubelet was
  restarted, for the same reason: the code has no step that registers again, and
  devices come back only when the process is restarted for another reason.
  `NicChangesNoticed` shows the one way in which that happens by itself: the loops
  of `ListAndWatch` that outlive the old kubelet still end the process when the
  interfaces change.
* `AllocatesOwnFiles` claims the devices only while the module is loaded, and the
  library only of a process that could read the directory at its start: another
  one hands out `LD_PRELOAD` with no library, until it is restarted.  It speaks of
  pods that are not being deleted, because a container that is started between
  the `preStop` hook and the end of the Device Plugin is handed files that are gone.
* `ControlPlaneInPod` and `ControlPlaneConfigured` exempt a worker under which the
  module was unloaded (a stale `device`).  When the module is loaded again it has
  lost both parameters, or the first one if it happened between the writes, and
  the worker sleeps or goes to sleep and never sets them again.
* Both say that the parameters name the container that the API showed (`seen`).  When
  the API still shows the previous container as running that is one that is
  gone: the worker takes the first ID that it sees and never looks again.

## Fairness

`FairSpec` assumes: a queued resource is eventually processed and a pass goes on
(`ReconcileStep`; controller-runtime's workers, `RequeueAfter` and rate-limited
retries); caches catch up (`Sync`); a crashed operator is restarted by its
Deployment (`Restart`); the garbage collector, KMM and the DaemonSet controller
act on what they see; a pod that is being terminated terminates.  Not assumed:
node heartbeats, user actions, faults, and the end of an application pod that
nobody evicted.  Heartbeats in particular wake the reconciler up in practice, so
assuming them would hide a missing requeue.

For the pod (`FairSpec` of `DevicePluginPod`): kubelet and KMM do their work, a stopped
kubelet is started again, each process goes on, and the kubelet reports a
running container in time for a look of the worker after one restart or another
(strong fairness of `PostStatus` while `LooksInTime`: a cluster in which every
report, or every call, takes longer than the five seconds keeps the worker
restarting for ever), and that KMM loads again what it unloaded under a pod, as
it does when a node is selected again.
Not assumed: events, and that pods are created or deleted.

Deadlock is checked where the system cannot stop: in runs without deletion and
with heartbeats some step is always possible.  `removal`, `label_leak`,
`long_name` and `settled_upgrade` allow a state without resource and work.

## Proofs

All theorems hold for any set of nodes, versions and label values and any number
of edits and faults.  They use the named assumptions of `OnloadController` about
its constants (`None` is not a version, a node or an object; bounds are natural
numbers; and so on), which TLC evaluates in every run.

| Theorem | States | Further assumptions |
|---|---|---|
| `TypeCorrect` | `Spec => []TypeOK` | none |
| `LongNamesLeaveNoTrace` | `Spec => []LongNameIgnored` | none |
| `LabelsStayTogether` | `Spec => []LabelsAgree` | `SteadySelection` |
| `UpgradeIsNodeByNode` | `Spec => NodeByNode` | `SteadySelection` |
| `EvictionAfterDevicePlugin` | `Spec => EvictAfterDevicePlugin` | `SteadySelection`, pod cache current |
| `UnloadIsSafe` | `Spec => NeverUnloadedInUse` | `SteadySelection`, `SteadyPods` |
| `RolloutIsRollingUpgrade` | `Spec => ImplementsRollingUpgrade` | `SteadySelection`, `SteadyPods` |
| `VersionsStayTogether` | `Spec => []VersionsMatch` | `FixedSelection`, `PatientUsers` |
| `LabelsStayTogetherLagging` | `Spec => []LabelsAgree` | `FixedSelection`, `PatientUsers` |
| `UpgradeIsNodeByNodeLagging` | `Spec => NodeByNode` | `FixedSelection`, `PatientUsers` |
| `EvictionAfterDevicePluginLagging` | `Spec => EvictAfterDevicePlugin` | `FixedSelection`, `PatientUsers` |
| `UnloadIsSafeLagging` | `Spec => NeverUnloadedInUse` | `FixedSelection`, `PatientUsers`, `SteadyPods` |
| `RolloutIsRollingUpgradeLagging` | `Spec => ImplementsRollingUpgrade` | `FixedSelection`, `PatientUsers`, `SteadyPods` |
| `PodTypeCorrect` | `Spec => []TypeOK` of the pod | none |
| `EndpointsAreServed` | `Spec => []EndpointIsServed` | none |
| `OwnFilesAllocated` | `Spec => []AllocatesOwnFiles` | none |
| `ControlPlaneStaysInPod` | `Spec => []ControlPlaneInPod` | none |

The assumptions:

* `FixedSelection`: the resource is not deleted, nodes keep their label value, there
  is one selector, and the empty string is not a version.
* `SteadySelection`: `FixedSelection`, and the node cache is current.
* `SteadyPods`: the pod cache is current, a pod list does not fail, the use of SFC
  does not change.
* `PatientUsers`: users wait for `RolloutDone` before each change, the pod cache is
  current, and nobody but the DaemonSet controller stops a Device Plugin.

So there are two families of theorems about the reconciler.  In the first users
change version and use of SFC whenever they like and the operator's node cache
shows its own patches.  In the second users wait, and the node cache lags as far
as it likes.  In both, calls fail, the operator crashes, and the caches of the
resource, the Modules and the DaemonSet are stale.

None of the assumptions is for the provers' convenience.  Without a current node
cache or patient users `LabelsAgree` fails: the version is changed back within
the lag.  Without patient users `VersionsMatch` fails (`edit_during_upgrade`), and so
it does when a Device Plugin pod is lost between the patch of the DaemonSet and
the drain of its node: it comes back from the new template beside the old
module.  `sfc_module_deleted`, `pod_list_fails` and `stuck_upgrade`, and the limits
named above, show the others; deletion and deselection take the labels off in
another order on purpose.  The configuration of `rollout` satisfies `SteadySelection`
and `SteadyPods`; that of `settled_upgrade` satisfies `PatientUsers` and `SteadyPods`,
and adds nodes that join and leave the selection, which only TLC covers.

*Type correctness.*  `TypeOK` is not inductive: a pass reads fields of `req`, so
`PassTyped` adds that a pass beyond its start has a copy of the resource and that
the upgrade steps have a node.

*Long names* (`NoTrace`).  The pass ends before its first write, so no pass gets beyond
its start except to remove labels, and the cluster stays `Clean`.

*Labels* (`LabelInv`).  That labels agree depends on what a pass decided from an
earlier list.  `KmmLoopInv` and `OnloadLoopInv` say what the patches still to be
made rest on (the label is missing; an SFC or Onload label goes to a node whose
KMM label has, or is about to get, the version of the pass).  `NodeUpgradeInv`
says that a node under upgrade has an old KMM label, no Onload label once the
wait begins, and no SFC label when the KMM label goes.  `AllLabelled` says that
beyond `addKmmLabelsToNodes` every selected node has its KMM label, and its SFC
label where it belongs; it gives `NodeByNode`.  `LabelsSelected` and
`ResourceStays` exclude the loops that remove labels.

*Unloading* (`UnloadInv`).  A module is unloaded when its label no longer has the
loaded version.  `LoadedAsLabelled`: a loaded version equals the label as long as
there is one, because a label is only added where nothing is loaded (the wait for
lingering pods).  `UsedIsLabelled`: a node with an Onload label, a Device Plugin or
a pod that uses Onload has its KMM labels.  `DevicePluginGone` and `PodsGone`: at
the steps that remove the KMM labels the node is empty, and stays empty because a
pod needs a Device Plugin and a Device Plugin needs the Onload label.
`ObjectsOwned`: nothing else makes a Module disappear.  So the label of a module
that is unloaded is gone, hence the node is not in use.  All this rests on the
order in which a pass adds and removes labels, and on nothing else about labels:
`LabelOrder` states that order, `SteadyOrder` derives it from `LabelInv`, and
`VersionOrder` from `VersionInv` for caches that lag, so that the argument, and the
refinement's, is made once.

*Refinement.*  `UnloadInv` and `AllLabelled` carry the argument: a label that is added
maps to `Assign` because nothing is loaded any more, its removal to `Retire` because
at `dropKmm` the node has no Onload label and no pods and every other node has its
version, a loader pod that stops to `Unload` because the label is gone.  A pod
that starts or ends maps to `StartUse` or `EndUse` when it is the first or the last
on its node and to a stuttering step otherwise; every other step of the
reconciler, the caches and the users leaves the abstract state alone.

*Versions* (`RolloutInv`).  A Device Plugin has the version that the DaemonSet had when
it was started, a module the version of the KMM label; that the two agree is a
matter of the order of a rollout.  `DevicePluginAsLabelled` and `ModuleAsLabelled`
compare each with the KMM label.  `DaemonSetFirst`: by the time a node is without
label or has the new one, DaemonSet and cached DaemonSet have the new version, so
what is started there is new.  `OldStaysInService`: a node still in service with the
old version keeps the Device Plugin that it has, so nothing is started there; an
edit finds all of them running because users wait.  `DaemonSetSeen` and
`DaemonSetUpdated` carry this through the cache: the steps that touch nodes come
after the DaemonSet was seen with the version of the pass, and a cache that shows
this version cannot show it from an earlier rollout.  `StaleIsSettled`: a pass whose
copy of the resource is out of date has the previous content, everything is still
as that says, and hence such a pass changes no label (`OldCopyIdle`).

*Labels seen late* (`LagInv`).  `KmmLag` and `SfcLag` say how far the node cache can be
behind: one change per label, because a label is added only to a node seen
without it and removed only from one seen with it.  The SFC label needs more: a
pass that has not seen it stays before `createAndAddModules`, and `SfcModuleLast`
keeps such a node apart from one that was never labelled.  `InOrder` is what the
choice of the first node by name gives: when a node is out of service, the cache
shows every node before it as done or under way.  From these follows `OneNodeOut`:
beyond `addKmmLabelsToNodes`, if some node has no KMM label no other is out.  Of two
nodes out, the earlier would have to be seen as old and as not old.  That is
`NodeByNode` without a current node list, and it is the reason why the order of
`slices.MinFunc` matters for safety.  `KmmLoopLag`, `OnloadLoopLag` and
`NodeUpgradeLag` say what the patches still to be made rest on.

*The pod* (`PodInv`).  `TypeOK` is not inductive here either: that the host's
libraries have versions rests on the version of a pod in its first phases
(`OwnFiles`).  `ServedInOrder` relates goroutines, socket, endpoint and kubelet: only a
process that serves has a live socket, so that `WaitUntilUp` cannot be answered by
anybody else; no registration comes before it; and a stream is with a live
socket because a kubelet that removes sockets has no endpoints yet.  `OwnFiles`:
between the init container and the deletion of the pod the host has the pod's
files, what the process found there only grows, and it found a library exactly
if it could look.  `WorkerOnTrack`: what the worker has written stays written until
the module is unloaded, which makes the device of its container stale; a write
that fails ends the container.

Each inductive invariant was also checked with TLC before it was proved: on the
configuration of `rollout` or `device_plugin_pod`, and `VersionInv` on two nodes with
four edits and on three nodes with two, with changing use of SFC, one fault and
all caches but the pods' lagging.

Every invariant and every action property that a passing run checks is stated by a
theorem.  Only model-checked are the liveness properties under fairness, which are
out of the prover's reach: `Converges`, `LabelsConverge`, `CleanedUp`, `Uninstalled`,
`NicChangesNoticed`, `DevicesAdvertised` and `ControlPlaneConfigured`.  So are the
properties of the reconciler under relabelled nodes and deletion (`settled_upgrade`,
`removal`).

## Not modelled

The conversion of kernel mappings (it copies fields; its result is part of the
version), mount paths, the text of `lshw`'s output and of the kernel parameters,
the RPCs of the Device Plugin that return constants, the SELinux label of the
`postStart` hook, leader election, flags and probes (configuration), generated
deep copies, and the Kustomize, OLM and shell assets.  A control plane server
that the kernel module starts between the worker's two writes, and what it does,
is the kernel's business.

Edits of `spec.selector` are modelled (`Selectors`) but no passing run makes a
claim about them: the node labels follow the new selector while Modules and
DaemonSet keep the selector that they were created with, so that the newly
selected nodes get labels and no module.

## Plan

1. The composition of `OnloadController` and `DevicePluginPod` on one node, with the
   pod of the latter as the `dp` of the former.
2. `VersionsMatch` and `NodeByNode` for users who wait and also move nodes in and out
   of the selection.
