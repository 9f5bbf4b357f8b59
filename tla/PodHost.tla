------------------------------ MODULE PodHost -------------------------------
(***************************************************************************)
(* The node on which the pod of the Onload Device Plugin DaemonSet runs:   *)
(* the pod's phase, the Onload files on the host, the Onload kernel module *)
(* with its control plane parameters, and the kubelet.  The pod template   *)
(* is the one of createDevicePluginDaemonSet: its init container copies    *)
(* the files to the host, the preStop hook of its device-plugin container  *)
(* removes them.  The kubelet, KMM and the kernel are external.            *)
(*                                                                         *)
(* The processes of the pod are in DevicePlugin and OnloadWorker;          *)
(* DevicePluginPod joins their steps to the ones of this module.           *)
(***************************************************************************)
EXTENDS Naturals, FiniteSets

CONSTANTS
  Versions,    \* versions of the Onload images
  None,
  MaxCreated,  \* bound on the pods that the DaemonSet creates on the node
  MaxEvents    \* bound on what goes wrong or changes on the node

ASSUME HostBoundAssumption == MaxCreated \in Nat /\ MaxEvents \in Nat

ASSUME NoVersionAssumption == None \notin Versions

VARIABLES
  kubelet,   \* "up" or "down"
  pod,       \* the pod's phase and the version of its images
  files,     \* version of libonload.so on the host, versions of libonload.so.<version>
  loaded,    \* the Onload kernel module is loaded
  cpPath,    \* its parameter cplane_server_path: the default or crictl
  cpParams,  \* its parameter cplane_server_params: the container that it names
  created,
  events

hostVars == <<kubelet, pod, files, loaded, cpPath, cpParams, created, events>>

Phases == {"absent", "init", "running", "stopping", "killing"}

\* A container is told apart only from the one that runs now.
Containers == {"none", "own", "gone"}

HostTyped ==
  /\ kubelet \in {"up", "down"}
  /\ pod \in [phase: Phases, ver: Versions \cup {None}]
  /\ files \in [plain: Versions \cup {None}, libs: SUBSET Versions]
  /\ loaded \in BOOLEAN
  /\ cpPath \in {"default", "crictl"}
  /\ cpParams \in Containers
  /\ created \in Nat
  /\ events \in Nat

HostInit ==
  /\ kubelet = "up"
  /\ pod = [phase |-> "absent", ver |-> None]
  /\ files = [plain |-> None, libs |-> {}]
  /\ loaded = FALSE
  /\ cpPath = "default"
  /\ cpParams = "none"
  /\ created = 0
  /\ events = 0

\* Something goes wrong or changes on the node.
Event == events < MaxEvents /\ events' = events + 1

\* The kubelet starts the containers of the pod, and starts them again.
MayStart == kubelet = "up" /\ pod.phase = "running"

\* The DaemonSet controller puts a pod on the node.
CreatePod(v) ==
  /\ pod.phase = "absent"
  /\ created < MaxCreated
  /\ pod' = [phase |-> "init", ver |-> v]
  /\ created' = created + 1
  /\ UNCHANGED <<kubelet, files, loaded, cpPath, cpParams, events>>

\* Slip: files that an earlier pod left behind are not overwritten.
InitContainerKeeps ==
  /\ kubelet = "up"
  /\ pod.phase = "init"
  /\ files' = IF files.plain = None THEN [plain |-> pod.ver, libs |-> {pod.ver}] ELSE files
  /\ pod' = [pod EXCEPT !.phase = "running"]
  /\ UNCHANGED <<kubelet, loaded, cpPath, cpParams, created, events>>

\* cp -TRv overwrites what has the same name and leaves the rest.
InitContainer ==
  /\ kubelet = "up"
  /\ pod.phase = "init"
  /\ files' = [plain |-> pod.ver, libs |-> files.libs \cup {pod.ver}]
  /\ pod' = [pod EXCEPT !.phase = "running"]
  /\ UNCHANGED <<kubelet, loaded, cpPath, cpParams, created, events>>

\* The pod is deleted: no container is started any more.
DeletePod ==
  /\ pod.phase \in {"init", "running"}
  /\ pod' = [pod EXCEPT !.phase = "stopping"]
  /\ UNCHANGED <<kubelet, files, loaded, cpPath, cpParams, created, events>>

\* The preStop hook, which runs only in a container that runs.
PreStop(containerRuns) ==
  /\ kubelet = "up"
  /\ pod.phase = "stopping"
  /\ pod' = [pod EXCEPT !.phase = "killing"]
  /\ files' = IF containerRuns THEN [plain |-> None, libs |-> {}] ELSE files
  /\ UNCHANGED <<kubelet, loaded, cpPath, cpParams, created, events>>

\* The kernel module's parameters name a container that no longer runs.
ContainerGone(c) == IF c = "own" THEN "gone" ELSE c

PodGone ==
  /\ kubelet = "up"
  /\ pod.phase = "killing"
  /\ pod' = [phase |-> "absent", ver |-> None]
  /\ cpParams' = ContainerGone(cpParams)
  /\ UNCHANGED <<kubelet, files, loaded, cpPath, created, events>>

\* KMM loads the module at any time.
LoadModule ==
  /\ ~loaded
  /\ loaded' = TRUE
  /\ UNCHANGED <<kubelet, pod, files, cpPath, cpParams, created, events>>

\* KMM unloads the module when the node loses its KMM label: in an upgrade once
\* the pod is gone, on a node that is no longer selected and after the deletion
\* of the resource under a pod that may still run.  The parameters go with it.
UnloadModule ==
  /\ loaded
  /\ IF pod.phase = "absent" THEN UNCHANGED events ELSE Event
  /\ loaded' = FALSE
  /\ cpPath' = "default"
  /\ cpParams' = "none"
  /\ UNCHANGED <<kubelet, pod, files, created>>

KubeletStops ==
  /\ kubelet = "up"
  /\ kubelet' = "down"
  /\ Event
  /\ UNCHANGED <<pod, files, loaded, cpPath, cpParams, created>>

KubeletStarts ==
  /\ kubelet = "down"
  /\ kubelet' = "up"
  /\ UNCHANGED <<pod, files, loaded, cpPath, cpParams, created, events>>

\* After a reboot the files are still there, the kernel module is not, and the
\* pod begins again with its init container.
Reboot ==
  /\ Event
  /\ kubelet' = "down"
  /\ pod' = [pod EXCEPT !.phase = IF @ = "running" THEN "init" ELSE @]
  /\ loaded' = FALSE
  /\ cpPath' = "default"
  /\ cpParams' = "none"
  /\ UNCHANGED <<files, created>>
=============================================================================
