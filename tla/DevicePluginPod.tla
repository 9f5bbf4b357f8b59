--------------------------- MODULE DevicePluginPod --------------------------
(***************************************************************************)
(* The pod of the Onload Device Plugin DaemonSet on one node: the          *)
(* device-plugin and the onload-worker container on the host that they     *)
(* share.  What happens to the pod or to the node happens to both.         *)
(***************************************************************************)
EXTENDS DevicePlugin, OnloadWorker

vars == <<hostVars, pluginVars, workerVars>>

Init == HostInit /\ PluginInit /\ WorkerInit

\* Steps of the host that leave the containers alone.
HostStep ==
  /\ \/ InitContainer
     \/ PreStop(main # "down")
     \/ LoadModule
  /\ UNCHANGED <<pluginVars, workerVars>>

\* The pod comes and goes, with its containers.
PodLife ==
  \/ (\E v \in Versions : CreatePod(v)) /\ UNCHANGED <<pluginVars, workerVars>>
  \/ DeletePod /\ UNCHANGED <<pluginVars, workerVars>>
  \/ UnloadModule /\ DeviceGoesStale /\ UNCHANGED pluginVars

\* The next pod has another name, and no status yet.
PodEnds == PodGone /\ PluginEnds /\ WorkerStops("none")

KubeletRestarts == KubeletStarts /\ KubeletCleans /\ UNCHANGED workerVars

NodeEvent ==
  \/ KubeletStops /\ PluginLosesKubelet /\ UNCHANGED workerVars
  \/ Reboot /\ PluginReboots /\ WorkerEnds
  \/ WorkerFails /\ UNCHANGED pluginVars
  \/ PluginEvent /\ UNCHANGED workerVars

Next ==
  \/ HostStep
  \/ PodLife
  \/ PodEnds
  \/ KubeletRestarts
  \/ NodeEvent
  \/ PluginStep /\ UNCHANGED workerVars
  \/ WorkerStep /\ UNCHANGED pluginVars
  \/ (PostStatus \/ PostEnd) /\ UNCHANGED pluginVars

Spec == Init /\ [][Next]_vars

\* The worker is about to look at its status, and is not too late for it.
LooksInTime == worker = "get" /\ \A t \in CallTimes : elapsed + t < Deadline

\* The kubelet and KMM do their work, each process runs, and the kubelet
\* reports a running container, after one restart of it or another, before the
\* worker has looked for the last time.
Fairness ==
  /\ WF_vars(HostStep)
  /\ WF_vars(PodEnds)
  /\ WF_vars(KubeletRestarts)
  /\ WF_vars(PluginStep /\ UNCHANGED workerVars)
  /\ WF_vars(WorkerStep /\ UNCHANGED pluginVars)
  /\ SF_vars(LooksInTime /\ PostStatus /\ UNCHANGED pluginVars)

FairSpec == Spec /\ Fairness

-----------------------------------------------------------------------------
(***************************************************************************)
(* Properties.                                                             *)
(***************************************************************************)
TypeOK == HostTyped /\ PluginTyped /\ WorkerTyped

\* The process listens, but the socket's file is gone: a kubelet that was started
\* after Serve has removed it, and no kubelet can reach the process any more.
Forgotten == server = "serving" /\ socket = "absent"

\* Register comes after WaitUntilUp: a process that has registered can be dialled,
\* whichever of the processes or the kubelet was restarted.  There is one case
\* in which it cannot: a kubelet that was restarted between the two calls has
\* removed the socket, takes the registration and finds nobody.  A stream that
\* the kubelet did get is never with a process like that.
EndpointIsServed ==
  (endpoint \in {"registered", "connected"} /\ main = "blocked") =>
    /\ server = "serving"
    /\ socket = "live" \/ (endpoint = "registered" /\ Forgotten)

\* Allocate hands out what was found at the start of the process.  As long as
\* the pod is not being deleted, the files are all there, and so are the devices
\* while the module is loaded; and the library that is preloaded is the one of
\* the pod, whatever earlier pods left on the host.  A process that could not
\* list the libraries has LD_PRELOAD name one that is not in the container.
AllocatesOwnFiles ==
  (Allocate /\ pod.phase = "running") =>
    /\ loaded => Response.complete
    /\ SetPreload => Response.lib = (IF mounts.libs = {} THEN None ELSE pod.ver)

\* The kernel module as it was when the worker looked for /dev/onload starts the
\* control plane server in the container that the API showed as running, and
\* that is the worker's own unless the API was behind.
Configured ==
  /\ loaded
  /\ device = "current"
  /\ cpPath = "crictl"
  /\ cpParams = seen
  /\ seen # "none"

\* A worker sleeps only on a kernel module that it has configured, until the
\* module is unloaded under it: the module that is loaded next has lost the
\* parameters and the worker does not wake up to set them.
ControlPlaneInPod == worker = "asleep" => Configured \/ device = "stale"

\* A change of the interfaces is noticed by every process that ListAndWatch
\* was called in, the kubelet's that have since been restarted included.
NicChangesNoticed == (listed /\ ~CheckNics) ~> (~listed \/ CheckNics)

\* When the node is left alone, the kubelet comes to offer the devices of a
\* process that has seen the interfaces as they are, unless it was restarted
\* under the process.
DevicesAdvertised ==
  <>[](pod.phase = "running" /\ QueryNics # <<>> =>
         Forgotten \/ (capacity = MaxPods /\ CheckNics))

\* When the node is left alone, the worker of a running pod gets the control
\* plane configured, whether the module was loaded before or after the pod was
\* started, or unloaded and loaded again before the worker was done.
ControlPlaneConfigured ==
  <>[](pod.phase = "running" => worker = "asleep" /\ (Configured \/ device = "stale"))
=============================================================================
