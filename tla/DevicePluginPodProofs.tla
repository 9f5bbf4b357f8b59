------------------------ MODULE DevicePluginPodProofs -----------------------
(***************************************************************************)
(* Theorems about the pod of the Device Plugin, for any versions, any      *)
(* interfaces, flags and times of an API call, and any number of pods,     *)
(* kubelet restarts, reboots and failures.                                 *)
(***************************************************************************)
EXTENDS DevicePluginPod, TLAPS

\* The phases in which containers may run.
Hosting == {"running", "stopping", "killing"}

\* Processes run only in a pod that has them.
ProcessesInPod ==
  /\ main # "down" => pod.phase \in Hosting
  /\ worker # "down" => pod.phase \in Hosting

\* The order of Run: no registration before the server listens; the kubelet's
\* streams end with it, before the next kubelet removes the socket.
ServedInOrder ==
  /\ main = "down" <=> server = "down"
  /\ main \in {"register", "blocked"} => server = "serving"
  /\ socket = "live" => server = "serving"
  /\ server = "serving" => socket # "dead"
  /\ endpoint = "connected" => socket = "live"
  /\ kubelet = "down" => endpoint = "none"

\* A running pod has its own files on the host; what the process found there is
\* still there, and it found a library if it could look.
OwnFiles ==
  /\ pod.phase \in {"init", "running"} => pod.ver \in Versions
  /\ pod.phase = "running" => files.plain = pod.ver /\ pod.ver \in files.libs
  /\ (pod.phase = "running" /\ main # "down") =>
       /\ mounts.preload = SetPreload
       /\ mounts.plain <=> mounts.libs # {}
       /\ mounts.libs \subseteq files.libs

\* What the steps of the worker rest on: until the module is unloaded under it,
\* what the worker has written stays written.
WorkerOnTrack ==
  /\ device = "current" => loaded
  /\ worker = "down" => device = "none"
  /\ worker \notin {"down", "stat"} => device # "none"
  /\ worker \in {"path", "params", "asleep"} => seen # "none"
  /\ (worker \in {"params", "asleep"} /\ device # "stale") => cpPath = "crictl"
  /\ (worker = "asleep" /\ device # "stale") => cpParams = seen

PodInv ==
  /\ TypeOK
  /\ ProcessesInPod
  /\ ServedInOrder
  /\ OwnFiles
  /\ WorkerOnTrack

-----------------------------------------------------------------------------

\* The initial states satisfy the invariant.
LEMMA PodInit == Init => PodInv
<1> SUFFICES ASSUME Init
             PROVE  PodInv
  OBVIOUS
<1> USE DEF Init, HostInit, PluginInit, WorkerInit
<1>1. HostTyped
  <2>1. pod \in [phase : Phases, ver : Versions \cup {None}]
    BY DEF Phases
  <2>2. files \in [plain : Versions \cup {None}, libs : SUBSET Versions]
    OBVIOUS
  <2> QED BY <2>1, <2>2 DEF HostTyped, Containers
<1>2. PluginTyped
  BY DEF PluginTyped, Mounts, NoMounts, Endpoints
<1>3. WorkerTyped
  <2>1. elapsed \in 0 .. Deadline /\ delay \in 0 .. BackOffMax
    BY DEF Deadline, BackOffMax
  <2> QED BY <2>1 DEF WorkerTyped, Containers, Devices
<1>4. ProcessesInPod /\ ServedInOrder /\ OwnFiles /\ WorkerOnTrack
  BY DEF ProcessesInPod, ServedInOrder, OwnFiles, WorkerOnTrack
<1> QED BY <1>1, <1>2, <1>3, <1>4 DEF PodInv, TypeOK

\* A step of the host keeps the types.
LEMMA HostTypes ==
  ASSUME HostTyped, OwnFiles,
         \/ InitContainer \/ PreStop(main # "down") \/ LoadModule \/ DeletePod
         \/ UnloadModule \/ PodGone \/ KubeletStarts \/ KubeletStops \/ Reboot
         \/ (\E v \in Versions : CreatePod(v))
  PROVE  HostTyped'
<1> USE DEF HostTyped, Phases, Containers
<1>1. CASE InitContainer
  <2>1. pod' \in [phase : Phases, ver : Versions \cup {None}]
    BY <1>1 DEF InitContainer
  <2>2. files' \in [plain : Versions \cup {None}, libs : SUBSET Versions]
    BY <1>1 DEF InitContainer, OwnFiles
  <2> QED BY <1>1, <2>1, <2>2 DEF InitContainer
<1>2. CASE PreStop(main # "down")
  BY <1>2 DEF PreStop
<1>3. CASE LoadModule
  BY <1>3 DEF LoadModule
<1>4. CASE DeletePod
  BY <1>4 DEF DeletePod
<1>5. CASE UnloadModule
  <2>1. events' \in Nat
    BY <1>5, HostBoundAssumption DEF UnloadModule, Event
  <2> QED BY <1>5, <2>1 DEF UnloadModule
<1>6. CASE PodGone
  BY <1>6 DEF PodGone, ContainerGone
<1>7. CASE KubeletStarts
  BY <1>7 DEF KubeletStarts
<1>8. CASE KubeletStops
  BY <1>8, HostBoundAssumption DEF KubeletStops, Event
<1>9. CASE Reboot
  <2>1. pod' \in [phase : Phases, ver : Versions \cup {None}]
    BY <1>9 DEF Reboot
  <2>2. events' \in Nat
    BY <1>9, HostBoundAssumption DEF Reboot, Event
  <2> QED BY <1>9, <2>1, <2>2 DEF Reboot
<1>10. ASSUME NEW v \in Versions, CreatePod(v)
       PROVE  HostTyped'
  BY <1>10, HostBoundAssumption DEF CreatePod
<1> QED BY <1>1, <1>2, <1>3, <1>4, <1>5, <1>6, <1>7, <1>8, <1>9, <1>10

\* The end of the device-plugin process keeps its types.
LEMMA PluginEndsTypes ==
  ASSUME PluginTyped, PluginEnds \/ PluginReboots
  PROVE  PluginTyped'
<1>1. NoMounts \in Mounts
  BY DEF NoMounts, Mounts
<1>2. mounts' = NoMounts
  BY DEF PluginEnds, PluginReboots, ProcessEnds
<1> QED BY <1>1, <1>2 DEF PluginTyped, PluginEnds, PluginReboots, ProcessEnds, Endpoints

\* A step of the device-plugin process, or of the kubelet towards it, keeps
\* the types.
LEMMA PluginTypes ==
  ASSUME HostTyped, PluginTyped, PluginStep \/ PluginEvent
  PROVE  HostTyped' /\ PluginTyped'
<1> USE DEF Endpoints
<1>1. ASSUME NEW readable \in BOOLEAN, NewNicManager(readable)
      PROVE  HostTyped' /\ PluginTyped'
  <2>1. InitMounts(readable) \in Mounts
    BY FlagAssumption DEF InitMounts, Mounts, HostTyped
  <2>2. QueryNics \in {ParseOutput(l) : l \in NicLists}
    BY DEF QueryNics, PluginTyped
  <2>3. events' \in Nat
    BY <1>1, HostBoundAssumption DEF NewNicManager, Event, HostTyped
  <2> QED BY <1>1, <2>1, <2>2, <2>3 DEF NewNicManager, HostTyped, PluginTyped
<1>2. CASE Serve
  BY <1>2 DEF Serve, HostTyped, PluginTyped, hostVars
<1>3. CASE WaitUntilUp
  BY <1>3 DEF WaitUntilUp, HostTyped, PluginTyped, hostVars
<1>4. CASE Register
  <2>1. HostTyped'
    BY <1>4 DEF Register, HostTyped, hostVars
  <2>2. CASE PluginEnds
    BY <2>1, <2>2, PluginEndsTypes
  <2>3. CASE ~PluginEnds
    BY <1>4, <2>1, <2>3 DEF Register, PluginTyped
  <2> QED BY <2>2, <2>3
<1>5. CASE ConnectEndpoint
  BY <1>5 DEF ConnectEndpoint, HostTyped, PluginTyped, hostVars
<1>6. CASE ListAndWatch
  <2>1. HostTyped'
    BY <1>6 DEF ListAndWatch, HostTyped, hostVars
  <2>2. CASE PluginEnds
    BY <2>1, <2>2, PluginEndsTypes
  <2>3. CASE ~PluginEnds
    BY <1>6, <2>1, <2>3 DEF ListAndWatch, PluginTyped
  <2> QED BY <2>2, <2>3
<1>7. CASE HotPlug
  BY <1>7, HostBoundAssumption DEF HotPlug, Event, HostTyped, PluginTyped
<1>8. CASE PluginFails
  BY <1>8, PluginEndsTypes, HostBoundAssumption DEF PluginFails, Event, HostTyped
<1>9. CASE EndpointStops
  BY <1>9 DEF EndpointStops, HostTyped, PluginTyped, hostVars
<1> QED
  BY <1>1, <1>2, <1>3, <1>4, <1>5, <1>6, <1>7, <1>8, <1>9 DEF PluginStep, PluginEvent

\* The end of the worker's container keeps its types.
LEMMA WorkerEndsTypes ==
  ASSUME WorkerTyped, WorkerEnds \/ WorkerStops("none")
  PROVE  WorkerTyped'
<1>1. elapsed' \in 0 .. Deadline /\ delay' \in 0 .. BackOffMax
  BY DEF WorkerEnds, WorkerStops, Deadline, BackOffMax
<1> QED BY <1>1 DEF WorkerTyped, WorkerEnds, WorkerStops, ContainerGone, Containers, Devices

\* The back-off stays within its limit.
LEMMA NextDelayType ==
  ASSUME NEW d \in 0 .. BackOffMax, NEW t \in Nat
  PROVE  NextDelay(d, t) \in 0 .. BackOffMax
BY DEF NextDelay, BackOffInitial, BackOffMax

\* glog.Fatal keeps the types.
LEMMA FatalTypes ==
  ASSUME HostTyped, WorkerTyped, Fatal, events' \in Nat
  PROVE  HostTyped' /\ WorkerTyped'
BY WorkerEndsTypes DEF Fatal, HostTyped, ContainerGone, Containers

\* A step of the worker, or of the kubelet towards it, keeps the types.
LEMMA WorkerTypes ==
  ASSUME HostTyped, WorkerTyped, WorkerStep \/ WorkerFails \/ PostStatus \/ PostEnd
  PROVE  HostTyped' /\ WorkerTyped'
<1>1. CASE WorkerStart
  BY <1>1 DEF WorkerStart, HostTyped, WorkerTyped, hostVars, Devices
<1>2. CASE StatDevice
  <2>1. CASE Fatal
    BY <1>2, <2>1, FatalTypes DEF StatDevice, HostTyped, hostVars, Goes
  <2>2. CASE ~Fatal
    BY <1>2, <2>2 DEF StatDevice, Goes, HostTyped, WorkerTyped, hostVars
  <2> QED BY <2>1, <2>2
<1>3. ASSUME NEW t \in CallTimes, GetContainerID(t)
      PROVE  HostTyped' /\ WorkerTyped'
  <2>1. CASE Fatal
    BY <1>3, <2>1, FatalTypes DEF GetContainerID, HostTyped, hostVars
  <2>2. CASE ~Fatal
    <3>1. t \in Nat /\ elapsed \in 0 .. Deadline /\ Deadline \in Nat /\ BackOffMax \in Nat
      BY CallTimeAssumption DEF WorkerTyped, BackOffMax, Deadline
    <3>2. elapsed' \in 0 .. Deadline
      BY <1>3, <2>2, <3>1 DEF GetContainerID
    <3>3. NextDelay(delay, t) \in 0 .. BackOffMax /\ 0 \in 0 .. BackOffMax
      BY <3>1, NextDelayType DEF WorkerTyped
    <3>4. delay' \in {0, NextDelay(delay, t)}
      BY <1>3, <2>2 DEF GetContainerID
    <3> QED BY <1>3, <2>2, <3>2, <3>3, <3>4 DEF GetContainerID, HostTyped, WorkerTyped, hostVars
  <2> QED BY <2>1, <2>2
<1>4. CASE WaitForTimer
  <2>1. CASE Fatal
    BY <1>4, <2>1, FatalTypes DEF WaitForTimer, HostTyped, hostVars
  <2>2. CASE ~Fatal
    <3>1. elapsed' \in 0 .. Deadline
      BY <1>4, <2>2 DEF WaitForTimer, WorkerTyped, Deadline, BackOffMax
    <3> QED BY <1>4, <2>2, <3>1 DEF WaitForTimer, HostTyped, WorkerTyped, hostVars
  <2> QED BY <2>1, <2>2
<1>5. CASE SetControlPlaneServerPath
  <2>1. CASE Fatal
    BY <1>5, <2>1, FatalTypes DEF SetControlPlaneServerPath, WriteFails, HostTyped
  <2>2. CASE ~Fatal
    BY <1>5, <2>2 DEF SetControlPlaneServerPath, WriteFails, Goes, HostTyped, WorkerTyped
  <2> QED BY <2>1, <2>2
<1>6. CASE SetControlPlaneServerParams
  <2>1. CASE Fatal
    BY <1>6, <2>1, FatalTypes DEF SetControlPlaneServerParams, WriteFails, HostTyped
  <2>2. CASE ~Fatal
    BY <1>6, <2>2 DEF SetControlPlaneServerParams, WriteFails, Goes, HostTyped, WorkerTyped
  <2> QED BY <2>1, <2>2
<1>7. CASE WorkerFails
  BY <1>7, FatalTypes, HostBoundAssumption DEF WorkerFails, Event, HostTyped
<1>8. CASE PostStatus
  BY <1>8 DEF PostStatus, HostTyped, WorkerTyped, hostVars, Containers
<1>9. CASE PostEnd
  BY <1>9 DEF PostEnd, HostTyped, WorkerTyped, hostVars, Containers
<1> QED BY <1>1, <1>2, <1>3, <1>4, <1>5, <1>6, <1>7, <1>8, <1>9 DEF WorkerStep

\* Every step keeps the types.
LEMMA TypeStep ==
  ASSUME TypeOK, OwnFiles, [Next]_vars
  PROVE  TypeOK'
<1> USE DEF TypeOK
<1>1. CASE HostStep
  BY <1>1, HostTypes DEF HostStep, PluginTyped, WorkerTyped, pluginVars, workerVars
<1>2. CASE PodLife
  BY <1>2, HostTypes DEF PodLife, DeviceGoesStale, PluginTyped, WorkerTyped, Devices,
                         pluginVars, workerVars
<1>3. CASE PodEnds
  BY <1>3, HostTypes, PluginEndsTypes, WorkerEndsTypes DEF PodEnds
<1>4. CASE KubeletRestarts
  BY <1>4, HostTypes DEF KubeletRestarts, KubeletCleans, PluginTyped, WorkerTyped, workerVars
<1>5. CASE KubeletStops /\ PluginLosesKubelet /\ UNCHANGED workerVars
  BY <1>5, HostTypes DEF PluginLosesKubelet, PluginTyped, Endpoints, WorkerTyped, workerVars
<1>6. CASE Reboot /\ PluginReboots /\ WorkerEnds
  BY <1>6, HostTypes, PluginEndsTypes, WorkerEndsTypes
<1>7. CASE (PluginStep \/ PluginEvent) /\ UNCHANGED workerVars
  BY <1>7, PluginTypes DEF WorkerTyped, workerVars
<1>8. CASE (WorkerStep \/ WorkerFails \/ PostStatus \/ PostEnd) /\ UNCHANGED pluginVars
  BY <1>8, WorkerTypes DEF PluginTyped, pluginVars
<1>9. CASE UNCHANGED vars
  BY <1>9 DEF vars, hostVars, pluginVars, workerVars, HostTyped, PluginTyped, WorkerTyped
<1> QED
  BY <1>1, <1>2, <1>3, <1>4, <1>5, <1>6, <1>7, <1>8, <1>9 DEF Next, NodeEvent

-----------------------------------------------------------------------------

\* A step of a process leaves the pod and the host's files alone, and starts
\* the process only in a running pod.
LEMMA PluginAtHost ==
  ASSUME PluginStep \/ PluginEvent
  PROVE  /\ pod' = pod /\ files' = files
         /\ main = "down" /\ main' # "down" => pod.phase = "running"
BY DEF PluginStep, PluginEvent, NewNicManager, MayStart, Serve, WaitUntilUp, Register,
       ConnectEndpoint, EndpointStops, ListAndWatch, HotPlug, PluginFails, PluginEnds,
       ProcessEnds, hostVars

LEMMA WorkerAtHost ==
  ASSUME WorkerStep \/ WorkerFails \/ PostStatus \/ PostEnd
  PROVE  /\ pod' = pod /\ files' = files
         /\ worker = "down" /\ worker' # "down" => pod.phase = "running"
BY DEF WorkerStep, WorkerFails, PostStatus, PostEnd, WorkerStart, MayStart, StatDevice,
       GetContainerID, WaitForTimer, SetControlPlaneServerPath, SetControlPlaneServerParams,
       WriteFails, Fatal, WorkerEnds, WorkerStops, Goes, hostVars

\* Containers run only in a pod that has them.
LEMMA ProcessesStep ==
  ASSUME TypeOK, ProcessesInPod, [Next]_vars
  PROVE  ProcessesInPod'
<1> USE DEF ProcessesInPod, Hosting
<1>1. CASE HostStep
  BY <1>1 DEF HostStep, InitContainer, PreStop, LoadModule, pluginVars, workerVars,
              TypeOK, HostTyped
<1>2. CASE PodLife
  BY <1>2 DEF PodLife, CreatePod, DeletePod, UnloadModule, DeviceGoesStale, pluginVars,
              workerVars, TypeOK, HostTyped
<1>3. CASE PodEnds
  BY <1>3 DEF PodEnds, PluginEnds, ProcessEnds, WorkerStops
<1>4. CASE KubeletRestarts
  BY <1>4 DEF KubeletRestarts, KubeletStarts, KubeletCleans, workerVars
<1>5. CASE KubeletStops /\ PluginLosesKubelet /\ UNCHANGED workerVars
  BY <1>5 DEF KubeletStops, PluginLosesKubelet, workerVars
<1>6. CASE Reboot /\ PluginReboots /\ WorkerEnds
  BY <1>6 DEF PluginReboots, ProcessEnds, WorkerEnds, WorkerStops
<1>7. CASE (PluginStep \/ PluginEvent) /\ UNCHANGED workerVars
  BY <1>7, PluginAtHost DEF workerVars
<1>8. CASE (WorkerStep \/ WorkerFails \/ PostStatus \/ PostEnd) /\ UNCHANGED pluginVars
  BY <1>8, WorkerAtHost DEF pluginVars
<1>9. CASE UNCHANGED vars
  BY <1>9 DEF vars, hostVars, pluginVars, workerVars
<1> QED
  BY <1>1, <1>2, <1>3, <1>4, <1>5, <1>6, <1>7, <1>8, <1>9 DEF Next, NodeEvent

\* Which steps start or stop the kubelet.
LEMMA KubeletStep ==
  ASSUME [Next]_vars
  PROVE  \/ UNCHANGED kubelet
         \/ kubelet' = "down" /\ (PluginLosesKubelet \/ PluginReboots)
         \/ KubeletRestarts
<1>1. CASE PluginStep \/ PluginEvent
  BY <1>1 DEF PluginStep, PluginEvent, NewNicManager, Serve, WaitUntilUp, Register,
              ConnectEndpoint, EndpointStops, ListAndWatch, HotPlug, PluginFails, hostVars
<1>2. CASE WorkerStep \/ WorkerFails \/ PostStatus \/ PostEnd
  BY <1>2 DEF WorkerStep, WorkerFails, PostStatus, PostEnd, WorkerStart, StatDevice,
              GetContainerID, WaitForTimer, SetControlPlaneServerPath,
              SetControlPlaneServerParams, WriteFails, Fatal, hostVars
<1>3. CASE HostStep \/ PodLife \/ PodEnds
  BY <1>3 DEF HostStep, PodLife, PodEnds, InitContainer, PreStop, LoadModule, CreatePod,
              DeletePod, UnloadModule, PodGone
<1>4. CASE \/ KubeletStops /\ PluginLosesKubelet
           \/ Reboot /\ PluginReboots
  BY <1>4 DEF KubeletStops, Reboot
<1> QED BY <1>1, <1>2, <1>3, <1>4 DEF Next, NodeEvent, vars, hostVars

\* Every step of the processes and of the kubelet keeps the order of Run.
LEMMA ServedStep ==
  ASSUME ServedInOrder, [Next]_vars
  PROVE  ServedInOrder'
<1> USE DEF ServedInOrder
<1>1. CASE KubeletRestarts
  BY <1>1 DEF KubeletRestarts, KubeletStarts, KubeletCleans
<1>2. CASE PluginLosesKubelet \/ PluginReboots
  BY <1>2 DEF PluginLosesKubelet, PluginReboots, ProcessEnds
<1>3. CASE PluginEnds /\ UNCHANGED kubelet
  BY <1>3 DEF PluginEnds, ProcessEnds
<1>4. CASE UNCHANGED <<main, server, socket, endpoint, kubelet>>
  BY <1>4
<1>5. CASE UNCHANGED kubelet /\ PluginStep
  <2>1. CASE NewNicManager(TRUE)
    BY <1>5, <2>1 DEF NewNicManager
  <2>2. CASE Serve
    BY <1>5, <2>2 DEF Serve
  <2>3. CASE WaitUntilUp
    BY <1>5, <2>3 DEF WaitUntilUp
  <2>4. CASE Register /\ ~PluginEnds
    BY <1>5, <2>4 DEF Register
  <2>5. CASE ConnectEndpoint
    BY <1>5, <2>5 DEF ConnectEndpoint
  <2>6. CASE EndpointStops
    BY <1>5, <2>6 DEF EndpointStops
  <2>7. CASE ListAndWatch /\ ~PluginEnds
    BY <1>4, <1>5, <2>7 DEF ListAndWatch
  <2> QED BY <1>3, <1>5, <2>1, <2>2, <2>3, <2>4, <2>5, <2>6, <2>7 DEF PluginStep
<1>6. CASE UNCHANGED kubelet /\ PluginEvent
  <2>1. CASE NewNicManager(FALSE)
    BY <1>6, <2>1 DEF NewNicManager
  <2> QED BY <1>3, <1>4, <1>6, <2>1 DEF PluginEvent, HotPlug, PluginFails
<1>7. CASE UNCHANGED kubelet /\ UNCHANGED pluginVars
  BY <1>4, <1>7 DEF pluginVars
<1> QED
  BY <1>1, <1>2, <1>3, <1>5, <1>6, <1>7, KubeletStep
  DEF Next, HostStep, PodLife, PodEnds, NodeEvent, vars

\* A running pod keeps its own files, and its process what it found of them.
LEMMA FilesStep ==
  ASSUME TypeOK, ProcessesInPod, OwnFiles, [Next]_vars
  PROVE  OwnFiles'
<1> USE DEF OwnFiles
<1>1. CASE HostStep
  <2>1. CASE InitContainer
    BY <1>1, <2>1 DEF HostStep, InitContainer, ProcessesInPod, Hosting, pluginVars, TypeOK,
                      HostTyped
  <2>2. CASE PreStop(main # "down")
    BY <1>1, <2>2 DEF HostStep, PreStop, pluginVars, TypeOK, HostTyped
  <2>3. CASE LoadModule
    BY <1>1, <2>3 DEF HostStep, LoadModule, pluginVars
  <2> QED BY <1>1, <2>1, <2>2, <2>3 DEF HostStep
<1>2. CASE PodLife
  BY <1>2 DEF PodLife, CreatePod, DeletePod, UnloadModule, pluginVars, TypeOK, HostTyped
<1>3. CASE PodEnds
  BY <1>3 DEF PodEnds, PodGone
<1>4. CASE KubeletRestarts
  BY <1>4 DEF KubeletRestarts, KubeletStarts, KubeletCleans
<1>5. CASE KubeletStops /\ PluginLosesKubelet /\ UNCHANGED workerVars
  BY <1>5 DEF KubeletStops, PluginLosesKubelet
<1>6. CASE Reboot /\ PluginReboots /\ WorkerEnds
  BY <1>6 DEF Reboot, PluginReboots, ProcessEnds, TypeOK, HostTyped
<1>7. CASE PluginEnds /\ UNCHANGED <<pod, files>>
  BY <1>7 DEF PluginEnds, ProcessEnds
<1>8. ASSUME NEW readable \in BOOLEAN, NewNicManager(readable)
      PROVE  OwnFiles'
  BY <1>8, NoVersionAssumption DEF NewNicManager, InitMounts, MayStart
<1>9. CASE UNCHANGED <<pod, files, main, mounts>>
  BY <1>9
<1>10. CASE (WorkerStep \/ WorkerFails \/ PostStatus \/ PostEnd) /\ UNCHANGED pluginVars
  BY <1>9, <1>10, WorkerAtHost DEF pluginVars
<1>11. CASE PluginStep \/ PluginEvent
  BY <1>7, <1>8, <1>9, <1>11
  DEF PluginStep, PluginEvent, Serve, WaitUntilUp, Register, ConnectEndpoint, EndpointStops,
      ListAndWatch, HotPlug, PluginFails, hostVars
<1> QED
  BY <1>1, <1>2, <1>3, <1>4, <1>5, <1>6, <1>9, <1>10, <1>11
  DEF Next, NodeEvent, vars, hostVars, pluginVars

\* A new container of the worker starts over.
LEMMA WorkerStopsOnTrack ==
  ASSUME NEW c, WorkerStops(c)
  PROVE  WorkerOnTrack'
BY DEF WorkerStops, WorkerOnTrack

\* The parameters stay set under a worker that runs until the module goes, and
\* then the device of the worker's container is stale.
LEMMA WorkerOnTrackStep ==
  ASSUME TypeOK, WorkerOnTrack, [Next]_vars
  PROVE  WorkerOnTrack'
<1> USE DEF WorkerOnTrack
<1>1. CASE UNCHANGED <<loaded, cpPath, cpParams, workerVars>>
  BY <1>1 DEF workerVars
<1>2. CASE WorkerEnds \/ WorkerStops("none")
  BY <1>2, WorkerStopsOnTrack DEF WorkerEnds
<1>3. CASE LoadModule /\ UNCHANGED workerVars
  BY <1>3 DEF LoadModule, workerVars
<1>4. CASE UnloadModule /\ DeviceGoesStale
  BY <1>4 DEF UnloadModule, DeviceGoesStale, TypeOK, WorkerTyped, Devices
<1>5. CASE WorkerStart
  BY <1>5 DEF WorkerStart, hostVars
<1>6. CASE StatDevice /\ ~WorkerEnds
  BY <1>6 DEF StatDevice, Fatal, Goes, hostVars
<1>7. ASSUME NEW t \in CallTimes, GetContainerID(t), ~WorkerEnds
      PROVE  WorkerOnTrack'
  <2>1. /\ worker = "get" /\ worker' \in {"path", "wait"}
        /\ worker' = "path" => seen' # "none"
        /\ UNCHANGED <<device, loaded>>
    BY <1>7 DEF GetContainerID, Fatal, hostVars
  <2> QED BY <2>1
<1>8. CASE WaitForTimer /\ ~WorkerEnds
  <2>1. worker = "wait" /\ worker' = "get" /\ UNCHANGED <<device, loaded>>
    BY <1>8 DEF WaitForTimer, Fatal, hostVars
  <2> QED BY <2>1
<1>9. CASE SetControlPlaneServerPath /\ ~WorkerEnds
  BY <1>9 DEF SetControlPlaneServerPath, WriteFails, Fatal, Goes
<1>10. CASE SetControlPlaneServerParams /\ ~WorkerEnds
  BY <1>10 DEF SetControlPlaneServerParams, WriteFails, Fatal, Goes
<1>11. CASE PostStatus \/ PostEnd
  BY <1>11 DEF PostStatus, PostEnd, hostVars
<1>12. CASE HostStep
  <2>1. CASE LoadModule
    BY <1>3, <1>12, <2>1 DEF HostStep
  <2>2. CASE ~LoadModule
    <3>1. UNCHANGED <<loaded, cpPath, cpParams, workerVars>>
      BY <1>12, <2>2 DEF HostStep, InitContainer, PreStop
    <3> QED BY <1>1, <3>1
  <2> QED BY <2>1, <2>2
<1>13. CASE PodLife
  <2>1. CASE UnloadModule /\ DeviceGoesStale
    BY <1>4, <2>1
  <2>2. CASE ~(UnloadModule /\ DeviceGoesStale)
    <3>1. UNCHANGED <<loaded, cpPath, cpParams, workerVars>>
      BY <1>13, <2>2 DEF PodLife, CreatePod, DeletePod
    <3> QED BY <1>1, <3>1
  <2> QED BY <2>1, <2>2
<1>14. CASE (PluginStep \/ PluginEvent) /\ UNCHANGED workerVars
  BY <1>1, <1>14
  DEF PluginStep, PluginEvent, NewNicManager, Serve, WaitUntilUp, Register, ConnectEndpoint,
      EndpointStops, ListAndWatch, HotPlug, PluginFails, hostVars
<1>15. CASE KubeletRestarts \/ (KubeletStops /\ PluginLosesKubelet /\ UNCHANGED workerVars)
  BY <1>1, <1>15 DEF KubeletRestarts, KubeletStarts, KubeletStops
<1>16. CASE WorkerStep
  BY <1>2, <1>5, <1>6, <1>7, <1>8, <1>9, <1>10, <1>16 DEF WorkerStep
<1>17. CASE UNCHANGED vars
  BY <1>1, <1>17 DEF vars, hostVars
<1> QED
  BY <1>2, <1>11, <1>12, <1>13, <1>14, <1>15, <1>16, <1>17
  DEF Next, NodeEvent, PodEnds, WorkerFails, Fatal

-----------------------------------------------------------------------------

\* The invariant of the pod, its node and its processes.
LEMMA PodInvariant == Spec => []PodInv
<1>1. Init => PodInv
  BY PodInit
<1>2. PodInv /\ [Next]_vars => PodInv'
  BY TypeStep, ProcessesStep, ServedStep, FilesStep, WorkerOnTrackStep DEF PodInv
<1> QED BY <1>1, <1>2, PTL DEF Spec

\* The specification of the pod, of the two processes in it and of its node is
\* type correct.
THEOREM PodTypeCorrect == Spec => []TypeOK
<1>1. PodInv => TypeOK
  BY DEF PodInv
<1> QED BY <1>1, PodInvariant, PTL

\* Whatever is restarted and whenever the kubelet notices it, a process that has
\* registered can be dialled, but for one whose kubelet was restarted after it
\* began to listen; and no stream is with such a process.
THEOREM EndpointsAreServed == Spec => []EndpointIsServed
<1>1. PodInv => EndpointIsServed
  <2>1. PodInv => socket \in {"absent", "dead", "live"}
    BY DEF PodInv, TypeOK, PluginTyped
  <2> QED BY <2>1 DEF PodInv, ServedInOrder, EndpointIsServed, Forgotten
<1> QED BY <1>1, PodInvariant, PTL

\* Allocate of a running pod hands out files that exist, with the devices while
\* the module is loaded, and the library of the pod's own version unless the
\* process could not list the libraries, whatever earlier pods left on the host.
THEOREM OwnFilesAllocated == Spec => []AllocatesOwnFiles
<1>1. PodInv => AllocatesOwnFiles
  <2> SUFFICES ASSUME PodInv, Allocate, pod.phase = "running"
               PROVE  /\ loaded => Response.complete
                      /\ SetPreload =>
                           Response.lib = (IF mounts.libs = {} THEN None ELSE pod.ver)
    BY DEF AllocatesOwnFiles
  <2>1. main # "down"
    BY DEF Allocate, PodInv, ServedInOrder
  <2>2. /\ files.plain = pod.ver /\ pod.ver # None
        /\ mounts.preload = SetPreload /\ mounts.libs \subseteq files.libs
        /\ mounts.plain <=> mounts.libs # {}
    BY <2>1, NoVersionAssumption DEF PodInv, OwnFiles
  <2> QED BY <2>2 DEF Response
<1> QED BY <1>1, PodInvariant, PTL

\* A worker that sleeps has left the kernel module that it found pointing at the
\* container that the API showed it, until that module is unloaded.
THEOREM ControlPlaneStaysInPod == Spec => []ControlPlaneInPod
<1>1. PodInv => ControlPlaneInPod
  <2>1. PodInv => device \in Devices
    BY DEF PodInv, TypeOK, WorkerTyped
  <2> QED BY <2>1 DEF PodInv, WorkerOnTrack, ControlPlaneInPod, Configured, Devices
<1> QED BY <1>1, PodInvariant, PTL
=============================================================================
