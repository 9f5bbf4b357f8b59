---------------------------- MODULE DevicePlugin ----------------------------
(***************************************************************************)
(* The device-plugin process: cmd/deviceplugin/main.go, NicManager and     *)
(* RPCServer of pkg/deviceplugin.  Two goroutines start it up (Serve       *)
(* listens while main waits and registers); each call of ListAndWatch adds *)
(* one more, which never returns.  A glog.Fatal ends the process and the   *)
(* kubelet starts the container again.                                     *)
(***************************************************************************)
EXTENDS PodHost, Sequences

CONSTANTS
  NicLists,     \* the lists of network interfaces that lshw may show
  Solarflare,   \* the interfaces with SFC in their description
  NeedNic, SetPreload, MountOnload,  \* flags of the process
  MaxPods       \* flag maxPods: the devices that the process advertises

ASSUME NicAssumption == NicLists # {}

ASSUME FlagAssumption == {NeedNic, SetPreload, MountOnload} \subseteq BOOLEAN

ASSUME MaxPodsAssumption == MaxPods \in Nat \ {0}

VARIABLES
  nics,        \* what lshw shows on the host
  main,        \* the main goroutine
  server,      \* the goroutine of Serve
  interfaces,  \* manager.interfaces
  mounts,      \* manager.mounts and manager.envs
  socket,      \* sfc-deviceplugin.sock: absent, without a listener, or listening
  listed,      \* ListAndWatch was called in this process
  endpoint,    \* the kubelet's view of the plugin
  capacity     \* the devices that the kubelet offers to pods

pluginVars ==
  <<nics, main, server, interfaces, mounts, socket, listed, endpoint, capacity>>

\* Endpoints of the kubelet: one that it has yet to dial, one with a stream, and
\* one whose process has ended without the kubelet knowing yet.
Endpoints == {"none", "registered", "connected", "broken"}

Mounts == [preload: BOOLEAN, plain: BOOLEAN, libs: SUBSET Versions, script: BOOLEAN]

NoMounts == [preload |-> FALSE, plain |-> FALSE, libs |-> {}, script |-> FALSE]

\* parseOutput: the Solarflare interfaces, in the order of lshw.
ParseOutput(output) == SelectSeq(output, LAMBDA i : i \in Solarflare)

QueryNics == ParseOutput(nics)

PluginTyped ==
  /\ nics \in NicLists
  /\ main \in {"down", "wait", "register", "blocked"}
  /\ server \in {"down", "starting", "serving"}
  /\ interfaces \in {ParseOutput(l) : l \in NicLists} \cup {<<>>}
  /\ mounts \in Mounts
  /\ socket \in {"absent", "dead", "live"}
  /\ listed \in BOOLEAN
  /\ endpoint \in Endpoints
  /\ capacity \in {0, MaxPods}

PluginInit ==
  /\ nics \in NicLists
  /\ interfaces = <<>>
  /\ main = "down"
  /\ server = "down"
  /\ mounts = NoMounts
  /\ socket = "absent"
  /\ listed = FALSE
  /\ endpoint = "none"
  /\ capacity = 0

-----------------------------------------------------------------------------
(***************************************************************************)
(* The end of the process, for whatever reason.  The socket's file stays,  *)
(* and the kubelet learns of the end only when it notices that its stream  *)
(* of ListAndWatch is broken.                                              *)
(***************************************************************************)
ProcessEnds ==
  /\ main' = "down"
  /\ server' = "down"
  /\ interfaces' = <<>>
  /\ mounts' = NoMounts
  /\ listed' = FALSE
  /\ socket' = IF socket = "live" THEN "dead" ELSE socket
  /\ UNCHANGED nics

PluginEnds ==
  /\ ProcessEnds
  /\ endpoint' = IF endpoint = "connected" THEN "broken" ELSE endpoint
  /\ UNCHANGED capacity

\* initMounts: all files of the host directory whose name begins with the name
\* of the library, or none when the directory cannot be read.  That is only a
\* warning: LD_PRELOAD is set all the same.  The onload script, and the device
\* nodes (see Response), are added without a look at the host.
InitMounts(readable) ==
  [preload |-> SetPreload, plain |-> readable /\ files.plain # None,
   libs |-> IF readable THEN files.libs ELSE {}, script |-> MountOnload]

\* NewNicManager.  Without interfaces, or with both ways to use Onload asked
\* for, it fails and the container is started again.
NewNicManager(readable) ==
  /\ MayStart
  /\ main = "down"
  /\ QueryNics = <<>> => ~NeedNic
  /\ ~(SetPreload /\ MountOnload)
  /\ interfaces' = QueryNics
  /\ mounts' = InitMounts(readable)
  /\ main' = "wait"
  /\ server' = "starting"
  /\ IF readable THEN UNCHANGED events ELSE Event
  /\ UNCHANGED <<nics, socket, listed, endpoint, capacity>>
  /\ UNCHANGED <<kubelet, pod, files, loaded, cpPath, cpParams, created>>

\* Slip: the socket of an earlier process is left, and the address is in use.
ServeOverOld ==
  /\ server = "starting"
  /\ \/ /\ socket = "absent"
        /\ server' = "serving"
        /\ socket' = "live"
        /\ UNCHANGED <<nics, main, interfaces, mounts, listed, endpoint, capacity>>
     \/ socket # "absent" /\ PluginEnds
  /\ UNCHANGED hostVars

\* Serve removes the socket of an earlier process and listens.
Serve ==
  /\ server = "starting"
  /\ server' = "serving"
  /\ socket' = "live"
  /\ UNCHANGED <<nics, main, interfaces, mounts, listed, endpoint, capacity, hostVars>>

\* Slip: the first dial is taken for an answer.
WaitUntilUpOnce ==
  /\ main = "wait"
  /\ main' = "register"
  /\ UNCHANGED <<nics, server, interfaces, mounts, socket, listed, endpoint, capacity,
                 hostVars>>

\* isUp dials the socket until someone answers.
WaitUntilUp ==
  /\ main = "wait"
  /\ socket = "live"
  /\ main' = "register"
  /\ UNCHANGED <<nics, server, interfaces, mounts, socket, listed, endpoint, capacity,
                 hostVars>>

\* A kubelet that does not answer ends the process.  A registration replaces
\* the endpoint that the kubelet had.
Register ==
  /\ main = "register"
  /\ \/ /\ kubelet = "up"
        /\ main' = "blocked"
        /\ endpoint' = "registered"
        /\ capacity' = 0
        /\ UNCHANGED <<nics, server, interfaces, mounts, socket, listed>>
     \/ /\ kubelet = "down"
        /\ PluginEnds
  /\ UNCHANGED hostVars

-----------------------------------------------------------------------------
(***************************************************************************)
(* The calls of the kubelet.                                               *)
(***************************************************************************)

\* The kubelet dials the endpoint and calls ListAndWatch in whatever process
\* listens there by then.
ConnectEndpoint ==
  /\ endpoint = "registered"
  /\ endpoint' = IF socket = "live" THEN "connected" ELSE "none"
  /\ listed' = (listed \/ socket = "live")
  /\ UNCHANGED <<nics, main, server, interfaces, mounts, socket, capacity, hostVars>>

\* The kubelet finds its stream broken and takes the devices back.
EndpointStops ==
  /\ endpoint = "broken"
  /\ endpoint' = "none"
  /\ capacity' = 0
  /\ UNCHANGED <<nics, main, server, interfaces, mounts, socket, listed, hostVars>>

\* Slip: ListAndWatch returns after a failed Send.
LoopsReturn == endpoint = "connected"

\* The loops of ListAndWatch outlive their stream: a failed Send is only logged.
Loops == listed

\* Another list of interfaces, or the same in another order, ends the process.
CheckNics == QueryNics = interfaces

\* One round of a loop: CheckNics, then Send, which reaches the kubelet while
\* the stream is there.
ListAndWatch ==
  /\ Loops
  /\ \/ /\ ~CheckNics
        /\ PluginEnds
     \/ /\ CheckNics
        /\ endpoint = "connected"
        /\ capacity' = MaxPods
        /\ UNCHANGED <<nics, main, server, interfaces, mounts, socket, listed, endpoint>>
  /\ UNCHANGED hostVars

\* What Allocate answers, as the container runtime finds it: the version of the
\* library that is preloaded, and whether every file and device in it exists.
\* The answer was put together at the start of the process; the device nodes
\* are in it whether the kernel module is loaded or not.
Response ==
  [lib |-> IF mounts.preload /\ mounts.plain THEN files.plain ELSE None,
   complete |-> /\ loaded
                /\ mounts.plain => files.plain # None
                /\ mounts.libs \subseteq files.libs
                /\ mounts.script => files.plain # None]

\* The kubelet calls Allocate for a container that asks for a device.
Allocate ==
  /\ kubelet = "up"
  /\ endpoint = "connected"
  /\ capacity > 0

-----------------------------------------------------------------------------
(***************************************************************************)
(* What happens to the process.                                            *)
(***************************************************************************)

\* An interface comes or goes.
HotPlug ==
  /\ nics' \in NicLists \ {nics}
  /\ Event
  /\ UNCHANGED <<main, server, interfaces, mounts, socket, listed, endpoint, capacity>>
  /\ UNCHANGED <<kubelet, pod, files, loaded, cpPath, cpParams, created>>

\* lshw fails, a socket operation fails, the kubelet refuses: glog.Fatal.
PluginFails ==
  /\ main # "down"
  /\ Event
  /\ PluginEnds
  /\ UNCHANGED <<kubelet, pod, files, loaded, cpPath, cpParams, created>>

\* The kubelet's streams break and it forgets its endpoints.
PluginLosesKubelet ==
  /\ endpoint' = "none"
  /\ capacity' = 0
  /\ UNCHANGED <<nics, main, server, interfaces, mounts, socket, listed>>

\* After a reboot the kubelet knows of no endpoint.
PluginReboots ==
  /\ ProcessEnds
  /\ endpoint' = "none"
  /\ capacity' = 0

\* A starting kubelet removes the sockets of device plugins.
KubeletCleans ==
  /\ socket' = "absent"
  /\ UNCHANGED <<nics, main, server, interfaces, mounts, listed, endpoint, capacity>>

PluginStep ==
  \/ NewNicManager(TRUE)
  \/ Serve
  \/ WaitUntilUp
  \/ Register
  \/ ConnectEndpoint
  \/ EndpointStops
  \/ ListAndWatch

PluginEvent == NewNicManager(FALSE) \/ HotPlug \/ PluginFails
=============================================================================
