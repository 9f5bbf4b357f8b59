---------------------------- MODULE OnloadWorker ----------------------------
(***************************************************************************)
(* The onload-worker process: cmd/worker/main.go, pkg/client_helper and    *)
(* pkg/control_plane.  It looks up the ID of its own container in the API, *)
(* with a back-off and a deadline, points the kernel module at it in two   *)
(* writes, and sleeps for ever.  Every error is a glog.Fatal, after which  *)
(* the kubelet starts the container again, with a new ID.                  *)
(*                                                                         *)
(* Time is counted in tenths of a second.                                  *)
(***************************************************************************)
EXTENDS PodHost

CONSTANTS
  CallTimes   \* the times that one call of the API may take

\* context.WithTimeout of main, and the two bounds of the back-off.
Deadline == 50
BackOffInitial == 1
BackOffMax == 10

\* The context ends a call that takes longer.
ASSUME CallTimeAssumption == CallTimes \subseteq 0 .. Deadline

VARIABLES
  worker,   \* where the process is
  device,   \* /dev/onload in the container, as of its start
  elapsed,  \* the time since the context was made
  delay,    \* the last delay of the back-off
  seen,     \* containerID
  status    \* the container that the API shows as ready, started and running

workerVars == <<worker, device, elapsed, delay, seen, status>>

\* No device file, the one of the module as it was loaded last, or the one of a
\* module that has been unloaded since.
Devices == {"none", "current", "stale"}

WorkerTyped ==
  /\ worker \in {"down", "stat", "get", "wait", "path", "params", "asleep"}
  /\ device \in Devices
  /\ elapsed \in 0 .. Deadline
  /\ delay \in 0 .. BackOffMax
  /\ seen \in Containers
  /\ status \in Containers

WorkerInit ==
  /\ worker = "down"
  /\ device = "none"
  /\ elapsed = 0
  /\ delay = 0
  /\ seen = "none"
  /\ status = "none"

-----------------------------------------------------------------------------

\* The end of the container, after which the API shows status s.
WorkerStops(s) ==
  /\ worker' = "down"
  /\ device' = "none"
  /\ elapsed' = 0
  /\ delay' = 0
  /\ seen' = "none"
  /\ status' = s

\* The API goes on to show the container as running until the kubelet has
\* written another status.
WorkerEnds == WorkerStops(ContainerGone(status))

\* glog.Fatal: the parameters keep the name of the container that ends.
Fatal ==
  /\ WorkerEnds
  /\ cpParams' = ContainerGone(cpParams)
  /\ UNCHANGED <<kubelet, pod, files, loaded, cpPath, created>>

Goes(step) == worker' = step /\ UNCHANGED <<device, elapsed, delay, seen, status>>

\* The device files of the container are those of the host at its start.
WorkerStart ==
  /\ MayStart
  /\ worker = "down"
  /\ worker' = "stat"
  /\ device' = IF loaded THEN "current" ELSE "none"
  /\ UNCHANGED <<elapsed, delay, seen, status, hostVars>>

\* Slip: /dev/onload is not looked for.
StatSkipped ==
  /\ worker = "stat"
  /\ Goes("get")
  /\ UNCHANGED hostVars

\* Slip: the worker waits for /dev/onload in its container.
StatWaits ==
  /\ worker = "stat"
  /\ device # "none"
  /\ Goes("get")
  /\ UNCHANGED hostVars

\* Without /dev/onload only another container can have it.
StatDevice ==
  /\ worker = "stat"
  /\ \/ device # "none" /\ Goes("get") /\ UNCHANGED hostVars
     \/ device = "none" /\ Fatal /\ UNCHANGED events

\* Slip: the delay grows faster and without a limit.
NextDelaySlip(d, t) == IF d = 0 THEN BackOffInitial ELSE 3 * d

\* flowcontrol.Backoff.Next after a delay d and a call that took time t: the
\* initial delay for a new entry and for one that was not used for more than
\* twice the maximum, otherwise twice the last delay up to the maximum.
NextDelay(d, t) ==
  IF d = 0 \/ d + t > 2 * BackOffMax THEN BackOffInitial
  ELSE IF 2 * d < BackOffMax THEN 2 * d ELSE BackOffMax

\* One call of the API in the loop of GetContainerID, which takes time t.
GetContainerID(t) ==
  /\ worker = "get"
  /\ \/ /\ elapsed + t <= Deadline
        /\ status # "none"
        /\ seen' = status
        /\ worker' = "path"
        /\ elapsed' = 0
        /\ delay' = 0
        /\ UNCHANGED <<device, status, hostVars>>
     \/ /\ elapsed + t <= Deadline
        /\ status = "none"
        /\ elapsed' = elapsed + t
        /\ delay' = NextDelay(delay, t)
        /\ worker' = "wait"
        /\ UNCHANGED <<device, seen, status, hostVars>>
     \/ /\ elapsed + t >= Deadline
        /\ Fatal
        /\ UNCHANGED events

\* The timer of the back-off or the context, whichever is first.
WaitForTimer ==
  /\ worker = "wait"
  /\ \/ /\ elapsed + delay <= Deadline
        /\ elapsed' = elapsed + delay
        /\ worker' = "get"
        /\ UNCHANGED <<device, delay, seen, status, hostVars>>
     \/ /\ elapsed + delay >= Deadline
        /\ Fatal
        /\ UNCHANGED events

\* Without the module there is no parameter to write to.
WriteFails == ~loaded /\ Fatal /\ UNCHANGED events

\* Configure, first write.
SetControlPlaneServerPath ==
  /\ worker = "path"
  /\ \/ /\ loaded
        /\ cpPath' = "crictl"
        /\ Goes("params")
        /\ UNCHANGED <<kubelet, pod, files, loaded, cpParams, created, events>>
     \/ WriteFails

\* Configure, second write; then the process sleeps.
SetControlPlaneServerParams ==
  /\ worker = "params"
  /\ \/ /\ loaded
        /\ cpParams' = seen
        /\ Goes("asleep")
        /\ UNCHANGED <<kubelet, pod, files, loaded, cpPath, created, events>>
     \/ WriteFails

\* A call of the API, the format of the container ID or a write fails, or the
\* container is killed.
WorkerFails ==
  /\ worker # "down"
  /\ Fatal
  /\ Event

-----------------------------------------------------------------------------

\* The kubelet writes to the API that the container runs.
PostStatus ==
  /\ kubelet = "up"
  /\ worker # "down"
  /\ status # "own"
  /\ status' = "own"
  /\ UNCHANGED <<worker, device, elapsed, delay, seen, hostVars>>

\* The kubelet writes to the API that the last container has ended.
PostEnd ==
  /\ kubelet = "up"
  /\ status = "gone"
  /\ status' = "none"
  /\ UNCHANGED <<worker, device, elapsed, delay, seen, hostVars>>

\* The device file in the container is the one of a module that goes.
DeviceGoesStale ==
  /\ device' = IF device = "current" THEN "stale" ELSE device
  /\ UNCHANGED <<worker, elapsed, delay, seen, status>>

WorkerStep ==
  \/ WorkerStart
  \/ StatDevice
  \/ \E t \in CallTimes : GetContainerID(t)
  \/ WaitForTimer
  \/ SetControlPlaneServerPath
  \/ SetControlPlaneServerParams
=============================================================================
