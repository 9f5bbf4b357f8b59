------------------------- MODULE MCDevicePluginPod --------------------------
(***************************************************************************)
(* The instance of DevicePluginPod for TLC: a node with and without a      *)
(* Solarflare interface beside another one.                                *)
(***************************************************************************)
EXTENDS DevicePluginPod

CONSTANTS sfc1, other

MCNicLists == {<<other>>, <<sfc1, other>>}
=============================================================================
