----------------------------- MODULE NdiPortIds -----------------------------
(***************************************************************************)
(* The port map as the mirroring, ACL and QoS calls use it: a port of the  *)
(* NAS has a SAI port or has none, and a call that names a port translates *)
(* it when it is made.  Module NdiPortMap is the map itself.               *)
(***************************************************************************)
EXTENDS NdiCommon

CONSTANT Port

VARIABLE mapped \* the ports with a SAI port

\* ndi_sai_port_id_get finds the SAI port.
PortIdGet(p) == p \in mapped
=============================================================================
