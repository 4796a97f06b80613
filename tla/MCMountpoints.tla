--------------------------- MODULE MCMountpoints ---------------------------
(***************************************************************************)
(* The root, a plain mountpoint and one with a blank in its name; up to    *)
(* three mounts, so that two can be on the same mountpoint.                *)
(***************************************************************************)
EXTENDS Mountpoints

MCPoints == {"/", "/data", "/my data"}
MCWritten == [p \in MCPoints |-> IF p = "/my data" THEN "/my\\040data" ELSE p]
MCFileSystems == {<<"ext4", "sda1">>, <<"tmpfs", "tmpfs">>}
MCConfigured == <<"/my data", "/data", "/">>
=============================================================================
