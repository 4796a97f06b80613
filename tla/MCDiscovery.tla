---------------------------- MODULE MCDiscovery ----------------------------
(***************************************************************************)
(* A pod, the pod that may replace it under the same names, and a third,   *)
(* each of one container.  The four changes a replacement takes can occur  *)
(* in one discovery.                                                       *)
(*                                                                         *)
(* Both filters match "app", and the first of them judges its processes.   *)
(***************************************************************************)
EXTENDS Discovery, TLC

CONSTANTS web, web2, db, app1, app2, db1, host, server, shell

MCPods       == {web, web2, db}
MCContainers == {app1, app2, db1}
MCPids       == {1}
MCComms      == {server, shell}

MCPodOf   == app1 :> web @@ app2 :> web2 @@ db1 :> db
MCPodMeta == [p \in MCPods |-> [namespace |-> "prod", pod |-> IF p = db THEN "db" ELSE "web"]]
MCCtrName == [c \in MCContainers |-> IF c = db1 THEN "db" ELSE "app"]

MCFilters ==
  << [namespace |-> {"prod"}, pod |-> {"web"}, container |-> {"app"},
      command |-> {server}, mountpoints |-> <<>>, files |-> <<>>],
     [namespace |-> {"prod"}, pod |-> {"web", "db"}, container |-> {"app", "db"},
      command |-> MCComms, mountpoints |-> <<>>, files |-> <<>>] >>
=============================================================================
