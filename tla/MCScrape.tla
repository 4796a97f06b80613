------------------------------ MODULE MCScrape ------------------------------
(***************************************************************************)
(* One pod with a container and the one that replaces it after a restart,  *)
(* of equal labels, and two pids, on a node with names that are not valid  *)
(* UTF-8.  The second filter lists a mountpoint of the first again, but    *)
(* nothing is mounted there in the container that runs first; one of the   *)
(* file patterns is malformed.                                             *)
(***************************************************************************)
EXTENDS Scrape, TLC

CONSTANTS web, app1, app2, host, server, shell, data, logs, scratch, memory, none

MCPods       == {web}
MCContainers == {app1, app2}
MCPids       == {1, 2}
MCComms      == {server, shell}
MCPaths      == {data, logs, scratch}

MCPodOf   == [c \in MCContainers |-> web]
MCPodMeta == [p \in MCPods |-> [namespace |-> "prod", pod |-> "web"]]
MCCtrName == [c \in MCContainers |-> "app"]
MCMounts  == [o \in MCContainers \cup {host} |-> {IF o = app2 THEN scratch ELSE data}]

(* "Watch the app of web", and "watch the disks of prod".                  *)
MCFilter ==
  [namespace |-> {"prod"}, pod |-> {"web"}, container |-> {"app"},
   command |-> {server, shell}, mountpoints |-> <<scratch, data>>, files |-> <<scratch, logs>>]

MCFilters ==
  << MCFilter,
     [MCFilter EXCEPT !.container = {"app", "proxy"}, !.mountpoints = <<scratch>>,
                      !.files = <<>>] >>

(* A shell renamed itself; the rest of the node has such names too.        *)
MCInvalidUTF8 == {shell, host, <<host, data>>}

(* The overlap with a mountpoint every container has.                      *)
MCOverlapping ==
  << [MCFilter EXCEPT !.mountpoints = <<data>>, !.files = <<>>],
     [MCFilter EXCEPT !.container = {"app", "proxy"}, !.mountpoints = <<data>>,
                      !.files = <<>>] >>
=============================================================================
