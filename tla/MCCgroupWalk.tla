---------------------------- MODULE MCCgroupWalk ----------------------------
(***************************************************************************)
(* Two pods, the first with the container's scope (5) and that of its      *)
(* monitor process (6), whose name holds the same ID; the second with a    *)
(* scope of another container (7); and a service beside them.              *)
(***************************************************************************)
EXTENDS CgroupWalk

MCDirectories ==
  { <<>>, <<1>>, <<1, 1>>, <<1, 1, 5>>, <<1, 1, 6>>, <<1, 2>>, <<1, 2, 7>>, <<2>> }

MCScopeNames == {5, 6}
=============================================================================
