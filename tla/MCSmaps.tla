------------------------------ MODULE MCSmaps ------------------------------
(***************************************************************************)
(* Three addresses, one file and memory without a name: a path can be      *)
(* mapped twice, with another mapping between or behind.                   *)
(***************************************************************************)
EXTENDS Smaps

MCNames == {"lib"}
MCNoName == ""
MCAnon == "[anon]"
=============================================================================
