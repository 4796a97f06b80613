------------------------------ MODULE MCKvTools ------------------------------
(***************************************************************************)
(* Two workers.  kv2 is empty at first; kv1 has one secret, or what an     *)
(* earlier mix left of two: a gap.  Two more may be asked for.             *)
(***************************************************************************)
EXTENDS KvTools

MCWorkers == {"w1", "w2"}

MCInitial == {[kv1 |-> ids, kv2 |-> {}] : ids \in {{1}, {2}}}
=============================================================================
