----------------------------- MODULE MCReadings -----------------------------
(***************************************************************************)
(* The files are followed group by group: what the kernel keeps in one     *)
(* group does not depend on the other groups.                              *)
(***************************************************************************)
EXTENDS Readings

MCFileGroups ==
  { {"memory.current", "memory.peak", "memory.max"},
    {"pids.current", "pids.peak", "pids.max"},
    {"cpu.max"}, {"cpu.stat"}, {"io.stat"}, {"io"} }

(* For the counterexample to ThrottledWithinPeriods.                       *)
MCCpuStat == {{"cpu.stat"}}

(* Two that differ in the minor number only.                               *)
MCDevices == {<<8, 0>>, <<8, 16>>}
=============================================================================
