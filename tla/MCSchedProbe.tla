---------------------------- MODULE MCSchedProbe ----------------------------
(* Small instances of SchedProbe: two CPUs and two tasks.                  *)
EXTENDS SchedProbe

CONSTANTS p1, p2, cpu0, cpu1
TwoPids == {p1, p2}
TwoCpus == {cpu0, cpu1}
=============================================================================
