---------------------------- MODULE MCConductor ----------------------------
(* Small instances of Conductor: two probes that exist, one with more than *)
(* one program, one name that no probe has, and two clients.               *)
EXTENDS Conductor

CONSTANTS cpu, net, typo, c1, c2
ThreeProbes == {cpu, net, typo}
OneTypo == {typo}
TwoClients == {c1, c2}
CpuHasTwo == [p \in ThreeProbes |-> IF p = cpu THEN 2 ELSE 1]
=============================================================================
