-------------------------- MODULE MCTelemetryPath --------------------------
(* Small instances of TelemetryPath: one simulated and one eBPF probe.     *)
EXTENDS TelemetryPath

CONSTANTS sim, ebpf
OneSim == {sim}
OneEbpf == {ebpf}
=============================================================================
