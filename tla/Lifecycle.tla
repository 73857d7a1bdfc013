----------------------------- MODULE Lifecycle -----------------------------
(***************************************************************************)
(* The life of the conductor's process as main runs it: the configuration, *)
(* the probes (eBPF, or simulated where that fails), the pipeline's tasks, *)
(* the control API, and the end: SIGINT, SIGTERM or POST /v1/shutdown, or  *)
(* a panic of main, or a signal whose default action ends the process.     *)
(*                                                                         *)
(* A client is one shutdown request: sent with the right header or not,    *)
(* passed on through a channel of one place, and answered by a task of its *)
(* own, which ends with the process.                                       *)
(* asked is a history variable, read by no guard.                          *)
(***************************************************************************)
EXTENDS Naturals, FiniteSets

CONSTANTS Probes,      \* probes.enabled of the configuration
          Unknown,     \* names among them that no probe has
          Simulate,    \* --simulate, daemon.simulate or a build without eBPF
          Clients      \* shutdown requests

ASSUME LifecycleAssumption ==
    IsFiniteSet(Probes) /\ Unknown \subseteq Probes /\ Simulate \in BOOLEAN

VARIABLES phase,             \* where main stands
          source, loaded,    \* of a probe: what feeds it; ProbeStats::loaded
          listed, loadErrors,    \* what the control API was given of that
          pipeline,          \* whether consumer to dispatcher were started
          flag,              \* the shutdown flag of the ProbeManager
          handlers,          \* whether SIGINT and SIGTERM have handlers
          pc, inbox,         \* requests; the shutdown channel
          exit,              \* how the process ended
          asked

api == <<pc, inbox>>
probeVars == <<source, loaded>>
shownVars == <<listed, loadErrors>>
vars == <<phase, probeVars, shownVars, pipeline, flag, handlers, api, exit,
          asked>>

Init ==
    /\ phase = "config" /\ exit = "none"
    /\ source = [p \in Probes |-> "none"]
    /\ loaded = [p \in Probes |-> FALSE]
    /\ listed = [p \in Probes |-> FALSE] /\ loadErrors = 0
    /\ pipeline = FALSE /\ flag = FALSE /\ handlers = FALSE
    /\ pc = [c \in Clients |-> "idle"] /\ inbox = 0
    /\ asked = FALSE

Alive == phase # "gone"
Ends(how) == phase' = "gone" /\ exit' = how

---------------------------------------------------------------------------
(* Startup.                                                                *)

\* A configuration that is not read or parsed ends main with a panic, a port
\* of 0 with exit code 1.
LoadConfig ==
    /\ phase = "config"
    /\ \/ phase' = "probes" /\ exit' = exit
       \/ Ends("panic")
       \/ Ends("rejected")
    /\ UNCHANGED <<probeVars, shownVars, pipeline, flag, handlers, api, asked>>

\* The eBPF program is loaded and all its tracepoints are attached, or any of
\* that fails and the probe is simulated; either way ProbeStats::loaded is set.
StartProbe(p) ==
    /\ phase = "probes" /\ source[p] = "none"
    /\ \E kind \in {"ebpf", "simulated"} :
          /\ Simulate \/ p \in Unknown => kind = "simulated"
          /\ source' = [source EXCEPT ![p] = kind]
    /\ loaded' = [loaded EXCEPT ![p] = TRUE]
    /\ UNCHANGED <<phase, shownVars, pipeline, flag, handlers, api, exit, asked>>

\* get_probes_info clones the ProbeStats, and what is not loaded is counted;
\* neither is looked at again.
ListProbes ==
    /\ phase = "probes" /\ \A p \in Probes : source[p] # "none"
    /\ listed' = loaded
    /\ loadErrors' = Cardinality({p \in Probes : ~listed'[p]})
    /\ phase' = "spawn"
    /\ UNCHANGED <<probeVars, pipeline, flag, handlers, api, exit, asked>>

\* The consumer, the Aggregator, the MappingEngine and the OscDispatcher are
\* spawned; main panics where the dispatcher's UDP socket cannot be bound.
SpawnPipeline ==
    /\ phase = "spawn"
    /\ \/ phase' = "bind" /\ pipeline' = TRUE /\ exit' = exit
       \/ Ends("panic") /\ pipeline' = FALSE
    /\ UNCHANGED <<probeVars, shownVars, flag, handlers, api, asked>>

\* The control API listens and is served, or its port is taken and main panics.
BindApi ==
    /\ phase = "bind"
    /\ \/ phase' = "serving" /\ UNCHANGED <<pipeline, exit>>
       \/ Ends("panic") /\ pipeline' = FALSE
    /\ UNCHANGED <<probeVars, shownVars, flag, handlers, api, asked>>

\* main's select! is polled for the first time, and with it the future that
\* registers the handlers of SIGTERM and SIGINT.
InstallHandlers ==
    /\ phase = "serving" /\ ~handlers /\ handlers' = TRUE
    /\ UNCHANGED <<phase, probeVars, shownVars, pipeline, flag, api, exit, asked>>

---------------------------------------------------------------------------
(* POST /v1/shutdown.                                                      *)

GuardDropped(header) == TRUE
Passed(header) == header = "shutdown"

\* A connection is served until the runtime is dropped.
Request(c, header) ==
    /\ phase \in {"serving", "stopping", "abort"} /\ pc[c] = "idle"
    /\ pc' = [pc EXCEPT ![c] = IF Passed(header) THEN "sending"
                               ELSE "forbidden"]
    /\ asked' = (asked \/ header = "shutdown")
    /\ UNCHANGED <<phase, probeVars, shownVars, pipeline, flag, handlers, inbox,
                   exit>>

HasPlace == inbox < 1

\* send().await waits while the channel's one place is taken.
SendShutdown(c) ==
    /\ Alive /\ pc[c] = "sending" /\ HasPlace
    /\ inbox' = inbox + 1 /\ pc' = [pc EXCEPT ![c] = "sent"]
    /\ UNCHANGED <<phase, probeVars, shownVars, pipeline, flag, handlers, exit,
                   asked>>

Answer(c) ==
    /\ Alive /\ pc[c] = "sent" /\ pc' = [pc EXCEPT ![c] = "accepted"]
    /\ UNCHANGED <<phase, probeVars, shownVars, pipeline, flag, handlers, inbox,
                   exit, asked>>

---------------------------------------------------------------------------
(* The end.                                                                *)

AfterRequest == "stopping"

\* main's select! takes the message of a request, in its first poll even before
\* the signals' turn has come ...
TakeRequest ==
    /\ phase = "serving" /\ inbox > 0
    /\ inbox' = inbox - 1 /\ phase' = AfterRequest
    /\ UNCHANGED <<probeVars, shownVars, pipeline, flag, handlers, pc, exit, asked>>

\* ... or a signal that has a handler.  Without one, and for SIGHUP always,
\* the default action is taken.
Signal(s) ==
    /\ Alive
    /\ asked' = TRUE
    /\ IF s = "SIGHUP" \/ ~handlers
       THEN Ends(s) /\ pipeline' = FALSE
       ELSE /\ phase' = IF phase = "serving" THEN "stopping" ELSE phase
            /\ UNCHANGED <<exit, pipeline>>
    /\ UNCHANGED <<probeVars, shownVars, flag, handlers, api>>

StopProbes ==
    /\ phase = "stopping" /\ flag' = TRUE /\ phase' = "abort"
    /\ UNCHANGED <<probeVars, shownVars, pipeline, handlers, api, exit, asked>>

\* The accept loop is aborted and main returns; the runtime drops every task.
Return ==
    /\ phase = "abort" /\ Ends("zero") /\ pipeline' = FALSE
    /\ UNCHANGED <<probeVars, shownVars, flag, handlers, api, asked>>

---------------------------------------------------------------------------
Signals == {"SIGINT", "SIGTERM", "SIGHUP"}
Main == \/ LoadConfig \/ (\E p \in Probes : StartProbe(p)) \/ ListProbes
        \/ SpawnPipeline \/ BindApi \/ InstallHandlers
        \/ TakeRequest \/ StopProbes \/ Return
Handler(c) == SendShutdown(c) \/ Answer(c)
Next == \/ Main
        \/ \E c \in Clients, header \in {"shutdown", "none"} : Request(c, header)
        \/ \E c \in Clients : Handler(c)
        \/ \E s \in Signals : Signal(s)

Spec == Init /\ [][Next]_vars

---------------------------------------------------------------------------
(* Properties.                                                             *)

Phases == {"config", "probes", "spawn", "bind", "serving", "stopping",
           "abort", "gone"}

\* Every variable keeps its type.
TypeOK ==
    /\ phase \in Phases
    /\ source \in [Probes -> {"none", "ebpf", "simulated"}]
    /\ loaded \in [Probes -> BOOLEAN] /\ listed \in [Probes -> BOOLEAN]
    /\ loadErrors \in Nat
    /\ pipeline \in BOOLEAN /\ flag \in BOOLEAN /\ handlers \in BOOLEAN
    /\ asked \in BOOLEAN
    /\ pc \in [Clients -> {"idle", "forbidden", "sending", "sent", "accepted"}]
    /\ inbox \in {0, 1}
    /\ exit \in {"none", "panic", "rejected", "zero"} \cup Signals

\* What failed at startup is not shown: whichever probes had to be simulated
\* because their eBPF program was not loaded or not attached, whoever is served
\* finds every enabled probe listed as loaded and no load error counted.
FailuresNotShown ==
    phase \in {"serving", "stopping", "abort"} =>
        loadErrors = 0 /\ \A p \in Probes : listed[p]

\* The process leaves the serving state only when it was asked to: by a
\* request with the header, or by a signal; and it reports success only then
\* and after the probes were told to stop.  SIGINT and SIGTERM end it in any
\* other way only before main first waits for them, although the API may
\* already be answering.
StopsOnlyWhenAsked ==
    /\ phase \in {"stopping", "abort"} => asked
    /\ exit = "zero" => asked /\ flag
    /\ exit \in {"SIGINT", "SIGTERM"} => ~handlers

\* A shutdown request that was passed on ends the process, however many are
\* sent at the same time into the channel of one place.
ShutdownHonoured == \A c \in Clients : pc[c] = "sending" ~> phase = "gone"
=============================================================================
