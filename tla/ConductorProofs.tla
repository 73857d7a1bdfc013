-------------------------- MODULE ConductorProofs ---------------------------
(***************************************************************************)
(* Proofs about Conductor for any set of probes and of shutdown requests:  *)
(* the programs in the kernel come and go with those who read their        *)
(* events, failures at startup are not shown, nothing stops the process    *)
(* unasked, and no task of the pipeline ends before the mapping task.      *)
(***************************************************************************)
EXTENDS Conductor, FiniteSetTheorems, TLAPS

---------------------------------------------------------------------------
(* The life of main.                                                       *)

Listing == {"spawn", "bind", "serving", "stopping", "abort"}

\* What has been started in which phase.
StartInv ==
    /\ \A p \in Probes : source[p] # "none" => loaded[p]
    /\ phase \in Listing =>
           /\ loadErrors = 0
           /\ \A p \in Probes : listed[p] /\ source[p] # "none"

\* Whatever leads to the end goes back to a request or a signal.
AskedInv ==
    /\ (\E c \in Clients : pc[c] \in {"sending", "sent"}) => asked
    /\ inbox > 0 => asked
    /\ phase \in {"stopping", "abort"} => asked
    /\ phase = "abort" => flag
    /\ exit # "none" => phase = "gone"
    /\ exit = "zero" => asked /\ flag
    /\ exit \in {"SIGINT", "SIGTERM"} => ~handlers

LifeInv == TypeOK /\ StartInv /\ AskedInv

LEMMA LifeInit == Init => LifeInv
<1>. SUFFICES ASSUME Init PROVE LifeInv
  OBVIOUS
<1>1. TypeOK
  BY DEF Init, TypeOK, Phases
<1>2. StartInv
  BY DEF Init, StartInv, Listing
<1>3. AskedInv
  BY DEF Init, AskedInv
<1>. QED  BY <1>1, <1>2, <1>3 DEF LifeInv

LEMMA StartupSteps ==
    ASSUME LifeInv, LoadConfig \/ SpawnPipeline \/ BindApi \/ InstallHandlers
    PROVE  LifeInv'
<1>1. TypeOK'
  BY DEF LifeInv, TypeOK, Phases, LoadConfig, SpawnPipeline, BindApi,
         InstallHandlers, Ends,
         probeVars, shownVars, api
<1>2. StartInv'
  BY DEF LifeInv, TypeOK, StartInv, Listing, LoadConfig, SpawnPipeline,
         BindApi, InstallHandlers, Ends, probeVars, shownVars, api
<1>3. AskedInv'
  BY DEF LifeInv, TypeOK, AskedInv, LoadConfig, SpawnPipeline, BindApi,
         InstallHandlers, Ends,
         probeVars, shownVars, api
<1>. QED  BY <1>1, <1>2, <1>3 DEF LifeInv

LEMMA ProbeStarts ==
    ASSUME LifeInv, NEW p \in Probes, StartProbe(p)
    PROVE  /\ LifeInv' /\ source'[p] \in {"ebpf", "simulated"}
           /\ \A q \in Probes \ {p} : source'[q] = source[q]
<1>1. PICK kind \in {"ebpf", "simulated"} : source' = [source EXCEPT ![p] = kind]
  BY DEF StartProbe
<1>2. /\ source'[p] = kind /\ loaded'[p] = TRUE
      /\ \A q \in Probes \ {p} : source'[q] = source[q] /\ loaded'[q] = loaded[q]
      /\ source' \in [Probes -> {"none", "ebpf", "simulated"}]
      /\ loaded' \in [Probes -> BOOLEAN]
  BY <1>1 DEF StartProbe, LifeInv, TypeOK
<1>3. TypeOK'
  BY <1>2 DEF StartProbe, LifeInv, TypeOK, shownVars, api
<1>4. StartInv'
  BY <1>2 DEF StartProbe, LifeInv, StartInv, Listing, shownVars
<1>5. AskedInv'
  BY DEF StartProbe, LifeInv, AskedInv, api
<1>. QED  BY <1>2, <1>3, <1>4, <1>5 DEF LifeInv

LEMMA ProbesListed ==
    ASSUME LifeInv, ListProbes
    PROVE  LifeInv'
<1>1. /\ listed' = loaded /\ \A p \in Probes : source[p] # "none"
      /\ UNCHANGED <<source, loaded>>
  BY DEF ListProbes, probeVars
<1>2. \A p \in Probes : loaded[p] /\ listed'[p]
  BY <1>1 DEF LifeInv, StartInv
<1>3. loadErrors' = 0
  <2>1. {p \in Probes : ~listed'[p]} = {}
    BY <1>2
  <2>. QED  BY <2>1, FS_EmptySet DEF ListProbes
<1>4. TypeOK'
  BY <1>1, <1>3 DEF ListProbes, LifeInv, TypeOK, Phases, api
<1>5. StartInv'
  BY <1>1, <1>2, <1>3 DEF ListProbes, LifeInv, StartInv, Listing
<1>6. AskedInv'
  BY DEF ListProbes, LifeInv, AskedInv, api
<1>. QED  BY <1>4, <1>5, <1>6 DEF LifeInv

LEMMA EndSteps ==
    ASSUME LifeInv, TakeRequest \/ StopProbes \/ Return
    PROVE  LifeInv'
<1>1. TypeOK'
  <2>1. CASE TakeRequest
    <3>1. inbox' \in {0, 1} /\ phase' \in Phases
      BY <2>1 DEF LifeInv, TypeOK, Phases, TakeRequest, AfterRequest
    <3>. QED  BY <2>1, <3>1 DEF LifeInv, TypeOK, TakeRequest, probeVars, shownVars
  <2>2. CASE StopProbes
    BY <2>2 DEF LifeInv, TypeOK, Phases, StopProbes, probeVars, shownVars, api
  <2>3. CASE Return
    BY <2>3 DEF LifeInv, TypeOK, Phases, Return, Ends, probeVars, shownVars, api
  <2>. QED  BY <2>1, <2>2, <2>3
<1>2. StartInv'
  BY DEF LifeInv, StartInv, Listing, TakeRequest, AfterRequest,
         StopProbes, Return, Ends, probeVars, shownVars
<1>3. AskedInv'
  BY DEF LifeInv, TypeOK, AskedInv, TakeRequest, AfterRequest, StopProbes,
         Return, Ends, api
<1>. QED  BY <1>1, <1>2, <1>3 DEF LifeInv

LEMMA SignalStep ==
    ASSUME LifeInv, NEW s \in Signals, Signal(s)
    PROVE  LifeInv'
<1>1. CASE s = "SIGHUP" \/ ~handlers
  <2>1. /\ phase' = "gone" /\ exit' = s /\ pipeline' = FALSE /\ asked' = TRUE
        /\ s \in {"SIGINT", "SIGTERM", "SIGHUP"}
        /\ UNCHANGED <<source, loaded, listed, loadErrors, flag, handlers, pc, inbox>>
    BY <1>1 DEF Signal, Ends, Signals, probeVars, shownVars, api
  <2>2. TypeOK'
    BY <2>1 DEF LifeInv, TypeOK, Phases, Signals
  <2>3. StartInv' /\ AskedInv'
    BY <1>1, <2>1 DEF LifeInv, StartInv, AskedInv, Listing
  <2>. QED  BY <2>2, <2>3 DEF LifeInv
<1>2. CASE ~(s = "SIGHUP" \/ ~handlers)
  <2>1. /\ phase' = IF phase = "serving" THEN "stopping" ELSE phase
        /\ asked' = TRUE
        /\ UNCHANGED <<source, loaded, listed, loadErrors, pipeline, flag,
                       handlers, pc, inbox, exit>>
    BY <1>2 DEF Signal, probeVars, shownVars, api
  <2>2. TypeOK'
    BY <2>1 DEF LifeInv, TypeOK, Phases
  <2>3. StartInv'
    BY <2>1 DEF LifeInv, StartInv, Listing
  <2>4. AskedInv'
    BY <2>1 DEF LifeInv, AskedInv
  <2>. QED  BY <2>2, <2>3, <2>4 DEF LifeInv
<1>. QED  BY <1>1, <1>2

LEMMA RequestSteps ==
    ASSUME LifeInv, NEW c \in Clients,
           Handler(c) \/ (\E header \in {"shutdown", "none"} : Request(c, header))
    PROVE  LifeInv'
<1>1. /\ UNCHANGED <<phase, source, loaded, listed, loadErrors, pipeline, flag,
                     handlers, exit>>
      /\ pc' \in [Clients -> {"idle", "forbidden", "sending", "sent", "accepted"}]
      /\ inbox' \in {0, 1} /\ asked' \in BOOLEAN
  <2>1. CASE \E header \in {"shutdown", "none"} : Request(c, header)
    BY <2>1 DEF LifeInv, TypeOK, Request, probeVars, shownVars
  <2>2. CASE SendShutdown(c)
    <3>1. inbox' = 1
      BY <2>2 DEF LifeInv, TypeOK, SendShutdown, HasPlace
    <3>. QED  BY <2>2, <3>1 DEF LifeInv, TypeOK, SendShutdown, probeVars, shownVars
  <2>3. CASE Answer(c)
    BY <2>3 DEF LifeInv, TypeOK, Answer, probeVars, shownVars
  <2>. QED  BY <2>1, <2>2, <2>3 DEF Handler
<1>2. TypeOK'
  BY <1>1 DEF LifeInv, TypeOK
<1>3. StartInv'
  BY <1>1 DEF LifeInv, StartInv
<1>4. asked => asked'
  BY DEF Handler, Request, SendShutdown, Answer
<1>5. (\E d \in Clients : pc'[d] \in {"sending", "sent"}) => asked'
  BY DEF LifeInv, TypeOK, AskedInv, Handler, Request, SendShutdown, Answer, Passed
<1>6. inbox' > 0 => asked'
  BY DEF LifeInv, TypeOK, AskedInv, Handler, Request, SendShutdown, Answer
<1>7. AskedInv'
  BY <1>1, <1>4, <1>5, <1>6 DEF LifeInv, AskedInv
<1>. QED  BY <1>2, <1>3, <1>7 DEF LifeInv

LEMMA LifeStutters == LifeInv /\ UNCHANGED vars => LifeInv'
BY DEF LifeInv, TypeOK, StartInv, AskedInv, vars, probeVars, shownVars, api

LEMMA LifeNext == LifeInv /\ Next => LifeInv'
BY StartupSteps, ProbeStarts, ProbesListed, EndSteps, SignalStep, RequestSteps
   DEF Next, Main

LEMMA LifeStays == LifeInv /\ [ConductorNext]_allVars => LifeInv'
<1>. SUFFICES ASSUME LifeInv, [ConductorNext]_allVars PROVE LifeInv'
  OBVIOUS
<1>1. Next \/ UNCHANGED vars
  BY DEF ConductorNext, LifeStep, Attach, StartDrain, EndDrain, End, allVars
<1>. QED  BY <1>1, LifeNext, LifeStutters

LEMMA LifeCorrect == ConductorSpec => []LifeInv
BY LifeInit, LifeStays, PTL DEF ConductorSpec, ConductorInit

\* Whoever is served finds every probe listed as loaded and no load error,
\* whatever failed to load, and however the tasks have fared since.
THEOREM FailuresStayHidden == ConductorSpec => []FailuresNotShown
<1>1. LifeInv => FailuresNotShown
  BY DEF LifeInv, StartInv, FailuresNotShown, Listing
<1>. QED  BY <1>1, LifeCorrect, PTL

\* The process leaves the serving state and reports success only when asked,
\* and not before the probes were told to stop; a signal with a handler does
\* not kill it.
THEOREM NothingStopsUnasked == ConductorSpec => []StopsOnlyWhenAsked
<1>1. LifeInv => StopsOnlyWhenAsked
  BY DEF LifeInv, AskedInv, StopsOnlyWhenAsked
<1>. QED  BY <1>1, LifeCorrect, PTL

---------------------------------------------------------------------------
(* The tasks.                                                              *)

TaskInv == LifeInv /\ ConductorTypeOK /\ EndsUpstream /\ AttachedWhileRead

\* What a task that ends has found, other than a reason of its own.
LEMMA WhyTaskEnds ==
    ASSUME NEW t \in Tasks, TaskCascade!TaskEnds(t), EndsUpstream
    PROVE  /\ t \in {"consumer", "writer"} => "aggregator" \in ended
           /\ t \in {"aggregator", "dispatcher"} => "mapper" \in ended
           /\ t \in Probes => t \in MayEndNow \/ "consumer" \in ended
<1>1. /\ t \notin ended
      /\ t \in MayEndNow \/ TaskCascade!FindsClosed(t) \/ TaskCascade!RunsDry(t)
  BY DEF TaskCascade!TaskEnds
<1>2. MayEndNow \subseteq Probes \cup {"mapper"}
  BY DEF MayEndNow, Pollers
<1>3. \A s, u : <<s, u>> \in Feeds <=>
          \/ s \in Probes /\ u = "consumer"
          \/ s = "consumer" /\ u = "aggregator"
          \/ s = "aggregator" /\ u \in {"mapper", "writer"}
          \/ s = "mapper" /\ u = "dispatcher"
  BY DEF Feeds
<1>4. \A u \in PipelineTasks : u \notin Probes /\ u \in Tasks
  BY TasksAssumption DEF Tasks
<1>5. CASE TaskCascade!FindsClosed(t)
  <2>1. PICK u \in ended : t \in LeaveOnClosed /\ <<t, u>> \in Feeds
    BY <1>5 DEF TaskCascade!FindsClosed
  <2>2. t \in Probes => u = "consumer"
    BY <1>3, <1>4, <2>1 DEF PipelineTasks
  <2>3. t = "consumer" => u = "aggregator"
    BY <1>3, <1>4, <2>1 DEF PipelineTasks
  <2>4. t = "aggregator" => u \in {"mapper", "writer"}
    BY <1>3, <1>4, <2>1 DEF PipelineTasks
  <2>5. t \notin {"writer", "dispatcher"}
    BY <1>4, <2>1 DEF LeaveOnClosed, PipelineTasks
  <2>6. t = "aggregator" => u = "mapper"
    BY <1>1, <2>1, <2>4 DEF EndsUpstream
  <2>. QED  BY <2>1, <2>2, <2>3, <2>5, <2>6
<1>6. CASE TaskCascade!RunsDry(t)
  <2>1. t \in {"aggregator", "mapper", "dispatcher", "writer"}
    BY <1>6 DEF TaskCascade!RunsDry, ReadToTheEnd, PipelineTasks
  <2>2. \A s \in PipelineTasks : <<s, t>> \in Feeds => s \in ended
    BY <1>4, <1>6 DEF TaskCascade!RunsDry
  <2>3. t = "writer" => "aggregator" \in ended
    BY <1>3, <2>2 DEF PipelineTasks
  <2>4. t = "dispatcher" => "mapper" \in ended
    BY <1>3, <2>2 DEF PipelineTasks
  <2>5. t = "aggregator" => "consumer" \in ended
    BY <1>3, <2>2 DEF PipelineTasks
  <2>6. t # "aggregator"
    BY <1>1, <2>5 DEF EndsUpstream
  <2>7. t \notin Probes
    BY <1>4, <2>1 DEF PipelineTasks
  <2>. QED  BY <2>1, <2>3, <2>4, <2>6, <2>7
<1>7. CASE t \in MayEndNow
  BY <1>2, <1>4, <1>7 DEF PipelineTasks
<1>. QED  BY <1>1, <1>5, <1>6, <1>7

\* Dropping what is dropped leaves fewer programs attached.
LEMMA DetachedAreFewer ==
    ASSUME ConductorTypeOK, Detach
    PROVE  /\ attached' \in [Probes -> Nat]
           /\ \A p \in Probes :
                  /\ attached'[p] = IF BpfDropped(p) THEN 0 ELSE attached[p]
                  /\ attached'[p] <= Hooks[p]
<1>1. attached' = [p \in Probes |-> IF BpfDropped(p) THEN 0 ELSE attached[p]]
  BY DEF Detach
<1>2. \A p \in Probes : attached[p] \in Nat /\ attached[p] <= Hooks[p]
  BY DEF ConductorTypeOK
<1>3. \A p \in Probes : Hooks[p] \in Nat
  BY HooksAssumption
<1>. QED  BY <1>1, <1>2, <1>3

\* Main, handlers and signals start tasks and end none.
LEMMA LifeKeepsTasks ==
    ASSUME TaskInv, LifeInv', LifeStep
    PROVE  ConductorTypeOK' /\ EndsUpstream'
<1>1. /\ ended' = ended /\ (draining' = draining \/ draining' = {})
      /\ Alive' => Alive
  BY DEF LifeStep, LifeGoesOn, Next, Main, Handler, LoadConfig, StartProbe,
         ListProbes, SpawnPipeline, BindApi, InstallHandlers, TakeRequest, StopProbes, Return,
         Request, SendShutdown, Answer, Signal, Ends, Alive, AfterRequest
<1>2. (flag => flag') /\ (Alive' /\ pipeline => pipeline')
  BY DEF LifeStep, Next, Main, Handler, LoadConfig, StartProbe,
         ListProbes, SpawnPipeline, BindApi, InstallHandlers, TakeRequest, StopProbes, Return,
         Request, SendShutdown, Answer, Signal, Ends, Alive, AfterRequest
<1>3. \/ source' = source
      \/ \E p \in Probes : /\ Alive /\ source[p] = "none"
                           /\ source'[p] \in {"ebpf", "simulated"}
                           /\ \A q \in Probes \ {p} : source'[q] = source[q]
  <2>1. ASSUME NEW p \in Probes, StartProbe(p)
        PROVE  /\ Alive /\ source[p] = "none"
               /\ source'[p] \in {"ebpf", "simulated"}
               /\ \A q \in Probes \ {p} : source'[q] = source[q]
    BY <2>1, ProbeStarts DEF TaskInv, StartProbe, Alive
  <2>2. ASSUME ~\E p \in Probes : StartProbe(p)
        PROVE  source' = source
    BY <2>2 DEF LifeStep, Next, Main, Handler, LoadConfig, ListProbes,
                SpawnPipeline, BindApi, InstallHandlers, TakeRequest, StopProbes, Return,
                Request, SendShutdown, Answer, Signal, probeVars
  <2>. QED  BY <2>1, <2>2
<1>4. /\ \A p \in Probes : source[p] # "none" => source'[p] = source[p]
      /\ \A p \in Probes : source[p] = "none" /\ source'[p] # "none" => Alive
  BY <1>3
<1>5. Pollers \subseteq Pollers' /\ (Alive' => Started \subseteq Started')
  BY <1>2, <1>4 DEF Pollers, Started
<1>6. ConductorTypeOK'
  <2>1. ended' \subseteq Tasks /\ draining' \subseteq Pollers' \ ended'
    BY <1>1, <1>5 DEF TaskInv, ConductorTypeOK
  <2>2. Alive' => ended' \subseteq Started'
    BY <1>1, <1>5 DEF TaskInv, ConductorTypeOK
  <2>3. TypeOK'
    BY DEF LifeInv
  <2>4. ConductorTypeOK /\ Detach
    BY DEF TaskInv, LifeStep, LifeGoesOn
  <2>. QED  BY <2>1, <2>2, <2>3, <2>4, DetachedAreFewer DEF ConductorTypeOK
<1>7. Alive' => Simulators' \cap ended \subseteq Simulators
  <2>. SUFFICES ASSUME Alive' PROVE Simulators' \cap ended \subseteq Simulators
    OBVIOUS
  <2>1. \A p \in Probes : p \in ended => source[p] # "none"
    BY <1>1, TasksAssumption DEF TaskInv, ConductorTypeOK, Started
  <2>. QED  BY <1>4, <2>1 DEF Simulators
<1>8. EndsUpstream'
  BY <1>1, <1>2, <1>7 DEF TaskInv, EndsUpstream
<1>. QED  BY <1>6, <1>8

\* Main attaches all programs of a probe or none, and leaves the probes only
\* when each has what feeds it.
LEMMA LifeKeepsAttached ==
    ASSUME TaskInv, LifeInv', LifeStep
    PROVE  AttachedWhileRead'
<1>. SUFFICES ASSUME NEW p \in Probes
              PROVE  /\ Alive' /\ p \in Pollers' \ ended' => attached'[p] = Hooks[p]
                     /\ attached'[p] > 0 =>
                            \/ Alive' /\ p \in Pollers' \ ended'
                            \/ phase' = "probes" /\ source'[p] = "none"
  BY DEF AttachedWhileRead
<1>1. /\ attached'[p] = IF BpfDropped(p) THEN 0 ELSE attached[p]
      /\ attached[p] \in Nat
  BY DetachedAreFewer DEF TaskInv, ConductorTypeOK, LifeStep, LifeGoesOn
<1>2. /\ ended' = ended
      /\ source'[p] # source[p] => (source'[p] = "ebpf" <=> attached[p] = Hooks[p])
  BY DEF LifeStep, LifeGoesOn
<1>3. /\ Alive' => Alive
      /\ phase = "probes" => phase' \in {"probes", "spawn", "gone"}
  BY DEF LifeStep, Next, Main, Handler, LoadConfig, StartProbe,
         ListProbes, SpawnPipeline, BindApi, InstallHandlers, TakeRequest,
         StopProbes, Return, Request, SendShutdown, Answer, Signal, Ends, Alive,
         AfterRequest
<1>4. /\ source[p] \in {"none", "ebpf", "simulated"}
      /\ source'[p] \in {"none", "ebpf", "simulated"}
  BY DEF TaskInv, LifeInv, TypeOK
<1>5. phase' = "spawn" => source'[p] # "none"
  BY DEF LifeInv, StartInv, Listing
<1>6. source[p] \in {"ebpf", "simulated"} => source'[p] = source[p]
  <2>1. ASSUME NEW q \in Probes, StartProbe(q)
        PROVE  source[p] # "none" => source'[p] = source[p]
    BY <2>1, ProbeStarts DEF TaskInv, StartProbe
  <2>2. ASSUME ~\E q \in Probes : StartProbe(q)
        PROVE  source' = source
    BY <2>2 DEF LifeStep, Next, Main, Handler, LoadConfig, ListProbes,
                SpawnPipeline, BindApi, InstallHandlers, TakeRequest, StopProbes,
                Return, Request, SendShutdown, Answer, Signal, probeVars
  <2>. QED  BY <2>1, <2>2
<1>7. CASE BpfDropped(p)
  BY <1>1, <1>2, <1>7, HooksAssumption DEF BpfDropped, Alive, Pollers
<1>8. CASE ~BpfDropped(p)
  <2>1. /\ attached'[p] = attached[p] /\ Alive' /\ Alive
        /\ source'[p] # "simulated" /\ p \notin ended' /\ p \notin ended
    BY <1>1, <1>2, <1>3, <1>8 DEF BpfDropped, Alive
  <2>2. /\ source[p] = "ebpf" => attached[p] = Hooks[p]
        /\ attached[p] > 0 => \/ source[p] = "ebpf"
                              \/ phase = "probes" /\ source[p] = "none"
    BY <2>1 DEF TaskInv, AttachedWhileRead, Pollers
  <2>3. CASE source'[p] = "ebpf"
    BY <1>2, <2>1, <2>2, <2>3 DEF Pollers
  <2>4. CASE source'[p] = "none"
    <3>1. source[p] = "none"
      BY <1>4, <1>6, <2>4
    <3>2. phase = "probes" => phase' = "probes"
      BY <1>3, <1>5, <2>1, <2>4 DEF Alive
    <3>. QED  BY <2>1, <2>2, <2>4, <3>1, <3>2 DEF Pollers
  <2>. QED  BY <1>4, <2>1, <2>3, <2>4
<1>. QED  BY <1>7, <1>8

\* A task that ends drops what it owns.
LEMMA EndsDetach ==
    ASSUME TaskInv, UNCHANGED vars, Detach, Alive, ended \subseteq ended'
    PROVE  AttachedWhileRead'
<1>1. /\ Pollers' = Pollers /\ Alive' /\ UNCHANGED <<phase, source>>
  BY DEF vars, probeVars, Pollers, Alive
<1>2. \A p \in Probes : attached'[p] = IF BpfDropped(p) THEN 0 ELSE attached[p]
  BY DetachedAreFewer DEF TaskInv
<1>3. \A p \in Probes : BpfDropped(p) <=> source[p] = "simulated" \/ p \in ended'
  BY <1>1 DEF BpfDropped, Alive
<1>4. \A p \in Probes : p \in Pollers => source[p] = "ebpf"
  BY DEF Pollers
<1>. QED  BY <1>1, <1>2, <1>3, <1>4 DEF TaskInv, AttachedWhileRead, Alive

LEMMA AttachKeepsTasks ==
    ASSUME TaskInv, NEW p \in Probes, Attach(p)
    PROVE  ConductorTypeOK' /\ EndsUpstream' /\ AttachedWhileRead'
<1>1. /\ UNCHANGED <<vars, ended, draining>> /\ phase = "probes"
      /\ source[p] = "none" /\ attached[p] < Hooks[p]
      /\ attached' = [attached EXCEPT ![p] = attached[p] + 1]
  BY DEF Attach
<1>2. /\ Pollers' = Pollers /\ Simulators' = Simulators /\ Started' = Started
      /\ Alive' = Alive /\ flag' = flag /\ phase' = phase /\ source' = source
      /\ ended' = ended /\ draining' = draining
  BY <1>1 DEF vars, probeVars, Pollers, Simulators, Started, Alive
<1>3. TypeOK'
  BY <1>1, LifeStutters DEF TaskInv, LifeInv
<1>4. /\ attached' \in [Probes -> Nat] /\ attached'[p] = attached[p] + 1
      /\ \A q \in Probes \ {p} : attached'[q] = attached[q]
      /\ \A q \in Probes : attached'[q] <= Hooks[q]
  <2>1. /\ attached \in [Probes -> Nat] /\ Hooks \in [Probes -> Nat \ {0}]
        /\ \A q \in Probes : attached[q] <= Hooks[q]
    BY HooksAssumption DEF TaskInv, ConductorTypeOK
  <2>. QED  BY <1>1, <2>1
<1>5. ConductorTypeOK'
  BY <1>1, <1>2, <1>3, <1>4 DEF TaskInv, ConductorTypeOK
<1>6. EndsUpstream'
  BY <1>1, <1>2 DEF TaskInv, EndsUpstream
<1>7. \A q \in Probes : /\ q \in Pollers => attached'[q] = attached[q]
                        /\ attached'[q] > 0 => attached[q] > 0 \/ q = p
  BY <1>1, <1>4 DEF Pollers
<1>8. AttachedWhileRead'
  <2>1. \A q \in Probes : Alive' /\ q \in Pollers' \ ended' => attached'[q] = Hooks[q]
    <3>1. \A q \in Probes : Alive /\ q \in Pollers \ ended => attached[q] = Hooks[q]
      BY DEF TaskInv, AttachedWhileRead
    <3>2. \A q \in Probes : q \in Pollers' \ ended' => q \in Pollers \ ended
      BY <1>2
    <3>. QED  BY <1>2, <1>7, <3>1, <3>2 DEF Alive
  <2>2. \A q \in Probes : attached'[q] > 0 =>
            \/ Alive' /\ q \in Pollers' \ ended'
            \/ phase' = "probes" /\ source'[q] = "none"
    BY <1>1, <1>2, <1>7 DEF TaskInv, AttachedWhileRead
  <2>. QED  BY <2>1, <2>2 DEF AttachedWhileRead
<1>. QED  BY <1>5, <1>6, <1>8

LEMMA DrainKeepsTasks ==
    ASSUME TaskInv, NEW p \in Probes, StartDrain(p) \/ EndDrain(p)
    PROVE  ConductorTypeOK' /\ EndsUpstream' /\ AttachedWhileRead'
<1>1. /\ UNCHANGED vars /\ Alive /\ p \in Pollers \ ended
      /\ \/ draining' = draining \cup {p} /\ ended' = ended
         \/ /\ draining' = draining \ {p}
            /\ (ended' = ended) \/ (flag /\ ended' = ended \cup {p})
  BY DEF StartDrain, EndDrain, SeesFlag, TaskInv, ConductorTypeOK
<1>2. /\ Pollers' = Pollers /\ Simulators' = Simulators /\ Started' = Started
      /\ Alive' = Alive /\ flag' = flag
  BY <1>1 DEF vars, probeVars, Pollers, Simulators, Started, Alive
<1>3. p \in Started /\ p \notin PipelineTasks /\ p \in Tasks
  BY <1>1, TasksAssumption DEF Pollers, Started, Tasks
<1>4. TypeOK'
  BY <1>1, LifeStutters DEF TaskInv, LifeInv
<1>5. /\ attached' \in [Probes -> Nat]
      /\ \A q \in Probes : attached'[q] <= Hooks[q]
  <2>1. CASE StartDrain(p)
    BY <2>1 DEF StartDrain, TaskInv, ConductorTypeOK
  <2>2. CASE EndDrain(p)
    BY <2>2, DetachedAreFewer DEF EndDrain, TaskInv
  <2>. QED  BY <2>1, <2>2
<1>6. ConductorTypeOK'
  BY <1>1, <1>2, <1>3, <1>4, <1>5 DEF TaskInv, ConductorTypeOK
<1>7. p \notin Simulators
  BY <1>1 DEF Pollers, Simulators
<1>8. EndsUpstream'
  BY <1>1, <1>2, <1>3, <1>7 DEF TaskInv, EndsUpstream, PipelineTasks
<1>9. AttachedWhileRead'
  <2>1. CASE StartDrain(p)
    BY <1>2, <2>1 DEF StartDrain, TaskInv, AttachedWhileRead, vars, probeVars
  <2>2. CASE EndDrain(p)
    BY <1>1, <2>2, EndsDetach DEF EndDrain
  <2>. QED  BY <2>1, <2>2
<1>. QED  BY <1>6, <1>8, <1>9

LEMMA EndKeepsTasks ==
    ASSUME TaskInv, NEW t \in Tasks, End(t)
    PROVE  ConductorTypeOK' /\ EndsUpstream' /\ AttachedWhileRead'
<1>1. /\ UNCHANGED vars /\ draining' = draining /\ Alive /\ t \in Started
      /\ TaskCascade!TaskEnds(t) /\ t \notin ended /\ ended' = ended \cup {t}
      /\ t \in Pollers => t \in MayEndNow
  BY DEF End, TaskCascade!TaskEnds
<1>2. /\ Pollers' = Pollers /\ Simulators' = Simulators /\ Started' = Started
      /\ Alive' = Alive /\ flag' = flag
  BY <1>1 DEF vars, probeVars, Pollers, Simulators, Started, Alive
<1>3. TypeOK'
  BY <1>1, LifeStutters DEF TaskInv, LifeInv
<1>4. t \notin draining
  <2>1. "mapper" \notin Probes
    BY TasksAssumption DEF PipelineTasks
  <2>2. draining \subseteq Pollers /\ Pollers \subseteq Probes
    BY DEF TaskInv, ConductorTypeOK, Pollers
  <2>. QED  BY <1>1, <2>1, <2>2 DEF MayEndNow
<1>5. ConductorTypeOK'
  <2>1. ConductorTypeOK /\ Detach
    BY DEF TaskInv, End
  <2>2. /\ attached' \in [Probes -> Nat]
        /\ \A q \in Probes : attached'[q] <= Hooks[q]
    BY <2>1, DetachedAreFewer
  <2>. QED  BY <1>1, <1>2, <1>3, <1>4, <2>2 DEF TaskInv, ConductorTypeOK
<1>6. /\ t \in {"consumer", "writer"} => "aggregator" \in ended
      /\ t \in {"aggregator", "dispatcher"} => "mapper" \in ended
      /\ t \in Probes => t \in MayEndNow \/ "consumer" \in ended
  BY <1>1, WhyTaskEnds DEF TaskInv
<1>7. t \in Simulators /\ ~flag => "consumer" \in ended
  <2>1. Simulators \subseteq Probes /\ "mapper" \notin Simulators
    BY TasksAssumption DEF Simulators, PipelineTasks
  <2>2. Simulators \cap Pollers = {}
    BY DEF Simulators, Pollers
  <2>. QED  BY <1>6, <2>1, <2>2 DEF MayEndNow
<1>8. EndsUpstream'
  BY <1>1, <1>2, <1>6, <1>7 DEF TaskInv, EndsUpstream
<1>9. AttachedWhileRead'
  BY <1>1, EndsDetach DEF End
<1>. QED  BY <1>5, <1>8, <1>9

LEMMA TasksInit == ConductorInit => TaskInv
<1>. SUFFICES ASSUME ConductorInit PROVE TaskInv
  OBVIOUS
<1>1. LifeInv /\ EndsUpstream
  BY LifeInit DEF ConductorInit, EndsUpstream
<1>2. /\ ended = {} /\ draining = {} /\ attached = [p \in Probes |-> 0]
      /\ \A p \in Probes : source[p] = "none"
  BY DEF ConductorInit, Init
<1>3. ConductorTypeOK
  BY <1>1, <1>2, HooksAssumption DEF LifeInv, ConductorTypeOK
<1>4. AttachedWhileRead
  BY <1>2 DEF AttachedWhileRead, Pollers
<1>. QED  BY <1>1, <1>3, <1>4 DEF TaskInv

LEMMA TasksStay == TaskInv /\ [ConductorNext]_allVars => TaskInv'
<1>. SUFFICES ASSUME TaskInv, [ConductorNext]_allVars PROVE TaskInv'
  OBVIOUS
<1>1. LifeInv'
  BY LifeStays DEF TaskInv
<1>2. CASE UNCHANGED allVars
  <2>1. ConductorTypeOK'
    BY <1>1, <1>2 DEF TaskInv, LifeInv, ConductorTypeOK, allVars, taskVars, vars,
                      probeVars, Alive, Started, Pollers
  <2>2. EndsUpstream'
    BY <1>2 DEF TaskInv, EndsUpstream, allVars, taskVars, vars, probeVars,
                Alive, Simulators
  <2>3. AttachedWhileRead'
    BY <1>2 DEF TaskInv, AttachedWhileRead, allVars, taskVars, vars, probeVars,
                Alive, Pollers
  <2>. QED  BY <1>1, <2>1, <2>2, <2>3 DEF TaskInv
<1>3. ConductorNext => ConductorTypeOK' /\ EndsUpstream' /\ AttachedWhileRead'
  BY <1>1, LifeKeepsTasks, LifeKeepsAttached, AttachKeepsTasks, DrainKeepsTasks,
     EndKeepsTasks
     DEF ConductorNext
<1>. QED  BY <1>1, <1>2, <1>3 DEF TaskInv

LEMMA TasksCorrect == ConductorSpec => []TaskInv
BY TasksInit, TasksStay, PTL DEF ConductorSpec

\* Every variable keeps its type, and only started tasks have ended.
THEOREM TypeCorrect == ConductorSpec => []ConductorTypeOK
<1>1. TaskInv => ConductorTypeOK
  BY DEF TaskInv
<1>. QED  BY <1>1, TasksCorrect, PTL

\* The programs of a probe are all attached as long as its poller runs, and no
\* longer; of a load that failed half-way none stays attached.
THEOREM ProgramsFollowPollers == ConductorSpec => []AttachedWhileRead
<1>1. TaskInv => AttachedWhileRead
  BY DEF TaskInv
<1>. QED  BY <1>1, TasksCorrect, PTL

\* Tasks end against the stream, each after the one it sends to.
THEOREM EndsGoUpstream == ConductorSpec => []EndsUpstream
<1>1. TaskInv => EndsUpstream
  BY DEF TaskInv
<1>. QED  BY <1>1, TasksCorrect, PTL

\* As long as the mapping task runs, no other task of the pipeline has ended,
\* nor, before shutdown, a simulated probe.
THEOREM PipelineStands == ConductorSpec => []StandsWithMapper
<1>1. EndsUpstream => StandsWithMapper
  BY DEF EndsUpstream, StandsWithMapper, PipelineTasks
<1>. QED  BY <1>1, EndsGoUpstream, PTL

---------------------------------------------------------------------------
(* The process implements the cascade of its tasks.                        *)

LEMMA CascadeSteps ==
    TaskInv /\ [ConductorNext]_allVars => [ProcessCascade!CascadeNext]_ended
<1>. SUFFICES ASSUME TaskInv, ConductorNext, ended' # ended
              PROVE  ProcessCascade!CascadeNext
  BY DEF allVars, taskVars
<1>1. CASE LifeStep \/ \E p \in Probes : Attach(p) \/ StartDrain(p)
  BY <1>1 DEF LifeStep, LifeGoesOn, Attach, StartDrain
<1>2. ASSUME NEW p \in Probes, EndDrain(p)
      PROVE  ProcessCascade!TaskEnds(p)
  <2>1. p \in Pollers \ ended
    BY <1>2 DEF EndDrain, TaskInv, ConductorTypeOK
  <2>2. ended' = ended \cup {p}
    BY <1>2 DEF EndDrain
  <2>. QED  BY <2>1, <2>2 DEF ProcessCascade!TaskEnds, Reasons, Tasks
<1>3. ASSUME NEW t \in Tasks, End(t)
      PROVE  ProcessCascade!TaskEnds(t)
  <2>1. MayEndNow \subseteq Reasons
    BY DEF MayEndNow, Reasons
  <2>. QED  BY <1>3, <2>1
            DEF End, TaskCascade!TaskEnds, TaskCascade!FindsClosed,
                TaskCascade!RunsDry, ProcessCascade!TaskEnds,
                ProcessCascade!FindsClosed, ProcessCascade!RunsDry
<1>. QED  BY <1>1, <1>2, <1>3 DEF ConductorNext, ProcessCascade!CascadeNext, Tasks

\* In the whole process, too, a task ends only by the mapping task's panic, by a
\* poller's failure or the flag, or because its neighbours have.
THEOREM ProcessEndsInCascade == ConductorSpec => EndsInCascade
<1>1. ConductorInit => ProcessCascade!CascadeInit
  BY DEF ConductorInit, ProcessCascade!CascadeInit
<1>. QED  BY <1>1, CascadeSteps, TasksCorrect, PTL
          DEF ConductorSpec, EndsInCascade, ProcessCascade!CascadeSpec
=============================================================================
