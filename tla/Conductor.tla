----------------------------- MODULE Conductor -----------------------------
(***************************************************************************)
(* The whole process: the life of main (Lifecycle) composed with the tasks *)
(* it has started and the way in which the end of one ends others          *)
(* (Cascade).                                                              *)
(*                                                                         *)
(* The task of a probe has the probe's name; the eBPF pollers among them   *)
(* own the loaded programs, which are detached when they are dropped, and  *)
(* run a drain loop that has no await in it, so while one is draining, the *)
(* runtime that main drops on its way out waits for it.                    *)
(***************************************************************************)
EXTENDS Lifecycle

CONSTANT Hooks       \* of a probe: the programs to attach to tracepoints

VARIABLES ended,     \* the tasks that have ended before the process
          draining,  \* the eBPF pollers inside their drain loop
          attached   \* of a probe: its programs that are attached

taskVars == <<ended, draining, attached>>
allVars == <<vars, taskVars>>

ASSUME HooksAssumption == Hooks \in [Probes -> Nat \ {0}]

PipelineTasks == {"consumer", "aggregator", "mapper", "dispatcher", "writer"}
ASSUME TasksAssumption == Probes \cap PipelineTasks = {}

Tasks == Probes \cup PipelineTasks
Feeds == (Probes \X {"consumer"})
             \cup {<<"consumer", "aggregator">>, <<"aggregator", "mapper">>,
                   <<"mapper", "dispatcher">>, <<"aggregator", "writer">>}

\* Who breaks out of the loop when try_send says Closed.
AggregatorStays == Probes \cup {"consumer"}
LeaveOnClosed == Probes \cup {"consumer", "aggregator"}

\* Whose channel can close: not the consumer's, since the ProbeManager keeps a
\* sender for as long as main runs.
AllReaders == PipelineTasks
ReadToTheEnd == PipelineTasks \ {"consumer"}

Started == {p \in Probes : source[p] # "none"}
               \cup IF pipeline THEN PipelineTasks ELSE {}
Pollers == {p \in Probes : source[p] = "ebpf"}
Simulators == {p \in Probes : source[p] = "simulated"}
Talkers == Simulators \ (Unknown \cup ended)

\* The mapping task may panic, a poller may fail to wrap its ring buffer or
\* lose it, and every probe sees the flag at the head of its loop.
MayEndNow ==
    ({"mapper"} \cap Started)
        \cup ((IF flag THEN Probes \cap Started ELSE Pollers) \ draining)

TaskCascade == INSTANCE Cascade
                   WITH Leavers <- LeaveOnClosed, Drainers <- ReadToTheEnd,
                        willing <- MayEndNow

ConductorInit ==
    /\ Init /\ ended = {} /\ draining = {}
    /\ attached = [p \in Probes |-> 0]

\* A Bpf object belongs to the load that is under way, which drops it when it
\* fails, and then to the poller.
HeldByManager(p) == phase' = "gone" \/ source'[p] = "simulated"
BpfDropped(p) == phase' = "gone" \/ source'[p] = "simulated" \/ p \in ended'
Detach == attached' = [p \in Probes |-> IF BpfDropped(p) THEN 0
                                        ELSE attached[p]]

\* The probe whose programs main is attaching, one after the other.
HalfLoaded == {p \in Probes : source[p] = "none" /\ attached[p] > 0}
Attach(p) ==
    /\ phase = "probes" /\ source[p] = "none" /\ HalfLoaded \subseteq {p}
    /\ ~Simulate /\ p \notin Unknown /\ attached[p] < Hooks[p]
    /\ attached' = [attached EXCEPT ![p] = @ + 1]
    /\ UNCHANGED <<vars, ended, draining>>

\* A step of main, of a handler or a signal.  A probe gets a poller when all its
\* programs are attached, and only then.  A main that returns or panics drops
\* the runtime, which waits for a drain loop; a signal's default action and
\* exit(1) wait for nobody.
LifeGoesOn ==
    /\ \A p \in Probes : source'[p] # source[p] =>
           /\ HalfLoaded \subseteq {p}
           /\ source'[p] = "ebpf" <=> attached[p] = Hooks[p]
    /\ exit' \in {"zero", "panic"} => draining = {}
    /\ draining' = IF phase' = "gone" THEN {} ELSE draining
    /\ ended' = ended /\ Detach
MainStep == (Main /\ LifeGoesOn) \/ \E p \in Probes : Attach(p)
HandlerStep(c) == Handler(c) /\ LifeGoesOn
LifeStep == Next /\ LifeGoesOn

---------------------------------------------------------------------------
(* The tasks.                                                              *)

\* A poller's ring buffer becomes readable.
StartDrain(p) ==
    /\ Alive /\ p \in Pollers \ (ended \cup draining)
    /\ draining' = draining \cup {p}
    /\ UNCHANGED <<vars, ended, attached>>

NeverSeesFlag == FALSE
SeesFlag == flag

\* It has been emptied, and the loop head looks at the flag.
EndDrain(p) ==
    /\ Alive /\ p \in draining
    /\ draining' = draining \ {p}
    /\ ended' = IF SeesFlag THEN ended \cup {p} ELSE ended
    /\ UNCHANGED vars /\ Detach

\* A task ends for one of the reasons of the cascade.  A sender learns that
\* its channel is closed only when it has something to send, and a poller does
\* not ask why its event was refused.
End(t) ==
    /\ Alive /\ t \in Started
    /\ TaskCascade!TaskEnds(t)
    /\ t \in Pollers => t \in MayEndNow
    /\ t \in Simulators => t \in Talkers \cup MayEndNow
    /\ t = "consumer" => (Started \cap Probes) \ Unknown # {}
    /\ UNCHANGED <<vars, draining>> /\ Detach

ConductorNext ==
    \/ LifeStep
    \/ \E p \in Probes : Attach(p) \/ StartDrain(p) \/ EndDrain(p)
    \/ \E t \in Tasks : End(t)

ConductorSpec == ConductorInit /\ [][ConductorNext]_allVars

\* tokio runs what can run: main, the handlers, the aggregator at its next
\* tick, the tasks whose channel has closed, and the simulated probes, whose
\* next event comes without anybody's doing.  The consumer is sure to get an
\* event only from those.  Nothing is owed by the mapping task, by signals and
\* requests, nor by the kernel, in filling a ring buffer or in leaving it
\* empty.
ConductorFairSpec ==
    /\ ConductorSpec
    /\ WF_allVars(MainStep)
    /\ \A c \in Clients : WF_allVars(HandlerStep(c))
    /\ \A p \in Probes : WF_allVars(p \in Simulators /\ End(p))
    /\ \A t \in {"aggregator", "dispatcher", "writer"} : WF_allVars(End(t))
    /\ WF_allVars(Talkers # {} /\ End("consumer"))

---------------------------------------------------------------------------
(* Properties.                                                             *)

\* Every variable keeps its type: only a started task has ended, and only a
\* poller that has not ended drains.
ConductorTypeOK ==
    /\ TypeOK
    /\ ended \subseteq Tasks /\ draining \subseteq Pollers \ ended
    /\ Alive => ended \subseteq Started
    /\ attached \in [Probes -> Nat] /\ \A p \in Probes : attached[p] <= Hooks[p]

\* Programs are in the kernel for as long as their events are read: as long as
\* the poller of a probe runs, every program of the probe is attached; and
\* wherever one is attached, the poller runs or is about to be spawned.  No load
\* that failed half-way, no poller that lost its ring buffer and no end of the
\* process leaves one behind.
AttachedWhileRead ==
    \A p \in Probes :
        /\ Alive /\ p \in Pollers \ ended => attached[p] = Hooks[p]
        /\ attached[p] > 0 =>
               \/ Alive /\ p \in Pollers \ ended
               \/ phase = "probes" /\ source[p] = "none"

\* The pipeline stands or falls with the mapping task: as long as that runs,
\* no task from the consumer to the dispatcher has ended, nor the snapshot
\* writer, nor, before shutdown, a simulated probe, however many eBPF pollers
\* have come to their end.
StandsWithMapper ==
    Alive /\ "mapper" \notin ended =>
        /\ PipelineTasks \cap ended = {}
        /\ ~flag => Simulators \cap ended = {}

\* The ends run against the stream, from the mapping task to the probes: before
\* shutdown a simulated probe that has ended tells that the consumer has, that
\* one and the snapshot writer that the aggregator has, and the aggregator and
\* the dispatcher that the mapping task has.
EndsUpstream ==
    /\ "consumer" \in ended \/ "writer" \in ended => "aggregator" \in ended
    /\ "aggregator" \in ended \/ "dispatcher" \in ended => "mapper" \in ended
    /\ Alive /\ ~flag /\ Simulators \cap ended # {} => "consumer" \in ended

\* The process implements the cascade, with drain loops, startup, shutdown and
\* everything else between its steps: whoever ends without the panic, the
\* failure or the flag that MayEndNow names had its channels closed.
Reasons == {"mapper"} \cup Pollers \cup IF flag THEN Probes ELSE {}
ProcessCascade == INSTANCE Cascade
                      WITH Leavers <- LeaveOnClosed, Drainers <- ReadToTheEnd,
                           willing <- Reasons
EndsInCascade == ProcessCascade!CascadeSpec

\* When the mapping task has ended, everything that works for the audio ends
\* too, or the process is told to stop first; no task is left that sends into
\* a closed channel for ever, but for the pollers.
FallsWithMapper ==
    ("mapper" \in ended /\ Talkers # {}) ~>
        (PipelineTasks \cup (Simulators \ Unknown) \subseteq ended
            \/ flag \/ ~Alive)

\* If every drain loop that is entered is left again, a shutdown request that
\* was passed on ends the process, however many are sent at the same time
\* into the channel of one place, and whichever tasks have ended before.
DrainsEnd == \A p \in Probes : []<>(p \notin draining)
ShutdownEndsProcess == DrainsEnd => ShutdownHonoured
=============================================================================
