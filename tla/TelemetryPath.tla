--------------------------- MODULE TelemetryPath ---------------------------
(***************************************************************************)
(* The telemetry half of the conductor: the probe tasks that the           *)
(* ProbeManager starts, the raw event channel, the RingbufConsumer, the    *)
(* aggregator channel, and the Aggregator that turns events into windows.  *)
(*                                                                         *)
(* An event is the probe that made it and its sequence number there; the   *)
(* payload sums, the moving averages and the timestamps are left out.  A   *)
(* window is the sequence of events received since the last tick.          *)
(*                                                                         *)
(* spawned counts the insert_event tasks the consumer has spawned; what    *)
(* they do is module Persistence.  History variables, read by no guard:    *)
(* lost, dropped, after, taken, counted, reported, recent (and made,      *)
(* but for its bound).                                                     *)
(***************************************************************************)
EXTENDS Integers, Sequences, FiniteSets

CONSTANTS Simulated,   \* probes run by run_simulator_probe
          Ebpf,        \* probes run by the eBPF polling task
          Sparse,      \* simulated probes whose cycles may carry no event
          RawCap,      \* capacity of the raw event channel (2048)
          AggCap,      \* capacity of the aggregator channel (2048)
          StaleAfter,  \* consecutive empty windows that make stale (5)
          CounterMax,  \* largest value of the i32 counter of empty windows
          MaxEvents,   \* bound: events one probe may make
          MaxEmpty     \* bound: no tick once the counter has reached it

Probes == Simulated \cup Ebpf

ASSUME ConstantsAssumption ==
    /\ Simulated \cap Ebpf = {}
    /\ Probes \cap {"consumer", "aggregator", "mapper"} = {}
    /\ Sparse \subseteq Simulated
    /\ IsFiniteSet(Probes)
    /\ RawCap \in Nat \ {0} /\ AggCap \in Nat \ {0}
    /\ StaleAfter \in Nat \ {0}
    /\ CounterMax \in Nat /\ CounterMax >= StaleAfter
    /\ MaxEvents \in Nat /\ MaxEmpty \in Int

VARIABLES pc, made, eventsTotal, eventsLost, shutdown,       \* probe tasks
          raw, agg,                                          \* channels
          consumer, held, spawned,                           \* consumer task
          aggregator, window, emptyWindows, inHand, shared,  \* aggregator
          cumulativeLost, audio,
          lost, dropped, after, taken, counted, reported,    \* history
          recent

probeVars == <<pc, made, eventsTotal, eventsLost, shutdown>>
consumerVars == <<consumer, held, spawned>>
aggregatorVars == <<aggregator, window, emptyWindows, inHand, shared, audio>>
windowHistory == <<taken, counted, reported, recent>>
vars == <<probeVars, raw, agg, consumerVars, aggregatorVars, cumulativeLost,
          lost, dropped, after, windowHistory>>

Events == [probe : Probes, seq : Nat \ {0}]
PcStates == {"head", "armed", "drain", "sent", "lost", "lostCum",
             "done", "closed"}
Snapshots == [stale : BOOLEAN, lost : Nat]
Quiet == [stale |-> FALSE, lost |-> 0]

Init ==
    /\ pc = [p \in Probes |-> "head"]
    /\ made = [p \in Probes |-> 0]
    /\ eventsTotal = [p \in Probes |-> 0]
    /\ eventsLost = [p \in Probes |-> 0]
    /\ shutdown = FALSE
    /\ raw = <<>> /\ agg = <<>>
    /\ consumer = "recv" /\ held = <<>> /\ spawned = 0
    /\ aggregator = "select" /\ window = <<>> /\ emptyWindows = 0
    /\ inHand = Quiet
    /\ shared = [stale |-> TRUE, lost |-> 0]
    /\ cumulativeLost = 0
    /\ audio = "open"
    /\ lost = {} /\ dropped = {}
    /\ after = [p \in Probes |-> 0]
    /\ taken = [p \in Probes |-> 0]
    /\ counted = [p \in Probes |-> 0]
    /\ reported = 0 /\ recent = <<>>

---------------------------------------------------------------------------
(* The bounded channels of tokio: try_send looks at closed before full.    *)

HasRoom(queue, cap) == Len(queue) < cap
RawOpen == consumer # "done"       \* its Receiver lives in the consumer task
FullIsClosed == aggregator # "done" /\ HasRoom(agg, AggCap)
AggOpen == aggregator # "done"     \* its Receiver lives in the aggregator task

---------------------------------------------------------------------------
(* Probe tasks.                                                            *)

IgnoresShutdown == TRUE
KeepsRunning == ~shutdown

\* Both loops are  while !shutdown { ... }.
LoopHead(p) ==
    /\ pc[p] = "head"
    /\ pc' = [pc EXCEPT ![p] = IF KeepsRunning THEN "armed" ELSE "done"]
    /\ UNCHANGED <<made, eventsTotal, eventsLost, shutdown, raw, agg,
                   consumerVars, aggregatorVars, cumulativeLost, lost,
                   dropped, after, windowHistory>>

\* A simulated cycle with no event (continue), or the eBPF poller's wake-up,
\* the end of its drain loop, and the error of its ring buffer's descriptor.
Cycle(p) ==
    /\ \/ /\ p \in Sparse /\ pc[p] = "armed"
          /\ pc' = [pc EXCEPT ![p] = "head"]
       \/ /\ p \in Ebpf /\ pc[p] = "armed"
          /\ pc' = [pc EXCEPT ![p] = "drain"]
       \/ /\ p \in Ebpf /\ pc[p] = "drain"
          /\ pc' = [pc EXCEPT ![p] = "head"]
       \/ /\ p \in Ebpf /\ pc[p] = "armed"
          /\ pc' = [pc EXCEPT ![p] = "done"]
    /\ UNCHANGED <<made, eventsTotal, eventsLost, shutdown, raw, agg,
                   consumerVars, aggregatorVars, cumulativeLost, lost,
                   dropped, after, windowHistory>>

HasEvent(p) ==
    /\ pc[p] = IF p \in Simulated THEN "armed" ELSE "drain"
    /\ made[p] < MaxEvents
NextEvent(p) == [probe |-> p, seq |-> made[p] + 1]
Make(p) ==
    /\ made' = [made EXCEPT ![p] = @ + 1]
    /\ after' = IF shutdown THEN [after EXCEPT ![p] = @ + 1] ELSE after

RefusedAsSent == "sent"
Refused == "lost"

\* try_send accepts the event.
Emit(p) ==
    /\ HasEvent(p) /\ RawOpen /\ HasRoom(raw, RawCap)
    /\ raw' = Append(raw, NextEvent(p))
    /\ Make(p)
    /\ pc' = [pc EXCEPT ![p] = "sent"]
    /\ UNCHANGED <<eventsTotal, eventsLost, shutdown, agg, consumerVars,
                   aggregatorVars, cumulativeLost, lost, dropped,
                   windowHistory>>

\* try_send refuses it: Full for a simulated probe, Full or Closed for eBPF.
Refuse(p) ==
    /\ HasEvent(p)
    /\ IF RawOpen THEN ~HasRoom(raw, RawCap) ELSE p \in Ebpf
    /\ lost' = lost \cup {NextEvent(p)}
    /\ Make(p)
    /\ pc' = [pc EXCEPT ![p] = Refused]
    /\ UNCHANGED <<eventsTotal, eventsLost, shutdown, raw, agg, consumerVars,
                   aggregatorVars, cumulativeLost, dropped, windowHistory>>

\* A simulated probe leaves its loop when the channel is closed.
FindClosed(p) ==
    /\ HasEvent(p) /\ p \in Simulated /\ ~RawOpen
    /\ Make(p)
    /\ pc' = [pc EXCEPT ![p] = "closed"]
    /\ UNCHANGED <<eventsTotal, eventsLost, shutdown, raw, agg, consumerVars,
                   aggregatorVars, cumulativeLost, lost, dropped,
                   windowHistory>>

BackToLoop(p) == IF p \in Simulated THEN "head" ELSE "drain"

\* events_total, events_lost and the cumulative counter the aggregator swaps
\* are three atomics, each updated on its own.
CountSent(p) ==
    /\ pc[p] = "sent"
    /\ eventsTotal' = [eventsTotal EXCEPT ![p] = @ + 1]
    /\ pc' = [pc EXCEPT ![p] = BackToLoop(p)]
    /\ UNCHANGED <<made, eventsLost, shutdown, raw, agg, consumerVars,
                   aggregatorVars, cumulativeLost, lost, dropped, after,
                   windowHistory>>

CountLost(p) ==
    /\ pc[p] = "lost"
    /\ eventsLost' = [eventsLost EXCEPT ![p] = @ + 1]
    /\ pc' = [pc EXCEPT ![p] = "lostCum"]
    /\ UNCHANGED <<made, eventsTotal, shutdown, raw, agg, consumerVars,
                   aggregatorVars, cumulativeLost, lost, dropped, after,
                   windowHistory>>

CountCumulative(p) ==
    /\ pc[p] = "lostCum"
    /\ cumulativeLost' = cumulativeLost + 1
    /\ pc' = [pc EXCEPT ![p] = BackToLoop(p)]
    /\ UNCHANGED <<made, eventsTotal, eventsLost, shutdown, raw, agg,
                   consumerVars, aggregatorVars, lost, dropped, after,
                   windowHistory>>

\* ProbeManager::shutdown.
ShutDown ==
    /\ ~shutdown /\ shutdown' = TRUE
    /\ UNCHANGED <<pc, made, eventsTotal, eventsLost, raw, agg, consumerVars,
                   aggregatorVars, cumulativeLost, lost, dropped, after,
                   windowHistory>>

---------------------------------------------------------------------------
(* RingbufConsumer: receive, spawn the insert task, forward.               *)

Receive ==
    /\ consumer = "recv" /\ raw # <<>>
    /\ held' = <<Head(raw)>> /\ raw' = Tail(raw)
    /\ spawned' = spawned + 1
    /\ consumer' = "forward"
    /\ UNCHANGED <<probeVars, agg, aggregatorVars, cumulativeLost, lost,
                   dropped, after, windowHistory>>

Forward ==
    /\ consumer = "forward" /\ AggOpen /\ HasRoom(agg, AggCap)
    /\ agg' = agg \o held
    /\ held' = <<>> /\ consumer' = "recv"
    /\ UNCHANGED <<probeVars, raw, spawned, aggregatorVars, cumulativeLost,
                   lost, dropped, after, windowHistory>>

Requeue ==
    /\ consumer = "forward" /\ AggOpen /\ ~HasRoom(agg, AggCap)
    /\ raw' = raw \o held /\ held' = <<>> /\ consumer' = "recv"
    /\ UNCHANGED <<probeVars, agg, spawned, aggregatorVars, cumulativeLost,
                   lost, dropped, after, windowHistory>>
\* The aggregator channel is full: the event is dropped, with a log line.
Drop ==
    /\ consumer = "forward" /\ AggOpen /\ ~HasRoom(agg, AggCap)
    /\ dropped' = dropped \cup {held[1]}
    /\ held' = <<>> /\ consumer' = "recv"
    /\ UNCHANGED <<probeVars, raw, agg, spawned, aggregatorVars,
                   cumulativeLost, lost, after, windowHistory>>

\* The aggregator is gone: the task ends and its Receiver with what it holds.
ConsumerStops ==
    /\ consumer = "forward" /\ ~AggOpen
    /\ consumer' = "done" /\ held' = <<>> /\ raw' = <<>>
    /\ UNCHANGED <<probeVars, agg, spawned, aggregatorVars, cumulativeLost,
                   lost, dropped, after, windowHistory>>

---------------------------------------------------------------------------
(* Aggregator.                                                             *)

WrapI32(n) == IF n > CounterMax THEN -(CounterMax + 1) ELSE n
EmptyAfterTick == IF window = <<>> THEN WrapI32(emptyWindows + 1) ELSE 0
StaleLate(empty) == empty > StaleAfter
IsStale(empty) == empty >= StaleAfter
LoadedNotSwapped == cumulativeLost
LeftByTick == 0                                   \* swap(0)
WindowKept == window
WindowAfter == <<>>                               \* clear()

Collect ==
    /\ aggregator = "select" /\ agg # <<>>
    /\ window' = Append(window, Head(agg)) /\ agg' = Tail(agg)
    /\ taken' = [taken EXCEPT ![Head(agg).probe] = Head(agg).seq]
    /\ UNCHANGED <<probeVars, raw, consumerVars, aggregator, emptyWindows,
                   inHand, shared, audio, cumulativeLost, lost, dropped,
                   after, counted, reported, recent>>

\* The tick up to the snapshot: staleness, and the swap of the loss counter.
Tick ==
    /\ aggregator = "select" /\ emptyWindows < MaxEmpty
    /\ emptyWindows' = EmptyAfterTick
    /\ inHand' = [stale |-> IsStale(EmptyAfterTick), lost |-> cumulativeLost]
    /\ cumulativeLost' = LeftByTick
    /\ aggregator' = "publish"
    /\ UNCHANGED <<probeVars, raw, agg, consumerVars, window, shared, audio,
                   lost, dropped, after, windowHistory>>

Remember(bits, bit) ==
    IF Len(bits) <= CounterMax THEN Append(bits, bit)
    ELSE Append(Tail(bits), bit)

\* The snapshot replaces the shared one and goes to the audio channel, or,
\* when that is closed, the task ends with its Receiver and its window.
Publish ==
    /\ aggregator = "publish"
    /\ shared' = inHand /\ inHand' = Quiet
    /\ IF audio = "open"
       THEN /\ aggregator' = "select" /\ window' = WindowAfter /\ agg' = agg
       ELSE /\ aggregator' = "done" /\ window' = <<>> /\ agg' = <<>>
    /\ counted' = taken
    /\ reported' = reported + inHand.lost
    /\ recent' = Remember(recent, window = <<>>)
    /\ UNCHANGED <<taken, probeVars, raw, consumerVars, emptyWindows, audio,
                   cumulativeLost, lost, dropped, after>>

\* The mapping engine's task ends (its receiver of snapshots is dropped).
AudioCloses ==
    /\ audio = "open" /\ audio' = "closed"
    /\ UNCHANGED <<probeVars, raw, agg, consumerVars, aggregator, window,
                   emptyWindows, inHand, shared, cumulativeLost, lost,
                   dropped, after, windowHistory>>

---------------------------------------------------------------------------
ProbeStep(p) == \/ LoopHead(p) \/ Cycle(p)
                \/ Emit(p) \/ Refuse(p) \/ FindClosed(p)
                \/ CountSent(p) \/ CountLost(p) \/ CountCumulative(p)
ConsumerStep == Receive \/ Forward \/ Drop \/ ConsumerStops
Next == \/ \E p \in Probes : ProbeStep(p)
        \/ ShutDown
        \/ ConsumerStep
        \/ Collect \/ Tick \/ Publish \/ AudioCloses

Spec == Init /\ [][Next]_vars

\* tokio runs every ready task; the interval fires again and again; select!
\* picks a ready branch at random, hence SF for the branch that a tick may
\* overtake.  The kernel owes no event, a probe never has to be shut down and
\* the audio side never has to close, so those are left without fairness.
Fairness ==
    /\ \A p \in Simulated : WF_vars(ProbeStep(p))
    /\ \A p \in Ebpf : WF_vars(LoopHead(p) \/ CountSent(p) \/ CountLost(p)
                               \/ CountCumulative(p))
    /\ WF_vars(ConsumerStep)
    /\ SF_vars(Collect) /\ WF_vars(Tick) /\ WF_vars(Publish)
FairSpec == Spec /\ Fairness

---------------------------------------------------------------------------
(* Properties.                                                             *)

Waiting == agg \o (held \o raw)     \* accepted, and in no window yet
Pipeline == window \o Waiting
CountingLoss == {p \in Probes : pc[p] \in {"lost", "lostCum"}}

\* Every variable keeps its type, and neither channel ever holds more than
\* the capacity it was created with (main.rs, the mpsc::channel calls).
TypeOK ==
    /\ pc \in [Probes -> PcStates]
    /\ made \in [Probes -> Nat] /\ after \in [Probes -> Nat]
    /\ eventsTotal \in [Probes -> Nat] /\ eventsLost \in [Probes -> Nat]
    /\ shutdown \in BOOLEAN
    /\ raw \in Seq(Events) /\ Len(raw) <= RawCap
    /\ agg \in Seq(Events) /\ Len(agg) <= AggCap
    /\ consumer \in {"recv", "forward", "done"}
    /\ held \in Seq(Events) /\ Len(held) = IF consumer = "forward" THEN 1 ELSE 0
    /\ spawned \in Nat
    /\ aggregator \in {"select", "publish", "done"}
    /\ window \in Seq(Events)
    /\ emptyWindows \in -(CounterMax + 1) .. CounterMax
    /\ inHand \in Snapshots /\ shared \in Snapshots
    /\ cumulativeLost \in Nat
    /\ audio \in {"open", "closed"}
    /\ lost \in SUBSET Events /\ dropped \in SUBSET Events
    /\ taken \in [Probes -> Nat] /\ counted \in [Probes -> Nat]
    /\ reported \in Nat
    /\ recent \in Seq(BOOLEAN)

\* No refused event is lost from the loss accounting and none is reported
\* twice, however the tick's swap falls among the probes' separate increments:
\* the refused events are those still being counted, those in the cumulative
\* counter, those in the snapshot being built and those already published.
LossLedger ==
    Cardinality(lost) = Cardinality(CountingLoss) + cumulativeLost
                        + inHand.lost + reported

\* What GET /api/probes shows of a probe: every event it made was sent or
\* lost, and is counted as the one it was, but for the event in between (and
\* for the one a simulated probe throws away when it finds the channel closed).
ProbeLedger ==
    \A p \in Probes :
        /\ made[p] = eventsTotal[p] + eventsLost[p]
                     + IF pc[p] \in {"sent", "lost", "closed"} THEN 1 ELSE 0
        /\ \A e \in lost : e.probe = p => e.seq <= made[p]
        /\ Cardinality({e \in lost : e.probe = p}) =
               eventsLost[p] + IF pc[p] = "lost" THEN 1 ELSE 0

\* The events of a probe are in order, above its mark in lo, not above that in hi.
Ordered(s) == \A i, j \in DOMAIN s :
                  i < j /\ s[i].probe = s[j].probe => s[i].seq < s[j].seq
Flow(s, lo, hi) == /\ Ordered(s)
                   /\ \A i \in DOMAIN s : /\ lo[s[i].probe] < s[i].seq
                                          /\ s[i].seq <= hi[s[i].probe]

\* Across both channels and the window a probe's events stand in the order in
\* which it made them, and none of them was already part of a window that was
\* published: no event is counted twice or out of order.
InOrder == Flow(Pipeline, counted, made)

SeqsOf(s, p) == {s[i].seq : i \in {j \in DOMAIN s : s[j].probe = p}}
OnTheWay(p) ==
    SeqsOf(Waiting, p) \cup IF pc[p] \in {"lost", "closed"} THEN {made[p]} ELSE {}
ProbeFeed(p) == INSTANCE SnapshotFeed
                    WITH MaxTicks <- MaxEvents, published <- made[p],
                         pending <- OnTheWay(p), played <- taken[p]
FeedSteps == \A p \in Probes : \/ UNCHANGED ProbeFeed(p)!feedVars
                             \/ ProbeFeed(p)!FeedNext

\* The events of each probe are fed to the windows as the snapshots are to the
\* backends: in the order in which they were made, none twice, each the oldest
\* that is still on its way; any may be lost there, and what is lost in a full or
\* closed channel or with the task that held it is not taken later.
EventsAreFed == /\ \A p \in Probes : ProbeFeed(p)!FeedInit
                /\ [][FeedSteps]_vars

\* Once ProbeManager::shutdown has stored its flag a simulated probe makes at
\* most the one event of the tick it was already waiting for.
ShutdownBound == \A p \in Simulated : after[p] <= 1

\* The snapshot the control API shows is stale exactly when the last five
\* windows were all empty (or nothing has been published yet), except during a
\* silence of so many windows that the i32 counter has overflowed; the first
\* event after it makes staleness exact again.
Silent(n) == Len(recent) >= n /\ \A i \in 0 .. n - 1 : recent[Len(recent) - i]
StaleExact ==
    aggregator = "select" /\ recent # <<>> /\ ~Silent(CounterMax + 1) =>
        (shared.stale <=> Silent(StaleAfter))

\* Every refused event is reported in some published snapshot, unless the
\* aggregator has ended.
LossesReported ==
    \A n \in 1 .. MaxEvents :
        Cardinality(lost) >= n ~> reported >= n \/ aggregator = "done"

\* An event that the raw channel accepted is in the end part of a published
\* window or dropped in front of the aggregator, unless a task has ended.
EventsReachAWindow ==
    \A p \in Probes, n \in 1 .. MaxEvents :
        (\E i \in DOMAIN raw : raw[i] = [probe |-> p, seq |-> n])
            ~> \/ counted[p] >= n
               \/ [probe |-> p, seq |-> n] \in dropped
               \/ aggregator = "done"

\* After shutdown every simulated probe leaves its loop.
SimulatedProbesStop ==
    shutdown ~> \A p \in Simulated : pc[p] \in {"done", "closed"}

\* The tasks end as the cascade has it: the consumer only after the
\* aggregator, the aggregator only after the mapping engine, a simulated probe
\* only after the consumer or at shutdown; none because a channel was full.
ProbesEnded == {p \in Probes : pc[p] \in {"done", "closed"}}
EndedTasks ==
    ProbesEnded \cup {t \in {"consumer", "aggregator", "mapper"} :
        \/ t = "consumer" /\ consumer = "done"
        \/ t = "aggregator" /\ aggregator = "done"
        \/ t = "mapper" /\ audio = "closed"}
MayEndNow == {"mapper"} \cup IF shutdown THEN Probes ELSE Ebpf
TaskCascade == INSTANCE Cascade
    WITH Tasks <- Probes \cup {"consumer", "aggregator", "mapper"},
         Feeds <- (Probes \X {"consumer"})
                      \cup {<<"consumer", "aggregator">>, <<"aggregator", "mapper">>},
         Leavers <- Simulated \cup {"consumer", "aggregator"},
         Drainers <- {"aggregator", "mapper"},
         ended <- EndedTasks, willing <- MayEndNow
EndsInCascade == TaskCascade!CascadeSpec
=============================================================================
