----------------------------- MODULE AudioPath -----------------------------
(***************************************************************************)
(* The audio half of the conductor: the tick of the Aggregator, the        *)
(* snapshot channel, the MappingEngine, the parameter channel, and the     *)
(* OscDispatcher with its fan-out to the backends; around them the clock   *)
(* and the two locks that the control API writes (mapping rules, backends).*)
(*                                                                         *)
(* A snapshot is its number and the time of its tick.  A set of mapping    *)
(* rules is a name of which only this is known: whether it maps any known  *)
(* metric (Mute if none) and whether mapping with it panics (Poison: f64's *)
(* clamp refuses a NaN bound).  The dispatch counters and the latency      *)
(* histogram's buckets are module MetricsScrape.                           *)
(*                                                                         *)
(* History variables, read by no guard: played, reloads (but for its       *)
(* bound), setBack, stalePlayed, strays, seen, observed.                   *)
(***************************************************************************)
EXTENDS Integers, Sequences, FiniteSets

CONSTANTS RuleSets, Mute, Poison, FirstRules,
          BackendLists, FirstBackends, \* a list may name a backend twice
          SnapCap,      \* capacity of the snapshot channel (256)
          ParamCap,     \* capacity of the parameter channel (256)
          MaxTicks,     \* bound: ticks
          MaxTime,      \* bound: the clock
          MaxReloads    \* bound: changes of the rules

RangeOf(list) == {list[i] : i \in DOMAIN list}
BackendIds == UNION {RangeOf(list) : list \in BackendLists}

ASSUME AudioAssumption ==
    /\ FirstRules \in RuleSets /\ Mute \subseteq RuleSets
    /\ Poison \subseteq RuleSets /\ Mute \cap Poison = {}
    /\ FirstBackends \in BackendLists
    /\ \A list \in BackendLists : list \in Seq(RangeOf(list))
    /\ SnapCap \in Nat \ {0} /\ ParamCap \in Nat \ {0}
    /\ MaxTicks \in Nat /\ MaxTime \in Nat \ {0} /\ MaxReloads \in Nat

VARIABLES now, setBack, ticks, stamp,
          aggregator, building,        \* the tick and the snapshot it builds
          snaps, mapper, inMapper,     \* mapping engine
          params,
          dispatcher, frame, left,     \* dispatcher and its fan-out
          rules, backends,             \* the shared configuration
          played, reloads, stalePlayed, strays, seen, observed  \* history

clockVars == <<now, setBack>>
tickVars == <<ticks, stamp, aggregator, building>>
mapVars == <<mapper, inMapper>>
oscVars == <<dispatcher, frame, left>>
configVars == <<rules, backends, reloads>>
history == <<played, stalePlayed, strays, seen, observed>>
vars == <<clockVars, tickVars, snaps, mapVars, params, oscVars, configVars,
          history>>

Snapshots == [id : Nat, ts : Nat]
Frames == [id : Nat, ts : Nat, epoch : Nat, empty : BOOLEAN]

Init ==
    /\ now = 1 /\ setBack = FALSE /\ ticks = 0 /\ stamp = 0
    /\ aggregator = "wait" /\ building = <<>>
    /\ snaps = <<>> /\ mapper = "recv" /\ inMapper = <<>>
    /\ params = <<>>
    /\ dispatcher = "recv" /\ frame = <<>> /\ left = <<>>
    /\ rules = FirstRules /\ backends = FirstBackends
    /\ played = 0 /\ reloads = 0 /\ stalePlayed = 0
    /\ strays = [b \in BackendIds |-> 0]
    /\ seen = [b \in BackendIds |-> 0]
    /\ observed = [actual |-> 0, shown |-> 0]

---------------------------------------------------------------------------
(* The system clock.                                                       *)

ClockAdvances ==
    /\ now < MaxTime /\ now' = now + 1 /\ setBack' = setBack
    /\ UNCHANGED <<tickVars, snaps, mapVars, params, oscVars, configVars,
                   history>>

ClockSetBack ==
    /\ now' \in 1 .. (now - 1) /\ setBack' = TRUE
    /\ UNCHANGED <<tickVars, snaps, mapVars, params, oscVars, configVars,
                   history>>

---------------------------------------------------------------------------
(* Channels.                                                               *)

HasRoom(queue, cap) == Len(queue) < cap
InFront(queue, item) == <<item>> \o queue
Queued(queue, item) == Append(queue, item)

---------------------------------------------------------------------------
(* The tick of the Aggregator as the audio path sees it.                   *)

StampOfFirstTick == IF stamp = 0 THEN now ELSE stamp
StampAtTick == now

TickStart ==
    /\ aggregator = "wait" /\ ticks < MaxTicks
    /\ stamp' = StampAtTick
    /\ ticks' = ticks + 1
    /\ building' = <<[id |-> ticks + 1, ts |-> now]>>
    /\ aggregator' = "send"
    /\ UNCHANGED <<clockVars, snaps, mapVars, params, oscVars, configVars,
                   history>>

\* try_send to the mapping engine: accepted, refused (the new snapshot is
\* dropped), or closed (the aggregator ends).
TickSend ==
    /\ aggregator = "send"
    /\ building' = <<>>
    /\ \/ /\ mapper # "done" /\ HasRoom(snaps, SnapCap)
          /\ snaps' = Queued(snaps, building[1]) /\ aggregator' = "wait"
       \/ /\ mapper # "done" /\ ~HasRoom(snaps, SnapCap)
          /\ snaps' = snaps /\ aggregator' = "wait"
       \/ /\ mapper = "done"
          /\ snaps' = snaps /\ aggregator' = "done"
    /\ UNCHANGED <<clockVars, ticks, stamp, mapVars, params, oscVars,
                   configVars, history>>

---------------------------------------------------------------------------
(* MappingEngine.                                                          *)

RulesOfStartup == 0
RulesInForce == reloads

\* Receive a snapshot, copy the rules under the read lock, map.
MapSnapshot ==
    /\ mapper = "recv" /\ snaps # <<>> /\ rules \notin Poison
    /\ inMapper' = <<[id |-> Head(snaps).id, ts |-> Head(snaps).ts,
                      epoch |-> RulesInForce, empty |-> rules \in Mute]>>
    /\ snaps' = Tail(snaps)
    /\ mapper' = "send"
    /\ UNCHANGED <<clockVars, tickVars, params, oscVars, configVars, history>>

\* The task panics in clamp; its channels close and what they hold is gone.
MapPanics ==
    /\ mapper = "recv" /\ snaps # <<>> /\ rules \in Poison
    /\ mapper' = "done" /\ snaps' = <<>>
    /\ UNCHANGED <<clockVars, tickVars, inMapper, params, oscVars, configVars,
                   history>>

\* try_send to the dispatcher: accepted, or full and the frame is dropped.
\* (It is never closed: the dispatcher ends only after this task.)
SendParams ==
    /\ mapper = "send"
    /\ params' = IF HasRoom(params, ParamCap) THEN Queued(params, inMapper[1])
              ELSE params
    /\ inMapper' = <<>> /\ mapper' = "recv"
    /\ UNCHANGED <<clockVars, tickVars, snaps, oscVars, configVars, history>>

---------------------------------------------------------------------------
(* OscDispatcher.                                                          *)

SkipEmpty ==
    /\ dispatcher = "recv" /\ params # <<>> /\ Head(params).empty
    /\ params' = Tail(params)
    /\ UNCHANGED <<clockVars, tickVars, snaps, mapVars, oscVars, configVars,
                   history>>

\* Receive the parameters, copy the list of backends under the read lock, and
\* build the bundle.
PickUp ==
    /\ dispatcher = "recv" /\ params # <<>> /\ ~Head(params).empty
    /\ frame' = <<Head(params)>> /\ params' = Tail(params)
    /\ left' = backends
    /\ dispatcher' = "fan"
    /\ played' = Head(params).id
    /\ stalePlayed' = stalePlayed + IF Head(params).epoch < reloads THEN 1 ELSE 0
    /\ UNCHANGED <<clockVars, tickVars, snaps, mapVars, configVars, strays,
                   seen, observed>>

Retried == left
AfterSend == Tail(left)

\* One send_to of the fan-out, which succeeds or fails.
SendBundle ==
    /\ dispatcher = "fan" /\ left # <<>>
    /\ left' = AfterSend
    /\ \/ seen' = [seen EXCEPT ![Head(left)] = frame[1].id]
       \/ seen' = seen
    /\ strays' = IF Head(left) \in RangeOf(backends) THEN strays
                 ELSE [strays EXCEPT ![Head(left)] = @ + 1]
    /\ UNCHANGED <<clockVars, tickVars, snaps, mapVars, params, dispatcher,
                   frame, configVars, played, stalePlayed, observed>>

\* The latency goes to the histogram unless the clock stands before the stamp.
Observe ==
    /\ dispatcher = "fan" /\ left = <<>>
    /\ observed' = IF stamp > 0 /\ now >= stamp
                   THEN [actual |-> now - frame[1].ts, shown |-> now - stamp]
                   ELSE observed
    /\ frame' = <<>> /\ dispatcher' = "recv"
    /\ UNCHANGED <<clockVars, tickVars, snaps, mapVars, params, left,
                   configVars, played, stalePlayed, strays, seen>>

NoneYet == params = <<>>
NoneAnyMore == params = <<>> /\ mapper = "done"

\* recv returns None once the mapping engine is gone and the queue is empty.
DispatcherEnds ==
    /\ dispatcher = "recv" /\ NoneAnyMore
    /\ dispatcher' = "done"
    /\ UNCHANGED <<clockVars, tickVars, snaps, mapVars, params, frame, left,
                   configVars, history>>

---------------------------------------------------------------------------
(* The control API's writes (module ConfigStore has them in full).         *)

WriteRules ==
    /\ reloads < MaxReloads /\ reloads' = reloads + 1
    /\ rules' \in RuleSets
    /\ stalePlayed' = 0
    /\ UNCHANGED <<clockVars, tickVars, snaps, mapVars, params, oscVars,
                   backends, played, strays, seen, observed>>

WriteBackends ==
    /\ backends' \in BackendLists \ {backends}
    /\ strays' = [b \in BackendIds |->
                     IF b \in RangeOf(backends') THEN 0 ELSE strays[b]]
    /\ UNCHANGED <<clockVars, tickVars, snaps, mapVars, params, oscVars,
                   rules, reloads, played, stalePlayed, seen, observed>>

---------------------------------------------------------------------------
Mapper == MapSnapshot \/ MapPanics \/ SendParams
Dispatcher == SkipEmpty \/ PickUp \/ SendBundle \/ Observe \/ DispatcherEnds
Next == \/ ClockAdvances \/ ClockSetBack
        \/ TickStart \/ TickSend \/ Mapper \/ Dispatcher
        \/ WriteRules \/ WriteBackends

Spec == Init /\ [][Next]_vars

\* tokio runs each of the three tasks while it is ready.  Ticks, reloads and
\* the clock are left without fairness: nothing below waits for them.
Fairness == WF_vars(TickSend) /\ WF_vars(Mapper) /\ WF_vars(Dispatcher)
FairSpec == Spec /\ Fairness

---------------------------------------------------------------------------
(* Properties.                                                             *)

\* Every variable keeps its type and the channels keep to their capacities.
TypeOK ==
    /\ now \in Nat /\ setBack \in BOOLEAN /\ ticks \in Nat /\ stamp \in Nat
    /\ aggregator \in {"wait", "send", "done"}
    /\ building \in Seq(Snapshots)
    /\ Len(building) = IF aggregator = "send" THEN 1 ELSE 0
    /\ snaps \in Seq(Snapshots) /\ Len(snaps) <= SnapCap
    /\ mapper \in {"recv", "send", "done"}
    /\ inMapper \in Seq(Frames)
    /\ Len(inMapper) = IF mapper = "send" THEN 1 ELSE 0
    /\ params \in Seq(Frames) /\ Len(params) <= ParamCap
    /\ dispatcher \in {"recv", "fan", "done"}
    /\ frame \in Seq(Frames)
    /\ Len(frame) = IF dispatcher = "fan" THEN 1 ELSE 0
    /\ left \in Seq(BackendIds)
    /\ rules \in RuleSets /\ backends \in BackendLists
    /\ played \in Nat /\ reloads \in Nat /\ stalePlayed \in Nat
    /\ strays \in [BackendIds -> Nat] /\ seen \in [BackendIds -> Nat]
    /\ observed \in [actual : Int, shown : Nat]

Ids(s) == {s[i].id : i \in DOMAIN s}
InFlight == Ids(params) \cup Ids(inMapper) \cup Ids(snaps) \cup Ids(building)

\* The path implements the feed: whatever the queues drop and whenever the
\* rules change, what is picked up for the backends is in the order of the
\* ticks, nothing twice, and nothing is held back for ever.
PlayedFeed == INSTANCE SnapshotFeed
                  WITH published <- ticks, pending <- InFlight, played <- played
ImplementsSafety == PlayedFeed!FeedSafety
Implements == PlayedFeed!Feed

\* Nothing on its way to the backends is older than what they last played.
PlayedNeverGoesBack == PlayedFeed!NeverGoesBack

\* A backend never receives an older snapshot after a newer one, however the
\* list of backends changes under the fan-out.
BackendsInOrder ==
    [][\A b \in BackendIds : seen'[b] >= seen[b]]_vars

\* A backend that was taken off the list is sent at most the one bundle whose
\* fan-out had begun, as often as the list it was on has it.
Occurs(b, list) == Cardinality({i \in DOMAIN list : list[i] = b})
StrayBound ==
    \A b \in BackendIds :
        \E list \in BackendLists : strays[b] <= Occurs(b, list)

\* After a reload at most the queued bundles and the one in the mapping
\* engine's hand are still played with the rules from before it.
OldRulesBound == stalePlayed <= ParamCap + 1

\* As long as the clock has not been set back the latency that goes to the
\* histogram is never more than the true age of the snapshot that was sent.
LatencyNotOverstated ==
    ~setBack => observed.shown <= observed.actual

\* No value of a reloaded rule ends the audio path (design document, 8.2 R-01).
AudioContinues == mapper # "done"

\* The tasks end as the cascade has it: the aggregator and the dispatcher only
\* after the mapping engine, and none because a channel was full or empty.
EndedTasks == {t \in {"aggregator", "mapper", "dispatcher"} :
                  \/ t = "aggregator" /\ aggregator = "done"
                  \/ t = "mapper" /\ mapper = "done"
                  \/ t = "dispatcher" /\ dispatcher = "done"}
TaskCascade == INSTANCE Cascade
    WITH Tasks <- {"aggregator", "mapper", "dispatcher"},
         Feeds <- {<<"aggregator", "mapper">>, <<"mapper", "dispatcher">>},
         Leavers <- {"aggregator"}, Drainers <- {"mapper", "dispatcher"},
         ended <- EndedTasks, willing <- {"mapper"}
EndsInCascade == TaskCascade!CascadeSpec
=============================================================================
