------------------------ MODULE TelemetryPathProofs ------------------------
(***************************************************************************)
(* What TelemetryPath guarantees for every set of probes, every capacity   *)
(* and every bound: types and capacities, the loss ledger, the ledger of   *)
(* each probe, the order of events, and the bound after shutdown.          *)
(***************************************************************************)
EXTENDS TelemetryPath, FiniteSetTheorems, SequenceTheorems, TLAPS

---------------------------------------------------------------------------
(* Types.                                                                  *)

LEMMA OnlyElement ==
    ASSUME NEW S, NEW s \in Seq(S), Len(s) = 1
    PROVE  s[1] \in S
OBVIOUS

LEMMA NoElement ==
    ASSUME NEW S, NEW cap \in Nat \ {0}
    PROVE  <<>> \in Seq(S) /\ Len(<<>>) = 0 /\ Len(<<>>) <= cap
OBVIOUS

LEMMA JoinType ==
    ASSUME NEW S, NEW s \in Seq(S), NEW t \in Seq(S), Len(t) = 1
    PROVE  s \o t \in Seq(S) /\ Len(s \o t) = Len(s) + 1
BY ConcatProperties

LEMMA NextEventType ==
    ASSUME TypeOK, NEW p \in Probes
    PROVE  NextEvent(p) \in Events
<1>1. made[p] + 1 \in Nat \ {0}
  BY DEF TypeOK
<1>. QED  BY <1>1 DEF NextEvent, Events

LEMMA MakeType ==
    ASSUME TypeOK, NEW p \in Probes, Make(p)
    PROVE  made' \in [Probes -> Nat] /\ after' \in [Probes -> Nat]
<1>1. made \in [Probes -> Nat] /\ after \in [Probes -> Nat]
  BY DEF TypeOK
<1>2. made' \in [Probes -> Nat]
  BY <1>1 DEF Make
<1>3. CASE shutdown
  BY <1>1, <1>2, <1>3 DEF Make
<1>4. CASE ~shutdown
  BY <1>1, <1>2, <1>4 DEF Make
<1>. QED  BY <1>3, <1>4

\* The counter of empty windows stays a 32-bit value.
LEMMA EmptyAfterTickType ==
    ASSUME TypeOK
    PROVE  EmptyAfterTick \in -(CounterMax + 1) .. CounterMax
BY ConstantsAssumption DEF TypeOK, EmptyAfterTick, WrapI32

LEMMA RememberType ==
    ASSUME NEW bits \in Seq(BOOLEAN), NEW bit \in BOOLEAN
    PROVE  Remember(bits, bit) \in Seq(BOOLEAN)
<1>1. CASE Len(bits) <= CounterMax
  BY <1>1 DEF Remember
<1>2. CASE ~(Len(bits) <= CounterMax)
  <2>1. bits # <<>>
    BY <1>2, ConstantsAssumption
  <2>2. Tail(bits) \in Seq(BOOLEAN)
    BY <2>1
  <2>. QED  BY <1>2, <2>2 DEF Remember
<1>. QED  BY <1>1, <1>2

LEMMA TypeInit == Init => TypeOK
<1>. SUFFICES ASSUME Init PROVE TypeOK
  OBVIOUS
<1>1. /\ pc \in [Probes -> PcStates]
      /\ made \in [Probes -> Nat] /\ after \in [Probes -> Nat]
      /\ eventsTotal \in [Probes -> Nat] /\ eventsLost \in [Probes -> Nat]
      /\ taken \in [Probes -> Nat] /\ counted \in [Probes -> Nat]
  BY DEF Init, PcStates
<1>2. shared \in Snapshots /\ inHand \in Snapshots
  BY DEF Init, Quiet, Snapshots
<1>3. emptyWindows \in -(CounterMax + 1) .. CounterMax
  BY ConstantsAssumption DEF Init
<1>4. /\ shutdown \in BOOLEAN /\ consumer = "recv" /\ spawned \in Nat
      /\ lost \in SUBSET Events /\ dropped \in SUBSET Events
      /\ aggregator = "select" /\ cumulativeLost \in Nat
      /\ audio = "open" /\ reported \in Nat
  BY DEF Init
<1>5. /\ raw \in Seq(Events) /\ Len(raw) <= RawCap
      /\ agg \in Seq(Events) /\ Len(agg) <= AggCap
      /\ held \in Seq(Events) /\ Len(held) = 0
      /\ window \in Seq(Events) /\ recent \in Seq(BOOLEAN)
  <2>1. /\ raw = <<>> /\ agg = <<>> /\ held = <<>> /\ window = <<>>
        /\ recent = <<>>
    BY DEF Init
  <2>2. RawCap \in Nat \ {0} /\ AggCap \in Nat \ {0}
    BY ConstantsAssumption
  <2>. QED  BY <2>1, <2>2, NoElement
<1>. QED  BY <1>1, <1>2, <1>3, <1>4, <1>5 DEF TypeOK

LEMMA TypeProbe ==
    ASSUME TypeOK, NEW p \in Probes, ProbeStep(p)
    PROVE  TypeOK'
<1>. USE DEF TypeOK, consumerVars, aggregatorVars, windowHistory
<1>1. CASE LoopHead(p)
  BY <1>1 DEF LoopHead, PcStates
<1>2. CASE Cycle(p)
  BY <1>2 DEF Cycle, PcStates
<1>3. CASE Emit(p)
  <2>1. /\ raw' = Append(raw, NextEvent(p))
        /\ Len(raw) < RawCap
    BY <1>3 DEF Emit, HasRoom
  <2>2. raw' \in Seq(Events) /\ Len(raw') = Len(raw) + 1
    BY <2>1, NextEventType, AppendProperties
  <2>3. made' \in [Probes -> Nat] /\ after' \in [Probes -> Nat]
    BY <1>3, MakeType DEF Emit
  <2>4. Len(raw') <= RawCap
    BY <2>1, <2>2, ConstantsAssumption
  <2>. QED  BY <1>3, <2>2, <2>3, <2>4 DEF Emit, PcStates
<1>4. CASE Refuse(p)
  <2>1. lost' \in SUBSET Events
    BY <1>4, NextEventType DEF Refuse
  <2>2. made' \in [Probes -> Nat] /\ after' \in [Probes -> Nat]
    BY <1>4, MakeType DEF Refuse
  <2>. QED  BY <1>4, <2>1, <2>2 DEF Refuse, Refused, PcStates
<1>5. CASE FindClosed(p)
  <2>1. made' \in [Probes -> Nat] /\ after' \in [Probes -> Nat]
    BY <1>5, MakeType DEF FindClosed
  <2>. QED  BY <1>5, <2>1 DEF FindClosed, PcStates
<1>6. CASE CountSent(p)
  BY <1>6 DEF CountSent, BackToLoop, PcStates
<1>7. CASE CountLost(p)
  BY <1>7 DEF CountLost, PcStates
<1>8. CASE CountCumulative(p)
  BY <1>8 DEF CountCumulative, BackToLoop, PcStates
<1>. QED  BY <1>1, <1>2, <1>3, <1>4, <1>5, <1>6, <1>7, <1>8 DEF ProbeStep

LEMMA TypeConsumer ==
    ASSUME TypeOK, ConsumerStep
    PROVE  TypeOK'
<1>. USE DEF TypeOK, probeVars, aggregatorVars, windowHistory
<1>1. CASE Receive
  <2>1. /\ Head(raw) \in Events /\ Tail(raw) \in Seq(Events)
        /\ Len(Tail(raw)) = Len(raw) - 1
    BY <1>1, HeadTailProperties DEF Receive
  <2>2. /\ held' \in Seq(Events) /\ Len(held') = 1
        /\ raw' \in Seq(Events) /\ Len(raw') <= RawCap
    BY <1>1, <2>1, ConstantsAssumption DEF Receive
  <2>. QED  BY <1>1, <2>2 DEF Receive
<1>2. CASE Forward
  <2>1. agg' \in Seq(Events) /\ Len(agg') = Len(agg) + 1
    <3>1. /\ Len(held) = 1 /\ agg' = agg \o held
          /\ agg \in Seq(Events) /\ held \in Seq(Events)
      BY <1>2 DEF Forward
    <3>. HIDE DEF TypeOK
    <3>. QED  BY <3>1, JoinType
  <2>2. Len(agg') <= AggCap
    BY <1>2, <2>1, ConstantsAssumption DEF Forward, HasRoom
  <2>. QED  BY <1>2, <2>1, <2>2 DEF Forward
<1>3. CASE Drop
  <2>1. held[1] \in Events
    <3>1. held \in Seq(Events) /\ Len(held) = 1
      BY <1>3 DEF Drop
    <3>. HIDE DEF TypeOK
    <3>. QED  BY <3>1, OnlyElement
  <2>. QED  BY <1>3, <2>1 DEF Drop
<1>4. CASE ConsumerStops
  BY <1>4, ConstantsAssumption DEF ConsumerStops
<1>. QED  BY <1>1, <1>2, <1>3, <1>4 DEF ConsumerStep

LEMMA TypeAggregator ==
    ASSUME TypeOK, ShutDown \/ Collect \/ Tick \/ Publish \/ AudioCloses
    PROVE  TypeOK'
<1>. USE DEF TypeOK, probeVars, consumerVars, windowHistory
<1>1. CASE ShutDown
  BY <1>1 DEF ShutDown, aggregatorVars
<1>2. CASE Collect
  <2>1. /\ Head(agg) \in Events /\ Tail(agg) \in Seq(Events)
        /\ Len(Tail(agg)) = Len(agg) - 1
    BY <1>2, HeadTailProperties DEF Collect
  <2>2. /\ window' \in Seq(Events)
        /\ agg' \in Seq(Events) /\ Len(agg') <= AggCap
    BY <1>2, <2>1, ConstantsAssumption DEF Collect
  <2>3. taken' \in [Probes -> Nat]
    BY <1>2, <2>1 DEF Collect, Events
  <2>. QED  BY <1>2, <2>2, <2>3 DEF Collect
<1>3. CASE Tick
  <2>1. emptyWindows' \in -(CounterMax + 1) .. CounterMax
    BY <1>3, EmptyAfterTickType DEF Tick
  <2>2. inHand' \in Snapshots
    BY <1>3 DEF Tick, IsStale, Snapshots
  <2>. QED  BY <1>3, <2>1, <2>2 DEF Tick, LeftByTick
<1>4. CASE Publish
  <2>1. recent' \in Seq(BOOLEAN)
    BY <1>4, RememberType DEF Publish
  <2>2. reported' \in Nat
    BY <1>4 DEF Publish, Snapshots
  <2>3. inHand' \in Snapshots /\ shared' \in Snapshots
    BY <1>4 DEF Publish, Quiet, Snapshots
  <2>4. /\ window' = <<>> /\ aggregator' \in {"select", "done"}
        /\ agg' = agg \/ agg' = <<>>
    BY <1>4 DEF Publish, WindowAfter
  <2>5. agg' \in Seq(Events) /\ Len(agg') <= AggCap
    <3>1. /\ agg \in Seq(Events) /\ Len(agg) <= AggCap
          /\ AggCap \in Nat \ {0}
      BY ConstantsAssumption
    <3>. HIDE DEF TypeOK
    <3>. QED  BY <2>4, <3>1, NoElement
  <2>. QED  BY <1>4, <2>1, <2>2, <2>3, <2>4, <2>5 DEF Publish
<1>5. CASE AudioCloses
  BY <1>5 DEF AudioCloses
<1>. QED  BY <1>1, <1>2, <1>3, <1>4, <1>5

LEMMA TypeStep == TypeOK /\ [Next]_vars => TypeOK'
<1>. SUFFICES ASSUME TypeOK, [Next]_vars PROVE TypeOK'
  OBVIOUS
<1>1. CASE UNCHANGED vars
  BY <1>1 DEF vars, TypeOK, probeVars, consumerVars, aggregatorVars,
              windowHistory
<1>. QED  BY <1>1, TypeProbe, TypeConsumer, TypeAggregator DEF Next

\* In every reachable state each variable has its type, the counter of empty
\* windows fits in 32 bits and no channel exceeds its capacity.
THEOREM TypeCorrect == Spec => []TypeOK
BY TypeInit, TypeStep, PTL DEF Spec
---------------------------------------------------------------------------
(* The two ledgers.                                                        *)

LostOf(p) == {e \in lost : e.probe = p}

\* Nothing is in the aggregator's hand but between the tick and the snapshot.
HandInv == aggregator # "publish" => inHand.lost = 0

LedgerInv == /\ TypeOK /\ IsFiniteSet(lost) /\ HandInv
             /\ ProbeLedger /\ LossLedger

LEMMA CountingFinite == IsFiniteSet(CountingLoss)
BY ConstantsAssumption, FS_Subset DEF CountingLoss

\* How the set of probes that are counting a loss follows the program counters.
LEMMA CountingChange ==
    ASSUME NEW p \in Probes, \A q \in Probes \ {p} : pc'[q] = pc[q]
    PROVE  CountingLoss' = IF pc'[p] \in {"lost", "lostCum"}
                           THEN CountingLoss \cup {p}
                           ELSE CountingLoss \ {p}
BY DEF CountingLoss

\* A refused event is a new one: it is counted once, for its own probe.
LEMMA RefusedIsNew ==
    ASSUME LedgerInv, NEW p \in Probes, lost' = lost \cup {NextEvent(p)}
    PROVE  /\ IsFiniteSet(lost')
           /\ Cardinality(lost') = Cardinality(lost) + 1
           /\ Cardinality(LostOf(p)') = Cardinality(LostOf(p)) + 1
           /\ \A q \in Probes \ {p} : LostOf(q)' = LostOf(q)
<1>1. NextEvent(p).probe = p /\ NextEvent(p).seq = made[p] + 1
  BY DEF NextEvent
<1>2. NextEvent(p) \notin lost
  <2>1. \A e \in lost : e.probe = p => e.seq <= made[p]
    BY DEF LedgerInv, ProbeLedger
  <2>2. made[p] \in Nat
    BY DEF LedgerInv, TypeOK
  <2>. QED  BY <1>1, <2>1, <2>2
<1>3. IsFiniteSet(lost) /\ IsFiniteSet(LostOf(p))
  BY FS_Subset DEF LedgerInv, LostOf
<1>4. /\ IsFiniteSet(lost')
      /\ Cardinality(lost') = Cardinality(lost) + 1
  BY <1>2, <1>3, FS_AddElement
<1>5. LostOf(p)' = LostOf(p) \cup {NextEvent(p)}
  BY <1>1 DEF LostOf
<1>6. NextEvent(p) \notin LostOf(p)
  BY <1>2 DEF LostOf
<1>7. Cardinality(LostOf(p)') = Cardinality(LostOf(p)) + 1
  BY <1>3, <1>5, <1>6, FS_AddElement
<1>8. \A q \in Probes \ {p} : LostOf(q)' = LostOf(q)
  BY <1>1 DEF LostOf
<1>. QED  BY <1>4, <1>7, <1>8

LEMMA LedgerInit == Init => LedgerInv
<1>. SUFFICES ASSUME Init PROVE LedgerInv
  OBVIOUS
<1>1. TypeOK
  BY TypeInit
<1>2. lost = {} /\ inHand.lost = 0
  BY DEF Init, Quiet
<1>3. Cardinality(lost) = 0 /\ IsFiniteSet(lost)
  BY <1>2, FS_EmptySet
<1>4. ProbeLedger
  <2>. SUFFICES ASSUME NEW p \in Probes
                PROVE  /\ made[p] = 0 /\ eventsTotal[p] = 0
                       /\ eventsLost[p] = 0 /\ pc[p] = "head"
                       /\ Cardinality({e \in lost : e.probe = p}) = 0
    BY <1>2 DEF ProbeLedger
  <2>1. {e \in lost : e.probe = p} = {}
    BY <1>2
  <2>. QED  BY <2>1, FS_EmptySet DEF Init
<1>5. CountingLoss = {}
  BY DEF Init, CountingLoss
<1>6. LossLedger
  BY <1>2, <1>3, <1>5, FS_EmptySet DEF Init, LossLedger
<1>. QED  BY <1>1, <1>2, <1>3, <1>4, <1>6 DEF LedgerInv, HandInv

LEMMA ProbeLedgerStep ==
    ASSUME LedgerInv, NEW p \in Probes, ProbeStep(p)
    PROVE  ProbeLedger'
<1>. SUFFICES ASSUME NEW q \in Probes
              PROVE  /\ made'[q] = eventsTotal'[q] + eventsLost'[q]
                           + IF pc'[q] \in {"sent", "lost", "closed"}
                             THEN 1 ELSE 0
                     /\ \A e \in lost' : e.probe = q => e.seq <= made'[q]
                     /\ Cardinality(LostOf(q)') = eventsLost'[q]
                           + IF pc'[q] = "lost" THEN 1 ELSE 0
  BY DEF ProbeLedger, LostOf
<1>. USE DEF BackToLoop
<1>1. /\ made \in [Probes -> Nat] /\ eventsTotal \in [Probes -> Nat]
      /\ eventsLost \in [Probes -> Nat] /\ pc \in [Probes -> PcStates]
  BY DEF LedgerInv, TypeOK
<1>2. /\ made[q] = eventsTotal[q] + eventsLost[q]
                    + IF pc[q] \in {"sent", "lost", "closed"} THEN 1 ELSE 0
      /\ \A e \in lost : e.probe = q => e.seq <= made[q]
      /\ Cardinality(LostOf(q)) = eventsLost[q]
                                  + IF pc[q] = "lost" THEN 1 ELSE 0
  BY DEF LedgerInv, ProbeLedger, LostOf
<1>3. \A e \in lost : e.seq \in Nat
  BY DEF LedgerInv, TypeOK, Events
<1>4. lost' = lost => Cardinality(LostOf(q)') = Cardinality(LostOf(q))
  BY DEF LostOf
<1>5. CASE LoopHead(p)
  BY <1>1, <1>2, <1>4, <1>5 DEF LoopHead
<1>6. CASE Cycle(p)
  BY <1>1, <1>2, <1>4, <1>6 DEF Cycle
<1>7. CASE Emit(p)
  <2>1. pc[p] \in {"armed", "drain"} /\ lost' = lost
    BY <1>7 DEF Emit, HasEvent
  <2>. QED  BY <1>1, <1>2, <1>3, <1>4, <1>7, <2>1 DEF Emit, Make
<1>8. CASE Refuse(p)
  <2>1. /\ pc[p] \in {"armed", "drain"} /\ lost' = lost \cup {NextEvent(p)}
        /\ made' = [made EXCEPT ![p] = @ + 1]
        /\ pc' = [pc EXCEPT ![p] = "lost"]
        /\ eventsTotal' = eventsTotal /\ eventsLost' = eventsLost
    BY <1>8 DEF Refuse, HasEvent, Make, Refused
  <2>2. \A e \in lost' : e.probe = q => e.seq <= made'[q]
    BY <1>1, <1>2, <1>3, <2>1 DEF NextEvent
  <2>3. Cardinality(LostOf(q)') = eventsLost'[q]
                                  + IF pc'[q] = "lost" THEN 1 ELSE 0
    BY <1>1, <1>2, <2>1, RefusedIsNew
  <2>. QED  BY <1>1, <1>2, <2>1, <2>2, <2>3
<1>9. CASE FindClosed(p)
  <2>1. pc[p] \in {"armed", "drain"} /\ lost' = lost
    BY <1>9 DEF FindClosed, HasEvent
  <2>. QED  BY <1>1, <1>2, <1>3, <1>4, <1>9, <2>1 DEF FindClosed, Make
<1>10. CASE CountSent(p)
  BY <1>1, <1>2, <1>4, <1>10 DEF CountSent
<1>11. CASE CountLost(p)
  BY <1>1, <1>2, <1>4, <1>11 DEF CountLost
<1>12. CASE CountCumulative(p)
  BY <1>1, <1>2, <1>4, <1>12 DEF CountCumulative
<1>. QED  BY <1>5, <1>6, <1>7, <1>8, <1>9, <1>10, <1>11, <1>12 DEF ProbeStep

\* A probe's step moves its own program counter only.
LEMMA OthersKeepPc ==
    ASSUME TypeOK, NEW p \in Probes, ProbeStep(p)
    PROVE  \A q \in Probes \ {p} : pc'[q] = pc[q]
BY DEF TypeOK, ProbeStep, LoopHead, Cycle, Emit, Refuse, FindClosed,
       CountSent, CountLost, CountCumulative

LEMMA LossLedgerProbe ==
    ASSUME LedgerInv, NEW p \in Probes, ProbeStep(p)
    PROVE  IsFiniteSet(lost') /\ HandInv' /\ LossLedger'
<1>. USE DEF aggregatorVars, windowHistory, BackToLoop
<1>1. /\ Cardinality(CountingLoss) \in Nat /\ cumulativeLost \in Nat
      /\ Cardinality(lost) \in Nat /\ reported \in Nat /\ inHand.lost \in Nat
      /\ TypeOK /\ IsFiniteSet(lost) /\ HandInv /\ LossLedger
  BY CountingFinite, FS_CardinalityType DEF LedgerInv, TypeOK, Snapshots
<1>2. /\ aggregator' = aggregator /\ inHand' = inHand /\ reported' = reported
  BY DEF ProbeStep, LoopHead, Cycle, Emit, Refuse, FindClosed, CountSent,
         CountLost, CountCumulative
<1>3. HandInv'
  BY <1>1, <1>2 DEF HandInv
<1>4. CASE LoopHead(p) \/ Cycle(p) \/ Emit(p) \/ FindClosed(p) \/ CountSent(p)
  <2>1. /\ pc[p] \notin {"lost", "lostCum"}
        /\ lost' = lost /\ cumulativeLost' = cumulativeLost
    BY <1>4 DEF LoopHead, Cycle, Emit, FindClosed, CountSent, HasEvent
  <2>2. pc'[p] \notin {"lost", "lostCum"}
    BY <1>1, <1>4 DEF TypeOK, LoopHead, Cycle, Emit, FindClosed, CountSent
  <2>3. CountingLoss' = CountingLoss
    BY <1>1, <2>1, <2>2, OthersKeepPc, CountingChange DEF CountingLoss
  <2>. QED  BY <1>1, <1>2, <1>3, <2>1, <2>3 DEF LossLedger
<1>5. CASE Refuse(p)
  <2>1. /\ pc[p] \notin {"lost", "lostCum"}
        /\ pc'[p] = "lost"
        /\ lost' = lost \cup {NextEvent(p)} /\ cumulativeLost' = cumulativeLost
    BY <1>1, <1>5 DEF TypeOK, Refuse, HasEvent, Refused
  <2>2. CountingLoss' = CountingLoss \cup {p} /\ p \notin CountingLoss
    BY <1>1, <2>1, OthersKeepPc, CountingChange DEF CountingLoss
  <2>3. Cardinality(CountingLoss') = Cardinality(CountingLoss) + 1
    BY <2>2, CountingFinite, FS_AddElement
  <2>4. IsFiniteSet(lost') /\ Cardinality(lost') = Cardinality(lost) + 1
    BY <2>1, RefusedIsNew
  <2>. QED  BY <1>1, <1>2, <1>3, <2>1, <2>3, <2>4 DEF LossLedger
<1>6. CASE CountLost(p)
  <2>1. /\ p \in CountingLoss /\ pc'[p] = "lostCum"
        /\ lost' = lost /\ cumulativeLost' = cumulativeLost
    BY <1>1, <1>6 DEF TypeOK, CountLost, CountingLoss
  <2>2. CountingLoss' = CountingLoss
    BY <1>1, <2>1, OthersKeepPc, CountingChange DEF CountingLoss
  <2>. QED  BY <1>1, <1>2, <1>3, <2>1, <2>2 DEF LossLedger
<1>7. CASE CountCumulative(p)
  <2>1. /\ p \in CountingLoss /\ lost' = lost
        /\ cumulativeLost' = cumulativeLost + 1
    BY <1>7 DEF CountCumulative, CountingLoss
  <2>2. pc'[p] \notin {"lost", "lostCum"}
    BY <1>1, <1>7 DEF TypeOK, CountCumulative
  <2>3. CountingLoss' = CountingLoss \ {p}
    BY <1>1, <2>2, OthersKeepPc, CountingChange
  <2>4. Cardinality(CountingLoss') = Cardinality(CountingLoss) - 1
    BY <2>1, <2>3, CountingFinite, FS_RemoveElement
  <2>. QED  BY <1>1, <1>2, <1>3, <2>1, <2>4 DEF LossLedger
<1>. QED  BY <1>4, <1>5, <1>6, <1>7 DEF ProbeStep

LEMMA LedgerOthers ==
    ASSUME LedgerInv, \/ ShutDown \/ ConsumerStep \/ Collect \/ Tick
                      \/ Publish \/ AudioCloses \/ UNCHANGED vars
    PROVE  /\ IsFiniteSet(lost') /\ HandInv' /\ ProbeLedger' /\ LossLedger'
<1>. USE DEF probeVars, consumerVars, aggregatorVars, windowHistory
<1>1. /\ pc' = pc /\ made' = made /\ lost' = lost
      /\ eventsTotal' = eventsTotal /\ eventsLost' = eventsLost
  BY DEF ShutDown, ConsumerStep, Receive, Forward, Drop, ConsumerStops,
         Collect, Tick, Publish, AudioCloses, vars
<1>2. IsFiniteSet(lost') /\ ProbeLedger'
  BY <1>1 DEF LedgerInv, ProbeLedger
<1>3. CountingLoss' = CountingLoss
  BY <1>1 DEF CountingLoss
<1>4. /\ Cardinality(CountingLoss) \in Nat /\ cumulativeLost \in Nat
      /\ reported \in Nat /\ inHand.lost \in Nat /\ HandInv /\ LossLedger
  BY CountingFinite, FS_CardinalityType DEF LedgerInv, TypeOK, Snapshots
<1>5. CASE Tick
  <2>1. /\ inHand.lost = 0 /\ inHand'.lost = cumulativeLost
        /\ cumulativeLost' = 0 /\ reported' = reported /\ aggregator' = "publish"
    BY <1>4, <1>5 DEF Tick, HandInv, LeftByTick
  <2>. QED  BY <1>1, <1>2, <1>3, <1>4, <2>1 DEF LossLedger, HandInv
<1>6. CASE Publish
  <2>1. /\ inHand'.lost = 0 /\ reported' = reported + inHand.lost
        /\ cumulativeLost' = cumulativeLost
    BY <1>6 DEF Publish, Quiet
  <2>. QED  BY <1>1, <1>2, <1>3, <1>4, <2>1 DEF LossLedger, HandInv
<1>7. CASE ~Tick /\ ~Publish
  <2>1. /\ inHand' = inHand /\ reported' = reported
        /\ cumulativeLost' = cumulativeLost /\ aggregator' = aggregator
    BY <1>7 DEF ShutDown, ConsumerStep, Receive, Forward, Drop,
                ConsumerStops, Collect, AudioCloses, vars
  <2>. QED  BY <1>1, <1>2, <1>3, <1>4, <2>1 DEF LossLedger, HandInv
<1>. QED  BY <1>5, <1>6, <1>7

LEMMA LedgerStep == LedgerInv /\ [Next]_vars => LedgerInv'
<1>. SUFFICES ASSUME LedgerInv, [Next]_vars PROVE LedgerInv'
  OBVIOUS
<1>1. TypeOK'
  BY TypeStep DEF LedgerInv
<1>2. CASE \E p \in Probes : ProbeStep(p)
  BY <1>1, <1>2, ProbeLedgerStep, LossLedgerProbe DEF LedgerInv
<1>3. CASE ~\E p \in Probes : ProbeStep(p)
  BY <1>1, <1>3, LedgerOthers DEF LedgerInv, Next
<1>. QED  BY <1>2, <1>3

\* Every refused event is being counted, waiting for a tick, in the hand of
\* the aggregator or published, and only one of these, for any number of
\* probes and however their increments interleave with the swap.
THEOREM LossesAccounted == Spec => []LossLedger
<1>1. LedgerInv => LossLedger
  BY DEF LedgerInv
<1>. QED  BY <1>1, LedgerInit, LedgerStep, PTL DEF Spec

\* The totals of GET /api/probes account for every event a probe made.
THEOREM ProbesAccounted == Spec => []ProbeLedger
<1>1. LedgerInv => ProbeLedger
  BY DEF LedgerInv
<1>. QED  BY <1>1, LedgerInit, LedgerStep, PTL DEF Spec
---------------------------------------------------------------------------
(* Order.  The window flows between counted and taken, what waits for the  *)
(* aggregator between taken and made.                                      *)

OrderInv == /\ TypeOK
            /\ Flow(window, counted, taken)
            /\ Flow(Waiting, taken, made)
            /\ \A p \in Probes : counted[p] <= taken[p] /\ taken[p] <= made[p]

LEMMA EventFields ==
    ASSUME NEW s \in Seq(Events), NEW i \in DOMAIN s
    PROVE  s[i].probe \in Probes /\ s[i].seq \in Nat
<1>1. s[i] \in Events
  OBVIOUS
<1>. QED  BY <1>1 DEF Events

LEMMA FlowAppend ==
    ASSUME NEW s \in Seq(Events), NEW e \in Events,
           NEW lo \in [Probes -> Nat], NEW hi \in [Probes -> Nat],
           \A p \in Probes : lo[p] <= hi[p],
           Flow(s, lo, hi), hi[e.probe] < e.seq
    PROVE  Flow(Append(s, e), lo, [hi EXCEPT ![e.probe] = e.seq])
<1>. DEFINE t == Append(s, e)
            top == [hi EXCEPT ![e.probe] = e.seq]
<1>1. /\ t \in Seq(Events) /\ Len(t) = Len(s) + 1 /\ t[Len(s) + 1] = e
      /\ \A i \in 1 .. Len(s) : t[i] = s[i]
  BY AppendProperties
<1>2. e.probe \in Probes /\ e.seq \in Nat
  BY DEF Events
<1>3. DOMAIN t = 1 .. Len(s) + 1 /\ DOMAIN s = 1 .. Len(s) /\ Len(s) \in Nat
  BY <1>1
<1>4. \A i \in DOMAIN s : /\ s[i].probe \in Probes /\ s[i].seq \in Nat
                          /\ lo[s[i].probe] < s[i].seq
                          /\ s[i].seq <= hi[s[i].probe]
  BY EventFields DEF Flow
<1>. HIDE DEF t
<1>5. \A i \in DOMAIN t : lo[t[i].probe] < t[i].seq /\ t[i].seq <= top[t[i].probe]
  <2>. SUFFICES ASSUME NEW i \in DOMAIN t
                PROVE  lo[t[i].probe] < t[i].seq /\ t[i].seq <= top[t[i].probe]
    OBVIOUS
  <2>1. CASE i = Len(s) + 1
    <3>1. t[i] = e /\ lo[e.probe] <= hi[e.probe] /\ top[e.probe] = e.seq
      BY <1>1, <1>2, <2>1
    <3>2. lo[e.probe] \in Nat /\ hi[e.probe] \in Nat
      BY <1>2
    <3>. QED  BY <1>2, <3>1, <3>2
  <2>2. CASE i \in DOMAIN s
    <3>1. t[i] = s[i]
      BY <1>1, <1>3, <2>2
    <3>2. hi[s[i].probe] \in Nat /\ hi[e.probe] \in Nat
      BY <1>2, <1>4, <2>2
    <3>3. hi[s[i].probe] <= top[s[i].probe] /\ top[s[i].probe] \in Nat
      BY <1>2, <1>4, <2>2, <3>2
    <3>. QED  BY <1>4, <2>2, <3>1, <3>2, <3>3
  <2>. QED  BY <1>3, <2>1, <2>2
<1>6. ASSUME NEW i \in DOMAIN t, NEW j \in DOMAIN t, i < j,
             t[i].probe = t[j].probe
      PROVE  t[i].seq < t[j].seq
  <2>1. i \in DOMAIN s /\ t[i] = s[i]
    BY <1>1, <1>3, <1>6
  <2>2. CASE j = Len(s) + 1
    <3>1. t[j] = e /\ s[i].probe = e.probe
      BY <1>1, <1>6, <2>1, <2>2
    <3>2. s[i].seq <= hi[e.probe] /\ s[i].seq \in Nat
      BY <1>4, <2>1, <3>1
    <3>3. hi[e.probe] \in Nat
      BY <1>2
    <3>. QED  BY <1>2, <2>1, <3>1, <3>2, <3>3
  <2>3. CASE j \in DOMAIN s
    <3>1. t[j] = s[j]
      BY <1>1, <1>3, <2>3
    <3>. QED  BY <1>6, <2>1, <2>3, <3>1 DEF Flow, Ordered
  <2>. QED  BY <1>3, <2>2, <2>3
<1>. QED  BY <1>5, <1>6 DEF Flow, Ordered, t

LEMMA FlowTail ==
    ASSUME NEW s \in Seq(Events), s # <<>>,
           NEW lo \in [Probes -> Nat], NEW hi, Flow(s, lo, hi)
    PROVE  Flow(Tail(s), [lo EXCEPT ![Head(s).probe] = Head(s).seq], hi)
<1>. DEFINE t == Tail(s)
            low == [lo EXCEPT ![Head(s).probe] = Head(s).seq]
<1>1. /\ t \in Seq(Events) /\ Len(t) = Len(s) - 1 /\ Len(s) \in Nat \ {0}
      /\ \A i \in 1 .. Len(t) : t[i] = s[i + 1]
      /\ DOMAIN t = 1 .. Len(t) /\ DOMAIN s = 1 .. Len(s)
      /\ Head(s) = s[1]
  BY HeadTailProperties
<1>2. s[1].probe \in Probes
  BY <1>1, EventFields
<1>. HIDE DEF t
<1>3. ASSUME NEW i \in DOMAIN t
      PROVE  low[t[i].probe] < t[i].seq /\ t[i].seq <= hi[t[i].probe]
  <2>1. t[i] = s[i + 1] /\ i + 1 \in DOMAIN s /\ 1 \in DOMAIN s /\ 1 < i + 1
    BY <1>1, <1>3
  <2>2. s[i + 1].probe \in Probes
    BY <2>1, EventFields
  <2>3. CASE s[i + 1].probe = s[1].probe
    BY <1>1, <1>2, <2>1, <2>2, <2>3 DEF Flow, Ordered
  <2>4. CASE s[i + 1].probe # s[1].probe
    BY <1>1, <1>2, <2>1, <2>2, <2>4 DEF Flow
  <2>. QED  BY <2>3, <2>4
<1>4. ASSUME NEW i \in DOMAIN t, NEW j \in DOMAIN t, i < j,
             t[i].probe = t[j].probe
      PROVE  t[i].seq < t[j].seq
  <2>1. /\ t[i] = s[i + 1] /\ t[j] = s[j + 1]
        /\ i + 1 \in DOMAIN s /\ j + 1 \in DOMAIN s /\ i + 1 < j + 1
    BY <1>1, <1>4
  <2>. QED  BY <1>4, <2>1 DEF Flow, Ordered
<1>. QED  BY <1>3, <1>4 DEF Flow, Ordered, t

\* Leaving out a middle part keeps the flow.
LEMMA FlowWithout ==
    ASSUME NEW a \in Seq(Events), NEW b \in Seq(Events), NEW c \in Seq(Events),
           NEW lo, NEW hi, Flow(a \o (b \o c), lo, hi)
    PROVE  Flow(a \o c, lo, hi)
<1>. DEFINE s == a \o (b \o c)
            t == a \o c
            At(i) == IF i <= Len(a) THEN i ELSE i + Len(b)
<1>1. /\ b \o c \in Seq(Events) /\ Len(b \o c) = Len(b) + Len(c)
      /\ \A i \in 1 .. Len(b) + Len(c) :
             (b \o c)[i] = IF i <= Len(b) THEN b[i] ELSE c[i - Len(b)]
  BY ConcatProperties
<1>2. /\ s \in Seq(Events) /\ Len(s) = Len(a) + Len(b) + Len(c)
      /\ \A i \in 1 .. Len(s) :
             s[i] = IF i <= Len(a) THEN a[i] ELSE (b \o c)[i - Len(a)]
  BY <1>1, ConcatProperties
<1>3. /\ t \in Seq(Events) /\ Len(t) = Len(a) + Len(c)
      /\ \A i \in 1 .. Len(t) :
             t[i] = IF i <= Len(a) THEN a[i] ELSE c[i - Len(a)]
  BY ConcatProperties
<1>4. DOMAIN s = 1 .. Len(s) /\ DOMAIN t = 1 .. Len(t)
  BY <1>2, <1>3
<1>5. Len(a) \in Nat /\ Len(b) \in Nat /\ Len(c) \in Nat
  OBVIOUS
<1>. HIDE DEF s, t
<1>6. \A i \in DOMAIN t : At(i) \in DOMAIN s /\ t[i] = s[At(i)]
  <2>. SUFFICES ASSUME NEW i \in DOMAIN t
                PROVE  At(i) \in DOMAIN s /\ t[i] = s[At(i)]
    OBVIOUS
  <2>1. CASE i <= Len(a)
    BY <1>2, <1>3, <1>4, <1>5, <2>1
  <2>2. CASE i > Len(a)
    <3>1. /\ At(i) = i + Len(b) /\ At(i) \in 1 .. Len(s) /\ At(i) > Len(a)
          /\ At(i) - Len(a) \in 1 .. Len(b) + Len(c)
          /\ At(i) - Len(a) > Len(b)
          /\ At(i) - Len(a) - Len(b) = i - Len(a)
      BY <1>2, <1>3, <1>4, <1>5, <2>2
    <3>2. s[At(i)] = c[i - Len(a)]
      <4>1. s[At(i)] = (b \o c)[At(i) - Len(a)]
        BY <1>2, <1>5, <3>1
      <4>2. (b \o c)[At(i) - Len(a)] = c[At(i) - Len(a) - Len(b)]
        BY <1>1, <1>5, <3>1
      <4>. QED  BY <3>1, <4>1, <4>2
    <3>3. t[i] = c[i - Len(a)]
      BY <1>3, <1>4, <1>5, <2>2
    <3>. QED  BY <1>4, <3>1, <3>2, <3>3
  <2>. QED  BY <1>3, <1>4, <1>5, <2>1, <2>2
<1>7. \A i, j \in DOMAIN t : i < j => At(i) < At(j)
  BY <1>3, <1>4, <1>5
<1>8. Flow(s, lo, hi)
  BY DEF s
<1>. HIDE DEF At
<1>9. Flow(t, lo, hi)
  BY <1>6, <1>7, <1>8 DEF Flow, Ordered
<1>. QED  BY <1>9 DEF t

\* Two flows that meet at a mark make one.
LEMMA FlowJoin ==
    ASSUME NEW a \in Seq(Events), NEW b \in Seq(Events),
           NEW lo \in [Probes -> Nat], NEW mid \in [Probes -> Nat],
           NEW hi \in [Probes -> Nat],
           \A p \in Probes : lo[p] <= mid[p] /\ mid[p] <= hi[p],
           Flow(a, lo, mid), Flow(b, mid, hi)
    PROVE  Flow(a \o b, lo, hi)
<1>. DEFINE s == a \o b
<1>1. /\ s \in Seq(Events) /\ Len(s) = Len(a) + Len(b)
      /\ \A i \in 1 .. Len(s) : s[i] = IF i <= Len(a) THEN a[i] ELSE b[i - Len(a)]
      /\ DOMAIN s = 1 .. Len(s) /\ DOMAIN a = 1 .. Len(a)
      /\ DOMAIN b = 1 .. Len(b) /\ Len(a) \in Nat /\ Len(b) \in Nat
  BY ConcatProperties
<1>. HIDE DEF s
<1>2. ASSUME NEW i \in DOMAIN s
      PROVE  \/ i \in DOMAIN a /\ s[i] = a[i]
             \/ i > Len(a) /\ i - Len(a) \in DOMAIN b /\ s[i] = b[i - Len(a)]
  BY <1>1, <1>2
<1>3. \A i \in DOMAIN a : /\ a[i].probe \in Probes /\ a[i].seq \in Nat
                          /\ lo[a[i].probe] < a[i].seq
                          /\ a[i].seq <= mid[a[i].probe]
                          /\ a[i].seq <= hi[a[i].probe]
  <2>1. \A i \in DOMAIN a : a[i].probe \in Probes /\ a[i].seq \in Nat
    BY EventFields
  <2>. QED  BY <2>1 DEF Flow
<1>4. \A i \in DOMAIN b : /\ b[i].probe \in Probes /\ b[i].seq \in Nat
                          /\ mid[b[i].probe] < b[i].seq
                          /\ lo[b[i].probe] < b[i].seq
                          /\ b[i].seq <= hi[b[i].probe]
  <2>1. \A i \in DOMAIN b : b[i].probe \in Probes /\ b[i].seq \in Nat
    BY EventFields
  <2>. QED  BY <2>1 DEF Flow
<1>5. \A i \in DOMAIN s : lo[s[i].probe] < s[i].seq /\ s[i].seq <= hi[s[i].probe]
  BY <1>2, <1>3, <1>4
<1>6. ASSUME NEW i \in DOMAIN s, NEW j \in DOMAIN s, i < j,
             s[i].probe = s[j].probe
      PROVE  s[i].seq < s[j].seq
  <2>1. i \in Nat /\ j \in Nat
    BY <1>1
  <2>2. CASE j \in DOMAIN a /\ s[j] = a[j]
    <3>1. i \in DOMAIN a /\ s[i] = a[i]
      BY <1>1, <1>6, <2>1, <2>2
    <3>. QED  BY <1>6, <2>2, <3>1 DEF Flow, Ordered
  <2>3. CASE j > Len(a) /\ j - Len(a) \in DOMAIN b /\ s[j] = b[j - Len(a)]
    <3>1. CASE i \in DOMAIN a /\ s[i] = a[i]
      <4>1. /\ s[i].seq <= mid[s[i].probe] /\ mid[s[i].probe] < s[j].seq
            /\ s[i].probe \in Probes /\ s[i].seq \in Nat /\ s[j].seq \in Nat
        BY <1>3, <1>4, <1>6, <2>3, <3>1
      <4>2. mid[s[i].probe] \in Nat
        BY <4>1
      <4>. QED  BY <4>1, <4>2
    <3>2. CASE i > Len(a) /\ i - Len(a) \in DOMAIN b /\ s[i] = b[i - Len(a)]
      <4>1. i - Len(a) < j - Len(a)
        BY <1>1, <1>6, <2>1
      <4>. QED  BY <1>6, <2>3, <3>2, <4>1 DEF Flow, Ordered
    <3>. QED  BY <1>2, <3>1, <3>2
  <2>. QED  BY <1>2, <2>2, <2>3
<1>. QED  BY <1>5, <1>6 DEF Flow, Ordered, s
---------------------------------------------------------------------------
(* The steps of the two tasks in terms of the two flows.                   *)

LEMMA WaitingType ==
    ASSUME TypeOK
    PROVE  /\ Waiting \in Seq(Events) /\ held \o raw \in Seq(Events)
           /\ window \in Seq(Events) /\ agg \in Seq(Events)
           /\ held \in Seq(Events) /\ raw \in Seq(Events)
           /\ made \in [Probes -> Nat] /\ taken \in [Probes -> Nat]
           /\ counted \in [Probes -> Nat]
<1>1. /\ window \in Seq(Events) /\ agg \in Seq(Events)
      /\ held \in Seq(Events) /\ raw \in Seq(Events)
      /\ made \in [Probes -> Nat] /\ taken \in [Probes -> Nat]
      /\ counted \in [Probes -> Nat]
  BY DEF TypeOK
<1>. QED  BY <1>1, ConcatProperties DEF Waiting

LEMMA EmptyLeft == ASSUME NEW s \in Seq(Events) PROVE <<>> \o s = s
OBVIOUS

LEMMA EmptyRight == ASSUME NEW s \in Seq(Events) PROVE s \o <<>> = s
OBVIOUS

LEMMA HeadAndTail ==
    ASSUME NEW s \in Seq(Events), s # <<>>
    PROVE  <<Head(s)>> \o Tail(s) = s
OBVIOUS

LEMMA AppendRight ==
    ASSUME NEW a \in Seq(Events), NEW b \in Seq(Events), NEW e \in Events
    PROVE  a \o Append(b, e) = Append(a \o b, e)
OBVIOUS

LEMMA TailOfJoin ==
    ASSUME NEW a \in Seq(Events), NEW b \in Seq(Events), a # <<>>
    PROVE  /\ a \o b # <<>> /\ Head(a \o b) = Head(a)
           /\ Tail(a \o b) = Tail(a) \o b
OBVIOUS

LEMMA OneHeld ==
    ASSUME TypeOK
    PROVE  /\ consumer = "forward" => held = <<held[1]>>
           /\ consumer # "forward" => held = <<>>
<1>1. held \in Seq(Events) /\ Len(held) = IF consumer = "forward" THEN 1 ELSE 0
  BY DEF TypeOK
<1>. QED  BY <1>1

LEMMA OrderInit == Init => OrderInv
<1>. SUFFICES ASSUME Init PROVE OrderInv
  OBVIOUS
<1>1. TypeOK
  BY TypeInit
<1>2. window = <<>> /\ Waiting = <<>>
  BY DEF Init, Waiting
<1>3. Flow(window, counted, taken) /\ Flow(Waiting, taken, made)
  BY <1>2 DEF Flow, Ordered
<1>. QED  BY <1>1, <1>3 DEF OrderInv, Init

LEMMA OrderProbe ==
    ASSUME OrderInv, NEW p \in Probes, ProbeStep(p)
    PROVE  OrderInv'
<1>. USE DEF consumerVars, aggregatorVars, windowHistory
<1>1. TypeOK /\ TypeOK'
  BY TypeProbe DEF OrderInv
<1>2. /\ window' = window /\ taken' = taken /\ counted' = counted
      /\ agg' = agg /\ held' = held
  BY DEF ProbeStep, LoopHead, Cycle, Emit, Refuse, FindClosed, CountSent,
         CountLost, CountCumulative
<1>3. Flow(window, counted, taken)'
  BY <1>2 DEF OrderInv, Flow, Ordered
<1>4. /\ made \in [Probes -> Nat] /\ taken \in [Probes -> Nat]
      /\ counted \in [Probes -> Nat]
      /\ Waiting \in Seq(Events) /\ Flow(Waiting, taken, made)
      /\ \A q \in Probes : counted[q] <= taken[q] /\ taken[q] <= made[q]
  BY <1>1, WaitingType DEF OrderInv
<1>5. CASE Emit(p)
  <2>1. /\ raw' = Append(raw, NextEvent(p))
        /\ made' = [made EXCEPT ![p] = @ + 1]
    BY <1>5 DEF Emit, Make
  <2>2. NextEvent(p) \in Events
    BY <1>1, NextEventType
  <2>3. Waiting' = Append(Waiting, NextEvent(p))
    <3>1. held \o raw' = Append(held \o raw, NextEvent(p))
      BY <1>1, <2>1, <2>2, WaitingType, AppendRight
    <3>2. agg \o Append(held \o raw, NextEvent(p))
             = Append(Waiting, NextEvent(p))
      BY <1>1, <2>2, WaitingType, AppendRight DEF Waiting
    <3>. QED  BY <1>2, <3>1, <3>2 DEF Waiting
  <2>4. /\ NextEvent(p).probe = p /\ NextEvent(p).seq = made[p] + 1
        /\ made[p] < made[p] + 1
    BY <1>4 DEF NextEvent
  <2>5. Flow(Waiting', taken, made')
    <3>1. Flow(Append(Waiting, NextEvent(p)), taken,
               [made EXCEPT ![NextEvent(p).probe] = NextEvent(p).seq])
      BY <1>4, <2>2, <2>4, FlowAppend
    <3>2. made' = [made EXCEPT ![NextEvent(p).probe] = NextEvent(p).seq]
      BY <2>1, <2>4
    <3>. QED  BY <2>3, <3>1, <3>2
  <2>6. \A q \in Probes : counted[q] <= taken[q] /\ taken[q] <= made'[q]
    BY <1>4, <2>1
  <2>. QED  BY <1>1, <1>2, <1>3, <2>5, <2>6 DEF OrderInv
<1>6. CASE ~Emit(p)
  <2>1. raw' = raw /\ (made' = made \/ made' = [made EXCEPT ![p] = @ + 1])
    BY <1>6 DEF ProbeStep, LoopHead, Cycle, Refuse, FindClosed, CountSent,
                CountLost, CountCumulative, Make
  <2>2. Waiting' = Waiting
    BY <1>2, <2>1 DEF Waiting
  <2>3. \A q \in Probes : made[q] <= made'[q] /\ made'[q] \in Nat
    <3>1. CASE made' = made
      BY <1>4, <3>1
    <3>2. CASE made' = [made EXCEPT ![p] = @ + 1]
      BY <1>4, <3>2
    <3>. QED  BY <2>1, <3>1, <3>2
  <2>4. \A i \in DOMAIN Waiting :
            Waiting[i].probe \in Probes /\ Waiting[i].seq \in Nat
    BY <1>4, EventFields
  <2>5. Flow(Waiting, taken, made')
    BY <1>4, <2>3, <2>4 DEF Flow
  <2>6. \A q \in Probes : counted[q] <= taken[q] /\ taken[q] <= made'[q]
    BY <1>4, <2>3
  <2>. QED  BY <1>1, <1>2, <1>3, <2>2, <2>5, <2>6 DEF OrderInv
<1>. QED  BY <1>5, <1>6

LEMMA OrderConsumer ==
    ASSUME OrderInv, ConsumerStep
    PROVE  OrderInv'
<1>. USE DEF probeVars, aggregatorVars, windowHistory
<1>1. TypeOK /\ TypeOK'
  BY TypeConsumer DEF OrderInv
<1>2. /\ window' = window /\ taken' = taken /\ counted' = counted
      /\ made' = made
  BY DEF ConsumerStep, Receive, Forward, Drop, ConsumerStops
<1>3. SUFFICES Flow(Waiting', taken, made)
  BY <1>1, <1>2 DEF OrderInv, Flow, Ordered
<1>4. Flow(agg \o (held \o raw), taken, made)
  BY DEF OrderInv, Waiting
<1>5. <<>> \in Seq(Events)
  OBVIOUS
<1>6. CASE Receive
  <2>1. /\ held = <<>> /\ held' = <<Head(raw)>> /\ raw' = Tail(raw)
        /\ raw # <<>> /\ agg' = agg
    BY <1>1, <1>6, OneHeld DEF Receive
  <2>2. held' \o raw' = held \o raw
    BY <1>1, <2>1, WaitingType, HeadAndTail, EmptyLeft
  <2>. QED  BY <1>4, <2>1, <2>2 DEF Waiting
<1>7. CASE Forward
  <2>1. agg' = agg \o held /\ held' = <<>> /\ raw' = raw
    BY <1>7 DEF Forward
  <2>2. held' \o raw' = raw
    BY <1>1, <2>1, WaitingType, EmptyLeft
  <2>3. (agg \o held) \o raw = agg \o (held \o raw)
    BY <1>1, WaitingType, ConcatAssociative
  <2>. QED  BY <1>4, <2>1, <2>2, <2>3 DEF Waiting
<1>8. CASE Drop
  <2>1. agg' = agg /\ held' = <<>> /\ raw' = raw
    BY <1>8 DEF Drop
  <2>2. held' \o raw' = raw
    BY <1>1, <2>1, WaitingType, EmptyLeft
  <2>3. Flow(agg \o raw, taken, made)
    BY <1>1, <1>4, WaitingType, FlowWithout
  <2>. QED  BY <2>1, <2>2, <2>3 DEF Waiting
<1>9. CASE ConsumerStops
  <2>1. agg' = agg /\ held' = <<>> /\ raw' = <<>>
    BY <1>9 DEF ConsumerStops
  <2>2. (held \o raw) \o <<>> = held \o raw
    BY <1>1, WaitingType, EmptyRight
  <2>3. Flow(agg \o <<>>, taken, made)
    BY <1>1, <1>4, <1>5, <2>2, WaitingType, FlowWithout
  <2>4. held' \o raw' = <<>>
    BY <1>5, <2>1, EmptyLeft
  <2>. QED  BY <2>1, <2>3, <2>4 DEF Waiting
<1>. QED  BY <1>6, <1>7, <1>8, <1>9 DEF ConsumerStep

LEMMA OrderAggregator ==
    ASSUME OrderInv, ShutDown \/ Collect \/ Tick \/ Publish \/ AudioCloses
    PROVE  OrderInv'
<1>. USE DEF probeVars, consumerVars, windowHistory
<1>1. TypeOK /\ TypeOK'
  BY TypeAggregator DEF OrderInv
<1>2. /\ made \in [Probes -> Nat] /\ taken \in [Probes -> Nat]
      /\ counted \in [Probes -> Nat] /\ window \in Seq(Events)
      /\ Flow(window, counted, taken) /\ Flow(Waiting, taken, made)
      /\ \A q \in Probes : counted[q] <= taken[q] /\ taken[q] <= made[q]
  BY <1>1, WaitingType DEF OrderInv
<1>3. CASE ShutDown \/ Tick \/ AudioCloses
  <2>1. /\ window' = window /\ taken' = taken /\ counted' = counted
        /\ made' = made /\ Waiting' = Waiting
    BY <1>3 DEF ShutDown, Tick, AudioCloses, aggregatorVars, Waiting
  <2>. QED  BY <1>1, <1>2, <2>1 DEF OrderInv
<1>4. CASE Collect
  <2>. DEFINE e == Head(agg)
  <2>1. /\ agg # <<>> /\ window' = Append(window, e) /\ agg' = Tail(agg)
        /\ taken' = [taken EXCEPT ![e.probe] = e.seq]
        /\ held' = held /\ raw' = raw /\ made' = made /\ counted' = counted
    BY <1>4 DEF Collect
  <2>2. /\ Waiting # <<>> /\ Head(Waiting) = e /\ Tail(Waiting) = Waiting'
    BY <1>1, <2>1, WaitingType, TailOfJoin DEF Waiting
  <2>3. /\ e \in Events /\ Waiting[1] = e /\ 1 \in DOMAIN Waiting
    BY <1>1, <2>1, <2>2, WaitingType, HeadTailProperties
  <2>4. e.probe \in Probes /\ e.seq \in Nat
    BY <2>3 DEF Events
  <2>5. taken[e.probe] < e.seq /\ e.seq <= made[e.probe]
    BY <1>2, <2>3 DEF Flow
  <2>6. Flow(window', counted, taken')
    BY <1>2, <2>1, <2>3, <2>5, FlowAppend
  <2>7. Flow(Waiting', taken', made)
    BY <1>1, <1>2, <2>1, <2>2, WaitingType, FlowTail
  <2>8. \A q \in Probes : counted[q] <= taken'[q] /\ taken'[q] <= made[q]
    <3>1. \A q \in Probes : counted[q] \in Nat /\ taken[q] \in Nat
      BY <1>2
    <3>. QED  BY <1>2, <2>1, <2>4, <2>5, <3>1
  <2>. QED  BY <1>1, <2>1, <2>6, <2>7, <2>8 DEF OrderInv
<1>5. CASE Publish
  <2>1. /\ window' = <<>> /\ counted' = taken /\ taken' = taken
        /\ made' = made /\ held' = held /\ raw' = raw
        /\ agg' = agg \/ agg' = <<>>
    BY <1>5 DEF Publish, WindowAfter
  <2>2. Flow(window', counted', taken')
    BY <2>1 DEF Flow, Ordered
  <2>3. Flow(Waiting', taken, made)
    <3>1. CASE agg' = agg
      BY <1>2, <2>1, <3>1 DEF Waiting
    <3>2. CASE agg' = <<>>
      <4>1. <<>> \in Seq(Events)
        OBVIOUS
      <4>2. <<>> \o (agg \o (held \o raw)) = Waiting
        BY <1>1, WaitingType, EmptyLeft DEF Waiting
      <4>3. Flow(<<>> \o (held \o raw), taken, made)
        BY <1>1, <1>2, <4>1, <4>2, WaitingType, FlowWithout
      <4>. QED  BY <2>1, <3>2, <4>3 DEF Waiting
    <3>. QED  BY <2>1, <3>1, <3>2
  <2>4. \A q \in Probes : taken[q] <= taken[q] /\ taken[q] <= made[q]
    BY <1>2
  <2>. QED  BY <1>1, <2>1, <2>2, <2>3, <2>4 DEF OrderInv
<1>. QED  BY <1>3, <1>4, <1>5

LEMMA OrderStep == OrderInv /\ [Next]_vars => OrderInv'
<1>. SUFFICES ASSUME OrderInv, [Next]_vars PROVE OrderInv'
  OBVIOUS
<1>1. CASE UNCHANGED vars
  <2>1. TypeOK'
    BY TypeStep DEF OrderInv
  <2>2. /\ window' = window /\ Waiting' = Waiting /\ made' = made
        /\ counted' = counted /\ taken' = taken
    BY <1>1 DEF vars, probeVars, consumerVars, windowHistory, aggregatorVars,
                Waiting
  <2>. QED  BY <2>1, <2>2 DEF OrderInv
<1>. QED  BY <1>1, OrderProbe, OrderConsumer, OrderAggregator DEF Next

LEMMA OrderImplies == OrderInv => InOrder
<1>. SUFFICES ASSUME OrderInv PROVE InOrder
  OBVIOUS
<1>1. TypeOK
  BY DEF OrderInv
<1>. QED  BY <1>1, WaitingType, FlowJoin DEF OrderInv, Pipeline, InOrder

\* Through both channels and the window the events of a probe stay in the
\* order in which it made them, and none is in a window for the second time.
THEOREM EventsInOrder == Spec => []InOrder
BY OrderInit, OrderStep, OrderImplies, PTL DEF Spec

---------------------------------------------------------------------------
(* The feed of each probe's events.                                        *)

LEMMA SeqsAppend ==
    ASSUME NEW s \in Seq(Events), NEW e \in Events, NEW p
    PROVE  SeqsOf(Append(s, e), p)
               = SeqsOf(s, p) \cup IF e.probe = p THEN {e.seq} ELSE {}
<1>. DEFINE t == Append(s, e)
<1>1. /\ DOMAIN t = DOMAIN s \cup {Len(s) + 1} /\ t[Len(s) + 1] = e
      /\ \A i \in DOMAIN s : t[i] = s[i]
  BY AppendProperties
<1>. HIDE DEF t
<1>. QED  BY <1>1 DEF SeqsOf, t

LEMMA SeqsJoin ==
    ASSUME NEW a \in Seq(Events), NEW b \in Seq(Events), NEW p
    PROVE  SeqsOf(a \o b, p) = SeqsOf(a, p) \cup SeqsOf(b, p)
<1>. DEFINE t == a \o b
<1>1. /\ Len(t) = Len(a) + Len(b) /\ Len(a) \in Nat /\ Len(b) \in Nat
      /\ \A i \in 1 .. Len(t) : t[i] = IF i <= Len(a) THEN a[i] ELSE b[i - Len(a)]
      /\ DOMAIN t = 1 .. Len(t) /\ DOMAIN a = 1 .. Len(a) /\ DOMAIN b = 1 .. Len(b)
  BY ConcatProperties
<1>. HIDE DEF t
<1>2. \A i \in DOMAIN t : \/ i \in DOMAIN a /\ t[i] = a[i]
                          \/ i - Len(a) \in DOMAIN b /\ t[i] = b[i - Len(a)]
  BY <1>1
<1>3. \A i \in DOMAIN a : i \in DOMAIN t /\ t[i] = a[i]
  BY <1>1
<1>4. \A i \in DOMAIN b : i + Len(a) \in DOMAIN t /\ t[i + Len(a)] = b[i]
  BY <1>1
<1>5. SeqsOf(t, p) \subseteq SeqsOf(a, p) \cup SeqsOf(b, p)
  BY <1>2 DEF SeqsOf
<1>6. SeqsOf(a, p) \subseteq SeqsOf(t, p)
  BY <1>3 DEF SeqsOf
<1>7. SeqsOf(b, p) \subseteq SeqsOf(t, p)
  BY <1>4 DEF SeqsOf
<1>. QED  BY <1>5, <1>6, <1>7 DEF t

\* The head of a flow is the oldest event of its probe, and its only one with
\* that number.
LEMMA SeqsTail ==
    ASSUME NEW s \in Seq(Events), s # <<>>, Ordered(s), NEW p \in Probes
    PROVE  IF Head(s).probe = p
           THEN /\ Head(s).seq \in SeqsOf(s, p)
                /\ \A k \in SeqsOf(s, p) : Head(s).seq <= k
                /\ SeqsOf(Tail(s), p) = SeqsOf(s, p) \ {Head(s).seq}
           ELSE SeqsOf(Tail(s), p) = SeqsOf(s, p)
<1>. DEFINE t == Tail(s)
<1>1. /\ t \in Seq(Events) /\ Len(t) = Len(s) - 1 /\ Len(s) \in Nat \ {0}
      /\ \A i \in 1 .. Len(t) : t[i] = s[i + 1]
      /\ DOMAIN t = 1 .. Len(t) /\ DOMAIN s = 1 .. Len(s)
      /\ Head(s) = s[1]
  BY HeadTailProperties
<1>. HIDE DEF t
<1>2. \A i \in DOMAIN s : s[i].seq \in Nat
  BY EventFields
<1>3. 1 \in DOMAIN s /\ \A i \in DOMAIN s : i # 1 => i - 1 \in DOMAIN t /\ t[i - 1] = s[i]
  BY <1>1
<1>4. \A i \in DOMAIN t : i + 1 \in DOMAIN s /\ t[i] = s[i + 1] /\ i + 1 > 1
  BY <1>1
<1>5. CASE s[1].probe = p
  <2>1. \A i \in DOMAIN s : i # 1 /\ s[i].probe = p => s[1].seq < s[i].seq
    BY <1>1, <1>3, <1>5 DEF Ordered
  <2>2. s[1].seq \in SeqsOf(s, p)
    BY <1>3, <1>5 DEF SeqsOf
  <2>3. \A k \in SeqsOf(s, p) : s[1].seq <= k
    BY <1>2, <1>3, <2>1 DEF SeqsOf
  <2>4. SeqsOf(t, p) \subseteq SeqsOf(s, p) \ {s[1].seq}
    <3>1. \A i \in DOMAIN t : t[i].probe = p =>
              /\ s[1].seq < t[i].seq /\ s[1].seq \in Nat /\ t[i].seq \in Nat
              /\ t[i].seq \in SeqsOf(s, p)
      BY <1>2, <1>3, <1>4, <2>1 DEF SeqsOf
    <3>. QED  BY <3>1 DEF SeqsOf
  <2>5. SeqsOf(s, p) \ {s[1].seq} \subseteq SeqsOf(t, p)
    BY <1>3 DEF SeqsOf
  <2>. QED  BY <1>1, <1>5, <2>2, <2>3, <2>4, <2>5 DEF t
<1>6. CASE s[1].probe # p
  <2>1. SeqsOf(t, p) \subseteq SeqsOf(s, p)
    BY <1>4 DEF SeqsOf
  <2>2. SeqsOf(s, p) \subseteq SeqsOf(t, p)
    BY <1>3, <1>6 DEF SeqsOf
  <2>. QED  BY <1>1, <1>6, <2>1, <2>2 DEF t
<1>. QED  BY <1>5, <1>6

LEMMA SeqsThree ==
    ASSUME NEW a \in Seq(Events), NEW b \in Seq(Events), NEW c \in Seq(Events), NEW p
    PROVE  SeqsOf(a \o (b \o c), p) = SeqsOf(a, p) \cup SeqsOf(b, p) \cup SeqsOf(c, p)
<1>. DEFINE d == b \o c
<1>1. d \in Seq(Events)
  BY ConcatProperties
<1>2. SeqsOf(d, p) = SeqsOf(b, p) \cup SeqsOf(c, p)
  BY SeqsJoin
<1>. HIDE DEF d
<1>3. SeqsOf(a \o d, p) = SeqsOf(a, p) \cup SeqsOf(d, p)
  BY <1>1, SeqsJoin
<1>. QED  BY <1>2, <1>3 DEF d

\* A step that makes and takes no event of a probe and adds none to those on
\* the way is one of the feed, or none.
LEMMA FewerOnTheWay ==
    ASSUME NEW p, made'[p] = made[p], taken'[p] = taken[p],
           OnTheWay(p)' \subseteq OnTheWay(p)
    PROVE  ProbeFeed(p)!FeedNext \/ UNCHANGED ProbeFeed(p)!feedVars
<1>. DEFINE gone == OnTheWay(p) \ OnTheWay(p)'
<1>1. /\ gone \in SUBSET OnTheWay(p)
      /\ OnTheWay(p)' = OnTheWay(p) \ gone
  OBVIOUS
<1>2. CASE gone = {}
  <2>1. OnTheWay(p)' = OnTheWay(p)
    BY <1>2
  <2>. QED  BY <2>1 DEF ProbeFeed!feedVars
<1>3. CASE gone # {}
  <2>1. ProbeFeed(p)!LoseSnapshots
    BY <1>1, <1>3 DEF ProbeFeed!LoseSnapshots
  <2>. QED  BY <2>1 DEF ProbeFeed!FeedNext
<1>. QED  BY <1>2, <1>3

\* An event that is refused or thrown away is not also waiting.
RefusedInv == \A p \in Probes : pc[p] \in {"lost", "closed"} =>
                                    made[p] \notin SeqsOf(Waiting, p)

\* The tasks behind the raw channel add no event to those that wait.
LEMMA WaitingShrinks ==
    ASSUME TypeOK, TypeOK', NEW q \in Probes,
           ConsumerStep \/ ShutDown \/ Tick \/ Publish \/ AudioCloses
    PROVE  /\ pc' = pc /\ made' = made /\ taken' = taken
           /\ SeqsOf(Waiting, q)' \subseteq SeqsOf(Waiting, q)
<1>. USE DEF probeVars, consumerVars, aggregatorVars, windowHistory
<1>1. pc' = pc /\ made' = made /\ taken' = taken
  BY DEF ConsumerStep, Receive, Forward, Drop, ConsumerStops, ShutDown, Tick,
         Publish, AudioCloses
<1>2. /\ agg \in Seq(Events) /\ held \in Seq(Events) /\ raw \in Seq(Events)
      /\ agg' \in Seq(Events) /\ held' \in Seq(Events) /\ raw' \in Seq(Events)
  BY DEF TypeOK
<1>3. SeqsOf(Waiting, q) = SeqsOf(agg, q) \cup SeqsOf(held, q) \cup SeqsOf(raw, q)
  BY <1>2, SeqsThree DEF Waiting
<1>4. SeqsOf(Waiting, q)' = SeqsOf(agg', q) \cup SeqsOf(held', q) \cup SeqsOf(raw', q)
  BY <1>2, SeqsThree DEF Waiting
<1>5. SeqsOf(<<>>, q) = {}
  BY DEF SeqsOf
<1>6. CASE Receive
  <2>1. /\ held = <<>> /\ held' = <<Head(raw)>> /\ raw' = Tail(raw)
        /\ raw # <<>> /\ agg' = agg
    BY <1>6, OneHeld DEF Receive
  <2>2. held' \o raw' = held \o raw
    BY <1>2, <2>1, HeadAndTail, EmptyLeft
  <2>. QED  BY <1>1, <2>1, <2>2 DEF Waiting
<1>7. CASE Forward
  <2>1. agg' = agg \o held /\ held' = <<>> /\ raw' = raw
    BY <1>7 DEF Forward
  <2>2. SeqsOf(agg', q) = SeqsOf(agg, q) \cup SeqsOf(held, q)
    BY <1>2, <2>1, SeqsJoin
  <2>. QED  BY <1>1, <1>3, <1>4, <1>5, <2>1, <2>2
<1>8. CASE Drop \/ ConsumerStops
  BY <1>1, <1>3, <1>4, <1>5, <1>8 DEF Drop, ConsumerStops
<1>9. CASE ShutDown \/ Tick \/ Publish \/ AudioCloses
  BY <1>1, <1>3, <1>4, <1>5, <1>9 DEF ShutDown, Tick, Publish, AudioCloses
<1>. QED  BY <1>6, <1>7, <1>8, <1>9 DEF ConsumerStep

LEMMA FeedOthers ==
    ASSUME TypeOK, TypeOK', NEW q \in Probes,
           ConsumerStep \/ ShutDown \/ Tick \/ Publish \/ AudioCloses
    PROVE  ProbeFeed(q)!FeedNext \/ UNCHANGED ProbeFeed(q)!feedVars
<1>1. /\ pc' = pc /\ made' = made /\ taken' = taken
      /\ SeqsOf(Waiting, q)' \subseteq SeqsOf(Waiting, q)
  BY WaitingShrinks
<1>2. OnTheWay(q)' \subseteq OnTheWay(q)
  BY <1>1 DEF OnTheWay, SeqsOf
<1>. QED  BY <1>1, <1>2, FewerOnTheWay

LEMMA FeedProbe ==
    ASSUME OrderInv, NEW p \in Probes, ProbeStep(p), NEW q \in Probes
    PROVE  ProbeFeed(q)!FeedNext \/ UNCHANGED ProbeFeed(q)!feedVars
<1>. USE DEF consumerVars, aggregatorVars, windowHistory
<1>1. /\ TypeOK /\ TypeOK'
      /\ made \in [Probes -> Nat] /\ pc \in [Probes -> PcStates]
      /\ agg \in Seq(Events) /\ held \in Seq(Events) /\ raw \in Seq(Events)
      /\ raw' \in Seq(Events)
  BY TypeProbe DEF OrderInv, TypeOK
<1>2. taken' = taken /\ agg' = agg /\ held' = held
  BY DEF ProbeStep, LoopHead, Cycle, Emit, Refuse, FindClosed, CountSent,
         CountLost, CountCumulative
<1>3. /\ OnTheWay(q) = SeqsOf(agg, q) \cup SeqsOf(held, q) \cup SeqsOf(raw, q)
             \cup IF pc[q] \in {"lost", "closed"} THEN {made[q]} ELSE {}
      /\ OnTheWay(q)' = SeqsOf(agg, q) \cup SeqsOf(held, q) \cup SeqsOf(raw', q)
             \cup IF pc'[q] \in {"lost", "closed"} THEN {made'[q]} ELSE {}
  <2>1. /\ OnTheWay(q) = SeqsOf(Waiting, q)
               \cup IF pc[q] \in {"lost", "closed"} THEN {made[q]} ELSE {}
        /\ OnTheWay(q)' = SeqsOf(Waiting', q)
               \cup IF pc'[q] \in {"lost", "closed"} THEN {made'[q]} ELSE {}
    BY DEF OnTheWay, SeqsOf
  <2>2. SeqsOf(Waiting, q) = SeqsOf(agg, q) \cup SeqsOf(held, q) \cup SeqsOf(raw, q)
    BY <1>1, SeqsThree DEF Waiting
  <2>3. SeqsOf(Waiting', q) = SeqsOf(agg, q) \cup SeqsOf(held, q) \cup SeqsOf(raw', q)
    BY <1>1, <1>2, SeqsThree DEF Waiting
  <2>. QED  BY <2>1, <2>2, <2>3
<1>4. CASE Emit(p) \/ Refuse(p) \/ FindClosed(p)
  <2>1. /\ made' = [made EXCEPT ![p] = @ + 1] /\ made[p] < MaxEvents
        /\ pc[p] \in {"armed", "drain"}
        /\ \E s \in {"sent", "lost", "closed"} : pc' = [pc EXCEPT ![p] = s]
    BY <1>4 DEF Emit, Refuse, FindClosed, HasEvent, Make, Refused
  <2>2. \/ raw' = Append(raw, NextEvent(p)) /\ pc'[p] = "sent"
        \/ raw' = raw /\ pc'[p] \in {"lost", "closed"}
    BY <1>1, <1>4 DEF Emit, Refuse, FindClosed, Refused
  <2>3. NextEvent(p) \in Events /\ NextEvent(p).probe = p
        /\ NextEvent(p).seq = made[p] + 1
    BY <1>1, NextEventType DEF NextEvent
  <2>4. SeqsOf(Append(raw, NextEvent(p)), q)
            = SeqsOf(raw, q) \cup IF p = q THEN {made[p] + 1} ELSE {}
    BY <1>1, <2>3, SeqsAppend
  <2>5. CASE p = q
    <3>1. made'[q] = made[q] + 1 /\ pc[q] \notin {"lost", "closed"}
      BY <1>1, <2>1, <2>5
    <3>2. OnTheWay(q)' = OnTheWay(q) \cup {made[q] + 1}
      BY <1>3, <2>2, <2>4, <2>5, <3>1
    <3>3. ProbeFeed(q)!PublishSnapshot
      BY <1>2, <2>1, <2>5, <3>1, <3>2 DEF ProbeFeed!PublishSnapshot
    <3>. QED  BY <3>3 DEF ProbeFeed!FeedNext
  <2>6. CASE p # q
    <3>1. made'[q] = made[q] /\ pc'[q] = pc[q]
      BY <1>1, <2>1, <2>6
    <3>2. OnTheWay(q)' \subseteq OnTheWay(q)
      BY <1>3, <2>2, <2>4, <2>6, <3>1
    <3>. QED  BY <1>2, <3>1, <3>2, FewerOnTheWay
  <2>. QED  BY <2>5, <2>6
<1>5. CASE ~(Emit(p) \/ Refuse(p) \/ FindClosed(p))
  <2>1. /\ made' = made /\ raw' = raw
        /\ \E s \in PcStates \ {"lost", "closed"} : pc' = [pc EXCEPT ![p] = s]
    BY <1>5 DEF ProbeStep, LoopHead, Cycle, CountSent, CountLost,
                CountCumulative, BackToLoop, PcStates
  <2>2. OnTheWay(q)' \subseteq OnTheWay(q)
    BY <1>1, <1>3, <2>1
  <2>. QED  BY <1>2, <2>1, <2>2, FewerOnTheWay
<1>. QED  BY <1>4, <1>5

\* Waiting is taken from its head only.
LEMMA FeedCollect ==
    ASSUME OrderInv, RefusedInv, Collect, NEW q \in Probes
    PROVE  ProbeFeed(q)!FeedNext \/ UNCHANGED ProbeFeed(q)!feedVars
<1>. DEFINE e == Head(agg)
            extra == IF pc[q] \in {"lost", "closed"} THEN {made[q]} ELSE {}
<1>1. /\ agg # <<>> /\ agg' = Tail(agg) /\ held' = held /\ raw' = raw
      /\ taken' = [taken EXCEPT ![e.probe] = e.seq] /\ made' = made /\ pc' = pc
  BY DEF Collect, probeVars, consumerVars
<1>2. /\ TypeOK /\ Waiting \in Seq(Events) /\ agg \in Seq(Events)
      /\ taken \in [Probes -> Nat] /\ made \in [Probes -> Nat]
      /\ Ordered(Waiting) /\ Flow(Waiting, taken, made)
  BY WaitingType DEF OrderInv, Flow
<1>3. /\ Waiting # <<>> /\ Head(Waiting) = e /\ Tail(Waiting) = Waiting'
  BY <1>1, <1>2, WaitingType, TailOfJoin DEF Waiting
<1>4. /\ OnTheWay(q) = SeqsOf(Waiting, q) \cup extra
      /\ OnTheWay(q)' = SeqsOf(Waiting', q) \cup extra
  BY <1>1 DEF OnTheWay, SeqsOf
<1>5. e.probe \in Probes /\ e.seq \in Nat /\ e.seq <= made[e.probe]
  <2>1. 1 \in DOMAIN Waiting /\ Waiting[1] = e
    BY <1>2, <1>3, HeadTailProperties
  <2>. QED  BY <1>2, <2>1, EventFields DEF Flow
<1>. HIDE DEF e
<1>6. CASE e.probe # q
  <2>1. SeqsOf(Waiting', q) = SeqsOf(Waiting, q)
    BY <1>2, <1>3, <1>6, SeqsTail
  <2>2. taken'[q] = taken[q] /\ made'[q] = made[q]
    BY <1>1, <1>2, <1>6
  <2>3. OnTheWay(q)' \subseteq OnTheWay(q)
    BY <1>4, <2>1
  <2>. QED  BY <2>2, <2>3, FewerOnTheWay
<1>7. CASE e.probe = q
  <2>1. /\ e.seq \in SeqsOf(Waiting, q)
        /\ \A k \in SeqsOf(Waiting, q) : e.seq <= k
        /\ SeqsOf(Waiting', q) = SeqsOf(Waiting, q) \ {e.seq}
    BY <1>2, <1>3, <1>7, SeqsTail
  <2>2. taken'[q] = e.seq /\ made'[q] = made[q]
    BY <1>1, <1>2, <1>7
  <2>3. \A k \in OnTheWay(q) : e.seq <= k
    BY <1>4, <1>5, <1>7, <2>1
  <2>4. extra \cap {e.seq} = {}
    BY <2>1 DEF RefusedInv
  <2>5. OnTheWay(q)' = OnTheWay(q) \ {e.seq}
    BY <1>4, <2>1, <2>4
  <2>6. ProbeFeed(q)!PlaySnapshot
    BY <1>4, <2>1, <2>2, <2>3, <2>5 DEF ProbeFeed!PlaySnapshot
  <2>. QED  BY <2>6 DEF ProbeFeed!FeedNext
<1>. QED  BY <1>6, <1>7

LEMMA RefusedStep == OrderInv /\ RefusedInv /\ [Next]_vars => RefusedInv'
<1>. SUFFICES ASSUME OrderInv, RefusedInv, [Next]_vars, NEW q \in Probes,
                     pc'[q] \in {"lost", "closed"}
              PROVE  made'[q] \notin SeqsOf(Waiting, q)'
  BY DEF RefusedInv
<1>1. /\ TypeOK /\ TypeOK' /\ Waiting \in Seq(Events)
      /\ made \in [Probes -> Nat] /\ pc \in [Probes -> PcStates]
      /\ agg \in Seq(Events) /\ held \in Seq(Events) /\ raw \in Seq(Events)
      /\ raw' \in Seq(Events)
  BY TypeStep, WaitingType DEF OrderInv, TypeOK
<1>2. pc[q] \in {"lost", "closed"} => made[q] \notin SeqsOf(Waiting, q)
  BY DEF RefusedInv
<1>3. CASE UNCHANGED vars
  BY <1>2, <1>3 DEF vars, probeVars, consumerVars, aggregatorVars, Waiting
<1>4. CASE ConsumerStep \/ ShutDown \/ Tick \/ Publish \/ AudioCloses
  BY <1>1, <1>2, <1>4, WaitingShrinks
<1>5. CASE Collect
  <2>1. /\ agg # <<>> /\ agg' = Tail(agg) /\ held' = held /\ raw' = raw
        /\ made' = made /\ pc' = pc
    BY <1>5 DEF Collect, probeVars, consumerVars
  <2>2. Waiting # <<>> /\ Waiting' = Tail(Waiting) /\ Ordered(Waiting)
    BY <1>1, <2>1, WaitingType, TailOfJoin DEF Waiting, OrderInv, Flow
  <2>3. SeqsOf(Tail(Waiting), q) \subseteq SeqsOf(Waiting, q)
    BY <1>1, <2>2, SeqsTail
  <2>. QED  BY <1>2, <2>1, <2>2, <2>3
<1>6. ASSUME NEW p \in Probes, ProbeStep(p)
      PROVE  made'[q] \notin SeqsOf(Waiting, q)'
  <2>1. agg' = agg /\ held' = held
    BY <1>6 DEF ProbeStep, LoopHead, Cycle, Emit, Refuse, FindClosed, CountSent,
         CountLost, CountCumulative, consumerVars, aggregatorVars
  <2>2. CASE Emit(p)
    <3>1. /\ raw' = Append(raw, NextEvent(p)) /\ p # q
          /\ pc'[q] = pc[q] /\ made'[q] = made[q]
      BY <1>1, <2>2 DEF Emit, Make
    <3>2. SeqsOf(raw', q) = SeqsOf(raw, q)
      <4>1. NextEvent(p) \in Events /\ raw \in Seq(Events)
        BY <1>1, <1>6, NextEventType
      <4>2. NextEvent(p).probe = p
        BY DEF NextEvent
      <4>3. SeqsOf(Append(raw, NextEvent(p)), q)
                = SeqsOf(raw, q) \cup IF NextEvent(p).probe = q
                                      THEN {NextEvent(p).seq} ELSE {}
        BY <4>1, SeqsAppend
      <4>. QED  BY <3>1, <4>2, <4>3
    <3>3. SeqsOf(Waiting, q)' = SeqsOf(Waiting, q)
      <4>1. SeqsOf(Waiting, q)
                = SeqsOf(agg, q) \cup SeqsOf(held, q) \cup SeqsOf(raw, q)
        BY <1>1, SeqsThree DEF Waiting
      <4>2. SeqsOf(agg \o (held \o raw'), q)
                = SeqsOf(agg, q) \cup SeqsOf(held, q) \cup SeqsOf(raw', q)
        BY <1>1, SeqsThree
      <4>. QED  BY <2>1, <3>2, <4>1, <4>2 DEF Waiting
    <3>. QED  BY <1>2, <3>1, <3>3
  <2>3. CASE ~Emit(p)
    <3>1. Waiting' = Waiting
      BY <1>6, <2>1, <2>3 DEF ProbeStep, LoopHead, Cycle, Refuse, FindClosed,
           CountSent, CountLost, CountCumulative, Waiting
    <3>2. CASE p = q /\ (Refuse(p) \/ FindClosed(p))
      <4>1. made'[q] = made[q] + 1
        BY <1>1, <3>2 DEF Refuse, FindClosed, Make
      <4>2. \A i \in DOMAIN Waiting : Waiting[i].probe = q => Waiting[i].seq <= made[q]
        BY DEF OrderInv, Flow
      <4>3. \A k \in SeqsOf(Waiting, q) : k <= made[q]
        BY <4>2 DEF SeqsOf
      <4>. QED  BY <1>1, <3>1, <4>1, <4>3
    <3>3. CASE ~(p = q /\ (Refuse(p) \/ FindClosed(p)))
      <4>1. pc[q] = pc'[q] /\ made'[q] = made[q]
        BY <1>1, <1>6, <2>3, <3>3 DEF ProbeStep, LoopHead, Cycle, Refuse,
             FindClosed, CountSent, CountLost, CountCumulative, BackToLoop, Make
      <4>. QED  BY <1>2, <3>1, <4>1
    <3>. QED  BY <3>2, <3>3
  <2>. QED  BY <2>2, <2>3
<1>. QED  BY <1>3, <1>4, <1>5, <1>6 DEF Next

LEMMA FeedStep == OrderInv /\ RefusedInv /\ [Next]_vars => FeedSteps
<1>. SUFFICES ASSUME OrderInv, RefusedInv, [Next]_vars, NEW q \in Probes
              PROVE  ProbeFeed(q)!FeedNext \/ UNCHANGED ProbeFeed(q)!feedVars
  BY DEF FeedSteps
<1>1. CASE UNCHANGED vars
  <2>1. pc' = pc /\ made' = made /\ taken' = taken /\ Waiting' = Waiting
    BY <1>1 DEF vars, probeVars, consumerVars, aggregatorVars, windowHistory, Waiting
  <2>2. OnTheWay(q)' = OnTheWay(q)
    BY <2>1 DEF OnTheWay, SeqsOf
  <2>. QED  BY <2>1, <2>2, FewerOnTheWay
<1>2. TypeOK /\ TypeOK'
  BY TypeStep DEF OrderInv
<1>. QED  BY <1>1, <1>2, FeedProbe, FeedCollect, FeedOthers DEF Next, ConsumerStep

\* The events of every probe are fed to the windows in the order in which they
\* were made, each at most once and each the oldest on its way, whatever the
\* capacities of the two channels and whichever task ends.
THEOREM ProbesAreFed == Spec => EventsAreFed
<1>1. Init => RefusedInv /\ \A p \in Probes : ProbeFeed(p)!FeedInit
  <2>. SUFFICES ASSUME Init, NEW p \in Probes
                PROVE  /\ pc[p] \notin {"lost", "closed"}
                       /\ ProbeFeed(p)!FeedInit
    BY DEF RefusedInv
  <2>1. /\ pc[p] = "head" /\ made[p] = 0 /\ taken[p] = 0 /\ Waiting = <<>>
    BY DEF Init, Waiting
  <2>2. OnTheWay(p) = {}
    BY <2>1 DEF OnTheWay, SeqsOf
  <2>. QED  BY <2>1, <2>2 DEF ProbeFeed!FeedInit
<1>. QED  BY <1>1, OrderInit, OrderStep, RefusedStep, FeedStep, PTL
             DEF Spec, EventsAreFed
---------------------------------------------------------------------------
(* Shutdown.                                                               *)

ShutInv ==
    /\ TypeOK
    /\ \A p \in Simulated :
           \/ after[p] = 0
           \/ after[p] = 1 /\ shutdown /\ pc[p] \notin {"armed", "drain"}

LEMMA ShutStep == ShutInv /\ [Next]_vars => ShutInv'
<1>. SUFFICES ASSUME ShutInv, [Next]_vars PROVE ShutInv'
  OBVIOUS
<1>1. TypeOK /\ TypeOK'
  BY TypeStep DEF ShutInv
<1>. SUFFICES ASSUME NEW q \in Simulated
              PROVE  \/ after'[q] = 0
                      \/ /\ after'[q] = 1 /\ shutdown'
                         /\ pc'[q] \notin {"armed", "drain"}
  BY <1>1 DEF ShutInv
<1>3. q \in Probes /\ pc \in [Probes -> PcStates] /\ after \in [Probes -> Nat]
  BY <1>1 DEF TypeOK, Probes
<1>4. \/ after[q] = 0
      \/ after[q] = 1 /\ shutdown /\ pc[q] \notin {"armed", "drain"}
  BY DEF ShutInv
<1>5. ASSUME NEW p \in Probes, ProbeStep(p)
      PROVE  \/ after'[q] = 0
             \/ after'[q] = 1 /\ shutdown' /\ pc'[q] \notin {"armed", "drain"}
  <2>1. CASE LoopHead(p)
    BY <1>3, <1>4, <2>1 DEF LoopHead, KeepsRunning
  <2>2. CASE Cycle(p)
    <3>1. pc[p] \in {"armed", "drain"}
      BY <2>2 DEF Cycle
    <3>. QED  BY <1>3, <1>4, <2>2, <3>1 DEF Cycle
  <2>3. CASE Emit(p) \/ Refuse(p) \/ FindClosed(p)
    <3>1. pc[p] \in {"armed", "drain"} /\ shutdown' = shutdown /\ Make(p)
      BY <2>3 DEF Emit, Refuse, FindClosed, HasEvent
    <3>2. /\ pc'[p] \in {"sent", "lost", "closed"}
          /\ \A r \in Probes \ {p} : pc'[r] = pc[r]
      BY <1>3, <2>3 DEF Emit, Refuse, FindClosed, Refused
    <3>3. CASE shutdown
      BY <1>3, <1>4, <3>1, <3>2, <3>3 DEF Make
    <3>4. CASE ~shutdown
      BY <1>3, <1>4, <3>1, <3>2, <3>4 DEF Make
    <3>. QED  BY <3>3, <3>4
  <2>4. CASE CountSent(p) \/ CountLost(p) \/ CountCumulative(p)
    <3>1. after' = after /\ shutdown' = shutdown
      BY <2>4 DEF CountSent, CountLost, CountCumulative
    <3>2. pc'[q] \in {pc[q], "head", "lostCum"}
      BY <1>3, <2>4 DEF CountSent, CountLost, CountCumulative, BackToLoop
    <3>. QED  BY <1>4, <3>1, <3>2
  <2>. QED  BY <1>5, <2>1, <2>2, <2>3, <2>4 DEF ProbeStep
<1>6. CASE ~\E p \in Probes : ProbeStep(p)
  <2>1. after' = after /\ pc' = pc /\ (shutdown => shutdown')
    BY <1>6 DEF Next, ShutDown, ConsumerStep, Receive, Forward, Drop,
                ConsumerStops, Collect, Tick, Publish, AudioCloses,
                vars, probeVars
  <2>. QED  BY <1>4, <2>1
<1>. QED  BY <1>5, <1>6

\* After the shutdown flag is set a simulated probe makes at most the event
\* of the tick it was already waiting for.
THEOREM ShutdownBounded == Spec => []ShutdownBound
<1>1. Init => ShutInv
  BY TypeInit DEF Init, ShutInv, Probes
<1>2. ShutInv => ShutdownBound
  BY DEF ShutInv, ShutdownBound
<1>. QED  BY <1>1, <1>2, ShutStep, PTL DEF Spec
---------------------------------------------------------------------------
(* The end of the tasks.                                                   *)

OtherTasks == {"consumer", "aggregator", "mapper"}

\* Which tasks have ended, task by task.
LEMMA EndedByState ==
    /\ \A p \in Probes : p \in EndedTasks <=> pc[p] \in {"done", "closed"}
    /\ "consumer" \in EndedTasks <=> consumer = "done"
    /\ "aggregator" \in EndedTasks <=> aggregator = "done"
    /\ "mapper" \in EndedTasks <=> audio = "closed"
    /\ EndedTasks \subseteq Probes \cup OtherTasks
BY ConstantsAssumption DEF EndedTasks, ProbesEnded, OtherTasks

\* One task more has ended, and it was one that might: a step of the cascade.
LEMMA OneMoreEnds ==
    ASSUME NEW t \in Probes \cup OtherTasks, t \notin EndedTasks,
           EndedTasks' = EndedTasks \cup {t},
           t \in MayEndNow \/ TaskCascade!FindsClosed(t)
    PROVE  TaskCascade!CascadeNext
<1>1. TaskCascade!TaskEnds(t)
  BY DEF TaskCascade!TaskEnds, OtherTasks
<1>. QED  BY <1>1 DEF TaskCascade!CascadeNext, OtherTasks

LEMMA CascadeProbe ==
    ASSUME TypeOK, NEW p \in Probes, ProbeStep(p)
    PROVE  TaskCascade!CascadeNext \/ EndedTasks' = EndedTasks
<1>1. /\ UNCHANGED <<consumer, aggregator, audio>>
      /\ \A q \in Probes \ {p} : pc'[q] = pc[q]
      /\ pc[p] \notin {"done", "closed"}
  BY DEF TypeOK, ProbeStep, LoopHead, Cycle, Emit, Refuse, FindClosed, HasEvent,
         CountSent, CountLost, CountCumulative, consumerVars, aggregatorVars
<1>2. CASE pc'[p] \notin {"done", "closed"}
  BY <1>1, <1>2 DEF EndedTasks, ProbesEnded
<1>3. CASE pc'[p] \in {"done", "closed"}
  <2>1. EndedTasks' = EndedTasks \cup {p}
    BY <1>1, <1>3 DEF EndedTasks, ProbesEnded
  <2>2. p \notin EndedTasks
    BY <1>1, EndedByState
  <2>3. \/ p \in Ebpf \/ shutdown
        \/ p \in Simulated /\ consumer = "done"
    BY <1>1, <1>3 DEF TypeOK, ProbeStep, LoopHead, KeepsRunning, Cycle, Emit,
         Refuse, Refused, FindClosed, RawOpen, CountSent, CountLost,
         CountCumulative, BackToLoop
  <2>4. p \in MayEndNow \/ TaskCascade!FindsClosed(p)
    BY <2>3, EndedByState DEF MayEndNow, TaskCascade!FindsClosed, Probes
  <2>. QED  BY <2>1, <2>2, <2>4, OneMoreEnds
<1>. QED  BY <1>2, <1>3

LEMMA CascadeStep == TypeOK /\ [Next]_vars => [TaskCascade!CascadeNext]_EndedTasks
<1>. SUFFICES ASSUME TypeOK, [Next]_vars
              PROVE  TaskCascade!CascadeNext \/ EndedTasks' = EndedTasks
  OBVIOUS
<1>1. CASE ConsumerStops
  <2>1. /\ consumer = "forward" /\ consumer' = "done" /\ aggregator = "done"
        /\ UNCHANGED <<pc, aggregator, audio>>
    BY <1>1 DEF ConsumerStops, AggOpen, probeVars, aggregatorVars
  <2>2. EndedTasks' = EndedTasks \cup {"consumer"}
    BY <2>1 DEF EndedTasks, ProbesEnded
  <2>3. TaskCascade!FindsClosed("consumer") /\ "consumer" \notin EndedTasks
    BY <2>1, EndedByState DEF TaskCascade!FindsClosed
  <2>. QED  BY <2>2, <2>3, OneMoreEnds DEF OtherTasks
<1>2. CASE Publish /\ audio # "open"
  <2>1. /\ aggregator = "publish" /\ aggregator' = "done" /\ audio = "closed"
        /\ UNCHANGED <<pc, consumer, audio>>
    BY <1>2 DEF TypeOK, Publish, probeVars, consumerVars
  <2>2. EndedTasks' = EndedTasks \cup {"aggregator"}
    BY <2>1 DEF EndedTasks, ProbesEnded
  <2>3. TaskCascade!FindsClosed("aggregator") /\ "aggregator" \notin EndedTasks
    BY <2>1, EndedByState DEF TaskCascade!FindsClosed
  <2>. QED  BY <2>2, <2>3, OneMoreEnds DEF OtherTasks
<1>3. CASE AudioCloses
  <2>1. audio = "open" /\ audio' = "closed" /\ UNCHANGED <<pc, consumer, aggregator>>
    BY <1>3 DEF AudioCloses, probeVars, consumerVars
  <2>2. EndedTasks' = EndedTasks \cup {"mapper"}
    BY <2>1 DEF EndedTasks, ProbesEnded
  <2>3. "mapper" \in MayEndNow /\ "mapper" \notin EndedTasks
    BY <2>1, EndedByState DEF MayEndNow
  <2>. QED  BY <2>2, <2>3, OneMoreEnds DEF OtherTasks
<1>4. CASE ~ConsumerStops /\ ~(Publish /\ audio # "open") /\ ~AudioCloses
           /\ ~\E p \in Probes : ProbeStep(p)
  <2>1. UNCHANGED <<pc, consumer = "done", aggregator = "done", audio>>
    BY <1>4 DEF Next, ConsumerStep, ShutDown, Receive, Forward, Drop, Collect,
         Tick, Publish, vars, probeVars, consumerVars, aggregatorVars
  <2>. QED  BY <2>1 DEF EndedTasks, ProbesEnded
<1>. QED  BY <1>1, <1>2, <1>3, <1>4, CascadeProbe

\* The probes, the consumer and the aggregator end as the cascade has it, for
\* any number of probes: none because a channel was full.
THEOREM TasksEndInCascade == Spec => EndsInCascade
<1>1. Init => TaskCascade!CascadeInit
  BY DEF Init, EndedTasks, ProbesEnded, TaskCascade!CascadeInit
<1>. QED  BY <1>1, TypeInit, TypeStep, CascadeStep, PTL
             DEF Spec, EndsInCascade, TaskCascade!CascadeSpec
---------------------------------------------------------------------------
(* Staleness, with a counter that overflows.                               *)

\* What the remembered bits say of the windows before the last one.
LEMMA RememberSilent ==
    ASSUME recent \in Seq(BOOLEAN), Len(recent) <= CounterMax + 1,
           NEW bit \in BOOLEAN, recent' = Remember(recent, bit),
           NEW n \in 1 .. CounterMax + 1
    PROVE  Silent(n)' <=> bit /\ Silent(n - 1)
<1>1. CounterMax \in Nat /\ n \in Nat /\ Len(recent) \in Nat
  BY ConstantsAssumption
<1>2. /\ Len(recent') >= n <=> Len(recent) >= n - 1
      /\ Len(recent') >= n =>
            \A i \in 0 .. n - 1 :
               recent'[Len(recent') - i] =
                   IF i = 0 THEN bit ELSE recent[Len(recent) - (i - 1)]
  <2>1. CASE Len(recent) <= CounterMax
    <3>1. recent' = Append(recent, bit)
      BY <2>1 DEF Remember
    <3>2. /\ Len(recent') = Len(recent) + 1
          /\ recent'[Len(recent) + 1] = bit
          /\ \A j \in 1 .. Len(recent) : recent'[j] = recent[j]
      BY <3>1, AppendProperties
    <3>. QED  BY <1>1, <3>2
  <2>2. CASE Len(recent) = CounterMax + 1
    <3>1. recent' = Append(Tail(recent), bit) /\ recent # <<>>
      BY <1>1, <2>2 DEF Remember
    <3>2. /\ Tail(recent) \in Seq(BOOLEAN)
          /\ Len(Tail(recent)) = Len(recent) - 1
          /\ \A j \in 1 .. Len(recent) - 1 : Tail(recent)[j] = recent[j + 1]
      BY <3>1
    <3>3. /\ Len(recent') = Len(recent)
          /\ recent'[Len(recent)] = bit
          /\ \A j \in 1 .. Len(recent) - 1 : recent'[j] = Tail(recent)[j]
      BY <1>1, <2>2, <3>1, <3>2, AppendProperties
    <3>4. \A j \in 1 .. Len(recent) - 1 : recent'[j] = recent[j + 1]
      BY <3>2, <3>3
    <3>. QED  BY <1>1, <2>2, <3>3, <3>4
  <2>. QED  BY <1>1, <2>1, <2>2
<1>3. ASSUME Len(recent') >= n
      PROVE  (\A i \in 0 .. n - 1 : recent'[Len(recent') - i])
                 <=> bit /\ \A i \in 0 .. n - 2 : recent[Len(recent) - i]
  <2>1. ASSUME bit, \A i \in 0 .. n - 2 : recent[Len(recent) - i],
               NEW i \in 0 .. n - 1
        PROVE  recent'[Len(recent') - i]
    <3>1. CASE i = 0
      BY <1>2, <1>3, <2>1, <3>1
    <3>2. CASE i # 0
      <4>1. i - 1 \in 0 .. n - 2
        BY <1>1, <3>2
      <4>. QED  BY <1>2, <1>3, <2>1, <3>2, <4>1
    <3>. QED  BY <3>1, <3>2
  <2>2. ASSUME \A i \in 0 .. n - 1 : recent'[Len(recent') - i]
        PROVE  bit
    <3>1. 0 \in 0 .. n - 1
      BY <1>1
    <3>. QED  BY <1>2, <1>3, <2>2, <3>1
  <2>3. ASSUME \A i \in 0 .. n - 1 : recent'[Len(recent') - i],
               NEW i \in 0 .. n - 2
        PROVE  recent[Len(recent) - i]
    <3>1. i + 1 \in 0 .. n - 1 /\ i + 1 # 0 /\ (i + 1) - 1 = i
      BY <1>1
    <3>. QED  BY <1>2, <1>3, <2>3, <3>1
  <2>. QED  BY <2>1, <2>2, <2>3
<1>4. n - 1 - 1 = n - 2
  BY <1>1
<1>. QED  BY <1>2, <1>3, <1>4 DEF Silent

\* The counter counts the remembered silence until it overflows.
Counts(n) == ~Silent(CounterMax + 1) =>
                 /\ n \in 0 .. CounterMax
                 /\ \A k \in 1 .. CounterMax : Silent(k) <=> k <= n
StaleInv ==
    /\ TypeOK /\ Len(recent) <= CounterMax + 1
    /\ aggregator = "select" =>
          /\ Counts(emptyWindows)
          /\ recent # <<>> => shared.stale = IsStale(emptyWindows)
    /\ aggregator = "publish" =>
          /\ inHand.stale = IsStale(emptyWindows)
          /\ window # <<>> => emptyWindows = 0
          /\ window = <<>> =>
                (~Silent(CounterMax) =>
                    /\ emptyWindows \in 1 .. CounterMax
                    /\ \A k \in 1 .. CounterMax : Silent(k) <=> k < emptyWindows)

\* A silence of n windows is one of fewer.
LEMMA SilentLess ==
    ASSUME NEW n \in Nat, Silent(n + 1)
    PROVE  Silent(n)
BY DEF Silent

LEMMA StaleInit == Init => StaleInv
<1>. SUFFICES ASSUME Init PROVE StaleInv
  OBVIOUS
<1>1. recent = <<>> /\ emptyWindows = 0 /\ aggregator = "select" /\ Len(recent) = 0
  BY DEF Init
<1>2. CounterMax \in Nat
  BY ConstantsAssumption
<1>3. \A k \in Nat \ {0} : ~Silent(k)
  BY <1>1 DEF Silent
<1>. QED  BY <1>1, <1>2, <1>3, TypeInit DEF StaleInv, Counts

LEMMA StaleTick == StaleInv /\ Tick /\ TypeOK' => StaleInv'
<1>. SUFFICES ASSUME StaleInv, Tick, TypeOK' PROVE StaleInv'
  OBVIOUS
<1>1. /\ aggregator = "select" /\ aggregator' = "publish"
      /\ emptyWindows' = EmptyAfterTick
      /\ inHand'.stale = IsStale(EmptyAfterTick)
      /\ UNCHANGED <<window, recent>>
  BY DEF Tick, windowHistory
<1>2. /\ CounterMax \in Nat /\ CounterMax >= 1
  BY ConstantsAssumption
<1>3. window # <<>> => emptyWindows' = 0
  BY <1>1 DEF EmptyAfterTick
<1>4. ASSUME window = <<>>, ~Silent(CounterMax)
      PROVE  /\ emptyWindows' \in 1 .. CounterMax
             /\ \A k \in 1 .. CounterMax : Silent(k) <=> k < emptyWindows'
  <2>1. ~Silent(CounterMax + 1)
    BY <1>2, <1>4, SilentLess
  <2>2. /\ emptyWindows \in 0 .. CounterMax
        /\ \A k \in 1 .. CounterMax : Silent(k) <=> k <= emptyWindows
    BY <1>1, <2>1 DEF StaleInv, Counts
  <2>3. emptyWindows < CounterMax
    BY <1>2, <1>4, <2>2
  <2>4. emptyWindows' = emptyWindows + 1
    BY <1>1, <1>2, <1>4, <2>2, <2>3 DEF EmptyAfterTick, WrapI32
  <2>. QED  BY <1>2, <2>2, <2>3, <2>4
<1>5. \A k : Silent(k)' <=> Silent(k)
  BY <1>1 DEF Silent
<1>. QED  BY <1>1, <1>3, <1>4, <1>5 DEF StaleInv, IsStale

LEMMA StalePublish == StaleInv /\ Publish /\ TypeOK' => StaleInv'
<1>. SUFFICES ASSUME StaleInv, Publish, TypeOK' PROVE StaleInv'
  OBVIOUS
<1>1. /\ aggregator = "publish" /\ aggregator' \in {"select", "done"}
      /\ shared' = inHand /\ emptyWindows' = emptyWindows
      /\ recent' = Remember(recent, window = <<>>)
  BY DEF Publish
<1>2. /\ CounterMax \in Nat /\ CounterMax >= 1
      /\ recent \in Seq(BOOLEAN) /\ Len(recent) <= CounterMax + 1
      /\ (window = <<>>) \in BOOLEAN
  BY ConstantsAssumption DEF StaleInv, TypeOK
<1>3. Len(recent') <= CounterMax + 1
  <2>1. CASE Len(recent) <= CounterMax
    BY <1>1, <1>2, <2>1, AppendProperties DEF Remember
  <2>2. CASE Len(recent) = CounterMax + 1
    <3>1. Tail(recent) \in Seq(BOOLEAN) /\ Len(Tail(recent)) = Len(recent) - 1
      BY <1>2, <2>2
    <3>2. recent' = Append(Tail(recent), window = <<>>)
      BY <1>1, <1>2, <2>2 DEF Remember
    <3>. QED  BY <1>2, <2>2, <3>1, <3>2, AppendProperties
  <2>. QED  BY <1>2, <2>1, <2>2
<1>4. \A n \in 1 .. CounterMax + 1 :
          Silent(n)' <=> window = <<>> /\ Silent(n - 1)
  BY <1>1, <1>2, RememberSilent
<1>5. Counts(emptyWindows)'
  <2>1. SUFFICES ASSUME ~Silent(CounterMax + 1)'
                 PROVE  /\ emptyWindows' \in 0 .. CounterMax
                        /\ \A k \in 1 .. CounterMax : Silent(k)' <=> k <= emptyWindows'
    BY DEF Counts
  <2>2. CASE window # <<>>
    <3>1. emptyWindows' = 0
      BY <1>1, <2>2 DEF StaleInv
    <3>2. \A k \in 1 .. CounterMax : ~Silent(k)'
      BY <1>2, <1>4, <2>2
    <3>. QED  BY <1>2, <3>1, <3>2
  <2>3. CASE window = <<>>
    <3>1. ~Silent(CounterMax)
      <4>1. CounterMax + 1 \in 1 .. CounterMax + 1 /\ (CounterMax + 1) - 1 = CounterMax
        BY <1>2
      <4>. QED  BY <1>4, <2>1, <2>3, <4>1
    <3>2. /\ emptyWindows \in 1 .. CounterMax
          /\ \A k \in 1 .. CounterMax : Silent(k) <=> k < emptyWindows
      BY <1>1, <2>3, <3>1 DEF StaleInv
    <3>3. ASSUME NEW k \in 1 .. CounterMax
          PROVE  Silent(k)' <=> k <= emptyWindows'
      <4>1. Silent(k)' <=> Silent(k - 1)
        BY <1>2, <1>4, <2>3
      <4>2. CASE k = 1
        <5>1. Silent(k - 1)
          BY <1>2, <4>2 DEF Silent
        <5>. QED  BY <1>1, <3>2, <4>1, <4>2, <5>1
      <4>3. CASE k # 1
        <5>1. k - 1 \in 1 .. CounterMax
          BY <1>2, <4>3
        <5>2. Silent(k - 1) <=> k - 1 < emptyWindows
          BY <3>2, <5>1
        <5>. QED  BY <1>1, <1>2, <3>2, <4>1, <5>2
      <4>. QED  BY <4>2, <4>3
    <3>. QED  BY <1>1, <1>2, <3>2, <3>3
  <2>. QED  BY <2>2, <2>3
<1>6. shared'.stale = IsStale(emptyWindows')
  BY <1>1 DEF StaleInv
<1>. QED  BY <1>1, <1>3, <1>5, <1>6 DEF StaleInv, IsStale

LEMMA StaleStep == StaleInv /\ [Next]_vars => StaleInv'
<1>. SUFFICES ASSUME StaleInv, [Next]_vars PROVE StaleInv'
  OBVIOUS
<1>1. TypeOK'
  BY TypeStep DEF StaleInv
<1>2. CASE Tick \/ Publish
  BY <1>1, <1>2, StaleTick, StalePublish
<1>3. CASE ~Tick /\ ~Publish
  <2>1. /\ UNCHANGED <<aggregator, emptyWindows, inHand, shared, recent>>
        /\ aggregator = "publish" => window' = window
    BY <1>3 DEF Next, ProbeStep, LoopHead, Cycle, Emit, Refuse, FindClosed,
         CountSent, CountLost, CountCumulative, ShutDown, ConsumerStep, Receive,
         Forward, Drop, ConsumerStops, Collect, AudioCloses, vars,
         aggregatorVars, windowHistory
  <2>2. \A k : Silent(k)' <=> Silent(k)
    BY <2>1 DEF Silent
  <2>. QED  BY <1>1, <2>1, <2>2 DEF StaleInv, Counts
<1>. QED  BY <1>2, <1>3

\* Staleness is exact for every number of windows that makes stale and every
\* width of the counter, up to the silence that overflows it, and again after
\* the event that ends that silence.
THEOREM StalenessExact == Spec => []StaleExact
<1>1. ASSUME StaleInv PROVE StaleExact
  <2>. SUFFICES ASSUME aggregator = "select", recent # <<>>, ~Silent(CounterMax + 1)
                PROVE  shared.stale <=> Silent(StaleAfter)
    BY DEF StaleExact
  <2>1. shared.stale = IsStale(emptyWindows) /\ Counts(emptyWindows)
    BY <1>1 DEF StaleInv
  <2>2. StaleAfter \in 1 .. CounterMax
    BY ConstantsAssumption
  <2>3. Silent(StaleAfter) <=> StaleAfter <= emptyWindows
    BY <2>1, <2>2 DEF Counts
  <2>4. emptyWindows \in 0 .. CounterMax /\ StaleAfter \in Nat /\ CounterMax \in Nat
    BY <2>1, ConstantsAssumption DEF Counts
  <2>. QED  BY <2>1, <2>3, <2>4 DEF IsStale
<1>. QED  BY <1>1, StaleInit, StaleStep, PTL DEF Spec
=============================================================================
