-------------------------- MODULE AudioPathProofs --------------------------
(***************************************************************************)
(* What AudioPath guarantees for every set of rules and backends, every    *)
(* capacity and every bound: its types, that it implements SnapshotFeed,   *)
(* that the latency it reports is never more than the true one, that its   *)
(* tasks end one another as Cascade has it, and how far it may lag behind  *)
(* the shared rules and backends.                                          *)
(***************************************************************************)
EXTENDS AudioPath, SequenceTheorems, FiniteSetTheorems, TLAPS

---------------------------------------------------------------------------
(* The queue operations.                                                   *)

LEMMA EmptyQueue ==
    ASSUME NEW S
    PROVE  <<>> \in Seq(S) /\ Len(<<>>) = 0
OBVIOUS

LEMMA OneElement ==
    ASSUME NEW S, NEW e \in S
    PROVE  <<e>> \in Seq(S) /\ Len(<<e>>) = 1
OBVIOUS

LEMMA TheElement ==
    ASSUME NEW S, NEW s \in Seq(S), Len(s) = 1
    PROVE  s[1] \in S /\ s = <<s[1]>>
<1>1. s[1] \in S
  OBVIOUS
<1>2. s = <<s[1]>>
  OBVIOUS
<1>. QED  BY <1>1, <1>2

\* What the tasks hold between receiving and sending.
LEMMA Holding ==
    ASSUME TypeOK
    PROVE  /\ aggregator = "send" => /\ building[1] \in Snapshots
                                     /\ building = <<building[1]>>
           /\ aggregator # "send" => building = <<>>
           /\ mapper = "send" => /\ inMapper[1] \in Frames
                                 /\ inMapper = <<inMapper[1]>>
           /\ mapper # "send" => inMapper = <<>>
           /\ dispatcher = "fan" => /\ frame[1] \in Frames
                                    /\ frame = <<frame[1]>>
           /\ dispatcher # "fan" => frame = <<>>
<1>1. /\ building \in Seq(Snapshots)
      /\ Len(building) = IF aggregator = "send" THEN 1 ELSE 0
  BY DEF TypeOK
<1>2. /\ inMapper \in Seq(Frames)
      /\ Len(inMapper) = IF mapper = "send" THEN 1 ELSE 0
  BY DEF TypeOK
<1>3. /\ frame \in Seq(Frames)
      /\ Len(frame) = IF dispatcher = "fan" THEN 1 ELSE 0
  BY DEF TypeOK
<1>4. /\ aggregator = "send" => /\ building[1] \in Snapshots
                                /\ building = <<building[1]>>
      /\ aggregator # "send" => building = <<>>
  BY <1>1, TheElement
<1>5. /\ mapper = "send" => /\ inMapper[1] \in Frames
                            /\ inMapper = <<inMapper[1]>>
      /\ mapper # "send" => inMapper = <<>>
  BY <1>2, TheElement
<1>6. /\ dispatcher = "fan" => /\ frame[1] \in Frames
                               /\ frame = <<frame[1]>>
      /\ dispatcher # "fan" => frame = <<>>
  BY <1>3, TheElement
<1>. QED  BY <1>4, <1>5, <1>6

LEMMA AddType ==
    ASSUME NEW S, NEW s \in Seq(S), NEW e \in S
    PROVE  Append(s, e) \in Seq(S) /\ Len(Append(s, e)) = Len(s) + 1
BY AppendProperties

LEMMA TakeType ==
    ASSUME NEW S, NEW s \in Seq(S), s # <<>>
    PROVE  /\ Head(s) \in S /\ Tail(s) \in Seq(S)
           /\ Len(Tail(s)) = Len(s) - 1 /\ Len(s) \in Nat
BY HeadTailProperties

\* A list of backends is a sequence of identifiers that are in some list.
LEMMA ListType ==
    ASSUME NEW list \in BackendLists
    PROVE  list \in Seq(BackendIds)
<1>1. list \in Seq(RangeOf(list))
  BY AudioAssumption
<1>2. RangeOf(list) \subseteq BackendIds
  BY DEF BackendIds
<1>. QED  BY <1>1, <1>2

---------------------------------------------------------------------------
(* Types.                                                                  *)

LEMMA TypeInit == Init => TypeOK
<1>. SUFFICES ASSUME Init PROVE TypeOK
  OBVIOUS
<1>1. /\ now \in Nat /\ setBack \in BOOLEAN
      /\ ticks \in Nat /\ stamp \in Nat
      /\ rules \in RuleSets /\ backends \in BackendLists
      /\ played \in Nat /\ reloads \in Nat /\ stalePlayed \in Nat
  BY AudioAssumption DEF Init
<1>2. /\ aggregator = "wait" /\ mapper = "recv" /\ dispatcher = "recv"
      /\ strays \in [BackendIds -> Nat] /\ seen \in [BackendIds -> Nat]
      /\ observed \in [actual : Int, shown : Nat]
  BY DEF Init
<1>3. /\ building = <<>> /\ snaps = <<>> /\ inMapper = <<>> /\ params = <<>>
      /\ frame = <<>> /\ left = <<>>
  BY DEF Init
<1>4. SnapCap \in Nat /\ ParamCap \in Nat
  BY AudioAssumption
<1>. QED  BY <1>1, <1>2, <1>3, <1>4, EmptyQueue DEF TypeOK

LEMMA TypeTick ==
    ASSUME TypeOK, TickStart \/ TickSend
    PROVE  TypeOK'
<1>. USE DEF clockVars, mapVars, oscVars, configVars, history
<1>1. CASE TickStart
  <2>1. /\ ticks' \in Nat /\ stamp' \in Nat /\ aggregator' = "send"
    BY <1>1 DEF TypeOK, TickStart, StampAtTick
  <2>2. [id |-> ticks + 1, ts |-> now] \in Snapshots
    BY DEF TypeOK, Snapshots
  <2>3. building' \in Seq(Snapshots) /\ Len(building') = 1
    BY <1>1, <2>2, OneElement DEF TickStart
  <2>. QED  BY <1>1, <2>1, <2>3 DEF TypeOK, TickStart
<1>2. CASE TickSend
  <2>1. /\ aggregator = "send" /\ building' = <<>>
        /\ \/ /\ Len(snaps) < SnapCap /\ aggregator' = "wait"
              /\ snaps' = Append(snaps, building[1])
           \/ snaps' = snaps /\ aggregator' \in {"wait", "done"}
    BY <1>2 DEF TickSend, HasRoom, Queued
  <2>2. building[1] \in Snapshots /\ snaps \in Seq(Snapshots)
    BY <2>1, Holding DEF TypeOK
  <2>3. /\ Append(snaps, building[1]) \in Seq(Snapshots)
        /\ Len(Append(snaps, building[1])) = Len(snaps) + 1
    BY <2>2, AddType
  <2>4. /\ snaps' \in Seq(Snapshots) /\ Len(snaps') <= SnapCap
        /\ aggregator' \in {"wait", "done"}
    <3>1. SnapCap \in Nat /\ Len(snaps) \in Nat /\ Len(snaps) <= SnapCap
      BY <2>2, AudioAssumption DEF TypeOK
    <3>2. CASE snaps' = snaps /\ aggregator' \in {"wait", "done"}
      BY <2>2, <3>1, <3>2
    <3>3. CASE /\ Len(snaps) < SnapCap /\ aggregator' = "wait"
               /\ snaps' = Append(snaps, building[1])
      <4>1. /\ snaps' \in Seq(Snapshots) /\ Len(snaps') = Len(snaps) + 1
            /\ Len(snaps) < SnapCap
        BY <2>3, <3>3
      <4>. QED  BY <3>1, <3>3, <4>1
    <3>. QED  BY <2>1, <3>2, <3>3
  <2>5. building' \in Seq(Snapshots) /\ Len(building') = 0
    BY <2>1, EmptyQueue
  <2>. QED  BY <1>2, <2>4, <2>5 DEF TypeOK, TickSend
<1>. QED  BY <1>1, <1>2

LEMMA TypeMapper ==
    ASSUME TypeOK, Mapper
    PROVE  TypeOK'
<1>. USE DEF clockVars, tickVars, oscVars, configVars, history
<1>1. CASE MapSnapshot
  <2>1. snaps # <<>> /\ snaps' = Tail(snaps) /\ mapper' = "send"
    BY <1>1 DEF MapSnapshot
  <2>2. /\ Head(snaps) \in Snapshots /\ Tail(snaps) \in Seq(Snapshots)
        /\ Len(Tail(snaps)) <= SnapCap
    <3>1. /\ Head(snaps) \in Snapshots /\ Tail(snaps) \in Seq(Snapshots)
          /\ Len(Tail(snaps)) = Len(snaps) - 1 /\ Len(snaps) \in Nat
      BY <2>1, TakeType DEF TypeOK
    <3>. QED  BY <3>1, AudioAssumption DEF TypeOK
  <2>3. [id |-> Head(snaps).id, ts |-> Head(snaps).ts,
         epoch |-> RulesInForce, empty |-> rules \in Mute] \in Frames
    <3>1. (rules \in Mute) \in BOOLEAN
      OBVIOUS
    <3>2. reloads \in Nat
      BY DEF TypeOK
    <3>3. Head(snaps).id \in Nat /\ Head(snaps).ts \in Nat
      BY <2>2 DEF Snapshots
    <3>. QED  BY <3>1, <3>2, <3>3 DEF Frames, RulesInForce
  <2>4. inMapper' \in Seq(Frames) /\ Len(inMapper') = 1
    BY <1>1, <2>3, OneElement DEF MapSnapshot
  <2>. QED  BY <1>1, <2>1, <2>2, <2>4 DEF TypeOK, MapSnapshot
<1>2. CASE MapPanics
  <2>1. /\ snaps' = <<>> /\ mapper' = "done" /\ inMapper' = inMapper
        /\ mapper = "recv"
    BY <1>2 DEF MapPanics
  <2>2. snaps' \in Seq(Snapshots) /\ Len(snaps') <= SnapCap
    BY <2>1, EmptyQueue, AudioAssumption
  <2>. QED  BY <1>2, <2>1, <2>2 DEF TypeOK, MapPanics
<1>3. CASE SendParams
  <2>1. /\ mapper = "send" /\ inMapper' = <<>> /\ mapper' = "recv"
        /\ \/ Len(params) < ParamCap /\ params' = Append(params, inMapper[1])
           \/ params' = params
    BY <1>3 DEF SendParams, HasRoom, Queued
  <2>2. inMapper[1] \in Frames /\ params \in Seq(Frames)
    BY <2>1, Holding DEF TypeOK
  <2>3. /\ Append(params, inMapper[1]) \in Seq(Frames)
        /\ Len(Append(params, inMapper[1])) = Len(params) + 1
    BY <2>2, AddType
  <2>4. params' \in Seq(Frames) /\ Len(params') <= ParamCap
    <3>1. ParamCap \in Nat /\ Len(params) \in Nat /\ Len(params) <= ParamCap
      BY <2>2, AudioAssumption DEF TypeOK
    <3>2. CASE params' = params
      BY <2>2, <3>1, <3>2
    <3>3. CASE Len(params) < ParamCap /\ params' = Append(params, inMapper[1])
      <4>1. /\ params' \in Seq(Frames) /\ Len(params') = Len(params) + 1
            /\ Len(params) < ParamCap
        BY <2>3, <3>3
      <4>. QED  BY <3>1, <4>1
    <3>. QED  BY <2>1, <3>2, <3>3
  <2>5. inMapper' \in Seq(Frames) /\ Len(inMapper') = 0
    BY <2>1, EmptyQueue
  <2>. QED  BY <1>3, <2>1, <2>4, <2>5 DEF TypeOK, SendParams
<1>. QED  BY <1>1, <1>2, <1>3 DEF Mapper

LEMMA TypeDispatcher ==
    ASSUME TypeOK, Dispatcher
    PROVE  TypeOK'
<1>. USE DEF clockVars, tickVars, mapVars, configVars, history
<1>1. ASSUME params # <<>>
      PROVE  /\ Head(params) \in Frames /\ Tail(params) \in Seq(Frames)
             /\ Len(Tail(params)) <= ParamCap
  <2>1. /\ Head(params) \in Frames /\ Tail(params) \in Seq(Frames)
        /\ Len(Tail(params)) = Len(params) - 1 /\ Len(params) \in Nat
    BY <1>1, TakeType DEF TypeOK
  <2>. QED  BY <2>1, AudioAssumption DEF TypeOK
<1>2. CASE SkipEmpty
  BY <1>1, <1>2 DEF TypeOK, SkipEmpty, oscVars
<1>3. CASE PickUp
  <2>1. /\ frame' = <<Head(params)>> /\ params' = Tail(params)
        /\ left' = backends /\ dispatcher' = "fan"
        /\ played' = Head(params).id /\ params # <<>>
        /\ stalePlayed' = stalePlayed
               + IF Head(params).epoch < reloads THEN 1 ELSE 0
    BY <1>3 DEF PickUp
  <2>2. frame' \in Seq(Frames) /\ Len(frame') = 1
    BY <1>1, <2>1, OneElement
  <2>3. played' \in Nat /\ stalePlayed' \in Nat
    <3>1. played' \in Nat
      BY <1>1, <2>1 DEF Frames
    <3>2. stalePlayed \in Nat
      BY DEF TypeOK
    <3>3. (IF Head(params).epoch < reloads THEN 1 ELSE 0) \in Nat
      OBVIOUS
    <3>. QED  BY <2>1, <3>1, <3>2, <3>3
  <2>4. left' \in Seq(BackendIds)
    BY <2>1, ListType DEF TypeOK
  <2>. QED  BY <1>1, <1>3, <2>1, <2>2, <2>3, <2>4 DEF TypeOK, PickUp
<1>4. CASE SendBundle
  <2>1. left # <<>> /\ left' = Tail(left) /\ dispatcher = "fan"
    BY <1>4 DEF SendBundle, AfterSend
  <2>2. Head(left) \in BackendIds /\ left' \in Seq(BackendIds)
    BY <2>1, TakeType DEF TypeOK
  <2>3. frame[1] \in Frames
    BY <2>1, Holding
  <2>4. seen' \in [BackendIds -> Nat]
    BY <1>4, <2>2, <2>3 DEF TypeOK, SendBundle, Frames
  <2>5. strays' \in [BackendIds -> Nat]
    <3>1. /\ strays \in [BackendIds -> Nat]
          /\ \/ strays' = strays
             \/ strays' = [strays EXCEPT ![Head(left)] = @ + 1]
      BY <1>4 DEF TypeOK, SendBundle
    <3>. QED  BY <2>2, <3>1
  <2>. QED  BY <1>4, <2>2, <2>4, <2>5 DEF TypeOK, SendBundle
<1>5. CASE Observe
  <2>1. dispatcher = "fan" /\ frame' = <<>> /\ dispatcher' = "recv"
    BY <1>5 DEF Observe
  <2>2. frame[1] \in Frames
    BY <2>1, Holding
  <2>3. observed' \in [actual : Int, shown : Nat]
    <3>1. CASE stamp > 0 /\ now >= stamp
      <4>1. /\ now \in Nat /\ stamp \in Nat /\ now >= stamp
            /\ frame[1].ts \in Nat
        BY <2>2, <3>1 DEF TypeOK, Frames
      <4>2. now - frame[1].ts \in Int /\ now - stamp \in Nat
        BY <4>1
      <4>. QED  BY <1>5, <3>1, <4>2 DEF Observe
    <3>2. CASE ~(stamp > 0 /\ now >= stamp)
      BY <1>5, <3>2 DEF TypeOK, Observe
    <3>. QED  BY <3>1, <3>2
  <2>4. frame' \in Seq(Frames) /\ Len(frame') = 0
    BY <2>1, EmptyQueue
  <2>. QED  BY <1>5, <2>1, <2>3, <2>4 DEF TypeOK, Observe
<1>6. CASE DispatcherEnds
  BY <1>6 DEF TypeOK, DispatcherEnds
<1>. QED  BY <1>2, <1>3, <1>4, <1>5, <1>6 DEF Dispatcher

LEMMA TypeEnvironment ==
    ASSUME TypeOK, ClockAdvances \/ ClockSetBack \/ WriteRules \/ WriteBackends
    PROVE  TypeOK'
<1>. USE DEF TypeOK, tickVars, mapVars, oscVars, history
<1>1. CASE ClockAdvances \/ ClockSetBack
  <2>1. now' \in Nat
    BY <1>1 DEF ClockAdvances, ClockSetBack
  <2>. QED  BY <1>1, <2>1 DEF ClockAdvances, ClockSetBack, configVars
<1>2. CASE WriteRules
  BY <1>2 DEF WriteRules, clockVars
<1>3. CASE WriteBackends
  <2>1. strays' \in [BackendIds -> Nat]
    BY <1>3 DEF WriteBackends
  <2>. QED  BY <1>3, <2>1 DEF WriteBackends, clockVars
<1>. QED  BY <1>1, <1>2, <1>3

LEMMA TypeStep == TypeOK /\ [Next]_vars => TypeOK'
<1>. SUFFICES ASSUME TypeOK, [Next]_vars PROVE TypeOK'
  OBVIOUS
<1>1. CASE UNCHANGED vars
  BY <1>1 DEF vars, TypeOK, clockVars, tickVars, mapVars, oscVars,
              configVars, history
<1>. QED  BY <1>1, TypeTick, TypeMapper, TypeDispatcher, TypeEnvironment DEF Next

\* In every reachable state each variable has its type and neither channel of
\* the audio path exceeds its capacity.
THEOREM TypeCorrect == Spec => []TypeOK
BY TypeInit, TypeStep, PTL DEF Spec
---------------------------------------------------------------------------
(* Refinement.  The numbers rise along each queue and from the dispatcher  *)
(* back to the tick, so what the dispatcher picks up is the oldest on its  *)
(* way and newer than what was played before.                              *)

Rising(s) == \A i, j \in DOMAIN s : i < j => s[i].id < s[j].id
Before(older, newer) == \A k \in older, n \in newer : k < n
Numbered(S) == \A e \in S : e.id \in Nat

LEMMA IdsOfEmpty == Ids(<<>>) = {}
BY DEF Ids

LEMMA IdsOfOne ==
    ASSUME NEW S, NEW e \in S
    PROVE  Ids(<<e>>) = {e.id}
<1>1. /\ DOMAIN <<e>> = {1} /\ <<e>>[1] = e
  OBVIOUS
<1>. QED  BY <1>1 DEF Ids

LEMMA AddLast ==
    ASSUME NEW S, NEW s \in Seq(S), NEW e \in S, Numbered(S),
           Rising(s), \A k \in Ids(s) : k < e.id
    PROVE  Ids(Append(s, e)) = Ids(s) \cup {e.id} /\ Rising(Append(s, e))
<1>. DEFINE t == Append(s, e)
<1>1. /\ DOMAIN t = 1 .. Len(s) + 1 /\ DOMAIN s = 1 .. Len(s)
      /\ Len(s) \in Nat /\ t[Len(s) + 1] = e
      /\ \A i \in 1 .. Len(s) : t[i] = s[i]
  BY AppendProperties
<1>. HIDE DEF t
<1>2. Ids(t) = Ids(s) \cup {e.id}
  <2>1. ASSUME NEW k \in Ids(t) PROVE k \in Ids(s) \cup {e.id}
    <3>1. PICK i \in DOMAIN t : k = t[i].id
      BY <2>1 DEF Ids
    <3>2. CASE i = Len(s) + 1
      BY <1>1, <3>1, <3>2
    <3>3. CASE i \in DOMAIN s
      BY <1>1, <3>1, <3>3 DEF Ids
    <3>. QED  BY <1>1, <3>2, <3>3
  <2>2. ASSUME NEW k \in Ids(s) PROVE k \in Ids(t)
    <3>1. PICK i \in DOMAIN s : k = s[i].id
      BY <2>2 DEF Ids
    <3>2. i \in DOMAIN t /\ t[i] = s[i]
      BY <1>1
    <3>. QED  BY <3>1, <3>2 DEF Ids
  <2>3. e.id \in Ids(t)
    <3>1. Len(s) + 1 \in DOMAIN t
      BY <1>1
    <3>. QED  BY <1>1, <3>1 DEF Ids
  <2>. QED  BY <2>1, <2>2, <2>3
<1>3. Rising(t)
  <2>. SUFFICES ASSUME NEW i \in DOMAIN t, NEW j \in DOMAIN t, i < j
                PROVE  t[i].id < t[j].id
    BY DEF Rising
  <2>1. i \in DOMAIN s /\ t[i] = s[i] /\ s[i].id \in Ids(s)
    BY <1>1 DEF Ids
  <2>2. CASE j = Len(s) + 1
    BY <1>1, <2>1, <2>2
  <2>3. CASE j \in DOMAIN s
    BY <1>1, <2>1, <2>3 DEF Rising
  <2>. QED  BY <1>1, <2>2, <2>3
<1>. QED  BY <1>2, <1>3 DEF t

LEMMA TakeFirst ==
    ASSUME NEW S, NEW s \in Seq(S), s # <<>>, Numbered(S), Rising(s)
    PROVE  /\ Ids(s) = Ids(Tail(s)) \cup {Head(s).id}
           /\ Rising(Tail(s)) /\ Head(s).id \in Nat
           /\ \A k \in Ids(Tail(s)) : Head(s).id < k
<1>. DEFINE t == Tail(s)
<1>1. /\ DOMAIN t = 1 .. Len(s) - 1 /\ DOMAIN s = 1 .. Len(s)
      /\ Len(s) \in Nat \ {0} /\ Head(s) = s[1] /\ Head(s) \in S
      /\ \A i \in 1 .. Len(s) - 1 : t[i] = s[i + 1]
  BY HeadTailProperties
<1>. HIDE DEF t
<1>2. \A k \in Ids(t) : k \in Ids(s) /\ Head(s).id < k
  <2>. SUFFICES ASSUME NEW k \in Ids(t) PROVE k \in Ids(s) /\ Head(s).id < k
    OBVIOUS
  <2>1. PICK i \in DOMAIN t : k = t[i].id
    BY DEF Ids
  <2>2. t[i] = s[i + 1] /\ i + 1 \in DOMAIN s /\ 1 \in DOMAIN s /\ 1 < i + 1
    BY <1>1
  <2>. QED  BY <1>1, <2>1, <2>2 DEF Ids, Rising
<1>3. \A k \in Ids(s) : k \in Ids(t) \cup {Head(s).id}
  <2>. SUFFICES ASSUME NEW k \in Ids(s) PROVE k \in Ids(t) \cup {Head(s).id}
    OBVIOUS
  <2>1. PICK i \in DOMAIN s : k = s[i].id
    BY DEF Ids
  <2>2. CASE i = 1
    BY <1>1, <2>1, <2>2
  <2>3. CASE i # 1
    <3>1. i - 1 \in DOMAIN t /\ t[i - 1] = s[(i - 1) + 1] /\ (i - 1) + 1 = i
      BY <1>1, <2>3
    <3>. QED  BY <2>1, <3>1 DEF Ids
  <2>. QED  BY <2>2, <2>3
<1>4. Head(s).id \in Ids(s)
  <2>1. 1 \in DOMAIN s
    BY <1>1
  <2>. QED  BY <1>1, <2>1 DEF Ids
<1>5. Rising(t)
  <2>. SUFFICES ASSUME NEW i \in DOMAIN t, NEW j \in DOMAIN t, i < j
                PROVE  t[i].id < t[j].id
    BY DEF Rising
  <2>1. /\ t[i] = s[i + 1] /\ t[j] = s[j + 1]
        /\ i + 1 \in DOMAIN s /\ j + 1 \in DOMAIN s /\ i + 1 < j + 1
    BY <1>1
  <2>. QED  BY <2>1 DEF Rising
<1>6. Head(s).id \in Nat
  BY <1>1 DEF Numbered
<1>. QED  BY <1>2, <1>3, <1>4, <1>5, <1>6 DEF t

PathInv ==
    /\ TypeOK
    /\ Rising(params) /\ Rising(snaps)
    /\ Before(Ids(params), Ids(inMapper) \cup Ids(snaps) \cup Ids(building))
    /\ Before(Ids(inMapper), Ids(snaps) \cup Ids(building))
    /\ Before(Ids(snaps), Ids(building))
    /\ \A k \in InFlight : played < k /\ k <= ticks
    /\ played <= ticks

LEMMA BothNumbered == Numbered(Snapshots) /\ Numbered(Frames)
BY DEF Numbered, Snapshots, Frames

LEMMA IdsAreNat ==
    ASSUME NEW S, NEW s \in Seq(S), Numbered(S)
    PROVE  Ids(s) \subseteq Nat
<1>1. \A i \in DOMAIN s : s[i] \in S
  OBVIOUS
<1>. QED  BY <1>1 DEF Ids, Numbered

LEMMA PathTypes ==
    ASSUME TypeOK
    PROVE  /\ snaps \in Seq(Snapshots) /\ building \in Seq(Snapshots)
           /\ params \in Seq(Frames) /\ inMapper \in Seq(Frames)
           /\ Ids(params) \subseteq Nat /\ Ids(inMapper) \subseteq Nat
           /\ Ids(snaps) \subseteq Nat /\ Ids(building) \subseteq Nat
           /\ ticks \in Nat /\ played \in Nat
<1>1. /\ snaps \in Seq(Snapshots) /\ building \in Seq(Snapshots)
      /\ params \in Seq(Frames) /\ inMapper \in Seq(Frames)
      /\ ticks \in Nat /\ played \in Nat
  BY DEF TypeOK
<1>. QED  BY <1>1, IdsAreNat, BothNumbered

LEMMA BeforeApart ==
    ASSUME NEW older \in SUBSET Nat, NEW newer, Before(older, newer),
           NEW k \in newer
    PROVE  k \notin older
<1>1. ASSUME k \in older PROVE FALSE
  <2>1. k \in Nat /\ k < k
    BY <1>1 DEF Before
  <2>. QED  BY <2>1
<1>. QED  BY <1>1

\* The four places of the path hold different numbers.
LEMMA PlacesApart ==
    ASSUME PathInv
    PROVE  /\ Ids(params) \cap (Ids(inMapper) \cup Ids(snaps) \cup Ids(building)) = {}
           /\ Ids(inMapper) \cap (Ids(snaps) \cup Ids(building)) = {}
           /\ Ids(snaps) \cap Ids(building) = {}
<1>1. /\ Ids(params) \in SUBSET Nat /\ Ids(inMapper) \in SUBSET Nat
      /\ Ids(snaps) \in SUBSET Nat
  BY PathTypes DEF PathInv
<1>2. Ids(params) \cap (Ids(inMapper) \cup Ids(snaps) \cup Ids(building)) = {}
  BY <1>1, BeforeApart DEF PathInv
<1>3. Ids(inMapper) \cap (Ids(snaps) \cup Ids(building)) = {}
  BY <1>1, BeforeApart DEF PathInv
<1>4. Ids(snaps) \cap Ids(building) = {}
  BY <1>1, BeforeApart DEF PathInv
<1>. QED  BY <1>2, <1>3, <1>4

\* What is enough for the path to keep its order, given where the numbers go.
LEMMA PathByIds ==
    ASSUME PathInv, TypeOK', Rising(params'), Rising(snaps'),
           Before(Ids(params'), Ids(inMapper') \cup Ids(snaps') \cup Ids(building')),
           Before(Ids(inMapper'), Ids(snaps') \cup Ids(building')),
           Before(Ids(snaps'), Ids(building')),
           \A k \in InFlight' : played' < k /\ k <= ticks',
           played' <= ticks'
    PROVE  PathInv'
BY DEF PathInv, Rising, Before, InFlight, Ids

FeedStep == PlayedFeed!FeedNext \/ UNCHANGED <<ticks, InFlight, played>>

LEMMA PathInit == Init => PathInv /\ PlayedFeed!FeedInit
<1>. SUFFICES ASSUME Init PROVE PathInv /\ PlayedFeed!FeedInit
  OBVIOUS
<1>1. /\ params = <<>> /\ inMapper = <<>> /\ snaps = <<>> /\ building = <<>>
      /\ ticks = 0 /\ played = 0
  BY DEF Init
<1>2. InFlight = {}
  BY <1>1, IdsOfEmpty DEF InFlight
<1>3. Rising(params) /\ Rising(snaps)
  BY <1>1 DEF Rising
<1>4. /\ Ids(params) = {} /\ Ids(inMapper) = {} /\ Ids(snaps) = {}
  BY <1>1, IdsOfEmpty
<1>5. PathInv
  BY <1>1, <1>2, <1>3, <1>4, TypeInit DEF PathInv, Before
<1>. QED  BY <1>1, <1>2, <1>5 DEF PlayedFeed!FeedInit

\* The lemmas that follow are the tick and the tasks, one by one: each keeps
\* the order and is a step of the feed, or no step of it.
LEMMA PathTickStart ==
    ASSUME PathInv, TypeOK', TickStart
    PROVE  PathInv' /\ FeedStep
<1>1. /\ ticks < MaxTicks /\ ticks' = ticks + 1 /\ aggregator = "wait"
      /\ building' = <<[id |-> ticks + 1, ts |-> now]>>
      /\ params' = params /\ inMapper' = inMapper /\ snaps' = snaps
      /\ played' = played
  BY DEF TickStart, mapVars, history
<1>2. building = <<>> /\ Ids(building) = {}
  BY <1>1, Holding, IdsOfEmpty DEF PathInv
<1>3. Ids(building') = {ticks + 1}
  <2>1. [id |-> ticks + 1, ts |-> now] \in Snapshots
    BY DEF PathInv, TypeOK, Snapshots
  <2>2. Ids(<<[id |-> ticks + 1, ts |-> now]>>) = {ticks + 1}
    BY <2>1, IdsOfOne
  <2>. QED  BY <1>1, <2>2
<1>4. /\ Ids(params') = Ids(params) /\ Ids(inMapper') = Ids(inMapper)
      /\ Ids(snaps') = Ids(snaps)
  BY <1>1
<1>5. InFlight' = Ids(params') \cup Ids(inMapper') \cup Ids(snaps') \cup Ids(building')
  BY DEF InFlight, Ids
<1>6. InFlight' = InFlight \cup {ticks + 1}
  BY <1>2, <1>3, <1>4, <1>5 DEF InFlight
<1>7. /\ \A k \in InFlight : k \in Nat /\ played < k /\ k <= ticks
      /\ ticks \in Nat /\ played \in Nat /\ played <= ticks
  BY PathTypes DEF PathInv, InFlight
<1>8. \A k \in InFlight' : played' < k /\ k <= ticks'
  BY <1>1, <1>6, <1>7
<1>9. PathInv'
  <2>1. /\ Before(Ids(params'), Ids(inMapper') \cup Ids(snaps') \cup Ids(building'))
        /\ Before(Ids(inMapper'), Ids(snaps') \cup Ids(building'))
        /\ Before(Ids(snaps'), Ids(building'))
    BY <1>2, <1>3, <1>4, <1>7 DEF PathInv, Before, InFlight
  <2>2. Rising(params') /\ Rising(snaps')
    BY <1>1 DEF PathInv
  <2>3. played' <= ticks'
    BY <1>1, <1>7
  <2>. QED  BY <1>8, <2>1, <2>2, <2>3, PathByIds
<1>10. PlayedFeed!PublishSnapshot
  BY <1>1, <1>6 DEF PlayedFeed!PublishSnapshot
<1>. QED  BY <1>9, <1>10 DEF FeedStep, PlayedFeed!FeedNext

LEMMA PathTickSend ==
    ASSUME PathInv, TypeOK', TickSend
    PROVE  PathInv' /\ FeedStep
<1>. DEFINE e == building[1]
<1>1. /\ aggregator = "send" /\ building' = <<>> /\ ticks' = ticks
      /\ params' = params /\ inMapper' = inMapper /\ played' = played
      /\ snaps' = Append(snaps, e) \/ snaps' = snaps
  BY DEF TickSend, Queued, mapVars, history
<1>2. e \in Snapshots /\ Ids(building) = {e.id} /\ Ids(building') = {}
  BY <1>1, Holding, IdsOfOne, IdsOfEmpty DEF PathInv
<1>3. /\ Ids(params') = Ids(params) /\ Ids(inMapper') = Ids(inMapper)
      /\ InFlight' = Ids(params') \cup Ids(inMapper') \cup Ids(snaps')
                     \cup Ids(building')
  BY <1>1 DEF InFlight, Ids
<1>4. /\ Ids(params) \subseteq Nat /\ Ids(inMapper) \subseteq Nat
      /\ Ids(snaps) \subseteq Nat /\ Ids(building) \subseteq Nat
      /\ ticks \in Nat /\ played \in Nat /\ snaps \in Seq(Snapshots)
  BY PathTypes DEF PathInv
<1>5. CASE snaps' = Append(snaps, e)
  <2>1. Ids(snaps') = Ids(snaps) \cup {e.id} /\ Rising(snaps')
    BY <1>2, <1>4, <1>5, AddLast, BothNumbered DEF PathInv, Before
  <2>2. InFlight' = InFlight
    BY <1>2, <1>3, <2>1 DEF InFlight
  <2>3. PathInv'
    BY <1>1, <1>2, <1>3, <1>4, <2>1, <2>2, PathByIds DEF PathInv, Before
  <2>. QED  BY <1>1, <2>2, <2>3 DEF FeedStep
<1>6. CASE snaps' = snaps
  <2>1. Ids(snaps') = Ids(snaps)
    BY <1>6
  <2>2. e.id \notin Ids(params) \cup Ids(inMapper) \cup Ids(snaps)
    BY <1>2, PlacesApart
  <2>3. InFlight' = InFlight \ {e.id} /\ e.id \in InFlight
    BY <1>2, <1>3, <2>1, <2>2 DEF InFlight
  <2>4. PathInv'
    BY <1>1, <1>2, <1>3, <1>4, <1>6, <2>1, <2>3, PathByIds DEF PathInv, Before
  <2>5. PlayedFeed!LoseSnapshots
    <3>1. {e.id} \in SUBSET InFlight /\ {e.id} # {}
      BY <2>3
    <3>. QED  BY <1>1, <2>3, <3>1 DEF PlayedFeed!LoseSnapshots
  <2>. QED  BY <2>4, <2>5 DEF FeedStep, PlayedFeed!FeedNext
<1>. QED  BY <1>1, <1>5, <1>6

LEMMA PathMapper ==
    ASSUME PathInv, TypeOK', Mapper
    PROVE  PathInv' /\ FeedStep
<1>1. /\ ticks' = ticks /\ played' = played /\ building' = building
      /\ Ids(building') = Ids(building)
      /\ InFlight' = Ids(params') \cup Ids(inMapper') \cup Ids(snaps')
                     \cup Ids(building')
  BY DEF Mapper, MapSnapshot, MapPanics, SendParams, history, tickVars,
         InFlight, Ids
<1>2. /\ Ids(params) \subseteq Nat /\ Ids(inMapper) \subseteq Nat
      /\ Ids(snaps) \subseteq Nat /\ Ids(building) \subseteq Nat
      /\ ticks \in Nat /\ played \in Nat
      /\ snaps \in Seq(Snapshots) /\ params \in Seq(Frames)
  BY PathTypes DEF PathInv
<1>3. CASE MapSnapshot
  <2>. DEFINE f == [id |-> Head(snaps).id, ts |-> Head(snaps).ts,
                    epoch |-> RulesInForce, empty |-> rules \in Mute]
  <2>1. /\ mapper = "recv" /\ snaps # <<>> /\ snaps' = Tail(snaps)
        /\ params' = params /\ inMapper' = <<f>> /\ Ids(params') = Ids(params)
    BY <1>3 DEF MapSnapshot
  <2>2. Ids(inMapper) = {}
    BY <2>1, Holding, IdsOfEmpty DEF PathInv
  <2>3. Ids(inMapper') = {Head(snaps).id}
    <3>1. f \in {f} /\ f.id = Head(snaps).id
      OBVIOUS
    <3>. HIDE DEF f
    <3>. QED  BY <2>1, <3>1, IdsOfOne
  <2>4. /\ Ids(snaps) = Ids(snaps') \cup {Head(snaps).id} /\ Rising(snaps')
        /\ \A k \in Ids(snaps') : Head(snaps).id < k
    BY <1>2, <2>1, TakeFirst, BothNumbered DEF PathInv
  <2>5. InFlight' = InFlight
    BY <1>1, <2>1, <2>2, <2>3, <2>4 DEF InFlight
  <2>6. PathInv'
    BY <1>1, <1>2, <2>1, <2>2, <2>3, <2>4, <2>5, PathByIds DEF PathInv, Before
  <2>. QED  BY <1>1, <2>5, <2>6 DEF FeedStep
<1>4. CASE MapPanics
  <2>1. /\ snaps # <<>> /\ snaps' = <<>>
        /\ params' = params /\ inMapper' = inMapper
        /\ Ids(params') = Ids(params) /\ Ids(inMapper') = Ids(inMapper)
    BY <1>4 DEF MapPanics
  <2>2. Ids(snaps') = {} /\ Rising(snaps')
    BY <2>1, IdsOfEmpty DEF Rising
  <2>3. /\ InFlight' = InFlight \ Ids(snaps)
        /\ Ids(snaps) \in SUBSET InFlight
    <3>1. InFlight' = Ids(params) \cup Ids(inMapper) \cup Ids(building)
      BY <1>1, <2>1, <2>2
    <3>2. /\ Ids(snaps) \cap Ids(params) = {} /\ Ids(snaps) \cap Ids(inMapper) = {}
          /\ Ids(snaps) \cap Ids(building) = {}
      BY PlacesApart
    <3>3. InFlight = Ids(params) \cup Ids(inMapper) \cup Ids(snaps)
                     \cup Ids(building)
      BY DEF InFlight
    <3>4. InFlight' = InFlight \ Ids(snaps)
      BY <3>1, <3>2, <3>3
    <3>5. Ids(snaps) \in SUBSET InFlight
      BY <3>3
    <3>. QED  BY <3>4, <3>5
  <2>4. Ids(snaps) # {}
    <3>1. 1 \in DOMAIN snaps
      BY <1>2, <2>1
    <3>2. snaps[1].id \in Ids(snaps)
      BY <3>1 DEF Ids
    <3>. QED  BY <3>2
  <2>5. PathInv'
    BY <1>1, <1>2, <2>1, <2>2, <2>3, PathByIds DEF PathInv, Before
  <2>6. PlayedFeed!LoseSnapshots
    BY <1>1, <2>3, <2>4 DEF PlayedFeed!LoseSnapshots
  <2>. QED  BY <2>5, <2>6 DEF FeedStep, PlayedFeed!FeedNext
<1>5. CASE SendParams
  <2>. DEFINE e == inMapper[1]
  <2>1. /\ mapper = "send" /\ inMapper' = <<>> /\ snaps' = snaps
        /\ Ids(snaps') = Ids(snaps)
        /\ params' = Append(params, e) \/ params' = params
    BY <1>5 DEF SendParams, Queued
  <2>2. e \in Frames /\ Ids(inMapper) = {e.id} /\ Ids(inMapper') = {}
    BY <2>1, Holding, IdsOfOne, IdsOfEmpty DEF PathInv
  <2>3. CASE params' = Append(params, e)
    <3>1. Ids(params') = Ids(params) \cup {e.id} /\ Rising(params')
      BY <1>2, <2>2, <2>3, AddLast, BothNumbered DEF PathInv, Before
    <3>2. InFlight' = InFlight
      BY <1>1, <2>1, <2>2, <3>1 DEF InFlight
    <3>3. PathInv'
      BY <1>1, <1>2, <2>1, <2>2, <3>1, <3>2, PathByIds DEF PathInv, Before
    <3>. QED  BY <1>1, <3>2, <3>3 DEF FeedStep
  <2>4. CASE params' = params
    <3>1. Ids(params') = Ids(params)
      BY <2>4
    <3>2. e.id \notin Ids(params) \cup Ids(snaps) \cup Ids(building)
      BY <2>2, PlacesApart
    <3>3. InFlight' = InFlight \ {e.id} /\ e.id \in InFlight
      BY <1>1, <2>1, <2>2, <3>1, <3>2 DEF InFlight
    <3>4. PathInv'
      BY <1>1, <1>2, <2>1, <2>2, <2>4, <3>1, <3>3, PathByIds
         DEF PathInv, Before
    <3>5. PlayedFeed!LoseSnapshots
      <4>1. {e.id} \in SUBSET InFlight /\ {e.id} # {}
        BY <3>3
      <4>. QED  BY <1>1, <3>3, <4>1 DEF PlayedFeed!LoseSnapshots
    <3>. QED  BY <3>4, <3>5 DEF FeedStep, PlayedFeed!FeedNext
  <2>. QED  BY <2>1, <2>3, <2>4
<1>. QED  BY <1>3, <1>4, <1>5 DEF Mapper

LEMMA PathDispatcher ==
    ASSUME PathInv, TypeOK', SkipEmpty \/ PickUp
    PROVE  PathInv' /\ FeedStep
<1>. DEFINE k == Head(params).id
<1>1. /\ ticks' = ticks /\ params # <<>> /\ params' = Tail(params)
      /\ inMapper' = inMapper /\ snaps' = snaps /\ building' = building
      /\ Ids(inMapper') = Ids(inMapper) /\ Ids(snaps') = Ids(snaps)
      /\ Ids(building') = Ids(building)
      /\ InFlight' = Ids(params') \cup Ids(inMapper') \cup Ids(snaps')
                     \cup Ids(building')
  BY DEF SkipEmpty, PickUp, mapVars, tickVars, InFlight, Ids
<1>2. /\ Ids(params) \subseteq Nat /\ Ids(inMapper) \subseteq Nat
      /\ Ids(snaps) \subseteq Nat /\ Ids(building) \subseteq Nat
      /\ ticks \in Nat /\ played \in Nat /\ params \in Seq(Frames)
  BY PathTypes DEF PathInv
<1>3. /\ Ids(params) = Ids(params') \cup {k} /\ Rising(params') /\ k \in Nat
      /\ \A j \in Ids(params') : k < j
  BY <1>1, <1>2, TakeFirst, BothNumbered DEF PathInv
<1>4. k \notin Ids(params') \cup Ids(inMapper) \cup Ids(snaps) \cup Ids(building)
  <2>1. k \in Ids(params) /\ k \notin Ids(params')
    BY <1>2, <1>3
  <2>. QED  BY <2>1, PlacesApart
<1>5. InFlight' = InFlight \ {k} /\ k \in InFlight
  BY <1>1, <1>3, <1>4 DEF InFlight
<1>6. \A j \in InFlight : k <= j
  <2>. SUFFICES ASSUME NEW j \in InFlight PROVE k <= j
    OBVIOUS
  <2>1. CASE j \in Ids(params)
    <3>1. j \in Nat /\ (j = k \/ k < j)
      BY <1>2, <1>3, <2>1
    <3>. QED  BY <1>3, <3>1
  <2>2. CASE j \in Ids(inMapper) \cup Ids(snaps) \cup Ids(building)
    <3>1. k \in Ids(params) /\ j \in Nat
      BY <1>2, <1>3, <2>2
    <3>2. k < j
      BY <2>2, <3>1 DEF PathInv, Before
    <3>. QED  BY <1>3, <3>1, <3>2
  <2>. QED  BY <2>1, <2>2 DEF InFlight
<1>7. played' \in {played, k}
  BY DEF SkipEmpty, PickUp, history
<1>8. PathInv'
  <2>1. /\ Before(Ids(params'), Ids(inMapper') \cup Ids(snaps') \cup Ids(building'))
        /\ Before(Ids(inMapper'), Ids(snaps') \cup Ids(building'))
        /\ Before(Ids(snaps'), Ids(building'))
    BY <1>1, <1>3 DEF PathInv, Before
  <2>2. \A j \in InFlight' : played' < j /\ j <= ticks'
    <3>1. \A j \in InFlight' : j \in Nat /\ k < j /\ played < j /\ j <= ticks
      <4>1. InFlight \subseteq Nat
        BY <1>2 DEF InFlight
      <4>. QED  BY <1>3, <1>5, <1>6, <4>1 DEF PathInv
    <3>. QED  BY <1>1, <1>7, <3>1
  <2>3. played' <= ticks'
    BY <1>1, <1>5, <1>7 DEF PathInv
  <2>4. Rising(snaps')
    BY <1>1 DEF PathInv
  <2>. QED  BY <1>3, <2>1, <2>2, <2>3, <2>4, PathByIds
<1>9. CASE SkipEmpty
  <2>1. played' = played
    BY <1>9 DEF SkipEmpty, history
  <2>2. {k} \in SUBSET InFlight /\ {k} # {}
    BY <1>5
  <2>3. PlayedFeed!LoseSnapshots
    BY <1>1, <1>5, <2>1, <2>2 DEF PlayedFeed!LoseSnapshots
  <2>. QED  BY <1>8, <2>3 DEF FeedStep, PlayedFeed!FeedNext
<1>10. CASE PickUp
  <2>1. played' = k
    BY <1>10 DEF PickUp
  <2>2. PlayedFeed!PlaySnapshot
    BY <1>1, <1>5, <1>6, <2>1 DEF PlayedFeed!PlaySnapshot
  <2>. QED  BY <1>8, <2>2 DEF FeedStep, PlayedFeed!FeedNext
<1>. QED  BY <1>9, <1>10

LEMMA PathOthers ==
    ASSUME PathInv, TypeOK',
           \/ SendBundle \/ Observe \/ DispatcherEnds \/ ClockAdvances
           \/ ClockSetBack \/ WriteRules \/ WriteBackends \/ UNCHANGED vars
    PROVE  PathInv' /\ FeedStep
<1>1. /\ ticks' = ticks /\ played' = played /\ params' = params
      /\ inMapper' = inMapper /\ snaps' = snaps /\ building' = building
  BY DEF SendBundle, Observe, DispatcherEnds, ClockAdvances, ClockSetBack,
         WriteRules, WriteBackends, vars, tickVars, mapVars, history
<1>2. InFlight' = InFlight
  BY <1>1 DEF InFlight, Ids
<1>3. PathInv'
  BY <1>1, <1>2, PathByIds DEF PathInv
<1>. QED  BY <1>1, <1>2, <1>3 DEF FeedStep

LEMMA PathStep == PathInv /\ [Next]_vars => PathInv' /\ FeedStep
<1>. SUFFICES ASSUME PathInv, [Next]_vars PROVE PathInv' /\ FeedStep
  OBVIOUS
<1>1. TypeOK'
  BY TypeStep DEF PathInv
<1>. QED  BY <1>1, PathTickStart, PathTickSend, PathMapper, PathDispatcher,
             PathOthers DEF Next, Dispatcher

\* The audio path implements the feed: snapshots are picked up for the
\* backends in the order of their ticks and none twice, for every capacity of
\* the two channels, every set of rules and every course of reloads.
THEOREM PathImplementsFeed == Spec => ImplementsSafety
<1>1. PathInv /\ [Next]_vars => [PlayedFeed!FeedNext]_<<ticks, InFlight, played>>
  BY PathStep DEF FeedStep
<1>. QED
  BY <1>1, PathInit, PathStep, PTL
     DEF Spec, ImplementsSafety, PlayedFeed!FeedSafety, PlayedFeed!feedVars

\* What waits anywhere on the path is newer than what was played last.
THEOREM PlayedInOrder == Spec => []PlayedNeverGoesBack
<1>1. PathInv => PlayedNeverGoesBack
  BY DEF PathInv, PlayedNeverGoesBack, PlayedFeed!NeverGoesBack
<1>. QED  BY <1>1, PathInit, PathStep, PTL DEF Spec

---------------------------------------------------------------------------
(* The latency that is observed.                                           *)

NotAfter(s, t) == \A i \in DOMAIN s : s[i].ts <= t

\* As long as the clock only goes on, every snapshot on the path was stamped no
\* later than the newest tick, and that no later than now.
LatencyInv ==
    /\ TypeOK
    /\ ~setBack =>
          /\ stamp <= now
          /\ NotAfter(building, stamp) /\ NotAfter(snaps, stamp)
          /\ NotAfter(inMapper, stamp) /\ NotAfter(params, stamp)
          /\ NotAfter(frame, stamp)
          /\ observed.shown <= observed.actual

LEMMA EmptyNotAfter == \A t : NotAfter(<<>>, t)
BY DEF NotAfter

LEMMA OneNotAfter ==
    ASSUME NEW e, NEW t, e.ts <= t
    PROVE  NotAfter(<<e>>, t)
BY DEF NotAfter

LEMMA AddNotAfter ==
    ASSUME NEW S, NEW s \in Seq(S), NEW e \in S, NEW t,
           NotAfter(s, t), e.ts <= t
    PROVE  NotAfter(Append(s, e), t)
<1>1. Len(s) \in Nat /\ DOMAIN s = 1 .. Len(s)
  OBVIOUS
<1>2. /\ DOMAIN Append(s, e) = 1 .. Len(s) + 1
      /\ Append(s, e)[Len(s) + 1] = e
      /\ \A i \in 1 .. Len(s) : Append(s, e)[i] = s[i]
  OBVIOUS
<1>3. \A i \in DOMAIN Append(s, e) : i \in DOMAIN s \/ i = Len(s) + 1
  BY <1>1, <1>2
<1>. QED  BY <1>1, <1>2, <1>3 DEF NotAfter

LEMMA TakeNotAfter ==
    ASSUME NEW S, NEW s \in Seq(S), s # <<>>, NEW t, NotAfter(s, t)
    PROVE  Head(s).ts <= t /\ NotAfter(Tail(s), t)
<1>1. /\ Len(s) \in Nat /\ DOMAIN s = 1 .. Len(s) /\ Len(s) # 0
      /\ Head(s) = s[1]
  OBVIOUS
<1>2. \A i \in DOMAIN Tail(s) : i + 1 \in DOMAIN s /\ Tail(s)[i] = s[i + 1]
  OBVIOUS
<1>. QED  BY <1>1, <1>2 DEF NotAfter

LEMMA FirstNotAfter ==
    ASSUME NEW e, NEW t, NotAfter(<<e>>, t)
    PROVE  e.ts <= t
<1>1. 1 \in DOMAIN <<e>> /\ <<e>>[1] = e
  OBVIOUS
<1>. QED  BY <1>1 DEF NotAfter

LEMMA LatencyInit == Init => LatencyInv
<1>. SUFFICES ASSUME Init PROVE LatencyInv
  OBVIOUS
<1>1. /\ building = <<>> /\ snaps = <<>> /\ inMapper = <<>>
      /\ params = <<>> /\ frame = <<>>
  BY DEF Init
<1>2. stamp <= now /\ observed.shown <= observed.actual
  BY DEF Init
<1>. QED  BY <1>1, <1>2, TypeInit, EmptyNotAfter DEF LatencyInv

LEMMA LatencyTick ==
    ASSUME LatencyInv, TypeOK', ~setBack, TickStart \/ TickSend
    PROVE  LatencyInv'
<1>. USE DEF clockVars, mapVars, oscVars, configVars, history
<1>1. /\ stamp \in Nat /\ now \in Nat /\ stamp <= now
      /\ NotAfter(building, stamp) /\ NotAfter(snaps, stamp)
      /\ NotAfter(inMapper, stamp) /\ NotAfter(params, stamp)
      /\ NotAfter(frame, stamp) /\ observed.shown <= observed.actual
  BY DEF LatencyInv, TypeOK
<1>2. CASE TickStart
  <2>1. /\ stamp' = now /\ now' = now /\ snaps' = snaps
        /\ inMapper' = inMapper /\ params' = params /\ frame' = frame
        /\ observed' = observed
        /\ building' = <<[id |-> ticks + 1, ts |-> now]>>
    BY <1>2 DEF TickStart, StampAtTick
  <2>2. ASSUME NEW S, NEW s \in Seq(S), \A e \in S : e.ts \in Nat,
               NotAfter(s, stamp)
        PROVE  NotAfter(s, now)
    <3>1. \A i \in DOMAIN s : s[i].ts \in Nat /\ s[i].ts <= stamp
      BY <2>2 DEF NotAfter
    <3>. QED  BY <3>1, <1>1 DEF NotAfter
  <2>3. /\ \A e \in Snapshots : e.ts \in Nat
        /\ \A e \in Frames : e.ts \in Nat
    BY DEF Snapshots, Frames
  <2>4. /\ snaps \in Seq(Snapshots) /\ inMapper \in Seq(Frames)
        /\ params \in Seq(Frames) /\ frame \in Seq(Frames)
    BY DEF LatencyInv, TypeOK
  <2>5. /\ NotAfter(snaps, now) /\ NotAfter(inMapper, now)
        /\ NotAfter(params, now) /\ NotAfter(frame, now)
    BY <1>1, <2>2, <2>3, <2>4
  <2>6. NotAfter(building', now)
    <3>1. [id |-> ticks + 1, ts |-> now].ts <= now
      BY <1>1
    <3>. QED  BY <2>1, <3>1, OneNotAfter
  <2>. QED  BY <1>1, <2>1, <2>5, <2>6 DEF LatencyInv
<1>3. CASE TickSend
  <2>1. /\ stamp' = stamp /\ now' = now /\ building' = <<>>
        /\ inMapper' = inMapper /\ params' = params /\ frame' = frame
        /\ observed' = observed
        /\ snaps' = snaps \/ snaps' = Append(snaps, building[1])
        /\ aggregator = "send"
    BY <1>3 DEF TickSend, Queued
  <2>2. NotAfter(snaps', stamp)
    <3>1. building[1] \in Snapshots /\ building = <<building[1]>>
      BY <2>1, Holding DEF LatencyInv
    <3>2. building[1].ts <= stamp
      BY <1>1, <3>1, FirstNotAfter
    <3>3. snaps \in Seq(Snapshots)
      BY DEF LatencyInv, TypeOK
    <3>4. NotAfter(Append(snaps, building[1]), stamp)
      BY <1>1, <3>1, <3>2, <3>3, AddNotAfter
    <3>. QED  BY <1>1, <2>1, <3>4
  <2>. QED  BY <1>1, <2>1, <2>2, EmptyNotAfter DEF LatencyInv
<1>. QED  BY <1>2, <1>3

LEMMA LatencyMapper ==
    ASSUME LatencyInv, TypeOK', ~setBack, Mapper
    PROVE  LatencyInv'
<1>. USE DEF clockVars, tickVars, oscVars, configVars, history
<1>1. /\ stamp <= now
      /\ NotAfter(building, stamp) /\ NotAfter(snaps, stamp)
      /\ NotAfter(inMapper, stamp) /\ NotAfter(params, stamp)
      /\ NotAfter(frame, stamp) /\ observed.shown <= observed.actual
      /\ snaps \in Seq(Snapshots) /\ params \in Seq(Frames)
  BY DEF LatencyInv, TypeOK
<1>2. /\ stamp' = stamp /\ now' = now /\ building' = building
      /\ frame' = frame /\ observed' = observed
  BY DEF Mapper, MapSnapshot, MapPanics, SendParams
<1>3. CASE MapSnapshot
  <2>1. /\ snaps # <<>> /\ snaps' = Tail(snaps) /\ params' = params
    BY <1>3 DEF MapSnapshot
  <2>2. PICK epoch, empty :
            inMapper' = <<[id |-> Head(snaps).id, ts |-> Head(snaps).ts,
                           epoch |-> epoch, empty |-> empty]>>
    BY <1>3 DEF MapSnapshot
  <2>3. Head(snaps).ts <= stamp /\ NotAfter(snaps', stamp)
    BY <1>1, <2>1, TakeNotAfter
  <2>4. NotAfter(inMapper', stamp)
    <3>. DEFINE e == [id |-> Head(snaps).id, ts |-> Head(snaps).ts,
                      epoch |-> epoch, empty |-> empty]
    <3>1. e.ts <= stamp
      BY <2>3
    <3>2. inMapper' = <<e>>
      BY <2>2
    <3>. HIDE DEF e
    <3>. QED  BY <3>1, <3>2, OneNotAfter
  <2>. QED  BY <1>1, <1>2, <2>1, <2>3, <2>4 DEF LatencyInv
<1>4. CASE MapPanics
  <2>1. snaps' = <<>> /\ inMapper' = inMapper /\ params' = params
    BY <1>4 DEF MapPanics
  <2>. QED  BY <1>1, <1>2, <2>1, EmptyNotAfter DEF LatencyInv
<1>5. CASE SendParams
  <2>1. /\ snaps' = snaps /\ inMapper' = <<>> /\ mapper = "send"
        /\ params' = params \/ params' = Append(params, inMapper[1])
    BY <1>5 DEF SendParams, Queued
  <2>2. inMapper[1] \in Frames /\ inMapper = <<inMapper[1]>>
    BY <2>1, Holding DEF LatencyInv
  <2>3. inMapper[1].ts <= stamp
    BY <1>1, <2>2, FirstNotAfter
  <2>4. NotAfter(Append(params, inMapper[1]), stamp)
    BY <1>1, <2>2, <2>3, AddNotAfter
  <2>. QED  BY <1>1, <1>2, <2>1, <2>4, EmptyNotAfter DEF LatencyInv
<1>. QED  BY <1>3, <1>4, <1>5 DEF Mapper

LEMMA LatencyDispatcher ==
    ASSUME LatencyInv, TypeOK', ~setBack, Dispatcher
    PROVE  LatencyInv'
<1>. USE DEF clockVars, tickVars, mapVars, configVars, oscVars, history
<1>1. /\ stamp \in Nat /\ now \in Nat /\ stamp <= now
      /\ NotAfter(building, stamp) /\ NotAfter(snaps, stamp)
      /\ NotAfter(inMapper, stamp) /\ NotAfter(params, stamp)
      /\ NotAfter(frame, stamp) /\ observed.shown <= observed.actual
      /\ params \in Seq(Frames)
  BY DEF LatencyInv, TypeOK
<1>2. /\ stamp' = stamp /\ now' = now /\ building' = building
      /\ snaps' = snaps /\ inMapper' = inMapper
  BY DEF Dispatcher, SkipEmpty, PickUp, SendBundle, Observe, DispatcherEnds
<1>3. CASE SkipEmpty \/ PickUp
  <2>1. /\ params # <<>> /\ params' = Tail(params) /\ observed' = observed
        /\ frame' = frame \/ frame' = <<Head(params)>>
    BY <1>3 DEF SkipEmpty, PickUp
  <2>2. Head(params).ts <= stamp /\ NotAfter(params', stamp)
    BY <1>1, <2>1, TakeNotAfter
  <2>3. NotAfter(<<Head(params)>>, stamp)
    BY <2>2, OneNotAfter
  <2>. QED  BY <1>1, <1>2, <2>1, <2>2, <2>3 DEF LatencyInv
<1>4. CASE SendBundle \/ DispatcherEnds
  <2>1. params' = params /\ frame' = frame /\ observed' = observed
    BY <1>4 DEF SendBundle, DispatcherEnds
  <2>. QED  BY <1>1, <1>2, <2>1 DEF LatencyInv
<1>5. CASE Observe
  <2>1. /\ params' = params /\ frame' = <<>> /\ dispatcher = "fan"
        /\ \/ observed' = [actual |-> now - frame[1].ts, shown |-> now - stamp]
           \/ observed' = observed
    BY <1>5 DEF Observe
  <2>2. frame[1] \in Frames /\ frame = <<frame[1]>>
    BY <2>1, Holding DEF LatencyInv
  <2>3. frame[1].ts <= stamp /\ frame[1].ts \in Nat
    BY <1>1, <2>2, FirstNotAfter DEF Frames
  <2>4. observed'.shown <= observed'.actual
    BY <1>1, <2>1, <2>3
  <2>. QED  BY <1>1, <1>2, <2>1, <2>4, EmptyNotAfter DEF LatencyInv
<1>. QED  BY <1>3, <1>4, <1>5 DEF Dispatcher

LEMMA LatencyOthers ==
    ASSUME LatencyInv, TypeOK', ~setBack,
           ClockAdvances \/ ClockSetBack \/ WriteRules \/ WriteBackends
               \/ UNCHANGED vars
    PROVE  LatencyInv'
<1>1. /\ stamp' = stamp /\ building' = building /\ snaps' = snaps
      /\ inMapper' = inMapper /\ params' = params /\ frame' = frame
      /\ observed' = observed
      /\ now' = now \/ now' = now + 1 \/ setBack'
  BY DEF ClockAdvances, ClockSetBack, WriteRules, WriteBackends, vars,
         clockVars, tickVars, mapVars, oscVars, history
<1>2. stamp \in Nat /\ now \in Nat /\ stamp <= now
  BY DEF LatencyInv, TypeOK
<1>3. ~setBack' => stamp' <= now'
  BY <1>1, <1>2
<1>. QED  BY <1>1, <1>3 DEF LatencyInv

\* Once the clock has been set back, that it was stays known.
LEMMA SetBackStays == setBack /\ [Next]_vars => setBack'
BY DEF Next, ClockAdvances, ClockSetBack, TickStart, TickSend, Mapper,
       MapSnapshot, MapPanics, SendParams, Dispatcher, SkipEmpty, PickUp,
       SendBundle, Observe, DispatcherEnds, WriteRules, WriteBackends, vars,
       clockVars

LEMMA LatencyStep == LatencyInv /\ [Next]_vars => LatencyInv'
<1>. SUFFICES ASSUME LatencyInv, [Next]_vars PROVE LatencyInv'
  OBVIOUS
<1>1. TypeOK'
  BY TypeStep DEF LatencyInv
<1>2. CASE setBack
  BY <1>1, <1>2, SetBackStays DEF LatencyInv
<1>3. CASE ~setBack
  BY <1>1, <1>3, LatencyTick, LatencyMapper, LatencyDispatcher, LatencyOthers
     DEF Next
<1>. QED  BY <1>2, <1>3

\* Unless the clock is set back, the latency that goes to the histogram never
\* exceeds the age of the snapshot that was sent, however many snapshots wait
\* in the two channels and whenever the next tick moves the shared timestamp.
THEOREM LatencyBounded == Spec => []LatencyNotOverstated
<1>1. LatencyInv => LatencyNotOverstated
  BY DEF LatencyInv, LatencyNotOverstated
<1>. QED  BY <1>1, LatencyInit, LatencyStep, PTL DEF Spec
---------------------------------------------------------------------------
(* The end of the tasks.                                                   *)

\* A task is in the set of the ended ones exactly when it stands at "done".
LEMMA EndedByState ==
    /\ "aggregator" \in EndedTasks <=> aggregator = "done"
    /\ "mapper" \in EndedTasks <=> mapper = "done"
    /\ "dispatcher" \in EndedTasks <=> dispatcher = "done"
    /\ EndedTasks \subseteq {"aggregator", "mapper", "dispatcher"}
BY DEF EndedTasks

LEMMA CascadeKept ==
    ASSUME UNCHANGED <<aggregator = "done", mapper = "done", dispatcher = "done">>
    PROVE  EndedTasks' = EndedTasks
BY DEF EndedTasks

LEMMA CascadeStep == [Next]_vars => [TaskCascade!CascadeNext]_EndedTasks
<1>. SUFFICES ASSUME [Next]_vars
              PROVE  TaskCascade!CascadeNext \/ UNCHANGED EndedTasks
  OBVIOUS
<1>1. CASE TickSend /\ mapper = "done"
  <2>1. /\ aggregator = "send" /\ aggregator' = "done"
        /\ mapper' = mapper /\ dispatcher' = dispatcher
    BY <1>1 DEF TickSend, mapVars, oscVars
  <2>2. EndedTasks' = EndedTasks \cup {"aggregator"}
    BY <2>1 DEF EndedTasks
  <2>3. TaskCascade!TaskEnds("aggregator")
    BY <1>1, <2>1, <2>2, EndedByState
       DEF TaskCascade!TaskEnds, TaskCascade!FindsClosed
  <2>. QED  BY <2>3 DEF TaskCascade!CascadeNext
<1>2. CASE MapPanics
  <2>1. /\ mapper = "recv" /\ mapper' = "done"
        /\ aggregator' = aggregator /\ dispatcher' = dispatcher
    BY <1>2 DEF MapPanics, tickVars, oscVars
  <2>2. EndedTasks' = EndedTasks \cup {"mapper"}
    BY <2>1 DEF EndedTasks
  <2>3. TaskCascade!TaskEnds("mapper")
    BY <2>1, <2>2, EndedByState DEF TaskCascade!TaskEnds
  <2>. QED  BY <2>3 DEF TaskCascade!CascadeNext
<1>3. CASE DispatcherEnds
  <2>1. /\ dispatcher = "recv" /\ dispatcher' = "done" /\ mapper = "done"
        /\ aggregator' = aggregator /\ mapper' = mapper
    BY <1>3 DEF DispatcherEnds, NoneAnyMore, tickVars, mapVars
  <2>2. EndedTasks' = EndedTasks \cup {"dispatcher"}
    BY <2>1 DEF EndedTasks
  <2>3. TaskCascade!TaskEnds("dispatcher")
    BY <2>1, <2>2, EndedByState
       DEF TaskCascade!TaskEnds, TaskCascade!RunsDry
  <2>. QED  BY <2>3 DEF TaskCascade!CascadeNext
<1>4. CASE ~(TickSend /\ mapper = "done") /\ ~MapPanics /\ ~DispatcherEnds
  <2>1. UNCHANGED <<aggregator = "done", mapper = "done", dispatcher = "done">>
    BY <1>4 DEF Next, ClockAdvances, ClockSetBack, TickStart, TickSend, Mapper,
                MapSnapshot, SendParams, Dispatcher, SkipEmpty, PickUp,
                SendBundle, Observe, WriteRules, WriteBackends, vars,
                tickVars, mapVars, oscVars
  <2>. QED  BY <2>1, CascadeKept
<1>. QED  BY <1>1, <1>2, <1>3, <1>4

\* The three tasks end as the cascade has it, whatever the capacities and the
\* rules: the aggregator and the dispatcher only after the mapping engine.
THEOREM PathEndsInCascade == Spec => EndsInCascade
<1>1. Init => TaskCascade!CascadeInit
  BY DEF Init, EndedTasks, TaskCascade!CascadeInit
<1>. QED  BY <1>1, CascadeStep, PTL DEF Spec, EndsInCascade, TaskCascade!CascadeSpec

---------------------------------------------------------------------------
(* Removed backends.                                                       *)

\* What a backend that is off the list has got, and what lies ahead of it in
\* the fan-out, is within what some list has; one on the list got nothing.
StrayInv ==
    \A b \in BackendIds :
        /\ b \in RangeOf(backends) => strays[b] = 0
        /\ \E list \in BackendLists :
               strays[b] + Occurs(b, left) <= Occurs(b, list)

LEMMA OccursType ==
    ASSUME NEW S, NEW s \in Seq(S), NEW b
    PROVE  /\ IsFiniteSet({i \in DOMAIN s : s[i] = b}) /\ Occurs(b, s) \in Nat
<1>1. DOMAIN s = 1 .. Len(s) /\ Len(s) \in Nat
  BY LenProperties
<1>2. IsFiniteSet(1 .. Len(s))
  BY <1>1, FS_Interval
<1>3. IsFiniteSet({i \in DOMAIN s : s[i] = b})
  BY <1>1, <1>2, FS_Subset
<1>. QED  BY <1>3, FS_CardinalityType DEF Occurs

\* One occurrence less of the head, and no more of anybody else.
LEMMA OccursInTail ==
    ASSUME NEW S, NEW s \in Seq(S), s # <<>>, NEW b
    PROVE  /\ Occurs(b, Tail(s)) <= Occurs(b, s)
           /\ b = Head(s) => Occurs(b, Tail(s)) + 1 <= Occurs(b, s)
<1>. DEFINE A == {i \in DOMAIN s : s[i] = b}
            B == {i \in DOMAIN Tail(s) : Tail(s)[i] = b}
            next == [i \in B |-> i + 1]
<1>1. /\ Len(s) \in Nat /\ Len(s) > 0 /\ DOMAIN s = 1 .. Len(s)
      /\ DOMAIN Tail(s) = 1 .. Len(s) - 1 /\ Head(s) = s[1]
      /\ Tail(s) \in Seq(S) /\ \A i \in 1 .. Len(s) - 1 : Tail(s)[i] = s[i + 1]
  BY HeadTailProperties, EmptySeq, LenProperties
<1>2. /\ IsFiniteSet(A) /\ Occurs(b, s) = Cardinality(A) /\ Cardinality(A) \in Nat
      /\ Occurs(b, Tail(s)) = Cardinality(B) /\ Cardinality(B) \in Nat
  BY <1>1, OccursType DEF Occurs
<1>3. next \in Injection(B, A \ {1})
  BY <1>1 DEF Injection, IsInjective
<1>. HIDE DEF A, B, next
<1>4. IsFiniteSet(A \ {1}) /\ Cardinality(A \ {1}) \in Nat
  BY <1>2, FS_Subset, FS_CardinalityType
<1>5. Cardinality(B) <= Cardinality(A \ {1})
  BY <1>3, <1>4, FS_Injection
<1>6. Cardinality(A \ {1}) = IF 1 \in A THEN Cardinality(A) - 1 ELSE Cardinality(A)
  BY <1>2, FS_RemoveElement
<1>7. b = Head(s) => 1 \in A
  BY <1>1 DEF A
<1>. QED  BY <1>2, <1>4, <1>5, <1>6, <1>7

\* Who is not in a list does not occur in it.
LEMMA OccursNot ==
    ASSUME NEW list, NEW b, b \notin RangeOf(list)
    PROVE  Occurs(b, list) = 0
<1>1. {i \in DOMAIN list : list[i] = b} = {}
  BY DEF RangeOf
<1>. QED  BY <1>1, FS_EmptySet DEF Occurs

LEMMA ListOccurs ==
    ASSUME NEW list \in BackendLists, NEW b
    PROVE  Occurs(b, list) \in Nat
BY AudioAssumption, OccursType

LEMMA StrayInit == Init => StrayInv
<1>. SUFFICES ASSUME Init, NEW b \in BackendIds
              PROVE  \E list \in BackendLists :
                         strays[b] + Occurs(b, left) <= Occurs(b, list)
  BY DEF Init, StrayInv
<1>1. Occurs(b, left) = 0 /\ strays[b] = 0
  BY OccursNot DEF Init, RangeOf
<1>2. FirstBackends \in BackendLists /\ Occurs(b, FirstBackends) \in Nat
  BY AudioAssumption, ListOccurs
<1>. QED  BY <1>1, <1>2

LEMMA StrayPickUp ==
    ASSUME TypeOK, StrayInv, PickUp
    PROVE  StrayInv'
<1>1. left' = backends /\ backends' = backends /\ strays' = strays
  BY DEF PickUp, configVars
<1>. SUFFICES ASSUME NEW b \in BackendIds
              PROVE  \E list \in BackendLists :
                         strays[b] + Occurs(b, backends) <= Occurs(b, list)
  BY <1>1 DEF StrayInv
<1>2. CASE b \in RangeOf(backends)
  <2>1. strays[b] = 0 /\ backends \in BackendLists
    BY <1>2 DEF StrayInv, TypeOK
  <2>. QED  BY <2>1, ListOccurs
<1>3. CASE b \notin RangeOf(backends)
  <2>1. PICK list \in BackendLists : strays[b] + Occurs(b, left) <= Occurs(b, list)
    BY DEF StrayInv
  <2>2. /\ Occurs(b, left) \in Nat /\ Occurs(b, list) \in Nat
        /\ strays[b] \in Nat /\ Occurs(b, backends) = 0
    BY <1>3, OccursType, ListOccurs, OccursNot DEF TypeOK
  <2>. QED  BY <2>1, <2>2
<1>. QED  BY <1>2, <1>3

LEMMA StraySend ==
    ASSUME TypeOK, StrayInv, SendBundle
    PROVE  StrayInv'
<1>. DEFINE h == Head(left)
<1>1. /\ left # <<>> /\ left' = Tail(left) /\ backends' = backends
      /\ strays' = IF h \in RangeOf(backends) THEN strays
                   ELSE [strays EXCEPT ![h] = @ + 1]
  BY DEF SendBundle, AfterSend, configVars
<1>2. /\ left \in Seq(BackendIds) /\ Tail(left) \in Seq(BackendIds)
      /\ h \in BackendIds /\ strays \in [BackendIds -> Nat]
  BY <1>1, TakeType DEF TypeOK
<1>. SUFFICES ASSUME NEW b \in BackendIds
              PROVE  /\ b \in RangeOf(backends) => strays'[b] = 0
                     /\ \E list \in BackendLists :
                            strays'[b] + Occurs(b, left') <= Occurs(b, list)
  BY <1>1 DEF StrayInv
<1>3. strays'[b] = IF b = h /\ b \notin RangeOf(backends) THEN strays[b] + 1
                   ELSE strays[b]
  BY <1>1, <1>2
<1>4. PICK list \in BackendLists : strays[b] + Occurs(b, left) <= Occurs(b, list)
  BY DEF StrayInv
<1>5. /\ Occurs(b, left') <= Occurs(b, left)
      /\ b = h => Occurs(b, left') + 1 <= Occurs(b, left)
  BY <1>1, <1>2, OccursInTail
<1>6. /\ Occurs(b, left) \in Nat /\ Occurs(b, left') \in Nat
      /\ Occurs(b, list) \in Nat /\ strays[b] \in Nat
  BY <1>1, <1>2, OccursType, ListOccurs
<1>7. strays'[b] + Occurs(b, left') <= Occurs(b, list)
  BY <1>3, <1>4, <1>5, <1>6
<1>8. b \in RangeOf(backends) => strays'[b] = 0
  BY <1>3 DEF StrayInv
<1>. QED  BY <1>7, <1>8

LEMMA StrayWrite ==
    ASSUME TypeOK, StrayInv, WriteBackends
    PROVE  StrayInv'
<1>1. /\ left' = left
      /\ \A b \in BackendIds :
             strays'[b] = IF b \in RangeOf(backends') THEN 0 ELSE strays[b]
  BY DEF WriteBackends, oscVars
<1>2. ASSUME NEW b \in BackendIds
      PROVE  \E list \in BackendLists :
                 strays'[b] + Occurs(b, left') <= Occurs(b, list)
  <2>1. PICK list \in BackendLists : strays[b] + Occurs(b, left) <= Occurs(b, list)
    BY DEF StrayInv
  <2>2. /\ Occurs(b, left) \in Nat /\ Occurs(b, list) \in Nat
        /\ strays[b] \in Nat
    BY OccursType, ListOccurs DEF TypeOK
  <2>. QED  BY <1>1, <2>1, <2>2
<1>. QED  BY <1>1, <1>2 DEF StrayInv

LEMMA StrayStep == TypeOK /\ StrayInv /\ [Next]_vars => StrayInv'
<1>. SUFFICES ASSUME TypeOK, StrayInv, [Next]_vars PROVE StrayInv'
  OBVIOUS
<1>1. \/ PickUp \/ SendBundle \/ WriteBackends
      \/ UNCHANGED <<left, backends, strays>>
  BY DEF Next, Mapper, Dispatcher, ClockAdvances, ClockSetBack, TickStart,
         TickSend, MapSnapshot, MapPanics, SendParams, SkipEmpty, Observe,
         DispatcherEnds, WriteRules, vars, oscVars, configVars, history
<1>. QED  BY <1>1, StrayPickUp, StraySend, StrayWrite DEF StrayInv

\* However the list of backends changes under the fan-out, a backend taken off
\* it gets at most one bundle more, as often as a list may have it.
THEOREM StraysBounded == Spec => []StrayBound
<1>1. TypeOK /\ StrayInv => StrayBound
  <2>. SUFFICES ASSUME TypeOK, StrayInv, NEW b \in BackendIds
                PROVE  \E list \in BackendLists : strays[b] <= Occurs(b, list)
    BY DEF StrayBound
  <2>1. PICK list \in BackendLists : strays[b] + Occurs(b, left) <= Occurs(b, list)
    BY DEF StrayInv
  <2>2. /\ Occurs(b, left) \in Nat /\ Occurs(b, list) \in Nat
        /\ strays[b] \in Nat
    BY OccursType, ListOccurs DEF TypeOK
  <2>. QED  BY <2>1, <2>2
<1>2. Init => TypeOK /\ StrayInv
  BY TypeInit, StrayInit
<1>3. (TypeOK /\ StrayInv) /\ [Next]_vars => (TypeOK /\ StrayInv)'
  BY TypeStep, StrayStep
<1>. QED  BY <1>1, <1>2, <1>3, PTL DEF Spec

---------------------------------------------------------------------------
(* Old rules.                                                              *)

\* Behind the first k bundles of the queue and the mapping engine's hand all
\* were mapped with the rules in force.
NewFrom(k) ==
    /\ \A i \in DOMAIN params : i > k => params[i].epoch = reloads
    /\ \A i \in DOMAIN inMapper : Len(params) + i > k => inMapper[i].epoch = reloads

\* Those k and the old ones already played are together within the bound.
RulesAgeInv == \E k \in Nat : stalePlayed + k <= ParamCap + 1 /\ NewFrom(k)

LEMMA AgeInit == Init => RulesAgeInv
<1>. SUFFICES ASSUME Init PROVE RulesAgeInv
  OBVIOUS
<1>1. stalePlayed + 0 <= ParamCap + 1
  BY AudioAssumption DEF Init
<1>2. NewFrom(0)
  BY DEF Init, NewFrom
<1>. QED  BY <1>1, <1>2 DEF RulesAgeInv

LEMMA AgeMap ==
    ASSUME TypeOK, RulesAgeInv, MapSnapshot
    PROVE  RulesAgeInv'
<1>1. PICK k \in Nat : stalePlayed + k <= ParamCap + 1 /\ NewFrom(k)
  BY DEF RulesAgeInv
<1>. DEFINE new == [id |-> Head(snaps).id, ts |-> Head(snaps).ts,
                    epoch |-> reloads, empty |-> rules \in Mute]
<1>2. /\ inMapper' = <<new>> /\ params' = params /\ reloads' = reloads
      /\ stalePlayed' = stalePlayed
  BY DEF MapSnapshot, RulesInForce, configVars, history
<1>3. new.epoch = reloads
  OBVIOUS
<1>. HIDE DEF new
<1>4. \A i \in DOMAIN inMapper' : inMapper'[i] = new
  BY <1>2
<1>5. NewFrom(k)'
  BY <1>1, <1>2, <1>3, <1>4 DEF NewFrom
<1>. QED  BY <1>1, <1>2, <1>5 DEF RulesAgeInv

LEMMA AgeSend ==
    ASSUME TypeOK, RulesAgeInv, SendParams
    PROVE  RulesAgeInv'
<1>1. PICK k \in Nat : stalePlayed + k <= ParamCap + 1 /\ NewFrom(k)
  BY DEF RulesAgeInv
<1>2. /\ mapper = "send" /\ inMapper' = <<>>
      /\ reloads' = reloads /\ stalePlayed' = stalePlayed
      /\ params' = Append(params, inMapper[1]) \/ params' = params
  BY DEF SendParams, Queued, configVars, history
<1>3. CASE params' = params
  BY <1>1, <1>2, <1>3 DEF NewFrom, RulesAgeInv
<1>4. CASE params' = Append(params, inMapper[1])
  <2>1. inMapper[1] \in Frames /\ inMapper = <<inMapper[1]>>
    BY <1>2, Holding
  <2>2. params \in Seq(Frames)
    BY DEF TypeOK
  <2>3. /\ DOMAIN params' = 1 .. Len(params) + 1 /\ DOMAIN params = 1 .. Len(params)
        /\ Len(params) \in Nat /\ params'[Len(params) + 1] = inMapper[1]
        /\ \A i \in 1 .. Len(params) : params'[i] = params[i]
    BY <1>4, <2>1, <2>2, AppendProperties
  <2>4. Len(params) + 1 > k => inMapper[1].epoch = reloads
    BY <1>1, <2>1 DEF NewFrom
  <2>5. \A i \in DOMAIN params' : i > k => params'[i].epoch = reloads'
    BY <1>1, <1>2, <2>3, <2>4 DEF NewFrom
  <2>6. NewFrom(k)'
    BY <1>2, <2>5 DEF NewFrom
  <2>. QED  BY <1>1, <1>2, <2>6 DEF RulesAgeInv
<1>. QED  BY <1>2, <1>3, <1>4

LEMMA AgeReceive ==
    ASSUME TypeOK, RulesAgeInv, SkipEmpty \/ PickUp
    PROVE  RulesAgeInv'
<1>1. PICK k \in Nat : stalePlayed + k <= ParamCap + 1 /\ NewFrom(k)
  BY DEF RulesAgeInv
<1>2. /\ params # <<>> /\ params' = Tail(params)
      /\ inMapper' = inMapper /\ reloads' = reloads
  BY DEF SkipEmpty, PickUp, mapVars, configVars
<1>3. /\ Len(params) \in Nat /\ Len(params) > 0 /\ DOMAIN params = 1 .. Len(params)
      /\ DOMAIN params' = 1 .. Len(params) - 1 /\ Len(params') = Len(params) - 1
      /\ Head(params) = params[1]
      /\ \A i \in 1 .. Len(params) - 1 : params'[i] = params[i + 1]
  BY <1>2, HeadTailProperties, EmptySeq, LenProperties DEF TypeOK
<1>4. \/ stalePlayed' = stalePlayed
      \/ stalePlayed' = stalePlayed + 1 /\ Head(params).epoch < reloads
  BY DEF SkipEmpty, PickUp, history, TypeOK
<1>5. DOMAIN inMapper \subseteq Nat
  BY DEF TypeOK
<1>6. stalePlayed \in Nat /\ reloads \in Nat
  BY DEF TypeOK
<1>7. CASE k = 0
  <2>1. Head(params).epoch = reloads
    BY <1>1, <1>3, <1>7 DEF NewFrom
  <2>2. stalePlayed' = stalePlayed
    BY <1>4, <1>6, <2>1
  <2>3. NewFrom(k)'
    BY <1>1, <1>2, <1>3, <1>5, <1>7 DEF NewFrom
  <2>. QED  BY <1>1, <2>2, <2>3 DEF RulesAgeInv
<1>8. CASE k > 0
  <2>1. k - 1 \in Nat /\ stalePlayed' + (k - 1) <= ParamCap + 1
    BY <1>1, <1>4, <1>6, <1>8, AudioAssumption
  <2>2. \A i \in DOMAIN params' : i > k - 1 => params'[i].epoch = reloads'
    BY <1>1, <1>2, <1>3 DEF NewFrom
  <2>3. \A i \in DOMAIN inMapper' :
            Len(params') + i > k - 1 => inMapper'[i].epoch = reloads'
    BY <1>1, <1>2, <1>3, <1>5 DEF NewFrom
  <2>4. NewFrom(k - 1)'
    BY <2>2, <2>3 DEF NewFrom
  <2>. QED  BY <2>1, <2>4 DEF RulesAgeInv
<1>. QED  BY <1>7, <1>8

LEMMA AgeReload ==
    ASSUME TypeOK, RulesAgeInv, WriteRules
    PROVE  RulesAgeInv'
<1>1. stalePlayed' = 0 /\ params' = params /\ inMapper' = inMapper
  BY DEF WriteRules, mapVars
<1>2. /\ Len(params) \in Nat /\ Len(params) <= ParamCap
      /\ Len(inMapper) \in Nat /\ Len(inMapper) <= 1 /\ ParamCap \in Nat
      /\ DOMAIN params = 1 .. Len(params) /\ DOMAIN inMapper = 1 .. Len(inMapper)
  <2>1. /\ params \in Seq(Frames) /\ Len(params) <= ParamCap
        /\ inMapper \in Seq(Frames)
        /\ Len(inMapper) = IF mapper = "send" THEN 1 ELSE 0
    BY DEF TypeOK
  <2>2. Len(inMapper) \in Nat
    BY <2>1, LenProperties
  <2>3. Len(inMapper) <= 1
    BY <2>1, <2>2
  <2>. QED  BY <2>1, <2>2, <2>3, AudioAssumption, LenProperties
<1>3. PICK k \in Nat : k = Len(params) + Len(inMapper)
  BY <1>2
<1>4. stalePlayed' + k <= ParamCap + 1
  <2>1. k <= ParamCap + 1
    BY <1>2, <1>3
  <2>2. stalePlayed' = 0 /\ 0 + k = k
    BY <1>1, <1>3
  <2>. QED  BY <2>1, <2>2
<1>5. /\ \A i \in DOMAIN params' : ~(i > k)
      /\ \A i \in DOMAIN inMapper' : ~(Len(params') + i > k)
  BY <1>1, <1>2, <1>3
<1>6. NewFrom(k)'
  BY <1>1, <1>5 DEF NewFrom
<1>. QED  BY <1>4, <1>6 DEF RulesAgeInv

LEMMA AgeStep == TypeOK /\ RulesAgeInv /\ [Next]_vars => RulesAgeInv'
<1>. SUFFICES ASSUME TypeOK, RulesAgeInv, [Next]_vars PROVE RulesAgeInv'
  OBVIOUS
<1>1. \/ MapSnapshot \/ SendParams \/ SkipEmpty \/ PickUp \/ WriteRules
      \/ UNCHANGED <<params, inMapper, reloads, stalePlayed>>
  BY DEF Next, Mapper, Dispatcher, ClockAdvances, ClockSetBack, TickStart,
         TickSend, MapPanics, SendBundle, Observe, DispatcherEnds,
         WriteBackends, vars, mapVars, configVars, history
<1>. QED  BY <1>1, AgeMap, AgeSend, AgeReceive, AgeReload DEF RulesAgeInv, NewFrom

\* After a reload at most the queued bundles and the one in the mapping
\* engine's hand are heard with older rules.
THEOREM OldRulesBounded == Spec => []OldRulesBound
<1>1. TypeOK /\ RulesAgeInv => OldRulesBound
  BY AudioAssumption DEF RulesAgeInv, OldRulesBound, TypeOK
<1>2. Init => TypeOK /\ RulesAgeInv
  BY TypeInit, AgeInit
<1>3. (TypeOK /\ RulesAgeInv) /\ [Next]_vars => (TypeOK /\ RulesAgeInv)'
  BY TypeStep, AgeStep
<1>. QED  BY <1>1, <1>2, <1>3, PTL DEF Spec

---------------------------------------------------------------------------
(* The order at the backends.                                              *)

\* A backend has heard nothing newer than what the dispatcher picked up last,
\* which is what it holds during the fan-out.
HeardInv ==
    /\ \A b \in BackendIds : seen[b] <= played
    /\ dispatcher = "fan" => frame[1].id = played

LEMMA HeardInit == Init => HeardInv
BY DEF Init, HeardInv

LEMMA HeardPickUp ==
    ASSUME PathInv, HeardInv, PickUp
    PROVE  HeardInv' /\ seen' = seen
<1>1. /\ params # <<>> /\ frame' = <<Head(params)>> /\ played' = Head(params).id
      /\ seen' = seen
  BY DEF PickUp
<1>2. Head(params).id \in Ids(params)
  <2>1. 1 \in DOMAIN params /\ Head(params) = params[1]
    BY <1>1, TakeType DEF PathInv, TypeOK
  <2>. QED  BY <2>1 DEF Ids
<1>3. played < played' /\ played \in Nat /\ played' \in Nat
  BY <1>1, <1>2, PathTypes DEF PathInv, InFlight
<1>4. \A b \in BackendIds : seen[b] \in Nat /\ seen[b] <= played
  BY DEF PathInv, TypeOK, HeardInv
<1>5. \A b \in BackendIds : seen'[b] <= played'
  BY <1>1, <1>3, <1>4
<1>6. frame'[1].id = played'
  BY <1>1
<1>. QED  BY <1>1, <1>5, <1>6 DEF HeardInv

LEMMA HeardSend ==
    ASSUME PathInv, HeardInv, SendBundle
    PROVE  HeardInv' /\ \A b \in BackendIds : seen'[b] >= seen[b]
<1>1. /\ dispatcher = "fan" /\ dispatcher' = "fan" /\ frame' = frame
      /\ played' = played
      /\ seen' = [seen EXCEPT ![Head(left)] = frame[1].id] \/ seen' = seen
  BY DEF SendBundle
<1>2. /\ seen \in [BackendIds -> Nat] /\ frame[1].id = played /\ played \in Nat
      /\ \A b \in BackendIds : seen[b] <= played
  BY <1>1 DEF PathInv, TypeOK, HeardInv
<1>3. \A b \in BackendIds : seen'[b] = seen[b] \/ seen'[b] = played
  BY <1>1, <1>2
<1>4. \A b \in BackendIds : seen'[b] >= seen[b] /\ seen'[b] <= played
  BY <1>2, <1>3
<1>. QED  BY <1>1, <1>2, <1>4 DEF HeardInv

LEMMA HeardStep ==
    PathInv /\ HeardInv /\ [Next]_vars
        => HeardInv' /\ \A b \in BackendIds : seen'[b] >= seen[b]
<1>. SUFFICES ASSUME PathInv, HeardInv, [Next]_vars
              PROVE  HeardInv' /\ \A b \in BackendIds : seen'[b] >= seen[b]
  OBVIOUS
<1>1. \/ PickUp \/ SendBundle
      \/ /\ UNCHANGED <<seen, played>>
         /\ UNCHANGED <<dispatcher, frame>> \/ dispatcher' # "fan"
  BY DEF Next, Mapper, Dispatcher, ClockAdvances, ClockSetBack, TickStart,
         TickSend, MapSnapshot, MapPanics, SendParams, SkipEmpty, Observe,
         DispatcherEnds, WriteRules, WriteBackends, vars, oscVars, history
<1>2. \A b \in BackendIds : seen[b] >= seen[b]
  BY DEF PathInv, TypeOK
<1>. QED  BY <1>1, <1>2, HeardPickUp, HeardSend DEF HeardInv

\* No backend ever receives an older snapshot after a newer one, whatever the
\* queues drop, the sends lose and the lists of backends become.
THEOREM HeardInOrder == Spec => BackendsInOrder
<1>1. PathInv /\ HeardInv /\ [Next]_vars
          => [\A b \in BackendIds : seen'[b] >= seen[b]]_vars
  BY HeardStep
<1>2. Init => PathInv /\ HeardInv
  BY PathInit, HeardInit
<1>3. (PathInv /\ HeardInv) /\ [Next]_vars => (PathInv /\ HeardInv)'
  BY PathStep, HeardStep
<1>. QED  BY <1>1, <1>2, <1>3, PTL DEF Spec, BackendsInOrder
=============================================================================
