------------------------- MODULE PersistenceProofs --------------------------
(***************************************************************************)
(* Proofs about the store.  Of Persistence, for every capacity, retention  *)
(* and period: the order of the snapshots table, the age of rows, and what *)
(* a wipe leaves, through failing statements, exits, crashes and restarts. *)
(* Of WorkerPool, for any number of workers and tasks: who holds the mutex *)
(* that Persistence takes as one step.                                     *)
(***************************************************************************)
EXTENDS Persistence, WorkerPool, SequenceTheorems, FiniteSetTheorems, TLAPS

---------------------------------------------------------------------------
(* Types.                                                                  *)

LEMMA NewTypes ==
    ASSUME TypeOK
    PROVE  /\ NextItem \in Items
           /\ \A e \in Items : EventRow(e) \in EventRows
           /\ \A s \in Items : SnapshotRow(s) \in SnapshotRows
           /\ \A s \in Items : s.id \in Nat
BY DEF TypeOK, NextItem, Items, EventRow, EventRows, SnapshotRow, SnapshotRows

\* The channel after a try_send and after a receive.
LEMMA Channel ==
    ASSUME TypeOK
    PROVE  /\ Queued(NextItem) \in Seq(Items) /\ Len(Queued(NextItem)) = Len(dbQueue) + 1
           /\ dbQueue # <<>> =>
                 /\ Head(dbQueue) \in Items /\ WithoutReceived \in Seq(Items)
                 /\ Len(WithoutReceived) <= DbCap
<1>1. Len(dbQueue) \in Nat /\ Len(dbQueue) <= DbCap /\ DbCap \in Nat
  BY PersistenceAssumption, LenProperties DEF TypeOK
<1>2. /\ Queued(NextItem) \in Seq(Items)
      /\ Len(Queued(NextItem)) = Len(dbQueue) + 1
  BY NewTypes, AppendProperties DEF TypeOK, Queued
<1>3. ASSUME dbQueue # <<>>
      PROVE  /\ Head(dbQueue) \in Items /\ WithoutReceived \in Seq(Items)
             /\ Len(WithoutReceived) = Len(dbQueue) - 1
  BY <1>3, HeadTailProperties DEF TypeOK, WithoutReceived
<1>. QED  BY <1>1, <1>2, <1>3

LEMMA PendingIsNat ==
    ASSUME TypeOK
    PROVE  Pending \subseteq Nat
<1>1. \A e \in inserting : e.id \in Nat
  BY NewTypes DEF TypeOK
<1>2. \A i \in DOMAIN dbQueue : dbQueue[i] \in Items
  BY DEF TypeOK
<1>. QED  BY <1>1, <1>2, NewTypes DEF Pending, IdsIn, Listed

LEMMA TypeInit == Init => TypeOK
<1>. SUFFICES ASSUME Init PROVE TypeOK
  OBVIOUS
<1>1. dbQueue \in Seq(Items) /\ Len(dbQueue) <= DbCap
  BY PersistenceAssumption DEF Init
<1>. QED  BY <1>1 DEF Init, TypeOK

LEMMA TypeHandedOver ==
    ASSUME TypeOK, SpawnInsert \/ TapSnapshot
    PROVE  TypeOK'
<1>. USE DEF tables, purgeVars, wipeHistory
<1>1. CASE SpawnInsert
  BY <1>1, NewTypes DEF TypeOK, SpawnInsert
<1>2. CASE TapSnapshot
  <2>1. dbQueue' \in Seq(Items) /\ Len(dbQueue') <= DbCap
    <3>1. CASE Len(dbQueue) < DbCap
      <4>1. dbQueue' = Queued(NextItem)
        BY <1>2, <3>1 DEF TapSnapshot, HasRoom
      <4>2. Len(dbQueue) \in Nat /\ DbCap \in Nat
        BY PersistenceAssumption, LenProperties DEF TypeOK
      <4>. QED  BY <3>1, <4>1, <4>2, Channel
    <3>2. CASE ~(Len(dbQueue) < DbCap)
      BY <1>2, <3>2 DEF TapSnapshot, HasRoom, TypeOK
    <3>. QED  BY <3>1, <3>2
  <2>. QED  BY <1>2, <2>1 DEF TypeOK, TapSnapshot
<1>. QED  BY <1>1, <1>2

LEMMA TypeInsert ==
    ASSUME TypeOK, Insert \/ WriteSnapshot
    PROVE  TypeOK'
<1>. USE DEF purgeVars, wipeHistory
<1>1. CASE Insert
  <2>1. PICK e \in inserting : InsertEvent(e)
    BY <1>1 DEF Insert
  <2>2. EventRow(e) \in EventRows /\ e.id \in Nat
    BY NewTypes DEF TypeOK
  <2>3. /\ events' \in SUBSET EventRows /\ stored' \in SUBSET Nat
        /\ conn' \in {"on", "off"}
    BY <2>1, <2>2 DEF TypeOK, InsertEvent
  <2>. QED  BY <2>1, <2>3 DEF TypeOK, InsertEvent
<1>2. CASE WriteSnapshot
  <2>1. /\ Head(dbQueue) \in Items /\ dbQueue' \in Seq(Items)
        /\ Len(dbQueue') <= DbCap
    BY <1>2, Channel DEF WriteSnapshot
  <2>2. SnapshotRow(Head(dbQueue)) \in SnapshotRows /\ Head(dbQueue).id \in Nat
    BY <2>1, NewTypes
  <2>3. /\ snapshots' \in SUBSET SnapshotRows /\ stored' \in SUBSET Nat
        /\ lastKey' \in Nat /\ conn' \in {"on", "off"}
    <3>1. \/ /\ snapshots' = snapshots \cup {SnapshotRow(Head(dbQueue))}
             /\ lastKey' = lastKey + 1 /\ conn' = conn
             /\ stored' = stored \cup {Head(dbQueue).id}
          \/ conn' = "off" /\ UNCHANGED <<snapshots, lastKey, stored>>
      BY <1>2 DEF WriteSnapshot
    <3>2. /\ snapshots \in SUBSET SnapshotRows /\ stored \in SUBSET Nat
          /\ lastKey \in Nat /\ conn \in {"on", "off"}
      BY DEF TypeOK
    <3>3. snapshots' \in SUBSET SnapshotRows
      BY <2>2, <3>1, <3>2
    <3>4. stored' \in SUBSET Nat
      BY <2>2, <3>1, <3>2
    <3>5. lastKey' \in Nat
      BY <3>1, <3>2
    <3>6. conn' \in {"on", "off"}
      BY <3>1, <3>2
    <3>. QED  BY <3>3, <3>4, <3>5, <3>6
  <2>. QED  BY <1>2, <2>1, <2>3 DEF TypeOK, WriteSnapshot
<1>. QED  BY <1>1, <1>2

LEMMA TypePurge ==
    ASSUME TypeOK, Purge
    PROVE  TypeOK'
<1>. USE DEF pending, history, wipeHistory
<1>1. NextPurge \in Nat
  BY PersistenceAssumption DEF TypeOK, NextPurge
<1>2. CASE PurgeEvents
  <2>1. cutoff' \in Nat
    BY <1>2, PersistenceAssumption DEF TypeOK, PurgeEvents
  <2>. QED  BY <1>1, <1>2, <2>1 DEF TypeOK, PurgeEvents
<1>3. CASE PurgeSnapshots
  BY <1>1, <1>3 DEF TypeOK, PurgeSnapshots
<1>. QED  BY <1>2, <1>3 DEF Purge

LEMMA TypeWipe ==
    ASSUME TypeOK, Wipe
    PROVE  TypeOK'
<1>. USE DEF pending, purgeVars
<1>1. UNCHANGED wipeHistory \/ Answered200(TRUE) \/ Answered200(FALSE)
  BY DEF Wipe, WipeEvents, WipeSnapshots
<1>2. cleared' \in Nat /\ residue' \in SUBSET Nat /\ hollow' \in BOOLEAN
  <2>1. CASE UNCHANGED wipeHistory
    BY <2>1 DEF TypeOK, wipeHistory
  <2>2. CASE Answered200(TRUE) \/ Answered200(FALSE)
    BY <2>2, PendingIsNat DEF TypeOK, Answered200
  <2>. QED  BY <1>1, <2>1, <2>2
<1>3. CASE WipeEvents
  <2>1. /\ events' \in SUBSET EventRows /\ conn' \in {"on", "off"}
        /\ mutex' \in {"free", "purge", "wipe"}
        /\ mutex' # "free" => up /\ conn' = "on"
        /\ wipes' \in Nat
    <3>1. \/ conn' = "on" /\ events' = {} /\ mutex' = "wipe"
          \/ conn' = "off" /\ events' = events /\ mutex' = "free"
      BY <1>3 DEF WipeEvents, LeftByWipe
    <3>2. up /\ wipes' = wipes + 1 /\ wipes \in Nat /\ events \in SUBSET EventRows
      BY <1>3 DEF TypeOK, WipeEvents
    <3>. QED  BY <3>1, <3>2
  <2>. QED  BY <1>2, <1>3, <2>1 DEF TypeOK, WipeEvents
<1>4. CASE WipeSnapshots
  BY <1>2, <1>4 DEF TypeOK, WipeSnapshots
<1>. QED  BY <1>3, <1>4 DEF Wipe

LEMMA TypeProcess ==
    ASSUME TypeOK, ClockAdvances \/ Exit \/ Crash \/ Start
    PROVE  TypeOK'
<1>. USE DEF tables, pending, purgeVars, history, wipeHistory
<1>1. CASE ClockAdvances
  BY <1>1 DEF TypeOK, ClockAdvances
<1>2. CASE Exit \/ Crash
  <2>1. dbQueue' = <<>>
    BY <1>2 DEF Exit, Crash
  <2>2. dbQueue' \in Seq(Items) /\ Len(dbQueue') <= DbCap
    BY <2>1, PersistenceAssumption
  <2>. QED  BY <1>2, <2>2 DEF TypeOK, Exit, Crash
<1>3. CASE Start
  BY <1>3 DEF TypeOK, Start
<1>. QED  BY <1>1, <1>2, <1>3

LEMMA TypeStep == TypeOK /\ [Next]_vars => TypeOK'
<1>1. TypeOK /\ UNCHANGED vars => TypeOK'
  BY DEF TypeOK, vars, tables, pending, purgeVars, history, wipeHistory
<1>. QED  BY <1>1, TypeHandedOver, TypeInsert, TypePurge, TypeWipe, TypeProcess
             DEF Next

\* The tables and channels keep their types and capacity, and the mutex is
\* held across statements only by a running process with a connection.
THEOREM TypeCorrect == Spec => []TypeOK
BY TypeInit, TypeStep, PTL DEF Spec

---------------------------------------------------------------------------
(* The order of the snapshots.                                             *)

\* Numbers rise through the channel, everything is numbered by now, and keys
\* are given in turn.
OrderInv ==
    /\ SnapshotsInOrder
    /\ \A i, j \in DOMAIN dbQueue : i < j => dbQueue[i].id < dbQueue[j].id
    /\ \A j \in DOMAIN dbQueue : dbQueue[j].id <= made
    /\ \A r \in snapshots : r.key <= lastKey /\ r.id <= made

LEMMA OrderInit == Init => OrderInv
BY DEF Init, OrderInv, SnapshotsInOrder

LEMMA OrderTap ==
    ASSUME TypeOK, OrderInv, TapSnapshot
    PROVE  OrderInv'
<1>1. /\ dbQueue' = Append(dbQueue, NextItem) \/ dbQueue' = dbQueue
      /\ made' = made + 1 /\ snapshots' = snapshots /\ lastKey' = lastKey
  BY DEF TapSnapshot, Queued, tables
<1>2. /\ made \in Nat /\ NextItem.id = made + 1
      /\ \A j \in DOMAIN dbQueue : dbQueue[j].id \in Nat
      /\ \A r \in snapshots : r.id \in Nat /\ r.key \in Nat
  BY NewTypes DEF TypeOK, NextItem, SnapshotRows
<1>3. CASE dbQueue' = dbQueue
  BY <1>1, <1>2, <1>3 DEF OrderInv, SnapshotsInOrder
<1>4. CASE dbQueue' = Append(dbQueue, NextItem)
  <2>1. /\ DOMAIN dbQueue' = 1 .. Len(dbQueue) + 1
        /\ DOMAIN dbQueue = 1 .. Len(dbQueue) /\ Len(dbQueue) \in Nat
        /\ dbQueue'[Len(dbQueue) + 1].id = made + 1
        /\ \A i \in 1 .. Len(dbQueue) : dbQueue'[i] = dbQueue[i]
    BY <1>2, <1>4, NewTypes, AppendProperties DEF TypeOK
  <2>2. \A j \in DOMAIN dbQueue' :
            j \in DOMAIN dbQueue \/ j = Len(dbQueue) + 1
    BY <2>1
  <2>3. \A i, j \in DOMAIN dbQueue' : i < j => dbQueue'[i].id < dbQueue'[j].id
    <3>. SUFFICES ASSUME NEW i \in DOMAIN dbQueue', NEW j \in DOMAIN dbQueue', i < j
                  PROVE  dbQueue'[i].id < dbQueue'[j].id
      OBVIOUS
    <3>1. i \in DOMAIN dbQueue
      BY <2>1
    <3>2. dbQueue[i].id \in Nat /\ dbQueue[i].id <= made
      BY <1>2, <3>1 DEF OrderInv
    <3>. QED  BY <1>2, <2>1, <2>2, <3>1, <3>2 DEF OrderInv
  <2>4. \A j \in DOMAIN dbQueue' : dbQueue'[j].id <= made'
    BY <1>1, <1>2, <2>1, <2>2 DEF OrderInv
  <2>5. \A r \in snapshots', j \in DOMAIN dbQueue' : r.id < dbQueue'[j].id
    BY <1>1, <1>2, <2>1, <2>2 DEF OrderInv, SnapshotsInOrder
  <2>6. \A r \in snapshots' : r.key <= lastKey' /\ r.id <= made'
    BY <1>1, <1>2 DEF OrderInv
  <2>. QED  BY <1>1, <2>3, <2>4, <2>5, <2>6 DEF OrderInv, SnapshotsInOrder
<1>. QED  BY <1>1, <1>3, <1>4

LEMMA OrderWrite ==
    ASSUME TypeOK, OrderInv, WriteSnapshot
    PROVE  OrderInv'
<1>. DEFINE new == SnapshotRow(Head(dbQueue))
<1>1. /\ dbQueue # <<>> /\ dbQueue' = Tail(dbQueue) /\ made' = made
      /\ \/ snapshots' = snapshots \cup {new} /\ lastKey' = lastKey + 1
         \/ snapshots' = snapshots /\ lastKey' = lastKey
  BY DEF WriteSnapshot, WithoutReceived
<1>2. /\ Len(dbQueue) \in Nat /\ Len(dbQueue) > 0
      /\ DOMAIN dbQueue = 1 .. Len(dbQueue) /\ Head(dbQueue) = dbQueue[1]
      /\ DOMAIN dbQueue' = 1 .. Len(dbQueue) - 1
      /\ \A i \in 1 .. Len(dbQueue) - 1 : dbQueue'[i] = dbQueue[i + 1]
  BY <1>1, HeadTailProperties, EmptySeq, LenProperties DEF TypeOK
<1>3. /\ new.key = lastKey + 1 /\ new.id = dbQueue[1].id
      /\ lastKey \in Nat /\ made \in Nat
      /\ \A j \in DOMAIN dbQueue : dbQueue[j].id \in Nat
      /\ \A r \in snapshots : r.id \in Nat /\ r.key \in Nat
  BY <1>2, NewTypes DEF TypeOK, SnapshotRow, SnapshotRows
<1>. HIDE DEF new
<1>4. /\ \A i, j \in DOMAIN dbQueue' : i < j => dbQueue'[i].id < dbQueue'[j].id
      /\ \A j \in DOMAIN dbQueue' : dbQueue'[j].id <= made'
      /\ \A j \in DOMAIN dbQueue' : dbQueue[1].id < dbQueue'[j].id
  BY <1>1, <1>2 DEF OrderInv
<1>5. \A r \in snapshots', j \in DOMAIN dbQueue' : r.id < dbQueue'[j].id
  BY <1>1, <1>2, <1>3, <1>4 DEF OrderInv, SnapshotsInOrder
<1>6. \A r \in snapshots : r.id < dbQueue[1].id /\ r.key < lastKey + 1
  BY <1>2, <1>3 DEF OrderInv, SnapshotsInOrder
<1>7. \A r, q \in snapshots' : r.key < q.key => r.id < q.id
  BY <1>1, <1>3, <1>6 DEF OrderInv, SnapshotsInOrder
<1>8. \A r \in snapshots' : r.key <= lastKey' /\ r.id <= made'
  BY <1>1, <1>2, <1>3, <1>6 DEF OrderInv
<1>. QED  BY <1>4, <1>5, <1>7, <1>8 DEF OrderInv, SnapshotsInOrder

\* All other steps leave the channel or empty it, and only remove rows.
LEMMA OrderOthers ==
    ASSUME TypeOK, OrderInv, dbQueue' \in {dbQueue, <<>>},
           snapshots' \subseteq snapshots, lastKey' = lastKey,
           made' \in {made, made + 1}
    PROVE  OrderInv'
<1>1. /\ made \in Nat /\ \A j \in DOMAIN dbQueue : dbQueue[j].id \in Nat
      /\ \A r \in snapshots : r.id \in Nat
  BY NewTypes DEF TypeOK, SnapshotRows
<1>2. /\ \A j \in DOMAIN dbQueue : dbQueue[j].id <= made'
      /\ \A r \in snapshots : r.id <= made'
  BY <1>1 DEF OrderInv
<1>. QED  BY <1>2 DEF OrderInv, SnapshotsInOrder

LEMMA OrderStep == TypeOK /\ OrderInv /\ [Next]_vars => OrderInv'
<1>. SUFFICES ASSUME TypeOK, OrderInv, [Next]_vars PROVE OrderInv'
  OBVIOUS
<1>1. \/ TapSnapshot \/ WriteSnapshot
      \/ /\ dbQueue' \in {dbQueue, <<>>} /\ snapshots' \subseteq snapshots
         /\ lastKey' = lastKey /\ made' \in {made, made + 1}
  BY DEF Next, Insert, Purge, Wipe, ClockAdvances, SpawnInsert, InsertEvent,
         PurgeEvents, PurgeSnapshots, WipeEvents, WipeSnapshots, Exit, Crash,
         Start, vars, tables, pending, history
<1>. QED  BY <1>1, OrderTap, OrderWrite, OrderOthers

\* The snapshots table stands in the order of the ticks and only newer ones
\* wait for it, through drops, failures, purges, wipes and restarts.
THEOREM StoredInOrder == Spec => []SnapshotsInOrder
<1>1. OrderInv => SnapshotsInOrder
  BY DEF OrderInv
<1>2. Init => TypeOK /\ OrderInv
  BY TypeInit, OrderInit
<1>3. (TypeOK /\ OrderInv) /\ [Next]_vars => (TypeOK /\ OrderInv)'
  BY TypeStep, OrderStep
<1>. QED  BY <1>1, <1>2, <1>3, PTL DEF Spec

---------------------------------------------------------------------------
(* The age of rows.                                                        *)

\* A row outlives the next purge only if it was inserted after the last one or
\* had not expired then.
Fresh(r) == purgeAt <= r.at + Period \/ purgeAt <= r.ts + Retention + Period

AgeInv ==
    /\ up => purgeAt <= now + Period
    /\ mutex = "purge" =>
           /\ purgeAt <= now
           /\ cutoff = IF now > Retention THEN now - Retention ELSE 0
           /\ \A r \in events : r.ts >= cutoff
    /\ up /\ conn = "on" /\ purgeAt > now => \A r \in AllRows : Fresh(r)

LEMMA RowTypes ==
    ASSUME TypeOK
    PROVE  /\ \A r \in AllRows : r.ts \in Nat /\ r.at \in Nat /\ r.id \in Nat
           /\ now \in Nat /\ purgeAt \in Nat /\ cutoff \in Nat
           /\ Period \in Nat /\ Retention \in Nat /\ Period > 0
BY PersistenceAssumption DEF TypeOK, AllRows, EventRows, SnapshotRows

LEMMA AgeInit == Init => AgeInv
BY PersistenceAssumption DEF Init, AgeInv

LEMMA AgeClock ==
    ASSUME TypeOK, AgeInv, ClockAdvances
    PROVE  AgeInv'
<1>1. /\ now' = now + 1 /\ (up => purgeAt > now)
      /\ UNCHANGED <<up, conn, mutex, events, snapshots, purgeAt, cutoff>>
  BY DEF ClockAdvances, tables, purgeVars
<1>2. mutex # "purge"
  BY <1>1, RowTypes DEF TypeOK, AgeInv
<1>. QED  BY <1>1, <1>2, RowTypes DEF AgeInv, Fresh, AllRows

LEMMA AgeInsert ==
    ASSUME TypeOK, AgeInv, Insert \/ WriteSnapshot
    PROVE  AgeInv'
<1>1. /\ UNCHANGED <<now, up, mutex, purgeAt, cutoff>> /\ up /\ mutex = "free"
      /\ conn' = conn \/ conn' = "off"
      /\ \A r \in AllRows' : r \in AllRows \/ r.at = now
  BY DEF Insert, InsertEvent, WriteSnapshot, EventRow, SnapshotRow, AllRows,
         purgeVars
<1>2. \A r \in AllRows' : r \in AllRows \/ Fresh(r)
  BY <1>1, RowTypes DEF AgeInv, Fresh
<1>3. ASSUME conn' = "on", purgeAt > now, NEW r \in AllRows'
      PROVE  Fresh(r)'
  BY <1>1, <1>2, <1>3 DEF AgeInv, Fresh
<1>. QED  BY <1>1, <1>3 DEF AgeInv

LEMMA AgePurge ==
    ASSUME TypeOK, AgeInv, Purge
    PROVE  AgeInv'
<1>1. UNCHANGED <<now, up>> /\ up
  BY DEF Purge, PurgeEvents, PurgeSnapshots
<1>2. CASE PurgeEvents
  <2>1. /\ purgeAt <= now /\ mutex = "free"
        /\ cutoff' = IF now > Retention THEN now - Retention ELSE 0
        /\ \/ /\ mutex' = "purge" /\ purgeAt' = purgeAt
              /\ \A r \in events' : r.ts >= cutoff'
           \/ conn' = "off" /\ mutex' = "free" /\ purgeAt' = NextPurge
    BY <1>2 DEF PurgeEvents
  <2>2. purgeAt' <= now + Period
    BY <2>1, RowTypes DEF NextPurge
  <2>. QED  BY <1>1, <2>1, <2>2, RowTypes DEF AgeInv
<1>3. CASE PurgeSnapshots
  <2>1. /\ mutex = "purge" /\ mutex' = "free" /\ purgeAt' = NextPurge
        /\ events' = events /\ (conn' = conn \/ conn' = "off")
        /\ \/ snapshots' = {r \in snapshots : r.ts >= cutoff}
           \/ conn' = "off"
    BY <1>3 DEF PurgeSnapshots
  <2>2. purgeAt' = purgeAt \/ purgeAt' = purgeAt + Period
    BY <2>1 DEF NextPurge
  <2>3. purgeAt <= now /\ cutoff = IF now > Retention THEN now - Retention ELSE 0
    BY <2>1 DEF AgeInv
  <2>4. purgeAt' <= now + Period
    BY <2>2, <2>3, RowTypes
  <2>5. ASSUME conn' = "on", purgeAt' > now, NEW r \in AllRows'
        PROVE  Fresh(r)'
    <3>1. r \in AllRows /\ r.ts >= cutoff
      BY <2>1, <2>5 DEF AgeInv, AllRows
    <3>2. r.ts \in Nat /\ purgeAt <= r.ts + Retention
      BY <2>3, <3>1, RowTypes
    <3>. QED  BY <2>2, <3>2, RowTypes DEF Fresh
  <2>. QED  BY <1>1, <2>1, <2>4, <2>5 DEF AgeInv
<1>. QED  BY <1>2, <1>3 DEF Purge

LEMMA AgeWipe ==
    ASSUME TypeOK, AgeInv, Wipe
    PROVE  AgeInv'
<1>1. /\ UNCHANGED <<now, up, purgeAt, cutoff>>
      /\ mutex # "purge" /\ mutex' # "purge"
      /\ (conn' = conn \/ conn' = "off") /\ AllRows' \subseteq AllRows
  BY DEF Wipe, WipeEvents, WipeSnapshots, LeftByWipe, AllRows, purgeVars
<1>. QED  BY <1>1 DEF AgeInv, Fresh

LEMMA AgeProcess ==
    ASSUME TypeOK, AgeInv, Exit \/ Crash \/ Start
    PROVE  AgeInv'
<1>1. CASE Exit \/ Crash
  BY <1>1 DEF Exit, Crash, AgeInv
<1>2. CASE Start
  <2>1. now' = now /\ purgeAt' = now /\ mutex' = mutex /\ mutex = "free"
    BY <1>2 DEF Start, TypeOK
  <2>. QED  BY <2>1, RowTypes DEF AgeInv
<1>. QED  BY <1>1, <1>2

LEMMA AgeStep == TypeOK /\ AgeInv /\ [Next]_vars => AgeInv'
<1>. SUFFICES ASSUME TypeOK, AgeInv, [Next]_vars PROVE AgeInv'
  OBVIOUS
<1>1. CASE SpawnInsert \/ TapSnapshot \/ UNCHANGED vars
  BY <1>1 DEF SpawnInsert, TapSnapshot, vars, tables, purgeVars, AgeInv, Fresh,
              AllRows
<1>. QED  BY <1>1, AgeClock, AgeInsert, AgePurge, AgeWipe, AgeProcess DEF Next

\* While the store works, no row outlives its retention, or its late
\* insertion, by more than a period, however the process stops and restarts.
THEOREM RowsExpire == Spec => []RetentionBound
<1>1. TypeOK /\ AgeInv => RetentionBound
  <2>. SUFFICES ASSUME TypeOK, AgeInv, up, conn = "on", purgeAt > now,
                       NEW r \in AllRows
                PROVE  now < r.at + Period \/ now < r.ts + Retention + Period
    BY DEF RetentionBound
  <2>1. Fresh(r)
    BY DEF AgeInv
  <2>. QED  BY <2>1, RowTypes DEF Fresh
<1>2. Init => TypeOK /\ AgeInv
  BY TypeInit, AgeInit
<1>3. (TypeOK /\ AgeInv) /\ [Next]_vars => (TypeOK /\ AgeInv)'
  BY TypeStep, AgeStep
<1>. QED  BY <1>1, <1>2, <1>3, PTL DEF Spec

---------------------------------------------------------------------------
(* The wipe.                                                               *)

Known == IdsIn(AllRows) \cup Pending

\* What was made before the answer and is stored, or may still be, was on its
\* way then; nothing is inserted between the two statements.
WipeInv ==
    /\ \A k \in Known : k <= made
    /\ cleared <= made
    /\ mutex = "wipe" => events = {}
    /\ ~hollow => \A k \in Known : k <= cleared => k \in residue

LEMMA KnownIsNat ==
    ASSUME TypeOK
    PROVE  Known \subseteq Nat
BY PendingIsNat, RowTypes DEF Known, IdsIn

LEMMA WipeInit == Init => WipeInv
BY DEF Init, WipeInv, Known, IdsIn, AllRows, Pending, Listed

\* A step that makes nothing known but what was, or a new item.
LEMMA WipeByKnown ==
    ASSUME TypeOK, WipeInv, made' \in {made, made + 1},
           \A k \in Known' : k \in Known \/ (k = made + 1 /\ made' = made + 1),
           UNCHANGED <<cleared, residue, hollow>>,
           mutex' = "wipe" => events' = {}
    PROVE  WipeInv'
<1>1. made \in Nat /\ cleared \in Nat /\ Known \subseteq Nat
  BY KnownIsNat DEF TypeOK
<1>2. \A k \in Known' : k <= made'
  <2>. SUFFICES ASSUME NEW k \in Known' PROVE k <= made'
    OBVIOUS
  <2>1. CASE k \in Known
    <3>1. k \in Nat /\ k <= made
      BY <1>1, <2>1 DEF WipeInv
    <3>. QED  BY <1>1, <3>1
  <2>2. CASE k = made + 1 /\ made' = made + 1
    BY <1>1, <2>2
  <2>. QED  BY <2>1, <2>2
<1>3. \A k \in Known' : k <= cleared => k \in Known
  BY <1>1 DEF WipeInv
<1>4. cleared' <= made'
  BY <1>1 DEF WipeInv
<1>. QED  BY <1>2, <1>3, <1>4 DEF WipeInv

LEMMA WipeHandedOver ==
    ASSUME TypeOK, WipeInv, SpawnInsert \/ TapSnapshot
    PROVE  WipeInv'
<1>1. /\ made' = made + 1 /\ UNCHANGED <<cleared, residue, hollow, mutex, events>>
      /\ AllRows' = AllRows
  BY DEF SpawnInsert, TapSnapshot, wipeHistory, tables, AllRows
<1>2. \A k \in Pending' : k \in Pending \/ k = made + 1
  <2>1. CASE SpawnInsert
    BY <2>1 DEF SpawnInsert, Pending, IdsIn, NextItem
  <2>2. CASE TapSnapshot
    <3>1. \A i \in DOMAIN dbQueue' :
              (i \in DOMAIN dbQueue /\ dbQueue'[i] = dbQueue[i])
                  \/ dbQueue'[i] = NextItem
      <4>1. dbQueue' = dbQueue \/ dbQueue' = Append(dbQueue, NextItem)
        BY <2>2 DEF TapSnapshot, Queued
      <4>. QED  BY <4>1, NewTypes, AppendProperties DEF TypeOK
    <3>2. Listed(dbQueue') \subseteq Listed(dbQueue) \cup {NextItem}
      BY <3>1 DEF Listed
    <3>. QED  BY <2>2, <3>2 DEF TapSnapshot, Pending, IdsIn, NextItem
  <2>. QED  BY <2>1, <2>2
<1>3. \A k \in Known' : k \in Known \/ k = made + 1
  BY <1>1, <1>2 DEF Known, IdsIn
<1>. QED  BY <1>1, <1>3, WipeByKnown DEF WipeInv

LEMMA WipeInserts ==
    ASSUME TypeOK, WipeInv, Insert \/ WriteSnapshot
    PROVE  WipeInv'
<1>1. /\ made' = made /\ UNCHANGED <<cleared, residue, hollow, mutex>>
      /\ mutex = "free"
  BY DEF Insert, InsertEvent, WriteSnapshot, wipeHistory
<1>2. IdsIn(AllRows') \subseteq Known /\ Pending' \subseteq Pending
  <2>1. CASE Insert
    <3>1. PICK e \in inserting : InsertEvent(e)
      BY <2>1 DEF Insert
    <3>2. /\ \A r \in AllRows' : r \in AllRows \/ r.id = e.id
          /\ inserting' \subseteq inserting /\ dbQueue' = dbQueue
          /\ e.id \in Pending
      BY <3>1 DEF InsertEvent, AllRows, EventRow, Pending, IdsIn
    <3>. QED  BY <3>2 DEF Known, IdsIn, Pending
  <2>2. CASE WriteSnapshot
    <3>1. /\ dbQueue # <<>> /\ dbQueue' = Tail(dbQueue) /\ inserting' = inserting
          /\ \A r \in AllRows' : r \in AllRows \/ r.id = Head(dbQueue).id
      BY <2>2 DEF WriteSnapshot, WithoutReceived, AllRows, SnapshotRow
    <3>2. /\ 1 \in DOMAIN dbQueue /\ Head(dbQueue) = dbQueue[1]
          /\ \A i \in DOMAIN dbQueue' :
                 i + 1 \in DOMAIN dbQueue /\ dbQueue'[i] = dbQueue[i + 1]
      BY <3>1, HeadTailProperties, EmptySeq, LenProperties DEF TypeOK
    <3>3. /\ Head(dbQueue) \in Listed(dbQueue)
          /\ Listed(dbQueue') \subseteq Listed(dbQueue)
      BY <3>2 DEF Listed
    <3>. QED  BY <3>1, <3>3 DEF Known, IdsIn, Pending
  <2>. QED  BY <2>1, <2>2
<1>3. Known' \subseteq Known
  BY <1>2 DEF Known
<1>. QED  BY <1>1, <1>3, WipeByKnown

LEMMA WipeWipes ==
    ASSUME TypeOK, WipeInv, Wipe
    PROVE  WipeInv'
<1>1. made' = made /\ made \in Nat /\ Pending' = Pending
  BY DEF Wipe, WipeEvents, WipeSnapshots, TypeOK, pending, Pending
<1>2. CASE WipeEvents
  <2>1. /\ AllRows' \subseteq AllRows /\ mutex = "free"
        /\ mutex' = "wipe" => events' = {}
        /\ UNCHANGED wipeHistory \/ Answered200(TRUE)
    BY <1>2 DEF WipeEvents, LeftByWipe, AllRows
  <2>2. Known' \subseteq Known
    BY <1>1, <2>1 DEF Known, IdsIn
  <2>3. CASE UNCHANGED wipeHistory
    BY <1>1, <2>1, <2>2, <2>3, WipeByKnown DEF wipeHistory
  <2>4. CASE Answered200(TRUE)
    BY <1>1, <2>1, <2>2, <2>4 DEF WipeInv, Answered200
  <2>. QED  BY <2>1, <2>3, <2>4
<1>3. CASE WipeSnapshots
  <2>1. /\ mutex' = "free" /\ mutex = "wipe" /\ events' = events
        /\ \/ snapshots' = {} /\ Answered200(FALSE)
           \/ snapshots' = snapshots /\ UNCHANGED wipeHistory
    BY <1>3 DEF WipeSnapshots
  <2>2. CASE snapshots' = {} /\ Answered200(FALSE)
    <3>1. AllRows' = {}
      BY <2>1, <2>2 DEF WipeInv, AllRows
    <3>2. Known' = Pending
      BY <1>1, <3>1 DEF Known, IdsIn
    <3>3. \A k \in Pending : k <= made
      BY DEF WipeInv, Known
    <3>. QED  BY <1>1, <2>1, <2>2, <3>2, <3>3 DEF WipeInv, Answered200
  <2>3. CASE snapshots' = snapshots /\ UNCHANGED wipeHistory
    <3>1. Known' = Known
      BY <1>1, <2>1, <2>3 DEF Known, IdsIn, AllRows
    <3>. QED  BY <1>1, <2>1, <2>3, <3>1, WipeByKnown DEF wipeHistory
  <2>. QED  BY <2>1, <2>2, <2>3
<1>. QED  BY <1>2, <1>3 DEF Wipe

\* Purges, the clock, stops and restarts only remove.
LEMMA WipeOthers ==
    ASSUME TypeOK, WipeInv,
           ClockAdvances \/ Purge \/ Exit \/ Crash \/ Start \/ UNCHANGED vars
    PROVE  WipeInv'
<1>1. /\ made' = made /\ UNCHANGED <<cleared, residue, hollow>>
      /\ events' \subseteq events /\ snapshots' \subseteq snapshots
      /\ inserting' \subseteq inserting /\ dbQueue' \in {dbQueue, <<>>}
      /\ mutex' = "wipe" => mutex = "wipe"
  BY DEF ClockAdvances, Purge, PurgeEvents, PurgeSnapshots, Exit, Crash, Start,
         vars, tables, pending, history, wipeHistory
<1>2. Known' \subseteq Known
  BY <1>1 DEF Known, Pending, IdsIn, Listed, AllRows
<1>3. mutex' = "wipe" => events' = {}
  BY <1>1 DEF WipeInv
<1>. QED  BY <1>1, <1>2, <1>3, WipeByKnown

LEMMA WipeStep == TypeOK /\ WipeInv /\ [Next]_vars => WipeInv'
BY WipeHandedOver, WipeInserts, WipeWipes, WipeOthers DEF Next

\* After a wipe that deleted, an older row is found only if it was in an
\* insert task or in the channel when the wipe was answered.
THEOREM WipesCompletely == Spec => []WipeResidue
<1>1. WipeInv => WipeResidue
  BY DEF WipeInv, WipeResidue, NoneButResidue, Known, IdsIn
<1>2. Init => TypeOK /\ WipeInv
  BY TypeInit, WipeInit
<1>3. (TypeOK /\ WipeInv) /\ [Next]_vars => (TypeOK /\ WipeInv)'
  BY TypeStep, WipeStep
<1>. QED  BY <1>1, <1>2, <1>3, PTL DEF Spec

---------------------------------------------------------------------------
(* One place for each item.                                                *)

\* Whatever waits does so once, in a task or in the channel.
OnceInv ==
    /\ StoredOnce
    /\ \A e, f \in inserting : e.id = f.id => e = f
    /\ \A e \in inserting, j \in DOMAIN dbQueue : e.id # dbQueue[j].id

StoreInv == TypeOK /\ OrderInv /\ WipeInv /\ OnceInv

LEMMA InPending ==
    /\ \A e \in inserting : e.id \in Pending
    /\ \A j \in DOMAIN dbQueue : dbQueue[j].id \in Pending
    /\ \A k \in Pending : \/ \E e \in inserting : k = e.id
                          \/ \E j \in DOMAIN dbQueue : k = dbQueue[j].id
BY DEF Pending, IdsIn, Listed

\* An item that is handed over has a number that nothing has yet.
LEMMA NewIsFresh ==
    ASSUME TypeOK, WipeInv
    PROVE  /\ NextItem.id = made + 1 /\ made + 1 \notin Pending
           /\ \A r \in AllRows : r.id # made + 1
<1>1. made \in Nat /\ Known \subseteq Nat
  BY KnownIsNat DEF TypeOK
<1>2. \A k \in Known : k # made + 1
  BY <1>1 DEF WipeInv
<1>. QED  BY <1>1, <1>2 DEF NextItem, Known, IdsIn

LEMMA OnceHandedOver ==
    ASSUME StoreInv, SpawnInsert \/ TapSnapshot
    PROVE  OnceInv' /\ Pending' \subseteq Pending \cup {made + 1}
<1>1. AllRows' = AllRows
  BY DEF SpawnInsert, TapSnapshot, tables, AllRows
<1>2. /\ NextItem.id = made + 1 /\ made + 1 \notin Pending
      /\ \A r \in AllRows : r.id # made + 1
  BY NewIsFresh DEF StoreInv
<1>3. CASE SpawnInsert
  <2>1. inserting' = inserting \cup {NextItem} /\ dbQueue' = dbQueue
    BY <1>3 DEF SpawnInsert
  <2>2. Pending' \subseteq Pending \cup {made + 1}
    BY <1>2, <2>1 DEF Pending, IdsIn
  <2>3. \A e \in inserting : e.id # made + 1
    BY <1>2, InPending
  <2>4. \A j \in DOMAIN dbQueue : dbQueue[j].id # made + 1
    BY <1>2, InPending
  <2>5. StoredOnce'
    BY <1>1, <1>2, <2>2 DEF StoreInv, OnceInv, StoredOnce
  <2>. QED  BY <1>2, <2>1, <2>2, <2>3, <2>4, <2>5 DEF StoreInv, OnceInv
<1>4. CASE TapSnapshot
  <2>1. inserting' = inserting
    BY <1>4 DEF TapSnapshot
  <2>2. \A i \in DOMAIN dbQueue' :
            \/ i \in DOMAIN dbQueue /\ dbQueue'[i] = dbQueue[i]
            \/ dbQueue'[i] = NextItem
    <3>1. dbQueue' = dbQueue \/ dbQueue' = Append(dbQueue, NextItem)
      BY <1>4 DEF TapSnapshot, Queued
    <3>. QED  BY <3>1, NewTypes, AppendProperties DEF StoreInv, TypeOK
  <2>3. Listed(dbQueue') \subseteq Listed(dbQueue) \cup {NextItem}
    BY <2>2 DEF Listed
  <2>4. Pending' \subseteq Pending \cup {made + 1}
    BY <1>2, <2>1, <2>3 DEF Pending, IdsIn
  <2>5. \A e \in inserting : e.id # made + 1
    BY <1>2, InPending
  <2>6. \A e \in inserting', j \in DOMAIN dbQueue' : e.id # dbQueue'[j].id
    BY <1>2, <2>1, <2>2, <2>5 DEF StoreInv, OnceInv
  <2>7. StoredOnce'
    BY <1>1, <1>2, <2>4 DEF StoreInv, OnceInv, StoredOnce
  <2>. QED  BY <2>1, <2>4, <2>6, <2>7 DEF StoreInv, OnceInv
<1>. QED  BY <1>3, <1>4

\* An insert takes the item out of the task and leaves it in one row, if any.
LEMMA OnceInserted ==
    ASSUME StoreInv, Insert
    PROVE  /\ OnceInv' /\ Pending' \subseteq Pending
           /\ IdsIn(AllRows') \subseteq IdsIn(AllRows) \cup Pending
<1>1. PICK e \in inserting : InsertEvent(e)
  BY DEF Insert
<1>2. /\ inserting' = inserting \ {e} /\ dbQueue' = dbQueue
      /\ AllRows' = AllRows \cup {EventRow(e)} \/ AllRows' = AllRows
      /\ EventRow(e).id = e.id
  BY <1>1 DEF InsertEvent, AllRows, EventRow
<1>3. e.id \in Pending /\ \A r \in AllRows : r.id # e.id
  BY InPending DEF StoreInv, OnceInv, StoredOnce
<1>4. Pending' \subseteq Pending
  BY <1>2 DEF Pending, IdsIn
<1>5. e.id \notin Pending'
  <2>1. \A f \in inserting' : f.id # e.id
    BY <1>2 DEF StoreInv, OnceInv
  <2>2. \A j \in DOMAIN dbQueue' : dbQueue'[j].id # e.id
    BY <1>2 DEF StoreInv, OnceInv
  <2>. QED  BY <2>1, <2>2 DEF Pending, IdsIn, Listed
<1>6. StoredOnce'
  BY <1>2, <1>3, <1>4, <1>5 DEF StoreInv, OnceInv, StoredOnce
<1>7. IdsIn(AllRows') \subseteq IdsIn(AllRows) \cup Pending
  BY <1>2, <1>3 DEF IdsIn
<1>. QED  BY <1>2, <1>4, <1>6, <1>7 DEF StoreInv, OnceInv

\* So does the writer with the head of the channel.
LEMMA OnceWritten ==
    ASSUME StoreInv, WriteSnapshot
    PROVE  /\ OnceInv' /\ Pending' \subseteq Pending
           /\ IdsIn(AllRows') \subseteq IdsIn(AllRows) \cup Pending
<1>. DEFINE new == SnapshotRow(Head(dbQueue))
<1>1. /\ dbQueue # <<>> /\ dbQueue' = Tail(dbQueue) /\ inserting' = inserting
      /\ AllRows' = AllRows \cup {new} \/ AllRows' = AllRows
      /\ new.id = Head(dbQueue).id
  BY DEF WriteSnapshot, WithoutReceived, AllRows, SnapshotRow
<1>2. /\ 1 \in DOMAIN dbQueue /\ Head(dbQueue) = dbQueue[1]
      /\ \A i \in DOMAIN dbQueue' :
             /\ i + 1 \in DOMAIN dbQueue /\ dbQueue'[i] = dbQueue[i + 1]
             /\ 1 < i + 1
  BY <1>1, HeadTailProperties, EmptySeq, LenProperties DEF StoreInv, TypeOK
<1>. HIDE DEF new
<1>3. new.id \in Pending /\ \A r \in AllRows : r.id # new.id
  BY <1>1, <1>2, InPending DEF StoreInv, OnceInv, StoredOnce
<1>4. Listed(dbQueue') \subseteq Listed(dbQueue)
  BY <1>2 DEF Listed
<1>5. Pending' \subseteq Pending
  BY <1>1, <1>4 DEF Pending, IdsIn
<1>6. \A i \in DOMAIN dbQueue' : dbQueue'[i].id # new.id
  <2>1. \A i \in DOMAIN dbQueue : dbQueue[i].id \in Nat
    BY NewTypes DEF StoreInv, TypeOK
  <2>. QED  BY <1>1, <1>2, <2>1 DEF StoreInv, OrderInv
<1>7. \A e \in inserting' : e.id # new.id
  BY <1>1, <1>2 DEF StoreInv, OnceInv
<1>8. new.id \notin Pending'
  BY <1>6, <1>7 DEF Pending, IdsIn, Listed
<1>9. StoredOnce'
  BY <1>1, <1>3, <1>5, <1>8 DEF StoreInv, OnceInv, StoredOnce
<1>10. IdsIn(AllRows') \subseteq IdsIn(AllRows) \cup Pending
  BY <1>1, <1>3 DEF IdsIn
<1>11. \A e \in inserting', j \in DOMAIN dbQueue' : e.id # dbQueue'[j].id
  BY <1>1, <1>2 DEF StoreInv, OnceInv
<1>. QED  BY <1>1, <1>5, <1>9, <1>10, <1>11 DEF StoreInv, OnceInv

\* All other steps hand over nothing and only remove rows.
LEMMA OnceOthers ==
    ASSUME StoreInv,
           \/ ClockAdvances \/ Purge \/ Wipe \/ Exit \/ Crash \/ Start
           \/ UNCHANGED vars
    PROVE  /\ OnceInv' /\ Pending' \subseteq Pending
           /\ IdsIn(AllRows') \subseteq IdsIn(AllRows) \cup Pending
<1>1. /\ events' \subseteq events /\ snapshots' \subseteq snapshots
      /\ inserting' \subseteq inserting /\ dbQueue' \in {dbQueue, <<>>}
  BY DEF ClockAdvances, Purge, PurgeEvents, PurgeSnapshots, Wipe, WipeEvents,
         WipeSnapshots, LeftByWipe, Exit, Crash, Start, vars, tables, pending,
         history
<1>2. AllRows' \subseteq AllRows /\ Pending' \subseteq Pending
  BY <1>1 DEF AllRows, Pending, IdsIn, Listed
<1>. QED  BY <1>1, <1>2 DEF StoreInv, OnceInv, StoredOnce, IdsIn

LEMMA OnceStep ==
    StoreInv /\ [Next]_vars =>
        /\ StoreInv'
        /\ Pending' \subseteq Pending \cup {made + 1}
        /\ IdsIn(AllRows') \subseteq IdsIn(AllRows) \cup Pending
<1>. SUFFICES ASSUME StoreInv, [Next]_vars
              PROVE  /\ OnceInv' /\ Pending' \subseteq Pending \cup {made + 1}
                     /\ IdsIn(AllRows') \subseteq IdsIn(AllRows) \cup Pending
  BY TypeStep, OrderStep, WipeStep DEF StoreInv
<1>1. CASE SpawnInsert \/ TapSnapshot
  <2>1. AllRows' = AllRows
    BY <1>1 DEF SpawnInsert, TapSnapshot, tables, AllRows
  <2>. QED  BY <1>1, <2>1, OnceHandedOver
<1>. QED  BY <1>1, OnceInserted, OnceWritten, OnceOthers DEF Next

LEMMA StoreCorrect == Spec => []StoreInv
<1>1. Init => OnceInv
  BY DEF Init, OnceInv, StoredOnce, AllRows
<1>. QED  BY <1>1, TypeInit, OrderInit, WipeInit, OnceStep, PTL DEF Spec, StoreInv

\* Nothing is stored twice, nor stored and still handed over, through
\* failures, drops, exits, crashes and restarts.
THEOREM EachStoredOnce == Spec => []StoredOnce
<1>1. StoreInv => StoredOnce
  BY DEF StoreInv, OnceInv
<1>. QED  BY <1>1, StoreCorrect, PTL

\* What was purged, wiped, dropped or lost does not come back.
THEOREM NothingComesBack == Spec => GoneForGood
<1>1. StoreInv /\ [Next]_vars =>
        [\A k \in 1 .. made :
             /\ k \in Pending' => k \in Pending
             /\ k \in IdsIn(AllRows') => k \in IdsIn(AllRows) \cup Pending]_vars
  <2>. SUFFICES ASSUME StoreInv, [Next]_vars, NEW k \in 1 .. made
                PROVE  /\ k \in Pending' => k \in Pending
                       /\ k \in IdsIn(AllRows') => k \in IdsIn(AllRows) \cup Pending
    OBVIOUS
  <2>1. k # made + 1
    BY DEF StoreInv, TypeOK
  <2>. QED  BY <2>1, OnceStep
<1>. QED  BY <1>1, StoreCorrect, PTL DEF Spec, GoneForGood

---------------------------------------------------------------------------
(* The mutex around the connection, seen from the worker threads on which  *)
(* the store's tasks hold it: module WorkerPool.                           *)

Stages == {"idle", "ready", "polled", "inside"}

\* The inductive invariant: the holder of the mutex is the one inside, only the
\* store's tasks get there, and the runtime outlives the polls.
PoolInv ==
    /\ PoolTypeOK /\ HolderRuns
    /\ \A t \in Tasks : stage[t] = "inside" => t \in Store
    /\ life = "gone" => Busy = {}

LEMMA BusyFinite == IsFiniteSet(Busy)
BY PoolAssumption, FS_Subset DEF Busy

\* The end of a poll takes its task, and no other, off the workers.
LEMMA RestLeaves ==
    ASSUME PoolTypeOK, NEW t \in Tasks, NEW woken, RestAfter(t, woken)
    PROVE  /\ stage' \in [Tasks -> Stages] /\ again' \in SUBSET Tasks
           /\ stage'[t] \in {"idle", "ready"}
           /\ Busy' = Busy \ {t}
           /\ \A u \in Tasks \ {t} : stage'[u] = "inside" <=> stage[u] = "inside"
<1>1. \A u \in Tasks : stage[u] \in Stages
  BY DEF PoolTypeOK, Stages
<1>2. \A u \in Tasks :
        stage'[u] = IF u = t THEN IF t \in again THEN "ready" ELSE "idle"
                    ELSE IF u \in woken /\ stage[u] = "idle" THEN "ready"
                    ELSE stage[u]
  BY DEF RestAfter
<1>3. stage' \in [Tasks -> Stages]
  BY <1>1 DEF RestAfter, Stages
<1>4. again' \in SUBSET Tasks
  BY DEF RestAfter, PoolTypeOK, Busy
<1>5. stage'[t] \in {"idle", "ready"}
  BY <1>2
<1>6. \A u \in Tasks \ {t} :
        /\ stage'[u] \in {"polled", "inside"} <=> stage[u] \in {"polled", "inside"}
        /\ stage'[u] = "inside" <=> stage[u] = "inside"
  BY <1>1, <1>2
<1>7. Busy' = Busy \ {t}
  BY <1>5, <1>6 DEF Busy
<1>. QED  BY <1>3, <1>4, <1>5, <1>6, <1>7

LEMMA PoolStarted == PoolInit => PoolInv
<1>. SUFFICES ASSUME PoolInit PROVE PoolInv
  OBVIOUS
<1>1. Busy = {}
  BY DEF PoolInit, Busy
<1>2. Cardinality(Busy) <= NumWorkers
  BY <1>1, FS_EmptySet, PoolAssumption
<1>3. PoolTypeOK
  BY <1>2 DEF PoolInit, PoolTypeOK
<1>4. HolderRuns
  BY PoolAssumption DEF PoolInit, HolderRuns, Tasks
<1>. QED  BY <1>1, <1>3, <1>4 DEF PoolInit, PoolInv

\* A task is woken, or is given a worker.
LEMMA PoolStarts ==
    ASSUME PoolInv, NEW t \in Tasks, Arrive(t) \/ Poll(t)
    PROVE  PoolInv'
<1>1. /\ life = "up" /\ FreeWorker /\ stage[t] \in {"idle", "ready"}
      /\ stage' \in [Tasks -> Stages] /\ stage'[t] \in {"ready", "polled"}
      /\ \A u \in Tasks \ {t} : stage'[u] = stage[u]
      /\ UNCHANGED <<again, lock, signal, life>>
  BY DEF PoolInv, PoolTypeOK, Arrive, Poll, Stages
<1>2. Busy' = Busy \/ Busy' = Busy \cup {t}
  BY <1>1 DEF Busy
<1>3. Cardinality(Busy') <= NumWorkers
  <2>1. /\ IsFiniteSet(Busy) /\ t \notin Busy
    BY <1>1, BusyFinite DEF PoolInv, Busy
  <2>2. Cardinality(Busy \cup {t}) = Cardinality(Busy) + 1
    BY <2>1, FS_AddElement
  <2>3. Cardinality(Busy) \in Nat /\ NumWorkers \in Nat
    BY <2>1, FS_CardinalityType, PoolAssumption DEF PoolInv
  <2>4. Cardinality(Busy) + 1 <= NumWorkers
    BY <1>1, <2>3 DEF FreeWorker
  <2>5. CASE Busy' = Busy
    BY <2>3, <2>4, <2>5
  <2>6. CASE Busy' = Busy \cup {t}
    BY <2>2, <2>4, <2>6
  <2>. QED  BY <1>2, <2>5, <2>6
<1>4. PoolTypeOK'
  BY <1>1, <1>3 DEF PoolInv, PoolTypeOK, Stages
<1>5. \A u \in Tasks : stage'[u] = "inside" <=> stage[u] = "inside"
  BY <1>1
<1>6. HolderRuns'
  BY <1>1, <1>5 DEF PoolInv, HolderRuns, Tasks
<1>7. life' # "gone"
  BY <1>1
<1>. QED  BY <1>1, <1>4, <1>5, <1>6, <1>7 DEF PoolInv

\* The poll of a task that is not inside ends, or the holder leaves.
LEMMA PoolRests ==
    ASSUME PoolInv, NEW t \in Tasks,
           AudioRests(t) \/ DrainEnds(t) \/ Leave(t)
    PROVE  PoolInv'
<1>1. /\ t \in Busy /\ UNCHANGED <<signal, life>> /\ life # "gone"
      /\ \E woken : RestAfter(t, woken)
  BY DEF PoolInv, AudioRests, DrainEnds, Leave, Busy
<1>2. PICK woken : RestAfter(t, woken)
  BY <1>1
<1>3. /\ stage' \in [Tasks -> Stages] /\ again' \in SUBSET Tasks
      /\ stage'[t] \in {"idle", "ready"} /\ Busy' = Busy \ {t}
      /\ \A u \in Tasks \ {t} : stage'[u] = "inside" <=> stage[u] = "inside"
  BY <1>2, RestLeaves DEF PoolInv
<1>4. Cardinality(Busy') <= NumWorkers
  <2>1. Cardinality(Busy') = Cardinality(Busy) - 1
    BY <1>1, <1>3, BusyFinite, FS_RemoveElement DEF PoolInv
  <2>2. Cardinality(Busy) \in Nat /\ NumWorkers \in Nat
    BY BusyFinite, FS_CardinalityType, PoolAssumption DEF PoolInv
  <2>. QED  BY <2>1, <2>2 DEF PoolInv, PoolTypeOK
<1>5. CASE AudioRests(t) \/ DrainEnds(t)
  <2>1. lock' = lock /\ stage[t] = "polled"
    BY <1>5 DEF AudioRests, DrainEnds
  <2>2. \A u \in Tasks : stage'[u] = "inside" <=> stage[u] = "inside"
    BY <1>3, <2>1
  <2>3. HolderRuns'
    BY <1>1, <2>1, <2>2 DEF PoolInv, HolderRuns, Tasks
  <2>. QED  BY <1>1, <1>3, <1>4, <2>1, <2>2, <2>3
            DEF PoolInv, PoolTypeOK, Stages
<1>6. CASE Leave(t)
  <2>1. lock' = "free" /\ lock = t /\ t \in Store
    BY <1>6 DEF Leave, ReleasedBy, PoolInv, HolderRuns
  <2>2. \A u \in Store \ {t} : stage[u] # "inside"
    BY <2>1 DEF PoolInv, HolderRuns
  <2>3. HolderRuns'
    BY <1>3, <2>1, <2>2, PoolAssumption DEF PoolInv, HolderRuns, Tasks
  <2>4. \A u \in Tasks : stage'[u] = "inside" => u \in Store
    BY <1>3 DEF PoolInv
  <2>. QED  BY <1>1, <1>3, <1>4, <2>1, <2>3, <2>4
            DEF PoolInv, PoolTypeOK, Stages
<1>. QED  BY <1>5, <1>6

\* The mutex is taken.
LEMMA PoolEnters ==
    ASSUME PoolInv, NEW t \in Tasks, Enter(t)
    PROVE  PoolInv'
<1>1. /\ t \in Store /\ stage[t] = "polled" /\ lock = "free" /\ lock' = t
      /\ stage' = [stage EXCEPT ![t] = "inside"]
      /\ UNCHANGED <<again, signal, life>> /\ t \in Busy /\ life # "gone"
  BY DEF PoolInv, Enter, Busy, Tasks
<1>2. /\ stage' \in [Tasks -> Stages] /\ stage'[t] = "inside"
      /\ \A u \in Tasks \ {t} : stage'[u] = stage[u]
  BY <1>1 DEF PoolInv, PoolTypeOK, Stages
<1>3. Busy' = Busy
  BY <1>1, <1>2 DEF Busy
<1>4. \A u \in Store : stage[u] # "inside"
  BY <1>1, PoolAssumption DEF PoolInv, HolderRuns
<1>5. HolderRuns'
  BY <1>1, <1>2, <1>4 DEF HolderRuns, Tasks
<1>6. PoolTypeOK'
  BY <1>1, <1>2, <1>3 DEF PoolInv, PoolTypeOK, Stages
<1>. QED  BY <1>1, <1>2, <1>3, <1>5, <1>6 DEF PoolInv

LEMMA PoolStep == PoolInv /\ [PoolNext]_poolVars => PoolInv'
<1>. SUFFICES ASSUME PoolInv, [PoolNext]_poolVars PROVE PoolInv'
  OBVIOUS
<1>1. CASE \E t \in Tasks : \/ Arrive(t) \/ Poll(t) \/ AudioRests(t)
                             \/ DrainEnds(t) \/ Enter(t) \/ Leave(t)
  BY <1>1, PoolStarts, PoolRests, PoolEnters
<1>2. CASE SignalComes \/ StopPolling \/ Gone \/ UNCHANGED poolVars
  <2>1. /\ UNCHANGED <<stage, again, lock>>
        /\ signal' \in BOOLEAN /\ life' \in {"up", "dropping", "gone"}
    BY <1>2 DEF SignalComes, StopPolling, Gone, WaitsForPolls,
                poolVars, PoolInv, PoolTypeOK
  <2>2. Busy' = Busy
    BY <2>1 DEF Busy
  <2>3. life' = "gone" => Busy = {}
    BY <1>2 DEF SignalComes, StopPolling, Gone, WaitsForPolls, poolVars, PoolInv
  <2>4. life' = "gone" => lock = "free"
    <3>1. Busy = {} => \A t \in Store : stage[t] # "inside"
      BY DEF Busy, Tasks
    <3>2. lock \in {"free"} \cup Store
      BY DEF PoolInv, PoolTypeOK
    <3>. QED  BY <2>3, <3>1, <3>2 DEF PoolInv, HolderRuns
  <2>. QED  BY <2>1, <2>2, <2>3, <2>4 DEF PoolInv, PoolTypeOK, HolderRuns
<1>. QED  BY <1>1, <1>2 DEF PoolNext

LEMMA PoolCorrect == PoolSpec => []PoolInv
BY PoolStarted, PoolStep, PTL DEF PoolSpec

\* The variables keep their types and the workers are never too few for what
\* is on them, for any number of workers and tasks.
THEOREM PoolTypeCorrect == PoolSpec => []PoolTypeOK
<1>1. PoolInv => PoolTypeOK
  BY DEF PoolInv
<1>. QED  BY <1>1, PoolCorrect, PTL

\* Whoever holds the store's mutex is on a worker and inside its statements, and
\* the process that stops waits for it.
THEOREM HolderOnWorker == PoolSpec => []HolderRuns
<1>1. PoolInv => HolderRuns
  BY DEF PoolInv
<1>. QED  BY <1>1, PoolCorrect, PTL
=============================================================================
