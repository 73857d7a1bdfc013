---------------------------- MODULE Persistence ----------------------------
(***************************************************************************)
(* The SQLite store of the conductor: one connection behind a mutex, or    *)
(* none once a statement has failed; the tasks that insert raw events (one *)
(* spawned per event), the task that writes snapshots from its channel,    *)
(* the hourly purge and the privacy wipe; and the stop and restart of the  *)
(* process, which keeps the tables and nothing else.                       *)
(*                                                                         *)
(* A row is the number of what it stores (events and snapshots share one   *)
(* count), the time it was made and the time it was inserted, and for a    *)
(* snapshot the AUTOINCREMENT key that the table is ordered by.  A         *)
(* statement of SQLite succeeds and is durable, or fails and changes       *)
(* nothing.                                                                *)
(* History variables, read by no guard: stored, cleared, residue, hollow   *)
(* (and made and wipes, but for their bounds).                             *)
(***************************************************************************)
EXTENDS Naturals, Sequences, FiniteSets

CONSTANTS DbCap,       \* capacity of the snapshot channel (512)
          Retention,   \* age of a row that is purged (24 h)
          Period,      \* time between purges (1 h)
          MaxMade,     \* bound: events and snapshots
          MaxTime,     \* bound: the clock
          MaxWipes     \* bound: wipe requests

ASSUME PersistenceAssumption ==
    /\ DbCap \in Nat \ {0}
    /\ Retention \in Nat /\ Period \in Nat \ {0}
    /\ MaxMade \in Nat /\ MaxTime \in Nat /\ MaxWipes \in Nat

VARIABLES now, up, conn, mutex,        \* mutex: who holds it across statements
          events, snapshots, lastKey,  \* the tables; the last key given
          inserting, dbQueue,          \* spawned insert tasks; the channel
          purgeAt, started, cutoff,    \* the purge task
          made, wipes, stored, cleared, residue, hollow

tables == <<events, snapshots, lastKey>>
pending == <<inserting, dbQueue>>
purgeVars == <<purgeAt, started, cutoff>>
wipeHistory == <<cleared, residue, hollow>>
history == <<made, wipes, stored, wipeHistory>>
vars == <<now, up, conn, mutex, tables, pending, purgeVars, history>>

Items == [id : Nat, ts : Nat]
EventRows == [id : Nat, ts : Nat, at : Nat]
EventRow(e) == [id |-> e.id, ts |-> e.ts, at |-> now]
SnapshotRows == [key : Nat, id : Nat, ts : Nat, at : Nat]
SnapshotRow(s) == [key |-> lastKey + 1, id |-> s.id, ts |-> s.ts, at |-> now]
IdsIn(set) == {x.id : x \in set}
Listed(seq) == {seq[i] : i \in DOMAIN seq}
Pending == IdsIn(inserting) \cup IdsIn(Listed(dbQueue))

Init ==
    /\ now = 0 /\ up = TRUE /\ conn \in {"on", "off"} /\ mutex = "free"
    /\ events = {} /\ snapshots = {} /\ lastKey = 0
    /\ inserting = {} /\ dbQueue = <<>>
    /\ purgeAt = 0 /\ started = FALSE /\ cutoff = 0
    /\ made = 0 /\ wipes = 0 /\ stored = {}
    /\ cleared = 0 /\ residue = {} /\ hollow = FALSE

\* The timer fires in time: no purge is due when the clock goes on.
ClockAdvances ==
    /\ now < MaxTime /\ (up => purgeAt > now) /\ now' = now + 1
    /\ UNCHANGED <<up, conn, mutex, tables, pending, purgeVars, history>>

---------------------------------------------------------------------------
(* What the pipeline hands over.                                           *)

NextItem == [id |-> made + 1, ts |-> now]

\* RingbufConsumer::run spawns a task to insert the event it received.
SpawnInsert ==
    /\ up /\ made < MaxMade
    /\ inserting' = inserting \cup {NextItem}
    /\ made' = made + 1
    /\ UNCHANGED <<now, up, conn, mutex, tables, dbQueue, purgeVars, wipes,
                   stored, wipeHistory>>

HasRoom == Len(dbQueue) < DbCap
InFront(item) == <<item>> \o dbQueue
Queued(item) == Append(dbQueue, item)

\* The tap of the Aggregator: try_send, and the snapshot is dropped if full.
TapSnapshot ==
    /\ up /\ made < MaxMade
    /\ dbQueue' = IF HasRoom THEN Queued(NextItem) ELSE dbQueue
    /\ made' = made + 1
    /\ UNCHANGED <<now, up, conn, mutex, tables, inserting, purgeVars, wipes,
                   stored, wipeHistory>>

---------------------------------------------------------------------------
(* Inserts: each takes the mutex, and a failure disables persistence.      *)

InsertEvent(e) ==
    /\ up /\ mutex = "free" /\ e \in inserting
    /\ inserting' = inserting \ {e}
    /\ \/ /\ conn = "on" /\ events' = events \cup {EventRow(e)}
          /\ stored' = stored \cup {e.id} /\ conn' = conn
       \/ /\ conn' = "off" /\ UNCHANGED <<events, stored>>
    /\ UNCHANGED <<now, up, mutex, snapshots, lastKey, dbQueue, purgeVars, made,
                   wipes, wipeHistory>>

DrainsAll == <<>>
WithoutReceived == Tail(dbQueue)

WriteSnapshot ==
    /\ up /\ mutex = "free" /\ dbQueue # <<>>
    /\ dbQueue' = WithoutReceived
    /\ \/ /\ conn = "on"
          /\ snapshots' = snapshots \cup {SnapshotRow(Head(dbQueue))}
          /\ lastKey' = lastKey + 1
          /\ stored' = stored \cup {Head(dbQueue).id} /\ conn' = conn
       \/ /\ conn' = "off" /\ UNCHANGED <<snapshots, lastKey, stored>>
    /\ UNCHANGED <<now, up, mutex, events, inserting, purgeVars, made, wipes,
                   wipeHistory>>

---------------------------------------------------------------------------
(* The purge task: once at startup, then at each tick of an interval whose *)
(* first tick is immediate.                                                *)

PurgesTooSeldom == IF started THEN purgeAt + 2 * Period ELSE purgeAt
NextPurge == IF started THEN purgeAt + Period ELSE purgeAt

PurgeEvents ==
    /\ up /\ mutex = "free" /\ purgeAt <= now
    /\ cutoff' = IF now > Retention THEN now - Retention ELSE 0
    /\ \/ /\ conn = "on" /\ mutex' = "purge" /\ conn' = conn
          /\ events' = {r \in events : r.ts >= cutoff'}
          /\ UNCHANGED <<purgeAt, started>>
       \/ /\ conn' = "off" /\ mutex' = mutex /\ events' = events
          /\ purgeAt' = NextPurge /\ started' = TRUE
    /\ UNCHANGED <<now, up, snapshots, lastKey, pending, history>>

PurgeSnapshots ==
    /\ up /\ mutex = "purge"
    /\ \/ snapshots' = {r \in snapshots : r.ts >= cutoff} /\ conn' = conn
       \/ conn' = "off" /\ snapshots' = snapshots
    /\ mutex' = "free"
    /\ purgeAt' = NextPurge /\ started' = TRUE
    /\ UNCHANGED <<now, up, events, lastKey, pending, cutoff, history>>

---------------------------------------------------------------------------
(* The privacy wipe; hollow tells a 200 that deleted nothing.              *)

Answered200(empty) ==
    /\ cleared' = made /\ residue' = Pending /\ hollow' = empty

KeptByWipe == {r \in events : r.ts = now}
LeftByWipe == {}

WipeEvents ==
    /\ up /\ mutex = "free" /\ wipes < MaxWipes /\ wipes' = wipes + 1
    /\ \/ /\ conn = "on" /\ events' = LeftByWipe /\ mutex' = "wipe"
          /\ conn' = conn /\ UNCHANGED wipeHistory
       \/ /\ conn = "on" /\ conn' = "off"
          /\ UNCHANGED <<events, mutex, wipeHistory>>
       \/ /\ conn = "off" /\ Answered200(TRUE)
          /\ UNCHANGED <<events, mutex, conn>>
    /\ UNCHANGED <<now, up, snapshots, lastKey, pending, purgeVars, made, stored>>

WipeSnapshots ==
    /\ up /\ mutex = "wipe" /\ mutex' = "free"
    /\ \/ /\ snapshots' = {} /\ conn' = conn /\ Answered200(FALSE)
       \/ /\ conn' = "off" /\ UNCHANGED <<snapshots, wipeHistory>>
    /\ UNCHANGED <<now, up, events, lastKey, pending, purgeVars, made, wipes,
                   stored>>

---------------------------------------------------------------------------
(* Stop and restart.                                                       *)

\* main returns after a signal or POST /v1/shutdown: the runtime is dropped
\* with its tasks and their channels.
Exit ==
    /\ up /\ mutex = "free"
    /\ up' = FALSE
    /\ inserting' = {} /\ dbQueue' = <<>>
    /\ UNCHANGED <<now, conn, mutex, tables, purgeVars, made, wipes, stored,
                   wipeHistory>>

\* The process is killed, between any two statements.
Crash ==
    /\ up /\ up' = FALSE /\ mutex' = "free"
    /\ inserting' = {} /\ dbQueue' = <<>>
    /\ UNCHANGED <<now, conn, tables, purgeVars, history>>

\* Database::new opens the file and applies the migrations, or runs without.
Start ==
    /\ ~up /\ up' = TRUE
    /\ conn' \in {"on", "off"}
    /\ purgeAt' = now /\ started' = FALSE
    /\ UNCHANGED <<now, mutex, tables, pending, cutoff, history>>

---------------------------------------------------------------------------
Insert == \E e \in inserting : InsertEvent(e)
Purge == PurgeEvents \/ PurgeSnapshots
Wipe == WipeEvents \/ WipeSnapshots
Next == \/ ClockAdvances
        \/ SpawnInsert \/ TapSnapshot
        \/ Insert \/ WriteSnapshot \/ Purge \/ Wipe
        \/ Exit \/ Crash \/ Start

Spec == Init /\ [][Next]_vars

\* tokio runs each insert task, the writer and a handler that has begun.  Weak
\* fairness is enough under the mutex: purges and wipes are bounded.
FairSpec ==
    /\ Spec
    /\ \A k \in 1 .. MaxMade :
           WF_vars(\E e \in inserting : e.id = k /\ InsertEvent(e))
    /\ WF_vars(WriteSnapshot) /\ WF_vars(Purge) /\ WF_vars(WipeSnapshots)

---------------------------------------------------------------------------
(* Properties.                                                             *)

AllRows == events \cup snapshots

\* Every variable keeps its type; the snapshot channel keeps to its capacity
\* and only a process that runs with a connection holds the mutex for long.
TypeOK ==
    /\ now \in Nat /\ up \in BOOLEAN /\ conn \in {"on", "off"}
    /\ mutex \in {"free", "purge", "wipe"}
    /\ mutex # "free" => up /\ conn = "on"
    /\ events \in SUBSET EventRows /\ snapshots \in SUBSET SnapshotRows
    /\ lastKey \in Nat
    /\ inserting \in SUBSET Items
    /\ dbQueue \in Seq(Items) /\ Len(dbQueue) <= DbCap
    /\ purgeAt \in Nat /\ started \in BOOLEAN /\ cutoff \in Nat
    /\ made \in Nat /\ wipes \in Nat
    /\ stored \in SUBSET Nat
    /\ cleared \in Nat /\ residue \in SUBSET Nat /\ hollow \in BOOLEAN

\* The rows of the snapshots table stand in the order of the ticks and after
\* them only newer ones wait, through drops, purges, wipes and restarts.
SnapshotsInOrder ==
    /\ \A r, q \in snapshots : r.key < q.key => r.id < q.id
    /\ \A r \in snapshots, j \in DOMAIN dbQueue : r.id < dbQueue[j].id

\* Nothing is stored twice or waits for what is stored: though both go through
\* a task of their own or a channel, and the process may stop between the
\* statement and the next step, an item is in at most one row, and if it is in
\* one it is no longer handed over.
StoredOnce ==
    /\ \A r, q \in AllRows : r.id = q.id => r = q
    /\ \A r \in AllRows : r.id \notin Pending

\* What was purged, wiped, dropped or lost with the process does not come back,
\* and what was stored is not handed over again.
GoneForGood ==
    [][\A k \in 1 .. made :
           /\ k \in Pending' => k \in Pending
           /\ k \in IdsIn(AllRows') => k \in IdsIn(AllRows) \cup Pending]_vars

\* While the store works, a row is gone a period after it expired, or after it
\* was inserted if an insert task came late with it, however the process was
\* stopped and restarted.
RetentionBound ==
    up /\ conn = "on" /\ mutex # "purge" /\ purgeAt > now =>
        \A r \in AllRows : \/ now < r.at + Period
                           \/ now < r.ts + Retention + Period

\* After a wipe that deleted, what was made before its answer and is found in
\* the tables comes only from the insert tasks and the channel, which the wipe
\* does not reach; a crash between its two statements brings no answer.
NoneButResidue == \A r \in AllRows : r.id <= cleared => r.id \in residue
WipeResidue == ~hollow => NoneButResidue

\* An event handed to its task and a snapshot taken by the channel are stored,
\* unless persistence was disabled or the process stopped.
PendingIsStored ==
    \A k \in 1 .. MaxMade :
        k \in Pending ~> k \in stored \/ conn = "off" \/ ~up

\* A wipe answered 200 has wiped the database completely
\* (control-api.openapi.yaml, /privacy/wipe): of what was made before, only
\* what was still on its way may be found in the tables.
WipeIsComplete == NoneButResidue
=============================================================================
