----------------------------- MODULE WorkerPool -----------------------------
(***************************************************************************)
(* The conductor's tasks on the worker threads of tokio's runtime.  A task *)
(* that is polled keeps its worker until it awaits something; nothing      *)
(* takes the worker from it.  The tasks of the store lock a std::sync      *)
(* Mutex and run SQLite's statements inside such a poll, so one that waits *)
(* for the mutex or for the disk keeps a worker from the audio; so does an *)
(* eBPF poller that drains its ring buffer.  main has a thread of its own, *)
(* but timers, sockets and signals are noticed by the workers between two  *)
(* polls.                                                                  *)
(*                                                                         *)
(* Which worker runs a task does not matter, so only their number is kept. *)
(***************************************************************************)
EXTENDS Naturals, FiniteSets

CONSTANTS NumWorkers,  \* worker threads (the processor's cores)
          Pollers,     \* eBPF polling tasks
          Callers      \* the store's other users: purge, wipe and, bounded
                       \* by this set, the inserts that exist at a time

Audio == {"aggregator", "mapper", "dispatcher"}
Store == {"writer"} \cup Callers
Tasks == Audio \cup Store \cup Pollers

ASSUME PoolAssumption ==
    /\ NumWorkers \in Nat \ {0} /\ IsFiniteSet(Tasks) /\ "free" \notin Store
    /\ Store \cap Audio = {} /\ Pollers \cap (Audio \cup Store) = {}

VARIABLES stage,   \* where each task stands
          again,   \* tasks woken during their own poll
          lock,    \* the mutex around the SQLite connection
          signal,  \* whether SIGTERM or SIGINT has come
          life     \* the runtime

poolVars == <<stage, again, lock, signal, life>>

\* Who is woken by what a task sends.
WokenBy == [t \in Audio |-> CASE t = "aggregator" -> {"mapper", "writer"}
                              [] t = "mapper" -> {"dispatcher"}
                              [] t = "dispatcher" -> {}]

\* Who waits for a tick, a request, an event or the kernel, and who is spawned
\* for an event.
Awaiting == {"aggregator"} \cup Callers \cup Pollers

Busy == {t \in Tasks : stage[t] \in {"polled", "inside"}}
FreeWorker == Cardinality(Busy) < NumWorkers

PoolInit ==
    /\ stage = [t \in Tasks |-> "idle"] /\ again = {}
    /\ lock = "free" /\ signal = FALSE /\ life = "up"

---------------------------------------------------------------------------
(* Waking and polling.                                                     *)

\* A poll ends: the task rests, or is to be polled again if it was woken
\* meanwhile (a receiver that finds more goes on until tokio's budget makes it
\* yield; here it yields at once), and the tasks it sent to are woken.
RestAfter(t, woken) ==
    /\ stage' = [u \in Tasks |->
                    IF u = t THEN IF t \in again THEN "ready" ELSE "idle"
                    ELSE IF u \in woken /\ stage[u] = "idle" THEN "ready"
                    ELSE stage[u]]
    /\ again' = (again \ {t}) \cup ((woken \cap Busy) \ {t})

\* Somebody between two polls finds that what a task awaits is there.
Arrive(t) ==
    /\ life = "up" /\ FreeWorker /\ t \in Awaiting /\ stage[t] = "idle"
    /\ stage' = [stage EXCEPT ![t] = "ready"]
    /\ UNCHANGED <<again, lock, signal, life>>

Poll(t) ==
    /\ life = "up" /\ FreeWorker /\ stage[t] = "ready"
    /\ stage' = [stage EXCEPT ![t] = "polled"]
    /\ UNCHANGED <<again, lock, signal, life>>

\* An audio task's poll: channels, locks held for a copy, and UDP sends.
AudioRests(t) ==
    /\ t \in Audio /\ stage[t] = "polled"
    /\ RestAfter(t, WokenBy[t])
    /\ UNCHANGED <<lock, signal, life>>

\* The ring buffer is empty: the poller awaits the next event.
DrainEnds(p) ==
    /\ p \in Pollers /\ stage[p] = "polled"
    /\ RestAfter(p, {})
    /\ UNCHANGED <<lock, signal, life>>

---------------------------------------------------------------------------
(* The store.                                                              *)

\* lock() returns; until then the task is "polled" and blocks its worker.
Enter(t) ==
    /\ t \in Store /\ stage[t] = "polled" /\ lock = "free"
    /\ stage' = [stage EXCEPT ![t] = "inside"] /\ lock' = t
    /\ UNCHANGED <<again, signal, life>>

KeptAcrossAwait(t) == IF t = "writer" THEN t ELSE "free"
ReleasedBy(t) == "free"

\* The statements are done (all of a purge's or a wipe's in one poll), the
\* guard is dropped and the task awaits its next work or, if an insert, ends.
Leave(t) ==
    /\ t \in Store /\ stage[t] = "inside"
    /\ lock' = ReleasedBy(t)
    /\ RestAfter(t, {})
    /\ UNCHANGED <<signal, life>>

---------------------------------------------------------------------------
(* The end.                                                                *)

SignalComes ==
    /\ life = "up" /\ signal' = TRUE
    /\ UNCHANGED <<stage, again, lock, life>>

\* A worker notices the signal, main is woken and returns: the runtime polls
\* nothing any more ...
StopPolling ==
    /\ life = "up" /\ signal /\ FreeWorker
    /\ life' = "dropping"
    /\ UNCHANGED <<stage, again, lock, signal>>

WaitsForPolls == life = "dropping" /\ Busy = {}

\* ... and is gone when the last running poll has ended.
Gone ==
    /\ WaitsForPolls /\ life' = "gone"
    /\ UNCHANGED <<stage, again, lock, signal>>

---------------------------------------------------------------------------
PoolNext ==
    \/ \E t \in Tasks : \/ Arrive(t) \/ Poll(t) \/ AudioRests(t)
                        \/ DrainEnds(t) \/ Enter(t) \/ Leave(t)
    \/ SignalComes \/ StopPolling \/ Gone

PoolSpec == PoolInit /\ [][PoolNext]_poolVars

\* An audio task's poll ends and SQLite's statements come to an end; a free
\* mutex is taken by one of those that wait, whichever (std's Mutex promises
\* no order); tokio polls every ready task and looks at the signals as long
\* as workers become free.  A drain loop may go on for ever, and the store's
\* tasks need no poll for what is stated below.
PoolFairSpec ==
    /\ PoolSpec
    /\ \A t \in Audio : WF_poolVars(AudioRests(t)) /\ SF_poolVars(Poll(t))
    /\ WF_poolVars(\E t \in Store : Enter(t)) /\ WF_poolVars(\E t \in Store : Leave(t))
    /\ SF_poolVars(StopPolling) /\ WF_poolVars(Gone)

---------------------------------------------------------------------------
(* Properties.                                                             *)

\* Every variable keeps its type, and no more tasks are on workers than there
\* are workers.
PoolTypeOK ==
    /\ stage \in [Tasks -> {"idle", "ready", "polled", "inside"}]
    /\ again \in SUBSET Tasks
    /\ lock \in {"free"} \cup Store
    /\ signal \in BOOLEAN /\ life \in {"up", "dropping", "gone"}
    /\ Cardinality(Busy) <= NumWorkers

\* Whoever holds the mutex is on a worker and inside its statements, so those
\* that block the other workers wait only for the disk, never for a task that
\* itself waits for a worker; and the process does not end under it, so that no
\* stop falls between the two statements of a purge or of a wipe.
HolderRuns ==
    /\ \A t \in Store : lock = t <=> stage[t] = "inside"
    /\ life = "gone" => lock = "free"

\* While there are fewer pollers than workers, a tick of the aggregator is
\* followed by a poll of the dispatcher, though every worker may be taken by
\* the store's tasks at times and the pollers may drain for ever; unless the process
\* stops.
TickReachesDispatcher ==
    Cardinality(Pollers) < NumWorkers =>
        (stage["aggregator"] = "ready"
             ~> stage["dispatcher"] = "polled" \/ life # "up")

\* If every drain loop is left again, a signal ends the process, also when it
\* comes while all workers block on the mutex.
DrainsEnd == \A p \in Pollers : []<>(stage[p] # "polled")
SignalEndsProcess == DrainsEnd => (signal ~> life = "gone")
=============================================================================
