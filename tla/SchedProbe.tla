---------------------------- MODULE SchedProbe -----------------------------
(***************************************************************************)
(* The eBPF program cpu_sched: three tracepoint handlers that share a hash *)
(* map from a pid to the time of its wakeup, and a ring buffer to the user *)
(* space.  A handler runs within the kernel's step that fires it.          *)
(*                                                                         *)
(* The kernel's scheduler and the reader of the ring buffer are external:  *)
(* tasks sleep, are woken, wait, run, are preempted and exit, and after    *)
(* its exit tracepoint a task may still sleep and be woken until it is     *)
(* switched away for the last time.  A task that has announced its sleep   *)
(* is also woken while it still runs, or while it waits preempted.  Names, *)
(* hashes and CPU numbers are left out; a pid is not used again.           *)
(* History variables, read by no guard: queuedAt, wokenAt, stray, report.  *)
(***************************************************************************)
EXTENDS Naturals, FiniteSets

CONSTANTS Pids, Cpus,
          Idle,        \* pid 0, the idle task of every CPU
          MapMax,      \* entries of wakeup_timestamps (10240)
          RingMax,     \* events the ring buffer holds (256 KB)
          MaxTime      \* bound: the clock

ASSUME SchedAssumption ==
    /\ IsFiniteSet(Pids) /\ Idle \notin Pids
    /\ MapMax \in Nat /\ RingMax \in Nat /\ MaxTime \in Nat

VARIABLES now, task, exiting, on,    \* the kernel; on[c]: who runs on CPU c
          wakeup,                    \* wakeup_timestamps: 0 for no entry
          ring,                      \* events in the ring buffer
          queuedAt, wokenAt, stray, report

kernel == <<task, exiting, on>>
history == <<queuedAt, wokenAt, stray, report>>
vars == <<now, kernel, wakeup, ring, history>>

Entries == {p \in Pids : wakeup[p] # 0}

Init ==
    /\ now = 1
    /\ task = [p \in Pids |-> "asleep"] /\ exiting = {}
    /\ on = [c \in Cpus |-> Idle]
    /\ wakeup = [p \in Pids |-> 0] /\ ring = 0
    /\ queuedAt = [p \in Pids |-> 0] /\ wokenAt = [p \in Pids |-> 0]
    /\ stray = {}
    /\ report = [latency |-> 0, queued |-> 0, woken |-> 0, stray |-> FALSE]

ClockAdvances ==
    /\ now < MaxTime /\ now' = now + 1
    /\ UNCHANGED <<kernel, wakeup, ring, history>>

\* The user space takes an event out of the ring buffer.
Drain ==
    /\ ring > 0 /\ ring' = ring - 1
    /\ UNCHANGED <<now, kernel, wakeup, history>>

---------------------------------------------------------------------------
(* handle_sched_wakeup: whatever the task was doing, its time is stored,    *)
(* unless the map has no room.                                             *)

Fits(p) == p \in Entries \/ Cardinality(Entries) < MapMax

\* The kernel wakes a sleeping task, or takes back the sleep that a task has
\* announced which still runs, or was preempted on its way to sleep.
Wakeup(p) ==
    /\ task[p] \in {"asleep", "preempted", "running"}
    /\ task' = [task EXCEPT ![p] = IF @ = "running" THEN @ ELSE "ready"]
    /\ wakeup' = IF Fits(p) THEN [wakeup EXCEPT ![p] = now] ELSE wakeup
    /\ queuedAt' = IF task[p] = "asleep" THEN [queuedAt EXCEPT ![p] = now]
                   ELSE queuedAt
    /\ wokenAt' = [wokenAt EXCEPT ![p] = now]
    /\ stray' = IF task[p] = "running" THEN stray \cup {p} ELSE stray \ {p}
    /\ UNCHANGED <<now, exiting, on, ring, report>>

---------------------------------------------------------------------------
(* handle_sched_switch.                                                    *)

NotDeleted(p) == wakeup
EntryDeleted(p) == [wakeup EXCEPT ![p] = 0]
Latency(p) == IF wakeup[p] = 0 THEN 0 ELSE now - wakeup[p]

\* Without room in the ring buffer the handler returns before the lookup.
HandleSwitch(next) ==
    IF ring < RingMax
    THEN /\ ring' = ring + 1 /\ stray' = stray \ {next}
         /\ IF next = Idle THEN UNCHANGED <<wakeup, report>>
            ELSE /\ wakeup' = EntryDeleted(next)
                 /\ report' = [latency |-> Latency(next),
                               queued |-> now - queuedAt[next],
                               woken |-> now - wokenAt[next],
                               stray |-> next \in stray]
    ELSE /\ stray' = (stray \cup {next}) \ {Idle}
         /\ UNCHANGED <<ring, wakeup, report>>

\* What becomes of the task that leaves the CPU.
Leaves(prev, how) ==
    /\ how = "dead" => prev \in exiting
    /\ prev = Idle => how = "preempted"
    /\ queuedAt' = IF prev # Idle /\ how = "preempted"
                   THEN [queuedAt EXCEPT ![prev] = now] ELSE queuedAt

Switch(c, next, how) ==
    /\ next # on[c]
    /\ next # Idle => task[next] \in {"ready", "preempted"}
    /\ Leaves(on[c], how)
    /\ task' = [p \in Pids |-> IF p = next THEN "running"
                               ELSE IF p = on[c] THEN how ELSE task[p]]
    /\ on' = [on EXCEPT ![c] = next]
    /\ HandleSwitch(next)
    /\ UNCHANGED <<now, exiting, wokenAt>>

---------------------------------------------------------------------------
(* handle_process_exit.                                                    *)

ExitDeletes(p) == [wakeup EXCEPT ![p] = 0]

Exit(p) ==
    /\ task[p] = "running" /\ p \notin exiting
    /\ exiting' = exiting \cup {p}
    /\ wakeup' = ExitDeletes(p)
    /\ stray' = stray \ {p}
    /\ UNCHANGED <<now, task, on, ring, queuedAt, wokenAt, report>>

---------------------------------------------------------------------------
Next == \/ ClockAdvances \/ Drain
        \/ \E p \in Pids : Wakeup(p) \/ Exit(p)
        \/ \E c \in Cpus, next \in Pids \cup {Idle},
              how \in {"preempted", "asleep", "dead"} : Switch(c, next, how)
Spec == Init /\ [][Next]_vars

---------------------------------------------------------------------------
(* Properties.                                                             *)

\* Every variable keeps its type, and the map and the ring their capacities.
TypeOK ==
    /\ now \in Nat
    /\ task \in [Pids -> {"asleep", "ready", "preempted", "running", "dead"}]
    /\ exiting \in SUBSET Pids /\ on \in [Cpus -> Pids \cup {Idle}]
    /\ wakeup \in [Pids -> Nat] /\ Cardinality(Entries) <= MapMax
    /\ ring \in 0 .. RingMax
    /\ queuedAt \in [Pids -> Nat] /\ wokenAt \in [Pids -> Nat]
    /\ stray \in SUBSET Pids
    /\ report \in [latency : Nat, queued : Nat, woken : Nat, stray : BOOLEAN]

\* A reported latency is the time since the task's last wakeup or the fallback
\* of 0.  It is more than the time the task has waited for the CPU only if that
\* wakeup found the task running, or an earlier switch to it found the ring
\* buffer full and left its entry behind.
LatencyWithinWait ==
    /\ report.latency \in {0, report.woken}
    /\ report.latency > report.queued => report.stray

\* A task that does not wait after its wakeup has an entry in the map only for
\* these two reasons, and an exited one only if they came after its exit
\* tracepoint: no entry outlives the run of its task, nor the task, otherwise.
EntriesWaitUnlessStray ==
    \A p \in Entries \ stray : task[p] = "ready"
=============================================================================
