-------------------------- MODULE SchedProbeProofs --------------------------
(***************************************************************************)
(* Proofs about SchedProbe for any number of tasks and CPUs and any sizes  *)
(* of the map and the ring buffer: types and capacities, what a reported   *)
(* latency means, and which tasks have entries in the map.                 *)
(***************************************************************************)
EXTENDS SchedProbe, FiniteSetTheorems, TLAPS

\* Who is on a CPU runs, and on no other CPU.
KernelInv ==
    /\ \A c \in Cpus : on[c] # Idle => task[on[c]] = "running"
    /\ \A c, d \in Cpus : c # d /\ on[c] # Idle => on[c] # on[d]

\* No time stamp lies ahead of the clock.
ClockInv ==
    \A p \in Pids : wakeup[p] <= now /\ queuedAt[p] <= now /\ wokenAt[p] <= now

\* An entry of the map is the time of its task's last wakeup, and unless it is
\* a stray one the task has been waiting at least since then.
EntryInv ==
    \A p \in Entries :
        /\ wakeup[p] = wokenAt[p]
        /\ p \notin stray => task[p] = "ready" /\ queuedAt[p] <= wakeup[p]

SchedInv == /\ TypeOK /\ KernelInv /\ ClockInv /\ EntryInv
            /\ LatencyWithinWait

TaskStates == {"asleep", "ready", "preempted", "running", "dead"}
Reports == [latency : Nat, queued : Nat, woken : Nat, stray : BOOLEAN]

LEMMA EntriesFinite == IsFiniteSet(Entries)
BY SchedAssumption, FS_Subset DEF Entries

\* Fewer entries fit too.
LEMMA FewerEntries ==
    ASSUME TypeOK, Entries' \subseteq Entries
    PROVE  Cardinality(Entries') <= MapMax
<1>1. /\ Cardinality(Entries') <= Cardinality(Entries)
      /\ Cardinality(Entries') \in Nat /\ Cardinality(Entries) \in Nat
  BY EntriesFinite, FS_Subset, FS_CardinalityType
<1>. QED  BY <1>1, SchedAssumption DEF TypeOK

LEMMA SchedInit == Init => SchedInv
<1>. SUFFICES ASSUME Init PROVE SchedInv
  OBVIOUS
<1>1. Entries = {}
  BY DEF Init, Entries
<1>2. Cardinality(Entries) <= MapMax
  BY <1>1, FS_EmptySet, SchedAssumption
<1>3. ring \in 0 .. RingMax /\ on \in [Cpus -> Pids \cup {Idle}]
  BY SchedAssumption DEF Init
<1>4. /\ wakeup \in [Pids -> Nat] /\ queuedAt \in [Pids -> Nat]
      /\ wokenAt \in [Pids -> Nat] /\ task \in [Pids -> TaskStates]
      /\ report \in Reports
  BY DEF Init, TaskStates, Reports
<1>5. TypeOK
  BY <1>2, <1>3, <1>4 DEF Init, TypeOK, TaskStates, Reports
<1>. QED  BY <1>1, <1>5 DEF Init, SchedInv, KernelInv, ClockInv, EntryInv,
                            LatencyWithinWait

LEMMA SchedClock ==
    ASSUME SchedInv, ClockAdvances \/ Drain
    PROVE  SchedInv'
<1>1. /\ now' \in Nat /\ now' >= now /\ ring' \in 0 .. RingMax
      /\ UNCHANGED <<task, exiting, on, wakeup, queuedAt, wokenAt, stray, report>>
  BY SchedAssumption DEF SchedInv, TypeOK, ClockAdvances, Drain, kernel, history
<1>2. Entries' = Entries
  BY <1>1 DEF Entries
<1>3. TypeOK'
  BY <1>1, <1>2 DEF SchedInv, TypeOK
<1>4. ClockInv'
  <2>1. \A p \in Pids : /\ wakeup[p] \in Nat /\ queuedAt[p] \in Nat
                        /\ wokenAt[p] \in Nat /\ wokenAt[p] <= now
                        /\ wakeup[p] <= now /\ queuedAt[p] <= now
    BY DEF SchedInv, TypeOK, ClockInv
  <2>2. now \in Nat
    BY DEF SchedInv, TypeOK
  <2>. QED  BY <1>1, <2>1, <2>2 DEF ClockInv
<1>. QED  BY <1>1, <1>2, <1>3, <1>4 DEF SchedInv, KernelInv, EntryInv,
                                        LatencyWithinWait

LEMMA SchedWakeup ==
    ASSUME SchedInv, NEW p \in Pids, Wakeup(p)
    PROVE  SchedInv'
<1>1. /\ task[p] \in {"asleep", "preempted", "running"}
      /\ task' = [task EXCEPT ![p] = IF @ = "running" THEN @ ELSE "ready"]
      /\ queuedAt' = IF task[p] = "asleep" THEN [queuedAt EXCEPT ![p] = now]
                     ELSE queuedAt
      /\ wokenAt' = [wokenAt EXCEPT ![p] = now]
      /\ wakeup' = IF Fits(p) THEN [wakeup EXCEPT ![p] = now] ELSE wakeup
      /\ stray' = IF task[p] = "running" THEN stray \cup {p} ELSE stray \ {p}
      /\ UNCHANGED <<now, exiting, on, ring, report>>
  BY DEF Wakeup
<1>2. /\ now \in Nat /\ wakeup \in [Pids -> Nat] /\ queuedAt \in [Pids -> Nat]
      /\ wokenAt \in [Pids -> Nat] /\ task \in [Pids -> TaskStates]
      /\ stray \in SUBSET Pids
  BY DEF SchedInv, TypeOK, TaskStates
<1>3. /\ wakeup' \in [Pids -> Nat] /\ queuedAt' \in [Pids -> Nat]
      /\ wokenAt' \in [Pids -> Nat] /\ task' \in [Pids -> TaskStates]
      /\ stray' \in SUBSET Pids
      /\ task'[p] = IF task[p] = "running" THEN "running" ELSE "ready"
      /\ wokenAt'[p] = now
      /\ queuedAt'[p] = IF task[p] = "asleep" THEN now ELSE queuedAt[p]
      /\ \A q \in Pids \ {p} :
            /\ wakeup'[q] = wakeup[q] /\ queuedAt'[q] = queuedAt[q]
            /\ wokenAt'[q] = wokenAt[q] /\ task'[q] = task[q]
            /\ q \in stray' <=> q \in stray
  BY <1>1, <1>2 DEF TaskStates
<1>4. wakeup'[p] = IF Fits(p) THEN now ELSE wakeup[p]
  BY <1>1, <1>2
<1>5. Cardinality(Entries') <= MapMax
  <2>1. CASE p \in Entries \/ ~Fits(p)
    <3>1. Entries' \subseteq Entries
      BY <1>3, <1>4, <2>1 DEF Entries
    <3>. QED  BY <3>1, FewerEntries DEF SchedInv
  <2>2. CASE p \notin Entries /\ Fits(p)
    <3>1. Entries' \subseteq Entries \cup {p}
      BY <1>3 DEF Entries
    <3>2. /\ IsFiniteSet(Entries \cup {p})
          /\ Cardinality(Entries \cup {p}) = Cardinality(Entries) + 1
      BY <2>2, EntriesFinite, FS_AddElement
    <3>3. /\ Cardinality(Entries') <= Cardinality(Entries) + 1
          /\ Cardinality(Entries') \in Nat /\ Cardinality(Entries) \in Nat
      BY <3>1, <3>2, EntriesFinite, FS_Subset, FS_CardinalityType
    <3>4. Cardinality(Entries) < MapMax
      BY <2>2 DEF Fits
    <3>. QED  BY <3>3, <3>4, SchedAssumption
  <2>. QED  BY <2>1, <2>2
<1>6. TypeOK'
  BY <1>1, <1>3, <1>5 DEF SchedInv, TypeOK, TaskStates
<1>7. KernelInv'
  <2>1. \A c \in Cpus : on[c] # Idle => on[c] \in Pids /\ task[on[c]] = "running"
    BY DEF SchedInv, TypeOK, KernelInv
  <2>2. \A q \in Pids : task[q] = "running" => task'[q] = "running"
    BY <1>3
  <2>. QED  BY <1>1, <2>1, <2>2 DEF SchedInv, KernelInv
<1>8. ClockInv'
  BY <1>1, <1>2, <1>3, <1>4 DEF SchedInv, ClockInv
<1>9. EntryInv'
  <2>1. Fits(p) \/ wakeup'[p] = 0
    BY <1>4 DEF Fits, Entries
  <2>2. wakeup'[p] # 0 =>
            /\ wakeup'[p] = wokenAt'[p]
            /\ p \notin stray' => task'[p] = "ready" /\ queuedAt'[p] <= wakeup'[p]
    BY <1>1, <1>2, <1>3, <1>4, <2>1 DEF SchedInv, ClockInv
  <2>3. \A q \in Pids \ {p} : q \in Entries' =>
            /\ wakeup'[q] = wokenAt'[q]
            /\ q \notin stray' => task'[q] = "ready" /\ queuedAt'[q] <= wakeup'[q]
    BY <1>3 DEF SchedInv, EntryInv, Entries
  <2>. QED  BY <2>2, <2>3 DEF EntryInv, Entries
<1>. QED  BY <1>1, <1>6, <1>7, <1>8, <1>9 DEF SchedInv, LatencyWithinWait

LEMMA SchedExit ==
    ASSUME SchedInv, NEW p \in Pids, Exit(p)
    PROVE  SchedInv'
<1>1. /\ wakeup' = [wakeup EXCEPT ![p] = 0] /\ exiting' = exiting \cup {p}
      /\ stray' = stray \ {p}
      /\ UNCHANGED <<now, task, on, ring, queuedAt, wokenAt, report>>
  BY DEF Exit, ExitDeletes
<1>2. /\ wakeup' \in [Pids -> Nat] /\ wakeup'[p] = 0
      /\ \A q \in Pids \ {p} : wakeup'[q] = wakeup[q]
  BY <1>1 DEF SchedInv, TypeOK
<1>3. Entries' \subseteq Entries \ {p}
  BY <1>2 DEF Entries
<1>4. TypeOK'
  BY <1>1, <1>2, <1>3, FewerEntries DEF SchedInv, TypeOK
<1>5. ClockInv'
  BY <1>1, <1>2 DEF SchedInv, ClockInv, TypeOK
<1>6. EntryInv'
  BY <1>1, <1>2, <1>3 DEF SchedInv, EntryInv, Entries
<1>. QED  BY <1>1, <1>4, <1>5, <1>6 DEF SchedInv, KernelInv, LatencyWithinWait

LEMMA SchedSwitch ==
    ASSUME SchedInv, NEW c \in Cpus, NEW next \in Pids \cup {Idle},
           NEW how \in {"preempted", "asleep", "dead"}, Switch(c, next, how)
    PROVE  SchedInv'
<1>. DEFINE prev == on[c]
<1>1. /\ next # prev
      /\ next # Idle => next \in Pids /\ task[next] \in {"ready", "preempted"}
      /\ prev \in Pids \cup {Idle}
      /\ (prev # Idle => prev \in Pids /\ task[prev] = "running")
      /\ now \in Nat /\ Idle \notin Pids
  BY SchedAssumption DEF Switch, SchedInv, TypeOK, KernelInv
<1>2. /\ task' \in [Pids -> TaskStates] /\ on' \in [Cpus -> Pids \cup {Idle}]
      /\ on'[c] = next /\ (\A d \in Cpus \ {c} : on'[d] = on[d])
      /\ \A p \in Pids : task'[p] = IF p = next THEN "running"
                                    ELSE IF p = prev THEN how ELSE task[p]
      /\ UNCHANGED <<now, exiting, wokenAt>>
  BY DEF Switch, SchedInv, TypeOK, TaskStates
<1>3. /\ queuedAt' \in [Pids -> Nat]
      /\ \A p \in Pids : queuedAt'[p] = IF p = prev /\ how = "preempted" THEN now
                                        ELSE queuedAt[p]
  <2>1. queuedAt' = IF prev # Idle /\ how = "preempted"
                    THEN [queuedAt EXCEPT ![prev] = now] ELSE queuedAt
    BY DEF Switch, Leaves
  <2>. QED  BY <1>1, <2>1 DEF SchedInv, TypeOK
<1>4. /\ wakeup' \in [Pids -> Nat]
      /\ \A p \in Pids \ {next} : wakeup'[p] = wakeup[p]
      /\ next # Idle => wakeup'[next] = wakeup[next] \/ wakeup'[next] = 0
  BY <1>1 DEF Switch, HandleSwitch, EntryDeleted, SchedInv, TypeOK
<1>5. ring' \in 0 .. RingMax
  <2>1. ring \in 0 .. RingMax /\ RingMax \in Nat
    BY SchedAssumption DEF SchedInv, TypeOK
  <2>2. (ring < RingMax /\ ring' = ring + 1) \/ ring' = ring
    BY DEF Switch, HandleSwitch
  <2>. QED  BY <2>1, <2>2, SMT
<1>6. /\ stray' \in SUBSET Pids
      /\ \A p \in Pids \ {next} : p \in stray' <=> p \in stray
  BY <1>1 DEF Switch, HandleSwitch, SchedInv, TypeOK
<1>7. next # Idle => next \in stray' \/ wakeup'[next] = 0
  BY <1>1 DEF Switch, HandleSwitch, EntryDeleted, SchedInv, TypeOK
<1>8. \/ report' = report
      \/ /\ next # Idle
         /\ report' = [latency |-> Latency(next), queued |-> now - queuedAt[next],
                       woken |-> now - wokenAt[next], stray |-> next \in stray]
  BY DEF Switch, HandleSwitch
<1>9. report' \in Reports /\ LatencyWithinWait'
  <2>1. CASE report' = report
    BY <2>1 DEF SchedInv, TypeOK, Reports, LatencyWithinWait
  <2>2. CASE next # Idle /\ report' = [latency |-> Latency(next),
                                       queued |-> now - queuedAt[next],
                                       woken |-> now - wokenAt[next],
                                       stray |-> next \in stray]
    <3>1. /\ wakeup[next] \in Nat /\ wakeup[next] <= now
          /\ queuedAt[next] \in Nat /\ queuedAt[next] <= now
          /\ wokenAt[next] \in Nat /\ wokenAt[next] <= now
      BY <1>1, <2>2 DEF SchedInv, TypeOK, ClockInv
    <3>2. wakeup[next] # 0 => /\ wakeup[next] = wokenAt[next]
                              /\ next \notin stray => queuedAt[next] <= wakeup[next]
      BY <1>1, <2>2 DEF SchedInv, EntryInv, Entries
    <3>3. /\ Latency(next) \in Nat
          /\ Latency(next) \in {0, now - wokenAt[next]}
          /\ next \notin stray => Latency(next) <= now - queuedAt[next]
      BY <1>1, <3>1, <3>2 DEF Latency
    <3>4. /\ report'.latency = Latency(next)
          /\ report'.queued = now - queuedAt[next]
          /\ report'.woken = now - wokenAt[next]
          /\ report'.stray = (next \in stray)
      BY <2>2
    <3>5. /\ now - queuedAt[next] \in Nat /\ now - wokenAt[next] \in Nat
          /\ (next \in stray) \in BOOLEAN
      BY <1>1, <3>1
    <3>6. report' \in Reports
      BY <2>2, <3>3, <3>5 DEF Reports
    <3>7. Latency(next) > now - queuedAt[next] => next \in stray
      BY <3>3, <3>5
    <3>8. LatencyWithinWait'
      BY <3>3, <3>4, <3>7, Zenon DEF LatencyWithinWait
    <3>. QED  BY <3>6, <3>8
  <2>. QED  BY <1>8, <2>1, <2>2
<1>10. Cardinality(Entries') <= MapMax
  <2>1. Entries' \subseteq Entries
    BY <1>1, <1>4 DEF Entries
  <2>. QED  BY <2>1, FewerEntries DEF SchedInv
<1>11. TypeOK'
  BY <1>2, <1>3, <1>4, <1>5, <1>6, <1>9, <1>10
  DEF SchedInv, TypeOK, TaskStates, Reports
<1>12. KernelInv'
  <2>1. \A d \in Cpus \ {c} : on[d] # Idle =>
           on[d] # next /\ on[d] # prev /\ on[d] \in Pids /\ task[on[d]] = "running"
    BY <1>1 DEF SchedInv, TypeOK, KernelInv
  <2>2. \A d \in Cpus \ {c} : on'[d] # Idle => task'[on'[d]] = "running"
    BY <1>2, <2>1
  <2>3. on'[c] # Idle => task'[on'[c]] = "running"
    BY <1>1, <1>2
  <2>4. \A d, e \in Cpus : d # e /\ on'[d] # Idle => on'[d] # on'[e]
    BY <1>2, <2>1 DEF SchedInv, KernelInv
  <2>. QED  BY <2>2, <2>3, <2>4 DEF KernelInv
<1>13. ClockInv'
  <2>1. \A p \in Pids : /\ wakeup[p] <= now /\ queuedAt[p] <= now
                        /\ wokenAt[p] <= now
    BY DEF SchedInv, ClockInv
  <2>. QED  BY <1>1, <1>2, <1>3, <1>4, <2>1 DEF ClockInv
<1>14. EntryInv'
  <2>1. ASSUME NEW p \in Pids, wakeup'[p] # 0, p # next
        PROVE  /\ wakeup'[p] = wokenAt'[p]
               /\ p \notin stray' => task'[p] = "ready" /\ queuedAt'[p] <= wakeup'[p]
    <3>1. wakeup[p] = wakeup'[p] /\ p \in Entries /\ (p \in stray' <=> p \in stray)
      BY <1>4, <1>6, <2>1 DEF Entries
    <3>2. /\ wakeup[p] = wokenAt[p]
          /\ p \notin stray => task[p] = "ready" /\ queuedAt[p] <= wakeup[p]
      BY <3>1 DEF SchedInv, EntryInv
    <3>3. p \notin stray => p # prev
      BY <1>1, <3>2
    <3>. QED  BY <1>2, <1>3, <2>1, <3>1, <3>2, <3>3
  <2>2. ASSUME next # Idle, wakeup'[next] # 0
        PROVE  wakeup'[next] = wokenAt'[next] /\ next \in stray'
    <3>1. wakeup'[next] = wakeup[next] /\ next \in Entries
      BY <1>1, <1>4, <2>2 DEF Entries
    <3>. QED  BY <1>2, <1>7, <2>2, <3>1 DEF SchedInv, EntryInv
  <2>. QED  BY <1>1, <2>1, <2>2 DEF EntryInv, Entries
<1>. QED  BY <1>9, <1>11, <1>12, <1>13, <1>14 DEF SchedInv

LEMMA SchedStep == SchedInv /\ [Next]_vars => SchedInv'
<1>. SUFFICES ASSUME SchedInv, [Next]_vars PROVE SchedInv'
  OBVIOUS
<1>1. CASE UNCHANGED vars
  <2>1. Entries' = Entries
    BY <1>1 DEF vars, Entries
  <2>. QED  BY <1>1, <2>1 DEF vars, kernel, history, SchedInv, TypeOK,
                              KernelInv, ClockInv, EntryInv, LatencyWithinWait
<1>. QED  BY <1>1, SchedClock, SchedWakeup, SchedExit, SchedSwitch DEF Next

LEMMA SchedCorrect == Spec => []SchedInv
BY SchedInit, SchedStep, PTL DEF Spec

\* The variables keep their types, the map never has more entries than fit and
\* the ring buffer never more events, for any number of tasks and CPUs.
THEOREM TypeCorrect == Spec => []TypeOK
<1>1. SchedInv => TypeOK
  BY DEF SchedInv
<1>. QED  BY <1>1, SchedCorrect, PTL

\* A reported latency is the time since its task's last wakeup, or 0, and more
\* than the wait only after a wakeup that found the task running or a switch to
\* it that found the ring buffer full; for any number of tasks and CPUs.
THEOREM LatencyBounded == Spec => []LatencyWithinWait
<1>1. SchedInv => LatencyWithinWait
  BY DEF SchedInv
<1>. QED  BY <1>1, SchedCorrect, PTL

\* But for those two cases whoever has an entry in the map waits after a wakeup:
\* no task that runs, sleeps or is dead.
THEOREM EntriesWait == Spec => []EntriesWaitUnlessStray
<1>1. SchedInv => EntriesWaitUnlessStray
  BY DEF SchedInv, EntryInv, EntriesWaitUnlessStray
<1>. QED  BY <1>1, SchedCorrect, PTL
=============================================================================
