------------------------------ MODULE Cascade ------------------------------
(***************************************************************************)
(* What holds the conductor's tasks together: each reads one bounded       *)
(* channel and sends into others, a channel is closed when the task that   *)
(* reads it has ended, and a task that finds its own channel closed and    *)
(* empty, or one it sends into closed, ends too.  Nothing restarts a task. *)
(*                                                                         *)
(* TelemetryPath and AudioPath implement this with the tasks they model,   *)
(* and Conductor composes it with the life of the process.                 *)
(***************************************************************************)
CONSTANTS Tasks,
          Feeds,     \* pairs <<s, t>>: s sends into the channel that t reads
          Leavers,   \* tasks that end on finding what they feed closed
          Drainers   \* tasks whose loop ends with their own channel

VARIABLES ended,     \* the tasks that have ended
          willing    \* those that may now end of themselves

FindsClosed(t) == t \in Leavers /\ \E u \in ended : <<t, u>> \in Feeds
RunsDry(t) ==
    /\ t \in Drainers
    /\ \A s \in Tasks : <<s, t>> \in Feeds => s \in ended

TaskEnds(t) ==
    /\ t \in Tasks \ ended
    /\ ended' = ended \cup {t}
    /\ t \in willing \/ FindsClosed(t) \/ RunsDry(t)

CascadeInit == ended = {}
CascadeNext == \E t \in Tasks : TaskEnds(t)
CascadeSpec == CascadeInit /\ [][CascadeNext]_ended
=============================================================================
