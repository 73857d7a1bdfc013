--------------------------- MODULE SnapshotFeed ----------------------------
(***************************************************************************)
(* What the audio path promises about the snapshots of the aggregator,     *)
(* whatever queues and tasks lie between it and the OSC backends: they are *)
(* played in the order of the ticks, none twice; any of them may be lost   *)
(* on the way, and none is held back for ever.                             *)
(***************************************************************************)
EXTENDS Naturals

CONSTANT MaxTicks

VARIABLES published,   \* snapshots made so far; the newest has this number
          pending,     \* the numbers of those neither played nor lost
          played       \* the number of the last one played

feedVars == <<published, pending, played>>

FeedInit == published = 0 /\ pending = {} /\ played = 0

PublishSnapshot ==
    /\ published < MaxTicks
    /\ published' = published + 1
    /\ pending' = pending \cup {published + 1}
    /\ UNCHANGED played

LoseSnapshots ==
    /\ \E gone \in SUBSET pending : gone # {} /\ pending' = pending \ gone
    /\ UNCHANGED <<published, played>>

PlaySnapshot ==
    /\ \E k \in pending :
          /\ \A j \in pending : k <= j
          /\ played' = k
          /\ pending' = pending \ {k}
    /\ UNCHANGED published

FeedNext == PublishSnapshot \/ LoseSnapshots \/ PlaySnapshot
FeedSafety == FeedInit /\ [][FeedNext]_feedVars
Feed == FeedSafety /\ WF_feedVars(LoseSnapshots \/ PlaySnapshot)

\* No snapshot that is still on its way is older than the last one played,
\* so what is played never goes back in time.
NeverGoesBack == \A k \in pending : played < k /\ k <= published
=============================================================================
