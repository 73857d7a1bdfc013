--------------------------- MODULE MetricsScrape ---------------------------
(***************************************************************************)
(* The counters behind GET /v1/metrics: the dispatch totals of the         *)
(* OscDispatcher and a PrometheusHistogram (there are two of the same code:*)
(* the dispatcher's, with one writer, and that of the control API, with    *)
(* one writer per request).  Every counter is an AtomicU64 of its own,     *)
(* bumped and loaded with Ordering::Relaxed, so that an observation and a  *)
(* scrape are sets of steps between which others run: relaxed steps on     *)
(* different atomics may take effect in the program's order or in another. *)
(*                                                                         *)
(* A latency is the smallest bucket it belongs to, and the sum of the      *)
(* histogram, which nothing is compared with, is left out.                 *)
(* History variables, read by no guard: observed, sends, overlap.          *)
(***************************************************************************)
EXTENDS Naturals, FiniteSets

CONSTANTS Observers,   \* tasks that observe latencies
          MaxObserved, \* bound: observations
          MaxSends,    \* bound: sends of the dispatcher
          MaxScrapes   \* bound: scrapes

Latencies == {"le5", "le10", "le20", "over"}
Counters == {"total", "success", "count", "le5", "le10", "le20"}
Dispatcher == "dispatcher"
Writers == Observers \cup {Dispatcher}

ASSUME ScrapeAssumption ==
    /\ Dispatcher \notin Observers /\ IsFiniteSet(Observers)
    /\ MaxObserved \in Nat /\ MaxSends \in Nat /\ MaxScrapes \in Nat

VARIABLES value,            \* the atomics
          todo,             \* of a writer: the counters it has still to bump
          toLoad, shown,    \* of the scrape: what it has still to load; its page
          scrapes, observed, sends, overlap

history == <<scrapes, observed, sends, overlap>>
vars == <<value, todo, toLoad, shown, history>>

Zero == [c \in Counters |-> 0]
Init ==
    /\ value = Zero /\ todo = [w \in Writers |-> {}]
    /\ toLoad = {} /\ shown = Zero
    /\ scrapes = 0
    /\ observed = [l \in Latencies |-> 0] /\ sends = [total |-> 0, success |-> 0]
    /\ overlap = 0

Scraping == toLoad # {}
Busy == {w \in Writers : todo[w] # {}}

---------------------------------------------------------------------------
\* The counters an observation bumps, as PrometheusHistogram::observe does.
OnlyItsBucket(l) == IF l = "over" THEN {"count"} ELSE {"count", l}
Bumped(l) ==
    {"count"} \cup CASE l = "le5" -> {"le5", "le10", "le20"}
                      [] l = "le10" -> {"le10", "le20"}
                      [] l = "le20" -> {"le20"}
                      [] OTHER -> {}

Observe(w, l) ==
    /\ todo[w] = {}
    /\ observed["le5"] + observed["le10"] + observed["le20"]
           + observed["over"] < MaxObserved
    /\ todo' = [todo EXCEPT ![w] = Bumped(l)]
    /\ observed' = [observed EXCEPT ![l] = @ + 1]
    /\ overlap' = overlap + IF Scraping THEN 1 ELSE 0
    /\ UNCHANGED <<value, toLoad, shown, scrapes, sends>>

\* One backend of the fan-out: counted, sent, and counted again if that went.
Send ==
    /\ todo[Dispatcher] = {} /\ sends.total < MaxSends
    /\ \E sent \in BOOLEAN :
          /\ todo' = [todo EXCEPT ![Dispatcher] =
                          IF sent THEN {"total", "success"} ELSE {"total"}]
          /\ sends' = [total |-> sends.total + 1,
                       success |-> sends.success + IF sent THEN 1 ELSE 0]
    /\ overlap' = overlap + IF Scraping THEN 1 ELSE 0
    /\ UNCHANGED <<value, toLoad, shown, scrapes, observed>>

\* One fetch_add.
Bump(w) ==
    /\ \E c \in todo[w] :
          /\ value' = [value EXCEPT ![c] = @ + 1]
          /\ todo' = [todo EXCEPT ![w] = @ \ {c}]
    /\ UNCHANGED <<toLoad, shown, history>>

---------------------------------------------------------------------------
(* handle_metrics.                                                         *)

ScrapeStarts ==
    /\ ~Scraping /\ scrapes < MaxScrapes
    /\ toLoad' = Counters
    /\ scrapes' = scrapes + 1
    /\ overlap' = Cardinality(Busy)
    /\ UNCHANGED <<value, todo, shown, observed, sends>>

Load ==
    /\ \E c \in toLoad :
          /\ shown' = [shown EXCEPT ![c] = value[c]]
          /\ toLoad' = toLoad \ {c}
    /\ UNCHANGED <<value, todo, history>>

---------------------------------------------------------------------------
Next == \/ \E w \in Observers, l \in Latencies : Observe(w, l)
        \/ Send
        \/ \E w \in Writers : Bump(w)
        \/ ScrapeStarts \/ Load

Spec == Init /\ [][Next]_vars

---------------------------------------------------------------------------
(* Properties.                                                             *)

\* Every variable keeps its type.
TypeOK ==
    /\ value \in [Counters -> Nat] /\ shown \in [Counters -> Nat]
    /\ todo \in [Writers -> SUBSET Counters] /\ toLoad \in SUBSET Counters
    /\ scrapes \in Nat /\ overlap \in Nat
    /\ observed \in [Latencies -> Nat]
    /\ sends \in [total : Nat, success : Nat]

\* When no writer is at work the histogram is the cumulative one of what was
\* observed and the totals are those of the sends, whatever the interleaving.
SettledExact ==
    Busy = {} =>
        /\ value["le5"] = observed["le5"]
        /\ value["le10"] = value["le5"] + observed["le10"]
        /\ value["le20"] = value["le10"] + observed["le20"]
        /\ value["count"] = value["le20"] + observed["over"]
        /\ value["total"] = sends.total /\ value["success"] = sends.success

\* A finished page is off from a cumulative histogram, and its successes from
\* its total, by no more than the writers that were at work during the scrape.
SkewBound ==
    ~Scraping =>
        /\ shown["le5"] <= shown["le10"] + overlap
        /\ shown["le10"] <= shown["le20"] + overlap
        /\ shown["le20"] <= shown["count"] + overlap
        /\ shown["success"] <= shown["total"] + overlap
=============================================================================
