--------------------------- MODULE WindowMetrics ---------------------------
(***************************************************************************)
(* What a snapshot says: the aggregator's window of events, its sums and   *)
(* its 95th percentile, the moving averages, their normalisation, and the  *)
(* two places where the normalised metrics are used as if they lay in      *)
(* [0, 1]: the mapping rules and the terminal dashboard.                   *)
(*                                                                         *)
(* A real number is a fixed-point one, rounded down to a multiple of       *)
(* 1/One.  The window is a bag, since the order of its events is lost in   *)
(* the sums; channels, losses and timestamps are module TelemetryPath.     *)
(* peak and fresh are history.                                             *)
(***************************************************************************)
EXTENDS Integers, FiniteSetsExt

CONSTANTS One,          \* the fixed-point number 1
          Arrivals,     \* <<payload, number of such events in a row>>
          Rules,        \* mapping rules
          LogCurve,     \* log10(1 + 9 t) for t in [0, 1]
          PowerCurve,   \* of a rule: (q^t - 1) / (q - 1), q = outMax / outMin
          MaxArrivals,  \* bound: arrivals altogether
          MaxEmpty      \* bound: no tick after so many empty windows

\* A payload's number is in (latency, pages, received bytes), and out for sent
\* bytes.
Payloads == {a[1] : a \in Arrivals}

ASSUME MetricsAssumption ==
    /\ One \in Nat \ {0} /\ MaxArrivals \in Nat /\ MaxEmpty \in Nat
    /\ IsFiniteSet(Arrivals)
    /\ \A a \in Arrivals : a[2] \in Nat \ {0}
    /\ \A e \in Payloads : e.kind \in {"cpu", "mem", "net", "exec"}
                           /\ e.in \in Nat /\ e.out \in Nat

VARIABLES window,   \* events since the last tick, with their number
          ema,      \* moving averages
          empty,    \* consecutive empty windows
          shared,   \* the last snapshot
          arrived, peak, fresh

vars == <<window, ema, empty, shared, arrived, peak, fresh>>

\* normalize_min_max's range of each metric.
Limits == [latency |-> <<1000, 20000>>, rate |-> <<0, 80>>,
           pressure |-> <<0, 500>>, tx |-> <<0, 30000>>, rx |-> <<0, 30000>>,
           exec |-> <<0, 3>>]
Metrics == DOMAIN Limits

\* A rule for no metric maps nothing.  The bounds of a rule are any multiples of
\* 1/One (input) and of any unit (output), and every finite f64 is one of a
\* small enough unit.  A NaN among the input bounds is module AudioPath's Poison;
\* infinite bounds, a NaN among the output bounds and the rounding of f64 are
\* left out.  Of the two curves that need a logarithm only this is known: they
\* rise from 0 to 1 (where q = 1 any such curve maps to the one value).
Curves == {f \in [0..One -> 0..One] :
               /\ f[0] = 0 /\ f[One] = One
               /\ \A a, b \in 0..One : a <= b => f[a] <= f[b]}

ASSUME RulesAssumption ==
    /\ Rules \subseteq [source : Metrics, transform : STRING, inMin : Int,
                        inMax : Int, outMin : Int, outMax : Int]
    /\ LogCurve \in Curves /\ PowerCurve \in [Rules -> Curves]

Init ==
    /\ window = [e \in Payloads |-> 0]
    /\ ema = [m \in Metrics |-> 0] /\ empty = 0
    /\ shared = [stale |-> TRUE, metrics |-> [m \in Metrics |-> 0]]
    /\ arrived = 0 /\ peak = [m \in Metrics |-> 0] /\ fresh = FALSE

Clamp(x, low, high) == IF x < low THEN low ELSE IF x > high THEN high ELSE x

---------------------------------------------------------------------------
(* The raw values of a window.                                             *)

Of(kind) == {e \in Payloads : e.kind = kind}
Number(events) == MapThenSumSet(LAMBDA e : window[e], events)
Total(Field(_), events) == MapThenSumSet(LAMBDA e : window[e] * Field(e), events)
Samples == {e \in Of("cpu") : window[e] > 0}

RoundedUp(n) == (95 * n + 99) \div 100
P95Index(n) == (95 * n) \div 100        \* floor(n * 0.95)

\* The element at the clamped index of the sorted latencies.
P95 ==
    LET n == Number(Samples)
        idx == Clamp(P95Index(n), 0, n - 1)
        below(v) == Number({e \in Samples : e.in < v})
        upTo(v) == Number({e \in Samples : e.in <= v})
    IN IF n = 0 THEN 0
       ELSE CHOOSE v \in {e.in : e \in Samples} : below(v) <= idx /\ idx < upTo(v)

Raw == [latency |-> P95, rate |-> Number(Of("cpu")),
        pressure |-> Total(LAMBDA e : e.in, Of("mem")),
        tx |-> Total(LAMBDA e : e.out, Of("net")),
        rx |-> Total(LAMBDA e : e.in, Of("net")),
        exec |-> Number(Of("exec"))]

---------------------------------------------------------------------------
(* From the raw values to a snapshot.                                      *)

ComputeEma(current, previous) == (3 * current + 7 * previous) \div 10

OnlyFromBelow(m, x) == IF x < Limits[m][1] * One THEN Limits[m][1] * One ELSE x
WithinLimits(m, x) == Clamp(x, Limits[m][1] * One, Limits[m][2] * One)
Normalize(m, x) ==
    (WithinLimits(m, x) - Limits[m][1] * One) \div (Limits[m][2] - Limits[m][1])

StaleEarly(windows) == windows >= 4
IsStale(windows) == windows >= 5

WindowKept == window
WindowAfter == [e \in Payloads |-> 0]   \* clear()

Receive(a) ==
    /\ arrived < MaxArrivals /\ arrived' = arrived + 1
    /\ window' = [window EXCEPT ![a[1]] = @ + a[2]] /\ fresh' = TRUE
    /\ UNCHANGED <<ema, empty, shared, peak>>

Tick ==
    LET smooth == [m \in Metrics |-> ComputeEma(Raw[m] * One, ema[m])]
        silent == IF \A e \in Payloads : window[e] = 0 THEN empty + 1 ELSE 0
    IN /\ empty < MaxEmpty
       /\ ema' = smooth /\ empty' = silent
       /\ shared' = [stale |-> IsStale(silent),
                     metrics |-> [m \in Metrics |-> Normalize(m, smooth[m])]]
       /\ window' = WindowAfter /\ fresh' = FALSE
       /\ peak' = [m \in Metrics |-> Max({peak[m], smooth[m]})]
       /\ UNCHANGED arrived

Next == (\E a \in Arrivals : Receive(a)) \/ Tick
Spec == Init /\ [][Next]_vars

---------------------------------------------------------------------------
(* apply_transform and draw_bar.                                            *)

Unclamped(r, x) == x
Heard(r, x) == Clamp(x, r.inMin, r.inMax)
Ratio(r, x) == ((Heard(r, x) - r.inMin) * One) \div (r.inMax - r.inMin)
BothPositive(r) == r.outMin > 0 /\ r.outMax > 0

\* What part of the output range lies below the parameter.
Shaped(r, ratio) ==
    CASE r.transform = "exponential" /\ BothPositive(r) -> PowerCurve[r][ratio]
      [] r.transform = "exponential" /\ ~BothPositive(r) ->
             (ratio * ratio) \div One
      [] r.transform = "logarithmic" -> LogCurve[ratio]
      [] r.transform = "step" -> (((ratio * 5) \div One) * One) \div 5
      [] OTHER -> ratio
Mapped(r, x) ==
    IF r.inMin >= r.inMax THEN r.outMin
    ELSE r.outMin + ((r.outMax - r.outMin) * Shaped(r, Ratio(r, x))) \div One

Width == 30
Filled(x) == (2 * x * Width + One) \div (2 * One)       \* round()

---------------------------------------------------------------------------
(* Properties.                                                             *)

\* Every variable keeps its type, and the normalised metrics lie in [0, 1].
TypeOK ==
    /\ window \in [Payloads -> Nat] /\ arrived \in 0..MaxArrivals
    /\ ema \in [Metrics -> Nat] /\ peak \in [Metrics -> Nat]
    /\ empty \in 0..MaxEmpty /\ fresh \in BOOLEAN
    /\ shared \in [stale : BOOLEAN, metrics : [Metrics -> 0..One]]

\* The latency that a window counts with is its 95th percentile for every
\* number of samples: no less than 95 % of them, and no more than 5 % of them,
\* so that among more than twenty samples one outlier is not heard.
P95Covers ==
    Samples # {} =>
        /\ 100 * Number({e \in Samples : e.in <= P95}) >= 95 * Number(Samples)
        /\ 100 * Number({e \in Samples : e.in >= P95}) >= 5 * Number(Samples)

\* The dashboard never draws a bar wider than its frame, where the unsigned
\* width - filled would underflow and end the client: whatever the events, the
\* snapshots it reads hold metrics of at most 1.
BarsFit == \A m \in Metrics : Filled(shared.metrics[m]) <= Width

\* What a backend is sent lies between the bounds of its rule's output range,
\* for each transform, for rising and falling ranges and for metrics outside
\* the input range.
MappedInRange ==
    \A r \in Rules :
        LET value == Mapped(r, shared.metrics[r.source])
        IN Min({r.outMin, r.outMax}) <= value /\ value <= Max({r.outMin, r.outMax})

\* What a backend hears follows the metric: the higher the metric the higher the
\* parameter of a rising rule and the lower that of a falling one, for each
\* transform and on both sides of the ends of the input range.
RulesKeepOrder ==
    \A r \in Rules, x \in 0..One, y \in 0..One :
        x <= y => IF r.outMin <= r.outMax THEN Mapped(r, x) <= Mapped(r, y)
                                          ELSE Mapped(r, y) <= Mapped(r, x)

\* When a snapshot is marked stale, at most 17 % (0.7 to the fifth) is left of
\* the highest average there was.  (It is not the baseline: after a latency of
\* a second the metric is still 1.)
StaleRemnant ==
    shared.stale => \A m \in Metrics : 100 * ema[m] <= 17 * peak[m]

\* A tick before which nothing arrived raises no metric: no event is counted
\* in two windows.
SilenceFades ==
    [][(Tick /\ ~fresh) => \A m \in Metrics : shared'.metrics[m] <= shared.metrics[m]]_vars
=============================================================================
