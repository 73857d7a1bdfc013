-------------------------- MODULE MCMetricsScrape --------------------------
(* Small instances of MetricsScrape: two tasks that observe.               *)
EXTENDS MetricsScrape

CONSTANTS o1, o2
TwoObservers == {o1, o2}
=============================================================================
