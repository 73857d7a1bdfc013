-------------------------- MODULE MCWindowMetrics --------------------------
(* An instance of WindowMetrics: payloads on both sides of every limit,    *)
(* latencies in such numbers that the 95th percentile is the largest or    *)
(* not, and rules of every transform with rising, falling, narrow and      *)
(* empty ranges.  The two curves are tables of hundredths, rounded down.   *)
EXTENDS WindowMetrics

Payload(kind, in, out) == [kind |-> kind, in |-> in, out |-> out]
SomeArrivals ==
    {<<Payload("cpu", 500, 0), 20>>, <<Payload("cpu", 90000, 0), 1>>,
     <<Payload("cpu", 9000, 0), 1>>, <<Payload("mem", 7000, 0), 1>>,
     <<Payload("net", 200, 90000), 1>>, <<Payload("exec", 0, 0), 4>>}

Rule(source, transform, inMin, inMax, outMin, outMax) ==
    [source |-> source, transform |-> transform, inMin |-> inMin,
     inMax |-> inMax, outMin |-> outMin, outMax |-> outMax]
SomeRules ==
    {Rule("latency", "linear", 0, 100, 100, 200),
     Rule("rate", "step", 20, 60, 7, -7),
     Rule("pressure", "exponential", 30, 90, -50, 3),
     Rule("tx", "linear", 0, 33, 1, 0),
     Rule("tx", "exponential", 0, 100, 2000, 20),
     Rule("latency", "logarithmic", 0, 100, -12, 12),
     Rule("exec", "step", 0, 100, 0, 127),
     Rule("rx", "linear", 50, 50, 4, 9)}

\* log10(1 + 9 t), and (q^t - 1) / (q - 1) for q = 20 / 2000.
LogTable ==
    <<0, 3, 7, 10, 13, 16, 18, 21, 23, 25, 27, 29, 31, 33, 35, 37, 38, 40,
      41, 43, 44, 46, 47, 48, 49, 51, 52, 53, 54, 55, 56, 57, 58, 59, 60, 61,
      62, 63, 64, 65, 66, 67, 67, 68, 69, 70, 71, 71, 72, 73, 74, 74, 75, 76,
      76, 77, 78, 78, 79, 80, 80, 81, 81, 82, 82, 83, 84, 84, 85, 85, 86, 86,
      87, 87, 88, 88, 89, 89, 90, 90, 91, 91, 92, 92, 93, 93, 94, 94, 95, 95,
      95, 96, 96, 97, 97, 98, 98, 98, 99, 99, 100>>
PowerTable ==
    <<0, 4, 8, 13, 16, 20, 24, 27, 31, 34, 37, 40, 42, 45, 47, 50, 52, 54,
      56, 58, 60, 62, 64, 65, 67, 69, 70, 71, 73, 74, 75, 76, 77, 78, 79, 80,
      81, 82, 83, 84, 85, 85, 86, 87, 87, 88, 88, 89, 89, 90, 90, 91, 91, 92,
      92, 92, 93, 93, 94, 94, 94, 94, 95, 95, 95, 95, 96, 96, 96, 96, 96, 97,
      97, 97, 97, 97, 97, 98, 98, 98, 98, 98, 98, 98, 98, 98, 99, 99, 99, 99,
      99, 99, 99, 99, 99, 99, 99, 99, 99, 99, 100>>
HundredthsOfLog == [t \in 0..100 |-> LogTable[t + 1]]
HundredthsOfPower == [r \in SomeRules |-> [t \in 0..100 |-> PowerTable[t + 1]]]
=============================================================================
