---------------------------- MODULE MCCollectors ----------------------------
(* Publish with small values; a body has any of the metrics that belong    *)
(* together.  Amounts exposed in one body need not fit together: 8 of 1 is *)
(* used, or more cached than there is, and a gauge may be negative.  Every *)
(* quotient of them is a whole number of halves of a percent.  CPU         *)
(* counters stand, grow, go back, come and go, and are NaN or infinite.    *)
EXTENDS Publish

Exposing(metrics, values) == UNION {[D -> values] : D \in SUBSET metrics}

Amounts == {0, 1, 8, Inf}
Odd     == {-1, 0, 8}
Loads   == {0, 66, 180, 250} \cup Special
Times   == {0, 1, NaN, Inf}

Memory == {"MemTotal", "MemAvailable", "Cached", "ARC"}
Swap   == {"SwapTotal", "SwapFree"}

NodeBodies ==
    Exposing(Memory, Amounts \ {0}) \cup Exposing(Memory, Odd)
        \cup Exposing(Swap, Amounts \cup Odd \cup Special)
        \cup Exposing(Idle \cup Busy, Times)

NvBodies ==
    Exposing(Gpus, Loads) \cup Exposing({"cpu", "cpu overall"}, Loads)
        \cup Exposing({"used", "total", "bufcache"}, Amounts)
        \cup Exposing({"swap used", "swap total"}, Amounts)

AllBodies == [fmt \in {"node-exporter", "nv-monitor"} |->
                  IF fmt = "node-exporter" THEN NodeBodies ELSE NvBodies]

\* Configurations that validate: node_exporter has no GPUs.
AllNodes ==
    [name : {"n"}, fmt : {"nv-monitor"},
     collects : {{"cpu", "mem"}, {"cpu", "gpu"}, {"swap", "mem"}}]
        \cup [name : {"n"}, fmt : {"node-exporter"}, collects : {{"cpu", "mem"}, {"swap", "mem"}}]

\* Bound: a body is followed by another only if it has no metrics but CPU counters; of
\* others nothing is kept for the next scrape.
CountersLead == DOMAIN body \subseteq Idle \cup Busy

\* A node of all kinds, of which one is missing.
APeer ==
    [name |-> "peer", collects |-> {"cpu", "gpu", "mem", "swap"}, reachable |-> TRUE, cpu |-> 25,
     gpu |-> None, memUsed |-> 131, memCached |-> 40, swapUsed |-> 0]

SomeLists == {<<"peer", "n">>, <<"gone", "n", "peer">>, <<"gone">>}

=============================================================================
