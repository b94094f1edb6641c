----------------------------- MODULE Collectors -----------------------------
(***************************************************************************)
(* How the text a node exposes becomes percentages                         *)
(* (internal/collector/nodeexporter.go, nvmonitor.go, parse.go and         *)
(* domain.ClampPercent).  The usage of the CPU needs the counters of the   *)
(* scrape before, which are kept here for the one node and whatever they   *)
(* are; what reboots, reloads and scrapes out of order make of them is     *)
(* module CpuHistory.                                                      *)
(*                                                                         *)
(* A parsed body is a function from the metrics it contains to their       *)
(* values.  A value is an integer, or NaN or an infinity, which the text   *)
(* format allows.  Percentages are in halves of a percent, and a quotient  *)
(* is rounded down to one; a field without a value holds None.             *)
(***************************************************************************)
EXTENDS Integers, FiniteSets, Functions

CONSTANTS
    NaN, Inf, NegInf, None,
    Gpus,           \* labels of GPUs
    Idle, Busy,     \* series of node_cpu_seconds_total, of mode "idle" and of the others
    Bodies,         \* what nodes may expose
    Nodes           \* node configurations: records of name, fmt and collects

VARIABLES
    node,           \* the node's configuration
    body,           \* what its last scrape read of the endpoint
    prev,           \* c.prev[node]: the CPU counters of a scrape before, none if empty
    state           \* the domain.NodeState of its last scrape

vars == <<node, body, prev, state>>

-----------------------------------------------------------------------------
(* float64.  An operation without a result is NaN; a comparison with NaN   *)
(* is false.                                                               *)

Infinite == {Inf, NegInf}
Special  == Infinite \cup {NaN}

Full == 200

\* The special values are no numbers, and None is no value.
ASSUME SpecialAssumption ==
    /\ Inf # NegInf /\ NaN \notin Infinite /\ None \notin Special
    /\ (Special \cup {None}) \cap Int = {}

\* What is parsed is a finite text of such values.
ASSUME BodiesAssumption ==
    \A fmt \in DOMAIN Bodies : \A m \in Bodies[fmt] :
        IsFiniteSet(DOMAIN m) /\ \A k \in DOMAIN m : m[k] \in Int \cup Special

\* A configuration validates only with a format there is a collector for.
ASSUME NodesAssumption ==
    \A n \in Nodes : n.fmt \in DOMAIN Bodies

Less(a, b) ==
    /\ NaN \notin {a, b} /\ a # b
    /\ a = NegInf \/ b = Inf \/ ({a, b} \cap Infinite = {} /\ a < b)

LessEq(a, b) == Less(a, b) \/ (a = b /\ a # NaN)

Negated(a) == IF a = Inf THEN NegInf ELSE IF a = NegInf THEN Inf ELSE IF a = NaN THEN NaN ELSE -a

Plus(a, b) ==
    IF NaN \in {a, b} \/ {a, b} = Infinite THEN NaN
    ELSE IF {a, b} \cap Infinite # {} THEN CHOOSE i \in {a, b} : i \in Infinite
    ELSE a + b

Minus(a, b) == Plus(a, Negated(b))

\* part / whole for a whole that is not negative.
Quotient(part, whole) ==
    IF NaN \in {part, whole} \/ {part, whole} \subseteq Infinite \/ (part = 0 /\ whole = 0) THEN NaN
    ELSE IF part \in Infinite THEN part
    ELSE IF whole = Inf THEN 0
    ELSE IF whole = 0 THEN (IF part < 0 THEN NegInf ELSE Inf)
    ELSE part \div whole

Percent(part, whole) == Quotient(IF part \in Special THEN part ELSE Full * part, whole)

ClampPercent(v) == IF Less(v, 0) THEN 0 ELSE IF Less(Full, v) THEN Full ELSE v

Has(m, k) == k \in DOMAIN m

-----------------------------------------------------------------------------
(* node_exporter.                                                          *)

\* The ARC is cache that is neither in MemAvailable nor in Cached.
Arc(m) == IF Has(m, "ARC") /\ Less(0, m["ARC"]) THEN m["ARC"] ELSE 0

\* memPercents, which gives up without a total.
NoMemTotal(m) == ~ Has(m, "MemTotal") \/ LessEq(m["MemTotal"], 0)

UsedBytes(m) ==
    LET used == Minus(m["MemTotal"], m["MemAvailable"])
        rest == Minus(used, Arc(m))
    IN  IF Arc(m) = 0 THEN used ELSE IF Less(rest, 0) THEN 0 ELSE rest

CachedBytes(m) == Plus(IF Has(m, "Cached") THEN m["Cached"] ELSE 0, Arc(m))

MemUsed(m) ==
    IF NoMemTotal(m) \/ ~ Has(m, "MemAvailable") THEN None
    ELSE ClampPercent(Percent(UsedBytes(m), m["MemTotal"]))

MemCached(m) ==
    IF NoMemTotal(m) \/ (~ Has(m, "Cached") /\ Arc(m) = 0) THEN None
    ELSE ClampPercent(Percent(CachedBytes(m), m["MemTotal"]))

\* Mutant of SwapUsed: a node without swap counts as one that uses none of it.
SwapUsedZero(m) ==
    IF Has(m, "SwapTotal") /\ Has(m, "SwapFree") /\ Less(0, m["SwapTotal"])
    THEN ClampPercent(Percent(Minus(m["SwapTotal"], m["SwapFree"]), m["SwapTotal"]))
    ELSE 0

\* swapUsed.
SwapUsed(m) ==
    IF Has(m, "SwapTotal") /\ Has(m, "SwapFree") /\ Less(0, m["SwapTotal"])
    THEN ClampPercent(Percent(Minus(m["SwapTotal"], m["SwapFree"]), m["SwapTotal"]))
    ELSE None

Wanted(kind, v) == IF kind \in node.collects THEN v ELSE None

Nothing(n) ==
    [name |-> n.name, collects |-> n.collects, reachable |-> FALSE, cpu |-> None,
     gpu |-> None, memUsed |-> None, memCached |-> None, swapUsed |-> None]

CpuSeries(m) == DOMAIN m \cap (Idle \cup Busy)

\* cpuUsage replaces the counters unless a body has none.
Sampled(m, old) ==
    IF "cpu" \in node.collects /\ CpuSeries(m) # {} THEN Restrict(m, CpuSeries(m)) ELSE old

\* The series that are in both scrapes and did not go back.
Counted(m, old) ==
    {k \in CpuSeries(m) \cap DOMAIN old : ~ Less(Minus(m[k], old[k]), 0)}

Elapsed(m, old, series) ==
    FoldFunctionOnSet(Plus, 0, [k \in series |-> Minus(m[k], old[k])], series)

\* The end of cpuUsage: 100 * (1 - idle / total).
Share(idle, total) == ClampPercent(Minus(Full, Percent(idle, total)))

\* Mutant of CpuUsage: the share of no time at all is computed.
CpuUsageUnguarded(m, old) ==
    IF Counted(m, old) = {} THEN None
    ELSE Share(Elapsed(m, old, Counted(m, old) \cap Idle), Elapsed(m, old, Counted(m, old)))

\* cpuUsage.  Nothing is counted when there is no scrape before.
CpuUsage(m, old) ==
    LET total == Elapsed(m, old, Counted(m, old))
    IN  IF LessEq(total, 0) THEN None
        ELSE Share(Elapsed(m, old, Counted(m, old) \cap Idle), total)

NodeExporter(m, old) ==
    [Nothing(node) EXCEPT !.reachable = TRUE,
                          !.cpu       = Wanted("cpu", CpuUsage(m, old)),
                          !.memUsed   = Wanted("mem", MemUsed(m)),
                          !.memCached = Wanted("mem", MemCached(m)),
                          !.swapUsed  = Wanted("swap", SwapUsed(m))]

-----------------------------------------------------------------------------
(* nv-monitor.                                                             *)

\* The unlabeled gauge, or else the series labeled "overall".
NvCpu(m) ==
    IF Has(m, "cpu") THEN ClampPercent(m["cpu"])
    ELSE IF Has(m, "cpu overall") THEN ClampPercent(m["cpu overall"]) ELSE None

GpuSeries(m) == DOMAIN m \cap Gpus

\* The mean over the GPUs that are exposed.
NvGpu(m) ==
    IF GpuSeries(m) = {} THEN None
    ELSE LET sum == FoldFunctionOnSet(Plus, 0, m, GpuSeries(m))
         IN  ClampPercent(Quotient(sum, Cardinality(GpuSeries(m))))

NvPart(m, part, whole) ==
    IF Has(m, whole) /\ Has(m, part) /\ Less(0, m[whole])
    THEN ClampPercent(Percent(m[part], m[whole])) ELSE None

NvMonitor(m) ==
    [Nothing(node) EXCEPT !.reachable = TRUE,
                          !.cpu       = Wanted("cpu", NvCpu(m)),
                          !.gpu       = Wanted("gpu", NvGpu(m)),
                          !.memUsed   = Wanted("mem", NvPart(m, "used", "total")),
                          !.memCached = Wanted("mem", NvPart(m, "bufcache", "total")),
                          !.swapUsed  = Wanted("swap", NvPart(m, "swap used", "swap total"))]

-----------------------------------------------------------------------------
Init ==
    /\ node \in Nodes /\ body = << >> /\ prev = << >>
    /\ state = Nothing(node)

\* collectOne with the collector for node.fmt.
Collect ==
    /\ body' \in Bodies[node.fmt]
    /\ IF node.fmt = "node-exporter"
       THEN state' = NodeExporter(body', prev) /\ prev' = Sampled(body', prev)
       ELSE state' = NvMonitor(body') /\ prev' = prev
    /\ UNCHANGED node

\* The request or the parser fails.
CollectFails ==
    /\ body' = << >> /\ state' = Nothing(node)
    /\ UNCHANGED <<node, prev>>

Next == Collect \/ CollectFails

Spec == Init /\ [][Next]_vars

-----------------------------------------------------------------------------
Fields == {"cpu", "gpu", "memUsed", "memCached", "swapUsed"}

Exposed(m) == Range(m) \cap Special # {}

\* A percentage that a scrape publishes is one, whatever the node exposes; only NaN is
\* published besides, and only of a node that exposes NaN or an infinity, or whose CPU
\* counters did in the scrape before.
PercentUnlessNaN ==
    [][\A f \in Fields :
          \/ state'[f] \in (0 .. Full) \cup {None}
          \/ state'[f] = NaN /\ (Exposed(body') \/ (f = "cpu" /\ Exposed(prev)))]_vars

Amount(m, k) == IF Has(m, k) THEN m[k] ELSE 0

PercentOf(part, whole) ==
    LET p == (Full * part) \div whole IN IF p < 0 THEN 0 ELSE IF p > Full THEN Full ELSE p

\* The formulas of the README, of a body m without special values: used and cached
\* memory with the ARC moved from one to the other, used swap; and no value where an
\* operand is missing or there is nothing to divide by.  The ARC alone is cached memory.
Documented(m, s) ==
    LET total == Amount(m, "MemTotal")
        arc   == IF Amount(m, "ARC") > 0 THEN Amount(m, "ARC") ELSE 0
        mem   == "mem" \in node.collects /\ total > 0
        swap  == "swap" \in node.collects /\ Amount(m, "SwapTotal") > 0
    IN  /\ s.memUsed =
              IF mem /\ Has(m, "MemAvailable")
              THEN PercentOf(total - m["MemAvailable"] - arc, total) ELSE None
        /\ s.memCached =
              IF mem /\ (Has(m, "Cached") \/ arc > 0)
              THEN PercentOf(Amount(m, "Cached") + arc, total) ELSE None
        /\ s.swapUsed =
              IF swap /\ Has(m, "SwapFree")
              THEN PercentOf(m["SwapTotal"] - m["SwapFree"], m["SwapTotal"]) ELSE None

\* Memory and swap that a scrape of node_exporter publishes are what the README's
\* formulas say; what a body lacks is published as missing, not as zero.
MatchesReadme ==
    node.fmt = "node-exporter" /\ state.reachable /\ ~ Exposed(body) => Documented(body, state)

=============================================================================
