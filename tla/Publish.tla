------------------------------ MODULE Publish -------------------------------
(***************************************************************************)
(* The views of a snapshot: JSON (internal/export/serialize.go), the page  *)
(* handleIndex renders (internal/server/server.go, web/index.html), the    *)
(* rows dashboard.js renders from the JSON, the samples of the Prometheus  *)
(* exporter (internal/export/prometheus/export.go) and the badges          *)
(* (internal/badge).                                                       *)
(*                                                                         *)
(* The snapshot holds a node that stays as it is and the node of module    *)
(* Collectors.  A text is a whole number of percent, None for "n/a", or    *)
(* NaN.                                                                    *)
(***************************************************************************)
EXTENDS Collectors, FiniteSetsExt

CONSTANTS
    Peer,           \* the other node's state
    Lists           \* node lists of badges and Prometheus exports

\* The other node was scraped like this one.
ASSUME PeerAssumption ==
    /\ DOMAIN Peer = {"name", "collects", "reachable"} \cup Fields
    /\ \A f \in Fields : Peer[f] \in (0 .. Full) \cup {None, NaN}

snap == <<Peer, state>>

-----------------------------------------------------------------------------
(* serialize.go.                                                           *)

\* json: fields with a value (omitempty).  Marshal refuses what is not a JSON number.
Encoded(s) == Restrict(s, {f \in DOMAIN s : f \in Fields => s[f] # None})

Encodable(s) == \A f \in Fields : s[f] \notin Special

\* The answer to /api/v1/nodes, or none: 500 if any node cannot be encoded.
JSON ==
    IF \A i \in DOMAIN snap : Encodable(snap[i])
    THEN [i \in DOMAIN snap |-> Encoded(snap[i])] ELSE None

-----------------------------------------------------------------------------
(* The page.                                                               *)

Kinds == {"cpu", "gpu", "mem", "swap"}

FieldOf == [k \in Kinds |-> CASE k = "mem" -> "memUsed" [] k = "swap" -> "swapUsed" [] OTHER -> k]

\* %.0f of v halves: to the even one of two neighbours.
Printf(v) == IF v = NaN THEN NaN ELSE IF v % 4 = 3 THEN v \div 2 + 1 ELSE v \div 2

Deref(p) == IF p = None THEN 0 ELSE p

\* Mutant of HtmlText: not guarded by {{ if }}.
HtmlTextDeref(p) == Printf(Deref(p))

HtmlText(p) == IF p = None THEN None ELSE Printf(Deref(p))

\* loadLevel of server.go.
HtmlLevel(p) ==
    IF p = None THEN "na"
    ELSE IF LessEq(p, 2 * 33) THEN "low"
    ELSE IF LessEq(p, 2 * 66) THEN "mid"
    ELSE IF Less(p, 2 * 90) THEN "high" ELSE "crit"

\* A row: no metrics of a node that is not reachable.
HtmlRow(s) ==
    [k \in IF s.reachable THEN s.collects \cap Kinds ELSE {} |->
        <<HtmlLevel(s[FieldOf[k]]), HtmlText(s[FieldOf[k]])>>]

-----------------------------------------------------------------------------
(* dashboard.js, given a node j of the JSON.                               *)

Value(j, k) == IF Has(j, FieldOf[k]) THEN j[FieldOf[k]] ELSE None

\* Math.round: up.
MathRound(v) == (v + 1) \div 2

FmtPct(v) == IF v = None THEN None ELSE MathRound(v)

\* Mutant of ScriptLevel: a boundary belongs to the level above.
ScriptLevelBelow(v) ==
    IF v = None \/ v = NaN THEN "na"
    ELSE IF Less(v, 2 * 33) THEN "low"
    ELSE IF Less(v, 2 * 66) THEN "mid"
    ELSE IF Less(v, 2 * 90) THEN "high" ELSE "crit"

\* loadLevel of dashboard.js.
ScriptLevel(v) ==
    IF v = None \/ v = NaN THEN "na"
    ELSE IF LessEq(v, 2 * 33) THEN "low"
    ELSE IF LessEq(v, 2 * 66) THEN "mid"
    ELSE IF Less(v, 2 * 90) THEN "high" ELSE "crit"

ScriptRow(j) ==
    [k \in IF j.reachable THEN j.collects \cap Kinds ELSE {} |->
        <<ScriptLevel(Value(j, k)), FmtPct(Value(j, k))>>]

-----------------------------------------------------------------------------
(* Badges and the Prometheus exporter take the nodes of a list, in its     *)
(* order; a name that the snapshot lacks is skipped.                       *)

Selected(list) ==
    LET byName(n) == CHOOSE i \in DOMAIN snap : snap[i].name = n
    IN  [k \in {k \in DOMAIN list : \E i \in DOMAIN snap : snap[i].name = list[k]} |->
            snap[byName(list[k])]]

\* The first node that is there.
First(list) == Selected(list)[Min(DOMAIN Selected(list))]

\* writeGaugeFamily: the nodes with a sample; a family without samples is left out.
Family(f, list) ==
    Restrict(Selected(list), {k \in DOMAIN Selected(list) : Selected(list)[k][f] # None})

\* drawMeter.
MeterText(p) == IF p = None THEN None ELSE Printf(p)

\* nodeTileImage of rect64: "UNREACHABLE" and the error in place of meters.
Tile(s) ==
    [k \in IF s.reachable THEN s.collects \cap Kinds ELSE {} |-> MeterText(s[FieldOf[k]])]

\* renderCircle240 shows the first node of its badge, CPU and memory.
Gauge(s, f) == IF s.reachable /\ s[f] # None THEN Printf(ClampPercent(s[f])) ELSE None

Circle(list) ==
    IF DOMAIN Selected(list) = {} THEN << >>
    ELSE [cpu |-> Gauge(First(list), "cpu"), mem |-> Gauge(First(list), "memUsed")]

-----------------------------------------------------------------------------
\* What a scrape left out is left out of every view: it is no key of the JSON and no
\* sample, and rows, tiles and gauges that would show it say n/a.
NothingInvented ==
    \A i \in DOMAIN snap, f \in Fields : snap[i][f] = None =>
        /\ JSON # None => ~ Has(JSON[i], f)
        /\ \A list \in Lists : snap[i] \notin Range(Family(f, list))
        /\ \A k \in DOMAIN HtmlRow(snap[i]) : FieldOf[k] = f =>
              HtmlRow(snap[i])[k] = <<"na", None>> /\ Tile(snap[i])[k] = None
        /\ \A list \in Lists : Circle(list) # << >> /\ First(list) = snap[i] =>
              (f = "cpu" => Circle(list).cpu = None) /\ (f = "memUsed" => Circle(list).mem = None)

\* The page that is loaded and the page that is refreshed show the same, whenever the
\* refresh has an answer; only the half above an even number of percent is rounded down
\* by one and up by the other.
PagesAgree ==
    JSON # None =>
        \A i \in DOMAIN snap :
            LET html   == HtmlRow(snap[i])
                script == ScriptRow(JSON[i])
            IN  /\ DOMAIN html = DOMAIN script
                /\ \A k \in DOMAIN html :
                      /\ html[k][1] = script[k][1]
                      /\ IF snap[i][FieldOf[k]] # None /\ snap[i][FieldOf[k]] % 4 = 1
                         THEN script[k][2] = html[k][2] + 1
                         ELSE script[k][2] = html[k][2]

=============================================================================
