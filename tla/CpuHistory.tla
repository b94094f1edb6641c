----------------------------- MODULE CpuHistory -----------------------------
(***************************************************************************)
(* CPU usage of node_exporter (internal/collector/nodeexporter.go): the    *)
(* collector keeps the counters of a node's last scrape, by the node's     *)
(* name, and the next scrape reports the share of the time between them    *)
(* that was not idle.                                                      *)
(*                                                                         *)
(* A host counts the time it was idle and the time it was busy, from zero  *)
(* at each boot.  A reload may move a node to another host, and a scrape   *)
(* of a worker that was replaced may still end, out of order.              *)
(***************************************************************************)
EXTENDS Integers

CONSTANTS
    Names,          \* names of nodes
    Hosts,          \* what their endpoints lead to
    NoSample, None,
    MaxTime,        \* bound: time a host counts in one boot
    MaxBoots,       \* bound: boots of a host
    MaxReloads      \* bound: reloads

VARIABLES
    counters,       \* what each host exposes now
    target,         \* the host of each node's prom_endpoint
    gen,            \* generation of the workers
    scrapes,        \* scrapes begun and not collected
    prev,           \* c.prev: the counters of the last scrape, by name
    last            \* the CPU usage each node reported last, and the scrapes it is from

vars == <<counters, target, gen, scrapes, prev, last>>

Samples == [host : Hosts, boot : Nat, idle : Nat, busy : Nat]
Booted(h, b) == [host |-> h, boot |-> b, idle |-> 0, busy |-> 0]

NoReport == [from |-> NoSample, to |-> NoSample, cpu |-> None]

ASSUME NoSampleAssumption == NoSample \notin Samples
ASSUME NoneAssumption == None \notin 0 .. 100
ASSUME BoundsAssumption == MaxTime \in Nat /\ MaxBoots \in Nat /\ MaxReloads \in Nat

-----------------------------------------------------------------------------
\* Mutant of Delta: a counter that went back is taken to have started from zero.
DeltaSinceReset(cur, old) == IF cur < old THEN cur ELSE cur - old

\* How far a counter got; one that went back is skipped.
Delta(cur, old) == IF cur < old THEN 0 ELSE cur - old

\* The end of cpuUsage, rounded down: 100 * (1 - idleDelta/totalDelta).  ClampPercent
\* is applied to it and has nothing to do: TypeOK says so.
Share(idle, total) == IF total <= 0 THEN None ELSE (100 * (total - idle)) \div total

Usage(p, s) ==
    IF p = NoSample THEN None
    ELSE Share(Delta(s.idle, p.idle), Delta(s.idle, p.idle) + Delta(s.busy, p.busy))

-----------------------------------------------------------------------------
Init ==
    /\ counters = [h \in Hosts |-> Booted(h, 1)]
    /\ target \in [Names -> Hosts] /\ gen = 1
    /\ scrapes = {}
    /\ prev = [n \in Names |-> NoSample]
    /\ last = [n \in Names |-> NoReport]

\* A host is idle or busy for a while.
Run(h) ==
    /\ counters[h].idle + counters[h].busy < MaxTime
    /\ counters' \in {[counters EXCEPT ![h].idle = @ + 1], [counters EXCEPT ![h].busy = @ + 1]}
    /\ UNCHANGED <<target, gen, scrapes, prev, last>>

Reboot(h) ==
    /\ counters[h].boot < MaxBoots
    /\ counters' = [counters EXCEPT ![h] = Booted(h, @.boot + 1)]
    /\ UNCHANGED <<target, gen, scrapes, prev, last>>

\* The nodes are configured anew; the collector's history stays.
Reload ==
    /\ gen <= MaxReloads /\ gen' = gen + 1
    /\ target' \in [Names -> Hosts]
    /\ UNCHANGED <<counters, scrapes, prev, last>>

\* The request of a worker, which waits for its end.  A worker that was replaced
\* makes none: its context is cancelled.
Begin(n) ==
    /\ \A s \in scrapes : s.name # n \/ s.gen # gen
    /\ scrapes' = scrapes \cup
                     {[name |-> n, gen |-> gen, host |-> target[n], sample |-> NoSample]}
    /\ UNCHANGED <<counters, target, gen, prev, last>>

\* The host answers with its counters.
Answer(s) ==
    /\ s.sample = NoSample
    /\ scrapes' = (scrapes \ {s}) \cup {[s EXCEPT !.sample = counters[s.host]]}
    /\ UNCHANGED <<counters, target, gen, prev, last>>

\* No answer, or one that cannot be parsed: the node reports no usage.
Fail(s) ==
    /\ scrapes' = scrapes \ {s}
    /\ last' = [last EXCEPT ![s.name] = NoReport]
    /\ UNCHANGED <<counters, target, gen, prev>>

\* cpuUsage, under c.mu.
Collect(s) ==
    /\ s.sample # NoSample
    /\ scrapes' = scrapes \ {s}
    /\ last' = [last EXCEPT ![s.name] =
                   [from |-> prev[s.name], to |-> s.sample,
                    cpu |-> Usage(prev[s.name], s.sample)]]
    /\ prev' = [prev EXCEPT ![s.name] = s.sample]
    /\ UNCHANGED <<counters, target, gen>>

Next ==
    \/ \E h \in Hosts : Run(h) \/ Reboot(h)
    \/ Reload
    \/ \E n \in Names : Begin(n)
    \/ \E s \in scrapes : Answer(s) \/ Fail(s) \/ Collect(s)

Spec == Init /\ [][Next]_vars

-----------------------------------------------------------------------------
Scrapes == [name : Names, gen : Nat, host : Hosts, sample : Samples \cup {NoSample}]
Reports == [from : Samples \cup {NoSample}, to : Samples \cup {NoSample},
            cpu : (0 .. 100) \cup {None}]

TypeOK ==
    /\ counters \in [Hosts -> Samples] /\ \A h \in Hosts : counters[h].host = h
    /\ target \in [Names -> Hosts] /\ gen \in Nat
    /\ scrapes \subseteq Scrapes
    /\ prev \in [Names -> Samples \cup {NoSample}]
    /\ last \in [Names -> Reports]

SameBoot(p, s) == p # NoSample /\ s # NoSample /\ p.host = s.host /\ p.boot = s.boot

\* u is the share of busy time from p to s, rounded down.
IsBusyShare(u, p, s) ==
    LET busy    == s.busy - p.busy
        elapsed == busy + (s.idle - p.idle)
    IN  u * elapsed <= 100 * busy /\ 100 * busy < (u + 1) * elapsed

\* A usage computed from two scrapes of one boot of a host is the share of time the
\* host was busy between them; scrapes that are collected out of order, or without
\* time between them, give none.
UsageIsExact ==
    \A n \in Names :
        LET p == last[n].from
            s == last[n].to
        IN  SameBoot(p, s) =>
              IF s.idle + s.busy > p.idle + p.busy THEN IsBusyShare(last[n].cpu, p, s)
                                                    ELSE last[n].cpu = None

=============================================================================
