-------------------------- MODULE CpuHistoryProofs --------------------------
(***************************************************************************)
(* Theorems about the CPU usage of node_exporter, for any number of nodes, *)
(* hosts, boots and reloads.                                               *)
(***************************************************************************)
EXTENDS CpuHistory, TLAPS

-----------------------------------------------------------------------------
(* The arithmetic of cpuUsage.                                             *)

LEMMA Quotient ==
    ASSUME NEW a \in Nat, NEW b \in Nat, b > 0
    PROVE  /\ a \div b \in Nat
           /\ (a \div b) * b <= a
           /\ a < (a \div b) * b + b
  BY SMTT(30)

LEMMA ShareIsShare ==
    ASSUME NEW idle \in Nat, NEW busy \in Nat
    PROVE  /\ Share(idle, idle + busy) \in (0 .. 100) \cup {None}
           /\ idle + busy = 0 => Share(idle, idle + busy) = None
           /\ idle + busy > 0 =>
                /\ Share(idle, idle + busy) * (idle + busy) <= 100 * busy
                /\ 100 * busy < (Share(idle, idle + busy) + 1) * (idle + busy)
<1>1. CASE idle + busy = 0
  BY <1>1 DEF Share
<1>2. CASE idle + busy > 0
  <2> DEFINE total == idle + busy
             u     == (100 * busy) \div total
  <2>1. total \in Nat /\ total > 0 /\ 100 * busy \in Nat /\ busy <= total
    BY <1>2
  <2>2. Share(idle, idle + busy) = u
    <3>1. total - idle = busy /\ ~ (total <= 0)
      BY <1>2
    <3> QED
      BY <3>1 DEF Share
  <2> HIDE DEF total
  <2>3. u \in Nat /\ u * total <= 100 * busy /\ 100 * busy < u * total + total
    BY <2>1, Quotient
  <2> HIDE DEF u
  <2>4. u <= 100
    <3>1. SUFFICES ASSUME u >= 101 PROVE FALSE
      BY <2>3
    <3>2. u * total >= 101 * total
      BY <3>1, <2>1, <2>3, SMTT(30)
    <3> QED
      BY <3>2, <2>1, <2>3
  <2>5. (u + 1) * total = u * total + total
    BY <2>1, <2>3, SMTT(30)
  <2> QED
    BY <2>1, <2>2, <2>3, <2>4, <2>5 DEF total
<1> QED
  BY <1>1, <1>2

\* Usage from one sample to another.
LEMMA UsageType ==
    ASSUME NEW p \in Samples \cup {NoSample}, NEW s \in Samples
    PROVE  Usage(p, s) \in (0 .. 100) \cup {None}
<1>1. CASE p = NoSample
  BY <1>1 DEF Usage
<1>2. CASE p # NoSample
  <2>1. Delta(s.idle, p.idle) \in Nat /\ Delta(s.busy, p.busy) \in Nat
    BY <1>2 DEF Delta, Samples
  <2> QED
    BY <1>2, <2>1, ShareIsShare DEF Usage
<1> QED
  BY <1>1, <1>2

-----------------------------------------------------------------------------
(* Type correctness.                                                       *)

LEMMA TypeInit == Init => TypeOK
<1> SUFFICES ASSUME Init PROVE TypeOK
  OBVIOUS
<1> USE DEF Init
<1>1. counters \in [Hosts -> Samples] /\ \A h \in Hosts : counters[h].host = h
  BY DEF Booted, Samples
<1>2. last \in [Names -> Reports]
  BY DEF NoReport, Reports
<1> QED
  BY <1>1, <1>2 DEF TypeOK, Scrapes

LEMMA RunType ==
    ASSUME TypeOK, NEW h \in Hosts, Run(h) \/ Reboot(h)
    PROVE  counters' \in [Hosts -> Samples] /\ \A g \in Hosts : counters'[g].host = g
<1>1. CASE Run(h)
  <2>1. counters[h] \in Samples /\ counters[h].host = h
    BY DEF TypeOK
  <2>2. [counters[h] EXCEPT !.idle = @ + 1] \in Samples /\ [counters[h] EXCEPT !.busy = @ + 1] \in Samples
    BY <2>1 DEF Samples
  <2> QED
    BY <1>1, <2>1, <2>2 DEF Run, TypeOK, Samples
<1>2. CASE Reboot(h)
  <2>1. counters[h] \in Samples /\ Booted(h, counters[h].boot + 1) \in Samples
    BY DEF TypeOK, Booted, Samples
  <2> QED
    BY <1>2, <2>1 DEF Reboot, TypeOK, Booted
<1> QED
  BY <1>1, <1>2

LEMMA CollectType ==
    ASSUME TypeOK, NEW s \in scrapes, Collect(s)
    PROVE  last' \in [Names -> Reports] /\ prev' \in [Names -> Samples \cup {NoSample}]
<1>1. s.name \in Names /\ s.sample \in Samples /\ prev[s.name] \in Samples \cup {NoSample}
  BY DEF TypeOK, Scrapes, Collect
<1>2. Usage(prev[s.name], s.sample) \in (0 .. 100) \cup {None}
  BY <1>1, UsageType
<1>3. [from |-> prev[s.name], to |-> s.sample, cpu |-> Usage(prev[s.name], s.sample)] \in Reports
  BY <1>1, <1>2 DEF Reports
<1> QED
  BY <1>1, <1>3 DEF Collect, TypeOK

LEMMA TypeNext == TypeOK /\ [Next]_vars => TypeOK'
<1> SUFFICES ASSUME TypeOK, [Next]_vars PROVE TypeOK'
  OBVIOUS
<1>1. ASSUME NEW h \in Hosts, Run(h) \/ Reboot(h) PROVE TypeOK'
  BY <1>1, RunType DEF TypeOK, Run, Reboot
<1>2. CASE Reload
  BY <1>2 DEF TypeOK, Reload
<1>3. ASSUME NEW n \in Names, Begin(n) PROVE TypeOK'
  BY <1>3 DEF TypeOK, Begin, Scrapes
<1>4. ASSUME NEW s \in scrapes, Answer(s) PROVE TypeOK'
  BY <1>4 DEF TypeOK, Answer, Scrapes
<1>5. ASSUME NEW s \in scrapes, Fail(s) PROVE TypeOK'
  <2>1. NoReport \in Reports
    BY DEF NoReport, Reports
  <2> QED
    BY <1>5, <2>1 DEF TypeOK, Fail
<1>6. ASSUME NEW s \in scrapes, Collect(s) PROVE TypeOK'
  <2>1. scrapes' \subseteq Scrapes
    BY <1>6 DEF TypeOK, Collect
  <2> QED
    BY <1>6, <2>1, CollectType DEF TypeOK, Collect
<1>7. CASE UNCHANGED vars
  BY <1>7 DEF TypeOK, vars
<1> QED
  BY <1>1, <1>2, <1>3, <1>4, <1>5, <1>6, <1>7 DEF Next

\* The collector's state has its type: the usage of a node is a percentage or absent,
\* whatever counters it is computed from, without ClampPercent.
THEOREM TypeCorrect == Spec => []TypeOK
  BY TypeInit, TypeNext, PTL DEF Spec

-----------------------------------------------------------------------------
(* UsageIsExact.  It rests on what holds of the samples that are kept or   *)
(* on their way: counters of one boot only grow, so each is behind its     *)
(* host, and of two from one boot one is behind the other.                 *)

Behind(p, s) == p.idle <= s.idle /\ p.busy <= s.busy

\* p is of an earlier boot than the host's present one, or behind its counters.
Past(p) ==
    LET now == counters[p.host]
    IN  p.boot < now.boot \/ (p.boot = now.boot /\ Behind(p, now))

Taken == {s \in Samples : (\E r \in scrapes : r.sample = s) \/ (\E n \in Names : prev[n] = s)}

Ordered ==
    /\ \A p \in Taken : Past(p)
    /\ \A p, s \in Taken : SameBoot(p, s) => Behind(p, s) \/ Behind(s, p)

IInv == TypeOK /\ Ordered /\ UsageIsExact

\* A usage computed from two samples of which one is behind the other is exact.
LEMMA OrderedIsExact ==
    ASSUME NEW p \in Samples, NEW s \in Samples, Behind(p, s) \/ Behind(s, p)
    PROVE  IF s.idle + s.busy > p.idle + p.busy THEN IsBusyShare(Usage(p, s), p, s)
                                                 ELSE Usage(p, s) = None
<1> DEFINE idle == Delta(s.idle, p.idle)
           busy == Delta(s.busy, p.busy)
<1>1. p.idle \in Nat /\ p.busy \in Nat /\ s.idle \in Nat /\ s.busy \in Nat
  BY DEF Samples
<1>2. idle \in Nat /\ busy \in Nat
  BY <1>1 DEF Delta
<1>3. Usage(p, s) = Share(idle, idle + busy)
  BY NoSampleAssumption DEF Usage
<1>4. CASE s.idle + s.busy > p.idle + p.busy
  <2>1. idle = s.idle - p.idle /\ busy = s.busy - p.busy /\ idle + busy > 0
    BY <1>1, <1>4 DEF Behind, Delta
  <2>2. busy + (s.idle - p.idle) = idle + busy
    BY <1>2, <2>1
  <2> HIDE DEF idle, busy
  <2>3. /\ Share(idle, idle + busy) * (idle + busy) <= 100 * busy
        /\ 100 * busy < (Share(idle, idle + busy) + 1) * (idle + busy)
    BY <1>2, <2>1, ShareIsShare
  <2>4. IsBusyShare(Usage(p, s), p, s)
    BY <1>3, <2>1, <2>2, <2>3 DEF IsBusyShare
  <2> QED
    BY <1>4, <2>4
<1>5. CASE ~ (s.idle + s.busy > p.idle + p.busy)
  <2>1. idle = 0 /\ busy = 0
    BY <1>1, <1>5 DEF Behind, Delta
  <2>2. Share(idle, idle + busy) = None
    BY <2>1 DEF Share
  <2> QED
    BY <1>3, <1>5, <2>2
<1> QED
  BY <1>4, <1>5

LEMMA PastIsOrdered ==
    ASSUME TypeOK, NEW p \in Samples, Past(p), NEW h \in Hosts, SameBoot(p, counters[h])
    PROVE  Behind(p, counters[h])
<1>1. counters[h] \in Samples /\ counters[h].host = h
  BY DEF TypeOK
<1>2. p.host = h /\ p.boot = counters[h].boot /\ p.boot \in Nat
  BY <1>1 DEF SameBoot, Samples
<1> QED
  BY <1>2 DEF Past

LEMMA OrderedInit == Init => Ordered
  BY NoSampleAssumption DEF Init, Ordered, Taken

\* Samples that are taken already stay ordered; a step adds none but the present
\* counters of a host.
LEMMA TakenNext ==
    ASSUME TypeOK, Ordered, [Next]_vars
    PROVE  /\ \A p \in Taken' : p \in Taken \/ (counters' = counters /\ \E h \in Hosts : p = counters[h])
           /\ \A p \in Samples : Past(p) => Past(p)'
<1>1. ASSUME NEW h \in Hosts, Run(h) \/ Reboot(h)
      PROVE  Taken' = Taken /\ \A p \in Samples : Past(p) => Past(p)'
  <2>1. Taken' = Taken
    BY <1>1 DEF Run, Reboot, Taken
  <2>2. ASSUME NEW p \in Samples, Past(p) PROVE Past(p)'
    <3>1. /\ p.host \in Hosts /\ p.boot \in Nat /\ p.idle \in Nat /\ p.busy \in Nat
          /\ counters[p.host] \in Samples
      BY DEF Samples, TypeOK
    <3>2. CASE Run(h)
      <4>1. counters[h] \in Samples
        BY DEF TypeOK
      <4>2. \/ counters' = [counters EXCEPT ![h].idle = @ + 1]
            \/ counters' = [counters EXCEPT ![h].busy = @ + 1]
        BY <3>2 DEF Run
      <4>3. CASE p.host = h
        <5>1. /\ counters'[h].boot = counters[h].boot
              /\ counters'[h].idle >= counters[h].idle
              /\ counters'[h].busy >= counters[h].busy
              /\ counters'[h].idle \in Nat /\ counters'[h].busy \in Nat
          BY <4>1, <4>2 DEF TypeOK, Samples
        <5> QED
          BY <2>2, <3>1, <4>1, <4>3, <5>1 DEF Past, Behind, Samples
      <4>4. CASE p.host # h
        <5>1. counters'[p.host] = counters[p.host]
          BY <3>1, <4>2, <4>4 DEF TypeOK
        <5> QED
          BY <2>2, <5>1 DEF Past
      <4> QED
        BY <4>3, <4>4
    <3>3. CASE Reboot(h)
      BY <2>2, <3>1, <3>3 DEF Reboot, Booted, Past, Behind, TypeOK, Samples
    <3> QED
      BY <1>1, <3>2, <3>3
  <2> QED
    BY <2>1, <2>2
<1>2. ASSUME counters' = counters PROVE \A p \in Samples : Past(p) => Past(p)'
  BY <1>2 DEF Past
<1>3. ASSUME Reload \/ (\E n \in Names : Begin(n)) \/ (\E s \in scrapes : Fail(s)) \/ UNCHANGED vars
      PROVE  counters' = counters /\ \A p \in Taken' : p \in Taken
  BY <1>3, NoSampleAssumption DEF Reload, Begin, Fail, vars, Taken
<1>4. ASSUME NEW s \in scrapes, Answer(s)
      PROVE  counters' = counters /\ \A p \in Taken' : p \in Taken \/ \E h \in Hosts : p = counters[h]
  <2>1. s.host \in Hosts /\ [s EXCEPT !.sample = counters[s.host]].sample = counters[s.host]
    BY DEF TypeOK, Scrapes
  <2>2. counters' = counters /\ prev' = prev
    BY <1>4 DEF Answer
  <2>3. \A r \in scrapes' : r \in scrapes \/ r.sample = counters[s.host]
    BY <1>4, <2>1 DEF Answer
  <2> QED
    BY <2>1, <2>2, <2>3 DEF Taken
<1>5. ASSUME NEW s \in scrapes, Collect(s)
      PROVE  counters' = counters /\ \A p \in Taken' : p \in Taken
  <2>1. s.name \in Names /\ s.sample \in Samples
    BY <1>5 DEF TypeOK, Scrapes, Collect
  <2> QED
    BY <1>5, <2>1 DEF Collect, Taken, TypeOK
<1> QED
  BY <1>1, <1>2, <1>3, <1>4, <1>5 DEF Next

LEMMA OrderedNext == TypeOK /\ Ordered /\ [Next]_vars => Ordered'
<1> SUFFICES ASSUME TypeOK, Ordered, [Next]_vars PROVE Ordered'
  OBVIOUS
<1> DEFINE Fresh(p) == counters' = counters /\ \E h \in Hosts : p = counters[h]
<1>1. \A p \in Taken' : p \in Samples /\ (p \in Taken \/ Fresh(p))
  BY TakenNext DEF Taken
<1>2. ASSUME NEW p \in Samples, Fresh(p) PROVE Past(p)
  BY <1>2 DEF Past, Behind, TypeOK, Samples
<1>3. ASSUME NEW p \in Taken' PROVE Past(p)'
  BY <1>1, <1>2, TakenNext DEF Ordered
<1>4. ASSUME NEW p \in Taken', NEW s \in Taken', SameBoot(p, s) PROVE Behind(p, s) \/ Behind(s, p)
  <2>1. p \in Samples /\ s \in Samples /\ Past(p) /\ Past(s)
    BY <1>1, <1>2 DEF Ordered
  <2>2. SameBoot(s, p)
    BY <1>4 DEF SameBoot
  <2>3. CASE Fresh(s)
    BY <1>4, <2>1, <2>3, PastIsOrdered
  <2>4. CASE Fresh(p)
    BY <2>1, <2>2, <2>4, PastIsOrdered
  <2>5. CASE p \in Taken /\ s \in Taken
    BY <1>4, <2>5 DEF Ordered
  <2> QED
    BY <1>1, <2>3, <2>4, <2>5
<1>5. \A p, s : SameBoot(p, s)' = SameBoot(p, s) /\ Behind(p, s)' = Behind(p, s)
  BY DEF SameBoot, Behind
<1> QED
  BY <1>3, <1>4 DEF Ordered, SameBoot, Behind

LEMMA ExactNext == IInv /\ [Next]_vars => UsageIsExact'
<1> SUFFICES ASSUME IInv, [Next]_vars PROVE UsageIsExact'
  OBVIOUS
<1>1. ASSUME last' = last PROVE UsageIsExact'
  BY <1>1 DEF IInv, UsageIsExact, SameBoot, IsBusyShare
<1>2. ASSUME NEW s \in scrapes, Fail(s) PROVE UsageIsExact'
  BY <1>2 DEF IInv, TypeOK, Fail, NoReport, UsageIsExact, SameBoot, IsBusyShare
<1>3. ASSUME NEW s \in scrapes, Collect(s) PROVE UsageIsExact'
  <2> DEFINE p == prev[s.name]
             report == [from |-> p, to |-> s.sample, cpu |-> Usage(p, s.sample)]
  <2>1. s.name \in Names /\ s.sample \in Samples /\ p \in Samples \cup {NoSample}
    BY <1>3 DEF IInv, TypeOK, Scrapes, Collect
  <2>2. ASSUME SameBoot(p, s.sample)
        PROVE  IF s.sample.idle + s.sample.busy > p.idle + p.busy
               THEN IsBusyShare(Usage(p, s.sample), p, s.sample)
               ELSE Usage(p, s.sample) = None
    <3>1. p \in Taken /\ s.sample \in Taken
      BY <2>1, <2>2 DEF Taken, SameBoot
    <3>2. Behind(p, s.sample) \/ Behind(s.sample, p)
      BY <2>2, <3>1 DEF IInv, Ordered
    <3> QED
      BY <2>1, <2>2, <3>2, OrderedIsExact DEF SameBoot
  <2>3. \A n \in Names : last'[n] = IF n = s.name THEN report ELSE last[n]
    BY <1>3 DEF Collect, IInv, TypeOK
  <2> SUFFICES ASSUME NEW n \in Names, SameBoot(last'[n].from, last'[n].to)
               PROVE  IF last'[n].to.idle + last'[n].to.busy > last'[n].from.idle + last'[n].from.busy
                      THEN IsBusyShare(last'[n].cpu, last'[n].from, last'[n].to)
                      ELSE last'[n].cpu = None
    BY DEF UsageIsExact, SameBoot, IsBusyShare
  <2>4. CASE n = s.name
    <3>1. last'[n].from = p /\ last'[n].to = s.sample /\ last'[n].cpu = Usage(p, s.sample)
      BY <2>3, <2>4
    <3> QED
      BY <2>2, <3>1
  <2>5. CASE n # s.name
    <3>1. last'[n] = last[n]
      BY <2>3, <2>5
    <3> QED
      BY <3>1 DEF IInv, UsageIsExact
  <2> QED
    BY <2>4, <2>5
<1>4. last' = last \/ (\E s \in scrapes : Fail(s) \/ Collect(s))
  BY DEF Next, Run, Reboot, Reload, Begin, Answer, vars
<1> QED
  BY <1>1, <1>2, <1>3, <1>4

LEMMA ExactInit == Init => UsageIsExact
  BY DEF Init, NoReport, UsageIsExact, SameBoot

\* Every usage computed from two scrapes of one boot is exact, and absent if they are
\* collected out of order, for any number of overlapping workers of one node.
THEOREM UsageExact == Spec => []UsageIsExact
<1>1. Init => IInv
  BY TypeInit, OrderedInit, ExactInit DEF IInv
<1>2. IInv /\ [Next]_vars => IInv'
  BY TypeNext, OrderedNext, ExactNext DEF IInv
<1>3. IInv => UsageIsExact
  BY DEF IInv
<1> QED
  BY <1>1, <1>2, <1>3, PTL DEF Spec

=============================================================================
