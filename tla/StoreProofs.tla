---------------------------- MODULE StoreProofs ----------------------------
(***************************************************************************)
(* Theorems about the store, for every set of names, configurations,       *)
(* callers of Reload and subscribers, and every bound.                     *)
(***************************************************************************)
EXTENDS Store, SequenceTheorems, FiniteSetTheorems, TLAPS

Slots == Entries \cup {Hole}

\* Each name has one result at most: what the invariant makes of the slice.
Distinct(s) ==
    \A i, j \in DOMAIN s : s[i].name = s[j].name /\ s[i].name # NoName => i = j

-----------------------------------------------------------------------------
(* The operators on the snapshot.                                          *)

LEMMA SlotNames ==
    ASSUME NEW e \in Slots
    PROVE  /\ e.name \in Names \cup {NoName} /\ e.at \in Nat /\ e.gen \in Nat
           /\ e.name = NoName => e = Hole
<1>1. CASE e \in Entries
  BY <1>1, NamesAssumption DEF Entries
<1>2. CASE e = Hole
  BY <1>2 DEF Hole
<1> QED
  BY <1>1, <1>2 DEF Slots

\* Sync takes each configured node's result to its place, and adds nothing.
LEMMA SyncResult ==
    ASSUME NEW nodes \in Seq(Names), NEW s \in Seq(Slots), Distinct(s)
    PROVE  /\ Sync(nodes, s) \in Seq(Slots)
           /\ DOMAIN Sync(nodes, s) = DOMAIN nodes
           /\ \A i \in DOMAIN nodes :
                \/ Sync(nodes, s)[i] = Hole /\ Hits(s, nodes[i]) = {}
                \/ \E j \in DOMAIN s : s[j].name = nodes[i] /\ Sync(nodes, s)[i] = s[j]
<1>1. ASSUME NEW i \in DOMAIN nodes, Hits(s, nodes[i]) # {}
      PROVE  \E j \in DOMAIN s : s[j].name = nodes[i] /\ Last(Hits(s, nodes[i])) = j
  <2>1. PICK j \in DOMAIN s : s[j].name = nodes[i]
    BY <1>1 DEF Hits
  <2>2. nodes[i] \in Names /\ nodes[i] # NoName
    BY NamesAssumption
  <2>3. Hits(s, nodes[i]) = {j}
    BY <2>1, <2>2 DEF Hits, Distinct
  <2>4. j \in Nat
    BY <2>1
  <2> QED
    BY <2>1, <2>3, <2>4 DEF Last
<1>2. \A i \in DOMAIN nodes :
        \/ Sync(nodes, s)[i] = Hole /\ Hits(s, nodes[i]) = {}
        \/ \E j \in DOMAIN s : s[j].name = nodes[i] /\ Sync(nodes, s)[i] = s[j]
  BY <1>1 DEF Sync
<1>3. DOMAIN Sync(nodes, s) = DOMAIN nodes
  BY DEF Sync
<1>4. \A i \in DOMAIN nodes : Sync(nodes, s)[i] \in Slots
  BY <1>2 DEF Slots
<1>5. Sync(nodes, s) \in [1 .. Len(nodes) -> Slots]
  BY <1>3, <1>4 DEF Sync
<1> QED
  BY <1>2, <1>3, <1>5, SeqDef, LenProperties

\* Put makes e the only result of its node and leaves the other nodes' results.
LEMMA PutResult ==
    ASSUME NEW s \in Seq(Slots), Distinct(s), NEW e \in Entries
    PROVE  /\ Put(s, e) \in Seq(Slots)
           /\ Distinct(Put(s, e))
           /\ \E j \in DOMAIN Put(s, e) : Put(s, e)[j] = e
           /\ \A j \in DOMAIN Put(s, e) :
                \/ Put(s, e)[j] = e
                \/ \E i \in DOMAIN s : s[i].name # e.name /\ Put(s, e)[j] = s[i]
           /\ \A i \in DOMAIN s :
                s[i].name # e.name => \E j \in DOMAIN Put(s, e) : Put(s, e)[j] = s[i]
<1>0. e \in Slots /\ e.name # NoName
  BY NamesAssumption DEF Slots, Entries
<1>1. CASE Hits(s, e.name) = {}
  <2>1. Put(s, e) = Append(s, e)
    BY <1>1 DEF Put
  <2>2. /\ Append(s, e) \in Seq(Slots)
        /\ DOMAIN Append(s, e) = 1 .. Len(s) + 1
        /\ Append(s, e)[Len(s) + 1] = e
        /\ \A i \in 1 .. Len(s) : Append(s, e)[i] = s[i]
    BY <1>0
  <2>3. \A i \in DOMAIN s : s[i].name # e.name
    BY <1>1 DEF Hits
  <2>4. DOMAIN s = 1 .. Len(s) /\ Len(s) \in Nat
    OBVIOUS
  <2> QED
    BY <1>0, <2>1, <2>2, <2>3, <2>4 DEF Distinct
<1>2. CASE Hits(s, e.name) # {}
  <2>1. PICK k \in DOMAIN s : s[k].name = e.name
    BY <1>2 DEF Hits
  <2>2. Hits(s, e.name) = {k}
    BY <1>0, <2>1 DEF Hits, Distinct
  <2>3. k \in 1 .. Len(s) /\ k \in Nat
    OBVIOUS
  <2>4. Put(s, e) = [s EXCEPT ![k] = e]
    <3>1. First({k}) = k
      BY <2>3 DEF First
    <3> QED
      BY <1>2, <2>2, <3>1 DEF Put
  <2>5. \A i \in DOMAIN s : i # k => s[i].name # e.name
    BY <2>2 DEF Hits
  <2>6. DOMAIN Put(s, e) = DOMAIN s /\ Put(s, e) \in Seq(Slots)
    BY <1>0, <2>3, <2>4
  <2>7. \A i \in DOMAIN s : Put(s, e)[i] = IF i = k THEN e ELSE s[i]
    BY <2>3, <2>4
  <2> QED
    BY <1>0, <2>1, <2>5, <2>6, <2>7 DEF Distinct
<1> QED
  BY <1>1, <1>2

\* What Sync returns for a valid configuration lists it in order, each node once.
LEMMA SyncAligned ==
    ASSUME NEW c, c.nodes \in Seq(Names), ValidConfig(c), NEW s \in Seq(Slots), Distinct(s),
           NEW t, t = Sync(c.nodes, s)
    PROVE  t \in Seq(Slots) /\ AlignedWith(t, c.nodes)
<1>1. t \in Seq(Slots) /\ DOMAIN t = DOMAIN c.nodes
  BY SyncResult
<1>2. \A i \in DOMAIN t : t[i].name \in {NoName, c.nodes[i]}
  <2> SUFFICES ASSUME NEW i \in DOMAIN t PROVE t[i].name \in {NoName, c.nodes[i]}
    OBVIOUS
  <2>1. CASE t[i] = Hole
    BY <2>1 DEF Hole
  <2>2. CASE \E j \in DOMAIN s : s[j].name = c.nodes[i] /\ t[i] = s[j]
    BY <2>2
  <2> QED
    BY <1>1, <2>1, <2>2, SyncResult
<1>3. ASSUME NEW i \in DOMAIN t, NEW j \in DOMAIN t, t[i].name = t[j].name, i # j
      PROVE  t[i] = Hole
  <2>1. t[i].name = NoName
    BY <1>1, <1>2, <1>3 DEF ValidConfig
  <2>2. t[i] \in Slots
    BY <1>1
  <2> QED
    BY <2>1, <2>2, SlotNames
<1> QED
  BY <1>1, <1>2, <1>3 DEF AlignedWith

-----------------------------------------------------------------------------
(* The types, with what keeps the snapshot a slice of distinct results:    *)
(* the store holds a valid configuration and the snapshot is aligned with  *)
(* it.                                                                     *)

Base == TypeOK /\ ValidConfig(cfg) /\ SnapshotAligned

LEMMA BaseFacts ==
    ASSUME Base
    PROVE  /\ snap \in Seq(Slots) /\ Distinct(snap)
           /\ cfg.nodes \in Seq(Names)
BY ConfigsAssumption DEF Base, TypeOK, SnapshotAligned, AlignedWith, Distinct, Slots, Hole

LEMMA UnreachableType == ASSUME NEW s \in Seq(Slots) PROVE Unreachable(s) \in Nat
<1>1. DOMAIN s = 1 .. Len(s) /\ Len(s) \in Nat
  OBVIOUS
<1>2. IsFiniteSet(1 .. Len(s))
  BY <1>1, FS_Interval
<1>3. {i \in DOMAIN s : ~ s[i].ok} \in SUBSET (1 .. Len(s))
  BY <1>1
<1> QED
  BY <1>2, <1>3, FS_Subset, FS_CardinalityType DEF Unreachable

\* The slice that a scrape of worker w leaves behind.
LEMMA LandResult ==
    ASSUME Base, NEW w \in workers, NEW ok \in BOOLEAN, Land(w, ok)
    PROVE  LET e == [name |-> w.name, at |-> w.at, ok |-> ok, gen |-> w.gen] IN
           /\ e \in Entries
           /\ Put(snap, e) \in Seq(Slots) /\ Distinct(Put(snap, e))
           /\ snap' = Sync(cfg.nodes, Put(snap, e))
           /\ cfg' = cfg
<1> DEFINE e == [name |-> w.name, at |-> w.at, ok |-> ok, gen |-> w.gen]
<1>1. e \in Entries
  BY DEF Base, TypeOK, Worker, Entries
<1>2. Put(snap, e) \in Seq(Slots) /\ Distinct(Put(snap, e))
  BY <1>1, BaseFacts, PutResult
<1>3. snap' = Sync(cfg.nodes, Put(snap, e)) /\ cfg' = cfg
  BY DEF Land, Applied
<1> QED
  BY <1>1, <1>2, <1>3

LEMMA BaseInit == Init => Base
<1> SUFFICES ASSUME Init PROVE Base
  OBVIOUS
<1>1. InitConfig \in Configs /\ InitConfig.nodes \in Seq(Names) /\ ValidConfig(InitConfig)
  BY ConfigsAssumption
<1>2. snap \in [1 .. Len(InitConfig.nodes) -> {Hole}]
  BY <1>1 DEF Init
<1>3. snap \in Seq(Entries \cup {Hole})
  BY <1>1, <1>2, SeqDef, LenProperties
<1>4. TypeOK
  BY <1>1, <1>3 DEF Init, TypeOK, Worker
<1>5. SnapshotAligned
  BY <1>1 DEF Init, SnapshotAligned, AlignedWith, Hole
<1> QED
  BY <1>1, <1>4, <1>5 DEF Base, Init

LEMMA BaseNext == Base /\ [Next]_vars => Base'
<1> SUFFICES ASSUME Base, [Next]_vars PROVE Base'
  OBVIOUS
<1>0. /\ TypeOK /\ ValidConfig(cfg) /\ SnapshotAligned
      /\ snap \in Seq(Slots) /\ Distinct(snap) /\ cfg.nodes \in Seq(Names)
  BY BaseFacts DEF Base
<1> USE <1>0 DEF Base
<1>1. CASE Supervisor
  <2>1. TypeOK'
    <3>1. CASE StopWorkers
      BY <3>1 DEF StopWorkers, CancelWorkers, TypeOK, tableVars, statVars, subVars
    <3>2. CASE RunWorkers
      <4>1. \A n \in NamesOf(cfg) : NewWorker(gen + 1, n) \in Worker
        BY DEF NamesOf, NewWorker, Worker, TypeOK
      <4>2. workers' \subseteq Worker
        BY <3>2, <4>1 DEF RunWorkers, TypeOK
      <4> QED
        BY <3>2, <4>2 DEF RunWorkers, TypeOK, tableVars, statVars, subVars
    <3>3. CASE SupervisorNotify
      BY <3>3 DEF SupervisorNotify, Notify, TypeOK, tableVars, statVars
    <3>4. CASE TakeReload
      BY <3>4 DEF TakeReload, TypeOK, tableVars, statVars, subVars
    <3>5. CASE StopOnDone
      BY <3>5 DEF StopOnDone, CancelWorkers, TypeOK, tableVars, statVars, subVars
    <3> QED
      BY <1>1, <3>1, <3>2, <3>3, <3>4, <3>5 DEF Supervisor
  <2>2. UNCHANGED <<cfg, snap>>
    BY <1>1 DEF Supervisor, StopWorkers, RunWorkers, SupervisorNotify, TakeReload,
                StopOnDone, tableVars
  <2> QED
    BY <2>1, <2>2 DEF ValidConfig, SnapshotAligned, AlignedWith
<1>2. ASSUME NEW w \in workers, NEW ok \in BOOLEAN, Land(w, ok) PROVE Base'
  <2> DEFINE e == [name |-> w.name, at |-> w.at, ok |-> ok, gen |-> w.gen]
  <2>1. snap' \in Seq(Slots) /\ AlignedWith(snap', cfg.nodes)
    <3>1. Put(snap, e) \in Seq(Slots) /\ Distinct(Put(snap, e)) /\ snap' = Sync(cfg.nodes, Put(snap, e))
      BY <1>2, LandResult
    <3> HIDE DEF e
    <3> QED
      BY <3>1, SyncAligned
  <2>2. workers' \subseteq Worker
    <3>1. [w EXCEPT !.pc = "notify", !.at = 0, !.doomed = FALSE] \in Worker
      BY DEF Worker, TypeOK
    <3> QED
      BY <1>2, <3>1 DEF Land, Step, TypeOK
  <2>3. w.at \in Nat
    BY DEF TypeOK, Worker
  <2>4. lastUnreachable' \in Nat
    BY <1>2, <2>1, UnreachableType DEF Land
  <2>5. TypeOK'
    BY <1>2, <2>1, <2>2, <2>3, <2>4 DEF Land, Outdate, Later, TypeOK, Slots, supVars
  <2> QED
    BY <1>2, <2>1, <2>5, LandResult DEF SnapshotAligned, AlignedWith, ValidConfig
<1>3. ASSUME NEW w \in workers, Begin(w) \/ WorkerNotify(w) \/ Tick(w) \/ Exit(w) PROVE Base'
  <2>1. CASE Begin(w)
    <3>1. workers' \subseteq Worker
      <4>1. \A d \in BOOLEAN :
              [w EXCEPT !.pc = "fetching", !.at = now + 1, !.doomed = d] \in Worker
        <5>1. w \in Worker /\ now + 1 \in Nat
          BY DEF TypeOK
        <5> QED
          BY <5>1 DEF Worker
      <4>2. (~ Dummy /\ Retired(w)) \in BOOLEAN
        OBVIOUS
      <4> QED
        BY <2>1, <4>1, <4>2 DEF Begin, Step, TypeOK
    <3> QED
      BY <2>1, <3>1 DEF Begin, TypeOK, SnapshotAligned, AlignedWith, ValidConfig, tableVars, statVars,
                        supVars, subVars
  <2>2. CASE WorkerNotify(w)
    <3>1. workers' \subseteq Worker
      BY <2>2 DEF WorkerNotify, Step, Worker, TypeOK
    <3> QED
      BY <2>2, <3>1 DEF WorkerNotify, Notify, TypeOK, SnapshotAligned, AlignedWith, ValidConfig, tableVars,
                        statVars, supVars
  <2>3. CASE Tick(w)
    <3>1. workers' \subseteq Worker
      BY <2>3 DEF Tick, Step, Worker, TypeOK
    <3> QED
      BY <2>3, <3>1 DEF Tick, TypeOK, SnapshotAligned, AlignedWith, ValidConfig, tableVars, statVars,
                        supVars, subVars
  <2>4. CASE Exit(w)
    BY <2>4 DEF Exit, TypeOK, SnapshotAligned, AlignedWith, ValidConfig, tableVars, statVars, supVars, subVars
  <2> QED
    BY <1>3, <2>1, <2>2, <2>3, <2>4
<1>4. ASSUME NEW r \in Reloaders, NEW c \in Configs, Reload(r, c) PROVE Base'
  <2>1. c.nodes \in Seq(Names) /\ ValidConfig(c) /\ snap' = Sync(c.nodes, snap) /\ cfg' = c
    BY <1>4, ConfigsAssumption DEF Reload
  <2>2. snap' \in Seq(Slots) /\ AlignedWith(snap', c.nodes)
    BY <2>1, SyncAligned
  <2>3. TypeOK'
    BY <1>4, <2>2 DEF Reload, Outdate, TypeOK, Slots, statVars, supVars
  <2> QED
    BY <2>1, <2>2, <2>3 DEF SnapshotAligned, AlignedWith, ValidConfig
<1>5. ASSUME NEW r \in Reloaders, ReloadSignal(r) \/ ReloadNotify(r) PROVE Base'
  BY <1>5 DEF ReloadSignal, ReloadNotify, SendReload, Notify, TypeOK, SnapshotAligned,
              ValidConfig, tableVars, statVars, supVars, subVars
<1>6. ASSUME NEW s \in Subscribers,
             Subscribe(s) \/ Receive(s) \/ ReadSnapshot(s) \/ Resume(s) \/ Unsubscribe(s)
      PROVE  Base'
  BY <1>6 DEF Subscribe, Receive, ReadSnapshot, Resume, Unsubscribe, TypeOK, SnapshotAligned,
              ValidConfig, tableVars, statVars, supVars
<1>7. CASE Cancel \/ Finished \/ UNCHANGED vars
  BY <1>7 DEF Cancel, Finished, vars, TypeOK, SnapshotAligned, AlignedWith, ValidConfig, tableVars, statVars,
              supVars, subVars
<1> QED
  BY <1>1, <1>2, <1>3, <1>4, <1>5, <1>6, <1>7 DEF Next, Scrape

\* The types hold, for all constants.
THEOREM TypeCorrect == Spec => []TypeOK
BY BaseInit, BaseNext, PTL DEF Spec, Base

\* Whatever is reloaded and whichever worker lands late, the snapshot lists the
\* configured nodes in their order, each once, and no removed node.
THEOREM SnapshotAlwaysAligned == Spec => []SnapshotAligned
BY BaseInit, BaseNext, PTL DEF Spec, Base

-----------------------------------------------------------------------------
(* Signals are not lost.  Both invariants are inductive by themselves: who *)
(* falsifies one disjunct establishes the next, from the change of the     *)
(* store over the signal to the one who reacts to it.                      *)

\* However many reloads meet a full reloadCh, and wherever the supervisor stands,
\* workers that run from an old configuration are about to be replaced.
THEOREM ReloadNeverLost == Spec => []NoLostReload
<1>1. Init => NoLostReload
  BY DEF Init, NoLostReload
<1>2. TypeOK /\ NoLostReload /\ [Next]_vars => NoLostReload'
  <2> SUFFICES ASSUME TypeOK, NoLostReload, [Next]_vars PROVE NoLostReload'
    OBVIOUS
  <2> USE DEF NoLostReload
  <2>1. CASE Supervisor
    BY <2>1 DEF Supervisor, StopWorkers, RunWorkers, SupervisorNotify, TakeReload, StopOnDone,
                tableVars
  <2>2. ASSUME NEW w \in workers, Scrape(w) \/ Tick(w) \/ Exit(w) PROVE NoLostReload'
    BY <2>2 DEF Scrape, Begin, Land, WorkerNotify, Tick, Exit, tableVars, supVars
  <2>3. ASSUME NEW r \in Reloaders, NEW c \in Configs, Reload(r, c) PROVE NoLostReload'
    <3>1. reloader'[r] = "signal"
      BY <2>3 DEF Reload, TypeOK
    <3> QED
      BY <3>1
  <2>4. ASSUME NEW r \in Reloaders, ReloadSignal(r) \/ ReloadNotify(r) PROVE NoLostReload'
    <3>1. CASE ReloadSignal(r)
      BY <3>1 DEF ReloadSignal, SendReload
    <3>2. CASE ReloadNotify(r)
      <4>1. \A q \in Reloaders : reloader[q] = "signal" => reloader'[q] = "signal"
        BY <3>2 DEF ReloadNotify, TypeOK
      <4> QED
        BY <3>2, <4>1 DEF ReloadNotify, tableVars, supVars
    <3> QED
      BY <2>4, <3>1, <3>2
  <2>5. ASSUME NEW s \in Subscribers,
               Subscribe(s) \/ Receive(s) \/ ReadSnapshot(s) \/ Resume(s) \/ Unsubscribe(s)
        PROVE  NoLostReload'
    BY <2>5 DEF Subscribe, Receive, ReadSnapshot, Resume, Unsubscribe, tableVars, supVars
  <2>6. CASE Cancel \/ Finished \/ UNCHANGED vars
    BY <2>6 DEF Cancel, Finished, vars, tableVars, supVars
  <2> QED
    BY <2>1, <2>2, <2>3, <2>4, <2>5, <2>6 DEF Next
<1> QED
  BY <1>1, <1>2, TypeCorrect, PTL DEF Spec

\* A subscriber that has not read the last change will be woken or is about to read.
THEOREM WakeupNeverLost == Spec => []NoLostWakeup
<1>1. Init => NoLostWakeup
  BY DEF Init, NoLostWakeup
<1>2. TypeOK /\ NoLostWakeup /\ [Next]_vars => NoLostWakeup'
  <2> SUFFICES ASSUME TypeOK, NoLostWakeup, [Next]_vars PROVE NoLostWakeup'
    OBVIOUS
  <2> USE DEF NoLostWakeup
  <2>0. stale \subseteq subs /\ subs \subseteq Subscribers
    BY DEF TypeOK
  <2>n. ASSUME Notify, stale' = stale, subs' = subs PROVE NoLostWakeup'
    BY <2>n, <2>0 DEF Notify
  <2>1. CASE Supervisor
    <3>1. CASE RunWorkers
      BY <3>1 DEF RunWorkers, subVars
    <3>2. CASE SupervisorNotify
      BY <3>2, <2>n DEF SupervisorNotify
    <3>3. CASE StopWorkers \/ TakeReload \/ StopOnDone
      BY <3>3 DEF StopWorkers, TakeReload, StopOnDone, subVars
    <3> QED
      BY <2>1, <3>1, <3>2, <3>3 DEF Supervisor
  <2>2. ASSUME NEW w \in workers, Scrape(w) \/ Tick(w) \/ Exit(w) PROVE NoLostWakeup'
    <3>0. w \in Worker
      BY DEF TypeOK
    <3>1. CASE Begin(w) \/ Tick(w) \/ Exit(w)
      <4>1. w.pc # "notify" /\ UNCHANGED <<subVars, reloader>>
        BY <3>1 DEF Begin, Tick, Exit
      <4>2. \A v \in workers : v.pc = "notify" => v \in workers'
        BY <3>1, <4>1 DEF Begin, Tick, Exit, Step
      <4> QED
        BY <4>1, <4>2 DEF subVars
    <3>2. ASSUME NEW ok \in BOOLEAN, Land(w, ok) PROVE NoLostWakeup'
      <4>1. [w EXCEPT !.pc = "notify", !.at = 0, !.doomed = FALSE] \in workers'
        BY <3>2 DEF Land, Step
      <4>2. [w EXCEPT !.pc = "notify", !.at = 0, !.doomed = FALSE].pc = "notify"
        BY <3>0 DEF Worker
      <4> QED
        BY <4>1, <4>2
    <3>3. CASE WorkerNotify(w)
      BY <3>3, <2>n DEF WorkerNotify
    <3> QED
      BY <2>2, <3>1, <3>2, <3>3 DEF Scrape
  <2>3. ASSUME NEW r \in Reloaders, NEW c \in Configs, Reload(r, c) PROVE NoLostWakeup'
    <3>1. reloader'[r] = "signal"
      BY <2>3 DEF Reload, TypeOK
    <3> QED
      BY <3>1
  <2>4. ASSUME NEW r \in Reloaders, ReloadSignal(r) PROVE NoLostWakeup'
    <3>1. \A q \in Reloaders :
            reloader[q] \in {"signal", "notify"} => reloader'[q] \in {"signal", "notify"}
      BY <2>4 DEF ReloadSignal, TypeOK
    <3> QED
      BY <2>4, <3>1 DEF ReloadSignal, subVars
  <2>5. ASSUME NEW r \in Reloaders, ReloadNotify(r) PROVE NoLostWakeup'
    BY <2>5, <2>n DEF ReloadNotify
  <2>6. ASSUME NEW s \in Subscribers,
               Subscribe(s) \/ Receive(s) \/ ReadSnapshot(s) \/ Resume(s) \/ Unsubscribe(s)
        PROVE  NoLostWakeup'
    <3>1. UNCHANGED <<workers, reloader>>
      BY <2>6 DEF Subscribe, Receive, ReadSnapshot, Resume, Unsubscribe
    <3>2. \A t \in Subscribers : t # s => (t \in stale' <=> t \in stale) /\ ch'[t] = ch[t]
                                         /\ reader'[t] = reader[t]
      BY <2>6 DEF Subscribe, Receive, ReadSnapshot, Resume, Unsubscribe, TypeOK
    <3>3. s \in stale' =>
            \/ s \in stale /\ ch'[s] = ch[s] /\ (reader[s] = "reading" => reader'[s] = "reading")
            \/ reader'[s] = "reading"
      BY <2>6 DEF Subscribe, Receive, ReadSnapshot, Resume, Unsubscribe, TypeOK
    <3>4. stale' \subseteq Subscribers
      BY <2>6, <2>0 DEF Subscribe, Receive, ReadSnapshot, Resume, Unsubscribe
    <3> QED
      BY <3>1, <3>2, <3>3, <3>4
  <2>7. CASE Cancel \/ Finished \/ UNCHANGED vars
    BY <2>7 DEF Cancel, Finished, vars, subVars
  <2> QED
    BY <2>1, <2>2, <2>3, <2>4, <2>5, <2>6, <2>7 DEF Next
<1> QED
  BY <1>1, <1>2, TypeCorrect, PTL DEF Spec

-----------------------------------------------------------------------------
(* Generations of workers.  One context at most is uncancelled, the one    *)
(* s.workerCancel cancels; it is none while runWorkers is between stopping *)
(* and starting.  Within a generation the name identifies the goroutine.   *)

GenerationsInv ==
    /\ live \subseteq {workerCancel} /\ 0 \notin live
    /\ sup = "copy" => live = {}
    /\ \A w \in workers : w.gen <= gen
    /\ \A w, v \in workers : w.gen = v.gen /\ w.name = v.name => w = v

LEMMA GenerationsInit == Init => GenerationsInv
BY DEF Init, GenerationsInv

\* A step of one goroutine keeps its identity.
LEMMA StepKeepsIdentity ==
    ASSUME TypeOK, GenerationsInv, NEW w \in workers, NEW v,
           v.gen = w.gen, v.name = w.name,
           workers' = (workers \ {w}) \cup {v},
           gen' = gen, live' = live, workerCancel' = workerCancel, sup' = sup
    PROVE  GenerationsInv'
BY DEF GenerationsInv

LEMMA GenerationsNext == TypeOK /\ GenerationsInv /\ [Next]_vars => GenerationsInv'
<1> SUFFICES ASSUME TypeOK, GenerationsInv, [Next]_vars PROVE GenerationsInv'
  OBVIOUS
<1>1. CASE Supervisor
  <2>1. CASE RunWorkers
    <3>1. live' = {gen + 1} /\ workerCancel' = gen + 1 /\ gen' = gen + 1 /\ gen \in Nat
      BY <2>1 DEF RunWorkers, GenerationsInv, TypeOK
    <3>2. \A w \in workers' : w \in workers \/ \E n \in NamesOf(cfg) : w = NewWorker(gen + 1, n)
      BY <2>1 DEF RunWorkers
    <3>3. \A w \in workers : w.gen \in Nat /\ w.gen <= gen
      BY DEF GenerationsInv, TypeOK, Worker
    <3>4. \A n \in NamesOf(cfg) :
            NewWorker(gen + 1, n).gen = gen + 1 /\ NewWorker(gen + 1, n).name = n
      BY DEF NewWorker
    <3>5. sup' # "copy"
      BY <2>1 DEF RunWorkers
    <3>6. \A w, v \in workers' : w.gen = v.gen /\ w.name = v.name => w = v
      <4> SUFFICES ASSUME NEW w \in workers', NEW v \in workers',
                          w.gen = v.gen, w.name = v.name
                   PROVE  w = v
        OBVIOUS
      <4>1. CASE w \in workers /\ v \in workers
        BY <4>1 DEF GenerationsInv
      <4>2. CASE w \notin workers \/ v \notin workers
        BY <3>1, <3>2, <3>3, <3>4, <4>2
      <4> QED
        BY <4>1, <4>2
    <3>7. \A w \in workers' : w.gen <= gen'
      BY <3>1, <3>2, <3>3, <3>4
    <3> QED
      BY <3>1, <3>5, <3>6, <3>7 DEF GenerationsInv
  <2>2. CASE StopWorkers \/ StopOnDone
    BY <2>2 DEF StopWorkers, StopOnDone, CancelWorkers, GenerationsInv
  <2>3. CASE SupervisorNotify \/ TakeReload
    BY <2>3 DEF SupervisorNotify, TakeReload, GenerationsInv
  <2> QED
    BY <1>1, <2>1, <2>2, <2>3 DEF Supervisor
<1>2. ASSUME NEW w \in workers, Scrape(w) \/ Tick(w) PROVE GenerationsInv'
  <2>0. w \in Worker
    BY DEF TypeOK
  <2>1. UNCHANGED <<gen, live, workerCancel, sup>>
    BY <1>2 DEF Scrape, Begin, Land, WorkerNotify, Tick, supVars
  <2>2. \E v : v.gen = w.gen /\ v.name = w.name /\ workers' = (workers \ {w}) \cup {v}
    <3>1. \A d : [w EXCEPT !.pc = "fetching", !.at = now + 1, !.doomed = d].gen = w.gen
              /\ [w EXCEPT !.pc = "fetching", !.at = now + 1, !.doomed = d].name = w.name
      BY <2>0 DEF Worker
    <3>2. CASE Begin(w)
      BY <3>1, <3>2 DEF Begin, Step
    <3>3. ASSUME NEW ok \in BOOLEAN, Land(w, ok)
          PROVE  \E v : v.gen = w.gen /\ v.name = w.name /\ workers' = (workers \ {w}) \cup {v}
      <4>1. /\ [w EXCEPT !.pc = "notify", !.at = 0, !.doomed = FALSE].gen = w.gen
            /\ [w EXCEPT !.pc = "notify", !.at = 0, !.doomed = FALSE].name = w.name
        BY <2>0 DEF Worker
      <4> QED
        BY <3>3, <4>1 DEF Land, Step
    <3>4. CASE WorkerNotify(w)
      <4>1. [w EXCEPT !.pc = "idle"].gen = w.gen /\ [w EXCEPT !.pc = "idle"].name = w.name
        BY <2>0 DEF Worker
      <4> QED
        BY <3>4, <4>1 DEF WorkerNotify, Step
    <3>5. CASE Tick(w)
      <4>1. [w EXCEPT !.pc = "start"].gen = w.gen /\ [w EXCEPT !.pc = "start"].name = w.name
        BY <2>0 DEF Worker
      <4> QED
        BY <3>5, <4>1 DEF Tick, Step
    <3> QED
      BY <1>2, <3>2, <3>3, <3>4, <3>5 DEF Scrape
  <2> QED
    BY <2>1, <2>2, StepKeepsIdentity
<1>3. ASSUME NEW w \in workers, Exit(w) PROVE GenerationsInv'
  BY <1>3 DEF Exit, supVars, GenerationsInv
<1>4. ASSUME NEW r \in Reloaders,
             (\E c \in Configs : Reload(r, c)) \/ ReloadSignal(r) \/ ReloadNotify(r)
      PROVE  GenerationsInv'
  BY <1>4 DEF Reload, ReloadSignal, ReloadNotify, supVars, GenerationsInv
<1>5. ASSUME NEW s \in Subscribers,
             Subscribe(s) \/ Receive(s) \/ ReadSnapshot(s) \/ Resume(s) \/ Unsubscribe(s)
      PROVE  GenerationsInv'
  BY <1>5 DEF Subscribe, Receive, ReadSnapshot, Resume, Unsubscribe, supVars, GenerationsInv
<1>6. CASE Cancel \/ Finished \/ UNCHANGED vars
  BY <1>6 DEF Cancel, Finished, vars, supVars, GenerationsInv
<1> QED
  BY <1>1, <1>2, <1>3, <1>4, <1>5, <1>6 DEF Next

\* A node is scraped by one uncancelled goroutine at most, over any number of reloads.
THEOREM NodeScrapedOnce == Spec => []OneLiveWorkerPerNode
<1>1. GenerationsInv => OneLiveWorkerPerNode
  BY DEF GenerationsInv, OneLiveWorkerPerNode, Retired
<1> QED
  BY <1>1, GenerationsInit, GenerationsNext, TypeCorrect, PTL DEF Spec

-----------------------------------------------------------------------------
(* Within a generation a node's results follow the clock: what is in       *)
(* flight began after what the same goroutine published before.            *)

FreshInv ==
    /\ \A i \in DOMAIN snap : snap[i].at <= now
    /\ \A w \in workers : w.pc = "fetching" =>
          /\ w.at <= now
          /\ \A i \in DOMAIN snap :
                snap[i].name = w.name /\ snap[i].gen = w.gen => snap[i].at < w.at

\* Where the results of the next snapshot come from when w lands.
LEMMA LandSources ==
    ASSUME Base, NEW w \in workers, NEW ok \in BOOLEAN, Land(w, ok)
    PROVE  \A i \in DOMAIN snap' :
             \/ snap'[i] = Hole
             \/ snap'[i] = [name |-> w.name, at |-> w.at, ok |-> ok, gen |-> w.gen]
             \/ \E j \in DOMAIN snap : snap[j].name # w.name /\ snap'[i] = snap[j]
<1> DEFINE e == [name |-> w.name, at |-> w.at, ok |-> ok, gen |-> w.gen]
           p == Put(snap, e)
<1>1. e \in Entries /\ p \in Seq(Slots) /\ Distinct(p) /\ snap' = Sync(cfg.nodes, p)
  BY LandResult
<1>2. snap \in Seq(Slots) /\ Distinct(snap) /\ cfg.nodes \in Seq(Names)
  BY BaseFacts
<1>3. \A j \in DOMAIN p : p[j] = e \/ \E k \in DOMAIN snap : snap[k].name # e.name /\ p[j] = snap[k]
  BY <1>1, <1>2, PutResult
<1>4. e.name = w.name
  OBVIOUS
<1> HIDE DEF e, p
<1>5. DOMAIN snap' = DOMAIN cfg.nodes
      /\ \A i \in DOMAIN cfg.nodes : snap'[i] = Hole \/ \E j \in DOMAIN p : snap'[i] = p[j]
  BY <1>1, <1>2, SyncResult
<1>6. \A i \in DOMAIN snap' :
        snap'[i] = Hole \/ snap'[i] = e
        \/ \E j \in DOMAIN snap : snap[j].name # w.name /\ snap'[i] = snap[j]
  BY <1>3, <1>4, <1>5
<1> QED
  BY <1>6 DEF e

LEMMA ReloadSources ==
    ASSUME Base, NEW r \in Reloaders, NEW c \in Configs, Reload(r, c)
    PROVE  \A i \in DOMAIN snap' :
             snap'[i] = Hole \/ \E j \in DOMAIN snap : snap'[i] = snap[j]
<1>1. snap \in Seq(Slots) /\ Distinct(snap) /\ c.nodes \in Seq(Names)
  BY BaseFacts, ConfigsAssumption
<1>2. snap' = Sync(c.nodes, snap)
  BY DEF Reload
<1> QED
  BY <1>1, <1>2, SyncResult

\* Steps that neither start nor land a scrape, nor reload.
Quiet == /\ UNCHANGED <<snap, now, statVars>>
         /\ \A w \in workers' : w.pc = "fetching" => w \in workers
         /\ \A w \in workers : w.pc = "fetching" => w \in workers'

LEMMA FreshInit == Init => FreshInv
BY DEF Init, FreshInv, Hole

LEMMA QuietSteps ==
    ASSUME TypeOK, [Next]_vars,
           ~ \E w \in workers : Begin(w),
           ~ \E w \in workers, ok \in BOOLEAN : Land(w, ok),
           ~ \E r \in Reloaders, c \in Configs : Reload(r, c)
    PROVE  Quiet
<1>1. CASE Supervisor
  <2>1. UNCHANGED <<snap, now, statVars>> /\ workers \subseteq workers'
    BY <1>1 DEF Supervisor, StopWorkers, RunWorkers, SupervisorNotify, TakeReload, StopOnDone,
                tableVars
  <2>2. \A w \in workers' : w \in workers \/ w.pc = "start"
    BY <1>1 DEF Supervisor, StopWorkers, RunWorkers, SupervisorNotify, TakeReload, StopOnDone,
                NewWorker
  <2> QED
    BY <2>1, <2>2 DEF Quiet
<1>2. ASSUME NEW w \in workers, WorkerNotify(w) \/ Tick(w) \/ Exit(w) PROVE Quiet
  <2>1. w \in Worker
    BY DEF TypeOK
  <2>2. [w EXCEPT !.pc = "idle"].pc = "idle" /\ [w EXCEPT !.pc = "start"].pc = "start"
    BY <2>1 DEF Worker
  <2> QED
    BY <1>2, <2>2 DEF WorkerNotify, Tick, Exit, Step, Quiet, tableVars, statVars
<1>3. ASSUME NEW r \in Reloaders, ReloadSignal(r) \/ ReloadNotify(r) PROVE Quiet
  BY <1>3 DEF ReloadSignal, ReloadNotify, Quiet, tableVars, statVars
<1>4. ASSUME NEW s \in Subscribers,
             Subscribe(s) \/ Receive(s) \/ ReadSnapshot(s) \/ Resume(s) \/ Unsubscribe(s)
      PROVE  Quiet
  BY <1>4 DEF Subscribe, Receive, ReadSnapshot, Resume, Unsubscribe, Quiet, tableVars, statVars
<1>5. CASE Cancel \/ Finished \/ UNCHANGED vars
  BY <1>5 DEF Cancel, Finished, vars, Quiet, tableVars, statVars
<1> QED
  BY <1>1, <1>2, <1>3, <1>4, <1>5 DEF Next, Scrape

LEMMA FreshNext == Base /\ GenerationsInv /\ FreshInv /\ [Next]_vars => FreshInv'
<1> SUFFICES ASSUME Base, GenerationsInv, FreshInv, [Next]_vars PROVE FreshInv'
  OBVIOUS
<1>0. /\ now \in Nat
      /\ \A w \in workers : w \in Worker /\ w.at \in Nat /\ w.name # NoName
      /\ \A i \in DOMAIN snap : snap[i].at \in Nat
  <2>1. TypeOK
    BY DEF Base
  <2>2. \A i \in DOMAIN snap : snap[i] \in Slots
    BY BaseFacts
  <2>3. \A i \in DOMAIN snap : snap[i].at \in Nat
    BY <2>2, SlotNames
  <2> QED
    BY <2>1, <2>3, NamesAssumption DEF TypeOK, Worker
<1>1. ASSUME NEW w \in workers, Begin(w) PROVE FreshInv'
  <2> DEFINE v == [w EXCEPT !.pc = "fetching", !.at = now + 1, !.doomed = ~ Dummy /\ Retired(w)]
  <2>1. v.at = now + 1
    BY <1>0 DEF Worker
  <2>2. now' = now + 1 /\ snap' = snap /\ workers' = (workers \ {w}) \cup {v}
    BY <1>1 DEF Begin, Step, tableVars
  <2> HIDE DEF v
  <2> QED
    BY <1>0, <2>1, <2>2 DEF FreshInv
<1>2. ASSUME NEW w \in workers, NEW ok \in BOOLEAN, Land(w, ok) PROVE FreshInv'
  <2> DEFINE e == [name |-> w.name, at |-> w.at, ok |-> ok, gen |-> w.gen]
             v == [w EXCEPT !.pc = "notify", !.at = 0, !.doomed = FALSE]
  <2>1. now' = now /\ workers' = (workers \ {w}) \cup {v} /\ w.pc = "fetching"
    BY <1>2 DEF Land, Step
  <2>2. v.pc = "notify"
    BY <1>0 DEF Worker
  <2>3. e.name = w.name /\ e.at = w.at /\ e.gen = w.gen
    OBVIOUS
  <2>4. \A i \in DOMAIN snap' : \/ snap'[i] = Hole
                               \/ snap'[i] = e
                               \/ \E j \in DOMAIN snap : snap'[i] = snap[j]
    BY <1>2, LandSources
  <2>5. Hole.at = 0 /\ Hole.name = NoName
    BY DEF Hole
  <2> HIDE DEF e, v
  <2>6. \A i \in DOMAIN snap' : snap'[i].at <= now
    BY <1>0, <2>1, <2>3, <2>4, <2>5 DEF FreshInv
  <2>7. ASSUME NEW u \in workers', u.pc = "fetching", NEW i \in DOMAIN snap',
               snap'[i].name = u.name, snap'[i].gen = u.gen
        PROVE  snap'[i].at < u.at
    <3>1. u \in workers /\ u # w
      BY <2>1, <2>2, <2>7
    <3>2. snap'[i] # e
      BY <2>3, <2>7, <3>1 DEF GenerationsInv
    <3>3. snap'[i] # Hole
      BY <1>0, <2>5, <2>7, <3>1
    <3> QED
      BY <2>4, <2>7, <3>1, <3>2, <3>3 DEF FreshInv
  <2>8. \A u \in workers' : u.pc = "fetching" => u.at <= now'
    BY <2>1, <2>2 DEF FreshInv
  <2> QED
    BY <2>1, <2>6, <2>7, <2>8 DEF FreshInv
<1>3. ASSUME NEW r \in Reloaders, NEW c \in Configs, Reload(r, c) PROVE FreshInv'
  <2>1. workers' = workers /\ now' = now
    BY <1>3 DEF Reload
  <2>2. Hole.at = 0 /\ Hole.name = NoName
    BY DEF Hole
  <2> QED
    BY <1>0, <1>3, <2>1, <2>2, ReloadSources DEF FreshInv
<1>4. CASE Quiet
  BY <1>4 DEF Quiet, FreshInv
<1> QED
  BY <1>1, <1>2, <1>3, <1>4, QuietSteps DEF Base

\* A result is replaced by an earlier one only across generations of workers.
THEOREM ResultsFollowTheClock == Spec => NoRegressWithinGeneration
<1>1. Base /\ GenerationsInv /\ FreshInv /\ [Next]_vars => [NoRegressStep]_vars
  <2> SUFFICES ASSUME Base, GenerationsInv, FreshInv, [Next]_vars PROVE NoRegressStep
    OBVIOUS
  <2>0. Distinct(snap) /\ \A i \in DOMAIN snap : snap[i].at \in Nat
    <3>1. \A i \in DOMAIN snap : snap[i] \in Slots
      BY BaseFacts
    <3> QED
      BY <3>1, BaseFacts, SlotNames
  <2>1. Hole.name = NoName
    BY DEF Hole
  <2>2. ASSUME NEW w \in workers, NEW ok \in BOOLEAN, Land(w, ok) PROVE NoRegressStep
    <3>1. w.pc = "fetching" /\ w.at \in Nat
      BY <2>2 DEF Land, Base, TypeOK, Worker
    <3>2. \A i \in DOMAIN snap : snap[i].name = w.name /\ snap[i].gen = w.gen => snap[i].at < w.at
      BY <3>1 DEF FreshInv
    <3> DEFINE e == [name |-> w.name, at |-> w.at, ok |-> ok, gen |-> w.gen]
    <3>3. e.name = w.name /\ e.at = w.at /\ e.gen = w.gen
      OBVIOUS
    <3>4. \A i \in DOMAIN snap' : \/ snap'[i] = Hole
                                 \/ snap'[i] = e
                                 \/ \E j \in DOMAIN snap : snap'[i] = snap[j]
      BY <2>2, LandSources
    <3> HIDE DEF e
    <3> QED
      BY <2>0, <2>1, <3>1, <3>2, <3>3, <3>4 DEF NoRegressStep, Distinct
  <2>3. ASSUME NEW r \in Reloaders, NEW c \in Configs, Reload(r, c) PROVE NoRegressStep
    BY <2>0, <2>1, <2>3, ReloadSources DEF NoRegressStep, Distinct
  <2>4. CASE snap' = snap
    BY <2>0, <2>4 DEF NoRegressStep, Distinct
  <2>5. (\E w \in workers : Begin(w)) \/ Quiet => snap' = snap
    BY DEF Begin, Quiet, tableVars
  <2> QED
    BY <2>2, <2>3, <2>4, <2>5, QuietSteps DEF Base
<1> QED
  BY <1>1, BaseInit, BaseNext, GenerationsInit, GenerationsNext, FreshInit, FreshNext,
     PTL DEF Spec, Base, NoRegressWithinGeneration

-----------------------------------------------------------------------------
(* The metrics.  Begin puts one scrape in flight and Land takes one from   *)
(* there; what lands began before now, and moves collected_at forward.     *)

Fetching == {w \in workers : w.pc = "fetching"}

CountInv == IsFiniteSet(Fetching) /\ scrapesTotal + Cardinality(Fetching) = now

TimesInv ==
    /\ lastScrapeAt <= snapAt /\ snapAt <= now
    /\ \A i \in DOMAIN snap : snap[i].at <= snapAt

LEMMA CountNext == TypeOK /\ FreshInv /\ CountInv /\ [Next]_vars => CountInv'
<1> SUFFICES ASSUME TypeOK, FreshInv, CountInv, [Next]_vars PROVE CountInv'
  OBVIOUS
<1>0. now \in Nat /\ scrapesTotal \in Nat /\ Cardinality(Fetching) \in Nat
  BY FS_CardinalityType DEF TypeOK, CountInv
<1>1. ASSUME NEW w \in workers, Begin(w) PROVE CountInv'
  <2> DEFINE v == [w EXCEPT !.pc = "fetching", !.at = now + 1, !.doomed = ~ Dummy /\ Retired(w)]
  <2>1. v.pc = "fetching" /\ v.at = now + 1 /\ w.pc = "start"
    BY <1>1 DEF Begin, TypeOK, Worker
  <2>2. now' = now + 1 /\ scrapesTotal' = scrapesTotal /\ workers' = (workers \ {w}) \cup {v}
    BY <1>1 DEF Begin, Step, statVars
  <2> HIDE DEF v
  <2>3. v \notin Fetching
    <3>1. \A u \in Fetching : u.at <= now
      BY DEF Fetching, FreshInv
    <3> QED
      BY <1>0, <2>1, <3>1
  <2>4. Fetching' = Fetching \cup {v}
    BY <2>1, <2>2 DEF Fetching
  <2>5. IsFiniteSet(Fetching') /\ Cardinality(Fetching') = Cardinality(Fetching) + 1
    BY <2>3, <2>4, FS_AddElement DEF CountInv
  <2> QED
    BY <1>0, <2>2, <2>5 DEF CountInv
<1>2. ASSUME NEW w \in workers, NEW ok \in BOOLEAN, Land(w, ok) PROVE CountInv'
  <2> DEFINE v == [w EXCEPT !.pc = "notify", !.at = 0, !.doomed = FALSE]
  <2>1. v.pc = "notify" /\ w.pc = "fetching"
    BY <1>2 DEF Land, TypeOK, Worker
  <2>2. now' = now /\ scrapesTotal' = scrapesTotal + 1 /\ workers' = (workers \ {w}) \cup {v}
    BY <1>2 DEF Land, Step
  <2> HIDE DEF v
  <2>3. w \in Fetching /\ Fetching' = Fetching \ {w}
    BY <2>1, <2>2 DEF Fetching
  <2>4. IsFiniteSet(Fetching') /\ Cardinality(Fetching') = Cardinality(Fetching) - 1
    BY <2>3, FS_RemoveElement DEF CountInv
  <2> QED
    BY <1>0, <2>2, <2>4 DEF CountInv
<1>3. CASE UNCHANGED <<now, scrapesTotal>> /\ Fetching' = Fetching
  BY <1>3 DEF CountInv
<1>4. Quiet => UNCHANGED <<now, scrapesTotal>> /\ Fetching' = Fetching
  BY DEF Quiet, Fetching, statVars
<1>5. ASSUME NEW r \in Reloaders, NEW c \in Configs, Reload(r, c)
      PROVE  UNCHANGED <<now, scrapesTotal>> /\ Fetching' = Fetching
  BY <1>5 DEF Reload, Fetching, statVars
<1> QED
  BY <1>1, <1>2, <1>3, <1>4, <1>5, QuietSteps

LEMMA TimesNext == Base /\ FreshInv /\ TimesInv /\ [Next]_vars => TimesInv'
<1> SUFFICES ASSUME Base, FreshInv, TimesInv, [Next]_vars PROVE TimesInv'
  OBVIOUS
<1>0. /\ now \in Nat /\ snapAt \in Nat /\ lastScrapeAt \in Nat
      /\ \A i \in DOMAIN snap : snap[i].at \in Nat
  <2>1. \A i \in DOMAIN snap : snap[i] \in Slots
    BY BaseFacts
  <2> QED
    BY <2>1, SlotNames DEF Base, TypeOK
<1>1. Hole.at = 0
  BY DEF Hole
<1>2. ASSUME NEW w \in workers, NEW ok \in BOOLEAN, Land(w, ok) PROVE TimesInv'
  <2> DEFINE e == [name |-> w.name, at |-> w.at, ok |-> ok, gen |-> w.gen]
  <2>1. /\ lastScrapeAt' = w.at /\ now' = now /\ snapAt' = Later(snapAt, w.at)
        /\ w.pc = "fetching" /\ w.at \in Nat
    BY <1>2 DEF Land, Base, TypeOK, Worker
  <2>2. w.at <= now
    BY <2>1 DEF FreshInv
  <2>3. snapAt' \in Nat /\ w.at <= snapAt' /\ snapAt <= snapAt' /\ snapAt' <= now
    BY <1>0, <2>1, <2>2 DEF Later, TimesInv
  <2>4. \A i \in DOMAIN snap' : \/ snap'[i] = Hole
                               \/ snap'[i] = e
                               \/ \E j \in DOMAIN snap : snap'[i] = snap[j]
    BY <1>2, LandSources
  <2>5. e.at = w.at
    OBVIOUS
  <2> HIDE DEF e
  <2>6. \A i \in DOMAIN snap' : snap'[i].at <= snapAt'
    BY <1>0, <1>1, <2>3, <2>4, <2>5 DEF TimesInv
  <2> QED
    BY <2>1, <2>3, <2>6 DEF TimesInv
<1>3. ASSUME NEW r \in Reloaders, NEW c \in Configs, Reload(r, c) PROVE TimesInv'
  <2>1. UNCHANGED <<now, snapAt, lastScrapeAt>>
    BY <1>3 DEF Reload, statVars
  <2> QED
    BY <1>0, <1>1, <1>3, <2>1, ReloadSources DEF TimesInv
<1>4. ASSUME NEW w \in workers, Begin(w) PROVE TimesInv'
  BY <1>0, <1>4 DEF Begin, TimesInv, tableVars, statVars
<1>5. CASE Quiet
  BY <1>5 DEF Quiet, TimesInv, statVars
<1> QED
  BY <1>2, <1>3, <1>4, <1>5, QuietSteps DEF Base

\* Over any number of reloads and workers that land late, no scrape is counted twice or
\* left out, and collected_at is as new as every result.
THEOREM StatsAlwaysConsistent == Spec => []StatsConsistent
<1>1. Init => CountInv /\ TimesInv
  <2> SUFFICES ASSUME Init PROVE CountInv /\ TimesInv
    OBVIOUS
  <2>1. Fetching = {}
    BY DEF Init, Fetching
  <2>2. CountInv
    BY <2>1, FS_EmptySet DEF Init, CountInv
  <2>3. TimesInv
    BY DEF Init, TimesInv, Hole
  <2> QED
    BY <2>2, <2>3
<1>2. CountInv /\ TimesInv => StatsConsistent
  BY DEF CountInv, TimesInv, Fetching, StatsConsistent
<1> QED
  BY <1>1, <1>2, CountNext, TimesNext, BaseInit, BaseNext, GenerationsInit, GenerationsNext,
     FreshInit, FreshNext, PTL DEF Spec, Base

-----------------------------------------------------------------------------
(* The store implements the service.                                       *)

LEMMA LookupValue ==
    ASSUME NEW s \in Seq(Slots), Distinct(s), NEW n \in Names
    PROVE  /\ \A i \in DOMAIN s : s[i].name = n => Lookup(s, n) = s[i]
           /\ (\A i \in DOMAIN s : s[i].name # n) => Lookup(s, n) = Hole
<1>0. n # NoName
  BY NamesAssumption
<1>1. ASSUME NEW i \in DOMAIN s, s[i].name = n PROVE Lookup(s, n) = s[i]
  <2>1. Hits(s, n) = {i}
    BY <1>0, <1>1 DEF Hits, Distinct
  <2>2. i \in Nat
    OBVIOUS
  <2>3. First({i}) = i
    BY <2>2 DEF First
  <2> QED
    BY <2>1, <2>3 DEF Lookup
<1>2. (\A i \in DOMAIN s : s[i].name # n) => Lookup(s, n) = Hole
  BY DEF Lookup, Hits
<1> QED
  BY <1>1, <1>2

LEMMA LookupSync ==
    ASSUME NEW c, c.nodes \in Seq(Names), ValidConfig(c), NEW s \in Seq(Slots), Distinct(s),
           NEW t, t = Sync(c.nodes, s), NEW n \in Names
    PROVE  Lookup(t, n) = IF n \in NamesOf(c) THEN Lookup(s, n) ELSE Hole
<1>1. t \in Seq(Slots) /\ AlignedWith(t, c.nodes)
  BY SyncAligned
<1>2. Distinct(t)
  BY <1>1 DEF Distinct, AlignedWith, Hole
<1>3. n # NoName
  BY NamesAssumption
<1>4. CASE n \notin NamesOf(c)
  <2>1. \A i \in DOMAIN t : t[i].name # n
    BY <1>1, <1>3, <1>4 DEF AlignedWith, NamesOf
  <2> QED
    BY <1>1, <1>2, <1>4, <2>1, LookupValue
<1>5. CASE n \in NamesOf(c)
  <2>1. PICK i \in DOMAIN c.nodes : c.nodes[i] = n
    BY <1>5 DEF NamesOf
  <2>2. CASE t[i] = Hole /\ Hits(s, n) = {}
    <3>1. \A j \in DOMAIN t : t[j].name # n
      <4>1. ASSUME NEW j \in DOMAIN t, t[j].name = n PROVE FALSE
        <5>1. c.nodes[j] = n /\ j \in DOMAIN c.nodes
          BY <1>1, <1>3, <4>1 DEF AlignedWith
        <5>2. i = j
          BY <2>1, <5>1 DEF ValidConfig
        <5> QED
          BY <1>3, <2>2, <4>1, <5>2 DEF Hole
      <4> QED
        BY <4>1
    <3>2. \A j \in DOMAIN s : s[j].name # n
      BY <2>2 DEF Hits
    <3> QED
      BY <1>1, <1>2, <1>5, <3>1, <3>2, LookupValue
  <2>3. CASE \E j \in DOMAIN s : s[j].name = n /\ t[i] = s[j]
    <3>1. PICK j \in DOMAIN s : s[j].name = n /\ t[i] = s[j]
      BY <2>3
    <3>2. i \in DOMAIN t /\ t[i].name = n
      BY <1>1, <3>1 DEF AlignedWith
    <3>3. Lookup(t, n) = t[i]
      BY <1>1, <1>2, <3>2, LookupValue
    <3>4. Lookup(s, n) = s[j]
      BY <3>1, LookupValue
    <3> QED
      BY <1>5, <3>1, <3>3, <3>4
  <2> QED
    BY <2>1, <2>2, <2>3, SyncResult
<1> QED
  BY <1>4, <1>5

LEMMA LookupPut ==
    ASSUME NEW s \in Seq(Slots), Distinct(s), NEW e \in Entries, NEW n \in Names
    PROVE  Lookup(Put(s, e), n) = IF n = e.name THEN e ELSE Lookup(s, n)
<1> DEFINE p == Put(s, e)
<1>1. /\ p \in Seq(Slots) /\ Distinct(p)
      /\ \E j \in DOMAIN p : p[j] = e
      /\ \A j \in DOMAIN p : p[j] = e \/ \E i \in DOMAIN s : s[i].name # e.name /\ p[j] = s[i]
      /\ \A i \in DOMAIN s : s[i].name # e.name => \E j \in DOMAIN p : p[j] = s[i]
  BY PutResult
<1> HIDE DEF p
<1>2. ASSUME n = e.name PROVE Lookup(p, n) = e
  BY <1>1, <1>2, LookupValue
<1>3. ASSUME n # e.name, NEW i \in DOMAIN s, s[i].name = n PROVE Lookup(p, n) = Lookup(s, n)
  <2>1. PICK j \in DOMAIN p : p[j] = s[i]
    BY <1>1, <1>3
  <2>2. Lookup(p, n) = p[j] /\ Lookup(s, n) = s[i]
    BY <1>1, <1>3, <2>1, LookupValue
  <2> QED
    BY <2>1, <2>2
<1>4. ASSUME n # e.name, \A i \in DOMAIN s : s[i].name # n PROVE Lookup(p, n) = Lookup(s, n)
  <2>1. \A j \in DOMAIN p : p[j].name # n
    BY <1>1, <1>4
  <2> QED
    BY <1>1, <1>4, <2>1, LookupValue
<1>5. Lookup(p, n) = IF n = e.name THEN e ELSE Lookup(s, n)
  BY <1>2, <1>3, <1>4
<1> QED
  BY <1>5 DEF p

LEMMA ServiceInit == Init => Service!Init
<1> SUFFICES ASSUME Init PROVE Service!Init
  OBVIOUS
<1>1. \A n \in Names : Lookup(snap, n) = Hole
  BY NamesAssumption DEF Init, Lookup, Hits, Hole
<1>2. Table = [n \in Names |-> Hole]
  BY <1>1 DEF Table
<1> QED
  BY <1>2 DEF Init, Service!Init

LEMMA ServiceNext == Base /\ [Next]_vars => [Service!Next]_(Service!vars)
<1> SUFFICES ASSUME Base, [Next]_vars PROVE [Service!Next]_(Service!vars)
  OBVIOUS
<1>0. /\ snap \in Seq(Slots) /\ Distinct(snap) /\ cfg.nodes \in Seq(Names)
      /\ ValidConfig(cfg) /\ AlignedWith(snap, cfg.nodes) /\ TypeOK
  BY BaseFacts DEF Base, SnapshotAligned
<1>1. ASSUME NEW w \in workers, NEW ok \in BOOLEAN, Land(w, ok)
      PROVE  [Service!Next]_(Service!vars)
  <2> DEFINE e == [name |-> w.name, at |-> w.at, ok |-> ok, gen |-> w.gen]
  <2>1. /\ e \in Entries /\ Put(snap, e) \in Seq(Slots) /\ Distinct(Put(snap, e))
        /\ snap' = Sync(cfg.nodes, Put(snap, e)) /\ e.name = w.name
    BY <1>1, LandResult
  <2>2. w.name \in Names
    BY <1>0 DEF TypeOK, Worker
  <2>3. UNCHANGED <<cfg, running, ctxDone>>
    BY <1>1 DEF Land, supVars
  <2> HIDE DEF e
  <2>4. \A n \in Names : Lookup(snap', n) =
          IF n \in NamesOf(cfg) THEN Lookup(Put(snap, e), n) ELSE Hole
    BY <1>0, <2>1, LookupSync
  <2>5. \A n \in Names : Lookup(Put(snap, e), n) = IF n = w.name THEN e ELSE Lookup(snap, n)
    BY <1>0, <2>1, LookupPut
  <2>6. \A n \in Names \ NamesOf(cfg) : Lookup(snap, n) = Hole
    <3>1. \A n \in Names \ NamesOf(cfg) : \A i \in DOMAIN snap : snap[i].name # n
      BY <1>0, NamesAssumption DEF AlignedWith, NamesOf
    <3> QED
      BY <1>0, <3>1, LookupValue
  <2>7. CASE w.name \in NamesOf(cfg)
    <3>1. Table' = [Table EXCEPT ![w.name] = e]
      BY <2>2, <2>4, <2>5, <2>6, <2>7 DEF Table
    <3>2. Table'[w.name] = e
      BY <2>2, <3>1 DEF Table
    <3>3. Service!Publish(w.name)
      BY <2>1, <2>3, <2>7, <3>1, <3>2 DEF Service!Publish
    <3> QED
      BY <2>2, <3>3 DEF Service!Next
  <2>8. CASE w.name \notin NamesOf(cfg)
    <3>1. Table' = Table
      BY <2>4, <2>5, <2>6, <2>8 DEF Table
    <3> QED
      BY <2>3, <3>1 DEF Service!vars
  <2> QED
    BY <2>7, <2>8
<1>2. ASSUME NEW r \in Reloaders, NEW c \in Configs, Reload(r, c)
      PROVE  [Service!Next]_(Service!vars)
  <2>1. /\ c.nodes \in Seq(Names) /\ ValidConfig(c) /\ cfg' = c /\ snap' = Sync(c.nodes, snap)
        /\ UNCHANGED <<running, ctxDone>>
    BY <1>2, ConfigsAssumption DEF Reload, supVars
  <2>2. \A n \in Names : Lookup(snap', n) = IF n \in NamesOf(c) THEN Lookup(snap, n) ELSE Hole
    BY <1>0, <2>1, LookupSync
  <2>3. Table' = [n \in Names |-> IF n \in NamesOf(c) THEN Table[n] ELSE Hole]
    BY <2>2 DEF Table
  <2>4. Service!Accept(c)
    BY <2>1, <2>3 DEF Service!Accept
  <2> QED
    BY <2>4 DEF Service!Next
<1>3. CASE UNCHANGED <<cfg, snap>>
  <2>1. Table' = Table
    BY <1>3 DEF Table
  <2>2. CASE RunWorkers
    BY <1>3, <2>1, <2>2 DEF RunWorkers, Service!Next, Service!Activate
  <2>3. CASE Cancel
    BY <1>3, <2>1, <2>3 DEF Cancel, supVars, Service!Next, Service!Stop
  <2>4. CASE UNCHANGED <<running, ctxDone>>
    BY <1>3, <2>1, <2>4 DEF Service!vars
  <2>5. RunWorkers \/ Cancel \/ UNCHANGED <<running, ctxDone>>
            \/ (\E w \in workers, ok \in BOOLEAN : Land(w, ok))
            \/ (\E r \in Reloaders, c \in Configs : Reload(r, c))
    BY DEF Next, Supervisor, StopWorkers, SupervisorNotify, TakeReload, StopOnDone, Scrape, Begin,
           WorkerNotify, Tick, Exit, ReloadSignal, ReloadNotify, Subscribe, Receive, ReadSnapshot,
           Resume, Unsubscribe, Finished, vars, supVars
  <2> QED
    BY <1>1, <1>2, <2>2, <2>3, <2>4, <2>5
<1>4. UNCHANGED <<cfg, snap>>
            \/ (\E w \in workers, ok \in BOOLEAN : Land(w, ok))
            \/ (\E r \in Reloaders, c \in Configs : Reload(r, c))
  BY DEF Next, Supervisor, StopWorkers, RunWorkers, SupervisorNotify, TakeReload, StopOnDone,
         Scrape, Begin, WorkerNotify, Tick, Exit, ReloadSignal, ReloadNotify, Subscribe, Receive,
         ReadSnapshot, Resume, Unsubscribe, Cancel, Finished, vars, tableVars
<1> QED
  BY <1>1, <1>2, <1>3, <1>4

\* Readers see a map from the configured nodes to their last result, changed one
\* result or one accepted configuration at a time.
THEOREM StoreImplementsService == Spec => ImplementsService
<1>1. Spec => Service!Init /\ [][Service!Next]_(Service!vars)
  BY ServiceInit, ServiceNext, BaseInit, BaseNext, PTL DEF Spec
<1> QED
  BY <1>1 DEF ImplementsService, Service!Spec

-----------------------------------------------------------------------------
(* The store implements the feed of each subscriber.  The sets of those    *)
(* who have yet to notify stay finite, and a step adds or takes one of     *)
(* them: a worker that lands is not in the set already, as no other has    *)
(* its generation and name.                                                *)

Pending == {w \in workers : w.pc = "notify"}
Callers == {r \in Reloaders : reloader[r] # "idle"}
Owes    == IF sup = "notify" THEN 1 ELSE 0

WritersInv == IsFiniteSet(Pending) /\ IsFiniteSet(Callers)

LEMMA WritersSum ==
    /\ Writers = Cardinality(Pending) + Cardinality(Callers) + Owes
    /\ Writers' = Cardinality(Pending') + Cardinality(Callers') + Owes'
BY DEF Writers, Pending, Callers, Owes

LEMMA WritersInit == Init => WritersInv /\ \A s \in Subscribers : Feed(s)!Init
<1> SUFFICES ASSUME Init PROVE WritersInv /\ \A s \in Subscribers : Feed(s)!Init
  OBVIOUS
<1>1. Pending = {} /\ Callers = {} /\ Owes = 0
  BY DEF Init, Pending, Callers, Owes
<1>2. WritersInv /\ Writers = 0
  BY <1>1, WritersSum, FS_EmptySet DEF WritersInv
<1> QED
  BY <1>2 DEF Init, Feed!Init

\* One writer more, one writer less, or the same number.
LEMMA FeedStep ==
    ASSUME WritersInv, WritersInv', NEW s \in Subscribers,
           \/ Writers' = Writers + 1 /\ UNCHANGED <<subs, ch>>
           \/ Writers' = Writers - 1 /\ Notify /\ UNCHANGED subs
           \/ Writers' = Writers /\ UNCHANGED <<subs, ch>>
    PROVE  [Feed(s)!Next]_(Feed(s)!vars)
<1>1. Writers \in Nat /\ Writers' \in Nat
  <2>1. /\ Cardinality(Pending) \in Nat /\ Cardinality(Callers) \in Nat
        /\ Cardinality(Pending') \in Nat /\ Cardinality(Callers') \in Nat
    BY FS_CardinalityType DEF WritersInv
  <2>2. Owes \in Nat /\ Owes' \in Nat
    BY DEF Owes
  <2> QED
    BY <2>1, <2>2, WritersSum
<1>2. CASE Writers' = Writers + 1 /\ UNCHANGED <<subs, ch>>
  BY <1>2 DEF Feed!Next, Feed!Change
<1>3. CASE Writers' = Writers - 1 /\ Notify /\ UNCHANGED subs
  <2>1. Writers > 0
    BY <1>1, <1>3
  <2>2. ch'[s] = (ch[s] \/ s \in subs)
    BY <1>3 DEF Notify
  <2> QED
    BY <1>3, <2>1, <2>2 DEF Feed!Next, Feed!Notify
<1>4. CASE Writers' = Writers /\ UNCHANGED <<subs, ch>>
  BY <1>4 DEF Feed!vars
<1> QED
  BY <1>2, <1>3, <1>4

\* A set of writers gains or loses one.
LEMMA OneMore ==
    ASSUME NEW S, IsFiniteSet(S), NEW x, x \notin S
    PROVE  /\ IsFiniteSet(S \cup {x}) /\ Cardinality(S \cup {x}) = Cardinality(S) + 1
           /\ Cardinality(S) \in Nat
BY FS_AddElement, FS_CardinalityType

LEMMA OneLess ==
    ASSUME NEW S, IsFiniteSet(S), NEW x \in S
    PROVE  /\ IsFiniteSet(S \ {x}) /\ Cardinality(S \ {x}) = Cardinality(S) - 1
           /\ Cardinality(S) \in Nat
BY FS_RemoveElement, FS_CardinalityType

LEMMA WritersNext ==
    TypeOK /\ GenerationsInv /\ WritersInv /\ [Next]_vars =>
        WritersInv' /\ \A s \in Subscribers : [Feed(s)!Next]_(Feed(s)!vars)
<1> DEFINE Step1 == WritersInv' /\ \A s \in Subscribers : [Feed(s)!Next]_(Feed(s)!vars)
<1> SUFFICES ASSUME TypeOK, GenerationsInv, WritersInv, [Next]_vars PROVE Step1
  OBVIOUS
<1>0. /\ Cardinality(Pending) \in Nat /\ Cardinality(Callers) \in Nat /\ Owes \in Nat
      /\ Writers' = Cardinality(Pending') + Cardinality(Callers') + Owes'
  BY WritersSum, FS_CardinalityType DEF WritersInv, Owes
<1>1. CASE UNCHANGED <<Pending, Callers, Owes, subs, ch>>
  BY <1>0, <1>1, WritersSum, FeedStep DEF WritersInv
<1>2. ASSUME NEW w \in workers, NEW ok \in BOOLEAN, Land(w, ok) PROVE Step1
  <2> DEFINE v == [w EXCEPT !.pc = "notify", !.at = 0, !.doomed = FALSE]
  <2>1. /\ v.pc = "notify" /\ w.pc = "fetching" /\ v.gen = w.gen /\ v.name = w.name
        /\ workers' = (workers \ {w}) \cup {v}
        /\ UNCHANGED <<reloader, sup, subs, ch>>
    BY <1>2 DEF Land, TypeOK, Worker, Step, supVars
  <2> HIDE DEF v
  <2>2. v \notin Pending
    BY <2>1 DEF GenerationsInv, Pending
  <2>3. Pending' = Pending \cup {v} /\ Callers' = Callers /\ Owes' = Owes
    BY <2>1 DEF Pending, Callers, Owes
  <2>4. IsFiniteSet(Pending') /\ Cardinality(Pending') = Cardinality(Pending) + 1
    BY <2>2, <2>3, OneMore DEF WritersInv
  <2>5. WritersInv' /\ Writers' = Writers + 1
    BY <1>0, <2>3, <2>4, WritersSum DEF WritersInv
  <2> QED
    BY <2>1, <2>5, FeedStep
<1>3. ASSUME NEW w \in workers, WorkerNotify(w) PROVE Step1
  <2> DEFINE v == [w EXCEPT !.pc = "idle"]
  <2>1. /\ v.pc = "idle" /\ w.pc = "notify" /\ workers' = (workers \ {w}) \cup {v}
        /\ Notify /\ UNCHANGED <<reloader, sup, subs>>
    BY <1>3 DEF WorkerNotify, TypeOK, Worker, Step, supVars
  <2> HIDE DEF v
  <2>2. w \in Pending /\ Pending' = Pending \ {w} /\ Callers' = Callers /\ Owes' = Owes
    BY <2>1 DEF Pending, Callers, Owes
  <2>3. IsFiniteSet(Pending') /\ Cardinality(Pending') = Cardinality(Pending) - 1
    BY <2>2, OneLess DEF WritersInv
  <2>4. WritersInv' /\ Writers' = Writers - 1
    BY <1>0, <2>2, <2>3, WritersSum DEF WritersInv
  <2> QED
    BY <2>1, <2>4, FeedStep
<1>4. ASSUME NEW r \in Reloaders, NEW c \in Configs, Reload(r, c) PROVE Step1
  <2>1. /\ reloader[r] = "idle" /\ reloader' = [reloader EXCEPT ![r] = "signal"]
        /\ UNCHANGED <<workers, sup, subs, ch>>
    BY <1>4 DEF Reload, supVars
  <2>2. r \notin Callers /\ Callers' = Callers \cup {r} /\ Pending' = Pending /\ Owes' = Owes
    BY <2>1 DEF Pending, Callers, Owes, TypeOK
  <2>3. IsFiniteSet(Callers') /\ Cardinality(Callers') = Cardinality(Callers) + 1
    BY <2>2, OneMore DEF WritersInv
  <2>4. WritersInv' /\ Writers' = Writers + 1
    BY <1>0, <2>2, <2>3, WritersSum DEF WritersInv
  <2> QED
    BY <2>1, <2>4, FeedStep
<1>5. ASSUME NEW r \in Reloaders, ReloadNotify(r) PROVE Step1
  <2>1. /\ reloader[r] = "notify" /\ reloader' = [reloader EXCEPT ![r] = "idle"]
        /\ Notify /\ UNCHANGED <<workers, sup, subs>>
    BY <1>5 DEF ReloadNotify, supVars
  <2>2. r \in Callers /\ Callers' = Callers \ {r} /\ Pending' = Pending /\ Owes' = Owes
    BY <2>1 DEF Pending, Callers, Owes, TypeOK
  <2>3. IsFiniteSet(Callers') /\ Cardinality(Callers') = Cardinality(Callers) - 1
    BY <2>2, OneLess DEF WritersInv
  <2>4. WritersInv' /\ Writers' = Writers - 1
    BY <1>0, <2>2, <2>3, WritersSum DEF WritersInv
  <2> QED
    BY <2>1, <2>4, FeedStep
<1>6. CASE RunWorkers
  <2>1. sup = "copy" /\ sup' \in {"select", "notify"} /\ UNCHANGED <<reloader, subs, ch>>
    BY <1>6 DEF RunWorkers, subVars
  <2>2. \A w \in workers' : w \in workers \/ w.pc = "start"
    BY <1>6 DEF RunWorkers, NewWorker
  <2>3. workers \subseteq workers'
    BY <1>6 DEF RunWorkers
  <2>4. Pending' = Pending
    BY <2>2, <2>3 DEF Pending
  <2>5. Callers' = Callers /\ Owes = 0 /\ Owes' \in {0, 1}
    BY <2>1 DEF Callers, Owes
  <2>6. WritersInv' /\ (Writers' = Writers \/ Writers' = Writers + 1)
    BY <1>0, <2>4, <2>5, WritersSum DEF WritersInv
  <2> QED
    BY <2>1, <2>6, FeedStep
<1>7. CASE SupervisorNotify
  <2>1. sup = "notify" /\ sup' = "select" /\ Notify /\ UNCHANGED <<workers, reloader, subs>>
    BY <1>7 DEF SupervisorNotify
  <2>2. Pending' = Pending /\ Callers' = Callers /\ Owes = 1 /\ Owes' = 0
    BY <2>1 DEF Pending, Callers, Owes
  <2>3. WritersInv' /\ Writers' = Writers - 1
    BY <1>0, <2>2, WritersSum DEF WritersInv
  <2> QED
    BY <2>1, <2>3, FeedStep
<1>8. ASSUME NEW s \in Subscribers, Subscribe(s) \/ Receive(s) \/ Unsubscribe(s) PROVE Step1
  <2>1. UNCHANGED <<workers, reloader, sup>>
    BY <1>8 DEF Subscribe, Receive, Unsubscribe, supVars
  <2>2. Pending' = Pending /\ Callers' = Callers /\ Owes' = Owes
    BY <2>1 DEF Pending, Callers, Owes
  <2>3. WritersInv' /\ Writers' = Writers
    BY <1>0, <2>2, WritersSum DEF WritersInv
  <2>4. ASSUME NEW t \in Subscribers, t # s PROVE (t \in subs' <=> t \in subs) /\ ch'[t] = ch[t]
    BY <1>8, <2>4 DEF Subscribe, Receive, Unsubscribe, TypeOK
  <2>5. ASSUME NEW t \in Subscribers, t # s PROVE [Feed(t)!Next]_(Feed(t)!vars)
    BY <2>3, <2>4, <2>5 DEF Feed!vars
  <2>6. ASSUME Subscribe(s) PROVE Feed(s)!Subscribe
    <3>1. s \notin subs /\ s \in subs' /\ ch'[s] = ch[s] /\ ch[s] = FALSE
      BY <2>6 DEF Subscribe, TypeOK
    <3> QED
      BY <2>3, <3>1 DEF Feed!Subscribe
  <2>7. ASSUME Receive(s) PROVE Feed(s)!Receive
    <3>1. ch[s] /\ ch'[s] = FALSE /\ subs' = subs
      BY <2>7 DEF Receive, TypeOK
    <3> QED
      BY <2>3, <3>1 DEF Feed!Receive
  <2>8. ASSUME Unsubscribe(s) PROVE Feed(s)!Unsubscribe
    <3>1. s \notin subs' /\ ch'[s] = FALSE
      BY <2>8 DEF Unsubscribe, TypeOK
    <3> QED
      BY <2>3, <3>1 DEF Feed!Unsubscribe
  <2>9. [Feed(s)!Next]_(Feed(s)!vars)
    BY <1>8, <2>6, <2>7, <2>8 DEF Feed!Next
  <2> QED
    BY <2>3, <2>5, <2>9
<1>9. \/ UNCHANGED <<Pending, Callers, Owes, subs, ch>>
      \/ \E w \in workers : WorkerNotify(w) \/ \E ok \in BOOLEAN : Land(w, ok)
      \/ \E r \in Reloaders : ReloadNotify(r) \/ \E c \in Configs : Reload(r, c)
      \/ RunWorkers \/ SupervisorNotify
      \/ \E s \in Subscribers : Subscribe(s) \/ Receive(s) \/ Unsubscribe(s)
  <2>1. CASE StopWorkers \/ TakeReload \/ StopOnDone
    BY <2>1 DEF StopWorkers, TakeReload, StopOnDone, Pending, Callers, Owes, subVars
  <2>2. ASSUME NEW w \in workers, Begin(w) \/ Tick(w) \/ Exit(w)
        PROVE  UNCHANGED <<Pending, Callers, Owes, subs, ch>>
    <3>1. w \in Worker
      BY DEF TypeOK
    <3>2. w.pc # "notify" /\ UNCHANGED <<reloader, sup, subs, ch>>
      BY <2>2 DEF Begin, Tick, Exit, supVars, subVars
    <3>3. \A d : [w EXCEPT !.pc = "fetching", !.at = now + 1, !.doomed = d].pc = "fetching"
      BY <3>1 DEF Worker
    <3>4. [w EXCEPT !.pc = "start"].pc = "start"
      BY <3>1 DEF Worker
    <3>5. Pending' = Pending
      BY <2>2, <3>2, <3>3, <3>4 DEF Begin, Tick, Exit, Step, Pending
    <3> QED
      BY <3>2, <3>5 DEF Callers, Owes
  <2>3. ASSUME NEW r \in Reloaders, ReloadSignal(r)
        PROVE  UNCHANGED <<Pending, Callers, Owes, subs, ch>>
    <3>1. Callers' = Callers
      BY <2>3 DEF ReloadSignal, Callers, TypeOK
    <3> QED
      BY <2>3, <3>1 DEF ReloadSignal, Pending, Owes, supVars, subVars
  <2>4. ASSUME NEW s \in Subscribers, ReadSnapshot(s) \/ Resume(s)
        PROVE  UNCHANGED <<Pending, Callers, Owes, subs, ch>>
    BY <2>4 DEF ReadSnapshot, Resume, Pending, Callers, Owes, supVars
  <2>5. CASE Cancel \/ Finished \/ UNCHANGED vars
    BY <2>5 DEF Cancel, Finished, vars, Pending, Callers, Owes, supVars, subVars
  <2> QED
    BY <2>1, <2>2, <2>3, <2>4, <2>5 DEF Next, Supervisor, Scrape
<1> HIDE DEF Step1
<1> QED
  BY <1>1, <1>2, <1>3, <1>4, <1>5, <1>6, <1>7, <1>8, <1>9

\* Each subscriber meets a store that changes, notifies for each change and nothing else:
\* the promise that the exporters and the pages are modelled and proved against.
THEOREM StoreImplementsFeed == Spec => ImplementsFeed
<1> DEFINE FeedNext == \A s \in Subscribers : [Feed(s)!Next]_(Feed(s)!vars)
           FeedInit == \A s \in Subscribers : Feed(s)!Init
<1>1. Init => WritersInv /\ FeedInit
  BY WritersInit
<1>2. TypeOK /\ GenerationsInv /\ WritersInv /\ [Next]_vars => WritersInv' /\ FeedNext
  BY WritersNext
<1>3. ImplementsFeed <=> FeedInit /\ [][FeedNext]_vars
  BY DEF ImplementsFeed
<1> HIDE DEF FeedNext, FeedInit
<1> QED
  BY <1>1, <1>2, <1>3, GenerationsInit, GenerationsNext, TypeCorrect, PTL DEF Spec

=============================================================================
