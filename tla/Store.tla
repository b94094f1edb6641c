------------------------------- MODULE Store -------------------------------
(***************************************************************************)
(* The in-memory store of mon64 (internal/store/store.go): the goroutines  *)
(* that scrape the configured nodes, the supervisor that replaces them     *)
(* after a configuration reload, the callers of Reload and the subscribers *)
(* that are woken when the snapshot changes.                               *)
(*                                                                         *)
(* A step of the model is one critical section of s.mu or s.subsMu, one    *)
(* channel operation, or the start of a scrape.  Everything a node or a    *)
(* configuration carries besides the node names (endpoint, intervals,      *)
(* badges, exports) is the opaque field "rest" of a configuration.         *)
(***************************************************************************)
EXTENDS Integers, Sequences, FiniteSets

CONSTANTS
    Names,          \* names of nodes
    NoName,         \* what stands in the snapshot for a node without a result
    Configs,        \* the configurations that Reload may be called with
    InitConfig,     \* the configuration mon64 starts with
    Reloaders,      \* goroutines that call Reload (watcher, SIGHUP)
    Subscribers,    \* readers that may Subscribe (SSE handlers, exporters)
    Dummy,          \* TRUE: -dummy, states are generated, nothing is fetched
    MaxReloads,     \* bound: accepted calls of Reload
    MaxStamp        \* bound: tickers fire only before this many scrapes began

\* c.validate, as far as the store depends on it: nodes there are, with distinct names.
ValidConfig(c) ==
    /\ c.nodes # << >>
    /\ \A i, j \in DOMAIN c.nodes : c.nodes[i] = c.nodes[j] => i = j

NamesOf(c) == {c.nodes[i] : i \in DOMAIN c.nodes}

ASSUME NamesAssumption == NoName \notin Names
ASSUME ConfigsAssumption ==
    /\ \A c \in Configs : c.nodes \in Seq(Names)
    /\ InitConfig \in Configs
    /\ ValidConfig(InitConfig)
ASSUME BoundsAssumption ==
    /\ Dummy \in BOOLEAN
    /\ MaxReloads \in Nat
    /\ MaxStamp \in Nat

\* Start runs the workers once, and once more for each reload at most.
Gens == 1 .. MaxReloads + 1

VARIABLES
    cfg,              \* s.nodes, s.badges and s.interval, assigned together
    snap,             \* s.snap.Nodes, one place for each configured node
    snapAt,           \* s.snap.CollectedAt
    scrapesTotal, lastUnreachable, lastScrapeAt,    \* the fields of ScrapeStats
    now,              \* logical clock: number of scrapes begun
    sup,              \* where the goroutine of Start stands
    gen,              \* number of the last workerCtx created
    live,             \* the contexts created by runWorkers that are not cancelled
    workerCancel,     \* s.workerCancel: the context it cancels, or 0 for nil
    running,          \* configuration the workers of gen were started from
    workers,          \* the goroutines of nodeLoop
    reloadCh,         \* TRUE iff the buffered channel s.reloadCh holds its element
    reloader,         \* where each caller of Reload stands
    reloads,          \* number of accepted reloads
    subs, ch,         \* s.subs, and whether each subscriber's channel holds its element
    reader,           \* where each subscriber stands
    stale,            \* subscribers whose last read is older than the last change
    ctxDone           \* the context of main is cancelled

tableVars == <<cfg, snap>>
statVars  == <<snapAt, scrapesTotal, lastUnreachable, lastScrapeAt>>
supVars   == <<sup, gen, live, workerCancel, running>>
subVars   == <<subs, ch, reader, stale>>
vars == <<tableVars, statVars, supVars, subVars, now, workers,
          reloadCh, reloader, reloads, ctxDone>>

-----------------------------------------------------------------------------
(* The snapshot.  An entry is the result of one scrape: the node's name,   *)
(* when the scrape began, whether the node was reachable, and (for the     *)
(* properties) the generation of the worker.  Hole marks a configured      *)
(* node that has no result; the code's slice is this sequence without its  *)
(* holes, in the same order.                                               *)

Entries == [name : Names, at : Nat, ok : BOOLEAN, gen : Nat]
Hole    == [name |-> NoName, at |-> 0, ok |-> TRUE, gen |-> 0]

Hits(s, n)  == {i \in DOMAIN s : s[i].name = n}
First(I)    == CHOOSE i \in I : \A j \in I : i <= j
Last(I)     == CHOOSE i \in I : \A j \in I : i >= j

\* syncSnapshotNodesLocked: the results by name, the last one winning, in config order.
Sync(nodes, s) ==
    [i \in DOMAIN nodes |->
        IF Hits(s, nodes[i]) = {} THEN Hole ELSE s[Last(Hits(s, nodes[i]))]]

\* Mutant of Put: a node without a result so far is not appended.
PutReplaceOnly(s, e) ==
    IF Hits(s, e.name) = {} THEN s ELSE [s EXCEPT ![First(Hits(s, e.name))] = e]

\* The loop of applyNodeStateLocked: replace the first entry of that name, or append.
Put(s, e) ==
    IF Hits(s, e.name) = {} THEN Append(s, e)
                            ELSE [s EXCEPT ![First(Hits(s, e.name))] = e]

\* Mutant of Applied: without the trailing sync.
AppliedUnsynced(nodes, s, e) == Put(s, e)

\* applyNodeStateLocked: its trailing sync drops the result of a removed node.
Applied(nodes, s, e) == Sync(nodes, Put(s, e))

\* Mutant of Later: the time is overwritten by every scrape that lands.
LaterOverwritten(t, u) == u

\* s.snap.CollectedAt moves forward only.
Later(t, u) == IF u > t THEN u ELSE t

Unreachable(s) == Cardinality({i \in DOMAIN s : ~ s[i].ok})

-----------------------------------------------------------------------------
(* Goroutines of nodeLoop.  A worker is "start" before a scrape, has a     *)
(* scrape in flight in "fetching", is "notify" once its result is applied  *)
(* and "idle" in the select on ctx.Done and the ticker.                    *)

Worker == [gen : Nat, name : Names, pc : {"start", "fetching", "notify", "idle"},
           at : Nat, doomed : BOOLEAN]

NewWorker(g, n) == [gen |-> g, name |-> n, pc |-> "start", at |-> 0, doomed |-> FALSE]

\* w becomes v.
Step(w, v) == workers' = (workers \ {w}) \cup {v}

\* The context given to w is cancelled.
Retired(w) == ctxDone \/ w.gen \notin live

\* A scrape that began under a cancelled context cannot succeed; one cancelled on
\* its way may end either way, as one that is not.
Outcomes(w) == IF Dummy THEN {TRUE} ELSE IF w.doomed THEN {FALSE} ELSE BOOLEAN

\* Mutant of Notify: a channel without a buffer.
NotifyUnbuffered == ch' = [s \in Subscribers |-> ch[s] \/ (s \in subs /\ reader[s] = "select")]

\* notify: one element into each subscriber's channel, unless it holds one.
Notify == ch' = [s \in Subscribers |-> ch[s] \/ s \in subs]

\* The configuration or the snapshot changed: who subscribes has not seen it.
Outdate == stale' = subs

\* Mutant of CancelWorkers: the function is cleared and not called.
ForgetWorkers == live' = live /\ workerCancel' = 0

\* stopWorkers: s.workerCancel is called, if set, and cleared.
CancelWorkers == live' = live \ {workerCancel} /\ workerCancel' = 0

\* Mutant of SendReload: a channel without a buffer.
SendReloadUnbuffered == reloadCh' = (reloadCh \/ sup = "select")

\* Reload sends to reloadCh unless it is full.
SendReload == reloadCh' = TRUE

-----------------------------------------------------------------------------
Init ==
    /\ cfg = InitConfig /\ snap = [i \in DOMAIN InitConfig.nodes |-> Hole]
    /\ snapAt = 0 /\ scrapesTotal = 0 /\ lastUnreachable = 0 /\ lastScrapeAt = 0
    /\ now = 0
    /\ sup = "stop" /\ gen = 0 /\ live = {} /\ workerCancel = 0
    /\ running = InitConfig
    /\ workers = {}
    /\ reloadCh = FALSE
    /\ reloader = [r \in Reloaders |-> "idle"] /\ reloads = 0
    /\ subs = {} /\ ch = [s \in Subscribers |-> FALSE] 
    /\ reader = [s \in Subscribers |-> "select"] /\ stale = {}
    /\ ctxDone = FALSE

-----------------------------------------------------------------------------
(* Start and runWorkers.                                                   *)

\* The stopWorkers at the head of runWorkers.
StopWorkers ==
    /\ sup = "stop"
    /\ sup' = "copy" /\ CancelWorkers
    /\ UNCHANGED <<tableVars, statVars, subVars, now, gen, running, workers,
                   reloadCh, reloader, reloads, ctxDone>>

\* runWorkers after it: a new context, a copy of the nodes, a goroutine for each.
\* The first call, before the loop of Start, is not followed by a notify.
RunWorkers ==
    /\ sup = "copy"
    /\ gen' = gen + 1 /\ live' = live \cup {gen + 1} /\ workerCancel' = gen + 1
    /\ running' = cfg
    /\ workers' = workers \cup {NewWorker(gen + 1, n) : n \in NamesOf(cfg)}
    /\ sup' = IF gen = 0 THEN "select" ELSE "notify"
    /\ UNCHANGED <<tableVars, statVars, subVars, now, reloadCh, reloader, reloads, ctxDone>>

\* Mutant of SupervisorNotify: signals that came meanwhile are drained as if served.
SupervisorNotifyDrains ==
    /\ sup = "notify" /\ sup' = "select"
    /\ Notify
    /\ reloadCh' = FALSE
    /\ UNCHANGED <<tableVars, statVars, now, gen, live, workerCancel, running, workers,
                   reloader, reloads, subs, reader, stale, ctxDone>>

SupervisorNotify ==
    /\ sup = "notify" /\ sup' = "select"
    /\ Notify
    /\ UNCHANGED <<tableVars, statVars, now, gen, live, workerCancel, running, workers, reloadCh,
                   reloader, reloads, subs, reader, stale, ctxDone>>

TakeReload ==
    /\ sup = "select" /\ reloadCh
    /\ reloadCh' = FALSE /\ sup' = "stop"
    /\ UNCHANGED <<tableVars, statVars, subVars, now, gen, live, workerCancel, running, workers,
                   reloader, reloads, ctxDone>>

StopOnDone ==
    /\ sup = "select" /\ ctxDone
    /\ CancelWorkers /\ sup' = "exit"
    /\ UNCHANGED <<tableVars, statVars, subVars, now, gen, running, workers, reloadCh,
                   reloader, reloads, ctxDone>>

-----------------------------------------------------------------------------
(* nodeLoop and collectNode.                                               *)

\* Mutant of Begin: the scrape gets a goroutine of its own and the loop goes on.
BeginDetached(w) ==
    /\ w.pc = "start"
    /\ now' = now + 1
    /\ workers' = (workers \ {w}) \cup
          {[w EXCEPT !.pc = "idle"],
           [w EXCEPT !.pc = "fetching", !.at = now + 1, !.doomed = ~ Dummy /\ Retired(w)]}
    /\ UNCHANGED <<tableVars, statVars, supVars, subVars, reloadCh, reloader, reloads,
                   ctxDone>>

\* collectNodeState notes the time and sends the request.
Begin(w) ==
    /\ w.pc = "start"
    /\ now' = now + 1
    /\ Step(w, [w EXCEPT !.pc = "fetching", !.at = now + 1, !.doomed = ~ Dummy /\ Retired(w)])
    /\ UNCHANGED <<tableVars, statVars, supVars, subVars, reloadCh, reloader, reloads,
                   ctxDone>>

\* The critical section of collectNode: the result is applied, whoever fetched it.
Land(w, ok) ==
    /\ w.pc = "fetching" /\ ok \in Outcomes(w)
    /\ LET e == [name |-> w.name, at |-> w.at, ok |-> ok, gen |-> w.gen]
       IN  snap' = Applied(cfg.nodes, snap, e)
    /\ snapAt' = Later(snapAt, w.at)
    /\ scrapesTotal' = scrapesTotal + 1
    /\ lastScrapeAt' = w.at
    /\ lastUnreachable' = Unreachable(snap')
    /\ Step(w, [w EXCEPT !.pc = "notify", !.at = 0, !.doomed = FALSE])
    /\ Outdate
    /\ UNCHANGED <<cfg, supVars, now, reloadCh, reloader, reloads, subs, ch, reader, ctxDone>>

WorkerNotify(w) ==
    /\ w.pc = "notify"
    /\ Step(w, [w EXCEPT !.pc = "idle"])
    /\ Notify
    /\ UNCHANGED <<tableVars, statVars, supVars, now, reloadCh, reloader, reloads,
                   subs, reader, stale, ctxDone>>

\* The ticker is chosen; a retired worker may still choose it.
Tick(w) ==
    /\ w.pc = "idle" /\ now < MaxStamp
    /\ Step(w, [w EXCEPT !.pc = "start"])
    /\ UNCHANGED <<tableVars, statVars, supVars, subVars, now, reloadCh, reloader, reloads,
                   ctxDone>>

Exit(w) ==
    /\ w.pc = "idle" /\ Retired(w)
    /\ workers' = workers \ {w}
    /\ UNCHANGED <<tableVars, statVars, supVars, subVars, now, reloadCh, reloader, reloads,
                   ctxDone>>

-----------------------------------------------------------------------------
(* Reload.  An invalid configuration is returned as an error and changes   *)
(* nothing.                                                                *)

Reload(r, c) ==
    /\ reloader[r] = "idle" /\ reloads < MaxReloads
    /\ ValidConfig(c)
    /\ cfg' = c /\ snap' = Sync(c.nodes, snap)
    /\ reloads' = reloads + 1
    /\ reloader' = [reloader EXCEPT ![r] = "signal"]
    /\ Outdate
    /\ UNCHANGED <<statVars, supVars, now, workers, reloadCh, subs, ch, reader, ctxDone>>

ReloadSignal(r) ==
    /\ reloader[r] = "signal"
    /\ SendReload
    /\ reloader' = [reloader EXCEPT ![r] = "notify"]
    /\ UNCHANGED <<tableVars, statVars, supVars, subVars, now, workers, reloads, ctxDone>>

ReloadNotify(r) ==
    /\ reloader[r] = "notify"
    /\ Notify
    /\ reloader' = [reloader EXCEPT ![r] = "idle"]
    /\ UNCHANGED <<tableVars, statVars, supVars, now, workers, reloadCh, reloads,
                   subs, reader, stale, ctxDone>>

-----------------------------------------------------------------------------
(* Subscribers: an SSE handler or an exporter receives from its channel,   *)
(* reads the snapshot, and is busy sending it before it selects again.     *)

Subscribe(s) ==
    /\ s \notin subs
    /\ subs' = subs \cup {s}
    /\ UNCHANGED <<tableVars, statVars, supVars, now, workers, reloadCh, reloader, reloads,
                   ch, reader, stale, ctxDone>>

Receive(s) ==
    /\ ch[s] /\ reader[s] = "select"
    /\ ch' = [ch EXCEPT ![s] = FALSE] /\ reader' = [reader EXCEPT ![s] = "reading"]
    /\ UNCHANGED <<tableVars, statVars, supVars, now, workers, reloadCh, reloader, reloads,
                   subs, stale, ctxDone>>

ReadSnapshot(s) ==
    /\ reader[s] = "reading" /\ reader' = [reader EXCEPT ![s] = "busy"]
    /\ stale' = stale \ {s}
    /\ UNCHANGED <<tableVars, statVars, supVars, now, workers, reloadCh, reloader, reloads,
                   subs, ch, ctxDone>>

Resume(s) ==
    /\ reader[s] = "busy" /\ reader' = [reader EXCEPT ![s] = "select"]
    /\ UNCHANGED <<tableVars, statVars, supVars, now, workers, reloadCh, reloader, reloads,
                   subs, ch, stale, ctxDone>>

Unsubscribe(s) ==
    /\ s \in subs /\ reader[s] = "select"
    /\ subs' = subs \ {s} /\ stale' = stale \ {s}
    /\ ch' = [ch EXCEPT ![s] = FALSE]
    /\ UNCHANGED <<tableVars, statVars, supVars, now, workers, reloadCh, reloader, reloads,
                   reader, ctxDone>>

\* main's cancel(), on SIGINT or SIGTERM.
Cancel ==
    /\ ~ ctxDone /\ ctxDone' = TRUE
    /\ UNCHANGED <<tableVars, statVars, supVars, subVars, now, workers, reloadCh, reloader,
                   reloads>>

-----------------------------------------------------------------------------
\* Nothing is left to run: the supervisor, its workers and the callers have returned.
Finished ==
    /\ sup = "exit" /\ workers = {} /\ \A r \in Reloaders : reloader[r] = "idle"
    /\ UNCHANGED vars

Supervisor == StopWorkers \/ RunWorkers \/ SupervisorNotify \/ TakeReload \/ StopOnDone

Scrape(w) == Begin(w) \/ (\E ok \in BOOLEAN : Land(w, ok)) \/ WorkerNotify(w)

Next ==
    \/ Supervisor
    \/ \E w \in workers : Scrape(w) \/ Tick(w) \/ Exit(w)
    \/ \E r \in Reloaders : (\E c \in Configs : Reload(r, c)) \/ ReloadSignal(r) \/ ReloadNotify(r)
    \/ \E s \in Subscribers : Subscribe(s) \/ Receive(s) \/ ReadSnapshot(s) \/ Resume(s)
                             \/ Unsubscribe(s)
    \/ Cancel
    \/ Finished

Spec == Init /\ [][Next]_vars

(* Fairness.  The Go scheduler runs every goroutine that can run, and an   *)
(* http.Client has a timeout, so a scrape ends.  A select chooses at       *)
(* random among its ready cases: a worker whose context stays cancelled    *)
(* cannot choose its ticker forever, nor Start its reload channel.         *)
WorkerFairness(g, n) ==
    /\ WF_vars(\E w \in workers : w.gen = g /\ w.name = n /\ Scrape(w))
    /\ SF_vars(\E w \in workers : w.gen = g /\ w.name = n /\ Exit(w))

Fairness ==
    /\ WF_vars(StopWorkers \/ RunWorkers \/ SupervisorNotify)
    /\ SF_vars(TakeReload) /\ SF_vars(StopOnDone)
    /\ \A g \in Gens, n \in Names : WorkerFairness(g, n)
    /\ \A r \in Reloaders : WF_vars(ReloadSignal(r) \/ ReloadNotify(r))
    /\ \A s \in Subscribers : WF_vars(Receive(s) \/ ReadSnapshot(s) \/ Resume(s))

FairSpec == Spec /\ Fairness

-----------------------------------------------------------------------------
(* Invariants.                                                             *)

TypeOK ==
    /\ cfg \in Configs /\ running \in Configs
    /\ snap \in Seq(Entries \cup {Hole})
    /\ snapAt \in Nat /\ scrapesTotal \in Nat /\ lastUnreachable \in Nat /\ lastScrapeAt \in Nat
    /\ now \in Nat
    /\ sup \in {"stop", "copy", "notify", "select", "exit"}
    /\ gen \in Nat /\ live \subseteq Nat /\ workerCancel \in Nat
    /\ workers \subseteq Worker
    /\ reloadCh \in BOOLEAN
    /\ reloader \in [Reloaders -> {"idle", "signal", "notify"}] /\ reloads \in Nat
    /\ subs \subseteq Subscribers /\ ch \in [Subscribers -> BOOLEAN]
    /\ \A s \in Subscribers : ch[s] => s \in subs
    /\ reader \in [Subscribers -> {"select", "reading", "busy"}] /\ stale \subseteq subs
    /\ ctxDone \in BOOLEAN

AlignedWith(s, nodes) ==
    /\ DOMAIN s = DOMAIN nodes
    /\ \A i \in DOMAIN s : s[i].name \in {NoName, nodes[i]}
    /\ \A i, j \in DOMAIN s : s[i].name = s[j].name /\ i # j => s[i] = Hole

\* The snapshot lists configured nodes only, in the order of the configuration and
\* each once, although workers of removed nodes still apply results and workers
\* finish in any order.
SnapshotAligned == AlignedWith(snap, cfg.nodes)

\* A reload that hits a full reloadCh is not lost: while the workers run from
\* another configuration than the store holds, the supervisor has a signal to come
\* or is about to copy the configuration.
NoLostReload ==
    running # cfg =>
        \/ reloadCh
        \/ \E r \in Reloaders : reloader[r] = "signal"
        \/ sup \in {"stop", "copy"}

\* A change is not lost on a subscriber whose channel is full or that is between
\* receiving and reading: it holds an element, is about to read, or someone who
\* changed the store has yet to notify.
NoLostWakeup ==
    \A s \in stale :
        \/ ch[s]
        \/ reader[s] = "reading"
        \/ \E w \in workers : w.pc = "notify"
        \/ \E r \in Reloaders : reloader[r] \in {"signal", "notify"}

\* The metrics agree with the snapshot: every scrape begun is counted or in flight,
\* and collected_at is never older than a node's result or the last scrape.
StatsConsistent ==
    /\ scrapesTotal + Cardinality({w \in workers : w.pc = "fetching"}) = now
    /\ lastScrapeAt <= snapAt /\ snapAt <= now
    /\ \A i \in DOMAIN snap : snap[i].at <= snapAt

\* Uncancelled goroutines that scrape one node do not multiply over reloads, so a
\* node is not scraped more often than configured.
OneLiveWorkerPerNode ==
    \A w, v \in workers :
        ~ Retired(w) /\ ~ Retired(v) /\ w.name = v.name => w = v

-----------------------------------------------------------------------------
(* Action properties.                                                      *)

NoRegressStep ==
    \A i \in DOMAIN snap, j \in DOMAIN snap' :
        /\ snap[i].name # NoName
        /\ snap'[j].name = snap[i].name
        /\ snap'[j].gen = snap[i].gen
        => snap'[j].at >= snap[i].at

\* As long as results of one generation of workers follow each other, a node's
\* result is never replaced by one that was collected earlier.
NoRegressWithinGeneration == [][NoRegressStep]_vars

-----------------------------------------------------------------------------
(* Liveness, under FairSpec.                                               *)

\* Unless mon64 is stopped or the node is removed, a configured node gets a result.
EveryNodeAppears ==
    \A n \in Names :
        n \in NamesOf(cfg) ~> (Hits(snap, n) # {} \/ n \notin NamesOf(cfg) \/ ctxDone)

\* A subscriber sees every change in the end.
EveryChangeIsSeen == \A s \in Subscribers : s \in stale ~> s \notin stale

\* The goroutines of a replaced generation end, and all of them when mon64 stops.
RetiredWorkersEnd ==
    /\ \A g \in Gens : (gen > g) ~> (\A w \in workers : w.gen # g)
    /\ ctxDone ~> (sup = "exit" /\ workers = {})

-----------------------------------------------------------------------------
(* What a subscriber is promised (module StoreFeed).  A goroutine that     *)
(* changed the store is a writer until it has notified; so is Start after  *)
(* it ran the workers anew, although that changes nothing.                  *)

Writers ==
    Cardinality({w \in workers : w.pc = "notify"})
        + Cardinality({r \in Reloaders : reloader[r] # "idle"})
        + IF sup = "notify" THEN 1 ELSE 0

Feed(s) == INSTANCE StoreFeed WITH
    writers <- Writers, subscribed <- s \in subs, ch <- ch[s]

\* Changes, notifications and receptions are all that a subscriber meets: none of the
\* goroutines notifies without a change before it, or takes an element from a channel.
ImplementsFeed ==
    /\ \A s \in Subscribers : Feed(s)!Init
    /\ [][\A s \in Subscribers : [Feed(s)!Next]_(Feed(s)!vars)]_vars

-----------------------------------------------------------------------------
(* What readers of the store are promised (module SnapshotService).        *)

\* NodeByName: the first result of that name.
Lookup(s, n) == IF Hits(s, n) = {} THEN Hole ELSE s[First(Hits(s, n))]

Table == [n \in Names |-> Lookup(snap, n)]

Service == INSTANCE SnapshotService WITH
    desired <- cfg, active <- running, stopped <- ctxDone, table <- Table

\* Every step of the goroutines is a step of the service or changes nothing a reader
\* sees: the slices behave as a map from the configured names to their last result.
ImplementsService == Service!Spec

\* Unless mon64 is stopped, an accepted configuration comes to be the one the
\* workers run from, also if the next one is accepted while the supervisor restarts
\* the workers for the one before or has not yet taken its signal.
ReloadTakesEffect == Service!DesiredBecomesActive

=============================================================================
