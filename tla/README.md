# Verification of mon64

mon64 scrapes the metrics of a handful of machines, keeps their last state in
memory, and shows it: on a dashboard, as JSON and YAML, as PNG badges, as
Prometheus gauges, and on LED panels (Pixoo64, makit64).  This directory holds
TLA+ modules of its parts, configurations for TLC, and proofs for TLAPS.  Paths
below are those of the repository.

## The system

| Component | State it keeps | Operations | Talks to |
|---|---|---|---|
| store (`internal/store`) | nodes, badges, interval; the snapshot; scrape statistics; subscribers; `reloadCh`; `workerCancel` | `Start`, `runWorkers`, `nodeLoop`, `collectNode`, `Reload`, `Subscribe`, `notify`, `Snapshot` | engine (calls), everyone who reads or subscribes |
| scrape engine (`internal/collector/engine.go`, `scraper.go`) | the HTTP client, replaced on reload | `CollectOne`, `Fetch` | the nodes (HTTP), the collectors |
| collectors (`nodeexporter.go`, `nvmonitor.go`, `parse.go`) | the counters of each node's last scrape | `Collect` | called by workers of all generations |
| configuration (`internal/config/config.go`) | none; `validate` rewrites addresses and ports in place | `Load`, `Validate`, `Normalize...` | main, `Store.Reload`, the exporters, the servers that listen |
| hot reload (`internal/config/watcher.go`, `cmd/mon64/main.go`) | one debounce timer, one goroutine for each event | `Watch`, `reload`, SIGHUP | file system, store |
| Pixoo64 exporter (`internal/export/pixoo`) | badge names of the start, debounce timer | `Run`, `send` | store (subscription, reads), panel (HTTP) |
| makit64 exporter (`internal/export/makit`) | exports of the start, index on show, connection, timer | `New`, `Run`, `send` | store, panel (CoAP), mDNS |
| Prometheus exporter (`internal/export/prometheus`) | one server for each entry | `Run`, `WritePrometheus` | store (reads) |
| HTTP server (`internal/server`) | none but the metrics registry | handlers, SSE | store |
| dashboard (`web/static/dashboard.js`) | the document | `refresh` on each event | HTTP server |
| mDNS (`internal/mdns`) | none | `LookupA` | LAN |
| badges (`internal/badge`) | fonts | `BadgeImage`, `SelectBadgeNodes` | called by server and exporters |

What is hard here is concurrency.  A reload starts a new generation of workers
without waiting for the old one; every notification goes through a channel of
one element and may be dropped; readers read the store in several critical
sections; two goroutines reload the configuration without a lock; panels fail
after they have executed a request.  For each component, what makes it correct:

* **store**: the snapshot is the configured nodes, in order, each once; no
  reload and no change is lost on a full channel; a node has one live worker;
  results do not step back; statistics agree with the snapshot.
* **hot reload**: every edit that can be noticed is read, the store ends with
  the file's content, goroutines end.
* **configuration**: what is accepted once can be used, means the same after it
  was normalised, and is accepted again.
* **collectors**: a number that is published is a percentage and is what the
  README defines; what is not known is missing.
* **exporters**: no change is missed, the panel settles on the present state
  and is consistent after partial failures, the loop ends.
* **mDNS**: a lookup ends, and does not flood the network with queries.
* **server and dashboard**: an open page misses no change it could hear of and
  settles on the newest snapshot; what it says of itself is true; the views of a
  snapshot agree with each other and invent no value.
* **process**: a signal ends it, whatever its clients do.

## Modules

| Module | Models | Runs | Proofs |
|---|---|---|---|
| `SnapshotService` | what readers of the store are promised (abstract) | | |
| `StoreFeed` | what a subscriber of the store is promised (abstract) | | |
| `Store` | `internal/store/store.go` | `MCStoreSafety`, `MCStoreLive` | `StoreProofs` |
| `HotReload` | `watcher.go`, `reload` and SIGHUP of `main.go` | `MCHotReload`, `MCHotReloadOverlap` | `HotReloadProofs` |
| `Debounce` (steps of `StoreFeed`) | the loop both panel exporters share | | |
| `PixooExporter` (extends `Debounce`) | `pixoo/exporter.go` | `MCPixoo` | `PixooProofs` |
| `MdnsLookup` | `mdns/lookup.go` | | |
| `MakitExporter` (extends `Debounce`, `MdnsLookup`) | `makit/exporter.go`, `makit/client.go` | `MCMakit` | `MakitProofs` |
| `Collectors` | `nodeexporter.go`, `nvmonitor.go`, `ClampPercent` | | `PublishProofs` |
| `Publish` (extends `Collectors`) | the views of a snapshot: `serialize.go`, `index.html` and the template functions of `server.go`, the rows of `dashboard.js`, `WritePrometheus`, what badges show | `MCCollectors` | `PublishProofs` |
| `CpuHistory` | `cpuUsage` of `nodeexporter.go` over reboots, reloads and late scrapes | `MCCpuHistory` | `CpuHistoryProofs` |
| `ConfigRules` | `config.go`, who applies its rules again, and who listens | `MCConfig`, `MCConfigIpv6` | `ProcessProofs` |
| `Dashboard` (steps of `StoreFeed`) | an open page: `dashboard.js` and the handlers it talks to | `MCDashboard` | `DashboardProofs` |
| `Lifecycle` | the end of the process: `main.go`, the HTTP server, `prometheus/export.go` | `MCLifecycle` | `ProcessProofs` |

`MC*` modules hold the values of the constants of a run.  Definitions that are
marked "Mutant of D" are not used by any specification: each is a form that D
would have with a plausible bug, and putting it in D's place makes TLC violate
the property listed with it in `PROJECT.json`.

### Store

An action is one critical section of `s.mu` or `s.subsMu`, one channel
operation, or the start of a scrape.  A configuration is its sequence of node
names and an opaque rest.  The snapshot has one place for each configured node;
a node without a result is a hole (the code's slice is the sequence without its
holes).  `now` counts scrapes begun and stands for wall-clock time: it is what
`CollectedAt` is compared by.

| Code | Actions |
|---|---|
| `Start` | `TakeReload`, `StopOnDone`, `StopWorkers`, `RunWorkers`, `SupervisorNotify` |
| `nodeLoop`, `collectNode` | `Begin`, `Land`, `WorkerNotify`, `Tick`, `Exit` |
| `Reload` | `Reload` (under `s.mu`, with the sync of the snapshot), `ReloadSignal`, `ReloadNotify` |
| `Subscribe`, its readers | `Subscribe`, `Receive`, `ReadSnapshot`, `Resume`, `Unsubscribe` |
| `main` | `Cancel` |

`Land` is the whole critical section of `collectNode`: replace or append, move
`CollectedAt`, sync with the configuration, update the statistics.  A worker
whose context was cancelled before its request fails; one that is cancelled on
its way may end either way, so its result lands too.  The loop that
`Unsubscribe` has left is not modelled further; a subscriber may come again.

*Refinements.*  `SnapshotService` has a desired and an active configuration and a
table from names to last results.  `Store` implements it with `desired <- cfg`,
`active <- running` (the configuration the workers were started from) and the
table that `NodeByName` shows.  `ReloadTakesEffect` is the liveness property of
the abstract module under that mapping.

`StoreFeed` is the store as one subscriber sees it: a number of goroutines that
have changed the store and have yet to notify, and a subscription whose channel
is empty or not.  `Store` implements it for each subscriber (`ImplementsFeed`),
with `writers <- Writers`: the workers that have landed, the calls of `Reload`
between their critical section and their `notify`, and `Start` after a restart
of the workers.  `Debounce` and `Dashboard` take the steps of the store and of
the channel from `StoreFeed`, so what is shown of exporters and of the page rests
on what is proved of the store.  They add bounds (`MaxWriters`), and `Dashboard`
the restart of mon64, which ends all its goroutines.

### HotReload

A content of the file is a version number, which may be `Invalid`; the file is
whole, torn or missing.  The watcher, the goroutines of `trigger`, the timer
with a tick that is not received (which `Reset` discards, as timers do since Go
1.23; `go.mod` asks for a later one), the SIGHUP channel of one element and the
two steps of `reload` (load, apply) are separate actions.  What the store does
with an accepted configuration is module `Store`.

The model begins when `main` has loaded the file.  The watcher is then still
`"starting"`: an edit before `watcher.Add` (`WatchStarts`) gives no event, nor
does one after `Watch` has returned with an error (`WatchFails`), which `main`
logs and goes on.  Such an edit is read if the next event or SIGHUP leads to a
reload, and otherwise not at all; `noticed` says whether the present content was
written while the directory was watched.  `Load` fails for `Invalid` contents,
and `Apply` for `Refused` ones, which `Load` accepts and `st.Reload` does not
(`ConfigRules` has some): the store then keeps what it holds.  A torn content is
taken to be one that `Load` rejects.


### Debounce, PixooExporter, MakitExporter

The exporters see the store from outside: it changes, and later notifies.  Of
what they read only its age is kept: `snapOld` and `badgeOld` say that the store
has changed since `send` read it.  Time passes in ticks, `Delay` of which are
`updateDelay`.  Requests to a panel succeed or fail, and one that fails may have
been executed.  For Pixoo64 the panel ignores an animation whose PicID was not
reset; for makit64 brightness and frame are two PUTs.

### MdnsLookup

The loop of `LookupA`, step by step, with time passing between any two of them:
look at the context and set the read deadline (`CheckContext`), a packet or a
timeout (`ReadPacket`, `ReadFails`), send again (`Resend`) or give up.  A packet
is an answer for the wanted host or foreign.  A read fails with a timeout once
its deadline has passed, whatever is in the socket; the timer of the context may
run some time after its deadline (`Expiry`), and the loop goes on until it has.
`MakitExporter` drives it from `dialDevice` and dials only when it has ended.

### Dashboard

One page and the goroutines of the server it depends on.  A snapshot is a
number; `stamp` gives each its `collected_at`, which is not moved by every
change.  `LoadPage` is `handleIndex`, `Connect` the start of `handleEvents`,
`SendUpdate` its loop, `Open` and `Lose` the callbacks of the `EventSource`,
`Refresh`, `AnswerNodes` and `Render` the three parts of `refresh` (before,
at the server, after the `await`), `LoadBadge`, `BadgeLoaded` and `BadgeFails`
the preload of an image with its two callbacks.  An image of the page asks for
itself when the page is rendered, and again after a preload that failed: the URL
(`src`) is then the new one at once and the picture (`pic`) the old one, until
`ImageAnswered`; `asked` is the snapshot at which it asked.  `handleBadge` draws
from a snapshot not older than the request (`Drawn`).  Answers may overtake one another, the feed may be lost with what is
on it, and mon64 may be started again (`Restart`).  `missed` remembers of which
snapshot the page could not hear: one whose update found no subscription, or
whose refresh failed.

### Lifecycle

`main` from its signal to its end, with the goroutine of its HTTP server, the
clients of that server (a request that is answered, or the stream of
`handleEvents`, which ends with its client only), and `Run` of the Prometheus
exporter with its servers.  A tick is some seconds; what goroutines can do
without waiting they do before time passes (`Urgent`).  When `main` is at its
end everything stops (`Alive`).

### Collectors, CpuHistory, ConfigRules

`Collectors` takes a parsed body as a function from metrics to values: integers,
NaN or an infinity, with the rules of floating point for the three.  Percentages
are kept in halves of a percent, and a quotient is rounded down to one.  CPU
usage is computed as in the code, series by series, from the counters of the body
and those of the scrape before (`prev`), so that a counter that was NaN makes the
next scrape NaN as well.  `CpuHistory` asks what the usage means over time: there
a host has two counters, idle and busy, which grow and are reset by a reboot, and
a worker of an older generation may collect its answer late.

`ConfigRules` keeps of texts what the rules look at: a colon, brackets, and what
stands in front of the number of a port (`Leads`: nothing, a zero or a sign, all
of which `strconv.Atoi` takes).  It follows a file through `Load`, the start of
the exporters and `reload`, and keeps beside the normalised configuration the
file as it was written (`source`).  The main server and each server of the
Prometheus exporter try to listen in any order (`ServerListens`,
`ExportListens`), one port for one of them; a main server that cannot ends
mon64 (`ServerFails`).  `listen` is the port in it.

### Publish

Operators over the snapshot of `Collectors` and one more node: its JSON
(`Encoded`, `JSON`), the rows of the template (`HtmlRow`) and of the script
(`ScriptRow`), the samples of a family (`Family`), the meters of `rect64`
(`Tile`) and the gauges of `circle240` (`Circle`).  Rounding is modelled: `%.0f`
takes a half to the even neighbour, `Math.round` up.

## Runs

| Configuration | Question | Properties |
|---|---|---|
| `MCStoreSafety` | Do reloads leave snapshot and statistics right while results of old workers land? Do the channels of one element lose anything? Does a node get a second worker? | `SnapshotAligned`, `StatsConsistent`, `NoLostReload`, `NoLostWakeup`, `OneLiveWorkerPerNode`, `ImplementsService`, `NoRegressWithinGeneration` |
| `MCStoreLive` | Does everything happen in the end? | `ReloadTakesEffect`, `EveryNodeAppears`, `RetiredWorkersEnd`, `EveryChangeIsSeen` |
| `MCHotReload` | Does every edit reach the store? | `NoLostEdit`, `StoreFollowsFileUnlessOverlapped`, `OnlyOverlapStepsBack`, `EditIsRead`, `WatcherEnds` |
| `MCHotReloadOverlap` | Also when calls of `reload` overlap? | violated: `StoreFollowsFile` |
| `MCPixoo` | Does the Pixoo64 show the present state? | `NoMissedChange`, `NoIgnoredFrame`, `SettlesOnCurrent`, `ExporterEnds` |
| `MCMakit` | Is the makit64 found, does it show the present state, and consistently? | `NoMissedChange`, `PanelConsistent`, `NoLeakedConnection`, `QueriesPaced`, `BadgesTakeTurns`, `LookupEnds` |
| `MCCollectors` | Are published numbers what the README says, and do all views agree on them? | `PercentUnlessNaN`, `MatchesReadme`, `NothingInvented`, `PagesAgree` |
| `MCCpuHistory` | Is CPU usage exact in spite of reboots and late scrapes? | `UsageIsExact` |
| `MCConfig` | Can what was accepted be used, and is it accepted again? | `LoadedIsAcceptedUnlessIpv6`, `OnePanel`, `ExportsGetPorts` |
| `MCConfigIpv6` | Also with IPv6 addresses? | violated: `LoadedIsAccepted` |
| `MCDashboard` | Does an open page show what the store holds, and say so truthfully? | `NoMissedUpdate`, `LabelTruthful`, `BadgeNotOlder`, `PageSettles` |
| `MCLifecycle` | Does mon64 end, and what has ended before it? | `ExporterEndsFirst`, `MainEnds` |

**Bounds.**

* *Store.*  `MaxStamp` stops tickers after so many scrapes have begun; first
  scrapes of a generation are not bounded, so that every generation collects.
  Two nodes are enough for one that goes and one that stays and moves up.  The
  constraint `Focus` of `MCStoreSafety` keeps two things apart that multiply each
  other: configurations of two nodes are explored with one reload and without
  subscribers, and everything else, with two reloads (a full `reloadCh` needs two
  signals) and a subscriber, on one node at a time until the fourth scrape begins.
  Its properties are safety properties, for which a constraint is sound; the
  proofs need neither.  In `MCStoreLive` one caller may reload twice, so that the
  second signal comes while the first is in the channel or the supervisor is
  anywhere in the restart it caused; `FocusLive` leaves to it that of a reload,
  another one, a subscriber and a stop two come together.  It cuts calls of
  `Reload`, `Subscribe` and `Cancel` only, none of which `FairSpec` promises to
  happen, so that every behaviour it leaves out is one with more of them.  Calls
  of `Reload` by two goroutines at once are covered by `ReloadNeverLost`, which is
  proved for any callers, and not by the liveness run.
* *HotReload.*  `MaxEdits` 2 and `MaxHups` 1 let an edit and a signal meet a
  running call.  In `MCHotReload` the store refuses version 1, so that a refused
  content comes between two it accepts; contents that do not load are there as
  torn and missing files, and for any `Invalid` in the proofs.
* *Exporters.*  `MaxWriters` bounds goroutines between a change and its notify:
  one changes while another notifies.  `Delay` is 2 for the Pixoo64, where the
  timer is met half way, and 1 for the makit64, whose turns multiply the states.
  Three exports of makit64 make a turn that is not simply back and forth.
* *MdnsLookup.*  `Deadline` 5 and `Retransmit` 2 give two more queries and a
  deadline that is not a multiple; `MaxQueries` is where counting stops, above
  what pacing allows; one packet in the socket is enough, since others come as
  soon as it is read.
* *Dashboard.*  Four snapshots, two restarts (times of three runs of mon64), two fetches in hand, two images
  being preloaded and two events on their way: each of these may overtake another
  of its kind.  `MaxWriters` 2 lets a change meet the notify of another.
* *Lifecycle.*  A page and another client; three exports, so that one timeout for
  each would add up to more than the 10 ticks of `main`; the timeouts are those
  of the code, in seconds.
* *CpuHistory.*  `MaxTime`, `MaxBoots` and `MaxReloads` give two boots of two
  hosts and two generations.
* *Collectors, ConfigRules* enumerate bodies and files.  Amounts are 0, 1, 8 and
  infinity, so that totals are zero, parts exceed totals (8 of 1 is used) and
  every quotient is a whole number of halves of a percent, the unit of the model;
  in `Odd` a gauge is negative.  The amounts of one body need not fit together.
  Of CPU counters there are an idle and a busy one, each missing, 0, 1, NaN or
  infinite; by `CountersLead` a body of other metrics is the last one, since
  nothing of it is kept for the next scrape.  Of a file, one part varies at a
  time, the others are valid.  With `EditsFirst` the file stays as it was loaded
  once a server has tried to listen: servers do not look at it, nor reloads at them.

What TLC shows of safety within these bounds, the proofs show without them.

**Deadlock** is checked except in HotReload, where editors and signals are
bounded and nothing is left to do once they are over, in Dashboard, whose
snapshots are bounded, and in Lifecycle, which ends.  In Store, `Finished`
stutters when supervisor, workers and callers have returned, so a deadlock
before that would be found.

**Fairness.**  Weak fairness for a goroutine that can run, since the Go
scheduler is fair, for timers, which fire, and for requests, which end: scrapes
have the timeout of the HTTP client and PUTs `putTimeout`; requests to a Pixoo64
are assumed to end.  For a page, connections that are not lost deliver and the
browser connects again, as `EventSource` does.  Strong fairness for one case of a `select` that is ready
again and again, since `select` chooses at random.  Nothing makes a node
answer, a panel answer a query, a client leave, an operator edit or stop mon64, or
the store change.

## What the runs found

1. `StoreFollowsFile`: a reload by SIGHUP and one by the watcher overlap, and the
   older content is applied last.
2. `LoadedIsAccepted`: `[::1]:5683` becomes `::1:5683`, which is rejected when it
   is normalised again; the makit64 exporter stays off and reloads are refused.

Some properties hold only with an exception that they name, and the exception is
a weakness of the code too:

* `NoRegressWithinGeneration` speaks of one generation.  A result that a worker had
  received before a reload replaced it may land over a newer one of its successor,
  since `applyNodeStateLocked` compares no times; the next scrape corrects it.
* `PercentUnlessNaN`: NaN passes `ClampPercent`, for the CPU in the scrape after
  such a counter too, and JSON cannot encode it, so that one such value takes the
  JSON of all nodes with it (`JSON = None` in
  `PagesAgree`): `/api/v1/nodes` answers 500 and pages stay as they are.
* `PagesAgree` excepts halves: 12.5% is shown as 12% when the page is loaded and
  as 13% when it is refreshed.
* `NoMissedUpdate` and `PageSettles` except a change between the rendering of the
  page and its subscription, one while the feed was lost, and one whose refresh
  failed: nothing fetches the nodes when the feed is connected (again), so the page
  waits for the next update.  `PageSettles` excepts as well an older answer that is
  rendered after a newer one.
* `BadgeNotOlder` compares a badge with its URL, once its image has been answered:
  after a preload that failed, the new URL stands over the old picture until then.
  The URL is made of `collected_at`, which a late or a dropped node does not move,
  so that an image may lag behind the rows; and of two preloads the older may
  finish last.
* `QueriesPaced` ends at the deadline: until the timer of the context has run,
  reads time out at once and queries are sent without a pause.
* `ExporterEndsFirst` speaks of a `main` that waits out its timeout, as it does
  with a page open.  Otherwise `main` ends when its own server is done, and nothing
  makes it wait for the exporters, the store or the watcher.  Nor does the context
  of `main` reach the lookup and the first PUT of `makit.New`.
* `ExportsGetPorts`: ports `9100`, `09100` and `+9100` are accepted together, and
  only one of them can be listened on; and a port may be the one of `listen`.  An
  export that loses is logged and its server is missing.  If the main server loses,
  mon64 ends, so that one file may start or not, as the goroutines happen to run.
* `NoLostEdit`, `EditIsRead` and `StoreFollowsFile` speak of contents that were
  written while the directory was watched, or read all the same: one that is written
  between the start of mon64 and `watcher.Add`, or after `Watch` has returned with an
  error, waits for the next edit or SIGHUP.
* `UsageIsExact` speaks of two scrapes of one boot of a host.  The history is kept
  by the name of a node, so after a reload that moves a node to another host its
  first usage there is made from the counters of two hosts.
* `SettlesOnCurrent` speaks of a store that has become quiet.  The debounce of the
  Pixoo64 is restarted by every update, so that updates which come faster than
  `updateDelay` put the push off for as long as they come.

## Proofs

Eight modules, `StoreProofs`, `HotReloadProofs`, `CpuHistoryProofs`,
`PublishProofs`, `PixooProofs`, `MakitProofs`, `DashboardProofs` and
`ProcessProofs`, hold for all values of the constants that satisfy the named
assumptions of the modules they extend, all of which TLC evaluates in the runs.
Every invariant and action property of the runs that pass is a theorem.  Most
assumptions say what is a natural number.  The others:

* names and markers (no node, no sample, no value) are distinct from what they
  mark, and the special values of floating point from the numbers
  (`SpecialAssumption`);
* the first content of the file is valid (`FirstIsValid`), a configuration is a
  sequence of nodes (`ConfigsAssumption`), files have the shape of the structs of
  `config.go` (`FilesAssumption`), the default host is no IPv6 address
  (`HostsAssumption`) and a port may have nothing in front (`LeadsAssumption`);
* there are badges to export (`ExportedAssumption`, `ExportsAssumption`);
* a body has finitely many metrics, integers or special values
  (`BodiesAssumption`), a node has a format there is a collector for
  (`NodesAssumption`), and the other node of the snapshot has the fields of a
  published node, each a percentage, absent or NaN (`PeerAssumption`);
* the exporter has less time to shut down than `main` (`TimeoutAssumption`).

*Store.*  `TypeCorrect`; `SnapshotAlwaysAligned`, by the lemma that `Sync` of any
sequence is aligned with the configuration it is synced with, which needs the
names to differ (`ValidConfig`); `ReloadNeverLost`, whose invariant is inductive
with the type; `WakeupNeverLost`, which also needs that who is outdated
subscribes; `NodeScrapedOnce`, by an invariant that ties the live contexts to
`workerCancel` and `gen`, says that no worker is of a generation to come and
that name and generation identify a worker; `ResultsFollowTheClock`, by one that
says that no result of a generation is younger than the scrape its worker has
in flight; `StatsAlwaysConsistent`, by counting the workers that fetch, which
needs that workers are finitely many and differ; `StoreImplementsService`, action
by action, with the lemma that `Sync` leaves to each name what a lookup showed.
`StoreImplementsFeed` counts: the workers and callers that have yet to notify are
finitely many (`WritersInv`), and each step adds one, takes one, or leaves their
number and the channels alone.  That a worker which lands is not among them
already is the invariant on generations and names again.

*HotReload.*  `EditNeverLost`, by counting: while a tick is to come there is a
goroutine to receive it, since one tick releases one goroutine and each event
adds one.  `StepsBackOnlyByOverlap` and `StoreCatchesUp`, by an invariant that
relates the version in each running call, the version in the store and the file
as long as no call has read the file while another held a content.  Since contents
may be refused, it says of a content that was read, and that the store accepts,
that either the store has it or a running call brings it (`OrderInv`).

*CpuHistory.*  Samples of one boot are ordered: each is behind the present
counters of its host if the host has not rebooted, and of two one is behind the
other.  This is inductive with the type, and from it `UsageExact` follows: in
order the deltas are the true ones, out of order they are both skipped.  The
division is dealt with in two lemmas about `Share`.

*Collectors and views.*  The invariant (`IInv`, with `Collected`) says that the
published state is what its collector makes of the body that is kept with it, and
of which kind each value is, those of the counters that are kept included.
`AlwaysPercentUnlessNaN` then follows a percentage
through the rules of floating point to `ClampPercent` (the lemmas about `Percent`
and its operands), and `AlwaysMatchesReadme` compares the code's order of
subtractions and guards with the formulas, for integers of any size.  The mean
over GPUs and the time of CPUs are folds over sets: that such a sum is a number,
or special only if some summand is, is shown by induction over the size of the set, for which `SetInduction`
states induction as a fact about sets of naturals (the library's takes an
operator).  `NeverInvents` and `PagesAlwaysAgree` go row by row; the second needs
how `%.0f` and `Math.round` treat each residue of a percentage in halves.

*Exporters.*  `NoMissedChange` is inductive for the Pixoo64 once it is known that
`Run` has subscribed before its first send; `NoIgnoredFrame` needs that a push
follows a reset.  For the makit64 `NoMissedChange` is strengthened (`Unmissed`)
to hold during a send whether or not the one before failed, since the turn of
another badge may come then; `PanelConsistent` needs that the brightness stands
before the frame is pushed (`LevelFirst`).  `QueriesAlwaysPaced` counts the
queries in units of `Retransmit` against the time of the next one (`Paced`); the
lookup is proved about once, and the rest of the exporter only stutters in it
(`StepsOfLookup`).

*Dashboard.*  While the page is not subscribed nothing is on its way (`Base`).
`UpdateNeverMissed` follows from this and the type; `LabelAlwaysTruthful` from
the steps that set the label.  `BadgeNeverOlder` needs that times do not step back
between restarts, for every pair of snapshots and every restart between them, and
the same of the images that are being preloaded or have asked again (`AgeInv`).

*Lifecycle.*  Until `Run` has returned, the two timeouts run down together: time
does not pass between the cancellation of the context and the moment `Run` sees
it.  What is left to `main` when the exporter has none is the difference
(`TimeoutInv`).  `RunClosesEveryServer` follows the loop of `Run` (`ShutdownInv`):
the servers before the one it is at are shut down, and a server that was shut
down before it came to listen does not listen afterwards.

*Config.*  `AddrOnce` and `PortOnce`: what the normalisation returns it returns
again, for an address unless it lost its brackets.  From these, that `Normalized`
leaves every rule of `Validate` as it was (`NormalizedFields`), so that a file
that was loaded is accepted again.  `PanelIsTheOne` follows an address from the
file as it was written through both normalisations, and `ExportsAlwaysGetPorts` a
port from the server that did not get it to the one that holds it, by the
invariant that what runs is what `Validate` made of `source` (`StartedInv`) and
that who has tried in vain asked for a port that is held (`HoldsInv`).

Only model-checked: all liveness properties (TLAPS has no support for them
here).  `ENABLED` is out of the prover's reach as well, so that absence of
deadlock is checked by TLC alone.  Only proved, and in no run: `ImplementsFeed`,
`RunClosesEveryServer` and the types, which the mutants of the properties above
would not tell apart from them.

## Not modelled

* Pixels, fonts and colours of badges (`bdf.go`, `color.go`, `font.go`, the
  drawing of `rect64.go` and `circle240.go`, `fitDisplay`, `toRGB888`) and the
  encoding of images: pure functions of the values `Publish` says they show.
* The parser of the text format and the clients for Pixoo64, CoAP, mDNS packets
  and fsnotify: libraries, modelled by what the code does with them.  YAML has the
  fields of the JSON and no reader in the repository.
* Request logging, recovery and the metrics registry: counters under one mutex.
* `SetScrapeTimeout` and the request headers of a scrape, which decide how long a
  scrape takes and not what becomes of it.
* `pixoo.New`: it looks for a device once, before anything else runs.
* What comes before `main` has loaded the file or asked for signals (a SIGHUP then
  ends the process), and an overflow of the kernel's queue of file events.
* `listen` with a port 0, a service name or an address of one interface: of
  `listen` there is the port, of every interface.
* The badges, panels and ports of exports are those of the start of mon64; a reload
  may remove a badge that is exported, which the exporters' modules follow (it is
  skipped or fails the send), and the panel then keeps its last frame.
* An `EventSource` that the browser gives up for good, after an answer other than
  200: the page then stays as it is and says "reconnecting".
* Names in a configuration that are empty or unknown words: such a file is
  rejected as a whole.
* Service and build files.

## Plan

What is left would add less than what is here.  In order: `SetScrapeTimeout`
and scrapes that straddle it; the heights of `rect64` and the clipping of
`fitDisplay`; the composition of `HotReload` with `Store`, whose common variable
is the configuration.
