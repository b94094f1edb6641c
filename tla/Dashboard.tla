----------------------------- MODULE Dashboard ------------------------------
(***************************************************************************)
(* A page of the dashboard (web/index.html and web/static/dashboard.js)    *)
(* and the handlers it talks to (internal/server/server.go): the page is   *)
(* rendered by handleIndex, subscribes to handleEvents afterwards, and     *)
(* fetches the nodes and its badges again after every update event.        *)
(*                                                                         *)
(* Of a snapshot matters which one it is, as a number that grows with      *)
(* every change, and its collected_at, which need not change with it.      *)
(* JavaScript runs one callback at a time: each is a step.  What the store *)
(* and handleEvents do with the page's subscription is taken from          *)
(* StoreFeed, which Store is proved to implement.                          *)
(***************************************************************************)
EXTENDS Integers, Sequences, FiniteSets

CONSTANTS
    MaxVersion,     \* bound: snapshots
    MaxWriters,     \* bound: goroutines between a change and its notify
    MaxWire,        \* bound: events on their way to the page
    MaxFetches,     \* bound: fetches of /api/v1/nodes in hand
    MaxLoads,       \* bound: badge images being preloaded
    MaxRestarts     \* bound: restarts of mon64

ASSUME BoundsAssumption ==
    /\ MaxVersion \in Nat /\ MaxWriters \in Nat /\ MaxWire \in Nat
    /\ MaxFetches \in Nat /\ MaxLoads \in Nat /\ MaxRestarts \in Nat

VARIABLES
    stamp,          \* collected_at of each snapshot so far, 0 for none
    boots,          \* the first snapshot after each start of mon64
    writers,        \* goroutines that changed the snapshot and have yet to notify
    subscribed, ch, \* the page's handleEvents subscribes; its channel holds an element
    wire,           \* what handleEvents wrote and the page has not received
    feed,           \* readyState of the page's EventSource, or none before it is loaded
    label,          \* the live status
    fetches,        \* the calls of refresh: 0, or the snapshot they were answered with
    shown, seen,    \* the snapshot the page shows, and the newest it has shown
    src, pic,       \* ?t= of the badge's image, and the snapshot on show there, or 0
    asked,          \* the newest snapshot when the image itself asked for src, or 0
    loads,          \* badges being preloaded
    missed          \* newest snapshot of which the page may never hear

storeVars == <<stamp, boots, writers>>
feedVars  == <<subscribed, ch, wire, feed>>
pageVars  == <<fetches, shown, seen>>
badgeVars == <<src, pic, asked, loads>>
vars == <<storeVars, feedVars, label, pageVars, badgeVars, missed>>

now == Len(stamp)
\* The first snapshot since mon64 was started.
boot == CHOOSE b \in boots : \A c \in boots : c <= b
Loaded == feed # "none"
Latest(t, u) == IF u > t THEN u ELSE t

Slots == 1 .. MaxFetches
Free == -1

Feed == INSTANCE StoreFeed

Init ==
    /\ Feed!Init
    /\ stamp = <<0>> /\ boots = {1}
    /\ wire = << >> /\ feed = "none"
    /\ label = "connecting"
    /\ fetches = [i \in Slots |-> Free] /\ shown = 0 /\ seen = 0
    /\ src = 0 /\ pic = 0 /\ asked = 0 /\ loads = {}
    /\ missed = 0

-----------------------------------------------------------------------------
(* The store.                                                              *)

\* Mutant of Stamped: the time of every scrape is taken over.
StampedAnew(t, u) == u

\* s.snap.CollectedAt moves forward only.
Stamped(t, u) == Latest(t, u)

\* A scrape that began at time t of this run is applied, or (0) a reload.
StoreChange ==
    /\ now < MaxVersion /\ writers < MaxWriters
    /\ \E t \in {0} \cup (boot .. now) : stamp' = Append(stamp, Stamped(stamp[now], t))
    /\ Feed!Change
    /\ UNCHANGED <<boots, wire, feed, label, pageVars, badgeVars, missed>>

\* An update that finds no subscription of the page is missed.
Notify ==
    /\ Feed!Notify
    /\ missed' = IF subscribed THEN missed ELSE now
    /\ UNCHANGED <<stamp, boots, wire, feed, label, pageVars, badgeVars>>

-----------------------------------------------------------------------------
(* The feed.                                                               *)

\* handleIndex renders the page; the browser asks for its badges and runs the script.
LoadPage ==
    /\ ~ Loaded /\ feed' = "connecting"
    /\ shown' = now /\ seen' = now
    /\ src' = stamp[now] /\ pic' = 0 /\ asked' = now
    /\ UNCHANGED <<storeVars, subscribed, ch, wire, label, fetches, loads, missed>>

\* handleEvents subscribes and writes ": connected".
Connect ==
    /\ feed = "connecting"
    /\ Feed!Subscribe /\ wire' = <<"connected">>
    /\ UNCHANGED <<stamp, boots, feed, label, pageVars, badgeVars, missed>>

\* handleEvents receives from its channel and writes an event.
SendUpdate ==
    /\ Len(wire) < MaxWire
    /\ Feed!Receive /\ wire' = Append(wire, "update")
    /\ UNCHANGED <<stamp, boots, feed, label, pageVars, badgeVars, missed>>

\* onopen.
Open ==
    /\ wire # << >> /\ Head(wire) = "connected"
    /\ feed' = "open" /\ label' = "live" /\ wire' = Tail(wire)
    /\ UNCHANGED <<storeVars, subscribed, ch, pageVars, badgeVars, missed>>

\* The connection is lost with what is on it: onerror.  The browser connects again.
Lose ==
    /\ subscribed' = FALSE /\ ch' = FALSE /\ wire' = << >>
    /\ feed' = "connecting" /\ label' = "reconnecting"

LoseFeed ==
    /\ Loaded /\ subscribed /\ Lose
    /\ missed' = now
    /\ UNCHANGED <<storeVars, pageVars, badgeVars>>

\* mon64 is started again, with an empty snapshot.
Restart ==
    /\ Cardinality(boots) <= MaxRestarts /\ now < MaxVersion
    /\ stamp' = Append(stamp, 0) /\ boots' = boots \cup {now + 1}
    /\ writers' = 0 /\ missed' = now + 1
    /\ IF Loaded THEN Lose ELSE UNCHANGED <<feedVars, label>>
    /\ UNCHANGED <<pageVars, badgeVars>>

-----------------------------------------------------------------------------
(* refresh.                                                                *)

\* Mutant of Refresh: an event that comes during a refresh starts none.
RefreshOne ==
    /\ wire # << >> /\ Head(wire) = "update" /\ wire' = Tail(wire)
    /\ IF \A i \in Slots : fetches[i] = Free
       THEN \E i \in Slots : fetches' = [fetches EXCEPT ![i] = 0]
       ELSE fetches' = fetches
    /\ UNCHANGED <<storeVars, subscribed, ch, feed, label, shown, seen, badgeVars, missed>>

\* An update event: the nodes are fetched, whether or not they are being fetched.  No
\* slot differs from another; the first one is taken.
Refresh ==
    /\ wire # << >> /\ Head(wire) = "update" /\ wire' = Tail(wire)
    /\ \E i \in Slots :
          /\ fetches[i] = Free /\ \A j \in Slots : fetches[j] = Free => i <= j
          /\ fetches' = [fetches EXCEPT ![i] = 0]
    /\ UNCHANGED <<storeVars, subscribed, ch, feed, label, shown, seen, badgeVars, missed>>

\* Mutant of AnswerNodes: the answer comes from a cache of the last one.
AnswerCached(i) ==
    /\ fetches[i] = 0
    /\ fetches' = [fetches EXCEPT ![i] = seen]
    /\ UNCHANGED <<storeVars, feedVars, label, shown, seen, badgeVars, missed>>

\* handleNodesJSON.
AnswerNodes(i) ==
    /\ fetches[i] = 0
    /\ fetches' = [fetches EXCEPT ![i] = now]
    /\ UNCHANGED <<storeVars, feedVars, label, shown, seen, badgeVars, missed>>

\* The request fails or has no good answer.
RefreshFails(i) ==
    /\ fetches[i] # Free /\ fetches' = [fetches EXCEPT ![i] = Free]
    /\ label' = "error" /\ missed' = now
    /\ UNCHANGED <<storeVars, feedVars, shown, seen, badgeVars>>

\* Mutant of FeedLabel: a refresh that succeeds shows the page to be live.
FeedLabelLive == "live"

\* syncLiveFromFeed.
FeedLabel == IF feed = "open" THEN "live" ELSE "connecting"

\* updateNamedBadges: setBadgeSrc returns early if the badge on show has this URL.
LoadBadge(v) ==
    IF src = stamp[v] THEN loads' = loads
    ELSE /\ Cardinality(loads) < MaxLoads
         /\ loads' = loads \cup {[t |-> stamp[v], from |-> now]}

\* The answer is rendered, whichever was rendered before.
Render(i) ==
    /\ fetches[i] > 0
    /\ fetches' = [fetches EXCEPT ![i] = Free]
    /\ shown' = fetches[i] /\ seen' = Latest(seen, fetches[i])
    /\ label' = FeedLabel
    /\ LoadBadge(fetches[i])
    /\ UNCHANGED <<storeVars, feedVars, src, pic, asked, missed>>

\* A snapshot from which handleBadge may draw what was asked for at snapshot v.
Drawn(v) == v .. now

\* onload: what was preloaded is put on show at once.
BadgeLoaded(l) ==
    /\ src' = l.t /\ pic' \in Drawn(l.from) /\ asked' = 0
    /\ loads' = loads \ {l}
    /\ UNCHANGED <<storeVars, feedVars, label, pageVars, missed>>

\* onerror: the image asks once more; until the answer the old picture stays.
BadgeFails(l) ==
    /\ src' = l.t /\ asked' = now /\ pic' = pic
    /\ loads' = loads \ {l}
    /\ UNCHANGED <<storeVars, feedVars, label, pageVars, missed>>

\* The image has its answer: a picture, or an error, which leaves it without one.
ImageAnswered ==
    /\ asked # 0 /\ asked' = 0
    /\ pic' \in {0} \cup Drawn(asked)
    /\ UNCHANGED <<storeVars, feedVars, label, pageVars, src, loads, missed>>

-----------------------------------------------------------------------------
Disturbance == StoreChange \/ Restart \/ LoseFeed

Next ==
    \/ StoreChange \/ Notify
    \/ LoadPage \/ Connect \/ SendUpdate \/ Open \/ LoseFeed \/ Restart
    \/ Refresh
    \/ \E i \in Slots : AnswerNodes(i) \/ RefreshFails(i) \/ Render(i)
    \/ \E l \in loads : BadgeLoaded(l) \/ BadgeFails(l)
    \/ ImageAnswered

Spec == Init /\ [][Next]_vars

(* Fairness.  Goroutines and callbacks that can run do, connections that   *)
(* are not lost deliver, and the browser connects again.                   *)
FairSpec ==
    /\ Spec
    /\ WF_vars(Notify) /\ WF_vars(Connect) /\ WF_vars(SendUpdate) /\ WF_vars(Open)
    /\ WF_vars(Refresh)
    /\ \A i \in Slots : WF_vars(AnswerNodes(i) \/ RefreshFails(i) \/ Render(i))
    /\ WF_vars(\E l \in loads : BadgeLoaded(l) \/ BadgeFails(l))
    /\ WF_vars(ImageAnswered)

-----------------------------------------------------------------------------
TypeOK ==
    /\ stamp \in Seq(Nat) /\ stamp # << >> /\ boots \subseteq 1 .. now
    /\ writers \in 0 .. MaxWriters
    /\ subscribed \in BOOLEAN /\ ch \in BOOLEAN /\ wire \in Seq({"connected", "update"})
    /\ feed \in {"none", "connecting", "open"}
    /\ label \in {"connecting", "live", "reconnecting", "error"}
    /\ fetches \in [Slots -> {Free} \cup 0 .. now] /\ shown \in 0 .. now /\ seen \in 0 .. now
    /\ src \in Nat /\ pic \in 0 .. now /\ asked \in 0 .. now
    /\ loads \subseteq [t : Nat, from : 1 .. now]
    /\ missed \in 0 .. now

\* The page is about to hear of the newest snapshot, or to show it.
Coming ==
    \/ writers > 0 \/ ch
    \/ \E k \in DOMAIN wire : wire[k] = "update"
    \/ \E i \in Slots : fetches[i] \in {0, now}

\* The page has shown the newest snapshot or is about to, however events, answers and
\* changes overlap, unless the change came while the page was not subscribed (between
\* handleIndex and handleEvents, or while the feed was lost) or its refresh failed.
NoMissedUpdate == Loaded /\ seen < now => Coming \/ missed = now

\* The page says "live" exactly while its feed is open, unless a refresh failed.
LabelTruthful ==
    /\ label = "live" => feed = "open"
    /\ feed = "open" => label \in {"live", "error"}

\* A badge drawn from snapshot v is as new as t, or mon64 was restarted between the two.
NotOlder(v, t) == stamp[v] >= t \/ \E b \in boots : t < b /\ b <= v

\* Once the image has the answer to its URL, the badge on show is not older than the
\* collected_at there, although it is drawn later than the nodes, changes may come in
\* between and a request may be made twice, unless mon64 was restarted between the two.
BadgeNotOlder ==
    asked = 0 /\ pic # 0 => NotOlder(pic, src)

\* Once the store and the feed are left alone, the page settles on the newest snapshot,
\* unless it missed it, or an older answer was rendered after a newer one.
PageSettles ==
    <>[][~ Disturbance]_vars => <>[](~ Loaded \/ shown = now \/ missed = now \/ shown < seen)

=============================================================================
