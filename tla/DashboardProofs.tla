-------------------------- MODULE DashboardProofs --------------------------
(***************************************************************************)
(* Theorems about a page of the dashboard, for any number of snapshots,    *)
(* restarts, events on their way, fetches in hand and badges being loaded. *)
(***************************************************************************)
EXTENDS Dashboard, SequenceTheorems, TLAPS

-----------------------------------------------------------------------------
(* Types, and that nothing is on its way while the page is not subscribed. *)

Base == TypeOK /\ (~ subscribed => ch = FALSE /\ wire = << >>)

LEMMA StampFacts ==
    ASSUME TypeOK
    PROVE  /\ now \in Nat \ {0} /\ DOMAIN stamp = 1 .. now
           /\ \A v \in 1 .. now : stamp[v] \in Nat
           /\ now < MaxVersion => MaxVersion \in Nat
BY BoundsAssumption DEF TypeOK, now

\* A change of the store or a restart appends a snapshot.
LEMMA Appended ==
    ASSUME TypeOK, NEW t \in Nat, stamp' = Append(stamp, t)
    PROVE  /\ stamp' \in Seq(Nat) /\ stamp' # << >> /\ now' = now + 1
           /\ stamp'[now + 1] = t
           /\ \A v \in 1 .. now : stamp'[v] = stamp[v]
BY DEF TypeOK, now

\* What was fetched or is being loaded stays in range when a snapshot is appended.
LEMMA Later ==
    ASSUME TypeOK, NEW n \in Nat, now < n
    PROVE  fetches \in [Slots -> {Free} \cup 0 .. n] /\ loads \subseteq [t : Nat, from : 1 .. n]
<1>1. now \in Nat
  BY StampFacts
<1>2. fetches \in [Slots -> {Free} \cup 0 .. n]
  BY <1>1 DEF TypeOK
<1>3. ASSUME NEW l \in loads PROVE l \in [t : Nat, from : 1 .. n]
  <2>1. l \in [t : Nat, from : 1 .. now]
    BY DEF TypeOK
  <2> QED
    BY <1>1, <2>1
<1> QED
  BY <1>2, <1>3

LEMMA BaseInit == Init => Base
<1> SUFFICES ASSUME Init PROVE Base
  OBVIOUS
<1>1. stamp \in Seq(Nat) /\ stamp # << >> /\ now = 1 /\ wire \in Seq({"connected", "update"})
  BY DEF Init, Feed!Init, now
<1>2. subscribed \in BOOLEAN /\ ch \in BOOLEAN
  BY Zenon DEF Init, Feed!Init
<1> QED
  BY <1>1, <1>2, BoundsAssumption DEF Init, Feed!Init, Base, TypeOK

LEMMA BaseNext == Base /\ [Next]_vars => Base'
<1> SUFFICES ASSUME Base, [Next]_vars PROVE Base'
  OBVIOUS
<1> USE DEF Base
<1>0. /\ now \in Nat \ {0} /\ \A v \in 1 .. now : stamp[v] \in Nat
      /\ MaxWriters \in Nat
  BY StampFacts, BoundsAssumption
<1>1. CASE StoreChange
  <2>1. PICK t \in {0} \cup (boot .. now) : stamp' = Append(stamp, Stamped(stamp[now], t))
    BY <1>1 DEF StoreChange, Feed!Change
  <2>2. Stamped(stamp[now], t) \in Nat
    <3>1. stamp[now] \in Nat
      BY <1>0
    <3>2. CASE t > stamp[now]
      <4>1. t \in Nat
        BY <2>1, <3>1, <3>2
      <4> QED
        BY <3>2, <4>1 DEF Stamped, Latest
    <3> QED
      BY <3>1, <3>2 DEF Stamped, Latest
  <2>3. stamp' \in Seq(Nat) /\ stamp' # << >> /\ now' = now + 1
    BY <2>1, <2>2, Appended
  <2>4. fetches' \in [Slots -> {Free} \cup 0 .. now'] /\ loads' \subseteq [t : Nat, from : 1 .. now']
    <3>1. now + 1 \in Nat /\ now < now + 1
      BY <1>0
    <3>2. fetches \in [Slots -> {Free} \cup 0 .. now + 1] /\ loads \subseteq [t : Nat, from : 1 .. now + 1]
      BY <3>1, Later
    <3> QED
      BY <1>1, <2>3, <3>2 DEF StoreChange, Feed!Change, pageVars, badgeVars
  <2>5. pic' \in 0 .. now' /\ asked' \in 0 .. now' /\ src' \in Nat
    BY <1>0, <1>1, <2>3 DEF StoreChange, TypeOK, badgeVars
  <2>6. shown' \in 0 .. now' /\ seen' \in 0 .. now' /\ missed' \in 0 .. now'
    BY <1>0, <1>1, <2>3 DEF StoreChange, TypeOK, pageVars
  <2>7. writers' \in 0 .. MaxWriters /\ boots' \subseteq 1 .. now'
    BY <1>0, <1>1, <2>3 DEF StoreChange, Feed!Change, TypeOK
  <2>8. UNCHANGED <<subscribed, ch, wire, feed, label>>
    BY <1>1 DEF StoreChange, Feed!Change
  <2> QED
    BY <2>3, <2>4, <2>5, <2>6, <2>7, <2>8 DEF TypeOK
<1>2. CASE Notify
  BY <1>0, <1>2 DEF Notify, Feed!Notify, TypeOK, now, pageVars, badgeVars
<1>3. CASE LoadPage
  BY <1>0, <1>3 DEF LoadPage, TypeOK, now, storeVars
<1>4. CASE Connect \/ SendUpdate
  <2>1. wire' \in Seq({"connected", "update"})
    <3>1. CASE Connect
      BY <3>1 DEF Connect, Feed!Subscribe
    <3>2. CASE SendUpdate
      BY <3>2 DEF SendUpdate, Feed!Receive, TypeOK
    <3> QED
      BY <1>4, <3>1, <3>2
  <2>2. ch' \in BOOLEAN /\ subscribed' \in BOOLEAN /\ subscribed'
    <3>1. (subscribed /\ subscribed \in BOOLEAN) \/ ~ ch
      BY DEF TypeOK
    <3>2. CASE Connect
      BY <3>2, Zenon DEF Connect, Feed!Subscribe
    <3>3. CASE SendUpdate
      BY <3>1, <3>3, Zenon DEF SendUpdate, Feed!Receive
    <3> QED
      BY <1>4, <3>2, <3>3
  <2> QED
    BY <1>4, <2>1, <2>2 DEF Connect, Feed!Subscribe, SendUpdate, Feed!Receive, TypeOK, now,
                            storeVars, pageVars, badgeVars
<1>5. CASE Open
  <2>1. wire' \in Seq({"connected", "update"}) /\ subscribed
    BY <1>5, HeadTailProperties DEF Open, TypeOK
  <2> QED
    BY <1>5, <2>1 DEF Open, TypeOK, now, storeVars, pageVars, badgeVars
<1>6. CASE LoseFeed
  <2>1. ch' \in BOOLEAN /\ subscribed' \in BOOLEAN /\ ch' = FALSE /\ wire' = << >>
    BY <1>6, Zenon DEF LoseFeed, Lose
  <2> QED
    BY <1>0, <1>6, <2>1 DEF LoseFeed, Lose, TypeOK, now, storeVars, pageVars, badgeVars
<1>7. CASE Restart
  <2>1. stamp' \in Seq(Nat) /\ stamp' # << >> /\ now' = now + 1
    BY <1>7, Appended DEF Restart
  <2>2. boots' \subseteq 1 .. now' /\ 0 \in 0 .. MaxWriters /\ writers' = 0
    BY <1>0, <1>7, <2>1 DEF Restart, TypeOK
  <2>3. /\ subscribed' \in BOOLEAN /\ ch' \in BOOLEAN /\ wire' \in Seq({"connected", "update"})
        /\ feed' \in {"none", "connecting", "open"}
        /\ label' \in {"connecting", "live", "reconnecting", "error"}
        /\ ~ subscribed' => ch' = FALSE /\ wire' = << >>
    <3>1. CASE Lose
      <4>1. ch' \in BOOLEAN /\ subscribed' \in BOOLEAN
        BY <3>1, Zenon DEF Lose
      <4> QED
        BY <3>1, <4>1 DEF Lose
    <3>2. CASE UNCHANGED <<feedVars, label>>
      BY <3>2 DEF feedVars, TypeOK
    <3> QED
      BY <1>7, <3>1, <3>2 DEF Restart
  <2>4. fetches' \in [Slots -> {Free} \cup 0 .. now'] /\ loads' \subseteq [t : Nat, from : 1 .. now']
    BY <1>0, <1>7, <2>1, Later DEF Restart, pageVars, badgeVars
  <2> QED
    BY <1>0, <1>7, <2>1, <2>2, <2>3, <2>4 DEF Restart, TypeOK, pageVars, badgeVars
<1>8. CASE Refresh
  <2>1. wire' \in Seq({"connected", "update"}) /\ subscribed
    BY <1>8, HeadTailProperties DEF Refresh, TypeOK
  <2>2. fetches' \in [Slots -> {Free} \cup 0 .. now]
    BY <1>0, <1>8 DEF Refresh, TypeOK
  <2> QED
    BY <1>8, <2>1, <2>2 DEF Refresh, TypeOK, now, storeVars, badgeVars
<1>9. ASSUME NEW i \in Slots, AnswerNodes(i) \/ RefreshFails(i) PROVE Base'
  <2>1. fetches' \in [Slots -> {Free} \cup 0 .. now]
    BY <1>0, <1>9 DEF AnswerNodes, RefreshFails, TypeOK
  <2>2. /\ UNCHANGED <<storeVars, feedVars, shown, seen, badgeVars>>
        /\ label' \in {label, "error"} /\ missed' \in {missed, now}
    BY <1>9 DEF AnswerNodes, RefreshFails
  <2> QED
    BY <1>0, <2>1, <2>2 DEF TypeOK, now, storeVars, feedVars, badgeVars
<1>10. ASSUME NEW i \in Slots, Render(i) PROVE Base'
  <2>1. fetches[i] \in 1 .. now
    BY <1>0, <1>10 DEF Render, TypeOK, Free
  <2>2. loads' \subseteq [t : Nat, from : 1 .. now]
    BY <1>0, <1>10, <2>1 DEF Render, LoadBadge, TypeOK
  <2>3. fetches' \in [Slots -> {Free} \cup 0 .. now] /\ shown' \in 0 .. now /\ seen' \in 0 .. now
    BY <1>0, <1>10, <2>1 DEF Render, TypeOK, Latest
  <2>4. label' \in {"connecting", "live", "reconnecting", "error"}
    BY <1>10 DEF Render, FeedLabel
  <2> QED
    BY <1>10, <2>2, <2>3, <2>4 DEF Render, TypeOK, now, storeVars, feedVars
<1>11. ASSUME NEW l \in loads, BadgeLoaded(l) \/ BadgeFails(l) PROVE Base'
  <2>1. l.t \in Nat /\ l.from \in 1 .. now
    BY DEF TypeOK
  <2>2. pic' \in 0 .. now /\ asked' \in 0 .. now
    BY <1>0, <1>11, <2>1 DEF BadgeLoaded, BadgeFails, Drawn, TypeOK
  <2> QED
    BY <1>11, <2>1, <2>2
    DEF BadgeLoaded, BadgeFails, TypeOK, now, storeVars, feedVars, pageVars
<1>12. CASE ImageAnswered
  <2>1. pic' \in 0 .. now /\ asked' \in 0 .. now
    BY <1>0, <1>12 DEF ImageAnswered, Drawn, TypeOK
  <2> QED
    BY <1>12, <2>1 DEF ImageAnswered, TypeOK, now, storeVars, feedVars, pageVars
<1>13. CASE UNCHANGED vars
  BY <1>13 DEF vars, TypeOK, now, storeVars, feedVars, pageVars, badgeVars
<1> QED
  BY <1>1, <1>2, <1>3, <1>4, <1>5, <1>6, <1>7, <1>8, <1>9, <1>10, <1>11, <1>12, <1>13 DEF Next

\* The types hold, for all bounds.
THEOREM TypeCorrect == Spec => []TypeOK
BY BaseInit, BaseNext, PTL DEF Spec, Base

-----------------------------------------------------------------------------
(* The label.                                                              *)

\* However refreshes overlap with the loss and the return of the feed, the page does
\* not say "live" without a feed.
THEOREM LabelAlwaysTruthful == Spec => []LabelTruthful
<1>1. Init => LabelTruthful
  BY DEF Init, Feed!Init, LabelTruthful
<1>2. LabelTruthful /\ [Next]_vars => LabelTruthful'
  BY DEF LabelTruthful, Next, vars, feedVars, StoreChange, Feed!Change, Notify, Feed!Notify,
         LoadPage, Loaded, Connect, Feed!Subscribe, SendUpdate, Feed!Receive, Open, LoseFeed,
         Restart, Lose, Refresh, AnswerNodes, RefreshFails, Render, FeedLabel, BadgeLoaded,
         BadgeFails, ImageAnswered
<1> QED
  BY <1>1, <1>2, PTL DEF Spec

-----------------------------------------------------------------------------
(* Updates.  Each step passes a change on: from the one who made it to the *)
(* channel, the wire, a fetch and the page; who breaks the chain marks the *)
(* newest snapshot as missed.                                              *)

\* The first event on the wire is taken off; the others stay.
LEMMA TailKeeps ==
    ASSUME TypeOK, wire # << >>, Head(wire) # "update", wire' = Tail(wire),
           NEW k \in DOMAIN wire, wire[k] = "update"
    PROVE  \E j \in DOMAIN wire' : wire'[j] = "update"
<1>1. /\ wire \in Seq({"connected", "update"}) /\ Len(wire) \in Nat /\ DOMAIN wire = 1 .. Len(wire)
      /\ Head(wire) = wire[1]
  BY DEF TypeOK
<1>2. k - 1 \in 1 .. Len(wire) - 1 /\ k = (k - 1) + 1
  BY <1>1
<1>3. /\ Len(Tail(wire)) = Len(wire) - 1 /\ DOMAIN Tail(wire) = 1 .. Len(wire) - 1
      /\ Tail(wire)[k - 1] = wire[k]
  BY <1>1, <1>2
<1> QED
  BY <1>2, <1>3

\* A page that is not loaded does not subscribe.
Unsubscribed == ~ Loaded => ~ subscribed

LEMMA UnsubscribedHolds == Spec => []Unsubscribed
<1>1. Init => Unsubscribed
  BY DEF Init, Feed!Init, Unsubscribed
<1>2. Unsubscribed /\ [Next]_vars => Unsubscribed'
  BY DEF Unsubscribed, Loaded, Next, vars, feedVars, StoreChange, Feed!Change, Notify,
         Feed!Notify, LoadPage, Connect, Feed!Subscribe, SendUpdate, Feed!Receive, Open,
         LoseFeed, Restart, Lose, Refresh, AnswerNodes, RefreshFails, Render, BadgeLoaded,
         BadgeFails, ImageAnswered
<1> QED
  BY <1>1, <1>2, PTL DEF Spec

\* The page shows the newest snapshot, is about to, or may have missed it.
THEOREM UpdateNeverMissed == Spec => []NoMissedUpdate
<1>1. Init => NoMissedUpdate
  BY DEF Init, Feed!Init, NoMissedUpdate, Loaded
<1>2. Base /\ Unsubscribed /\ NoMissedUpdate /\ [Next]_vars => NoMissedUpdate'
  <2> SUFFICES ASSUME Base, Unsubscribed, NoMissedUpdate, [Next]_vars PROVE NoMissedUpdate'
    OBVIOUS
  <2> USE DEF NoMissedUpdate
  <2>0. now \in Nat \ {0} /\ seen \in 0 .. now /\ TypeOK /\ (~ subscribed => ch = FALSE /\ wire = << >>)
    BY StampFacts DEF Base, TypeOK
  <2>1. CASE StoreChange
    BY <2>0, <2>1 DEF StoreChange, Feed!Change, Coming, TypeOK
  <2>2. CASE Notify
    BY <2>2 DEF Notify, Feed!Notify, Coming, now
  <2>3. CASE LoadPage
    BY <2>0, <2>3 DEF LoadPage, now, storeVars
  <2>4. CASE Connect
    BY <2>0, <2>4 DEF Connect, Feed!Subscribe, Coming, Loaded, now, storeVars, pageVars
  <2>5. CASE SendUpdate
    <3>1. \E k \in DOMAIN wire' : wire'[k] = "update"
      <4>1. wire' = Append(wire, "update") /\ wire \in Seq({"connected", "update"})
        BY <2>0, <2>5 DEF SendUpdate, Feed!Receive, TypeOK
      <4>2. wire'[Len(wire) + 1] = "update" /\ Len(wire) + 1 \in DOMAIN wire'
        BY <4>1
      <4> QED
        BY <4>2
    <3> QED
      BY <3>1 DEF Coming
  <2>6. CASE Open
    <3>1. (\E k \in DOMAIN wire : wire[k] = "update") => \E k \in DOMAIN wire' : wire'[k] = "update"
      BY <2>0, <2>6, TailKeeps DEF Open
    <3>2. Coming => Coming'
      BY <2>6, <3>1 DEF Open, Coming, now, storeVars, pageVars
    <3>3. Loaded
      BY <2>0, <2>6 DEF Open, Unsubscribed
    <3> QED
      BY <2>6, <3>2, <3>3 DEF Open, now, storeVars, pageVars
  <2>7. CASE LoseFeed
    BY <2>7 DEF LoseFeed, now, storeVars
  <2>8. CASE Restart
    BY <2>0, <2>8, Appended DEF Restart
  <2>9. CASE Refresh
    <3>1. \E i \in Slots : fetches'[i] = 0
      BY <2>0, <2>9 DEF Refresh, TypeOK
    <3> QED
      BY <3>1 DEF Coming
  <2>10. ASSUME NEW i \in Slots, AnswerNodes(i) PROVE NoMissedUpdate'
    <3>1. fetches'[i] = now /\ now' = now
      BY <2>0, <2>10 DEF AnswerNodes, TypeOK, now, storeVars
    <3> QED
      BY <3>1 DEF Coming
  <2>11. ASSUME NEW i \in Slots, RefreshFails(i) PROVE NoMissedUpdate'
    BY <2>11 DEF RefreshFails, now, storeVars
  <2>12. ASSUME NEW i \in Slots, Render(i) PROVE NoMissedUpdate'
    <3>1. /\ fetches[i] \in 1 .. now /\ now' = now /\ seen' = Latest(seen, fetches[i])
          /\ UNCHANGED <<writers, ch, wire, feed, missed>>
          /\ \A j \in Slots : j # i => fetches'[j] = fetches[j]
      BY <2>0, <2>12 DEF Render, TypeOK, Free, now, storeVars, feedVars
    <3>2. seen' \in Nat /\ seen <= seen' /\ fetches[i] <= seen'
      BY <2>0, <3>1 DEF Latest
    <3>3. CASE fetches[i] = now
      BY <2>0, <3>1, <3>2, <3>3
    <3>4. CASE fetches[i] # now
      <4>1. Coming => Coming'
        BY <3>1, <3>4 DEF Coming
      <4>2. seen' < now => seen < now
        BY <2>0, <3>1 DEF Latest
      <4> QED
        BY <3>1, <4>1, <4>2 DEF Loaded
    <3> QED
      BY <3>3, <3>4
  <2>13. CASE (\E l \in loads : BadgeLoaded(l) \/ BadgeFails(l)) \/ ImageAnswered
    BY <2>13 DEF BadgeLoaded, BadgeFails, ImageAnswered, Coming, Loaded, now, storeVars, feedVars, pageVars
  <2>14. CASE UNCHANGED vars
    BY <2>14 DEF vars, Coming, Loaded, now, storeVars, feedVars, pageVars
  <2> QED
    BY <2>1, <2>2, <2>3, <2>4, <2>5, <2>6, <2>7, <2>8, <2>9, <2>10, <2>11, <2>12, <2>13, <2>14 DEF Next
<1> QED
  BY <1>1, <1>2, BaseInit, BaseNext, UnsubscribedHolds, PTL DEF Spec

-----------------------------------------------------------------------------
(* Badges.  collected_at is older than the snapshot's number, and grows    *)
(* from one start of mon64 to the next; so whatever is drawn after a page  *)
(* asked for a badge is as new, or of a later start.                       *)

\* The requests for a badge in hand: the preloads, and that of the image itself.
Requests == loads \cup {l \in {[t |-> src, from |-> asked]} : asked # 0}

AgeInv ==
    /\ \A v \in 1 .. now : stamp[v] < v
    /\ \E b \in boots : \A u, v \in b .. now : u <= v => stamp[u] <= stamp[v]
    /\ \A l \in Requests : \A v \in l.from .. now : NotOlder(v, l.t)
    /\ BadgeNotOlder

LEMMA AgeInit == Init => AgeInv
<1> SUFFICES ASSUME Init PROVE AgeInv
  OBVIOUS
<1>1. now = 1 /\ stamp[1] = 0 /\ boots = {1} /\ loads = {} /\ pic = 0 /\ asked = 0
  BY DEF Init, Feed!Init, now
<1> QED
  BY <1>1 DEF AgeInv, BadgeNotOlder, Requests

\* A snapshot is appended: its collected_at is the later of the newest one and a time of
\* this start, or 0 if it is the first of a start.
LEMMA AgeAppend ==
    ASSUME TypeOK, AgeInv, NEW t \in Nat, t <= now,
           now' = now + 1, stamp'[now + 1] = t, \A v \in 1 .. now : stamp'[v] = stamp[v],
           UNCHANGED <<src, pic, asked, loads>>,
           \/ boots' = boots /\ t >= stamp[now]
           \/ boots' = boots \cup {now + 1}
    PROVE  AgeInv'
<1>1. /\ now \in Nat \ {0} /\ \A v \in 1 .. now : stamp[v] \in Nat
      /\ now' = now + 1 /\ stamp'[now + 1] = t
      /\ \A v \in 1 .. now : stamp'[v] = stamp[v]
  BY StampFacts
<1>2. \A v \in 1 .. now' : v \in 1 .. now \/ v = now + 1
  BY <1>1
<1>3. /\ boots \subseteq boots' /\ boots \subseteq 1 .. now
      /\ \A l \in Requests : l.t \in Nat /\ l.from \in 1 .. now
      /\ pic \in 0 .. now /\ Requests' = Requests
  BY <1>1 DEF TypeOK, Requests
<1>4. \A v \in 1 .. now' : stamp'[v] < v
  BY <1>1, <1>2 DEF AgeInv
<1>5. \E b \in boots' : \A u, v \in b .. now' : u <= v => stamp'[u] <= stamp'[v]
  <2>1. CASE boots' = boots \cup {now + 1}
    <3>1. \A u \in now + 1 .. now' : u = now + 1
      BY <1>1
    <3>2. now + 1 \in boots' /\ stamp'[now + 1] <= stamp'[now + 1]
      BY <1>1, <2>1
    <3> QED
      BY <3>1, <3>2
  <2>2. CASE boots' = boots /\ t >= stamp[now]
    <3>1. PICK b \in boots : \A u, v \in b .. now : u <= v => stamp[u] <= stamp[v]
      BY DEF AgeInv
    <3>2. b \in 1 .. now
      BY <1>3
    <3>3. ASSUME NEW u \in b .. now', NEW v \in b .. now', u <= v PROVE stamp'[u] <= stamp'[v]
      <4>1. CASE v = now + 1 /\ u = now + 1
        BY <1>1, <4>1
      <4>2. CASE v = now + 1 /\ u \in b .. now
        <5>1. stamp[u] <= stamp[now] /\ u \in 1 .. now /\ now \in 1 .. now
          BY <1>1, <3>1, <3>2, <4>2
        <5>2. stamp[u] \in Nat /\ stamp[now] \in Nat /\ stamp'[u] = stamp[u]
          BY <1>1, <5>1
        <5> QED
          BY <1>1, <2>2, <4>2, <5>1, <5>2
      <4>3. CASE v \in b .. now
        <5>1. u \in b .. now /\ u \in 1 .. now /\ v \in 1 .. now
          BY <1>1, <3>2, <3>3, <4>3
        <5> QED
          BY <1>1, <3>1, <3>3, <4>3, <5>1
      <4> QED
        BY <1>1, <3>2, <3>3, <4>1, <4>2, <4>3
    <3> QED
      BY <2>2, <3>1, <3>3
  <2> QED
    BY <2>1, <2>2
<1>6. ASSUME NEW l \in Requests', NEW v \in l.from .. now' PROVE NotOlder(v, l.t)'
  <2>1. l \in Requests /\ l.t \in Nat /\ l.from \in 1 .. now
    BY <1>3
  <2>2. CASE v \in l.from .. now
    <3>1. NotOlder(v, l.t) /\ stamp'[v] = stamp[v]
      BY <1>1, <2>1, <2>2 DEF AgeInv
    <3> QED
      BY <1>3, <3>1 DEF NotOlder
  <2>3. CASE v = now + 1
    <3>1. now \in l.from .. now
      BY <1>1, <2>1
    <3>2. NotOlder(now, l.t)
      BY <2>1, <3>1 DEF AgeInv
    <3>3. CASE \E b \in boots : l.t < b /\ b <= now
      <4>1. PICK b \in boots : l.t < b /\ b <= now
        BY <3>3
      <4>2. b \in boots' /\ b <= v /\ b \in Nat
        BY <1>1, <1>3, <2>3, <4>1
      <4> QED
        BY <4>1, <4>2 DEF NotOlder
    <3>4. CASE stamp[now] >= l.t
      <4>1. stamp[now] \in Nat /\ stamp[now] < now
        BY <1>1 DEF AgeInv
      <4>2. CASE boots' = boots /\ t >= stamp[now]
        BY <1>1, <2>1, <2>3, <3>4, <4>1, <4>2 DEF NotOlder
      <4>3. CASE boots' = boots \cup {now + 1}
        <5>1. now + 1 \in boots' /\ l.t < now + 1 /\ now + 1 <= v
          BY <1>1, <2>1, <2>3, <3>4, <4>1, <4>3
        <5> QED
          BY <5>1 DEF NotOlder
      <4> QED
        BY <4>2, <4>3
    <3> QED
      BY <3>2, <3>3, <3>4 DEF NotOlder
  <2> QED
    BY <1>1, <2>1, <2>2, <2>3
<1>7. BadgeNotOlder'
  <2> SUFFICES ASSUME asked = 0, pic # 0 PROVE NotOlder(pic, src)'
    BY DEF BadgeNotOlder
  <2>1. pic \in 1 .. now /\ NotOlder(pic, src)
    BY <1>1, <1>3 DEF AgeInv, BadgeNotOlder
  <2> QED
    BY <1>1, <1>3, <2>1 DEF NotOlder
<1> QED
  BY <1>4, <1>5, <1>6, <1>7 DEF AgeInv

LEMMA AgeNext == Base /\ AgeInv /\ [Next]_vars => AgeInv'
<1> SUFFICES ASSUME Base, AgeInv, [Next]_vars PROVE AgeInv'
  OBVIOUS
<1>0. /\ TypeOK /\ now \in Nat \ {0} /\ \A v \in 1 .. now : stamp[v] \in Nat
      /\ boots \subseteq 1 .. now
  BY StampFacts DEF Base, TypeOK
<1>1. CASE StoreChange
  <2>1. PICK t \in {0} \cup (boot .. now) : stamp' = Append(stamp, Stamped(stamp[now], t))
    BY <1>1 DEF StoreChange, Feed!Change
  <2> DEFINE u == Stamped(stamp[now], t)
  <2>2. stamp[now] \in Nat /\ stamp[now] < now
    BY <1>0 DEF AgeInv
  <2>3. u \in Nat /\ u >= stamp[now] /\ u <= now
    <3>1. CASE t > stamp[now]
      <4>1. u = t
        BY <3>1 DEF Stamped, Latest
      <4>2. t \in Nat /\ t <= now
        BY <1>0, <2>1, <2>2, <3>1
      <4> QED
        BY <2>2, <3>1, <4>1, <4>2
    <3>2. CASE ~ t > stamp[now]
      <4>1. u = stamp[now]
        BY <3>2 DEF Stamped, Latest
      <4> QED
        BY <1>0, <2>2, <4>1
    <3> QED
      BY <3>1, <3>2
  <2> HIDE DEF u
  <2>4. now' = now + 1 /\ stamp'[now + 1] = u /\ \A v \in 1 .. now : stamp'[v] = stamp[v]
    BY <1>0, <2>1, <2>3, Appended DEF u
  <2>5. boots' = boots /\ UNCHANGED <<src, pic, asked, loads>>
    BY <1>1 DEF StoreChange, Feed!Change, badgeVars
  <2> QED
    BY <1>0, <2>3, <2>4, <2>5, AgeAppend
<1>2. CASE Restart
  <2>1. now' = now + 1 /\ stamp'[now + 1] = 0 /\ \A v \in 1 .. now : stamp'[v] = stamp[v]
    BY <1>0, <1>2, Appended DEF Restart
  <2>2. boots' = boots \cup {now + 1} /\ UNCHANGED <<src, pic, asked, loads>>
    BY <1>2 DEF Restart, badgeVars
  <2>3. 0 \in Nat /\ 0 <= now
    BY <1>0
  <2> QED
    BY <1>0, <2>1, <2>2, <2>3, AgeAppend
<1>3. CASE LoadPage
  <2> DEFINE l == [t |-> stamp[now], from |-> now]
  <2>1. /\ src' = stamp[now] /\ asked' = now
        /\ UNCHANGED <<stamp, boots, loads>>
    BY <1>3 DEF LoadPage, storeVars
  <2>2. Requests' \subseteq loads \cup {l}
    BY <2>1 DEF Requests
  <2>3. \A v \in l.from .. now : NotOlder(v, l.t)
    BY <1>0 DEF NotOlder
  <2>4. \A k \in Requests' : \A v \in k.from .. now : NotOlder(v, k.t)
    BY <2>2, <2>3 DEF AgeInv, Requests
  <2> QED
    BY <1>0, <2>1, <2>4 DEF AgeInv, BadgeNotOlder, NotOlder, now
<1>4. ASSUME NEW i \in Slots, Render(i) PROVE AgeInv'
  <2> DEFINE w == fetches[i]
             l == [t |-> stamp[w], from |-> now]
  <2>1. w \in 1 .. now
    BY <1>0, <1>4 DEF Render, TypeOK, Free
  <2>2. UNCHANGED <<stamp, boots, src, pic, asked>> /\ Requests' \subseteq Requests \cup {l}
    BY <1>4 DEF Render, LoadBadge, storeVars, Requests
  <2>3. NotOlder(now, stamp[w])
    <3>1. PICK b \in boots : \A u, v \in b .. now : u <= v => stamp[u] <= stamp[v]
      BY DEF AgeInv
    <3>2. b \in 1 .. now /\ stamp[w] < w /\ stamp[w] \in Nat /\ stamp[now] \in Nat
      BY <1>0, <2>1 DEF AgeInv
    <3>3. CASE b <= w
      <4>1. stamp[w] <= stamp[now]
        BY <1>0, <2>1, <3>1, <3>2, <3>3
      <4> QED
        BY <3>2, <4>1 DEF NotOlder
    <3>4. CASE w < b
      <4>1. stamp[w] < b /\ b <= now
        BY <1>0, <2>1, <3>2, <3>4
      <4> QED
        BY <4>1 DEF NotOlder
    <3> QED
      BY <2>1, <3>2, <3>3, <3>4
  <2>4. l.t = stamp[w] /\ l.from = now
    OBVIOUS
  <2> HIDE DEF l, w
  <2>5. ASSUME NEW k \in Requests', NEW v \in k.from .. now PROVE NotOlder(v, k.t)
    <3>1. CASE k \in Requests
      BY <3>1 DEF AgeInv
    <3>2. CASE k = l
      <4>1. v = now
        BY <1>0, <2>4, <3>2
      <4> QED
        BY <2>3, <2>4, <3>2, <4>1
    <3> QED
      BY <2>2, <3>1, <3>2
  <2> QED
    BY <2>2, <2>5 DEF AgeInv, NotOlder, BadgeNotOlder, now
<1>5. ASSUME NEW l \in loads, BadgeLoaded(l) PROVE AgeInv'
  <2>1. /\ src' = l.t /\ pic' \in l.from .. now /\ asked' = 0 /\ loads' \subseteq loads
        /\ UNCHANGED <<stamp, boots>>
    BY <1>5 DEF BadgeLoaded, Drawn, storeVars
  <2>2. NotOlder(pic', src')
    BY <2>1 DEF AgeInv, Requests
  <2>3. Requests' \subseteq Requests
    BY <2>1 DEF Requests
  <2> QED
    BY <2>1, <2>2, <2>3 DEF AgeInv, NotOlder, BadgeNotOlder, now
<1>6. ASSUME NEW l \in loads, BadgeFails(l) PROVE AgeInv'
  <2> DEFINE m == [t |-> l.t, from |-> now]
  <2>1. /\ src' = l.t /\ asked' = now /\ loads' \subseteq loads
        /\ UNCHANGED <<stamp, boots>>
    BY <1>6 DEF BadgeFails, storeVars
  <2>2. l.from \in 1 .. now
    BY <1>0 DEF TypeOK
  <2>3. NotOlder(now, l.t)
    BY <1>0, <2>2 DEF AgeInv, Requests
  <2>4. \A v \in m.from .. now : NotOlder(v, m.t)
    BY <1>0, <2>3
  <2>5. Requests' \subseteq loads \cup {m}
    BY <2>1 DEF Requests
  <2>6. \A k \in Requests' : \A v \in k.from .. now : NotOlder(v, k.t)
    BY <2>4, <2>5 DEF AgeInv, Requests
  <2> QED
    BY <1>0, <2>1, <2>6 DEF AgeInv, BadgeNotOlder, NotOlder, now
<1>7. CASE ImageAnswered
  <2> DEFINE l == [t |-> src, from |-> asked]
  <2>1. /\ asked # 0 /\ asked' = 0 /\ pic' \in {0} \cup (asked .. now)
        /\ UNCHANGED <<stamp, boots, src, loads>>
    BY <1>7 DEF ImageAnswered, Drawn, storeVars
  <2>2. l \in Requests
    BY <2>1 DEF Requests
  <2>3. pic' # 0 => NotOlder(pic', src)
    BY <2>1, <2>2 DEF AgeInv
  <2>4. Requests' \subseteq Requests
    BY <2>1 DEF Requests
  <2> QED
    BY <2>1, <2>3, <2>4 DEF AgeInv, NotOlder, BadgeNotOlder, now
<1>8. CASE UNCHANGED <<stamp, boots, src, pic, asked, loads>>
  BY <1>8 DEF AgeInv, NotOlder, BadgeNotOlder, Requests, now
<1>9. \/ StoreChange \/ Restart \/ LoadPage
      \/ \E i \in Slots : Render(i)
      \/ \E l \in loads : BadgeLoaded(l) \/ BadgeFails(l)
      \/ ImageAnswered
      \/ UNCHANGED <<stamp, boots, src, pic, asked, loads>>
  BY DEF Next, vars, storeVars, badgeVars, Notify, Feed!Notify, Connect, Feed!Subscribe,
         SendUpdate, Feed!Receive, Open, LoseFeed, Refresh, AnswerNodes, RefreshFails
<1> QED
  BY <1>1, <1>2, <1>3, <1>4, <1>5, <1>6, <1>7, <1>8, <1>9

\* Whatever the order in which answers and badges come, and however often mon64 is
\* started again, a badge is not older than its URL says once the image has the answer to
\* it, but by a start between them.
THEOREM BadgeNeverOlder == Spec => []BadgeNotOlder
BY BaseInit, BaseNext, AgeInit, AgeNext, PTL DEF Spec, AgeInv

=============================================================================
