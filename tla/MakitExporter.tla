---------------------------- MODULE MakitExporter ----------------------------
(***************************************************************************)
(* The exporter that pushes badges to a makit64 panel over CoAP            *)
(* (internal/export/makit/exporter.go and client.go), from New to the end  *)
(* of Run.  As in PixooExporter, of the store only matters whether what    *)
(* was read is older than what it holds.                                   *)
(*                                                                         *)
(* A PUT is acknowledged, or it fails: it was lost, or the panel executed  *)
(* it and its answer was lost or late (putTimeout).  A panel named .local  *)
(* is looked up first (MdnsLookup), under a context of its own: mon64 may  *)
(* be stopped meanwhile.                                                   *)
(***************************************************************************)
EXTENDS Debounce, MdnsLookup

CONSTANTS
    Badges,         \* names of badges
    Exports,        \* exports.makit64 at startup: records of badge and level
    NoLevel,        \* the level of an export that sets no brightness
    Local           \* TRUE: the address of the panel ends in .local

Levels == 0 .. 255

ASSUME ExportsAssumption ==
    /\ Exports \in Seq([badge : Badges, level : Levels \cup {NoLevel}]) /\ Exports # << >>
    /\ NoLevel \notin Levels
    /\ Local \in BOOLEAN

VARIABLES
    present,        \* badges that the store's configuration has
    snapOld,        \* the snapshot changed since send read it
    badgeOld,       \* badges whose configuration was replaced since send read it
    pc,             \* where New, Run or send stands
    idx,            \* index of the export that is shown
    conn,           \* the CoAP connection: none, open or closed
    bright,         \* brightness of the panel
    shown,          \* index of the export whose frame the panel shows, or 0
    failed          \* the last send ended with an error

copyVars  == <<present, snapOld, badgeOld>>
panelVars == <<bright, shown>>
vars == <<loopVars, lookupVars, copyVars, pc, idx, conn, panelVars, failed>>

HasLevel(i) == Exports[i].level # NoLevel

Init ==
    /\ LoopInit /\ LookupInit
    /\ present = Badges /\ snapOld = TRUE /\ badgeOld = Badges
    /\ pc = "dial" /\ idx = 1 /\ conn = "none"
    /\ bright = NoLevel /\ shown = 0 /\ failed = FALSE

-----------------------------------------------------------------------------
(* The store.                                                              *)

Scrape ==
    /\ Write /\ snapOld' = TRUE
    /\ UNCHANGED <<lookupVars, present, badgeOld, pc, idx, conn, panelVars, failed>>

Reload ==
    /\ Write
    /\ present' \in SUBSET Badges /\ badgeOld' = Badges /\ snapOld' = TRUE
    /\ UNCHANGED <<lookupVars, pc, idx, conn, panelVars, failed>>

StoreNotify == Notify /\ UNCHANGED <<lookupVars, copyVars, pc, idx, conn, panelVars, failed>>

-----------------------------------------------------------------------------
(* New.                                                                    *)

\* resolveDialAddr, under the context that dialDevice bounds by putTimeout.
Resolve ==
    /\ pc = "dial" /\ Local
    /\ BeginLookup \/ LookupStep
    /\ UNCHANGED <<loopVars, copyVars, pc, idx, conn, panelVars, failed>>

ResolveTime ==
    /\ pc = "dial" /\ LookupTime
    /\ UNCHANGED <<loopVars, copyVars, pc, idx, conn, panelVars, failed>>

PacketArrives ==
    /\ pc = "dial" /\ Arrive
    /\ UNCHANGED <<loopVars, copyVars, pc, idx, conn, panelVars, failed>>

\* Normalisation of the address and the dial of the socket, which may fail, as does a
\* lookup without an answer.
Dial ==
    /\ pc = "dial" /\ (Local => lookup \in {"found", "failed"})
    /\ \/ conn' = "open" /\ pc' = "initial" /\ lookup # "failed"
       \/ conn' = conn /\ pc' = "off"
    /\ UNCHANGED <<loopVars, lookupVars, copyVars, idx, panelVars, failed>>

\* The first export that sets a brightness.
First(i) == HasLevel(i) /\ \A j \in 1 .. i - 1 : ~ HasLevel(j)

\* applyInitialBrightness.
SetInitial(then) ==
    \/ /\ \A i \in DOMAIN Exports : ~ HasLevel(i)
       /\ pc' = "start" /\ UNCHANGED <<bright, conn>>
    \/ \E i \in DOMAIN Exports :
          /\ First(i)
          /\ \/ pc' = "start" /\ bright' = Exports[i].level /\ conn' = conn
             \/ pc' = "off" /\ bright' \in {bright, Exports[i].level} /\ conn' = then

\* Mutant of InitialBrightness: an error ends New without closing the connection.
InitialBrightnessLeaks ==
    /\ pc = "initial" /\ SetInitial(conn)
    /\ UNCHANGED <<loopVars, lookupVars, copyVars, idx, shown, failed>>

\* Its error closes the connection and disables the exporter.
InitialBrightness ==
    /\ pc = "initial" /\ SetInitial("closed")
    /\ UNCHANGED <<loopVars, lookupVars, copyVars, idx, shown, failed>>

-----------------------------------------------------------------------------
(* Run.                                                                    *)

Start ==
    /\ pc = "start" /\ pc' = "badge"
    /\ Subscribe
    /\ UNCHANGED <<lookupVars, copyVars, idx, conn, panelVars, failed>>

HandleUpdate ==
    /\ pc = "select" /\ Update
    /\ UNCHANGED <<lookupVars, copyVars, pc, idx, conn, panelVars, failed>>

HandleTimer ==
    /\ pc = "select" /\ Expire
    /\ pc' = "badge"
    /\ UNCHANGED <<lookupVars, copyVars, idx, conn, panelVars, failed>>

\* Mutant of NextIndex: it stops at the last badge.
NextIndexStuck(i) == IF i < Len(Exports) THEN i + 1 ELSE i

NextIndex(i) == IF i < Len(Exports) THEN i + 1 ELSE 1

\* A tick of framePeriod.  The debounce timer goes on.
HandleCycle ==
    /\ pc = "select" /\ Len(Exports) > 1
    /\ idx' = NextIndex(idx) /\ pc' = "badge"
    /\ UNCHANGED <<loopVars, lookupVars, copyVars, conn, panelVars, failed>>

TimePasses == Elapse /\ UNCHANGED <<lookupVars, copyVars, pc, idx, conn, panelVars, failed>>

\* The deferred calls unsubscribe and close the connection.
Return ==
    /\ pc = "select" /\ Leave
    /\ pc' = "done" /\ conn' = "closed"
    /\ UNCHANGED <<lookupVars, copyVars, idx, panelVars, failed>>

-----------------------------------------------------------------------------
(* send.                                                                   *)

\* A badge that is missing is skipped.
ReadBadge ==
    /\ pc = "badge"
    /\ badgeOld' = badgeOld \ {Exports[idx].badge}
    /\ IF Exports[idx].badge \in present THEN pc' = "snapshot" /\ failed' = failed
                                         ELSE pc' = "select" /\ failed' = TRUE
    /\ UNCHANGED <<loopVars, lookupVars, present, snapOld, idx, conn, panelVars>>

\* Mutant of AfterRender: the brightness is set at start only.
AfterRenderFrame == "frame"

AfterRender == IF HasLevel(idx) THEN "brightness" ELSE "frame"

\* Mutant of ReadSnapshot: an update on its way is taken as served by this push.
ReadSnapshotDisarms ==
    /\ pc = "snapshot" /\ pc' = AfterRender
    /\ snapOld' = FALSE /\ timer' = NoTimer /\ ch' = FALSE
    /\ UNCHANGED <<lookupVars, writers, subscribed, ctxDone, present, badgeOld, idx, conn, panelVars, failed>>

ReadSnapshot ==
    /\ pc = "snapshot" /\ pc' = AfterRender
    /\ snapOld' = FALSE
    /\ UNCHANGED <<loopVars, lookupVars, present, badgeOld, idx, conn, panelVars, failed>>

PutBrightness ==
    /\ pc = "brightness"
    /\ \/ pc' = "frame" /\ bright' = Exports[idx].level /\ failed' = failed
       \/ pc' = "select" /\ bright' \in {bright, Exports[idx].level} /\ failed' = TRUE
    /\ UNCHANGED <<loopVars, lookupVars, copyVars, idx, conn, shown>>

PutFrame ==
    /\ pc = "frame" /\ pc' = "select"
    /\ \/ shown' = idx /\ failed' = FALSE
       \/ shown' \in {shown, idx} /\ failed' = TRUE
    /\ UNCHANGED <<loopVars, lookupVars, copyVars, idx, conn, bright>>

Stop == Cancel /\ UNCHANGED <<lookupVars, copyVars, pc, idx, conn, panelVars, failed>>

-----------------------------------------------------------------------------
StoreChange == Scrape \/ Reload
New  == Resolve \/ Dial \/ InitialBrightness
Send == ReadBadge \/ ReadSnapshot \/ PutBrightness \/ PutFrame

Next ==
    \/ StoreChange \/ StoreNotify
    \/ ResolveTime \/ PacketArrives
    \/ New
    \/ Start \/ HandleUpdate \/ HandleTimer \/ HandleCycle \/ TimePasses \/ Return
    \/ Send
    \/ Stop

Spec == Init /\ [][Next]_vars

(* Fairness.  As in PixooExporter; the ticker of framePeriod keeps firing, *)
(* and every PUT ends, after putTimeout at the latest.  Packets may come   *)
(* without end or not at all.                                              *)
Fairness ==
    /\ WF_vars(StoreNotify) /\ WF_vars(TimePasses) /\ WF_vars(ResolveTime)
    /\ WF_vars(New \/ Start \/ Send)
    /\ SF_vars(HandleUpdate) /\ SF_vars(HandleTimer) /\ SF_vars(HandleCycle) /\ SF_vars(Return)

FairSpec == Spec /\ Fairness

-----------------------------------------------------------------------------
Running == pc \notin {"dial", "initial", "start", "off", "done"}

TypeOK ==
    /\ LoopTypeOK /\ LookupTypeOK
    /\ present \subseteq Badges /\ snapOld \in BOOLEAN /\ badgeOld \subseteq Badges
    /\ pc \in {"dial", "initial", "start", "select", "badge", "snapshot", "brightness", "frame",
               "off", "done"}
    /\ idx \in DOMAIN Exports /\ conn \in {"none", "open", "closed"}
    /\ bright \in Levels \cup {NoLevel} /\ shown \in DOMAIN Exports \cup {0}
    /\ failed \in BOOLEAN

\* A change of the snapshot or of the badge on show is not missed, whatever it races
\* with, the turn of the next badge included: unless send has yet to read it or its
\* badge is missing, an update is on its way.
NoMissedChange ==
    Running /\ ~ failed =>
      /\ snapOld => Coming \/ pc \in {"badge", "snapshot"}
      /\ Exports[idx].badge \in badgeOld => Coming \/ pc = "badge"

\* Between sends, unless the last one failed, the panel shows the badge whose turn it
\* is, at the brightness this badge asks for.
PanelConsistent ==
    pc = "select" /\ ~ failed =>
      /\ shown = idx
      /\ HasLevel(idx) => bright = Exports[idx].level

\* A connection that was opened is closed on every way out of New and Run.
NoLeakedConnection == pc \in {"off", "done"} => conn # "open"

\* Every badge gets its turn, again and again, even if updates keep coming.
BadgesTakeTurns ==
    \A i \in DOMAIN Exports : []<>(ctxDone \/ pc = "off" \/ (idx = i /\ pc = "badge"))

=============================================================================
