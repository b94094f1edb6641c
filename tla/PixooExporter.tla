---------------------------- MODULE PixooExporter ----------------------------
(***************************************************************************)
(* The exporter that pushes badges to a Pixoo64                            *)
(* (internal/export/pixoo/exporter.go), from Run on.                       *)
(*                                                                         *)
(* What the snapshot and a badge's configuration contain does not matter,  *)
(* only whether the copy that the last push was made from is older than    *)
(* what the store holds: snapOld and badgeOld.  Each read of the store is  *)
(* a step, since the store may change between them.                        *)
(***************************************************************************)
EXTENDS Debounce, Sequences

CONSTANTS
    Badges,         \* names of badges
    Exported        \* exports.pixoo64[].badge at startup: badgeNames

ASSUME ExportedAssumption == Exported \in Seq(Badges) /\ Exported # << >>

VARIABLES
    present,        \* badges that the store's configuration has
    snapOld,        \* the snapshot changed since send read it
    badgeOld,       \* badges whose configuration was replaced since send read it
    pc,             \* where Run stands
    next,           \* index of the next badge send reads
    frames,         \* indices of the badges rendered for this push
    picReset,       \* the panel's PicID was reset after its last animation
    delivered,      \* the panel shows the frames of the last send
    failed          \* the last send ended with an error

copyVars  == <<present, snapOld, badgeOld>>
panelVars == <<picReset, delivered, failed>>
vars == <<loopVars, copyVars, pc, next, frames, panelVars>>

Init ==
    /\ LoopInit
    /\ present = Badges /\ snapOld = TRUE /\ badgeOld = Badges
    /\ pc = "start" /\ next = 1 /\ frames = {}
    /\ picReset = TRUE /\ delivered = FALSE /\ failed = FALSE

-----------------------------------------------------------------------------
(* The store.                                                              *)

\* A result is applied to the snapshot.
Scrape ==
    /\ Write /\ snapOld' = TRUE
    /\ UNCHANGED <<present, badgeOld, pc, next, frames, panelVars>>

\* Another configuration: its badges, and the snapshot reduced to its nodes.  The
\* exporter goes on with the badges exported at startup.
Reload ==
    /\ Write
    /\ present' \in SUBSET Badges /\ badgeOld' = Badges /\ snapOld' = TRUE
    /\ UNCHANGED <<pc, next, frames, panelVars>>

StoreNotify == Notify /\ UNCHANGED <<copyVars, pc, next, frames, panelVars>>

-----------------------------------------------------------------------------
(* Run.                                                                    *)

Start ==
    /\ pc = "start" /\ pc' = "snapshot"
    /\ Subscribe
    /\ UNCHANGED <<copyVars, next, frames, panelVars>>

HandleUpdate ==
    /\ pc = "select" /\ Update
    /\ UNCHANGED <<copyVars, pc, next, frames, panelVars>>

HandleTimer ==
    /\ pc = "select" /\ Expire
    /\ pc' = "snapshot"
    /\ UNCHANGED <<copyVars, next, frames, panelVars>>

TimePasses == Elapse /\ UNCHANGED <<copyVars, pc, next, frames, panelVars>>

Return ==
    /\ pc = "select" /\ Leave
    /\ pc' = "done"
    /\ UNCHANGED <<copyVars, next, frames, panelVars>>

-----------------------------------------------------------------------------
(* send.                                                                   *)

ReadSnapshot ==
    /\ pc = "snapshot" /\ pc' = "badges"
    /\ snapOld' = FALSE
    /\ next' = 1 /\ frames' = {}
    /\ delivered' = FALSE
    /\ UNCHANGED <<loopVars, present, badgeOld, picReset, failed>>

\* BadgeByName and BadgeImage; a badge that is missing is skipped.  Badges of a valid
\* configuration can be rendered.
ReadBadge ==
    /\ pc = "badges" /\ next \in DOMAIN Exported
    /\ badgeOld' = badgeOld \ {Exported[next]}
    /\ frames' = IF Exported[next] \in present THEN frames \cup {next} ELSE frames
    /\ next' = next + 1
    /\ UNCHANGED <<loopVars, present, snapOld, pc, panelVars>>

Rendered ==
    /\ pc = "badges" /\ next \notin DOMAIN Exported
    /\ pc' = IF frames = {} THEN "select" ELSE "reset"
    /\ failed' = (frames = {})
    /\ UNCHANGED <<loopVars, copyVars, next, frames, picReset, delivered>>

\* Mutant of ResetPic: the request is not made.
ResetPicSkipped ==
    /\ pc = "reset" /\ pc' = "push"
    /\ UNCHANGED <<loopVars, copyVars, next, frames, panelVars>>

\* ResetSendingAnimationPicID.  A request that fails may have reached the panel.
ResetPic ==
    /\ pc = "reset"
    /\ \/ pc' = "push" /\ picReset' = TRUE /\ failed' = FALSE
       \/ pc' = "select" /\ picReset' \in {picReset, TRUE} /\ failed' = TRUE
    /\ UNCHANGED <<loopVars, copyVars, next, frames, delivered>>

\* Mutant of Push: updates that came during the push are taken as served by it.
PushDrains ==
    /\ pc = "push" /\ pc' = "select"
    /\ ch' = FALSE
    /\ failed' \in BOOLEAN
    /\ delivered' = (picReset /\ ~ failed')
    /\ picReset' \in {picReset, FALSE} /\ (~ failed' => ~ picReset')
    /\ UNCHANGED <<writers, subscribed, timer, ctxDone, copyVars, next, frames>>

\* SendAnimationImgs.  The panel keeps its frame if the PicID is reused without reset.
Push ==
    /\ pc = "push" /\ pc' = "select"
    /\ failed' \in BOOLEAN
    /\ delivered' = (picReset /\ ~ failed')
    /\ picReset' \in {picReset, FALSE} /\ (~ failed' => ~ picReset')
    /\ UNCHANGED <<loopVars, copyVars, next, frames>>

Stop == Cancel /\ UNCHANGED <<copyVars, pc, next, frames, panelVars>>

-----------------------------------------------------------------------------
StoreChange == Scrape \/ Reload
Send == ReadSnapshot \/ ReadBadge \/ Rendered \/ ResetPic \/ Push

Next ==
    \/ StoreChange \/ StoreNotify
    \/ Start \/ HandleUpdate \/ HandleTimer \/ TimePasses \/ Return
    \/ Send
    \/ Stop

Spec == Init /\ [][Next]_vars

(* Fairness.  Goroutines that can run do, requests to the panel end, time  *)
(* passes, and a select does not ignore a ready case forever.  The store   *)
(* need not change and mon64 need not be stopped.                          *)
Fairness ==
    /\ WF_vars(StoreNotify) /\ WF_vars(TimePasses)
    /\ WF_vars(Start \/ Send)
    /\ SF_vars(HandleUpdate) /\ SF_vars(HandleTimer) /\ SF_vars(Return)

FairSpec == Spec /\ Fairness

-----------------------------------------------------------------------------
Names == {Exported[i] : i \in DOMAIN Exported}

TypeOK ==
    /\ LoopTypeOK
    /\ present \subseteq Badges /\ snapOld \in BOOLEAN /\ badgeOld \subseteq Badges
    /\ pc \in {"start", "select", "snapshot", "badges", "reset", "push", "done"}
    /\ next \in 1 .. Len(Exported) + 1 /\ frames \subseteq DOMAIN Exported
    /\ picReset \in BOOLEAN /\ delivered \in BOOLEAN /\ failed \in BOOLEAN

\* A change of the snapshot or of an exported badge is not missed, whatever it races
\* with: unless send has yet to read it, an update is on its way.
NoMissedChange ==
    pc # "done" =>
      /\ snapOld => Coming \/ pc \in {"start", "snapshot"}
      /\ \A i \in DOMAIN Exported : Exported[i] \in badgeOld =>
            Coming \/ pc \in {"start", "snapshot"} \/ (pc = "badges" /\ next <= i)

\* What a send renders reaches the panel, or the failure is noticed: the panel does
\* not go on showing an older frame after a push that seemed to succeed.
NoIgnoredFrame == pc = "select" => delivered \/ failed

Current == delivered /\ ~ snapOld /\ badgeOld \cap Names = {}

\* Once the store stops changing, the panel comes to show it and stays so, unless a
\* push failed or mon64 is stopped.
SettlesOnCurrent ==
    <>[][~ StoreChange]_vars => <>[](Current \/ failed \/ ctxDone)

\* Run returns when mon64 is stopped, even if updates keep coming.
ExporterEnds == ctxDone ~> pc = "done"

=============================================================================
