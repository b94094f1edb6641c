----------------------------- MODULE PixooProofs -----------------------------
(***************************************************************************)
(* Proofs about the exporter for a Pixoo64: for any exported badges, any   *)
(* debounce delay and any number of goroutines that change the store.      *)
(***************************************************************************)
EXTENDS PixooExporter, TLAPS

(* Run subscribes before its first send, and a push follows a reset.       *)
Ordered ==
    /\ pc \notin {"start", "done"} => subscribed
    /\ pc = "push" => picReset

IInv == TypeOK /\ Ordered /\ NoMissedChange /\ NoIgnoredFrame

USE DEF NoTimer

-----------------------------------------------------------------------------
LEMMA TypeInit == Init => TypeOK
<1> SUFFICES ASSUME Init
             PROVE  TypeOK
  OBVIOUS
<1>1. /\ subscribed \in BOOLEAN /\ ch \in BOOLEAN /\ ctxDone \in BOOLEAN
      /\ delivered \in BOOLEAN /\ failed \in BOOLEAN
  BY Zenon DEF Init, LoopInit, Feed!Init
<1> QED
  BY <1>1, ExportedAssumption, DelayAssumption DEF Init, LoopInit, Feed!Init, TypeOK, LoopTypeOK

LEMMA TypeNext == TypeOK /\ [Next]_vars => TypeOK'
<1> SUFFICES ASSUME TypeOK, [Next]_vars
             PROVE  TypeOK'
  OBVIOUS
<1> USE ExportedAssumption, DelayAssumption DEF TypeOK, LoopTypeOK
<1>1. CASE Scrape
  BY <1>1 DEF Scrape, Write, Feed!Change, panelVars
<1>2. CASE Reload
  BY <1>2 DEF Reload, Write, Feed!Change, panelVars
<1>3. CASE StoreNotify
  BY <1>3 DEF StoreNotify, Notify, Feed!Notify, copyVars, panelVars
<1>4. CASE Start
  BY <1>4 DEF Start, Subscribe, Feed!Subscribe, copyVars, panelVars
<1>5. CASE HandleUpdate
  <2>1. ch' \in BOOLEAN
    BY <1>5, Zenon DEF HandleUpdate, Update, Feed!Receive
  <2> QED
    BY <1>5, <2>1 DEF HandleUpdate, Update, Feed!Receive, copyVars, panelVars
<1>6. CASE HandleTimer
  BY <1>6 DEF HandleTimer, Expire, storeVars, copyVars, panelVars
<1>7. CASE TimePasses
  BY <1>7 DEF TimePasses, Elapse, storeVars, copyVars, panelVars
<1>8. CASE Return
  <2>1. subscribed' \in BOOLEAN /\ ch' \in BOOLEAN
    BY <1>8, Zenon DEF Return, Leave, Feed!Unsubscribe
  <2> QED
    BY <1>8, <2>1 DEF Return, Leave, Feed!Unsubscribe, copyVars, panelVars
<1>9. CASE ReadSnapshot
  <2>1. snapOld' \in BOOLEAN /\ delivered' \in BOOLEAN
    BY <1>9, Zenon DEF ReadSnapshot
  <2> QED
    BY <1>9, <2>1 DEF ReadSnapshot, loopVars, storeVars
<1>10. CASE ReadBadge
  BY <1>10 DEF ReadBadge, loopVars, storeVars, panelVars
<1>11. CASE Rendered
  BY <1>11 DEF Rendered, loopVars, storeVars, copyVars
<1>12. CASE ResetPic
  BY <1>12 DEF ResetPic, loopVars, storeVars, copyVars
<1>13. CASE Push
  BY <1>13 DEF Push, loopVars, storeVars, copyVars
<1>14. CASE Stop
  BY <1>14 DEF Stop, Cancel, storeVars, copyVars, panelVars
<1>15. CASE UNCHANGED vars
  BY <1>15 DEF vars, loopVars, storeVars, copyVars, panelVars
<1> QED
  BY <1>1, <1>2, <1>3, <1>4, <1>5, <1>6, <1>7, <1>8, <1>9, <1>10, <1>11, <1>12,
     <1>13, <1>14, <1>15 DEF Next, StoreChange, Send

(* The state of the exporter and of its timer has its type.                *)
THEOREM TypeCorrect == Spec => []TypeOK
  BY TypeInit, TypeNext, PTL DEF Spec

-----------------------------------------------------------------------------
LEMMA OrderedNext == TypeOK /\ Ordered /\ [Next]_vars => Ordered'
<1> SUFFICES ASSUME TypeOK, Ordered, [Next]_vars
             PROVE  Ordered'
  OBVIOUS
<1> USE DEF Ordered
<1>1. CASE StoreChange \/ StoreNotify \/ TimePasses \/ Stop
  BY <1>1 DEF StoreChange, Scrape, Reload, StoreNotify, TimePasses, Stop, Write, Feed!Change,
              Notify, Feed!Notify, Elapse, Cancel, loopVars, storeVars, copyVars, panelVars
<1>2. CASE Start \/ HandleUpdate \/ HandleTimer \/ Return
  BY <1>2 DEF Start, HandleUpdate, HandleTimer, Return, Subscribe, Feed!Subscribe, Update,
              Feed!Receive, Expire, Leave, Feed!Unsubscribe, storeVars, copyVars, panelVars
<1>3. CASE Send
  BY <1>3 DEF Send, ReadSnapshot, ReadBadge, Rendered, ResetPic, Push, loopVars, storeVars,
              panelVars, copyVars
<1>4. CASE UNCHANGED vars
  BY <1>4 DEF vars, loopVars, storeVars, panelVars
<1> QED
  BY <1>1, <1>2, <1>3, <1>4 DEF Next

LEMMA MissedNext == TypeOK /\ Ordered /\ NoMissedChange /\ [Next]_vars => NoMissedChange'
<1> SUFFICES ASSUME TypeOK, Ordered, NoMissedChange, [Next]_vars
             PROVE  NoMissedChange'
  OBVIOUS
<1> USE DEF NoMissedChange, Coming, TypeOK, LoopTypeOK
<1>1. CASE StoreChange
  BY <1>1 DEF StoreChange, Scrape, Reload, Write, Feed!Change
<1>2. CASE StoreNotify
  <2>1. pc \in {"start", "done"} \/ ch'
    BY <1>2 DEF StoreNotify, Notify, Feed!Notify, Ordered
  <2> QED
    BY <1>2, <2>1 DEF StoreNotify, Notify, Feed!Notify, copyVars
<1>3. CASE Start
  BY <1>3 DEF Start
<1>4. CASE HandleUpdate
  BY <1>4, DelayAssumption DEF HandleUpdate, Update, Feed!Receive
<1>5. CASE HandleTimer
  BY <1>5 DEF HandleTimer
<1>6. CASE TimePasses
  <2>1. timer' # NoTimer
    BY <1>6 DEF TimePasses, Elapse
  <2> QED
    BY <2>1
<1>7. CASE Return
  BY <1>7 DEF Return
<1>8. CASE ReadSnapshot
  BY <1>8 DEF ReadSnapshot
<1>9. CASE ReadBadge
  <2>1. pc = "badges" /\ pc' = "badges" /\ next' = next + 1 /\ badgeOld' = badgeOld \ {Exported[next]}
        /\ snapOld' = snapOld /\ Coming' = Coming
    BY <1>9 DEF ReadBadge, loopVars, storeVars
  <2>2. ASSUME NEW i \in DOMAIN Exported, Exported[i] \in badgeOld', ~ Coming
        PROVE  next' <= i
    BY <2>1, <2>2, ExportedAssumption
  <2> QED
    BY <2>1, <2>2
<1>10. CASE Rendered
  <2>1. \A i \in DOMAIN Exported : ~ next <= i
    BY <1>10, ExportedAssumption DEF Rendered
  <2> QED
    BY <1>10, <2>1 DEF Rendered, loopVars, storeVars, copyVars
<1>11. CASE ResetPic \/ Push
  BY <1>11 DEF ResetPic, Push, loopVars, storeVars, copyVars
<1>12. CASE Stop
  BY <1>12 DEF Stop, Cancel, storeVars, copyVars
<1>13. CASE UNCHANGED vars
  BY <1>13 DEF vars, loopVars, storeVars, copyVars
<1> QED
  BY <1>1, <1>2, <1>3, <1>4, <1>5, <1>6, <1>7, <1>8, <1>9, <1>10, <1>11, <1>12, <1>13
  DEF Next, Send

LEMMA FrameNext == TypeOK /\ Ordered /\ NoIgnoredFrame /\ [Next]_vars => NoIgnoredFrame'
<1> SUFFICES ASSUME TypeOK, Ordered, NoIgnoredFrame, [Next]_vars
             PROVE  NoIgnoredFrame'
  OBVIOUS
<1> USE DEF NoIgnoredFrame, TypeOK
<1>1. CASE StoreChange \/ StoreNotify \/ TimePasses \/ Stop
  BY <1>1 DEF StoreChange, Scrape, Reload, StoreNotify, TimePasses, Stop, panelVars
<1>2. CASE Start \/ HandleUpdate \/ HandleTimer \/ Return
  BY <1>2 DEF Start, HandleUpdate, HandleTimer, Return, panelVars
<1>3. CASE ReadSnapshot \/ ReadBadge
  BY <1>3 DEF ReadSnapshot, ReadBadge
<1>4. CASE Rendered \/ ResetPic
  BY <1>4 DEF Rendered, ResetPic
<1>5. CASE Push
  BY <1>5 DEF Push, Ordered
<1>6. CASE UNCHANGED vars
  BY <1>6 DEF vars, panelVars
<1> QED
  BY <1>1, <1>2, <1>3, <1>4, <1>5, <1>6 DEF Next, Send

THEOREM Inductive == Spec => []IInv
<1>1. Init => IInv
  <2>1. Init => Ordered /\ NoMissedChange /\ NoIgnoredFrame
    BY DEF Init, LoopInit, Feed!Init, Ordered, NoMissedChange, NoIgnoredFrame
  <2> QED
    BY <2>1, TypeInit DEF IInv
<1>2. IInv /\ [Next]_vars => IInv'
  BY TypeNext, OrderedNext, MissedNext, FrameNext DEF IInv
<1> QED
  BY <1>1, <1>2, PTL DEF Spec

(* No change is missed, whatever it races with: the timer, the reads of a  *)
(* send, or the push (internal/export/pixoo/exporter.go, Run and send).    *)
THEOREM ChangeNeverMissed == Spec => []NoMissedChange
<1>1. IInv => NoMissedChange
  BY DEF IInv
<1> QED
  BY <1>1, Inductive, PTL

(* A send that seems to succeed is shown: the panel's PicID was reset      *)
(* before the animation.                                                   *)
THEOREM FrameNeverIgnored == Spec => []NoIgnoredFrame
<1>1. IInv => NoIgnoredFrame
  BY DEF IInv
<1> QED
  BY <1>1, Inductive, PTL

=============================================================================
