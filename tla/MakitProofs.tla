----------------------------- MODULE MakitProofs -----------------------------
(***************************************************************************)
(* Proofs about the exporter for a makit64 panel and the lookup it starts  *)
(* with: for any exports, any debounce delay, any times of the lookup and  *)
(* any number of goroutines that change the store.                         *)
(***************************************************************************)
EXTENDS MakitExporter, TLAPS

(* Queries sent so far fit into the time before the next one, of which     *)
(* not more than retransmit is left; a read that timed out did so at the   *)
(* time of the next query or at the deadline.                              *)
Paced ==
    Searching =>
      /\ clock < Deadline => queries * Retransmit <= nextSend /\ nextSend <= clock + Retransmit
      /\ lookup \in {"read", "timeout"} => deadline = Earlier(nextSend, Deadline)
      /\ lookup = "timeout" => clock >= deadline

(* The connection is opened once, and while there is one to subscribe for, *)
(* Run has subscribed.                                                     *)
Ordered ==
    /\ pc = "dial" => conn = "none"
    /\ Running => subscribed

(* What send has read is what the store holds, or an update is coming:     *)
(* during a send whether or not the one before failed.                     *)
Unmissed ==
    /\ pc \in {"snapshot", "brightness", "frame"} \/ (pc = "select" /\ ~ failed) =>
          (Exports[idx].badge \in badgeOld => Coming)
    /\ pc \in {"brightness", "frame"} \/ (pc = "select" /\ ~ failed) => (snapOld => Coming)

(* The frame is put after the brightness it goes with.                     *)
LevelFirst == pc = "frame" /\ HasLevel(idx) => bright = Exports[idx].level

IInv == TypeOK /\ Paced /\ Ordered /\ Unmissed /\ LevelFirst /\ PanelConsistent /\ NoLeakedConnection

USE DEF NoTimer

-----------------------------------------------------------------------------
(* The lookup.  Its steps are those of New.                                *)

LookupNext == BeginLookup \/ LookupStep \/ LookupTime \/ Arrive \/ UNCHANGED lookupVars

LEMMA LookupTypeNext == LookupTypeOK /\ LookupNext => LookupTypeOK'
<1> SUFFICES ASSUME LookupTypeOK, LookupNext
             PROVE  LookupTypeOK'
  OBVIOUS
<1> USE LookupAssumption DEF LookupTypeOK
<1>1. ASSUME NEW how \in {"found", "failed"}, EndLookup(how)
      PROVE  LookupTypeOK'
  <2>1. expired' \in BOOLEAN
    BY <1>1, Zenon DEF EndLookup
  <2> QED
    BY <1>1, <2>1 DEF EndLookup
<1>2. CASE BeginLookup
  BY <1>1, <1>2 DEF BeginLookup
<1>3. CASE CheckContext
  BY <1>1, <1>3 DEF CheckContext, Earlier
<1>4. CASE ReadPacket
  <2>1. CASE EndLookup("found")
    BY <1>1, <2>1
  <2>2. CASE inbox # << >> /\ inbox' = Tail(inbox) /\ ~ EndLookup("found")
    <3>1. inbox' \in Seq({"answer", "foreign"})
      BY <2>2
    <3> QED
      BY <1>4, <2>2, <3>1 DEF ReadPacket
  <2> QED
    BY <1>4, <2>1, <2>2 DEF ReadPacket
<1>5. CASE ReadFails
  BY <1>1, <1>5 DEF ReadFails
<1>6. CASE Resend
  BY <1>1, <1>6 DEF Resend, Earlier
<1>7. CASE GiveUp
  BY <1>1, <1>7 DEF GiveUp
<1>8. CASE Arrive
  BY <1>8 DEF Arrive
<1>9. CASE LookupTime
  <2>1. CASE LookupTick
    BY <2>1 DEF LookupTick
  <2>2. CASE Expiry
    BY <2>2 DEF Expiry
  <2> QED
    BY <1>9, <2>1, <2>2 DEF LookupTime
<1>10. CASE UNCHANGED lookupVars
  BY <1>10 DEF lookupVars
<1> QED
  BY <1>2, <1>3, <1>4, <1>5, <1>6, <1>7, <1>8, <1>9, <1>10 DEF LookupNext, LookupStep

LEMMA OneMore == \A q \in Nat, r \in Nat : (q + 1) * r = q * r + r /\ (q - 1) * r = q * r - r
  OBVIOUS

LEMMA PacedNext == LookupTypeOK /\ Paced /\ LookupNext => Paced'
<1> SUFFICES ASSUME LookupTypeOK, Paced, LookupNext
             PROVE  Paced'
  OBVIOUS
<1> USE LookupAssumption DEF LookupTypeOK, Searching, Paced
<1>1. ASSUME NEW how \in {"found", "failed"}, EndLookup(how)
      PROVE  Paced'
  BY <1>1 DEF EndLookup
<1>2. CASE BeginLookup
  BY <1>1, <1>2 DEF BeginLookup
<1>3. CASE CheckContext
  BY <1>1, <1>3 DEF CheckContext
<1>4. CASE ReadPacket
  BY <1>1, <1>4 DEF ReadPacket
<1>5. CASE ReadFails
  BY <1>1, <1>5 DEF ReadFails
<1>6. CASE Resend
  <2>1. CASE EndLookup("failed")
    BY <1>1, <2>1
  <2>2. CASE clock < Deadline /\ ~ EndLookup("failed")
    <3>1. nextSend <= clock
      BY <1>6, <2>2 DEF Resend, Earlier
    <3>2. queries' * Retransmit <= queries * Retransmit + Retransmit
      BY <1>6, <2>2, OneMore DEF Resend, Earlier
    <3>3. lookup' = "check" /\ clock' = clock /\ nextSend' = clock + Retransmit
      BY <1>6, <2>2 DEF Resend
    <3>4. queries * Retransmit <= nextSend /\ nextSend \in Int /\ queries * Retransmit \in Int
      BY <1>6, <2>2 DEF Resend
    <3>5. queries' * Retransmit \in Int
      BY <1>6, <2>2 DEF Resend, Earlier
    <3>6. queries' * Retransmit <= nextSend'
      BY <3>1, <3>2, <3>3, <3>4, <3>5
    <3> QED
      BY <3>3, <3>6
  <2>3. CASE ~ clock < Deadline /\ ~ EndLookup("failed")
    BY <1>6, <2>3 DEF Resend
  <2> QED
    BY <2>1, <2>2, <2>3
<1>7. CASE GiveUp
  BY <1>1, <1>7 DEF GiveUp
<1>8. CASE Arrive
  BY <1>8 DEF Arrive
<1>9. CASE LookupTime
  BY <1>9 DEF LookupTime, LookupTick, Expiry
<1>10. CASE UNCHANGED lookupVars
  BY <1>10 DEF lookupVars
<1> QED
  BY <1>2, <1>3, <1>4, <1>5, <1>6, <1>7, <1>8, <1>9, <1>10 DEF LookupNext, LookupStep

-----------------------------------------------------------------------------
(* The exporter.                                                           *)

LEMMA StepsOfLookup == [Next]_vars => LookupNext
  BY DEF Next, vars, LookupNext, StoreChange, Scrape, Reload, StoreNotify, ResolveTime,
         PacketArrives, New, Resolve, Dial, InitialBrightness, Start, HandleUpdate, HandleTimer,
         HandleCycle, TimePasses, Return, Send, ReadBadge, ReadSnapshot, PutBrightness, PutFrame,
         Stop

(* A step of the lookup leaves the rest of New where it is.                *)
Looking == Resolve \/ ResolveTime \/ PacketArrives

LEMMA LookingStutters ==
    Looking => UNCHANGED <<loopVars, copyVars, pc, idx, conn, panelVars, failed>>
  BY DEF Looking, Resolve, ResolveTime, PacketArrives

(* The type of the variables that are not the lookup's.                    *)
RestTypeOK ==
    /\ LoopTypeOK
    /\ present \subseteq Badges /\ snapOld \in BOOLEAN /\ badgeOld \subseteq Badges
    /\ pc \in {"dial", "initial", "start", "select", "badge", "snapshot", "brightness", "frame",
               "off", "done"}
    /\ idx \in DOMAIN Exports /\ conn \in {"none", "open", "closed"}
    /\ bright \in Levels \cup {NoLevel} /\ shown \in DOMAIN Exports \cup {0}
    /\ failed \in BOOLEAN

LEMMA TypeInit == Init => TypeOK
<1> SUFFICES ASSUME Init
             PROVE  TypeOK
  OBVIOUS
<1>1. /\ subscribed \in BOOLEAN /\ ch \in BOOLEAN /\ ctxDone \in BOOLEAN
      /\ expired \in BOOLEAN /\ failed \in BOOLEAN
  BY Zenon DEF Init, LoopInit, Feed!Init, LookupInit
<1>2. LoopTypeOK
  BY <1>1, DelayAssumption DEF Init, LoopInit, Feed!Init, LoopTypeOK
<1>3. LookupTypeOK
  BY <1>1, LookupAssumption DEF Init, LookupInit, LookupTypeOK
<1> QED
  BY <1>1, <1>2, <1>3, ExportsAssumption DEF Init, TypeOK

LEMMA LoopTypeNext == RestTypeOK /\ [Next]_vars => LoopTypeOK'
<1> SUFFICES ASSUME RestTypeOK, [Next]_vars
             PROVE  LoopTypeOK'
  OBVIOUS
<1> USE DelayAssumption DEF RestTypeOK, LoopTypeOK
<1>1. CASE StoreChange \/ StoreNotify
  BY <1>1 DEF StoreChange, Scrape, Reload, StoreNotify, Write, Feed!Change, Notify, Feed!Notify
<1>2. CASE Start
  BY <1>2 DEF Start, Subscribe, Feed!Subscribe
<1>3. CASE HandleUpdate
  <2>1. ch' \in BOOLEAN
    BY <1>3, Zenon DEF HandleUpdate, Update, Feed!Receive
  <2> QED
    BY <1>3, <2>1 DEF HandleUpdate, Update, Feed!Receive
<1>4. CASE HandleTimer
  BY <1>4 DEF HandleTimer, Expire, storeVars
<1>5. CASE TimePasses
  BY <1>5 DEF TimePasses, Elapse, storeVars
<1>6. CASE Return
  <2>1. subscribed' \in BOOLEAN /\ ch' \in BOOLEAN
    BY <1>6, Zenon DEF Return, Leave, Feed!Unsubscribe
  <2> QED
    BY <1>6, <2>1 DEF Return, Leave, Feed!Unsubscribe
<1>7. CASE Stop
  BY <1>7 DEF Stop, Cancel, storeVars
<1>8. CASE Looking \/ Dial \/ InitialBrightness \/ HandleCycle \/ Send \/ UNCHANGED vars
  <2>1. UNCHANGED loopVars
    BY <1>8, LookingStutters DEF Dial, InitialBrightness, HandleCycle, Send, ReadBadge,
       ReadSnapshot, PutBrightness, PutFrame, vars
  <2> QED
    BY <2>1 DEF loopVars, storeVars
<1> QED
  BY <1>1, <1>2, <1>3, <1>4, <1>5, <1>6, <1>7, <1>8 DEF Next, New, Looking

LEMMA ElementType == ASSUME NEW S, NEW s \in Seq(S), NEW i \in DOMAIN s
                     PROVE  s[i] \in S
  OBVIOUS

LEMMA LevelType == \A i \in DOMAIN Exports : Exports[i].level \in Levels \cup {NoLevel}
<1> SUFFICES ASSUME NEW i \in DOMAIN Exports
             PROVE  Exports[i].level \in Levels \cup {NoLevel}
  OBVIOUS
<1>1. Exports[i] \in [badge : Badges, level : Levels \cup {NoLevel}]
  BY ExportsAssumption, ElementType, Zenon
<1>2. ASSUME NEW e \in [badge : Badges, level : Levels \cup {NoLevel}]
      PROVE  e.level \in Levels \cup {NoLevel}
  OBVIOUS
<1> QED
  BY <1>1, <1>2

LEMMA RestTypeNext == RestTypeOK /\ [Next]_vars => RestTypeOK'
<1> SUFFICES ASSUME RestTypeOK, [Next]_vars
             PROVE  RestTypeOK'
  OBVIOUS
<1>0. LoopTypeOK'
  BY LoopTypeNext
<1> USE <1>0, ExportsAssumption DEF RestTypeOK
<1>1. CASE StoreChange \/ StoreNotify \/ TimePasses \/ Stop
  BY <1>1 DEF StoreChange, Scrape, Reload, StoreNotify, TimePasses, Stop, copyVars, panelVars
<1>2. CASE Dial
  BY <1>2 DEF Dial, copyVars, panelVars
<1>3. CASE InitialBrightness
  <2>1. /\ pc' \in {"start", "off"} /\ conn' \in {conn, "closed"}
        /\ bright' = bright \/ \E i \in DOMAIN Exports : HasLevel(i) /\ bright' = Exports[i].level
    BY <1>3 DEF InitialBrightness, SetInitial, First
  <2>2. bright' \in Levels \cup {NoLevel}
    BY <2>1, LevelType
  <2> QED
    BY <1>3, <2>1, <2>2 DEF InitialBrightness, copyVars
<1>4. CASE Start \/ HandleUpdate \/ HandleTimer \/ Return
  BY <1>4 DEF Start, HandleUpdate, HandleTimer, Return, copyVars, panelVars
<1>5. CASE HandleCycle
  BY <1>5 DEF HandleCycle, NextIndex, copyVars, panelVars
<1>6. CASE ReadBadge
  BY <1>6 DEF ReadBadge, panelVars
<1>7. CASE ReadSnapshot
  <2>1. snapOld' \in BOOLEAN
    BY <1>7, Zenon DEF ReadSnapshot
  <2> QED
    BY <1>7, <2>1 DEF ReadSnapshot, AfterRender, panelVars
<1>8. CASE PutBrightness
  <2>1. bright' \in Levels \cup {NoLevel}
    BY <1>8, LevelType DEF PutBrightness
  <2> QED
    BY <1>8, <2>1 DEF PutBrightness, copyVars
<1>9. CASE PutFrame
  <2>1. failed' \in BOOLEAN
    BY <1>9, Zenon DEF PutFrame
  <2> QED
    BY <1>9, <2>1 DEF PutFrame, copyVars
<1>10. CASE Looking \/ UNCHANGED vars
  <2>1. UNCHANGED <<copyVars, pc, idx, conn, panelVars, failed>>
    BY <1>10, LookingStutters DEF vars
  <2> QED
    BY <2>1 DEF copyVars, panelVars
<1> QED
  BY <1>1, <1>2, <1>3, <1>4, <1>5, <1>6, <1>7, <1>8, <1>9, <1>10 DEF Next, New, Send, Looking

LEMMA TypeNext == TypeOK /\ [Next]_vars => TypeOK'
<1>1. TypeOK <=> LookupTypeOK /\ RestTypeOK
  BY DEF TypeOK, RestTypeOK
<1>2. TypeOK' <=> LookupTypeOK' /\ RestTypeOK'
  BY DEF TypeOK, RestTypeOK
<1> QED
  BY <1>1, <1>2, StepsOfLookup, LookupTypeNext, RestTypeNext

(* The state of the exporter and of its lookup has its type.               *)
THEOREM TypeCorrect == Spec => []TypeOK
  BY TypeInit, TypeNext, PTL DEF Spec

LEMMA OrderedNext == TypeOK /\ Ordered /\ [Next]_vars => Ordered'
<1> SUFFICES ASSUME TypeOK, Ordered, [Next]_vars
             PROVE  Ordered'
  OBVIOUS
<1> USE DEF Ordered, Running
<1>1. CASE StoreChange \/ StoreNotify \/ TimePasses \/ Stop
  BY <1>1 DEF StoreChange, Scrape, Reload, StoreNotify, TimePasses, Stop, Write, Feed!Change,
              Notify, Feed!Notify, Elapse, Cancel, storeVars
<1>2. CASE Dial \/ InitialBrightness
  BY <1>2 DEF Dial, InitialBrightness, SetInitial
<1>3. CASE Start \/ HandleUpdate \/ HandleTimer \/ HandleCycle \/ Return
  BY <1>3 DEF Start, HandleUpdate, HandleTimer, HandleCycle, Return, Subscribe, Feed!Subscribe,
              Update, Feed!Receive, Expire, Leave, Feed!Unsubscribe, loopVars, storeVars
<1>4. CASE Send
  BY <1>4 DEF Send, ReadBadge, ReadSnapshot, AfterRender, PutBrightness, PutFrame, loopVars,
              storeVars
<1>5. CASE Looking \/ UNCHANGED vars
  <2>1. UNCHANGED <<loopVars, pc, conn>>
    BY <1>5, LookingStutters DEF vars
  <2> QED
    BY <2>1 DEF loopVars, storeVars
<1> QED
  BY <1>1, <1>2, <1>3, <1>4, <1>5 DEF Next, New, Looking

LEMMA UnmissedNext == TypeOK /\ Ordered /\ Unmissed /\ [Next]_vars => Unmissed'
<1> SUFFICES ASSUME TypeOK, Ordered, Unmissed, [Next]_vars
             PROVE  Unmissed'
  OBVIOUS
<1> USE DEF Unmissed, Coming
<1>1. CASE StoreChange
  BY <1>1 DEF StoreChange, Scrape, Reload, Write, Feed!Change, TypeOK, LoopTypeOK
<1>2. CASE StoreNotify
  <2>1. Running => ch'
    BY <1>2 DEF StoreNotify, Notify, Feed!Notify, Ordered
  <2> QED
    BY <1>2, <2>1 DEF StoreNotify, Running
<1>3. CASE Dial \/ InitialBrightness \/ Start \/ Return
  BY <1>3 DEF Dial, InitialBrightness, SetInitial, Start, Return
<1>4. CASE HandleUpdate
  BY <1>4, DelayAssumption DEF HandleUpdate, Update, Feed!Receive
<1>5. CASE HandleTimer \/ HandleCycle
  BY <1>5 DEF HandleTimer, HandleCycle
<1>6. CASE TimePasses
  <2>1. timer' # NoTimer
    BY <1>6 DEF TimePasses, Elapse, TypeOK, LoopTypeOK
  <2> QED
    BY <2>1
<1>7. CASE ReadBadge
  BY <1>7 DEF ReadBadge
<1>8. CASE ReadSnapshot
  <2>1. UNCHANGED <<writers, ch, timer>>
    BY <1>8 DEF ReadSnapshot, loopVars, storeVars
  <2> QED
    BY <1>8, <2>1 DEF ReadSnapshot, AfterRender
<1>9. CASE PutBrightness \/ PutFrame
  <2>1. UNCHANGED <<writers, ch, timer, copyVars, idx>> /\ pc' \in {"select", "frame"}
    BY <1>9 DEF PutBrightness, PutFrame, loopVars, storeVars
  <2> QED
    BY <1>9, <2>1 DEF PutBrightness, PutFrame, copyVars
<1>10. CASE Stop
  BY <1>10 DEF Stop, Cancel, storeVars, copyVars
<1>11. CASE Looking \/ UNCHANGED vars
  <2>1. UNCHANGED <<loopVars, copyVars, pc, idx, failed>>
    BY <1>11, LookingStutters DEF vars
  <2> QED
    BY <2>1 DEF loopVars, storeVars, copyVars
<1> QED
  BY <1>1, <1>2, <1>3, <1>4, <1>5, <1>6, <1>7, <1>8, <1>9, <1>10, <1>11
  DEF Next, New, Send, Looking

Panel == LevelFirst /\ PanelConsistent

LEMMA PanelNext == TypeOK /\ Panel /\ [Next]_vars => Panel'
<1> SUFFICES ASSUME TypeOK, Panel, [Next]_vars
             PROVE  Panel'
  OBVIOUS
<1> USE DEF Panel, LevelFirst, PanelConsistent, HasLevel
<1>1. CASE StoreChange \/ StoreNotify \/ TimePasses \/ Stop
  BY <1>1 DEF StoreChange, Scrape, Reload, StoreNotify, TimePasses, Stop, panelVars
<1>2. CASE Dial \/ InitialBrightness
  BY <1>2 DEF Dial, InitialBrightness, SetInitial
<1>3. CASE Start \/ HandleUpdate \/ HandleTimer \/ HandleCycle \/ Return
  BY <1>3 DEF Start, HandleUpdate, HandleTimer, HandleCycle, Return, panelVars
<1>4. CASE ReadBadge
  BY <1>4 DEF ReadBadge, panelVars
<1>5. CASE ReadSnapshot
  BY <1>5 DEF ReadSnapshot, AfterRender
<1>6. CASE PutBrightness
  BY <1>6 DEF PutBrightness
<1>7. CASE PutFrame
  BY <1>7 DEF PutFrame
<1>8. CASE Looking \/ UNCHANGED vars
  <2>1. UNCHANGED <<pc, idx, panelVars, failed>>
    BY <1>8, LookingStutters DEF vars
  <2> QED
    BY <2>1 DEF panelVars
<1> QED
  BY <1>1, <1>2, <1>3, <1>4, <1>5, <1>6, <1>7, <1>8 DEF Next, New, Send, Looking

LEMMA ConnectionNext == Ordered /\ NoLeakedConnection /\ [Next]_vars => NoLeakedConnection'
<1> SUFFICES ASSUME Ordered, NoLeakedConnection, [Next]_vars
             PROVE  NoLeakedConnection'
  OBVIOUS
<1> USE DEF NoLeakedConnection
<1>1. CASE StoreChange \/ StoreNotify \/ TimePasses \/ Stop
  BY <1>1 DEF StoreChange, Scrape, Reload, StoreNotify, TimePasses, Stop
<1>2. CASE Dial
  BY <1>2 DEF Dial, Ordered
<1>3. CASE InitialBrightness
  BY <1>3 DEF InitialBrightness, SetInitial
<1>4. CASE Start \/ HandleUpdate \/ HandleTimer \/ HandleCycle \/ Return
  BY <1>4 DEF Start, HandleUpdate, HandleTimer, HandleCycle, Return
<1>5. CASE Send
  BY <1>5 DEF Send, ReadBadge, ReadSnapshot, AfterRender, PutBrightness, PutFrame
<1>6. CASE Looking \/ UNCHANGED vars
  BY <1>6, LookingStutters DEF vars
<1> QED
  BY <1>1, <1>2, <1>3, <1>4, <1>5, <1>6 DEF Next, New, Looking

THEOREM Inductive == Spec => []IInv
<1>1. Init => IInv
  <2>1. Init => Paced /\ Ordered /\ Unmissed /\ LevelFirst /\ PanelConsistent /\ NoLeakedConnection
    BY DEF Init, LookupInit, LoopInit, Feed!Init, Paced, Searching, Ordered, Running, Unmissed,
           LevelFirst, PanelConsistent, NoLeakedConnection
  <2> QED
    BY <2>1, TypeInit DEF IInv
<1>2. IInv /\ [Next]_vars => IInv'
  <2>1. TypeOK => LookupTypeOK
    BY DEF TypeOK
  <2> QED
    BY <2>1, TypeNext, StepsOfLookup, PacedNext, OrderedNext, UnmissedNext, PanelNext,
       ConnectionNext DEF IInv, Panel
<1> QED
  BY <1>1, <1>2, PTL DEF Spec

(* No change of the snapshot or of the badge on show is missed, whatever   *)
(* it races with (Run and send of internal/export/makit/exporter.go).      *)
THEOREM ChangeNeverMissed == Spec => []NoMissedChange
<1>1. IInv => NoMissedChange
  BY DEF IInv, TypeOK, Unmissed, NoMissedChange, Running
<1> QED
  BY <1>1, Inductive, PTL

(* Between sends that succeed the panel shows the badge whose turn it is,  *)
(* at its brightness.                                                      *)
THEOREM PanelAlwaysConsistent == Spec => []PanelConsistent
<1>1. IInv => PanelConsistent
  BY DEF IInv
<1> QED
  BY <1>1, Inductive, PTL

(* No way out of New or Run leaves the CoAP connection open.               *)
THEOREM ConnectionNeverLeaked == Spec => []NoLeakedConnection
<1>1. IInv => NoLeakedConnection
  BY DEF IInv
<1> QED
  BY <1>1, Inductive, PTL

(* The lookup keeps retransmit between its queries up to its deadline      *)
(* (LookupA of internal/mdns/lookup.go).                                   *)
THEOREM QueriesAlwaysPaced == Spec => []QueriesPaced
<1>1. IInv => QueriesPaced
  <2> SUFFICES ASSUME IInv, Searching, clock < Deadline
               PROVE  (queries - 1) * Retransmit <= clock
    BY DEF QueriesPaced
  <2>1. queries \in Nat /\ clock \in Nat /\ Retransmit \in Nat /\ nextSend \in Nat
    BY LookupAssumption DEF IInv, TypeOK, LookupTypeOK
  <2>2. queries * Retransmit <= nextSend /\ nextSend <= clock + Retransmit
    BY DEF IInv, Paced
  <2> QED
    BY <2>1, <2>2, OneMore
<1> QED
  BY <1>1, Inductive, PTL

=============================================================================
