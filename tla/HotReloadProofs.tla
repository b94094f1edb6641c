-------------------------- MODULE HotReloadProofs --------------------------
(***************************************************************************)
(* Theorems about the way from the configuration file to the store, for    *)
(* any number of edits and signals.                                        *)
(***************************************************************************)
EXTENDS HotReload, TLAPS

\* TypeOK in three parts, each for one kind of prover; the set of calls has a name.
Calls == [id : Nat, pc : {"load", "apply"}, v : Nat \ Invalid]
Numbers ==
    version \in Nat /\ events \in Nat /\ waiters \in Nat /\ ticks \in Nat /\ hups \in Nat
Flags ==
    /\ sighup \in BOOLEAN /\ seen \in BOOLEAN /\ noticed \in BOOLEAN
    /\ overlapped \in BOOLEAN /\ ctxDone \in BOOLEAN
Rest ==
    /\ form \in {"whole", "torn", "missing"} /\ timer \in {"idle", "armed", "fired"}
    /\ watch \in {"starting", "on", "off"}
    /\ reloads \subseteq Calls /\ cfg \in Nat \ Invalid

LEMMA Parts == TypeOK <=> Numbers /\ Flags /\ Rest
BY DEF TypeOK, Numbers, Flags, Rest, Calls

LEMMA CallType == \A id \in Nat : Call(id) \in Calls
BY FirstIsValid DEF Call, Calls

LEMMA TypeInit == Init => TypeOK
<1>1. Init => Numbers
  BY DEF Init, Numbers
<1>2. Init => Flags
  BY DEF Init, Flags
<1>3. Init => Rest
  BY FirstIsValid DEF Init, Rest
<1> QED
  BY <1>1, <1>2, <1>3, Parts

LEMMA NumbersNext == Numbers /\ [Next]_vars => Numbers'
<1> SUFFICES ASSUME Numbers, [Next]_vars PROVE Numbers'
  OBVIOUS
<1> USE DEF Numbers, fileVars, watchVars, hupVars, readVars
<1>1. CASE Editor
  BY <1>1 DEF Editor, Replace, Truncate, Complete, Remove, Edit, Emit
<1>2. CASE Watcher \/ Fire \/ TakeTick \/ WaiterReturns \/ Hangup \/ TakeHup
  BY <1>2 DEF Watcher, WatchStarts, WatchFails, HandleEvent, WatchReturns, Fire,
              TakeTick, WaiterReturns, Hangup, TakeHup
<1>3. CASE \E c \in reloads : Load(c) \/ Apply(c)
  BY <1>3 DEF Load, Apply
<1>4. CASE Cancel \/ UNCHANGED vars
  BY <1>4 DEF Cancel, vars
<1> QED
  BY <1>1, <1>2, <1>3, <1>4 DEF Next

LEMMA FlagsNext == Flags /\ [Next]_vars => Flags'
<1> SUFFICES ASSUME Flags, [Next]_vars PROVE Flags'
  OBVIOUS
<1> USE DEF Flags, fileVars, watchVars, hupVars, readVars
<1>1. CASE Editor
  BY <1>1 DEF Editor, Replace, Truncate, Complete, Remove, Edit, Emit
<1>2. CASE Watcher \/ Fire \/ TakeTick \/ WaiterReturns \/ Hangup \/ TakeHup
  BY <1>2 DEF Watcher, WatchStarts, WatchFails, HandleEvent, WatchReturns, Fire,
              TakeTick, WaiterReturns, Hangup, TakeHup
<1>3. CASE \E c \in reloads : Load(c) \/ Apply(c)
  BY <1>3 DEF Load, Apply
<1>4. CASE Cancel \/ UNCHANGED vars
  BY <1>4 DEF Cancel, vars
<1> QED
  BY <1>1, <1>2, <1>3, <1>4 DEF Next

LEMMA RestNext == Numbers /\ Rest /\ [Next]_vars => Rest'
<1> SUFFICES ASSUME Numbers, Rest, [Next]_vars PROVE Rest'
  OBVIOUS
<1> USE DEF Rest, fileVars, watchVars, hupVars, readVars
<1>1. CASE Editor
  BY <1>1 DEF Editor, Replace, Truncate, Complete, Remove, Edit, Emit
<1>2. CASE Watcher \/ Fire \/ WaiterReturns \/ Hangup \/ Cancel \/ UNCHANGED vars
  BY <1>2 DEF Watcher, WatchStarts, WatchFails, HandleEvent, WatchReturns, Fire,
              WaiterReturns, Hangup, Cancel, vars
<1>3. CASE TakeTick
  BY <1>3, CallType DEF TakeTick, Numbers
<1>4. CASE TakeHup
  BY <1>4, CallType DEF TakeHup
<1>5. ASSUME NEW c \in reloads, Load(c) PROVE Rest'
  <2>1. Loadable => [c EXCEPT !.pc = "apply", !.v = version] \in Calls
    BY DEF Loadable, Calls, Numbers
  <2>2. reloads' \subseteq Calls
    BY <1>5, <2>1 DEF Load
  <2> QED
    BY <1>5, <2>2 DEF Load
<1>6. ASSUME NEW c \in reloads, Apply(c) PROVE Rest'
  BY <1>6 DEF Apply, Calls
<1> QED
  BY <1>1, <1>2, <1>3, <1>4, <1>5, <1>6 DEF Next

LEMMA TypeNext == TypeOK /\ [Next]_vars => TypeOK'
<1>1. TypeOK' <=> Numbers' /\ Flags' /\ Rest'
  BY Parts, PTL
<1> QED
  BY <1>1, Parts, NumbersNext, FlagsNext, RestNext

\* The store never holds a version that is invalid; the other variables have their types.
THEOREM TypeCorrect == Spec => []TypeOK
BY TypeInit, TypeNext, PTL DEF Spec

-----------------------------------------------------------------------------
(* The debounce.  An armed or fired timer has a goroutine to receive its   *)
(* tick as long as the context lives: each Reset comes with a goroutine,   *)
(* and a tick takes one goroutine and disarms the timer.                   *)

DebounceInv ==
    /\ NoLostEdit
    /\ timer # "idle" /\ ~ ctxDone => waiters > 0

LEMMA DebounceInit == Init => DebounceInv
BY DEF Init, DebounceInv, NoLostEdit

LEMMA DebounceNext == TypeOK /\ DebounceInv /\ [Next]_vars => DebounceInv'
<1> SUFFICES ASSUME TypeOK, DebounceInv, [Next]_vars PROVE DebounceInv'
  OBVIOUS
<1> USE DEF TypeOK, DebounceInv, NoLostEdit, fileVars, watchVars, hupVars, readVars
<1>1. CASE Editor
  BY <1>1 DEF Editor, Replace, Truncate, Complete, Remove, Edit, Emit
<1>2. CASE Watcher \/ Fire \/ WaiterReturns \/ Hangup \/ Cancel \/ UNCHANGED vars
  BY <1>2 DEF Watcher, WatchStarts, WatchFails, HandleEvent, WatchReturns, Fire,
              WaiterReturns, Hangup, Cancel, vars
<1>3. CASE TakeTick
  <2>1. Call(ticks + 1) \in reloads' /\ Call(ticks + 1).pc = "load"
    BY <1>3 DEF TakeTick, Call
  <2> QED
    BY <1>3, <2>1 DEF TakeTick
<1>4. CASE TakeHup
  BY <1>4 DEF TakeHup
<1>5. ASSUME NEW c \in reloads, Load(c) PROVE DebounceInv'
  BY <1>5 DEF Load
<1>6. ASSUME NEW c \in reloads, Apply(c) PROVE DebounceInv'
  BY <1>6 DEF Apply
<1> QED
  BY <1>1, <1>2, <1>3, <1>4, <1>5, <1>6 DEF Next

\* However edits, timers and signals interleave, an edit that is noticed is read after it
\* was made.
THEOREM EditNeverLost == Spec => []NoLostEdit
<1>1. DebounceInv => NoLostEdit
  BY DEF DebounceInv
<1> QED
  BY <1>1, DebounceInit, DebounceNext, TypeCorrect, PTL DEF Spec

-----------------------------------------------------------------------------
(* Order.  Without overlap one call at most holds a content, it is not     *)
(* older than the store's, and once the present content was read it is the *)
(* one that is held, or the store's when none is, unless it is refused.    *)

Holding(c) == c \in reloads /\ c.pc = "apply"

OrderInv ==
    /\ cfg <= version
    /\ \A c \in reloads : c.v <= version
    /\ ~ overlapped =>
         /\ \A c, d \in reloads : Holding(c) /\ Holding(d) => c = d
         /\ \A c \in reloads : Holding(c) => cfg <= c.v
         /\ seen /\ Acceptable => \/ cfg = version /\ \A c \in reloads : ~ Holding(c)
                                  \/ \E c \in reloads : Holding(c) /\ c.v = version

LEMMA OrderInit == Init => OrderInv
BY DEF Init, OrderInv

LEMMA OrderNext == TypeOK /\ OrderInv /\ [Next]_vars => OrderInv'
<1> SUFFICES ASSUME TypeOK, OrderInv, [Next]_vars PROVE OrderInv'
  OBVIOUS
<1> USE DEF TypeOK, OrderInv, Holding, Loadable, Acceptable, fileVars, watchVars,
            hupVars, readVars
<1>1. CASE Editor
  BY <1>1 DEF Editor, Replace, Truncate, Complete, Remove, Edit
<1>2. CASE Watcher \/ Fire \/ WaiterReturns \/ Hangup \/ Cancel \/ UNCHANGED vars
  BY <1>2 DEF Watcher, WatchStarts, WatchFails, HandleEvent, WatchReturns, Fire,
              WaiterReturns, Hangup, Cancel, vars
<1>3. CASE TakeTick \/ TakeHup
  <2>1. \E id \in Nat : reloads' = reloads \cup {Call(id)}
    BY <1>3 DEF TakeTick, TakeHup
  <2>2. \A id \in Nat : Call(id).pc = "load" /\ Call(id).v = 0
    BY DEF Call
  <2>3. UNCHANGED <<version, form, cfg, seen, overlapped>>
    BY <1>3 DEF TakeTick, TakeHup
  <2> QED
    BY <2>1, <2>2, <2>3
<1>4. ASSUME NEW c \in reloads, Load(c) PROVE OrderInv'
  <2> DEFINE e == [c EXCEPT !.pc = "apply", !.v = version]
  <2>1. e.pc = "apply" /\ e.v = version
    OBVIOUS
  <2>2. /\ c.pc = "load" /\ reloads' = (reloads \ {c}) \cup IF Loadable THEN {e} ELSE {}
        /\ UNCHANGED <<version, form, cfg>>
        /\ seen' = TRUE
        /\ ~ overlapped' => ~ overlapped /\ \A d \in reloads : d.pc # "apply"
    BY <1>4 DEF Load
  <2> HIDE DEF e
  <2>3. CASE Loadable
    BY <2>1, <2>2, <2>3
  <2>4. CASE ~ Loadable
    BY <2>2, <2>4
  <2> QED
    BY <2>3, <2>4
<1>5. ASSUME NEW c \in reloads, Apply(c) PROVE OrderInv'
  BY <1>5 DEF Apply
<1> QED
  BY <1>1, <1>2, <1>3, <1>4, <1>5 DEF Next

\* An older configuration replaces a newer one only if calls of reload overlapped.
THEOREM StepsBackOnlyByOverlap == Spec => OnlyOverlapStepsBack
<1>1. TypeOK /\ OrderInv /\ [Next]_vars => [cfg' < cfg => overlapped]_vars
  <2> SUFFICES ASSUME TypeOK, OrderInv, [Next]_vars, cfg' < cfg PROVE overlapped
    OBVIOUS
  <2> USE DEF TypeOK, fileVars, watchVars, hupVars, readVars
  <2>1. cfg' = cfg \/ \E c \in reloads : Apply(c)
    BY DEF Next, Editor, Replace, Truncate, Complete, Remove, Edit, Watcher,
           WatchStarts, WatchFails, HandleEvent,
           WatchReturns, Fire, TakeTick, WaiterReturns, Hangup, TakeHup, Load, Cancel, vars
  <2>2. PICK c \in reloads : Apply(c)
    BY <2>1
  <2> QED
    BY <2>2 DEF Apply, OrderInv, Holding
<1> QED
  BY <1>1, TypeInit, TypeNext, OrderInit, OrderNext, PTL DEF Spec, OnlyOverlapStepsBack

\* When nothing is going on the store holds what the file holds if that is acceptable,
\* unless calls of reload have overlapped, or the content was written unwatched (before
\* the watcher started, or when it could not) and was not read by a SIGHUP either.
THEOREM StoreCatchesUp == Spec => []StoreFollowsFileUnlessOverlapped
<1>1. OrderInv /\ NoLostEdit => StoreFollowsFileUnlessOverlapped
  BY DEF OrderInv, NoLostEdit, StoreFollowsFileUnlessOverlapped, StoreFollowsFile, Quiet,
         Acceptable, Loadable
<1> QED
  BY <1>1, TypeInit, TypeNext, OrderInit, OrderNext, EditNeverLost, PTL DEF Spec

=============================================================================
