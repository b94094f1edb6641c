------------------------------ MODULE Debounce ------------------------------
(***************************************************************************)
(* What the loops of the panel exporters (internal/export/pixoo and        *)
(* internal/export/makit) have in common: the subscription to the store    *)
(* and the timer that puts off a push until updates have paused.           *)
(*                                                                         *)
(* The store is seen from outside: it is changed by goroutines that notify *)
(* the subscribers afterwards, in a step of their own.  These steps are    *)
(* taken from StoreFeed, which Store is proved to implement.               *)
(***************************************************************************)
EXTENDS Integers

CONSTANTS
    Delay,          \* updateDelay, in ticks
    MaxWriters      \* bound: goroutines between a change and its notify

ASSUME DelayAssumption == Delay \in Nat /\ MaxWriters \in Nat

VARIABLES
    writers,        \* number of goroutines that changed the store and have yet to notify
    subscribed, ch, \* the subscription, and whether its channel holds an element
    timer,          \* ticks the timer has left, 0 when it has fired, or NoTimer
    ctxDone         \* the context of main is cancelled

storeVars == <<writers, subscribed, ch>>
loopVars  == <<storeVars, timer, ctxDone>>

NoTimer == -1

Feed == INSTANCE StoreFeed

LoopInit ==
    /\ Feed!Init
    /\ timer = NoTimer /\ ctxDone = FALSE

LoopTypeOK ==
    /\ writers \in 0 .. MaxWriters /\ subscribed \in BOOLEAN /\ ch \in BOOLEAN
    /\ (ch => subscribed)
    /\ timer \in NoTimer .. Delay /\ ctxDone \in BOOLEAN

-----------------------------------------------------------------------------
\* The store changes (what of it, the exporter's module says).
Write ==
    /\ writers < MaxWriters /\ Feed!Change
    /\ UNCHANGED <<timer, ctxDone>>

Notify == Feed!Notify /\ UNCHANGED <<timer, ctxDone>>

Subscribe == Feed!Subscribe /\ UNCHANGED <<timer, ctxDone>>

\* Mutant of Update: an update that finds the timer running is taken as served by it.
UpdateOnce ==
    /\ Feed!Receive
    /\ timer' = IF timer = NoTimer THEN Delay ELSE NoTimer
    /\ UNCHANGED ctxDone

\* An update starts the timer, or stops, drains and restarts it.
Update ==
    /\ Feed!Receive
    /\ timer' = Delay
    /\ UNCHANGED ctxDone

Elapse ==
    /\ timer > 0 /\ timer' = timer - 1
    /\ UNCHANGED <<storeVars, ctxDone>>

\* The tick is received; the timer is forgotten after the push it starts.
Expire ==
    /\ timer = 0 /\ timer' = NoTimer
    /\ UNCHANGED <<storeVars, ctxDone>>

\* Mutant of Leave: a push that is put off is waited for.
LeaveWhenIdle ==
    /\ ctxDone /\ timer = NoTimer
    /\ Feed!Unsubscribe
    /\ UNCHANGED <<timer, ctxDone>>

Leave ==
    /\ ctxDone
    /\ Feed!Unsubscribe /\ timer' = NoTimer
    /\ UNCHANGED ctxDone

Cancel ==
    /\ ~ ctxDone /\ ctxDone' = TRUE
    /\ UNCHANGED <<storeVars, timer>>

\* An update is on its way to the loop, or has started the timer.
Coming == writers > 0 \/ ch \/ timer # NoTimer

=============================================================================
