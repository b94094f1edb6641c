----------------------------- MODULE HotReload -----------------------------
(***************************************************************************)
(* From an edit of the configuration file to the store: the watcher with   *)
(* its debounce timer (internal/config/watcher.go), the SIGHUP goroutine   *)
(* and the function reload of main (cmd/mon64/main.go), which both run.    *)
(* It begins when main has loaded the file: until the goroutine of the     *)
(* watcher has added the directory, and for good if that fails, edits give *)
(* no event.                                                               *)
(*                                                                         *)
(* A content of the file is its version, a number that grows with every    *)
(* edit.  What the store does with an accepted configuration is module     *)
(* Store; here it is the version the store holds.                          *)
(***************************************************************************)
EXTENDS Integers, FiniteSets

CONSTANTS
    Invalid,        \* versions that do not parse or validate
    Refused,        \* versions that Load accepts and st.Reload does not (ConfigRules)
    MaxEdits,       \* bound: edits of the file
    MaxHups         \* bound: SIGHUPs received

ASSUME BoundsAssumption == MaxEdits \in Nat /\ MaxHups \in Nat
ASSUME FirstIsValid == Invalid \subseteq Nat /\ 0 \notin Invalid

VARIABLES
    version, form,  \* the file: its content and whether it is whole, torn or missing
    events,         \* events of the file that the watcher has not received
    watch,          \* Watch is starting, in its loop (on), or has returned (off)
    timer,          \* the debounce timer: idle, armed, or fired with its tick unread
    waiters,        \* goroutines of trigger blocked on the timer and the context
    ticks,          \* ticks received so far
    reloads,        \* running calls of reload; 0 is the one of the SIGHUP goroutine
    sighup, hups,   \* the channel of the SIGHUP goroutine holds a signal; signals so far
    cfg,            \* version the store holds
    seen,           \* the present content has been read since it was written
    noticed,        \* it was written while the directory was watched
    overlapped,     \* a call of reload has read the file while another held a content
    ctxDone         \* the context of main is cancelled

fileVars  == <<version, form>>
watchVars == <<events, watch, timer, waiters, ticks>>
hupVars   == <<sighup, hups>>
readVars  == <<seen, noticed>>
vars == <<fileVars, watchVars, hupVars, reloads, cfg, readVars, overlapped, ctxDone>>

Call(id) == [id |-> id, pc |-> "load", v |-> 0]

-----------------------------------------------------------------------------
Init ==
    /\ version = 0 /\ form = "whole"
    /\ events = 0 /\ watch = "starting" /\ timer = "idle" /\ waiters = 0 /\ ticks = 0
    /\ reloads = {}
    /\ sighup = FALSE /\ hups = 0
    /\ cfg = 0 /\ seen = TRUE /\ noticed = FALSE /\ overlapped = FALSE
    /\ ctxDone = FALSE

-----------------------------------------------------------------------------
(* The file.  An editor replaces it by a rename, or truncates and writes   *)
(* it in place; both are events the watcher asks for.  Removing it is not. *)

\* Mutant of Emit: a new file under the watched name is not noticed.
EmitWritesOnly(op) == events' = IF watch = "on" /\ op = "write" THEN events + 1 ELSE events

Emit(op) ==
    events' = IF watch = "on" /\ op \in {"write", "create", "rename"} THEN events + 1 ELSE events

Edit(op, f, v) ==
    /\ form' = f /\ version' = v
    /\ seen' = FALSE /\ noticed' = (watch = "on")
    /\ Emit(op)
    /\ UNCHANGED <<watch, timer, waiters, ticks, reloads, hupVars, cfg, overlapped, ctxDone>>

Replace  == version < MaxEdits /\ Edit("create", "whole", version + 1)
Truncate == version < MaxEdits /\ form = "whole" /\ Edit("write", "torn", version + 1)
Complete == form = "torn" /\ Edit("write", "whole", version)
Remove   == form = "whole" /\ Edit("remove", "missing", version)

-----------------------------------------------------------------------------
(* Watch.                                                                  *)

\* Files are noticed from watcher.Add on.
WatchStarts ==
    /\ watch = "starting" /\ watch' = "on"
    /\ UNCHANGED <<fileVars, events, timer, waiters, ticks, reloads, hupVars, cfg, readVars,
                   overlapped, ctxDone>>

\* The directory cannot be watched: Watch returns, mon64 goes on without it.
WatchFails ==
    /\ watch = "starting" /\ watch' = "off"
    /\ UNCHANGED <<fileVars, events, timer, waiters, ticks, reloads, hupVars, cfg, readVars,
                   overlapped, ctxDone>>

\* Mutant of HandleEvent: an event during a reload is taken to be its own.
HandleEventIfIdle ==
    /\ watch = "on" /\ events > 0
    /\ events' = events - 1
    /\ timer' = IF reloads = {} THEN "armed" ELSE timer
    /\ waiters' = IF reloads = {} THEN waiters + 1 ELSE waiters
    /\ UNCHANGED <<fileVars, watch, ticks, reloads, hupVars, cfg, readVars, overlapped, ctxDone>>

\* trigger: Reset discards a tick nobody has read, and one more goroutine waits.
HandleEvent ==
    /\ watch = "on" /\ events > 0
    /\ events' = events - 1
    /\ timer' = "armed" /\ waiters' = waiters + 1
    /\ UNCHANGED <<fileVars, watch, ticks, reloads, hupVars, cfg, readVars, overlapped, ctxDone>>

WatchReturns ==
    /\ watch = "on" /\ ctxDone /\ watch' = "off"
    /\ UNCHANGED <<fileVars, events, timer, waiters, ticks, reloads, hupVars, cfg, readVars,
                   overlapped, ctxDone>>

Fire ==
    /\ timer = "armed" /\ timer' = "fired"
    /\ UNCHANGED <<fileVars, events, watch, waiters, ticks, reloads, hupVars, cfg, readVars,
                   overlapped, ctxDone>>

\* One of the waiting goroutines receives the tick and calls reload.
TakeTick ==
    /\ timer = "fired" /\ waiters > 0
    /\ timer' = "idle" /\ waiters' = waiters - 1 /\ ticks' = ticks + 1
    /\ reloads' = reloads \cup {Call(ticks + 1)}
    /\ UNCHANGED <<fileVars, events, watch, hupVars, cfg, readVars, overlapped, ctxDone>>

\* Mutant of WaiterReturns: the goroutines of trigger wait for the timer only.
WaiterStays ==
    /\ FALSE
    /\ UNCHANGED vars

WaiterReturns ==
    /\ ctxDone /\ waiters > 0
    /\ waiters' = waiters - 1
    /\ UNCHANGED <<fileVars, events, watch, timer, ticks, reloads, hupVars, cfg, readVars,
                   overlapped, ctxDone>>

-----------------------------------------------------------------------------
(* SIGHUP.  The channel holds one signal; signals that find it full are    *)
(* dropped.  One goroutine receives them and calls reload.                 *)

Hangup ==
    /\ hups < MaxHups /\ hups' = hups + 1
    /\ sighup' = TRUE
    /\ UNCHANGED <<fileVars, watchVars, reloads, cfg, readVars, overlapped, ctxDone>>

TakeHup ==
    /\ sighup /\ \A c \in reloads : c.id # 0
    /\ sighup' = FALSE
    /\ reloads' = reloads \cup {Call(0)}
    /\ UNCHANGED <<fileVars, watchVars, hups, cfg, readVars, overlapped, ctxDone>>

-----------------------------------------------------------------------------
(* reload.  Calls of the two callers are not synchronised.                 *)

Loadable == form = "whole" /\ version \notin Invalid

\* Mutant of Load: an error falls back to the first configuration.
LoadOrDefault(c) ==
    /\ c.pc = "load"
    /\ reloads' = (reloads \ {c}) \cup
                     {[c EXCEPT !.pc = "apply", !.v = IF Loadable THEN version ELSE 0]}
    /\ seen' = TRUE
    /\ overlapped' = (overlapped \/ \E d \in reloads : d.pc = "apply")
    /\ UNCHANGED <<fileVars, watchVars, hupVars, cfg, noticed, ctxDone>>

\* loadConfig: an error ends the call.
Load(c) ==
    /\ c.pc = "load"
    /\ reloads' = (reloads \ {c}) \cup
                     IF Loadable THEN {[c EXCEPT !.pc = "apply", !.v = version]} ELSE {}
    /\ seen' = TRUE
    /\ overlapped' = (overlapped \/ \E d \in reloads : d.pc = "apply")
    /\ UNCHANGED <<fileVars, watchVars, hupVars, cfg, noticed, ctxDone>>

\* st.Reload, which validates what Load has validated and normalised.
Apply(c) ==
    /\ c.pc = "apply"
    /\ cfg' = IF c.v \in Refused THEN cfg ELSE c.v
    /\ reloads' = reloads \ {c}
    /\ UNCHANGED <<fileVars, watchVars, hupVars, readVars, overlapped, ctxDone>>

Cancel ==
    /\ ~ ctxDone /\ ctxDone' = TRUE
    /\ UNCHANGED <<fileVars, watchVars, hupVars, reloads, cfg, readVars, overlapped>>

-----------------------------------------------------------------------------
Editor  == Replace \/ Truncate \/ Complete \/ Remove
Watcher == WatchStarts \/ WatchFails \/ HandleEvent \/ WatchReturns

Next ==
    \/ Editor
    \/ Watcher \/ Fire \/ TakeTick \/ WaiterReturns
    \/ Hangup \/ TakeHup
    \/ \E c \in reloads : Load(c) \/ Apply(c)
    \/ Cancel

Spec == Init /\ [][Next]_vars

(* Fairness.  Timers fire, and every goroutine that can run does.  A       *)
(* select chooses at random, so the watcher returns in the end.  Nothing   *)
(* makes an editor edit, complete a write or send a signal.                *)
Fairness ==
    /\ WF_vars(WatchStarts \/ WatchFails) /\ WF_vars(HandleEvent) /\ SF_vars(WatchReturns)
    /\ WF_vars(Fire) /\ WF_vars(TakeTick) /\ SF_vars(WaiterReturns)
    /\ WF_vars(TakeHup)
    /\ WF_vars(\E c \in reloads : Load(c) \/ Apply(c))

FairSpec == Spec /\ Fairness

-----------------------------------------------------------------------------
TypeOK ==
    /\ version \in Nat /\ form \in {"whole", "torn", "missing"}
    /\ events \in Nat /\ watch \in {"starting", "on", "off"}
    /\ timer \in {"idle", "armed", "fired"} /\ waiters \in Nat /\ ticks \in Nat
    /\ reloads \subseteq [id : Nat, pc : {"load", "apply"}, v : Nat \ Invalid]
    /\ sighup \in BOOLEAN /\ hups \in Nat
    /\ cfg \in Nat \ Invalid
    /\ seen \in BOOLEAN /\ noticed \in BOOLEAN /\ overlapped \in BOOLEAN /\ ctxDone \in BOOLEAN

\* An edit of a watched file is not lost in the debounce: until the file is read again
\* an event is on its way, a tick is to come with a goroutine to receive it, or a call
\* of reload has yet to read the file.
NoLostEdit ==
    form = "whole" /\ noticed /\ ~ seen /\ ~ ctxDone =>
        \/ events > 0
        \/ timer # "idle" /\ waiters > 0
        \/ \E c \in reloads : c.pc = "load"

Quiet == events = 0 /\ timer = "idle" /\ reloads = {} /\ ~ ctxDone

Acceptable == Loadable /\ version \notin Refused

\* "Config hot-reload": when nothing is going on, the store holds the file's content,
\* unless nobody watched the file when it was written and nobody has read it since.
StoreFollowsFile == Quiet /\ Acceptable /\ (noticed \/ seen) => cfg = version

\* It does, whatever was refused before, unless calls of reload have overlapped.
StoreFollowsFileUnlessOverlapped == ~ overlapped => StoreFollowsFile

\* An older configuration replaces a newer one only if calls of reload overlapped.
OnlyOverlapStepsBack == [][cfg' < cfg => overlapped]_vars

\* Once edited while it is watched, the file is read, unless it changes again or mon64
\* is stopped.
EditIsRead ==
    (form = "whole" /\ noticed /\ ~ seen) ~> (seen \/ form # "whole" \/ ctxDone)

\* No goroutine of the watcher outlives the context, those left over by debounced
\* events included.
WatcherEnds == ctxDone ~> (watch = "off" /\ waiters = 0)

=============================================================================
