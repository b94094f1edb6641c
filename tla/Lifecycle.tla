----------------------------- MODULE Lifecycle ------------------------------
(***************************************************************************)
(* How mon64 ends: main waits for a signal, cancels its context and shuts  *)
(* its HTTP server down (cmd/mon64/main.go), while the exporter of         *)
(* prometheuses, which main does not wait for, shuts down its own servers  *)
(* (internal/export/prometheus/export.go).  The handler of /api/v1/events  *)
(* (internal/server/server.go) ends with its client only.                  *)
(*                                                                         *)
(* A tick is some seconds.  Whatever goroutines can do at once they do     *)
(* before time passes; clients may be as slow as they like.                *)
(***************************************************************************)
EXTENDS Integers, Sequences

CONSTANTS
    Clients,        \* clients of the HTTP server
    Exports,        \* number of exports of prometheuses, each a server
    MainTimeout,    \* ticks main's Shutdown may take
    PromTimeout     \* ticks the exporter's calls of Shutdown may take together

ASSUME TimeoutAssumption ==
    /\ Exports \in Nat \ {0}
    /\ MainTimeout \in Nat /\ PromTimeout \in Nat /\ PromTimeout < MainTimeout

Servers == 1 .. Exports

VARIABLES
    main,           \* where main stands
    ctxDone,        \* its context is cancelled
    left,           \* ticks left to main's Shutdown
    http,           \* the HTTP server: starting, listening or closed
    client,         \* what the HTTP server does for each client
    run,            \* where the exporter's Run stands
    at,             \* the server it shuts down
    promLeft,       \* ticks left to it
    server,         \* its servers: starting, listening or closed
    down,           \* the servers whose Shutdown was called
    scraped         \* the servers that have a request in hand

mainVars == <<main, ctxDone, left>>
runVars  == <<run, at, promLeft, down>>
vars == <<mainVars, http, client, runVars, server, scraped>>

Alive == main # "exit"

Init ==
    /\ main = "wait" /\ ctxDone = FALSE /\ left = MainTimeout
    /\ http = "starting" /\ client = [c \in Clients |-> "none"]
    /\ run = "serve" /\ at = 1 /\ promLeft = PromTimeout
    /\ server = [i \in Servers |-> "starting"] /\ down = {} /\ scraped = {}

-----------------------------------------------------------------------------
(* main.                                                                   *)

\* SIGINT or SIGTERM.
Signal ==
    /\ main = "wait" /\ main' = "cancel"
    /\ UNCHANGED <<ctxDone, left, http, client, runVars, server, scraped>>

Cancel ==
    /\ main = "cancel" /\ main' = "shutdown" /\ ctxDone' = TRUE
    /\ UNCHANGED <<left, http, client, runVars, server, scraped>>

\* Shutdown closes the listener and those who wait for a request, then waits.
Shutdown ==
    /\ main = "shutdown" /\ main' = "drain"
    /\ http' = IF http = "listening" THEN "closed" ELSE http
    /\ UNCHANGED <<ctxDone, left, client, runVars, server, scraped>>

Busy == {c \in Clients : client[c] # "none"}

\* Mutant of ShutdownReturns: Shutdown has no timeout.
ShutdownWaits ==
    /\ main = "drain" /\ Busy = {} /\ main' = "exit"
    /\ UNCHANGED <<ctxDone, left, http, client, runVars, server, scraped>>

\* No request is left, or shutdownCtx is done; main returns and the process ends.
ShutdownReturns ==
    /\ main = "drain" /\ (Busy = {} \/ left = 0) /\ main' = "exit"
    /\ UNCHANGED <<ctxDone, left, http, client, runVars, server, scraped>>

\* ListenAndServe refuses after Shutdown; another error ends the process at once.
Listen ==
    /\ Alive /\ http = "starting"
    /\ \/ main = "drain" /\ http' = "closed" /\ main' = main
       \/ main # "drain" /\ http' = "listening" /\ main' = main
       \/ http' = "closed" /\ main' = "exit"
    /\ UNCHANGED <<ctxDone, left, client, runVars, server, scraped>>

-----------------------------------------------------------------------------
(* Requests to the HTTP server.                                            *)

Request(c) ==
    /\ Alive /\ http = "listening" /\ client[c] = "none"
    /\ client' = [client EXCEPT ![c] = "request"]
    /\ UNCHANGED <<mainVars, http, runVars, server, scraped>>

\* The client reads its answer, or leaves.
Served(c) ==
    /\ Alive /\ client[c] = "request"
    /\ client' = [client EXCEPT ![c] = "none"]
    /\ UNCHANGED <<mainVars, http, runVars, server, scraped>>

\* handleEvents subscribes and selects on the request's context, updates and the
\* heartbeat, but not on main's context.
HandleEvents(c) ==
    /\ Alive /\ client[c] = "request"
    /\ client' = [client EXCEPT ![c] = "stream"]
    /\ UNCHANGED <<mainVars, http, runVars, server, scraped>>

\* The page is closed; the handler unsubscribes.
CloseStream(c) ==
    /\ Alive /\ client[c] = "stream"
    /\ client' = [client EXCEPT ![c] = "none"]
    /\ UNCHANGED <<mainVars, http, runVars, server, scraped>>

-----------------------------------------------------------------------------
(* The exporter of prometheuses.                                           *)

\* As the HTTP server, but an error only ends this server.
ListenExport(i) ==
    /\ Alive /\ server[i] = "starting"
    /\ \/ i \notin down /\ server' = [server EXCEPT ![i] = "listening"]
       \/ server' = [server EXCEPT ![i] = "closed"]
    /\ UNCHANGED <<mainVars, http, client, runVars, scraped>>

ScrapeExport(i) ==
    /\ Alive /\ server[i] = "listening" /\ i \notin scraped
    /\ scraped' = scraped \cup {i}
    /\ UNCHANGED <<mainVars, http, client, runVars, server>>

ExportServed(i) ==
    /\ Alive /\ i \in scraped
    /\ scraped' = scraped \ {i}
    /\ UNCHANGED <<mainVars, http, client, runVars, server>>

RunCancelled ==
    /\ Alive /\ run = "serve" /\ ctxDone /\ run' = "drain"
    /\ UNCHANGED <<mainVars, http, client, at, promLeft, down, server, scraped>>

\* Mutant of ShutdownExport: every server gets the whole timeout.
ShutdownExportEach ==
    /\ Alive /\ run = "drain" /\ at \notin down
    /\ down' = down \cup {at} /\ promLeft' = PromTimeout
    /\ server' = [server EXCEPT ![at] = IF @ = "listening" THEN "closed" ELSE @]
    /\ UNCHANGED <<mainVars, http, client, run, at, scraped>>

\* Shutdown of one server after the other; what is left of shutdownCtx is for all.
ShutdownExport ==
    /\ Alive /\ run = "drain" /\ at \notin down
    /\ down' = down \cup {at}
    /\ server' = [server EXCEPT ![at] = IF @ = "listening" THEN "closed" ELSE @]
    /\ UNCHANGED <<mainVars, http, client, run, at, promLeft, scraped>>

ExportDrained ==
    /\ Alive /\ run = "drain" /\ at \in down /\ (at \notin scraped \/ promLeft = 0)
    /\ IF at < Exports THEN at' = at + 1 /\ run' = run
                       ELSE at' = at /\ run' = "wait"
    /\ UNCHANGED <<mainVars, http, client, promLeft, down, server, scraped>>

\* wg.Wait: every ListenAndServe has returned.
RunReturns ==
    /\ Alive /\ run = "wait" /\ \A i \in Servers : server[i] = "closed"
    /\ run' = "returned"
    /\ UNCHANGED <<mainVars, http, client, at, promLeft, down, server, scraped>>

-----------------------------------------------------------------------------
MainSteps == Cancel \/ Shutdown \/ ShutdownReturns \/ Listen
RunSteps  == RunCancelled \/ ShutdownExport \/ ExportDrained \/ RunReturns
                \/ \E i \in Servers : ListenExport(i)

\* A goroutine can go on: what MainSteps and RunSteps wait for has happened.
Urgent ==
    \/ main \in {"cancel", "shutdown"}
    \/ main = "drain" /\ (Busy = {} \/ left = 0)
    \/ http = "starting" \/ \E i \in Servers : server[i] = "starting"
    \/ run = "serve" /\ ctxDone
    \/ run = "drain" /\ (at \notin down \/ at \notin scraped \/ promLeft = 0)
    \/ run = "wait"

Tick ==
    /\ Alive /\ ~ Urgent
    /\ main = "drain"
    /\ left' = left - 1
    /\ promLeft' = IF run = "drain" THEN promLeft - 1 ELSE promLeft
    /\ UNCHANGED <<main, ctxDone, http, client, run, at, down, server, scraped>>

Next ==
    \/ Signal \/ MainSteps \/ RunSteps \/ Tick
    \/ \E c \in Clients : Request(c) \/ Served(c) \/ HandleEvents(c) \/ CloseStream(c)
    \/ \E i \in Servers : ScrapeExport(i) \/ ExportServed(i)

Spec == Init /\ [][Next]_vars

(* Fairness.  Goroutines that can run do, and time passes.  Nothing is     *)
(* assumed of clients.                                                     *)
FairSpec ==
    /\ Spec
    /\ WF_vars(Cancel) /\ WF_vars(Shutdown) /\ WF_vars(ShutdownReturns) /\ WF_vars(Listen)
    /\ WF_vars(RunSteps) /\ WF_vars(Tick)

-----------------------------------------------------------------------------
TypeOK ==
    /\ main \in {"wait", "cancel", "shutdown", "drain", "exit"} /\ ctxDone \in BOOLEAN
    /\ left \in 0 .. MainTimeout /\ promLeft \in 0 .. PromTimeout
    /\ http \in {"starting", "listening", "closed"}
    /\ client \in [Clients -> {"none", "request", "stream"}]
    /\ run \in {"serve", "drain", "wait", "returned"} /\ at \in Servers
    /\ server \in [Servers -> {"starting", "listening", "closed"}]
    /\ down \subseteq Servers /\ scraped \subseteq Servers

\* "Run listens until ctx is cancelled, then shuts down all servers": although main
\* does not wait for it, it has done so when main has waited out its own timeout, as
\* it does while a dashboard is open.
ExporterEndsFirst == main = "exit" /\ left = 0 => run = "returned"

\* A signal ends mon64, whatever its clients do.
MainEnds == main # "wait" ~> main = "exit"

=============================================================================
