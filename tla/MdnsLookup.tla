----------------------------- MODULE MdnsLookup -----------------------------
(***************************************************************************)
(* LookupA of internal/mdns/lookup.go: a query is sent to the multicast    *)
(* group, and again when retransmit has passed without an answer, until an *)
(* answer for the wanted host comes or the deadline of the context passes. *)
(*                                                                         *)
(* Time passes between any two steps of the loop.  Queries and answers may *)
(* be lost, doubled or late; other packets may come at any time.           *)
(***************************************************************************)
EXTENDS Integers, Sequences

CONSTANTS
    Retransmit,     \* ticks between two queries
    Deadline,       \* ticks after which the context of the lookup expires
    MaxQueries,     \* bound: queries are counted up to this number
    MaxInbox        \* bound: packets that wait in the socket

ASSUME LookupAssumption ==
    /\ Retransmit \in Nat \ {0} /\ Deadline \in Nat \ {0}
    /\ MaxQueries \in Nat \ {0} /\ MaxInbox \in Nat

VARIABLES
    lookup,         \* where LookupA stands: idle, check, read, timeout, found or failed
    clock,          \* ticks since the lookup began
    expired,        \* ctx.Done() is closed
    nextSend,       \* when the next query is due
    deadline,       \* the read deadline
    queries,        \* number of queries sent
    inbox           \* packets in the socket: answer, or foreign

lookupVars == <<lookup, clock, expired, nextSend, deadline, queries, inbox>>

Searching == lookup \in {"check", "read", "timeout"}

LookupInit ==
    /\ lookup = "idle" /\ clock = 0 /\ expired = FALSE
    /\ nextSend = 0 /\ deadline = 0 /\ queries = 0 /\ inbox = << >>

Earlier(t, u) == IF t <= u THEN t ELSE u

\* LookupA returns: the socket is closed with what it holds, the context is cancelled.
EndLookup(how) ==
    /\ lookup' = how /\ clock' = 0 /\ expired' = FALSE
    /\ nextSend' = 0 /\ deadline' = 0 /\ queries' = 0 /\ inbox' = << >>

\* The socket is opened and the first query is sent.
BeginLookup ==
    /\ lookup = "idle"
    /\ \/ /\ lookup' = "check" /\ queries' = 1 /\ nextSend' = Retransmit
          /\ UNCHANGED <<clock, expired, deadline, inbox>>
       \/ EndLookup("failed")

\* Mutant of ContextEnded: the loop does not look at the context.
ContextIgnored == FALSE

ContextEnded == expired

\* The head of the loop: the context is looked at and the read deadline set.
CheckContext ==
    /\ lookup = "check"
    /\ \/ ContextEnded /\ EndLookup("failed")
       \/ /\ ~ ContextEnded
          /\ lookup' = "read" /\ deadline' = Earlier(nextSend, Deadline)
          /\ UNCHANGED <<clock, expired, nextSend, queries, inbox>>

\* ReadFrom returns a packet.
ReadPacket ==
    /\ lookup = "read" /\ inbox # << >> /\ clock < deadline
    /\ \/ Head(inbox) = "answer" /\ EndLookup("found")
       \/ /\ Head(inbox) = "foreign"
          /\ lookup' = "check" /\ inbox' = Tail(inbox)
          /\ UNCHANGED <<clock, expired, nextSend, deadline, queries>>

\* ReadFrom times out, whatever is in the socket, or fails otherwise.
ReadFails ==
    /\ lookup = "read"
    /\ \/ /\ clock >= deadline /\ lookup' = "timeout"
          /\ UNCHANGED <<clock, expired, nextSend, deadline, queries, inbox>>
       \/ EndLookup("failed")

\* Mutant of Resend: the time of the next query is not moved.
ResendAtOnce ==
    /\ lookup = "timeout" /\ ~ ContextEnded
    /\ lookup' = "check" /\ queries' = Earlier(queries + 1, MaxQueries)
    /\ UNCHANGED <<clock, expired, nextSend, deadline, inbox>>

\* After a timeout the query is sent again, unless the context has expired.
Resend ==
    /\ lookup = "timeout" /\ ~ ContextEnded
    /\ \/ /\ lookup' = "check" /\ queries' = Earlier(queries + 1, MaxQueries)
          /\ nextSend' = clock + Retransmit
          /\ UNCHANGED <<clock, expired, deadline, inbox>>
       \/ EndLookup("failed")

GiveUp == lookup = "timeout" /\ ContextEnded /\ EndLookup("failed")

\* The panel answers a query, or a packet comes from elsewhere.
Arrive ==
    /\ Searching /\ Len(inbox) < MaxInbox
    /\ inbox' \in {Append(inbox, "answer"), Append(inbox, "foreign")}
    /\ UNCHANGED <<lookup, clock, expired, nextSend, deadline, queries>>

LookupTick ==
    /\ Searching /\ clock < Deadline /\ clock' = clock + 1
    /\ UNCHANGED <<lookup, expired, nextSend, deadline, queries, inbox>>

\* The timer of the context runs some time after the deadline.
Expiry ==
    /\ Searching /\ clock = Deadline /\ ~ expired /\ expired' = TRUE
    /\ UNCHANGED <<lookup, clock, nextSend, deadline, queries, inbox>>

LookupStep == CheckContext \/ ReadPacket \/ ReadFails \/ Resend \/ GiveUp
LookupTime == LookupTick \/ Expiry

-----------------------------------------------------------------------------
LookupTypeOK ==
    /\ lookup \in {"idle", "check", "read", "timeout", "found", "failed"}
    /\ clock \in 0 .. Deadline /\ expired \in BOOLEAN
    /\ nextSend \in Nat /\ deadline \in Nat /\ queries \in 0 .. MaxQueries
    /\ inbox \in Seq({"answer", "foreign"})

\* Queries are retransmit apart, whatever comes in between and however slow the loop
\* is, until the deadline; between it and the end of the context the loop may send
\* without a pause.
QueriesPaced == Searching /\ clock < Deadline => (queries - 1) * Retransmit <= clock

\* A lookup ends, even if other packets never stop coming.
LookupEnds == Searching ~> ~ Searching

=============================================================================
