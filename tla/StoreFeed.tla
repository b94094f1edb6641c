----------------------------- MODULE StoreFeed -----------------------------
(***************************************************************************)
(* The store as one of its subscribers sees it, an exporter or the handler *)
(* of an open page: goroutines change the store and notify afterwards, in  *)
(* a step of their own, and notifying leaves an element in the channel of  *)
(* who subscribes.  Store implements it for each of its subscribers;       *)
(* Debounce and Dashboard take their steps from it.                        *)
(***************************************************************************)
EXTENDS Integers

VARIABLES
    writers,        \* number of goroutines that changed the store and have yet to notify
    subscribed, ch  \* the subscription, and whether its channel holds an element

vars == <<writers, subscribed, ch>>

Init == writers = 0 /\ subscribed = FALSE /\ ch = FALSE

Change ==
    /\ writers' = writers + 1
    /\ UNCHANGED <<subscribed, ch>>

\* An element is in the channel, or already was.
Notify ==
    /\ writers > 0 /\ writers' = writers - 1
    /\ ch' = (ch \/ subscribed)
    /\ UNCHANGED subscribed

\* With a new channel.
Subscribe ==
    /\ ~ subscribed /\ subscribed' = TRUE /\ ch' = FALSE
    /\ UNCHANGED writers

Receive ==
    /\ ch /\ ch' = FALSE
    /\ UNCHANGED <<writers, subscribed>>

Unsubscribe ==
    /\ subscribed' = FALSE /\ ch' = FALSE
    /\ UNCHANGED writers

Next == Change \/ Notify \/ Subscribe \/ Receive \/ Unsubscribe

Spec == Init /\ [][Next]_vars

=============================================================================
