------------------------------ MODULE MCStore ------------------------------
(* Store on small instances.  A reload moves the only node to another      *)
(* endpoint (MoveConfigs), or replaces it, adds a second one in front of   *)
(* it or takes one away (GrowConfigs); Duplicate is invalid.               *)
EXTENDS Store, TLC

CONSTANTS a, b, r1, s1

Alone     == [nodes |-> <<a>>, rest |-> 1]
Moved     == [nodes |-> <<a>>, rest |-> 2]
Other     == [nodes |-> <<b>>, rest |-> 1]
Pair      == [nodes |-> <<b, a>>, rest |-> 1]
Duplicate == [nodes |-> <<b, b>>, rest |-> 1]

MoveConfigs == {Alone, Moved}
GrowConfigs == {Alone, Other, Pair, Duplicate}

\* Bounds: two nodes at once are explored with one reload and without subscribers,
\* everything else until the fourth scrape begins.
Focus ==
    \/ reloads <= 1 /\ subs = {}
    \/ now <= 3 /\ \A c \in {cfg, running} : Len(c.nodes) = 1

\* Bounds: of a reload, another one, a subscriber and a stop, two come together.  What is
\* cut are calls of Reload, Subscribe and Cancel, which FairSpec promises to nobody.
FocusLive == reloads + Cardinality(subs) + (IF ctxDone THEN 1 ELSE 0) <= 2

=============================================================================
