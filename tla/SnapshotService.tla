-------------------------- MODULE SnapshotService --------------------------
(***************************************************************************)
(* What the store promises to its readers (GET /api/v1/nodes, the badges,  *)
(* the exporters), without goroutines, channels or slices: a configuration *)
(* that is desired, the one that is active, and the last result of each    *)
(* desired node.                                                           *)
(***************************************************************************)
CONSTANTS Names, Configs, InitConfig, NamesOf(_), ValidConfig(_), Hole

VARIABLES desired, active, table, stopped

vars == <<desired, active, table, stopped>>

Init ==
    /\ desired = InitConfig /\ active = InitConfig
    /\ table = [n \in Names |-> Hole]
    /\ stopped = FALSE

\* A valid configuration is accepted: nodes it keeps keep their result, nodes it
\* drops lose it.
Accept(c) ==
    /\ ValidConfig(c)
    /\ desired' = c
    /\ table' = [n \in Names |-> IF n \in NamesOf(c) THEN table[n] ELSE Hole]
    /\ UNCHANGED <<active, stopped>>

\* Collection follows the desired configuration.
Activate ==
    /\ active' = desired
    /\ UNCHANGED <<desired, table, stopped>>

\* A result of a desired node is published; no other node's result is touched.
Publish(n) ==
    /\ n \in NamesOf(desired)
    /\ table'[n].name = n
    /\ table' = [table EXCEPT ![n] = table'[n]]
    /\ UNCHANGED <<desired, active, stopped>>

Stop ==
    /\ stopped' = TRUE
    /\ UNCHANGED <<desired, active, table>>

Next ==
    \/ \E c \in Configs : Accept(c)
    \/ Activate
    \/ \E n \in Names : Publish(n)
    \/ Stop

Spec == Init /\ [][Next]_vars

\* Besides the steps: what is desired becomes active unless the service is stopped.
DesiredBecomesActive == desired # active ~> (desired = active \/ stopped)

=============================================================================
