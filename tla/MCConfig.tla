------------------------------ MODULE MCConfig ------------------------------
(* ConfigRules on files that vary in one part at a time: the nodes, the    *)
(* badges, the makit64 exports, or listen and the prometheuses.            *)
EXTENDS ConfigRules

Node(n, i, f, k) == [name |-> n, interval |-> i, fmt |-> f, collects |-> k]
Badge(n, t, s)   == [name |-> n, type |-> t, nodes |-> s]
Export(b, a, l)  == [badge |-> b, addr |-> a, level |-> l]
Prom(c, l, n, s) == [port |-> [colon |-> c, port |-> Port(l, n)], nodes |-> s]

Seqs(S) == {<< >>} \cup {<<x>> : x \in S} \cup {<<x, y>> : x, y \in S}

Base ==
    [listen |-> 8080, interval |-> 3, timeout |-> 2,
     nodes  |-> <<Node("a", 0, "node-exporter", {"cpu"})>>,
     badges |-> <<Badge("fleet", "rect64", <<"a">>)>>,
     pixoo  |-> <<"fleet">>, makit |-> << >>, prom |-> << >>]

NodeFiles ==
    {[Base EXCEPT !.nodes = s, !.interval = i] :
        s \in Seqs({Node("a", 0, "node-exporter", {"gpu"}), Node("a", 0, "nv-monitor", {"gpu"}),
                    Node("b", 2, "nv-monitor", {"cpu"}), Node("b", 5, "nv-monitor", {"cpu"})}),
        i \in {0, 3}}

BadgeFiles ==
    {[Base EXCEPT !.badges = s] :
        s \in Seqs({Badge("fleet", "rect64", <<"a">>), Badge("gpu", "circle240", <<"a">>),
                    Badge("fleet", "circle240", <<"a", "a">>), Badge("gpu", "rect64", <<"b">>),
                    Badge("fleet", "rect64", <<"a", "b">>), Badge("gpu", "circle128", <<"a">>)})}

\* "", a host, host:port, [ipv6]:port, [ipv6], a host with a port that is not one.
Addresses ==
    {Unset, DefaultAddr} \cup
    [brackets : {FALSE}, host : {"", "makit.local", "::1"}, port : {Unset, Port("plain", 0), Port("0", 5683)}]
    \cup [brackets : {TRUE}, host : {"::1"}, port : {Unset, DefaultPort}]

TwoBadges == <<Badge("fleet", "rect64", <<"a">>), Badge("gpu", "circle240", <<"a">>)>>

MakitFiles ==
    {[Base EXCEPT !.badges = TwoBadges, !.makit = <<Export("fleet", a, 255), Export("gpu", b, Unset)>>] :
        a \in Addresses, b \in {a \in Addresses : NormalizeMakit64Addr(a) # Rejected}}
    \cup {[Base EXCEPT !.makit = <<Export("fleet", a, l)>>] : a \in Addresses, l \in {0, 256}}

PromFiles ==
    {[Base EXCEPT !.prom = s, !.listen = l] :
        s \in Seqs({Prom(FALSE, z, 9100, <<"a">>) : z \in Leads}
                       \cup {Prom(TRUE, "plain", 9100, <<"a">>), Prom(TRUE, "plain", 9101, <<"a">>),
                             Prom(FALSE, "plain", 65536, <<"a">>), Prom(FALSE, "plain", 9102, <<"a", "b">>)}),
        l \in {8080, 9100}}
    \cup {[Base EXCEPT !.listen = l] : l \in {Unset, 65536}}

AllFiles == NodeFiles \cup BadgeFiles \cup MakitFiles \cup PromFiles

\* Bound: once there are listeners, the file stays as it was loaded; a reload does not
\* look at them, nor they at the file.
EditsFirst == tried = {} \/ file = source

=============================================================================
