----------------------------- MODULE ConfigRules -----------------------------
(***************************************************************************)
(* The rules of the configuration (internal/config/config.go) and the      *)
(* three places that apply them one after the other: Load when the file is *)
(* read, the exporters when they start, and Store.Reload, which validates  *)
(* again what Load has validated and normalised.  Then the main server and *)
(* the exporters of prometheuses compete for the ports of the machine.     *)
(*                                                                         *)
(* Of a text only matters what the rules look at: a port is written with   *)
(* or without a colon, and with a sign, zeros or nothing before its        *)
(* number, which strconv.Atoi and net.Listen both skip; an address is      *)
(* written with or without brackets and port.  Of listen only matters the  *)
(* port: a socket of any host takes it from the exporters, which listen on *)
(* all of them.                                                            *)
(***************************************************************************)
EXTENDS Integers, Sequences, FiniteSets, Functions

CONSTANTS
    Files,          \* contents of the configuration file, as parsed from YAML
    Hosts,          \* hosts that an address names, or ""
    Ipv6,           \* those that are IPv6 literals
    Leads,          \* what precedes the number of a port: a sign, zeros or, "plain", nothing
    Dummy,          \* TRUE: -dummy
    Unset,          \* a field that is not written
    Rejected        \* an error

Ports       == [lead : Leads, number : Int]
ListenPorts == [colon : BOOLEAN, port : Ports]
AddrTexts   == [brackets : BOOLEAN, host : Hosts, port : Ports \cup {Unset}]

NodeTexts  == [name : STRING, interval : Int, fmt : STRING, collects : SUBSET STRING]
BadgeTexts == [name : STRING, type : STRING, nodes : Seq(STRING)]
MakitTexts == [badge : STRING, addr : AddrTexts \cup {Unset}, level : Int \cup {Unset}]
PromTexts  == [port : ListenPorts, nodes : Seq(STRING)]

File == [listen : (Nat \ {0}) \cup {Unset}, interval : Int, timeout : Int,
         nodes : Seq(NodeTexts), badges : Seq(BadgeTexts),
         pixoo : Seq(STRING), makit : Seq(MakitTexts), prom : Seq(PromTexts)]

ASSUME FilesAssumption == Files \subseteq File
ASSUME HostsAssumption == "makit.local" \in Hosts \ Ipv6
ASSUME LeadsAssumption == "plain" \in Leads
ASSUME MarkersAssumption ==
    /\ Unset # Rejected /\ Unset # "refused"
    /\ Unset \notin AddrTexts /\ Rejected \notin AddrTexts
    /\ Unset \notin Ports /\ Rejected \notin ListenPorts /\ {Unset, Rejected} \cap File = {}

VARIABLES
    file,           \* the file
    source,         \* the file as it was read at the start of mon64, or Unset
    started,        \* the configuration mon64 runs with since its start, or Unset
    panel,          \* the address the makit exporter dials: Unset, or Rejected: disabled
    tried,          \* those who have tried to listen: the main server and exports
    holds,          \* those of them that got their port
    verdict         \* of the last reload

configVars == <<file, source, started, panel, tried, holds, verdict>>

-----------------------------------------------------------------------------
(* Addresses and ports.                                                    *)

Port(l, n) == [lead |-> l, number |-> n]
DefaultPort == Port("plain", 5683)
DefaultAddr == [brackets |-> FALSE, host |-> "makit.local", port |-> DefaultPort]

ValidPort(p) == p.number \in 1 .. 65535

\* splitHostPort gives up: colons in what is not in brackets, or no port behind them.
Ambiguous(a) == IF a.brackets THEN a.port = Unset ELSE a.host \in Ipv6

\* The address is put together without brackets.
NormalizeMakit64Addr(a) ==
    LET port == IF a.port = Unset THEN DefaultPort ELSE a.port
    IN  IF a = Unset THEN DefaultAddr
        ELSE IF Ambiguous(a) \/ a.host = "" \/ ~ ValidPort(port) THEN Rejected
        ELSE [brackets |-> FALSE, host |-> a.host, port |-> port]

\* Mutant of NormalizeListenPort: what it returned before is not accepted.
NormalizeListenPortOnce(p) ==
    IF p.colon \/ ~ ValidPort(p.port) THEN Rejected ELSE [colon |-> TRUE, port |-> p.port]

NormalizeListenPort(p) ==
    IF ValidPort(p.port) THEN [colon |-> TRUE, port |-> p.port] ELSE Rejected

-----------------------------------------------------------------------------
(* validate.                                                               *)

Names(s)   == {s[i].name : i \in DOMAIN s}
NameSeq(s) == [i \in DOMAIN s |-> s[i].name]
BadgeSeq(s) == [i \in DOMAIN s |-> s[i].badge]

EffectiveScrapeInterval(n, c) == IF n.interval > 0 THEN n.interval ELSE c.interval

\* A list of names that are known and differ.
Picks(s, known) == Range(s) \subseteq known /\ IsInjective(s)

ValidNode(n, c) ==
    /\ n.collects # {}
    /\ Dummy \/ /\ n.fmt = "node-exporter" => "gpu" \notin n.collects
                /\ c.timeout < EffectiveScrapeInterval(n, c)

ValidNodes(c) ==
    /\ c.listen # Unset /\ c.interval > 0 /\ c.timeout > 0
    /\ c.nodes # << >> /\ IsInjective(NameSeq(c.nodes))
    /\ \A i \in DOMAIN c.nodes : ValidNode(c.nodes[i], c)

ValidBadge(b, c) ==
    /\ b.type \in {"rect64", "circle240"}
    /\ b.nodes # << >> /\ (b.type = "circle240" => Len(b.nodes) = 1)
    /\ Picks(b.nodes, Names(c.nodes))

ValidBadges(c) ==
    /\ IsInjective(NameSeq(c.badges))
    /\ \A i \in DOMAIN c.badges : ValidBadge(c.badges[i], c)

ValidPixoo(c) == Picks(c.pixoo, Names(c.badges))

Addrs(c) == {NormalizeMakit64Addr(c.makit[i].addr) : i \in DOMAIN c.makit}

\* Mutant of OneAddr: each export may name a panel.
OneAddrEach(c) == Rejected \notin Addrs(c)

OneAddr(c) == Rejected \notin Addrs(c) /\ \A a, b \in Addrs(c) : a = b

ValidMakit(c) ==
    /\ Picks(BadgeSeq(c.makit), Names(c.badges))
    /\ OneAddr(c)
    /\ \A i \in DOMAIN c.makit : c.makit[i].level \in (0 .. 255) \cup {Unset}

\* Mutant of ListenSeq: ports are compared as they are written.
ListenSeqAsWritten(c) == [i \in DOMAIN c.prom |-> c.prom[i].port]

ListenSeq(c) == [i \in DOMAIN c.prom |-> NormalizeListenPort(c.prom[i].port)]

ValidProm(c) ==
    /\ Rejected \notin Range(ListenSeq(c)) /\ IsInjective(ListenSeq(c))
    /\ \A i \in DOMAIN c.prom : c.prom[i].nodes # << >> /\ Picks(c.prom[i].nodes, Names(c.nodes))

Normalized(c) ==
    [c EXCEPT !.makit = [i \in DOMAIN c.makit |->
                            [c.makit[i] EXCEPT !.addr = NormalizeMakit64Addr(@)]],
              !.prom  = [i \in DOMAIN c.prom |->
                            [c.prom[i] EXCEPT !.port = NormalizeListenPort(@)]]]

\* validate returns an error or writes the normalised texts into c.
Validate(c) ==
    IF ValidNodes(c) /\ ValidBadges(c) /\ ValidPixoo(c) /\ ValidMakit(c) /\ ValidProm(c)
    THEN Normalized(c) ELSE Rejected

-----------------------------------------------------------------------------
Server == 0

\* The port that the main server or an export of prometheuses asks for.
PortOf(i) == IF i = Server THEN started.listen ELSE ListenSeq(started)[i].port.number

Free(i) == \A j \in holds : PortOf(j) # PortOf(i)

ConfigInit ==
    /\ file \in Files
    /\ source = Unset /\ started = Unset /\ panel = Unset
    /\ tried = {} /\ holds = {} /\ verdict = Unset

Edit ==
    /\ file' \in Files /\ verdict' = Unset
    /\ UNCHANGED <<source, started, panel, tried, holds>>

\* main loads the file; with an error mon64 ends and may be started again.
Load ==
    /\ started = Unset /\ Validate(file) # Rejected
    /\ source' = file /\ started' = Validate(file)
    /\ UNCHANGED <<file, panel, tried, holds, verdict>>

\* The makit exporter normalises the address once more; an error disables it.
StartMakit ==
    /\ started # Unset /\ started.makit # << >> /\ panel = Unset
    /\ panel' = NormalizeMakit64Addr(started.makit[1].addr)
    /\ UNCHANGED <<file, source, started, tried, holds, verdict>>

\* So does the prometheus exporter with its ports.  Each export has a goroutine, whose
\* ListenAndServe fails if the port is taken; that is logged.
ExportListens(i) ==
    /\ started # Unset /\ i \in DOMAIN started.prom \ tried
    /\ Rejected \notin Range(ListenSeq(started))
    /\ tried' = tried \cup {i}
    /\ holds' = IF Free(i) THEN holds \cup {i} ELSE holds
    /\ UNCHANGED <<file, source, started, panel, verdict>>

\* The main server can listen: validate only asks that listen is not empty.
CanListen == Free(Server) /\ started.listen \in 1 .. 65535

ServerListens ==
    /\ started # Unset /\ Server \notin tried /\ CanListen
    /\ tried' = tried \cup {Server} /\ holds' = holds \cup {Server}
    /\ UNCHANGED <<file, source, started, panel, verdict>>

\* A main server that cannot listen ends mon64.
ServerFails ==
    /\ started # Unset /\ Server \notin tried /\ ~ CanListen
    /\ source' = Unset /\ started' = Unset /\ panel' = Unset
    /\ tried' = {} /\ holds' = {} /\ verdict' = Unset
    /\ UNCHANGED file

\* main's reload: Load, and validate once more in Store.Reload.
Reload ==
    /\ started # Unset
    /\ LET c == Validate(file)
       IN  verdict' = IF c = Rejected THEN "unloadable"
                      ELSE IF Validate(c) = Rejected THEN "refused" ELSE "accepted"
    /\ UNCHANGED <<file, source, started, panel, tried, holds>>

ConfigNext ==
    \/ Edit \/ Load \/ StartMakit \/ ServerListens \/ ServerFails \/ Reload
    \/ started # Unset /\ \E i \in DOMAIN started.prom : ExportListens(i)

ConfigSpec == ConfigInit /\ [][ConfigNext]_configVars

-----------------------------------------------------------------------------
\* What Load accepts, the store accepts, and the exporter can dial: "use [ipv6]:port
\* for IPv6 addresses".
LoadedIsAccepted == verdict # "refused" /\ panel # Rejected

UsesIpv6(c) == \E i \in DOMAIN c.makit : c.makit[i].addr # Unset /\ c.makit[i].addr.host \in Ipv6

\* It does, unless the panel has an IPv6 address: no other rule rejects what the rules
\* have normalised.
LoadedIsAcceptedUnlessIpv6 ==
    /\ verdict = "refused" => UsesIpv6(file)
    /\ panel = Rejected => UsesIpv6(started)

\* The panel that an address means.
Host(a) == IF a = Unset THEN "makit.local" ELSE a.host
Udp(a)  == IF a = Unset \/ a.port = Unset THEN 5683 ELSE a.port.number

\* The exporter dials one panel: the one that every export of the file means, in
\* whatever form its address is written there.
OnePanel ==
    panel \notin {Unset, Rejected} =>
        \A i \in DOMAIN source.makit :
            LET a == source.makit[i].addr
            IN  Host(a) = panel.host /\ Udp(a) = panel.port.number

\* Two exports ask for one port, which the file gives one of them with a sign or zeros
\* in front.
Alike(i, j) ==
    LET p == source.prom[i].port.port
        q == source.prom[j].port.port
    IN  p.number = q.number /\ (p.lead # "plain" \/ q.lead # "plain")

\* "duplicate port": each export of prometheuses gets the port it asks for, unless that
\* is the port of listen, or another export asks for it in another way of writing it.
ExportsGetPorts ==
    \A i \in tried \ (holds \cup {Server}) :
        \/ source.prom[i].port.port.number = source.listen
        \/ \E j \in DOMAIN source.prom \ {i} : Alike(i, j)

=============================================================================
