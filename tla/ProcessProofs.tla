--------------------------- MODULE ProcessProofs ---------------------------
(***************************************************************************)
(* Theorems about how the process starts, with the rules of the            *)
(* configuration (module ConfigRules), for every set of files, and about   *)
(* how it ends (module Lifecycle), for every set of clients, number of     *)
(* exports and pair of timeouts.                                           *)
(***************************************************************************)
EXTENDS ConfigRules, Lifecycle, SequenceTheorems, FiniteSetTheorems, TLAPS

-----------------------------------------------------------------------------
(* Normalisation.  What it returns it returns again, unless the brackets   *)
(* it took off an IPv6 address are missed.                                 *)

LEMMA PortOnce ==
    ASSUME NEW p \in ListenPorts, NormalizeListenPort(p) # Rejected
    PROVE  LET q == NormalizeListenPort(p) IN
           /\ q \in ListenPorts /\ q.colon = TRUE /\ q.port = p.port
           /\ NormalizeListenPort(q) = q
<1> DEFINE q == [colon |-> TRUE, port |-> p.port]
<1>1. ValidPort(p.port) /\ NormalizeListenPort(p) = q
  BY DEF NormalizeListenPort
<1>2. q.colon = TRUE /\ q.port = p.port /\ p.port \in Ports
  BY DEF ListenPorts
<1>3. q \in ListenPorts
  BY <1>2 DEF ListenPorts
<1>4. NormalizeListenPort(q) = q
  BY <1>1, <1>2 DEF NormalizeListenPort
<1> QED
  BY <1>1, <1>2, <1>3, <1>4

LEMMA AddrOnce ==
    ASSUME NEW a \in AddrTexts \cup {Unset}, NormalizeMakit64Addr(a) # Rejected
    PROVE  LET n == NormalizeMakit64Addr(a) IN
           /\ n \in AddrTexts /\ n.port \in Ports
           /\ n.host \in Ipv6 => a # Unset /\ a.host \in Ipv6
           /\ NormalizeMakit64Addr(n) = IF n.host \in Ipv6 THEN Rejected ELSE n
<1> DEFINE n == NormalizeMakit64Addr(a)
<1>0. DefaultPort \in Ports /\ DefaultPort.number = 5683
  <2>1. \A l \in Leads : Port(l, 5683) \in Ports
    BY DEF Port, Ports
  <2> QED
    BY <2>1, LeadsAssumption DEF DefaultPort, Port
<1>1. /\ n.brackets = FALSE /\ n.host # "" /\ n.host \in Hosts /\ n.port \in Ports
      /\ ValidPort(n.port)
      /\ n = [brackets |-> FALSE, host |-> n.host, port |-> n.port]
      /\ n.host \in Ipv6 => a # Unset /\ a.host \in Ipv6
  <2>1. CASE a = Unset
    <3>1. n = DefaultAddr
      BY <2>1 DEF NormalizeMakit64Addr
    <3>2. /\ DefaultAddr.brackets = FALSE /\ DefaultAddr.host = "makit.local"
          /\ DefaultAddr.port = DefaultPort
          /\ DefaultAddr = [brackets |-> FALSE, host |-> DefaultAddr.host, port |-> DefaultAddr.port]
      BY DEF DefaultAddr
    <3>3. ValidPort(DefaultPort)
      BY <1>0 DEF ValidPort
    <3>4. "makit.local" \notin Ipv6
      BY HostsAssumption
    <3>5. "makit.local" # ""
      OBVIOUS
    <3> HIDE DEF n
    <3> QED
      BY <1>0, <3>1, <3>2, <3>3, <3>4, <3>5, HostsAssumption
  <2>2. CASE a # Unset
    <3> DEFINE port == IF a.port = Unset THEN DefaultPort ELSE a.port
    <3>1. a \in AddrTexts /\ a.host \in Hosts /\ port \in Ports
      BY <1>0, <2>2 DEF AddrTexts
    <3>2. n = [brackets |-> FALSE, host |-> a.host, port |-> port] /\ a.host # "" /\ ValidPort(port)
      BY <2>2 DEF NormalizeMakit64Addr
    <3> HIDE DEF n, port
    <3> QED
      BY <2>2, <3>1, <3>2
  <2> QED
    BY <2>1, <2>2
<1> HIDE DEF n
<1>2. n \in AddrTexts
  BY <1>1 DEF AddrTexts
<1>3. n # Unset /\ n.port # Unset
  BY <1>1, <1>2, MarkersAssumption
<1>4. Ambiguous(n) <=> n.host \in Ipv6
  BY <1>1 DEF Ambiguous
<1>5. NormalizeMakit64Addr(n) = IF n.host \in Ipv6 THEN Rejected ELSE n
  BY <1>1, <1>3, <1>4 DEF NormalizeMakit64Addr
<1> QED
  BY <1>1, <1>2, <1>5 DEF n

\* A normalised address names the panel that the address means.
LEMMA AddrMeaning ==
    ASSUME NEW a \in AddrTexts \cup {Unset}, NormalizeMakit64Addr(a) # Rejected
    PROVE  LET n == NormalizeMakit64Addr(a) IN n.host = Host(a) /\ n.port.number = Udp(a)
<1> DEFINE n == NormalizeMakit64Addr(a)
<1>0. DefaultPort.number = 5683
  BY DEF DefaultPort, Port
<1>1. CASE a = Unset
  <2>1. n = DefaultAddr
    BY <1>1 DEF NormalizeMakit64Addr
  <2>2. DefaultAddr.host = "makit.local" /\ DefaultAddr.port = DefaultPort
    BY DEF DefaultAddr
  <2> HIDE DEF n
  <2> QED
    BY <1>0, <1>1, <2>1, <2>2 DEF Host, Udp, n
<1>2. CASE a # Unset
  <2> DEFINE port == IF a.port = Unset THEN DefaultPort ELSE a.port
  <2>1. n = [brackets |-> FALSE, host |-> a.host, port |-> port]
    BY <1>2 DEF NormalizeMakit64Addr
  <2>2. n.host = a.host /\ n.port = port
    BY <2>1
  <2> HIDE DEF n
  <2> QED
    BY <1>0, <1>2, <2>2 DEF Host, Udp, n
<1> QED
  BY <1>1, <1>2

-----------------------------------------------------------------------------
(* What validate returns.                                                  *)

LEMMA FileFields ==
    ASSUME NEW f \in Files
    PROVE  /\ f.makit \in Seq(MakitTexts) /\ f.prom \in Seq(PromTexts)
           /\ \A i \in DOMAIN f.makit : f.makit[i].addr \in AddrTexts \cup {Unset}
           /\ \A i \in DOMAIN f.prom : f.prom[i].port \in ListenPorts
<1>1. f \in File
  BY FilesAssumption
<1>2. f.makit \in Seq(MakitTexts) /\ f.prom \in Seq(PromTexts)
  BY <1>1 DEF File
<1>3. \A i \in DOMAIN f.makit : f.makit[i] \in MakitTexts
  BY <1>2
<1>4. \A i \in DOMAIN f.prom : f.prom[i] \in PromTexts
  BY <1>2
<1> QED
  BY <1>2, <1>3, <1>4 DEF MakitTexts, PromTexts

\* Normalising changes addresses and ports, and nothing else.
LEMMA NormalizedFields ==
    ASSUME NEW f \in File, NEW c, c = Normalized(f)
    PROVE  /\ c.listen = f.listen /\ c.interval = f.interval /\ c.timeout = f.timeout /\ c.nodes = f.nodes
           /\ c.badges = f.badges /\ c.pixoo = f.pixoo
           /\ DOMAIN c.makit = DOMAIN f.makit /\ DOMAIN c.prom = DOMAIN f.prom
           /\ \A i \in DOMAIN f.makit :
                /\ c.makit[i].badge = f.makit[i].badge /\ c.makit[i].level = f.makit[i].level
                /\ c.makit[i].addr = NormalizeMakit64Addr(f.makit[i].addr)
           /\ \A i \in DOMAIN f.prom :
                /\ c.prom[i].nodes = f.prom[i].nodes
                /\ c.prom[i].port = NormalizeListenPort(f.prom[i].port)
           /\ (\A i \in DOMAIN f.makit : NormalizeMakit64Addr(f.makit[i].addr) \in AddrTexts)
                /\ (\A i \in DOMAIN f.prom : NormalizeListenPort(f.prom[i].port) \in ListenPorts)
              => c \in File
<1> DEFINE Addr(i) == NormalizeMakit64Addr(f.makit[i].addr)
           Listened(i) == NormalizeListenPort(f.prom[i].port)
           makit == [i \in DOMAIN f.makit |-> [f.makit[i] EXCEPT !.addr = Addr(i)]]
           prom == [i \in DOMAIN f.prom |-> [f.prom[i] EXCEPT !.port = Listened(i)]]
<1>1. f.makit \in Seq(MakitTexts) /\ f.prom \in Seq(PromTexts)
  BY DEF File
<1>2. c = [f EXCEPT !.makit = makit, !.prom = prom]
  BY DEF Normalized
<1> HIDE DEF Addr, Listen
<1>3. \A i \in DOMAIN f.makit :
        /\ makit[i].badge = f.makit[i].badge /\ makit[i].level = f.makit[i].level
        /\ makit[i].addr = Addr(i)
        /\ Addr(i) \in AddrTexts => makit[i] \in MakitTexts
  <2> TAKE i \in DOMAIN f.makit
  <2>1. f.makit[i] \in MakitTexts
    BY <1>1
  <2> QED
    BY <2>1 DEF MakitTexts
<1>4. \A i \in DOMAIN f.prom :
        /\ prom[i].nodes = f.prom[i].nodes /\ prom[i].port = Listened(i)
        /\ Listened(i) \in ListenPorts => prom[i] \in PromTexts
  <2> TAKE i \in DOMAIN f.prom
  <2>1. f.prom[i] \in PromTexts
    BY <1>1
  <2> QED
    BY <2>1 DEF PromTexts
<1>5. DOMAIN makit = DOMAIN f.makit /\ DOMAIN prom = DOMAIN f.prom
  OBVIOUS
<1>6. (\A i \in DOMAIN f.makit : Addr(i) \in AddrTexts) => makit \in Seq(MakitTexts)
  <2> SUFFICES ASSUME \A i \in DOMAIN f.makit : Addr(i) \in AddrTexts
               PROVE  makit \in Seq(MakitTexts)
    OBVIOUS
  <2>1. \A i \in DOMAIN f.makit : makit[i] \in MakitTexts
    BY <1>3
  <2>2. DOMAIN f.makit = 1 .. Len(f.makit) /\ Len(f.makit) \in Nat
    BY <1>1
  <2>3. makit \in [1 .. Len(f.makit) -> MakitTexts]
    BY <2>1, <2>2
  <2> QED
    BY <2>2, <2>3, SeqDef
<1>7. (\A i \in DOMAIN f.prom : Listened(i) \in ListenPorts) => prom \in Seq(PromTexts)
  <2> SUFFICES ASSUME \A i \in DOMAIN f.prom : Listened(i) \in ListenPorts
               PROVE  prom \in Seq(PromTexts)
    OBVIOUS
  <2>1. \A i \in DOMAIN f.prom : prom[i] \in PromTexts
    BY <1>4
  <2>2. DOMAIN f.prom = 1 .. Len(f.prom) /\ Len(f.prom) \in Nat
    BY <1>1
  <2>3. prom \in [1 .. Len(f.prom) -> PromTexts]
    BY <2>1, <2>2
  <2> QED
    BY <2>2, <2>3, SeqDef
<1> HIDE DEF makit, prom
<1>8. /\ c.makit = makit /\ c.prom = prom
      /\ c.listen = f.listen /\ c.interval = f.interval /\ c.timeout = f.timeout
      /\ c.nodes = f.nodes /\ c.badges = f.badges /\ c.pixoo = f.pixoo
      /\ makit \in Seq(MakitTexts) /\ prom \in Seq(PromTexts) => c \in File
  BY <1>2 DEF File
<1> QED
  BY <1>3, <1>4, <1>5, <1>6, <1>7, <1>8 DEF Addr, Listen

LEMMA LoadedValid ==
    ASSUME NEW f \in Files, NEW c, c = Validate(f), c # Rejected
    PROVE  /\ c = Normalized(f)
           /\ ValidNodes(f) /\ ValidBadges(f) /\ ValidPixoo(f) /\ ValidMakit(f) /\ ValidProm(f)
BY DEF Validate

\* The exports of makit64 have one address, which is dialled as it is written, unless
\* it is IPv6.
LEMMA LoadedAddrs ==
    ASSUME NEW f \in Files, NEW c, c = Validate(f), c # Rejected
    PROVE  /\ \A i \in DOMAIN c.makit :
                LET n == c.makit[i].addr IN
                /\ n \in AddrTexts /\ n.port \in Ports
                /\ n = NormalizeMakit64Addr(f.makit[i].addr)
                /\ n.host \in Ipv6 => UsesIpv6(f)
                /\ NormalizeMakit64Addr(n) = IF n.host \in Ipv6 THEN Rejected ELSE n
           /\ \A i, j \in DOMAIN c.makit : c.makit[i].addr = c.makit[j].addr
<1>1. c = Normalized(f) /\ ValidMakit(f) /\ f \in File
  BY LoadedValid, FilesAssumption
<1>2. /\ DOMAIN c.makit = DOMAIN f.makit
      /\ \A i \in DOMAIN f.makit : c.makit[i].addr = NormalizeMakit64Addr(f.makit[i].addr)
  BY <1>1, NormalizedFields
<1>3. \A i \in DOMAIN f.makit : NormalizeMakit64Addr(f.makit[i].addr) \in Addrs(f)
  BY DEF Addrs
<1>4. \A i \in DOMAIN f.makit : NormalizeMakit64Addr(f.makit[i].addr) # Rejected
  BY <1>1, <1>3 DEF ValidMakit, OneAddr
<1>5. \A i, j \in DOMAIN c.makit : c.makit[i].addr = c.makit[j].addr
  BY <1>1, <1>2, <1>3 DEF ValidMakit, OneAddr
<1>6. ASSUME NEW i \in DOMAIN c.makit, NEW n, n = c.makit[i].addr
      PROVE  /\ n \in AddrTexts /\ n.port \in Ports
             /\ n = NormalizeMakit64Addr(f.makit[i].addr)
             /\ n.host \in Ipv6 => UsesIpv6(f)
             /\ NormalizeMakit64Addr(n) = IF n.host \in Ipv6 THEN Rejected ELSE n
  <2>1. n = NormalizeMakit64Addr(f.makit[i].addr) /\ n # Rejected
        /\ f.makit[i].addr \in AddrTexts \cup {Unset} /\ i \in DOMAIN f.makit
    BY <1>2, <1>4, <1>6, FileFields
  <2>2. /\ n \in AddrTexts /\ n.port \in Ports
        /\ n.host \in Ipv6 => f.makit[i].addr # Unset /\ f.makit[i].addr.host \in Ipv6
        /\ NormalizeMakit64Addr(n) = IF n.host \in Ipv6 THEN Rejected ELSE n
    BY <2>1, AddrOnce
  <2> QED
    BY <2>1, <2>2 DEF UsesIpv6
<1> QED
  BY <1>5, <1>6

LEMMA LoadedPorts ==
    ASSUME NEW f \in Files, NEW c, c = Validate(f), c # Rejected
    PROVE  /\ ListenSeq(c) = ListenSeq(f)
           /\ \A i \in DOMAIN c.prom :
                /\ ListenSeq(c)[i] = c.prom[i].port /\ c.prom[i].port \in ListenPorts
                /\ NormalizeListenPort(c.prom[i].port) = c.prom[i].port
                /\ c.prom[i].port.colon = TRUE
<1>1. c = Normalized(f) /\ ValidProm(f) /\ f \in File
  BY LoadedValid, FilesAssumption
<1>2. /\ DOMAIN c.prom = DOMAIN f.prom
      /\ \A i \in DOMAIN f.prom : c.prom[i].port = NormalizeListenPort(f.prom[i].port)
  BY <1>1, NormalizedFields
<1>3. \A i \in DOMAIN f.prom : NormalizeListenPort(f.prom[i].port) # Rejected
  <2>1. \A i \in DOMAIN f.prom : NormalizeListenPort(f.prom[i].port) \in Range(ListenSeq(f))
    BY DEF ListenSeq, Range
  <2> QED
    BY <1>1, <2>1 DEF ValidProm
<1>4. ASSUME NEW i \in DOMAIN c.prom
      PROVE  /\ NormalizeListenPort(c.prom[i].port) = c.prom[i].port
             /\ c.prom[i].port \in ListenPorts /\ c.prom[i].port.colon = TRUE
  <2>1. i \in DOMAIN f.prom /\ f.prom[i].port \in ListenPorts
    BY <1>2, FileFields
  <2>2. NormalizeListenPort(f.prom[i].port) # Rejected
    BY <1>3, <2>1
  <2> QED
    BY <1>2, <2>1, <2>2, PortOnce
<1>5. ListenSeq(c) = ListenSeq(f)
  <2>1. \A i \in DOMAIN f.prom : NormalizeListenPort(c.prom[i].port) = NormalizeListenPort(f.prom[i].port)
    BY <1>2, <1>4
  <2> QED
    BY <1>2, <2>1 DEF ListenSeq
<1>6. \A i \in DOMAIN c.prom : ListenSeq(c)[i] = c.prom[i].port
  BY <1>4 DEF ListenSeq
<1> QED
  BY <1>4, <1>5, <1>6

LEMMA LoadedFile ==
    ASSUME NEW f \in Files, NEW c, c = Validate(f), c # Rejected
    PROVE  c \in File
<1>1. c = Normalized(f) /\ f \in File
  BY LoadedValid, FilesAssumption
<1>2. \A i \in DOMAIN f.makit : NormalizeMakit64Addr(f.makit[i].addr) \in AddrTexts
  <2>1. DOMAIN c.makit = DOMAIN f.makit
    BY <1>1, NormalizedFields
  <2>2. \A i \in DOMAIN c.makit :
          c.makit[i].addr \in AddrTexts /\ c.makit[i].addr = NormalizeMakit64Addr(f.makit[i].addr)
    BY LoadedAddrs
  <2> QED
    BY <2>1, <2>2
<1>3. \A i \in DOMAIN f.prom : NormalizeListenPort(f.prom[i].port) \in ListenPorts
  <2>1. DOMAIN c.prom = DOMAIN f.prom
        /\ \A i \in DOMAIN f.prom : c.prom[i].port = NormalizeListenPort(f.prom[i].port)
    BY <1>1, NormalizedFields
  <2>2. \A i \in DOMAIN c.prom : c.prom[i].port \in ListenPorts
    BY LoadedPorts
  <2> QED
    BY <2>1, <2>2
<1> QED
  BY <1>1, <1>2, <1>3, NormalizedFields

LEMMA LoadedDomains ==
    ASSUME NEW f \in Files, NEW c, c = Validate(f), c # Rejected
    PROVE  /\ c.makit # << >> => 1 \in DOMAIN c.makit
           /\ Len(c.prom) \in Nat /\ DOMAIN c.prom = 1 .. Len(c.prom)
<1>1. c.makit \in Seq(MakitTexts) /\ c.prom \in Seq(PromTexts)
  BY LoadedFile DEF File
<1> QED
  BY <1>1

\* What Load accepts, Reload accepts.
LEMMA LoadedIsAcceptedAgain ==
    ASSUME NEW f \in Files, NEW c, c = Validate(f), c # Rejected, ~ UsesIpv6(f)
    PROVE  Validate(c) # Rejected
<1>1. /\ c = Normalized(f) /\ f \in File
      /\ ValidNodes(f) /\ ValidBadges(f) /\ ValidPixoo(f) /\ ValidMakit(f) /\ ValidProm(f)
  BY LoadedValid, FilesAssumption
<1>2. /\ c.listen = f.listen /\ c.interval = f.interval /\ c.timeout = f.timeout
      /\ c.nodes = f.nodes /\ c.badges = f.badges /\ c.pixoo = f.pixoo
      /\ DOMAIN c.makit = DOMAIN f.makit /\ DOMAIN c.prom = DOMAIN f.prom
      /\ \A i \in DOMAIN f.makit :
            c.makit[i].badge = f.makit[i].badge /\ c.makit[i].level = f.makit[i].level
      /\ \A i \in DOMAIN f.prom : c.prom[i].nodes = f.prom[i].nodes
  BY <1>1, NormalizedFields
<1>3. \A i \in DOMAIN c.makit : /\ NormalizeMakit64Addr(c.makit[i].addr) = c.makit[i].addr
                                /\ c.makit[i].addr \in AddrTexts
  BY LoadedAddrs
<1>4. \A i \in DOMAIN c.prom : /\ NormalizeListenPort(c.prom[i].port) = c.prom[i].port
                               /\ c.prom[i].port \in ListenPorts
  BY LoadedPorts
<1>5. ValidNodes(c)
  BY <1>1, <1>2 DEF ValidNodes, ValidNode, EffectiveScrapeInterval
<1>6. ValidBadges(c) /\ ValidPixoo(c)
  BY <1>1, <1>2 DEF ValidBadges, ValidBadge, ValidPixoo
<1>7. ValidMakit(c)
  <2>1. BadgeSeq(c.makit) = BadgeSeq(f.makit)
    BY <1>2 DEF BadgeSeq
  <2>2. \A i, j \in DOMAIN c.makit : c.makit[i].addr = c.makit[j].addr
    BY LoadedAddrs
  <2>3. Rejected \notin Addrs(c) /\ \A a, b \in Addrs(c) : a = b
    BY <1>3, <2>2, MarkersAssumption DEF Addrs
  <2>4. \A i \in DOMAIN c.makit : c.makit[i].level \in (0 .. 255) \cup {Unset}
    BY <1>1, <1>2 DEF ValidMakit
  <2>5. Picks(BadgeSeq(c.makit), Names(c.badges))
    BY <1>1, <1>2, <2>1 DEF ValidMakit
  <2> QED
    BY <2>3, <2>4, <2>5 DEF ValidMakit, OneAddr
<1>8. ValidProm(c)
  <2>1. ListenSeq(c) = ListenSeq(f)
    BY LoadedPorts
  <2>2. Rejected \notin Range(ListenSeq(c)) /\ IsInjective(ListenSeq(c))
    BY <1>1, <2>1 DEF ValidProm
  <2>3. \A i \in DOMAIN c.prom : c.prom[i].nodes # << >> /\ Picks(c.prom[i].nodes, Names(c.nodes))
    BY <1>1, <1>2 DEF ValidProm
  <2> QED
    BY <2>2, <2>3 DEF ValidProm
<1>9. c \in File
  BY LoadedFile
<1>10. Normalized(c) \in File
  BY <1>3, <1>4, <1>9, NormalizedFields
<1>11. Validate(c) = Normalized(c)
  BY <1>5, <1>6, <1>7, <1>8 DEF Validate
<1> QED
  BY <1>10, <1>11, MarkersAssumption

-----------------------------------------------------------------------------
(* The theorems.  What runs was loaded from the file that was read, the    *)
(* panel is what the rules make of it, and who has no port found it taken. *)

StartedInv ==
    /\ file \in Files
    /\ verdict = "refused" => UsesIpv6(file)
    /\ started = Unset => panel = Unset /\ tried = {} /\ holds = {}
    /\ started # Unset => source \in Files /\ started = Validate(source) /\ started # Rejected
    /\ panel # Unset =>
          /\ started # Unset /\ started.makit # << >>
          /\ panel = NormalizeMakit64Addr(started.makit[1].addr)

HoldsInv ==
    /\ started # Unset => tried \subseteq {Server} \cup DOMAIN started.prom
    /\ holds \subseteq tried
    /\ \A i \in tried \ (holds \cup {Server}) : \E j \in holds : PortOf(j) = PortOf(i)

LEMMA StartedNext == StartedInv /\ [ConfigNext]_configVars => StartedInv'
<1> SUFFICES ASSUME StartedInv, [ConfigNext]_configVars PROVE StartedInv'
  OBVIOUS
<1> USE DEF StartedInv
<1>1. CASE Edit
  BY <1>1, MarkersAssumption DEF Edit
<1>2. CASE Load
  <2>1. /\ Validate(file) # Rejected /\ started' = Validate(file) /\ source' = file
        /\ panel = Unset
    BY <1>2 DEF Load
  <2>2. started' # Unset
    BY <2>1, LoadedFile, MarkersAssumption
  <2> QED
    BY <1>2, <2>1, <2>2 DEF Load
<1>3. CASE StartMakit
  BY <1>3 DEF StartMakit
<1>4. CASE \E i \in DOMAIN started.prom : ExportListens(i)
  BY <1>4 DEF ExportListens
<1>5. CASE ServerListens
  BY <1>5 DEF ServerListens
<1>6. CASE ServerFails
  BY <1>6, MarkersAssumption DEF ServerFails
<1>7. CASE Reload
  <2>1. ASSUME verdict' = "refused" PROVE UsesIpv6(file)
    <3>1. Validate(file) # Rejected /\ Validate(Validate(file)) = Rejected
      BY <1>7, <2>1 DEF Reload
    <3> QED
      BY <3>1, LoadedIsAcceptedAgain
  <2>2. UNCHANGED <<file, source, started, panel, tried, holds>>
    BY <1>7 DEF Reload
  <2>3. verdict' = "refused" => UsesIpv6(file')
    BY <2>1, <2>2
  <2> QED
    BY <2>2, <2>3
<1>8. CASE UNCHANGED configVars
  BY <1>8 DEF configVars
<1> QED
  BY <1>1, <1>2, <1>3, <1>4, <1>5, <1>6, <1>7, <1>8 DEF ConfigNext

LEMMA HoldsNext == StartedInv /\ HoldsInv /\ [ConfigNext]_configVars => HoldsInv'
<1> SUFFICES ASSUME StartedInv, HoldsInv, [ConfigNext]_configVars PROVE HoldsInv'
  OBVIOUS
<1>1. CASE Load
  <2>1. tried' = {} /\ holds' = {}
    BY <1>1 DEF Load, StartedInv
  <2> QED
    BY <2>1 DEF HoldsInv
<1>2. CASE ServerFails
  BY <1>2 DEF ServerFails, HoldsInv
<1>3. ASSUME NEW i \in DOMAIN started.prom, ExportListens(i) PROVE HoldsInv'
  <2>1. /\ started # Unset /\ started' = started /\ tried' = tried \cup {i}
        /\ holds' = IF Free(i) THEN holds \cup {i} ELSE holds
    BY <1>3 DEF ExportListens
  <2>2. \A k : PortOf(k)' = PortOf(k)
    BY <2>1 DEF PortOf, ListenSeq
  <2>3. i \in holds' \/ \E j \in holds : PortOf(j) = PortOf(i)
    BY <2>1 DEF Free
  <2>4. \A k \in tried' \ (holds' \cup {Server}) : \E j \in holds' : PortOf(j) = PortOf(k)
    BY <2>1, <2>3 DEF HoldsInv
  <2> QED
    BY <2>1, <2>2, <2>4 DEF HoldsInv
<1>4. CASE ServerListens
  <2>1. /\ started # Unset /\ started' = started
        /\ tried' = tried \cup {Server} /\ holds' = holds \cup {Server}
    BY <1>4 DEF ServerListens
  <2>2. \A k : PortOf(k)' = PortOf(k)
    BY <2>1 DEF PortOf, ListenSeq
  <2> QED
    BY <2>1, <2>2 DEF HoldsInv
<1>5. CASE UNCHANGED <<started, tried, holds>>
  <2>1. \A k : PortOf(k)' = PortOf(k)
    BY <1>5 DEF PortOf, ListenSeq
  <2> QED
    BY <1>5, <2>1 DEF HoldsInv
<1> QED
  BY <1>1, <1>2, <1>3, <1>4, <1>5 DEF ConfigNext, configVars, Edit, StartMakit, Reload

LEMMA ConfigInductive == ConfigSpec => [](StartedInv /\ HoldsInv)
<1>1. ConfigInit => StartedInv /\ HoldsInv
  <2> SUFFICES ASSUME ConfigInit PROVE StartedInv /\ HoldsInv
    OBVIOUS
  <2> QED
    BY MarkersAssumption DEF ConfigInit, StartedInv, HoldsInv
<1> QED
  BY <1>1, StartedNext, HoldsNext, PTL DEF ConfigSpec

\* What Load accepted, Reload and the makit exporter accept as well, unless an address
\* is IPv6: the rules accept what they have normalised.
THEOREM LoadedAlwaysAccepted == ConfigSpec => []LoadedIsAcceptedUnlessIpv6
<1>1. StartedInv => LoadedIsAcceptedUnlessIpv6
  <2> SUFFICES ASSUME StartedInv, panel = Rejected PROVE UsesIpv6(started)
    BY DEF StartedInv, LoadedIsAcceptedUnlessIpv6
  <2>1. /\ started # Unset /\ started.makit # << >>
        /\ NormalizeMakit64Addr(started.makit[1].addr) = Rejected
    BY MarkersAssumption DEF StartedInv
  <2>2. source \in Files /\ started = Validate(source) /\ started # Rejected
    BY <2>1 DEF StartedInv
  <2>3. 1 \in DOMAIN started.makit
    BY <2>1, <2>2, LoadedDomains
  <2>4. /\ started.makit[1].addr \in AddrTexts
        /\ started.makit[1].addr.host \in Ipv6 \/ started.makit[1].addr = Rejected
    BY <2>1, <2>2, <2>3, LoadedAddrs
  <2>5. started.makit[1].addr # Rejected /\ started.makit[1].addr # Unset
    BY <2>4, MarkersAssumption
  <2> QED
    BY <2>3, <2>4, <2>5 DEF UsesIpv6
<1> QED
  BY <1>1, ConfigInductive, PTL

\* The panel that is dialled is the one that every export of the file means, in whatever
\* form the file names it.
THEOREM PanelIsTheOne == ConfigSpec => []OnePanel
<1>1. StartedInv => OnePanel
  <2> SUFFICES ASSUME StartedInv, panel \notin {Unset, Rejected}, NEW i \in DOMAIN source.makit
               PROVE  LET a == source.makit[i].addr
                      IN  Host(a) = panel.host /\ Udp(a) = panel.port.number
    BY DEF OnePanel
  <2> DEFINE a == source.makit[i].addr
  <2>1. /\ started # Unset /\ started.makit # << >>
        /\ panel = NormalizeMakit64Addr(started.makit[1].addr)
        /\ source \in Files /\ started = Validate(source) /\ started # Rejected
    BY DEF StartedInv
  <2>2. 1 \in DOMAIN started.makit /\ DOMAIN started.makit = DOMAIN source.makit
    BY <2>1, LoadedDomains, LoadedValid, FilesAssumption, NormalizedFields
  <2>3. panel = started.makit[1].addr
    BY <2>1, <2>2, LoadedAddrs
  <2>4. panel = NormalizeMakit64Addr(a)
    BY <2>1, <2>2, <2>3, LoadedAddrs
  <2>5. a \in AddrTexts \cup {Unset}
    BY <2>1, FileFields
  <2> HIDE DEF a
  <2>6. Host(a) = panel.host /\ Udp(a) = panel.port.number
    BY <2>4, <2>5, AddrMeaning
  <2> QED
    BY <2>6 DEF a
<1> QED
  BY <1>1, ConfigInductive, PTL

\* Exports that validation lets ask for one port write it in different ways.
LEMMA SamePortAlike ==
    ASSUME NEW f \in Files, Validate(f) # Rejected,
           NEW i \in DOMAIN f.prom, NEW j \in DOMAIN f.prom, i # j,
           f.prom[i].port.port.number = f.prom[j].port.port.number
    PROVE  f.prom[i].port.port.lead # "plain" \/ f.prom[j].port.port.lead # "plain"
<1> DEFINE p == f.prom[i].port.port
           q == f.prom[j].port.port
<1>1. ListenSeq(f)[i] # ListenSeq(f)[j] /\ Rejected \notin Range(ListenSeq(f))
  <2>1. IsInjective(ListenSeq(f)) /\ Rejected \notin Range(ListenSeq(f))
    BY LoadedValid DEF ValidProm
  <2>2. DOMAIN ListenSeq(f) = DOMAIN f.prom
    BY DEF ListenSeq
  <2> QED
    BY <2>1, <2>2 DEF IsInjective
<1>2. /\ ListenSeq(f)[i] = NormalizeListenPort(f.prom[i].port)
      /\ ListenSeq(f)[j] = NormalizeListenPort(f.prom[j].port)
      /\ ListenSeq(f)[i] \in Range(ListenSeq(f)) /\ ListenSeq(f)[j] \in Range(ListenSeq(f))
  BY DEF ListenSeq, Range
<1>3. /\ ListenSeq(f)[i] = [colon |-> TRUE, port |-> p]
      /\ ListenSeq(f)[j] = [colon |-> TRUE, port |-> q]
  BY <1>1, <1>2 DEF NormalizeListenPort
<1>4. p \in Ports /\ q \in Ports
  BY FileFields DEF ListenPorts
<1>5. p.number = q.number
  OBVIOUS
<1> HIDE DEF p, q
<1>6. p # q
  BY <1>1, <1>3
<1>7. p.lead # q.lead
  BY <1>4, <1>5, <1>6 DEF Ports
<1> QED
  BY <1>7 DEF p, q

\* Each export gets its port, unless the main server has it or another export writes it
\* with a sign or zeros, whatever the order in which they listen.
THEOREM ExportsAlwaysGetPorts == ConfigSpec => []ExportsGetPorts
<1>1. StartedInv /\ HoldsInv => ExportsGetPorts
  <2> SUFFICES ASSUME StartedInv, HoldsInv, NEW i \in tried \ (holds \cup {Server}),
                      source.prom[i].port.port.number # source.listen
               PROVE  \E j \in DOMAIN source.prom \ {i} : Alike(i, j)
    BY DEF ExportsGetPorts
  <2>1. started # Unset /\ source \in Files /\ started = Validate(source) /\ started # Rejected
    BY DEF StartedInv
  <2>2. PICK j \in holds : PortOf(j) = PortOf(i)
    BY DEF HoldsInv
  <2>3. /\ started.listen = source.listen /\ DOMAIN started.prom = DOMAIN source.prom
        /\ DOMAIN started.prom = 1 .. Len(started.prom)
    BY <2>1, LoadedDomains, LoadedValid, FilesAssumption, NormalizedFields
  <2>4. i \in DOMAIN source.prom /\ j \in {Server} \cup DOMAIN source.prom /\ i # j
    BY <2>1, <2>2, <2>3 DEF HoldsInv
  <2>5. \A k \in DOMAIN source.prom : PortOf(k) = source.prom[k].port.port.number
    <3> SUFFICES ASSUME NEW k \in DOMAIN source.prom
                 PROVE  PortOf(k) = source.prom[k].port.port.number
      OBVIOUS
    <3>1. k # Server
      BY <2>3 DEF Server
    <3>2. ListenSeq(started)[k] = NormalizeListenPort(source.prom[k].port)
      <4>1. ListenSeq(started) = ListenSeq(source)
        BY <2>1, LoadedPorts
      <4> QED
        BY <4>1 DEF ListenSeq
    <3>3. NormalizeListenPort(source.prom[k].port) # Rejected
      <4>1. Rejected \notin Range(ListenSeq(source))
        BY <2>1, LoadedValid DEF ValidProm
      <4> QED
        BY <4>1 DEF ListenSeq, Range
    <3>4. ListenSeq(started)[k].port = source.prom[k].port.port
      BY <2>1, <3>2, <3>3, FileFields, PortOnce
    <3> QED
      BY <3>1, <3>4 DEF PortOf
  <2>6. j # Server
    BY <2>2, <2>3, <2>4, <2>5 DEF PortOf
  <2>7. source.prom[i].port.port.number = source.prom[j].port.port.number
    BY <2>2, <2>4, <2>5, <2>6
  <2> QED
    BY <2>1, <2>4, <2>6, <2>7, SamePortAlike DEF Alike
<1> QED
  BY <1>1, ConfigInductive, PTL

-----------------------------------------------------------------------------
(* The end of the process.                                                 *)

\* Run has shut down the servers before the one it is at, and does not return before
\* all of them are closed; a server it has shut down does not listen again.
ShutdownInv ==
    /\ run = "serve" => down = {} /\ at = 1
    /\ run = "drain" => down \in {1 .. (at - 1), 1 .. at}
    /\ run \in {"wait", "returned"} => down = Servers
    /\ run = "returned" => \A i \in Servers : server[i] = "closed"
    /\ \A i \in down : server[i] # "listening"

\* Until Run has returned, time has passed for the two timeouts together: main waits
\* with a cancelled context only, and time does not pass before Run has seen that, nor
\* once it waits for its goroutines.
TimeoutInv ==
    /\ main \in {"shutdown", "drain"} => ctxDone
    /\ run # "returned" => left - promLeft = MainTimeout - PromTimeout

EndingInv == TypeOK /\ ShutdownInv /\ TimeoutInv

LEMMA EndingInductive == Spec => []EndingInv
<1> USE TimeoutAssumption
<1>1. Init => EndingInv
  <2> SUFFICES ASSUME Init PROVE EndingInv
    OBVIOUS
  <2>1. 1 \in Servers /\ MainTimeout \in Nat /\ PromTimeout \in Nat
    BY DEF Servers
  <2>2. TypeOK
    <3>1. main = "wait" /\ ctxDone \in BOOLEAN /\ http = "starting" /\ run = "serve"
      BY DEF Init
    <3>2. /\ client \in [Clients -> {"none", "request", "stream"}]
          /\ server \in [Servers -> {"starting", "listening", "closed"}]
          /\ down \subseteq Servers /\ scraped \subseteq Servers
      BY DEF Init
    <3>3. left \in 0 .. MainTimeout /\ promLeft \in 0 .. PromTimeout /\ at \in Servers
      BY <2>1 DEF Init
    <3> QED
      BY <3>1, <3>2, <3>3 DEF TypeOK
  <2>3. ShutdownInv /\ TimeoutInv
    BY DEF Init, ShutdownInv, TimeoutInv
  <2> QED
    BY <2>2, <2>3 DEF EndingInv
<1>2. EndingInv /\ [Next]_vars => EndingInv'
  <2> SUFFICES ASSUME EndingInv, [Next]_vars PROVE EndingInv'
    OBVIOUS
  <2> USE DEF EndingInv, TypeOK, ShutdownInv, TimeoutInv, Servers, mainVars, runVars
  <2>1. CASE Signal
    BY <2>1 DEF Signal
  <2>2. CASE MainSteps
    BY <2>2 DEF MainSteps, Cancel, Shutdown, ShutdownReturns, Listen
  <2>3. CASE RunCancelled
    BY <2>3 DEF RunCancelled
  <2>4. CASE ShutdownExport
    BY <2>4 DEF ShutdownExport
  <2>5. CASE ExportDrained
    BY <2>5 DEF ExportDrained
  <2>6. CASE RunReturns
    BY <2>6 DEF RunReturns
  <2>7. ASSUME NEW i \in Servers, ListenExport(i) PROVE EndingInv'
    BY <2>7 DEF ListenExport
  <2>8. ASSUME NEW i \in Servers, ScrapeExport(i) \/ ExportServed(i) PROVE EndingInv'
    BY <2>8 DEF ScrapeExport, ExportServed
  <2>9. ASSUME NEW c \in Clients,
               Request(c) \/ Served(c) \/ HandleEvents(c) \/ CloseStream(c)
        PROVE EndingInv'
    BY <2>9 DEF Request, Served, HandleEvents, CloseStream
  <2>10. CASE Tick
    <3>1. /\ main = "drain" /\ left # 0 /\ left' = left - 1
          /\ promLeft' = IF run = "drain" THEN promLeft - 1 ELSE promLeft
          /\ UNCHANGED <<main, ctxDone, http, client, run, at, down, server, scraped>>
      BY <2>10 DEF Tick, Urgent
    <3>2. run \in {"drain", "returned"} /\ (run = "drain" => promLeft # 0)
      BY <2>10, <3>1 DEF Tick, Urgent
    <3> QED
      BY <3>1, <3>2
  <2>11. CASE UNCHANGED vars
    BY <2>11 DEF vars
  <2> QED
    BY <2>1, <2>2, <2>3, <2>4, <2>5, <2>6, <2>7, <2>8, <2>9, <2>10, <2>11
       DEF Next, RunSteps
<1> QED
  BY <1>1, <1>2, PTL DEF Spec

\* Where main and Run stand has its type, and the servers are those configured.
THEOREM TypeCorrect == Spec => []TypeOK
BY EndingInductive, PTL DEF EndingInv

\* However many exports there are and however long their scrapes and the requests of
\* main's server take, Run has shut down its servers and returned before main has
\* waited out its timeout: it has less time for all of them than main has.
THEOREM ExporterAlwaysEndsFirst == Spec => []ExporterEndsFirst
<1>1. EndingInv => ExporterEndsFirst
  BY TimeoutAssumption DEF EndingInv, TimeoutInv, TypeOK, ExporterEndsFirst
<1> QED
  BY <1>1, EndingInductive, PTL

\* Run returns with every server shut down and closed, none of them listens again,
\* although a server may start to listen while Run ends.
THEOREM RunClosesEveryServer ==
    Spec => [](run = "returned" => \A i \in Servers : i \in down /\ server[i] = "closed")
<1>1. EndingInv => (run = "returned" => \A i \in Servers : i \in down /\ server[i] = "closed")
  BY DEF EndingInv, ShutdownInv
<1> QED
  BY <1>1, EndingInductive, PTL

=============================================================================
