----------------------------- MODULE ConfigRisk -----------------------------
(***************************************************************************)
(* src/pkg/configdiff/analyzer.go: the risk findings of an analysis.       *)
(*                                                                         *)
(* A finding is [severity, category, title, evidence], evidence the set of *)
(* lines it quotes.  Wording (details and recommendations) is left out.    *)
(***************************************************************************)
EXTENDS RoutingPeers, Switching, UndefinedRefs

Severities == <<"none", "info", "low", "medium", "high">>

-----------------------------------------------------------------------------
(* Rules that let too much through.  In the set-style dialects and in      *)
(* FortiOS the parts of a rule are lines of one block, wherever they stand.*)

SaysAny(lines, runs) == AnyLine(lines, LAMBDA l : HasAny(l, runs))
\* A run that something stands in front of, as in " permit".
InnerAny(lines, runs) == AnyLine(lines, LAMBDA l : HasAny(From(l, 2), runs))

AnyAddress == {<<"any", "any">>, <<"0.0.0.0/0">>, <<"0.0.0.0", "255.255.255.255">>}

\* aclBroadeningLine
AclBroadeningLine(l) ==
    /\ ~IsNegatedCommand(l)
    /\ \E i \in 1 .. Len(l) - 1 : l[i] = "permit"
    /\ HasAny(From(l, 2), AnyAddress)

\* junosBroadeningLines
JunosAnySource(lines) == InnerAny(lines, {<<"source-address", "0.0.0.0/0">>, <<"source-address", "any">>})
\* (mutation) The words of a firewall filter only, not those of a policy.
JunosAcceptsFilter(lines) == InnerAny(lines, {<<"then", "accept">>})
JunosAccepts(lines) == InnerAny(lines, {<<"then", "accept">>, <<"permit">>})

\* edgeOSBroadeningLines
EdgeOSAnySource(lines) == SaysAny(lines, {<<"source", "address", "0.0.0.0/0">>, <<"source", "address", "::/0">>})
EdgeOSAccepts(lines) == SaysAny(lines, {<<"action", "accept">>})

\* panosBroadeningLines
PanosAny(lines) == SaysAny(lines, {<<f, "any">> : f \in {"source", "destination", "application", "service"}})
PanosAllows(lines) == SaysAny(lines, {<<"action", "allow">>})

\* fortinetBroadeningLines
FortinetBroad(lines) ==
    /\ SaysAny(lines, {<<"set", "action", "accept">>})
    /\ SaysAny(lines, {<<"set", f, "all">> : f \in {"srcaddr", "dstaddr", "service"}})

\* aclOrFirewallBroadening
Broadens(lines) ==
    \/ AnyLine(lines, AclBroadeningLine)
    \/ JunosAnySource(lines) /\ JunosAccepts(lines)
    \/ FortinetBroad(lines)
    \/ EdgeOSAnySource(lines) /\ EdgeOSAccepts(lines)
    \/ PanosAny(lines) /\ PanosAllows(lines)

\* Ports and services the management detectors look for.
MgmtPorts == {"22", "23", "80", "443", "161"}
MgmtNames == {"ssh", "telnet", "http", "https", "snmp"}

\* exposesManagementPort
ExposesManagementPort(l) ==
    /\ ~IsNegatedCommand(l)
    /\ HasWord(l, {"permit", "allow"})
    /\ \/ HasAny(From(l, 2), {<<"eq", p>> : p \in MgmtPorts})
       \/ HasWord(From(l, 2), MgmtNames)

\* exposesManagementPath with edgeOSExposesManagement and panosExposesManagement
ExposesManagement(lines) ==
    \/ AnyLine(lines, ExposesManagementPort)
    \/ /\ SaysAny(lines, {<<"source", "address", "0.0.0.0/0">>, <<"source", "address", "any">>})
       /\ SaysAny(lines, {<<"destination", "port", p>> : p \in MgmtPorts})
       /\ EdgeOSAccepts(lines)
    \/ /\ SaysAny(lines, {<<"source", "any">>})
       /\ SaysAny(lines, {<<"application", a>> : a \in {"ssh", "snmp", "web-browsing", "panos-web-interface"}}
                           \cup {<<"service", "service-ssh">>, <<"service", "service-https">>})
       /\ PanosAllows(lines)
    \/ /\ JunosAnySource(lines)
       /\ InnerAny(lines, {<<"destination-port", p>> : p \in MgmtPorts \cup MgmtNames})
       /\ JunosAccepts(lines)

\* shutdownState: the last line that says so.
ShutdownState(lines) ==
    LET l == FirstMatch(Reverse(lines), LAMBDA x : Len(x) > 0 /\ x[Len(x)] = "shutdown")
    IN  IF l = NoLine THEN "" ELSE IF IsSuffix(<<"no", "shutdown">>, l) THEN "no shutdown" ELSE "shutdown"

ShutdownStateChanged(c) ==
    /\ ShutdownState(c.before) # "" /\ ShutdownState(c.after) # ""
    /\ ShutdownState(c.before) # ShutdownState(c.after)

-----------------------------------------------------------------------------
(* The findings.                                                           *)

Finding(t, evidence) == [severity |-> t[1], category |-> t[2], title |-> t[3], evidence |-> evidence]

\* What riskFindings adds for one changed block.
BlockFindings(c) ==
    LET all == AllLines(c)
        raise(guard, t, evidence) == IF guard THEN {Finding(t, evidence)} ELSE {}
        whole == CombinedEvidence(c)
        old == ToSet(c.before)
        new == ToSet(c.after)
        removed == c.type = "removed"
    IN  raise(AnyLine(all, IsDefaultRouteLine), <<"high", "routing", "Default route changed">>, whole)
        \cup raise(removed /\ (c.kind = "route" \/ AnyLine(c.before, IsRouteLine)),
                   <<"medium", "routing", "Route removed">>, old)
        \cup raise(Ordered(c) /\ Broadens(c.after),
                   <<"high", "acl_firewall", "ACL or firewall rule appears broadened">>, new)
        \cup raise(Ordered(c) /\ ExposesManagement(c.after),
                   <<"high", "management", "Management service may be exposed">>, new)
        \cup raise(removed /\ c.kind = "vlan", <<"medium", "switching", "VLAN removed">>, old)
        \cup raise(AnyLine(all, InterfaceVlanLine),
                   <<"medium", "switching", "Interface VLAN assignment changed">>, whole)
        \cup raise(AnyLine(all, TrunkAllowedLine),
                   <<"medium", "switching", "Trunk allowed VLAN list changed">>, whole)
        \cup raise(ShutdownStateChanged(c), <<"medium", "interface", "Interface shutdown state changed">>, whole)
        \cup raise(c.kind = "nat", <<"medium", "nat", "NAT configuration changed">>, whole)
        \cup raise(c.kind = "vpn", <<"medium", "vpn", "VPN peer or tunnel configuration changed">>, whole)
        \cup raise(c.kind = "aaa", <<"high", "aaa_auth", "AAA or authentication changed">>, whole)
        \cup raise(c.kind = "management", <<"medium", "management", "Management access changed">>, whole)
        \cup raise(c.kind = "observability" /\ (removed \/ AnyLine(c.after, NoLoggingLine)),
                   <<"medium", "monitoring", "Logging or monitoring may be reduced">>, whole)
        \cup {Finding(t, whole) : t \in SwitchingFindings(c)}

\* appendRoutingPeerFindings.  A summary of a BGP peer always names its remote AS.
PeerFinding(p) ==
    CASE p.proto = "bgp" /\ p.type = "added" -> <<"high", "routing", "BGP neighbor added">>
      [] p.proto = "bgp" /\ p.type = "removed" -> <<"high", "routing", "BGP neighbor removed">>
      [] p.proto = "bgp" /\ p.type = "changed" ->
            IF p.before # p.after THEN <<"high", "routing", "BGP remote-AS changed">>
            ELSE <<"medium", "routing", "BGP peer parameters changed">>
      [] p.proto = "ospf" /\ p.type = "added" -> <<"high", "routing", "OSPF neighbor added">>
      [] p.proto = "ospf" /\ p.type = "removed" -> <<"high", "routing", "OSPF neighbor removed">>
      [] OTHER -> <<"medium", "routing", "OSPF peer parameters changed">>

\* The title appendUndefinedReferenceFindings gives a kind of reference.
RefFinding(kind) ==
    <<"high", "undefined_reference",
      CASE kind = "acl" -> "Undefined ACL referenced on interface"
        [] kind = "route-map" -> "Undefined route-map referenced on interface"
        [] OTHER -> "Undefined prefix-list referenced on interface">>

\* Findings with one severity, category and title are one, which keeps the
\* evidence of all.
MergeFindings(raised) ==
    LET key(f) == <<f.severity, f.category, f.title>>
    IN  {Finding(k, UNION {f.evidence : f \in {g \in raised : key(g) = k}}) : k \in {key(f) : f \in raised}}

\* riskFindings.  The evidence of peers and references is named by the peer or
\* the reference.
RiskFindings(changes, peers, dangling) ==
    MergeFindings(
        (UNION {BlockFindings(changes[i]) : i \in DOMAIN changes})
        \cup {Finding(PeerFinding(p), {<<"neighbor", p.peer>>}) : p \in peers}
        \cup {Finding(RefFinding(r.kind), {<<r.kind, r.name>> \o r.iface}) : r \in dangling})

HasHigh(findings) == \E f \in findings : f.severity = "high"

\* highestSeverity
SeverityRank(s) == CHOOSE i \in DOMAIN Severities : Severities[i] = s
HighestSeverity(findings) ==
    LET ranks == {SeverityRank(f.severity) : f \in findings}
    IN  IF ranks = {} THEN "none" ELSE Severities[CHOOSE r \in ranks : \A q \in ranks : q <= r]

\* analyze: everything the analysis of two texts holds, put together from the
\* blocks, then the changes, then the peers and the findings.
Analysis(parser, changes, peers, dangling, findings) ==
    [parser |-> parser, changes |-> changes, findings |-> findings, dangling |-> dangling,
     peers |-> peers, switching |-> SwitchingChanges(changes),
     interfaces |-> TouchedInterfaces(changes), vlans |-> TouchedVlans(changes),
     routes |-> TouchedRoutes(changes), rules |-> TouchedRules(changes),
     rollback |-> Rollback(changes, HasHigh(findings), parser)]
AnalyzeFindings(parser, changes, peers, dangling) ==
    Analysis(parser, changes, peers, dangling, RiskFindings(changes, peers, dangling))
AnalyzeChanges(parser, changes, dangling) ==
    AnalyzeFindings(parser, changes, RoutingPeerChanges(changes), dangling)
AnalyzeBlocks(parser, before, after) ==
    AnalyzeChanges(parser, DiffBlocks(before, after), NewlyDangling(before, after))
Analyze(parser, beforeText, afterText) ==
    AnalyzeBlocks(parser, Parse(parser, beforeText), Parse(parser, afterText))

\* AnalyzeContent: one parser, chosen from both texts together, reads both.
AnalyzeContent(beforeText, afterText, vendor) ==
    Analyze(SelectParser(vendor, beforeText \o afterText), beforeText, afterText)

=============================================================================
