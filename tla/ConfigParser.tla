---------------------------- MODULE ConfigParser ----------------------------
(***************************************************************************)
(* src/pkg/configdiff/parser.go: which dialect a text is read as, which    *)
(* kind of block a line belongs to, and how lines become blocks.           *)
(*                                                                         *)
(* A text is a sequence of raw lines [indent |-> BOOLEAN, words |-> line]. *)
(* A block is [id, kind, header, lines]; its id is <<prefix, name>> with   *)
(* name a sequence of words, as in "interface:" + name.                    *)
(***************************************************************************)
EXTENDS ConfigLines

\* A classification: the block the line opens or joins, and whether indented
\* lines that follow belong to it.
Class(kind, prefix, name, header, multi) ==
    [kind |-> kind, id |-> <<prefix, name>>, header |-> header, multi |-> multi]

\* One row of an ordered switch: its guard and the class it gives.
When(guard, class) == [guard |-> guard, class |-> class]

\* The first row whose guard holds; every switch ends with a row that is TRUE.
FirstRow(rows) == rows[SelectInSeq(rows, LAMBDA r : r.guard)].class

Unclassified == Class("", "", <<>>, NoLine, FALSE)
GenericClass(l) == Class("generic", "line", StableID(l), l, FALSE)

\* classifyLine: the ordered switch the IOS-like dialects use directly and the
\* set-style dialects fall back on.
ClassifyLine(l) == FirstRow(<<
    When(Starts(l, <<"interface">>) /\ Len(l) >= 2,
         Class("interface", "interface", From(l, 2), l, TRUE)),
    When(Starts(l, <<"vlan">>) /\ Len(l) >= 2, Class("vlan", "vlan", Words(l, 2, 2), l, TRUE)),
    When(Starts(l, <<"router">>) /\ Len(l) >= 2, Class("routing", "routing", From(l, 2), l, TRUE)),
    When(Starts(l, <<"ip", "access-list">>) /\ Len(l) >= 4, Class("acl", "acl", From(l, 4), l, TRUE)),
    When(Starts(l, <<"route-map">>) /\ Len(l) >= 2,
         Class("route-map", "route-map", Words(l, 2, 2), l, TRUE)),
    When(StartsAny(l, {<<"ip", "prefix-list">>, <<"ipv6", "prefix-list">>}) /\ Len(l) >= 3,
         Class("prefix-list", "prefix-list", Words(l, 3, 3), l, FALSE)),
    When(Starts(l, <<"line">>) /\ Len(l) >= 2, Class("management", "management", From(l, 2), l, TRUE)),
    When(Starts(l, <<"object", "network">>) /\ Len(l) >= 3,
         Class("nat", "nat-object", From(l, 3), l, TRUE)),
    When(StartsAny(l, {<<"crypto", "map">>, <<"tunnel-group">>}) /\ Len(l) >= 2,
         Class("vpn", "vpn", StableID(l), l, TRUE)),
    When(StartsAny(l, {<<"config", "firewall">>, <<"edit">>}) /\ Len(l) >= 2,
         Class("firewall", "firewall", StableID(l), l, TRUE)),
    When(IsRouteLine(l), Class("route", "route", RoutePrefix(l), l, FALSE)),
    When(AccessListName(l) # "", Class("acl", "acl", Words(l, 2, 2), Words(l, 1, 2), FALSE)),
    When(IsNATLine(l), Class("nat", "nat", StableID(l), l, FALSE)),
    When(IsVPNLine(l), Class("vpn", "vpn", StableID(l), l, FALSE)),
    When(IsAAAAuthLine(l), Class("aaa", "aaa", AAAID(l), l, FALSE)),
    When(IsManagementLine(l), Class("management", "management", StableID(l), l, FALSE)),
    When(IsObservabilityLine(l), Class("observability", "observability", StableID(l), l, FALSE)),
    When(TRUE, Unclassified)>>)

\* What every set-style classifier ends with.
OrElse(class, other) == IF class.kind # "" THEN class ELSE other
Fallback(l) == OrElse(ClassifyLine(l), GenericClass(l))

IsSetLine(l) == Len(l) >= 2 /\ l[1] \in {"set", "delete"}

\* classifyEdgeOSSetLine.  The ids leave the verb out, so that a set and a
\* delete of the same thing meet in one block.
ClassifyEdgeOSSetLine(l) ==
    IF ~IsSetLine(l) THEN (IF Len(l) < 2 THEN GenericClass(l) ELSE Fallback(l)) ELSE
    LET rest == Tail(l)
        head == rest[1]
        second == Words(rest, 2, 2)
        third == Words(rest, 3, 3)
        verb(words) == <<l[1]>> \o words
        vif == TokenAfter(rest, "vif")
        vlan == TokenAfter(rest, "vlan")
        slug(m) == StableID(Words(rest, 1, m))
        C(kind, name, header) == Class(kind, kind, name, verb(header), FALSE)
    IN FirstRow(<<
    When(head = "interfaces" /\ vif \in Numerals, C("vlan", <<vif>>, rest)),
    When(head = "interfaces" /\ vlan \in Numerals, C("vlan", <<vlan>>, rest)),
    When(head = "interfaces" /\ Len(rest) >= 3, C("interface", third, Words(rest, 1, 3))),
    When(head = "interfaces", C("interface", StableID(rest), rest)),
    When(/\ head = "protocols" /\ Len(rest) >= 4 /\ second = <<"static">>
         /\ rest[3] \in {"route", "route6", "interface-route"},
         C("route", Words(rest, 4, 4), Words(rest, 1, 4))),
    When(head = "protocols" /\ second \in {<<"ospf">>, <<"bgp">>, <<"rip">>},
         C("routing", second, Words(rest, 1, 2))),
    When(head = "firewall" /\ Len(rest) >= 3 /\ second \in {<<"name">>, <<"ipv6-name">>},
         C("acl", third, Words(rest, 1, 3))),
    When(head = "firewall" /\ Len(rest) >= 3 /\ second = <<"group">>,
         C("firewall", <<"group-">> \o third, Words(rest, 1, 3))),
    When(head = "firewall", C("firewall", <<"global-">> \o slug(3), Words(rest, 1, 2))),
    When(head = "service" /\ second = <<"nat">> /\ TokenAfter(rest, "rule") # "",
         C("nat", <<"rule-", TokenAfter(rest, "rule")>>, Words(rest, 1, 2))),
    When(head = "service" /\ second = <<"nat">>, C("nat", slug(4), Words(rest, 1, 2))),
    When(head = "service" /\ second = <<"ssh">>, C("management", <<"ssh">>, Words(rest, 1, 2))),
    When(head = "service" /\ second \in {<<"gui">>, <<"https">>},
         C("management", <<"gui">>, <<"service", "gui">>)),
    When(head = "service" /\ second = <<"telnet">>, C("management", <<"telnet">>, Words(rest, 1, 2))),
    When(head = "service" /\ second = <<"snmp">>, C("observability", <<"snmp">>, Words(rest, 1, 2))),
    When(head = "service" /\ second \in {<<"dhcp-server">>, <<"dhcpv6-server">>},
         C("observability", <<"dhcp-">> \o slug(4), Words(rest, 1, 2))),
    When(head = "vpn" /\ Len(rest) >= 2,
         C("vpn", second \o slug(5), Words(rest, 1, 2))),
    When(head = "system" /\ Len(rest) >= 4 /\ Starts(rest, <<"system", "login", "user">>),
         C("aaa", <<"user-">> \o Words(rest, 4, 4), Words(rest, 1, 4))),
    When(head = "system" /\ Len(rest) >= 3 /\ second = <<"login">>,
         C("aaa", third \o slug(5), Words(rest, 1, 3))),
    When(head = "system" /\ second = <<"host-name">>,
         C("management", <<"host-name">>, Words(rest, 1, 2))),
    When(head = "system" /\ second \in {<<"name-server">>, <<"syslog">>, <<"ntp">>},
         C("observability", second \o slug(5), Words(rest, 1, 2))),
    When(TRUE, Fallback(l))>>)

\* classifyPANOSSetLine.  The ids key on the rule or object name: all lines of
\* one rule are one block, where the detectors see them together.
ClassifyPANOSSetLine(l) ==
    IF ~IsSetLine(l) THEN (IF Len(l) < 2 THEN GenericClass(l) ELSE Fallback(l)) ELSE
    LET rest == Tail(l)
        n == Len(rest)
        head == rest[1]
        name(i) == Words(rest, i, i)
        C(kind, id, words) == Class(kind, kind, id, <<l[1]>> \o words, FALSE)
        Named(kind, tag) == C(kind, <<tag>> \o name(2), Words(rest, 1, 2))
    IN FirstRow(<<
    When(n >= 4 /\ Starts(rest, <<"rulebase", "security", "rules">>),
         C("firewall", name(4), Words(rest, 1, 4))),
    When(n >= 4 /\ Starts(rest, <<"rulebase", "nat", "rules">>), C("nat", name(4), Words(rest, 1, 4))),
    When(n >= 2 /\ head = "address", Named("firewall", "addr-")),
    When(n >= 2 /\ head = "address-group", Named("firewall", "addrgrp-")),
    When(n >= 2 /\ head = "service", Named("firewall", "svc-")),
    When(n >= 2 /\ head = "service-group", Named("firewall", "svcgrp-")),
    When(n >= 2 /\ head = "zone", Named("interface", "zone-")),
    When(n >= 4 /\ Starts(rest, <<"network", "interface">>), C("interface", name(4), Words(rest, 1, 4))),
    When(/\ n >= 3 /\ Starts(rest, <<"network", "virtual-router">>)
         /\ TokenAfter(rest, "static-route") # "",
         C("route", <<TokenAfter(rest, "static-route")>>,
           Words(rest, 1, 3) \o <<"static-route", TokenAfter(rest, "static-route")>>)),
    When(n >= 3 /\ Starts(rest, <<"network", "virtual-router">>),
         C("routing", <<"vr-">> \o name(3), Words(rest, 1, 3))),
    When(/\ n >= 2 /\ head = "deviceconfig"
         /\ HasWord(rest, {"snmp", "snmp-setting", "syslog", "ntp", "ntp-servers", "dns", "dns-setting"}),
         C("observability", StableID(Words(rest, 1, 4)), Words(rest, 1, 3))),
    When(n >= 2 /\ head = "deviceconfig", C("management", StableID(Words(rest, 1, 4)), Words(rest, 1, 3))),
    When(n >= 3 /\ Starts(rest, <<"mgt-config", "users">>),
         C("aaa", <<"user-">> \o name(3), Words(rest, 1, 3))),
    When(TRUE, Fallback(l))>>)

\* classifyJunosSetLine, with isJunosManagementLine, isJunosAAALine and
\* isJunosObservabilityLine as the guards of the "system" rows.
ClassifyJunosSetLine(l) ==
    IF ~IsSetLine(l) THEN GenericClass(l) ELSE
    LET n == Len(l)
        C(kind, id, header) == Class(kind, kind, id, header, FALSE)
        security(sub) == n >= 4 /\ l[2] = "security" /\ l[3] \in sub
        System(kind) == C(kind, StableID(Words(l, 1, 5)), Words(l, 1, 4))
    IN FirstRow(<<
    When(n >= 3 /\ l[2] = "interfaces", C("interface", Words(l, 3, 3), Words(l, 1, 3))),
    When(n >= 3 /\ l[2] = "vlans", C("vlan", Words(l, 3, 3), Words(l, 1, 3))),
    When(n >= 5 /\ Starts(Tail(l), <<"routing-options", "static", "route">>),
         C("route", Words(l, 5, 5), Words(l, 1, 5))),
    When(n >= 4 /\ l[2] = "firewall", C("acl", Words(l, 3, 4), Words(l, 1, 4))),
    When(security({"nat"}), C("nat", StableID(Words(l, 1, 6)), Words(l, 1, 3))),
    When(security({"address-book"}), C("firewall", StableID(Words(l, 1, 7)), Words(l, 1, 3))),
    When(security({"policies"}), C("firewall", StableID(Words(l, 1, 8)), Words(l, 1, 3))),
    When(security({"ike", "ipsec"}), C("vpn", StableID(Words(l, 1, 6)), Words(l, 1, 3))),
    When(/\ n >= 3 /\ l[2] = "system"
         /\ \/ HasAny(l, {<<"services", "ssh">>, <<"services", "netconf">>,
                          <<"services", "web-management">>})
            \/ \E i \in 2 .. n - 1 : l[i] = "snmp",
         System("management")),
    When(/\ n >= 3 /\ l[2] = "system"
         /\ HasAny(l, {<<"authentication-order">>, <<"radius-server">>, <<"tacplus-server">>,
                       <<"login", "user">>}),
         System("aaa")),
    When(/\ n >= 3 /\ l[2] = "system"
         /\ \/ \E i \in 2 .. n - 1 : l[i] \in {"syslog", "ntp"}
            \/ HasWord(Tail(l), {"name-server"}),
         System("observability")),
    When(TRUE, Fallback(l))>>)

\* fortinetSectionKind
FortinetSectionKind(section) ==
    LET Sec(names) == \E s \in names : Starts(section, <<"config">> \o s)
    IN  CASE Sec({<<"firewall", "vip">>, <<"firewall", "ippool">>, <<"firewall", "central-snat-map">>}) -> "nat"
          [] Sec({<<"firewall">>}) /\ ~Sec({<<"firewall", "vip">>, <<"firewall", "ippool">>,
                                            <<"firewall", "central-snat-map">>}) -> "firewall"
          [] Sec({<<"router", "static">>}) -> "route"
          [] Sec({<<"vpn">>}) -> "vpn"
          [] Sec({<<"system", "admin">>}) -> "aaa"
          [] Sec({<<"system", "interface">>, <<"system", "global">>, <<"system", "accprofile">>}) -> "management"
          [] Sec({<<"log">>, <<"system", "dns">>, <<"system", "ntp">>, <<"system", "snmp">>}) -> "observability"
          [] OTHER -> "generic"

-----------------------------------------------------------------------------
(* From lines to blocks.                                                   *)

Block(id, kind, header, lines) == [id |-> id, kind |-> kind, header |-> header, lines |-> lines]
BlockOf(class, lines) == Block(class.id, class.kind, class.header, lines)
WithLines(block, lines) == Block(block.id, block.kind, block.header, lines)

\* The state of a parser: the finished blocks, the open block (a sequence of at
\* most one) and, for FortiOS, the section line.
Reading(done, open, section) == [done |-> done, open |-> open, section |-> section]
Start == Reading(<<>>, <<>>, NoLine)

\* flush: the open block is closed, its repeated lines dropped.
Closed(block) == WithLines(block, UniquePreserve(block.lines))
Flush(st) ==
    IF st.open = <<>> THEN st ELSE Reading(Append(st.done, Closed(st.open[1])), <<>>, st.section)

Continue(st, l) ==
    Reading(st.done, <<WithLines(st.open[1], Append(st.open[1].lines, l))>>, st.section)
AddBlock(st, block) == Reading(Append(st.done, block), st.open, st.section)
Open(st, block) == Reading(st.done, <<block>>, st.section)
InSection(st, section) == Reading(st.done, st.open, section)

OpenOrAdd(st, class, l) ==
    IF class.multi THEN Open(st, BlockOf(class, <<l>>)) ELSE AddBlock(st, BlockOf(class, <<l>>))

\* One line of parseGeneric: an indented line joins the open block, whatever it
\* says; any other line closes it and opens, or is, a block of its own.
GenericStep(st, indent, l) ==
    IF indent /\ st.open # <<>> THEN Continue(st, l) ELSE OpenOrAdd(Flush(st), Fallback(l), l)

\* The class of a FortiOS entry, and of a line outside every entry that
\* classifyLine leaves unclassified.
SectionClass(section, name, header) ==
    LET kind == FortinetSectionKind(section)
    IN  Class(kind, kind, StableID(section \o name), header, FALSE)

\* One line of the FortiOS parser: config, edit, next and end drive it.
IsSectionLine(l) == Starts(l, <<"config">>) /\ Len(l) > 1
FortinetStep(st, l) ==
    CASE IsSectionLine(l) -> InSection(Flush(st), l)
      [] Starts(l, <<"edit">>) /\ Len(l) > 1 ->
            Open(Flush(st), BlockOf(SectionClass(st.section, Tail(l), st.section \o l), <<st.section, l>>))
      [] l = <<"next">> -> Flush(st)
      [] l = <<"end">> -> InSection(Flush(st), NoLine)
      [] OTHER ->
            IF st.open # <<>> THEN Continue(st, l)
            ELSE AddBlock(st, BlockOf(OrElse(ClassifyLine(l), SectionClass(st.section, l, l)), <<l>>))

\* The set-style parsers: each line is a block.
SetStyle == {"panos", "edgeos", "junos"}
ClassifySetLine(parser, l) ==
    CASE parser = "panos" -> ClassifyPANOSSetLine(l)
      [] parser = "edgeos" -> ClassifyEdgeOSSetLine(l)
      [] parser = "junos" -> ClassifyJunosSetLine(l)
SetStyleStep(parser, st, l) == AddBlock(st, BlockOf(ClassifySetLine(parser, l), <<l>>))

\* One line of any parser; the empty ones are skipped.
ParseLine(parser, st, indent, l) ==
    IF l = NoLine THEN st
    ELSE IF parser = "fortinet" THEN FortinetStep(st, l)
    ELSE IF parser \in SetStyle THEN SetStyleStep(parser, st, l)
    ELSE GenericStep(st, indent, l)
ParseStep(parser, st, raw) == ParseLine(parser, st, raw.indent, NormalizeLine(raw))

\* All lines of a text.
Read(parser, text) ==
    LET st[n \in 0 .. Len(text)] == IF n = 0 THEN Start ELSE ParseStep(parser, st[n - 1], text[n])
    IN  st[Len(text)]

\* mergeRelatedBlocks: blocks with one id become one, at the place and with the
\* kind and header of the first.
PlaceOf(blocks, id) == SelectInSeq(blocks, LAMBDA b : b.id = id)
\* (mutation) A block found again is dropped.
JoinFirst(blocks, b) == IF PlaceOf(blocks, b.id) = 0 THEN Append(blocks, b) ELSE blocks
Join(blocks, b) ==
    LET i == PlaceOf(blocks, b.id)
    IN  IF i = 0 THEN Append(blocks, b)
        ELSE [blocks EXCEPT ![i] = WithLines(@, @.lines \o b.lines)]
JoinAll(blocks) ==
    LET joined[n \in 0 .. Len(blocks)] == IF n = 0 THEN <<>> ELSE Join(joined[n - 1], blocks[n])
    IN  joined[Len(blocks)]
MergeRelatedBlocks(blocks) ==
    LET joined == JoinAll(blocks) IN [i \in DOMAIN joined |-> Closed(joined[i])]

Parse(parser, text) == MergeRelatedBlocks(Flush(Read(parser, text)).done)

-----------------------------------------------------------------------------
(* Which parser reads a text when the device's vendor is "auto".           *)

CountLines(text, runs) == Cardinality({i \in DOMAIN text : StartsAny(text[i].words, runs)})

FortinetStructure ==
    {<<"config", "firewall", "policy">>, <<"config", "firewall", "address">>,
     <<"config", "firewall", "vip">>, <<"config", "firewall", "ippool">>,
     <<"config", "router", "static">>, <<"config", "vpn", "ipsec">>,
     <<"config", "system", "interface">>, <<"config", "system", "admin">>}

LooksFortinet(text) ==
    /\ CountLines(text, FortinetStructure) > 0
    /\ 2 * CountLines(text, FortinetStructure)
         + CountLines(text, {<<"set", w>> : w \in {"srcintf", "dstintf", "srcaddr", "dstaddr", "service"}}) >= 4

PANOSStructure ==
    {<<"set", "rulebase", "security", "rules">>, <<"set", "rulebase", "nat">>,
     <<"set", "deviceconfig">>, <<"set", "mgt-config">>, <<"set", "network", "virtual-router">>,
     <<"set", "zone">>}

LooksPANOS(text) ==
    /\ CountLines(text, PANOSStructure) > 0
    /\ 2 * CountLines(text, PANOSStructure)
         + CountLines(text, {<<"set", w>> : w \in {"address", "address-group", "service", "service-group"}}) >= 3

LooksEdgeSwitch(text) ==
    2 * CountLines(text, {<<"vlan", "database">>, <<"serviceport">>, <<"network", "mgmt_vlan">>,
                          <<"network", "protocol">>, <<"vlan", "participation">>, <<"vlan", "pvid">>,
                          <<"vlan", "tagging">>})
      + CountLines(text, {<<"no", "spanning-tree">>, <<"set", "igmp">>}) >= 2

LooksCiscoIOS(text) ==
    2 * Cardinality({i \in DOMAIN text :
            /\ Starts(text[i].words, <<"interface">>) /\ Len(text[i].words) > 1
            /\ text[i].words[2] \in {"gigabitethernet0/1", "gigabitethernet0/2", "vlan10", "port-channel1"}})
      + CountLines(text, {<<"switchport">>, <<"ip", "access-list">>, <<"access-list">>, <<"ip", "route">>,
                          <<"aaa">>, <<"line", "vty">>, <<"crypto", "map">>}) >= 3

LooksEdgeOS(text) ==
    CountLines(text, {<<"set", "interfaces", "ethernet">>, <<"delete", "interfaces", "ethernet">>,
                      <<"set", "interfaces", "switch">>, <<"set", "service", "gui">>,
                      <<"set", "service", "ssh">>, <<"set", "service", "nat">>,
                      <<"set", "service", "dhcp-server">>, <<"set", "protocols", "static", "route">>,
                      <<"set", "firewall", "name">>}) >= 3

LooksJunos(text) ==
    CountLines(text, {<<v, s>> : v \in {"set", "delete"},
                                 s \in {"interfaces", "routing-options", "firewall", "security", "vlans"}}) >= 3

\* selectParser for "auto", most specific dialect first.  The JSON dialects are
\* not line oriented and are left out.
Dialects == <<"fortinet", "panos", "edgeswitch", "cisco-ios", "edgeos", "junos", "generic">>

Looks(dialect, text) ==
    CASE dialect = "fortinet" -> LooksFortinet(text)
      [] dialect = "panos" -> LooksPANOS(text)
      [] dialect = "edgeswitch" -> LooksEdgeSwitch(text)
      [] dialect = "cisco-ios" -> LooksCiscoIOS(text)
      [] dialect = "edgeos" -> LooksEdgeOS(text)
      [] dialect = "junos" -> LooksJunos(text)
      [] OTHER -> TRUE

SelectParser(vendor, text) ==
    IF vendor # "auto" THEN vendor
    ELSE Dialects[SelectInSeq(Dialects, LAMBDA d : Looks(d, text))]

=============================================================================
