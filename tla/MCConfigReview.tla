---------------------------- MODULE MCConfigReview ----------------------------
\* Devices of every line-oriented dialect, with a few edits each.
EXTENDS ConfigReview

L(words) == [indent |-> FALSE, words |-> words]
I(words) == [indent |-> TRUE, words |-> words]
Section(top, body) == [top |-> <<L(top)>>, body |-> [i \in DOMAIN body |-> I(body[i])], end |-> <<>>]
Lone(line) == Section(line, <<>>)
Each(lines) == [i \in DOMAIN lines |-> Lone(lines[i])]
\* A line for the body of the section with this first line.
Body(top, slot, line) == [top |-> <<L(top)>>, slot |-> slot, raw |-> I(line)]
New(slot, section) == [slot |-> slot, section |-> section]
NewLine(line) == New(line, Lone(line))

MCNumerals == {"10", "12", "20", "65000", "65001", "65010", "65020", "4", "101", "1"}
MCAddresses == {"10.0.0.1", "10.0.0.2", "10.0.0.3"}
MCVlanParts ==
    [w \in {"10", "12", "10-12", "10-13", "10,20"} |->
        CASE w = "10" -> {<<10, 10>>} [] w = "12" -> {<<12, 12>>} [] w = "10-12" -> {<<10, 12>>}
          [] w = "10-13" -> {<<10, 13>>} [] OTHER -> {<<10, 10>>, <<20, 20>>}]

MCNeighbour ==
    [interfaces |-> {<<<<"gigabitethernet0/1">>, "changed">>}, vlans |-> {<<<<20, 20>>, "changed">>},
     routes |-> {[prefix |-> <<"0.0.0.0/0">>, type |-> "added", beforeHop |-> <<>>, afterHop |-> <<"10.0.0.2">>]},
     rules |-> {<<<<"wan">>, "changed">>, <<<<"101">>, "changed">>}]

Family(vendor, base, lines, sections, policy, broad) ==
    [vendor |-> vendor, base |-> base, lines |-> lines, sections |-> sections, policy |-> policy, broad |-> broad]

-----------------------------------------------------------------------------
\* IOS: interfaces that use access lists, route-maps and prefix-lists.
Uplink == <<"interface", "gigabitethernet0/1">>
Inside == <<"ip", "access-list", "extended", "inside">>
PermitAll == <<"permit", "ip", "any", "any">>
DenyAll == <<"deny", "ip", "any", "any">>
Policing == <<"route-map", "rm", "permit", "10">>
MatchList(p) == <<"match", "ip", "address", "prefix-list", p>>
Numbered(rule) == <<"access-list", "101">> \o rule

Filters == Family("cisco-ios",
    <<Section(Uplink, <<<<"ip", "access-group", "inside", "in">>>>),
      Section(Inside, <<<<"permit", "tcp", "any", "host", "10.0.0.1", "eq", "443">>, DenyAll>>),
      Lone(Numbered(<<"permit", "ip", "host", "10.0.0.1", "any">>)),
      Lone(Numbered(DenyAll)),
      Section(Policing, <<MatchList("p1")>>)>>,
    {Body(Uplink, <<"ip", "access-group">>, <<"ip", "access-group", "absent", "in">>),
     Body(Uplink, <<"ip", "policy">>, <<"ip", "policy", "route-map", "rm">>),
     Body(Inside, PermitAll, PermitAll),
     Body(Inside, <<"remark">>, <<"remark", "any", "any">>),
     Body(Policing, <<"match">>, MatchList("p2"))},
    {NewLine(<<"ip", "prefix-list", "p1", "seq", "5", "permit", "10.0.0.0/8">>),
     NewLine(Numbered(PermitAll)), NewLine(<<"!">>)},
    {<<"firewall_property", "required", DenyAll>>, <<"firewall_property", "forbidden", PermitAll>>},
    {{PermitAll}, {Numbered(PermitAll)}})

\* IOS: a switch with VLANs, trunks and global settings.
Trunk == <<"interface", "gigabitethernet0/2">>
Allowed == <<"switchport", "trunk", "allowed", "vlan">>

Switch == Family("cisco-ios",
    <<Section(Uplink, <<<<"switchport", "mode", "access">>, <<"switchport", "access", "vlan", "10">>>>),
      Section(Trunk, <<<<"switchport", "mode", "trunk">>, Allowed \o <<"10,20">>, <<"no", "shutdown">>>>),
      Section(<<"vlan", "10">>, <<<<"name", "staff">>>>),
      Lone(<<"spanning-tree", "mode", "pvst">>),
      Lone(<<"vtp", "mode", "transparent">>)>>,
    {Body(Uplink, <<"switchport", "mode">>, <<"switchport", "mode", "trunk">>),
     Body(Uplink, <<"shutdown">>, <<"shutdown">>),
     Body(Trunk, Allowed, Allowed \o <<"10-12">>), Body(Trunk, Allowed, Allowed \o <<"10-13">>)},
    {New(<<"spanning-tree", "mode">>, Lone(<<"spanning-tree", "mode", "rapid-pvst">>)),
     New(<<"vtp", "mode">>, Lone(<<"vtp", "mode", "server">>)),
     NewLine(<<"vtp", "domain", "campus">>)},
    {<<"vlan", "required", <<10, 10>>>>, <<"vlan", "forbidden", <<12, 12>>>>},
    {})

\* IOS: a router with neighbours, static routes and management.
Bgp == <<"router", "bgp", "65000">>
Ospf == <<"router", "ospf", "1">>
RemoteAS(as) == <<"neighbor", "10.0.0.2", "remote-as", as>>
Default(hop) == <<"ip", "route", "0.0.0.0", "0.0.0.0", hop>>

Router == Family("cisco-ios",
    <<Section(Bgp, <<RemoteAS("65010"), <<"neighbor", "10.0.0.2", "description", "carrier">>>>),
      Section(Ospf, <<<<"neighbor", "10.0.0.3">>, <<"network", "10.0.0.0", "0.0.0.255", "area", "0">>>>),
      Lone(Default("10.0.0.1")),
      Section(<<"line", "vty", "0", "4">>, <<<<"transport", "input", "ssh">>>>),
      Lone(<<"aaa", "new-model">>), Lone(<<"username", "ops", "privilege", "15">>)>>,
    {Body(Bgp, <<"neighbor", "10.0.0.2", "remote-as">>, RemoteAS("65020")),
     Body(Bgp, <<"neighbor", "10.0.0.3">>, <<"neighbor", "10.0.0.3", "remote-as", "65010">>),
     Body(Ospf, <<"network">>, <<"network", "10.0.0.0", "0.0.0.255", "area", "1">>),
     Body(<<"line", "vty", "0", "4">>, <<"transport">>, <<"transport", "input", "telnet">>)},
    {New(<<"ip", "route", "0.0.0.0", "0.0.0.0">>, Lone(Default("10.0.0.2"))),
     New(<<"router", "bgp">>, Section(<<"router", "bgp", "65001">>, <<RemoteAS("65010")>>))},
    {<<"route", "required", <<"0.0.0.0", "0.0.0.0">>>>, <<"management_service", "forbidden", "telnet">>,
     <<"management_service", "required", "ssh">>, <<"aaa", "required", <<"aaa", "new-model">>>>,
     <<"aaa", "required", <<"username", "ops", "privilege", "15">>>>},
    {})

-----------------------------------------------------------------------------
\* The set-style dialects: each line is a section.
Wan(line) == <<"set", "firewall", "name", "wan">> \o line
Eth(line) == <<"set", "interfaces", "ethernet", "eth0">> \o line
StaticHop(hop) == <<"set", "protocols", "static", "route", "0.0.0.0/0", "next-hop", hop>>
EdgeBroad == {Wan(<<"rule", "10", "action", "accept">>), Wan(<<"rule", "10", "source", "address", "0.0.0.0/0">>)}

EdgeLines ==
    <<Eth(<<"address", "dhcp">>), Eth(<<"firewall", "in", "name", "wan">>),
      Wan(<<"default-action", "drop">>), Wan(<<"rule", "10", "action", "accept">>),
      StaticHop("10.0.0.1"), <<"set", "service", "ssh", "port", "22">>>>
EdgeEdits ==
    {New(Eth(<<"firewall">>), Lone(Eth(<<"firewall", "in", "name", "lan">>))),
     NewLine(Wan(<<"rule", "10", "source", "address", "0.0.0.0/0">>)),
     New(StaticHop("10.0.0.1"), Lone(StaticHop("10.0.0.2"))),
     NewLine(<<"set", "interfaces", "ethernet", "eth0", "vif", "10", "description", "guests">>)}
EdgePolicy ==
    {<<"route", "required", <<"0.0.0.0/0">>>>, <<"management_service", "required", "ssh">>,
     <<"firewall_property", "required", <<"default-action", "drop">>>>}

EdgeRouter == Family("edgeos", Each(EdgeLines), {}, EdgeEdits, EdgePolicy, {EdgeBroad})

\* The same gateway, its dialect detected from the two texts of each review.
Detected == Family("auto", Each(EdgeLines), {}, EdgeEdits, EdgePolicy, {EdgeBroad})

Srx(line) == <<"set", "security", "policies", "from-zone", "trust", "to-zone", "dmz", "policy", "p1">> \o line
Juniper == Family("junos",
    Each(<<<<"set", "interfaces", "ge-0/0/0", "unit", "0", "family", "inet">>,
           <<"set", "vlans", "staff", "vlan-id", "10">>,
           <<"set", "routing-options", "static", "route", "0.0.0.0/0", "next-hop", "10.0.0.1">>,
           Srx(<<"match", "source-address", "any">>),
           <<"set", "system", "services", "ssh">>>>),
    {},
    {NewLine(Srx(<<"then", "permit">>)),
     NewLine(<<"set", "interfaces", "ge-0/0/1", "disable">>),
     New(<<"set", "routing-options">>,
         Lone(<<"set", "routing-options", "static", "route", "0.0.0.0/0", "next-hop", "10.0.0.2">>)),
     NewLine(<<"#", "comment">>)},
    {<<"route", "required", <<"0.0.0.0/0">>>>, <<"management_service", "required", "ssh">>},
    {{Srx(<<"match", "source-address", "any">>), Srx(<<"then", "permit">>)}})

Rule(line) == <<"set", "rulebase", "security", "rules", "web">> \o line
PaloAlto == Family("panos",
    Each(<<Rule(<<"source", "any">>), Rule(<<"destination", "dmz">>), Rule(<<"action", "deny">>),
           <<"set", "address", "srv", "ip-netmask", "10.0.0.1">>,
           <<"set", "deviceconfig", "system", "service", "disable-telnet", "yes">>>>),
    {},
    {New(Rule(<<"action">>), Lone(Rule(<<"action", "allow">>))),
     NewLine(<<"set", "zone", "dmz", "network", "layer3", "ethernet1/1">>),
     NewLine(<<"set", "mgt-config", "users", "admin", "permissions", "role-based">>)},
    {<<"management_service", "required", "ssh">>},
    {{Rule(<<"source", "any">>), Rule(<<"action", "allow">>)}})

-----------------------------------------------------------------------------
\* FortiOS: each entry is a section of its own.
Entry(part, edit, body) ==
    [top |-> <<L(part), L(edit)>>, body |-> [i \in DOMAIN body |-> I(body[i])],
     end |-> <<L(<<"next">>), L(<<"end">>)>>]
Policies == <<"config", "firewall", "policy">>
Routes == <<"config", "router", "static">>
FortiTop(part) == <<L(part), L(<<"edit", "1">>)>>
FortiBody(part, slot, line) == [top |-> FortiTop(part), slot |-> slot, raw |-> I(line)]

FortiGate == Family("fortinet",
    <<Entry(Policies, <<"edit", "1">>, <<<<"set", "srcaddr", "all">>, <<"set", "action", "deny">>>>),
      Entry(Routes, <<"edit", "1">>, <<<<"set", "dst", "10.0.0.0/8">>, <<"set", "gateway", "10.0.0.1">>>>),
      Entry(<<"config", "system", "admin">>, <<"edit", "admin">>, <<<<"set", "accprofile", "super">>>>)>>,
    {FortiBody(Policies, <<"set", "action">>, <<"set", "action", "accept">>),
     FortiBody(Policies, <<"set", "logtraffic">>, <<"set", "logtraffic", "all">>),
     FortiBody(Routes, <<"set", "gateway">>, <<"set", "gateway", "10.0.0.2">>)},
    {New(<<"config", "log">>,
         Entry(<<"config", "log", "syslogd">>, <<"edit", "1">>, <<<<"set", "status", "enable">>>>))},
    {<<"firewall_property", "forbidden", <<"action", "accept">>>>},
    {{<<"set", "srcaddr", "all">>, <<"set", "action", "accept">>}})

OneSwitch == {Switch}
MCFamilies == {Filters, Switch, Router, EdgeRouter, Detected, Juniper, PaloAlto, FortiGate}

=============================================================================
