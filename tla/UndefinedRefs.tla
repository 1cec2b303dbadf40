---------------------------- MODULE UndefinedRefs ----------------------------
(***************************************************************************)
(* src/pkg/configdiff/undefined_refs.go: access lists, route-maps and      *)
(* prefix-lists that an interface uses and nothing defines.  Only what a   *)
(* change leaves newly dangling is a finding.                              *)
(*                                                                         *)
(* A reference is [kind, name, iface, dir, via].                           *)
(***************************************************************************)
EXTENDS ConfigParser

Ref(kind, name, iface, dir, via) ==
    [kind |-> kind, name |-> name, iface |-> iface, dir |-> dir, via |-> via]

\* definedACLName, definedRouteMapName and definedPrefixListName: the names a
\* line defines, as <<kind, name>>.
DefinedByLine(l) ==
    IF Len(l) = 0 \/ l[1] = "no" THEN {} ELSE
      {<<"acl", l[i]>> : i \in {j \in {4} \cap DOMAIN l :
            \/ Starts(l, <<"ip", "access-list">>)
            \/ l[1] \in {"set", "delete"} /\ l[2] = "firewall" /\ l[3] \in {"name", "ipv6-name"}}}
      \cup (IF AccessListName(l) # "" THEN {<<"acl", AccessListName(l)>>} ELSE {})
      \cup {<<"route-map", l[i]>> : i \in {j \in {2} \cap DOMAIN l : l[1] = "route-map"}}
      \cup {<<"prefix-list", l[i]>> : i \in {j \in {3} \cap DOMAIN l :
              StartsAny(l, {<<"ip", "prefix-list">>, <<"ipv6", "prefix-list">>})}}

\* What a block defines by its id; groups and global options are no filters.
DefinedByBlock(b) ==
    LET name == b.id[2]
    IN  CASE /\ Len(name) = 1 /\ b.kind \in {"acl", "firewall"} -> {<<"acl", name[1]>>}
          [] /\ Len(name) = 1 /\ b.kind \in {"route-map", "prefix-list"} -> {<<b.kind, name[1]>>}
          [] OTHER -> {}

\* collectDefinedNamedObjects
DefinedNames(blocks) ==
    UNION {DefinedByBlock(blocks[i]) \cup UNION {DefinedByLine(l) : l \in ToSet(blocks[i].lines)}
             : i \in DOMAIN blocks}

\* interfaceNamesFromBlock, with the name the block shows.
InterfaceName(b) ==
    IF b.kind # "interface" THEN <<>>
    ELSE IF Len(b.header) >= 2 /\ b.header[1] = "interface" THEN From(b.header, 2)
    ELSE IF Len(b.header) >= 4 /\ b.header[2] = "interfaces" THEN Words(b.header, 4, 4)
    ELSE b.id[2]

\* parseInterfaceACLRef: "ip access-group NAME in|out", or
\* "set interfaces ... firewall in|out|local name NAME".
AclRefs(l, iface) ==
    IF Len(l) >= 4 /\ Starts(l, <<"ip", "access-group">>)
    THEN IF l[Len(l)] \in {"in", "out"} /\ l[3] \notin {"in", "out"}
         THEN {Ref("acl", l[3], iface, l[Len(l)], "")} ELSE {}
    ELSE LET at == SelectInSeq(l, LAMBDA w : w = "firewall")
         IN  IF /\ Len(l) >= 2 /\ l[1] = "set" /\ at # 0 /\ at + 3 <= Len(l)
                /\ l[at + 1] \in {"in", "out", "local"} /\ l[at + 2] \in {"name", "ipv6-name"}
             THEN {Ref("acl", l[at + 3], iface, l[at + 1], "")} ELSE {}

\* parseInterfaceRouteMapRef
RouteMapRefs(l, iface) ==
    IF Len(l) >= 4 /\ Starts(l, <<"ip", "policy", "route-map">>)
    THEN {Ref("route-map", l[4], iface, "", "")} ELSE {}

\* parseRouteMapPrefixListRef: the first list a line matches.
MatchedPrefixList(l) ==
    LET matches == {i \in 1 .. Len(l) - 4 :
                      /\ l[i] = "match" /\ l[i + 1] \in {"ip", "ipv6"}
                      /\ l[i + 2] = "address" /\ l[i + 3] = "prefix-list"}
    IN  {l[i + 4] : i \in {j \in matches : \A k \in matches : j <= k}}

\* The lines of a route-map: those of its block.
RouteMapBody(blocks, name) ==
    UNION {ToSet(blocks[i].lines) :
             i \in {j \in DOMAIN blocks : blocks[j].kind = "route-map" /\ blocks[j].id[2] = <<name>>}}

\* collectInterfaceObjectRefs: what the interfaces use, directly or through a
\* route-map they apply.
InterfaceRefs(blocks) ==
    LET linesOf(i) == IF InterfaceName(blocks[i]) = <<>> THEN {} ELSE ToSet(blocks[i].lines)
        maps == UNION {UNION {RouteMapRefs(l, InterfaceName(blocks[i])) : l \in linesOf(i)}
                         : i \in DOMAIN blocks}
        acls == UNION {UNION {AclRefs(l, InterfaceName(blocks[i])) : l \in linesOf(i)}
                         : i \in DOMAIN blocks}
        viaMap(rm) == {Ref("prefix-list", p, rm.iface, "", rm.name) :
                         p \in UNION {MatchedPrefixList(l) : l \in RouteMapBody(blocks, rm.name)}}
    IN  acls \cup maps \cup UNION {viaMap(rm) : rm \in maps}

\* filterDanglingRefs
DanglingRefs(blocks) ==
    {r \in InterfaceRefs(blocks) : <<r.kind, r.name>> \notin DefinedNames(blocks)}

\* (mutation) Every dangling reference.
AllDangling(before, after) == DanglingRefs(after)

\* appendUndefinedReferenceFindings: dangling now and not dangling before.
NewlyDangling(before, after) == DanglingRefs(after) \ DanglingRefs(before)

=============================================================================
