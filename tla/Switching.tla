------------------------------ MODULE Switching ------------------------------
(***************************************************************************)
(* src/pkg/configdiff/switching.go: the Layer 2 facts of changed interface *)
(* blocks, and the global spanning-tree and VTP settings, which a value    *)
(* change shows as one block removed and another added.                    *)
(***************************************************************************)
EXTENDS ConfigDiff

IsSwitchportModeLine(l) == Starts(l, <<"switchport", "mode">>) /\ Len(l) >= 3
IsTrunkAllowedLine(l) == HasRun(l, <<"switchport", "trunk", "allowed", "vlan">>)
IsNativeVlanLine(l) == HasRun(l, <<"switchport", "trunk", "native", "vlan">>)
IsChannelGroupLine(l) == Starts(l, <<"channel-group">>) /\ Len(l) >= 2
IsStormControlLine(l) == Starts(l, <<"storm-control">>) /\ Len(l) >= 2
IsPortfastLine(l) == HasRun(l, <<"spanning-tree", "portfast">>)
IsBpduGuardLine(l) == HasRun(l, <<"spanning-tree", "bpduguard">>)
IsStpGuardLine(l) == HasRun(l, <<"spanning-tree", "guard">>)
IsStpModeLine(l) == Starts(l, <<"spanning-tree", "mode">>)
IsStpVlanPriorityLine(l) == Starts(l, <<"spanning-tree", "vlan">>) /\ HasWord(l, {"priority", "root"})
IsVtpModeOrDomainLine(l) == StartsAny(l, {<<"vtp", "mode">>, <<"vtp", "domain">>})
IsBpduGuardEnableLine(l) == ~IsNegatedCommand(l) /\ HasRun(l, <<"spanning-tree", "bpduguard", "enable">>)

\* switchportMode of the first mode line.
SwitchportMode(lines) == From(FirstMatch(lines, IsSwitchportModeLine), 3)

\* What both lists say of one feature, by the first line about it.
Delta(c, Test(_)) == <<FirstMatch(c.before, Test), FirstMatch(c.after, Test)>>
Differs(delta) == delta[1] # delta[2]

IsInterface(c) == c.id[1] = "interface"

\* The per-interface facts of switchingChanges.
InterfaceSwitching(c) ==
    LET Fact(category, d) ==
            IF Differs(d)
            THEN {[category |-> category, subject |-> c.id[2], type |-> c.type,
                   before |-> d[1], after |-> d[2]]}
            ELSE {}
    IN  (IF SwitchportMode(c.before) # SwitchportMode(c.after)
         THEN Fact("switchport_mode", Delta(c, IsSwitchportModeLine)) ELSE {})
        \cup Fact("trunk", Delta(c, IsTrunkAllowedLine))
        \cup Fact("native_vlan", Delta(c, IsNativeVlanLine))
        \cup Fact("spanning_tree", Delta(c, IsPortfastLine))
        \cup Fact("spanning_tree", Delta(c, IsBpduGuardLine))
        \cup Fact("spanning_tree", Delta(c, IsStpGuardLine))
        \cup Fact("etherchannel", Delta(c, IsChannelGroupLine))
        \cup Fact("storm_control", Delta(c, IsStormControlLine))

\* (mutation) The value is part of the key.
GlobalKeyAndValue(l) ==
    IF StartsAny(l, {<<"spanning-tree", "mode">>, <<"vtp">>}) THEN Words(l, 1, 3) ELSE <<>>

\* globalSwitchingKey: <<>> when the line is no global setting.
GlobalKey(l) ==
    IF StartsAny(l, {<<"spanning-tree", "mode">>, <<"vtp", "mode">>, <<"vtp", "domain">>,
                     <<"vtp", "version">>, <<"vtp", "pruning">>}) THEN Words(l, 1, 2)
    ELSE IF Starts(l, <<"spanning-tree", "vlan">>) /\ Len(l) >= 3 /\ HasWord(l, {"priority", "root"})
    THEN Words(l, 1, 3)
    ELSE <<>>

\* globalSwitchingChanges: for each key the last line seen on each side.
GlobalSwitching(changes) ==
    LET old == FlattenSeq([i \in DOMAIN changes |-> changes[i].before])
        new == FlattenSeq([i \in DOMAIN changes |-> changes[i].after])
        keys == {GlobalKey(l) : l \in ToSet(old \o new)} \ {<<>>}
        value(lines, k) == FirstMatch(Reverse(lines), LAMBDA l : GlobalKey(l) = k)
    IN  {[category |-> IF k[1] = "vtp" THEN "vtp" ELSE "spanning_tree", subject |-> <<"global">>,
          type |-> IF value(old, k) = NoLine THEN "added"
                   ELSE IF value(new, k) = NoLine THEN "removed" ELSE "changed",
          before |-> value(old, k), after |-> value(new, k)]
            : k \in {x \in keys : value(old, x) # value(new, x)}}

\* switchingChanges
SwitchingChanges(changes) ==
    (UNION {InterfaceSwitching(changes[i]) : i \in {j \in DOMAIN changes : IsInterface(changes[j])}})
    \cup GlobalSwitching(changes)

-----------------------------------------------------------------------------
(* The findings about one changed block (appendSwitchingFindings): a set   *)
(* of <<severity, category, title>>.                                       *)

\* trunkCarriesAllVLANs
TrunkCarriesAll(c) ==
    LET all(l) == HasRun(l, <<"allowed", "vlan", "all">>)
        d == Delta(c, IsTrunkAllowedLine)
    IN  all(d[2]) /\ ~IsNegatedCommand(d[2]) /\ ~all(d[1])

\* bpduProtectionReducedOrPortfastTrunk
EdgeProtectionReduced(c) ==
    \/ AnyLine(c.before, IsBpduGuardEnableLine) /\ ~AnyLine(c.after, IsBpduGuardEnableLine)
    \/ /\ AnyLine(c.after, LAMBDA l : IsPortfastLine(l) /\ ~IsNegatedCommand(l))
       /\ SwitchportMode(c.after) = <<"trunk">>

SwitchingFindings(c) ==
    LET all == AllLines(c)
        mode == <<SwitchportMode(c.before), SwitchportMode(c.after)>>
        onPort(guard, finding) == IF IsInterface(c) /\ guard THEN {finding} ELSE {}
        anywhere(guard, finding) == IF guard THEN {finding} ELSE {}
    IN  onPort(Differs(mode) /\ mode[1] # <<>> /\ mode[2] # <<>>,
               <<"high", "switching", "Switchport mode changed">>)
        \cup onPort(TrunkCarriesAll(c), <<"medium", "switching", "Trunk carries all VLANs">>)
        \cup onPort(Differs(Delta(c, IsNativeVlanLine)), <<"medium", "switching", "Trunk native VLAN changed">>)
        \cup onPort(EdgeProtectionReduced(c),
                    <<"high", "spanning_tree", "BPDU protection reduced or PortFast on trunk">>)
        \cup onPort(Differs(Delta(c, IsChannelGroupLine)),
                    <<"medium", "etherchannel", "EtherChannel membership or mode changed">>)
        \cup onPort(Differs(Delta(c, IsStormControlLine)),
                    <<"low", "switching", "Storm-control reduced or removed">>)
        \cup anywhere(AnyLine(all, IsStpModeLine), <<"high", "spanning_tree", "Spanning-tree mode changed">>)
        \cup anywhere(AnyLine(all, IsStpVlanPriorityLine),
                      <<"high", "spanning_tree", "Spanning-tree root or priority changed">>)
        \cup anywhere(AnyLine(all, IsVtpModeOrDomainLine), <<"high", "vtp", "VTP mode or domain changed">>)

=============================================================================
