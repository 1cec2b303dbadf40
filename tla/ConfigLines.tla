---------------------------- MODULE ConfigLines ----------------------------
(***************************************************************************)
(* The line predicates of src/pkg/configdiff.  A normalised line is the    *)
(* sequence of its lower-cased words (strings.Fields of strings.ToLower),  *)
(* so a prefix test of the code is a prefix of words and a substring test  *)
(* a run of words.  A raw line also has its indentation.                   *)
(***************************************************************************)
EXTENDS Naturals, Sequences, SequencesExt, FiniteSets

CONSTANTS
    Numerals,       \* the words that are all digits
    Addresses,      \* the words that parse as an IP address
    VlanParts,      \* [word |-> the <<low, high>> parts of the list it spells]
    MaxVlanRange,   \* the widest range expandVLANPart expands (256)
    SlugWords       \* the words of a line that fit in the 80 bytes of stableID

ASSUME LineAssumption ==
    /\ SlugWords \in Nat \ {0}
    /\ MaxVlanRange \in Nat

NoLine == <<>>

\* Words m to n of a line, or as many of them as it has (fields[:min(n, len)]).
Words(l, m, n) == SubSeq(l, m, IF n < Len(l) THEN n ELSE Len(l))
From(l, m) == Words(l, m, Len(l))

Starts(l, run) == IsPrefix(run, l)
StartsAny(l, runs) == \E run \in runs : Starts(l, run)
HasRun(l, run) == \E i \in 1 .. Len(l) : Starts(From(l, i), run)
HasAny(l, runs) == \E run \in runs : HasRun(l, run)
HasWord(l, words) == \E i \in 1 .. Len(l) : l[i] \in words

\* The word after the first occurrence of key, "" when there is none.
TokenAfter(l, key) ==
    LET i == SelectInSeq(l, LAMBDA w : w = key)
    IN  IF i = 0 \/ i = Len(l) THEN "" ELSE l[i + 1]

\* The first word of a block ID: everything past SlugWords words is cut off.
StableID(l) == Words(l, 1, SlugWords)

AnyLine(lines, Test(_)) == \E i \in 1 .. Len(lines) : Test(lines[i])
FirstMatch(lines, Test(_)) ==
    LET i == SelectInSeq(lines, Test) IN IF i = 0 THEN NoLine ELSE lines[i]

\* The lines in their order, each kept once.
Keep(kept, l) == IF l = NoLine \/ Contains(kept, l) THEN kept ELSE Append(kept, l)
UniquePreserve(lines) ==
    LET kept[n \in 0 .. Len(lines)] == IF n = 0 THEN <<>> ELSE Keep(kept[n - 1], lines[n])
    IN  kept[Len(lines)]

\* (mutation) A remark is a line like any other.
NormalizeLineRemarks(raw) ==
    IF StartsAny(raw.words, {<<"!">>, <<"#">>, <<"//">>, <<";">>}) THEN NoLine ELSE raw.words

\* normalizeLine: comments and remarks become the empty line.
NormalizeLine(raw) ==
    IF StartsAny(raw.words, {<<"!">>, <<"#">>, <<"//">>, <<";">>})
         \/ (Starts(raw.words, <<"remark">>) /\ Len(raw.words) > 1)
    THEN NoLine ELSE raw.words

-----------------------------------------------------------------------------
(* What a line says, whatever block it is in.                              *)

IsNegatedCommand(l) == Len(l) > 1 /\ l[1] \in {"no", "delete"}

IsRouteLine(l) ==
    \/ StartsAny(l, {<<"ip", "route">>, <<"ipv6", "route">>, <<"route">>})
    \/ HasRun(l, <<"static", "route">>)

RoutePrefix(l) ==
    IF Starts(l, <<"ip", "route">>) /\ Len(l) >= 4 THEN <<l[3], l[4]>>
    ELSE IF Starts(l, <<"ipv6", "route">>) /\ Len(l) >= 3 THEN <<l[3]>>
    ELSE IF TokenAfter(l, "route") # "" THEN <<TokenAfter(l, "route")>>
    ELSE IF Len(l) > 1 THEN <<l[2]>> ELSE l

RouteNextHop(l) ==
    IF Starts(l, <<"ip", "route">>) /\ Len(l) >= 5 THEN <<l[5]>>
    ELSE LET i == SelectInSeq(l, LAMBDA w : w \in {"next-hop", "next-table"})
         IN  IF i = 0 \/ i = Len(l) THEN <<>> ELSE <<l[i + 1]>>

IsDefaultRouteLine(l) ==
    HasRun(l, <<"0.0.0.0", "0.0.0.0">>) \/ HasWord(l, {"0.0.0.0/0", "::/0", "default-route"})

AccessListName(l) == IF Len(l) >= 2 /\ l[1] = "access-list" THEN l[2] ELSE ""

IsNATLine(l) ==
    \/ (Len(l) > 1 /\ l[1] = "nat")
    \/ \E i \in 2 .. Len(l) - 1 : l[i] \in {"nat", "source-nat", "destination-nat"}
    \/ HasWord(l, {"masquerade"})

IsVPNLine(l) ==
    \/ \E i \in 2 .. Len(l) : l[i] \in {"vpn", "ike"}
    \/ HasWord(l, {"ipsec", "isakmp"})
    \/ \E i \in 1 .. Len(l) - 1 : l[i] = "tunnel"

IsAAAAuthLine(l) ==
    \/ (Len(l) > 1 /\ l[1] \in {"aaa", "username"})
    \/ \E i \in 2 .. Len(l) : l[i] \in {"radius", "radius-server", "tacacs", "tacacs-server"}
    \/ HasWord(l, {"authentication", "authentication-order"})

IsManagementLine(l) ==
    /\ ~IsNegatedCommand(l)
    /\ \/ HasWord(l, {"ssh", "disable-ssh", "telnet", "disable-telnet"})
       \/ HasAny(l, {<<"http", "server">>, <<"https", "server">>, <<"management", "access">>,
                     <<"snmp-server", "community">>})
       \/ Starts(l, <<"line", "vty">>)

IsObservabilityLine(l) ==
    \/ Len(l) > 1 /\ l[1] \in {"logging", "snmp-server", "ntp", "dns"}
    \/ Len(l) > 2 /\ Starts(l, <<"no", "logging">>)
    \/ HasWord(l, {"name-server"})

AAAID(l) ==
    IF Len(l) >= 4 /\ l[1] = "aaa" THEN Words(l, 1, 4)
    ELSE IF Len(l) >= 3 /\ l[1] \in {"radius", "tacacs"} THEN Words(l, 1, 3)
    ELSE IF Len(l) >= 2 /\ l[1] = "username" THEN Words(l, 1, 2)
    ELSE StableID(l)

\* expandVLANPart: a part is kept whole when it runs backwards or is too wide.
ExpandVlanPart(part) ==
    IF part[1] > part[2] \/ part[2] - part[1] > MaxVlanRange
    THEN {part} ELSE {<<v, v>> : v \in part[1] .. part[2]}

\* vlanIDs: the lists that follow the word "vlan".
VlanIDs(l) ==
    UNION {UNION {ExpandVlanPart(p) : p \in VlanParts[l[i + 1]]} :
              i \in {j \in 1 .. Len(l) - 1 : l[j] = "vlan" /\ l[j + 1] \in DOMAIN VlanParts}}

\* The id one word spells: what the text of a single part stands for.
VlanWord(w) ==
    IF w \in DOMAIN VlanParts /\ Cardinality(VlanParts[w]) = 1
    THEN CHOOSE p \in VlanParts[w] : TRUE ELSE <<w>>

InterfaceVlanLine(l) ==
    \/ HasAny(l, {<<"switchport", "access", "vlan">>, <<"switchport", "trunk", "native", "vlan">>})
    \/ StartsAny(l, {<<"interface", "vlan">>, <<"interface", "vlan10">>})
    \/ \E i \in 2 .. Len(l) - 3 : Words(l, i, i + 2) = <<"family", "inet", "address">>

TrunkAllowedLine(l) == HasRun(l, <<"trunk", "allowed", "vlan">>)

ManagementServices(l) ==
    {s \in {"http", "https", "ssh", "telnet", "snmp"} :
        \/ s = "http"   /\ HasRun(l, <<"http", "server">>)
        \/ s = "https"  /\ HasAny(l, {<<"ip", "http", "secure-server">>, <<"https", "server">>})
        \/ s = "ssh"    /\ HasWord(l, {"ssh", "disable-ssh"})
        \/ s = "telnet" /\ HasWord(l, {"telnet", "disable-telnet"})
        \/ s = "snmp"   /\ HasWord(l, {"snmp", "snmp-server", "snmp-setting"})}

NoLoggingLine(l) == Len(l) >= 2 /\ l[1] = "no" /\ l[2] \in {"logging", "snmp-server", "ntp"}

=============================================================================
