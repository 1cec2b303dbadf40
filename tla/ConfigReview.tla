----------------------------- MODULE ConfigReview -----------------------------
(***************************************************************************)
(* A device's configuration is edited, snapshotted and reviewed, again and *)
(* again: each review analyses the snapshot against the one before it, as  *)
(* pipeline.analyzeAndRecord does through configdiff.Explain, and a policy *)
(* evaluation compares it with its predecessor and with the first snapshot.*)
(*                                                                         *)
(* A configuration is a sequence of sections [top, body, end] of raw       *)
(* lines; a family is a device with the edits its operator may make:       *)
(*   vendor            the vendor the device is registered with            *)
(*   base              its first configuration                             *)
(*   policy            what is required of it and forbidden                *)
(*   lines             the lines that may be put in a section's body, as   *)
(*                     [top, slot, raw]: slot is the run of words a line   *)
(*                     of the same setting starts with                     *)
(*   sections          the sections that may be put, as [slot, section]    *)
(*   broad             sets of lines that together let everything through  *)
(***************************************************************************)
EXTENDS ConfigRisk, DesiredState, NetGraph

CONSTANTS
    Families,       \* the devices and their edits
    Neighbour,      \* what an analysis of another device touches
    MaxEdits        \* bound: edits in a behaviour

RawLine == [indent : BOOLEAN, words : Seq(STRING)]
Sections == [top : Seq(RawLine), body : Seq(RawLine), end : Seq(RawLine)]

ASSUME FamilyAssumption ==
    \A f \in Families :
        /\ f.base \in Seq(Sections)
        /\ \A o \in f.lines : o.raw \in RawLine
        /\ \A o \in f.sections : o.section \in Sections
        /\ \A r \in f.policy : r = <<r[1], r[2], r[3]>>

VARIABLES
    family,         \* the device
    config,         \* its running configuration
    edits,          \* how often it was edited
    seen,           \* the configuration of the last snapshot
    before,         \* the configuration of the snapshot before it
    report,         \* the analysis of the last snapshot
    verdict         \* its policy evaluation

vars == <<family, config, edits, seen, before, report, verdict>>

\* The text of a configuration.
Text(sections) ==
    FlattenSeq([i \in DOMAIN sections |-> sections[i].top \o sections[i].body \o sections[i].end])

-----------------------------------------------------------------------------
(* What the operator does to the device.                                   *)

Without(s, i) == SubSeq(s, 1, i - 1) \o SubSeq(s, i + 1, Len(s))
Insert(s, i, x) == SubSeq(s, 1, i) \o <<x>> \o SubSeq(s, i + 1, Len(s))
WithBody(section, body) == [top |-> section.top, body |-> body, end |-> section.end]
Swapped(s, i) == [s EXCEPT ![i] = s[i + 1], ![i + 1] = s[i]]

\* x in the place of what fills its slot in s, or else anywhere.
Put(s, x, fills(_)) ==
    LET i == SelectInSeq(s, fills)
    IN  IF i # 0 THEN {[s EXCEPT ![i] = x]} ELSE {Insert(s, j, x) : j \in 0 .. Len(s)}

EditedBodies(section) ==
    LET b == section.body
        options == {o \in family.lines : o.top = section.top}
    IN  {Without(b, i) : i \in DOMAIN b}
        \cup {Swapped(b, i) : i \in 1 .. Len(b) - 1}
        \cup UNION {Put(b, o.raw, LAMBDA raw : Starts(raw.words, o.slot)) : o \in options}

Edit ==
    /\ edits < MaxEdits
    /\ \/ \E j \in DOMAIN config : \E b \in EditedBodies(config[j]) :
            config' = [config EXCEPT ![j] = WithBody(@, b)]
       \/ \E j \in DOMAIN config : config' = Without(config, j)
       \/ \E j \in 1 .. Len(config) - 1 : config' = Swapped(config, j)
       \/ \E o \in family.sections :
            LET i == SelectInSeq(config, LAMBDA s : Starts(s.top[1].words, o.slot))
            IN  config' = IF i # 0 THEN [config EXCEPT ![i] = o.section] ELSE Append(config, o.section)
    /\ config' # config
    /\ edits' = edits + 1
    /\ UNCHANGED <<family, seen, before, report, verdict>>

-----------------------------------------------------------------------------
(* A review of the current configuration.                                  *)

\* Nothing was compared yet.
NoReport == [changes |-> <<>>]
NoVerdict == Evaluation({}, {}, {})

Review ==
    /\ config # seen
    /\ before' = seen
    /\ seen' = config
    /\ report' = AnalyzeContent(Text(seen), Text(config), family.vendor)
    /\ verdict' = EvaluatePolicy(family.policy, Text(config), Text(seen), Text(family.base), family.vendor)
    /\ UNCHANGED <<family, config, edits>>

Init ==
    /\ family \in Families
    /\ config = family.base
    /\ edits = 0
    /\ seen = family.base
    /\ before = family.base
    /\ report = NoReport
    /\ verdict = NoVerdict

Next == Edit \/ Review

Spec == Init /\ [][Next]_vars

-----------------------------------------------------------------------------
(* What the texts say, told from their sections and not from their blocks: *)
(* the references the reports are held against.                            *)

\* The properties below are about the moment a report is made.
Reviewed == config = seen /\ before # seen

Said(raw) == IF raw.words[1] \in {"!", "#", "//", ";", "remark"} THEN NoLine ELSE raw.words
Lines(section) ==
    SelectSeq([i \in DOMAIN section.body |-> Said(section.body[i])], LAMBDA l : l # NoLine)
TopLine(section) == Said(section.top[Len(section.top)])
LinesOf(cfg) == {Said(raw) : raw \in ToSet(Text(cfg))} \ {NoLine, <<"next">>, <<"end">>}
InSections(cfg, Says(_)) == UNION {Says(cfg[i]) : i \in DOMAIN cfg}

\* The rules of access lists and firewall policies in their order, as
\* <<list, line>>; for Junos a list holds the policies of one pair of zones.
FilterOf(l) ==
    IF Starts(l, <<"access-list">>) THEN Words(l, 1, 2)
    ELSE IF Starts(l, <<"set", "firewall", "name">>) THEN Words(l, 1, 4)
    ELSE IF Starts(l, <<"set", "rulebase", "security", "rules">>) THEN Words(l, 1, 5)
    ELSE IF Starts(l, <<"set", "security", "policies">>) THEN Words(l, 1, 8)
    ELSE <<>>
Rules(cfg) ==
    LET rulesOf(s) ==
            LET top == TopLine(s)
                list == IF Starts(top, <<"ip", "access-list">>) \/ s.top[1].words = <<"config", "firewall", "policy">>
                        THEN top ELSE FilterOf(top)
                lines == IF s.body = <<>> THEN <<top>> ELSE Lines(s)
            IN  IF list = <<>> THEN <<>> ELSE [i \in DOMAIN lines |-> <<list, lines[i]>>]
    IN  FlattenSeq([i \in DOMAIN cfg |-> rulesOf(cfg[i])])

\* Pairs of rules of one list that changed places.
SwappedRules(old, new) ==
    LET kept == ToSet(old) \cap ToSet(new)
        at(rules, r) == SelectInSeq(rules, LAMBDA x : x = r)
    IN  {{p[1][2], p[2][2]} : p \in {q \in kept \X kept :
            /\ q[1][1] = q[2][1]
            /\ at(old, q[1]) < at(old, q[2]) /\ at(new, q[1]) > at(new, q[2])}}

\* What a configuration says when neither comments nor the order of sections
\* and of statements other than rules count.
Meaning(cfg) ==
    <<InSections(cfg, LAMBDA s : IF TopLine(s) = NoLine THEN {} ELSE {<<TopLine(s), ToSet(Lines(s))>>}),
      Rules(cfg)>>

\* What interfaces use and the configuration does not define.
Missing(cfg) ==
    LET isInterface(s) == Starts(TopLine(s), <<"interface">>)
        bodyOf(start) == InSections(cfg, LAMBDA s : IF Starts(TopLine(s), start) THEN ToSet(Lines(s)) ELSE {})
        listsOf(map) == {l[5] : l \in {x \in bodyOf(<<"route-map", map>>) :
                                         Starts(x, <<"match", "ip", "address", "prefix-list">>)}}
        uses(iface, l) ==
            CASE Starts(l, <<"ip", "access-group">>) -> {Ref("acl", l[3], iface, l[4], "")}
              [] Starts(l, <<"ip", "policy", "route-map">>) ->
                    {Ref("route-map", l[4], iface, "", "")}
                    \cup {Ref("prefix-list", p, iface, "", l[4]) : p \in listsOf(l[4])}
              [] Starts(l, <<"set", "interfaces">>) /\ Len(l) = 8 /\ l[5] = "firewall" ->
                    {Ref("acl", l[8], iface, l[6], "")}
              [] OTHER -> {}
        used == InSections(cfg, LAMBDA s :
                    IF isInterface(s) THEN UNION {uses(From(TopLine(s), 2), l) : l \in ToSet(Lines(s))}
                    ELSE uses(Words(TopLine(s), 4, 4), TopLine(s)))
        defined == InSections(cfg, LAMBDA s :
                    LET t == TopLine(s)
                    IN  CASE Starts(t, <<"ip", "access-list">>) -> {<<"acl", t[4]>>}
                          [] Starts(t, <<"access-list">>) -> {<<"acl", t[2]>>}
                          [] Starts(t, <<"route-map">>) -> {<<"route-map", t[2]>>}
                          [] Starts(t, <<"ip", "prefix-list">>) -> {<<"prefix-list", t[3]>>}
                          [] Starts(t, <<"set", "firewall", "name">>) -> {<<"acl", t[4]>>}
                          [] OTHER -> {})
    IN  {r \in used : <<r.kind, r.name>> \notin defined}

\* The requirements of the policy a configuration breaks.
BrokenBy(lines, rules) ==
    LET allows(l, v) == \E i \in 2 .. Len(l) : /\ l[i - 1] = "vlan" /\ l[i] \in DOMAIN VlanParts
                                               /\ \E p \in VlanParts[l[i]] :
                                                    /\ p[1] <= v[1] /\ v[1] <= p[2]
                                                    /\ p[2] - p[1] <= MaxVlanRange
        states(l, r) ==
            CASE r[1] = "vlan" -> allows(l, r[3])
              [] r[1] = "route" -> \E i \in 2 .. Len(l) : l[i - 1] = "route" /\ Starts(From(l, i), r[3])
              [] r[1] = "management_service" -> r[3] \in {"ssh", "telnet"} /\ HasWord(l, {r[3]})
              [] r[1] = "aaa" -> l = r[3]
              [] OTHER -> HasRun(l, r[3]) /\ l \in rules
        met(r) == \E l \in lines : states(l, r)
    IN  {r \in family.policy : (r[2] = "required") = ~met(r)}
Broken(cfg) ==
    BrokenBy({l \in LinesOf(cfg) : ~IsNegatedCommand(l)}, {rule[2] : rule \in ToSet(Rules(cfg))})

Verdicts(findings) == {SubSeq(f.identity, 1, 3) : f \in findings}

\* The BGP and OSPF neighbours, as <<protocol, peer, value>>: the value is the
\* pair of ASes, or the area.
PeerTable(cfg) ==
    LET area(s) == {l[Len(l)] : l \in {x \in ToSet(Lines(s)) : Starts(x, <<"network">>)}}
        peersOf(s) ==
            LET t == TopLine(s)
                neighbours == {l \in ToSet(Lines(s)) : Starts(l, <<"neighbor">>)}
            IN  CASE Starts(t, <<"router", "bgp">>) ->
                        {<<"bgp", l[2], <<t[3], l[4]>>>> : l \in {x \in neighbours : x[3] = "remote-as"}}
                  [] Starts(t, <<"router", "ospf">>) -> {<<"ospf", l[2], area(s)>> : l \in neighbours}
                  [] OTHER -> {}
    IN  InSections(cfg, peersOf)

\* The static routes, as <<prefix, next hop>>.
RouteTable(cfg) ==
    LET routesOf(s) ==
            LET t == TopLine(s)
                word(key) == {l[3] : l \in {x \in ToSet(Lines(s)) : Starts(x, <<"set", key>>)}}
            IN  CASE Starts(t, <<"ip", "route">>) -> {<<Words(t, 3, 4), Words(t, 5, 5)>>}
                  [] \E i \in 1 .. Len(t) - 3 : t[i] = "route" /\ t[i + 2] = "next-hop" ->
                        LET i == CHOOSE j \in 1 .. Len(t) - 3 : t[j] = "route"
                        IN  {<<<<t[i + 1]>>, <<t[i + 3]>>>>}
                  [] s.top[1].words = <<"config", "router", "static">> ->
                        {<<<<p>>, <<h>>>> : p \in word("dst"), h \in word("gateway")}
                  [] OTHER -> {}
    IN  InSections(cfg, routesOf)

\* The value of a global spanning-tree or VTP setting.
Setting(cfg, key) == InSections(cfg, LAMBDA s : IF Starts(TopLine(s), key) THEN {TopLine(s)} ELSE {})
GlobalSettings == {<<"spanning-tree", "mode">>, <<"vtp", "mode">>, <<"vtp", "domain">>}

-----------------------------------------------------------------------------
(* Properties of a single report.                                          *)

Changes(type) == {c \in ToSet(report.changes) : c.type \in type}
BeforeLines == UNION {ToSet(c.before) : c \in ToSet(report.changes)}
AfterLines == UNION {ToSet(c.after) : c \in ToSet(report.changes)}

\* No edit is lost between the text and the report: every line a device lost
\* or gained is quoted by a change, whatever section, block or dialect it is in.
EveryLineReported ==
    Reviewed => /\ LinesOf(before) \ LinesOf(seen) \subseteq BeforeLines
                /\ LinesOf(seen) \ LinesOf(before) \subseteq AfterLines

\* Two rules of one access list that changed places are a change, although no
\* line was lost or gained (blockFingerprint keeps the order of rules).
RuleOrderReported ==
    Reviewed =>
        \A pair \in SwappedRules(Rules(before), Rules(seen)) :
            \E c \in Changes({"changed"}) : pair \subseteq ToSet(c.before) \cap ToSet(c.after)

\* Comments, remarks and the order of sections and statements are no change:
\* two texts that say the same give an empty report.
NoiseIsSilent == Reviewed /\ Meaning(before) = Meaning(seen) => report.changes = <<>>

\* The report names as dangling exactly what the new text uses undefined and
\* the old one did not: unchanged dangling references stay silent.
DanglingIsNew == Reviewed => report.dangling = Missing(seen) \ Missing(before)

PeersReported(old, new) ==
    LET peers(table) == {<<p[1], p[2]>> : p \in table}
        reported(type) == {<<p.proto, p.peer>> : p \in {x \in report.peers : x.type = type}}
    IN  /\ reported("added") = peers(new) \ peers(old)
        /\ reported("removed") = peers(old) \ peers(new)
        /\ reported("changed") = (peers(new \ old) \cap peers(old))

HopsReported(old, new) ==
    LET hops(table, prefix) == {r[2] : r \in {x \in table : x[1] = prefix}}
    IN  \A r \in new :
            (Cardinality(hops(old, r[1])) = 1 /\ hops(new, r[1]) = {r[2]} /\ r \notin old) =>
                \E t \in report.routes :
                    t.prefix = r[1] /\ {t.beforeHop} = hops(old, r[1]) /\ t.afterHop = r[2]

\* Routing findings match the texts: the report names exactly the neighbours
\* that came, went or got other ASes or another area, and a route whose only
\* next hop changed is reported with the old and the new.
RoutingMatchesTexts ==
    Reviewed =>
        /\ PeersReported(PeerTable(before), PeerTable(seen))
        /\ HopsReported(RouteTable(before), RouteTable(seen))

\* A global setting that got another value is one change with both values,
\* although its old and its new line are blocks of their own.
SettingsArePaired ==
    Reviewed => \A key \in GlobalSettings :
        LET old == Setting(before, key)
            new == Setting(seen, key)
            reported == {c \in report.switching : c.subject = <<"global">> /\ GlobalKey(c.before \o c.after) = key}
        IN  IF old = new THEN reported = {}
            ELSE /\ Cardinality(reported) = 1
                 /\ \A c \in reported : {c.before} \ {NoLine} = old /\ {c.after} \ {NoLine} = new

\* Lines that together let everything through, and were not all there before,
\* are a high finding that quotes them, also when they are the lines of a rule
\* that stand apart.
BroadRuleIsHigh ==
    Reviewed => \A lines \in family.broad :
        (lines \subseteq LinesOf(seen) /\ ~(lines \subseteq LinesOf(before))) =>
            /\ \E f \in report.findings : f.category = "acl_firewall" /\ lines \subseteq f.evidence
            /\ HighestSeverity(report.findings) = "high"

\* The candidate commands of the set-style dialects, run on the new
\* configuration, bring back every line of the old one and leave nothing new
\* but lines of blocks that were there before.
RestoresOld ==
    Reviewed /\ report.parser \in {"junos", "edgeos", "panos"} =>
        LET commands == UNION {ToSet(s.commands) : s \in ToSet(report.rollback.snippets)}
            deletes == {l \in commands : l[1] = "delete"}
            left == {l \in LinesOf(seen) : \A d \in deletes : ~IsPrefix(Tail(d), Tail(l))}
            restored == left \cup (commands \ deletes)
        IN  /\ LinesOf(before) \subseteq restored
            /\ restored \ LinesOf(before) \subseteq UNION {ToSet(c.after) : c \in Changes({"changed"})}

ReappliedLines == UNION {ToSet(s.exactReapply) : s \in ToSet(report.rollback.snippets)}

\* Every lost line is in the text a rollback reapplies exactly, and no command
\* that is not itself an old line negates a line that was there before.
KeepsOld ==
    Reviewed =>
        /\ LinesOf(before) \ LinesOf(seen) \subseteq ReappliedLines
        /\ \A s \in ToSet(report.rollback.snippets) : \A i \in DOMAIN s.commands :
              LET l == s.commands[i]
              IN  IsNegatedCommand(l) /\ l \notin LinesOf(before) =>
                    IF report.parser = "fortinet"
                    THEN \A j \in DOMAIN before : before[j].top # <<[indent |-> FALSE, words |-> s.commands[1]],
                                                      [indent |-> FALSE, words |-> <<"edit">> \o Tail(l)]>>
                    ELSE \A old \in LinesOf(before) : Tail(l) # old /\ Tail(l) # Tail(old)

\* A rollback gives back what was lost and takes back nothing that was there
\* before: the set-style command lists undo the change when they are run, every
\* lost line is quoted, and no new command negates an old line.
RollbackIsSound == RestoresOld /\ KeepsOld

\* Another device is within the blast radius of this one's change exactly when
\* both touch a VLAN (two hops) or route to one next hop (four hops); objects
\* that merely have one name do not connect them.
BlastRadiusIsShared ==
    Reviewed =>
        LET names(touched) == {t[1] : t \in touched}
            hops(a) == {r.afterHop : r \in a.routes} \ {<<>>}
            shareVlan == names(report.vlans) \cap names(Neighbour.vlans) # {}
            shareHop == hops(report) \cap hops(Neighbour) # {}
            graph == Merge(Derive("this", report), Derive("other", Neighbour))
            reached(depth) == DeviceNode("other") \in BlastRadius(graph, DeviceNode("this"), depth)
        IN  \A depth \in 0 .. 4 :
                reached(depth) <=> \/ shareVlan /\ (depth = 0 \/ depth >= 2)
                                   \/ shareHop /\ (depth = 0 \/ depth >= 4)

VerdictIs(now, then, first) ==
    /\ Verdicts(verdict.fromPredecessor.introduced) = now \ then
    /\ Verdicts(verdict.fromPredecessor.resolved) = then \ now
    /\ Verdicts(verdict.fromBaseline.introduced) = now \ first

\* The verdict holds what the texts say: what the current one breaks and a
\* reference did not, and what the predecessor broke and the current does not.
VerdictMatchesTexts ==
    Reviewed => VerdictIs(Broken(seen), Broken(before), Broken(family.base))

=============================================================================
