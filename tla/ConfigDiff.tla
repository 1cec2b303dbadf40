----------------------------- MODULE ConfigDiff -----------------------------
(***************************************************************************)
(* src/pkg/configdiff/analyzer.go: the block diff, the objects a change    *)
(* touches and the rollback it proposes.                                   *)
(*                                                                         *)
(* A change is [id, kind, type, header, before, after], before and after   *)
(* being lines.  The code orders changes by id; here they are in the order *)
(* of the texts, on which nothing below depends.                           *)
(***************************************************************************)
EXTENDS ConfigParser

Ordered(block) == block.kind \in {"acl", "firewall"}

\* (mutation) The lines of every kind are sorted.
SameFingerprintSorted(b, a) == ToSet(b.lines) = ToSet(a.lines)

\* Equality of blockFingerprint: the lines in order for access lists and
\* firewall rules, in sorted order (they are distinct) for all other kinds.
SameFingerprint(b, a) ==
    IF Ordered(b) \/ Ordered(a) THEN b.lines = a.lines ELSE ToSet(b.lines) = ToSet(a.lines)

BlockWith(blocks, id) == blocks[PlaceOf(blocks, id)]
HasBlock(blocks, id) == PlaceOf(blocks, id) # 0

\* diffBlocks, the blocks of each side having distinct ids.
Change(type, block, old, new) ==
    [id |-> block.id, kind |-> block.kind, type |-> type, header |-> block.header, before |-> old, after |-> new]

\* What becomes of a block, as no change or one.
Changed(b, a) == IF SameFingerprint(b, a) THEN <<>> ELSE <<Change("changed", a, b.lines, a.lines)>>
Fate(b, after) ==
    IF HasBlock(after, b.id) THEN Changed(b, BlockWith(after, b.id))
    ELSE <<Change("removed", b, b.lines, <<>>)>>
Arrival(a, before) == IF HasBlock(before, a.id) THEN <<>> ELSE <<Change("added", a, <<>>, a.lines)>>

DiffBlocks(before, after) ==
    FlattenSeq([i \in DOMAIN before |-> Fate(before[i], after)])
      \o FlattenSeq([i \in DOMAIN after |-> Arrival(after[i], before)])

AllLines(change) == change.before \o change.after
CombinedEvidence(change) == ToSet(AllLines(change))

-----------------------------------------------------------------------------
(* The objects a change touches.  Each list of the analysis keeps one      *)
(* entry per name and type of change: a set of <<name, type>> here.        *)

TouchedInterfaces(changes) ==
    LET c(i) == changes[i]
        named(l) == {<<l[j + 1]>> : j \in {k \in 1 .. Len(l) - 1 : l[k] \in {"interface", "int"}}}
    IN  UNION {{<<name, c(i).type>> :
                  name \in (IF c(i).kind = "interface" /\ c(i).id[1] = "interface" THEN {c(i).id[2]} ELSE {})
                             \cup UNION {named(l) : l \in CombinedEvidence(c(i))}}
                 : i \in DOMAIN changes}

TouchedVlans(changes) ==
    LET block(c) == IF c.kind = "vlan" THEN {VlanWord(c.id[2][1])} ELSE {}
    IN  UNION {{<<v, changes[i].type>> :
                  v \in block(changes[i]) \cup UNION {VlanIDs(l) : l \in CombinedEvidence(changes[i])}}
                 : i \in DOMAIN changes}

\* The prefix and the next hop of a FortiOS or PAN-OS route block, which has no
\* line IsRouteLine knows.
FortinetValue(lines, key) ==
    From(FirstMatch(lines, LAMBDA l : Starts(l, <<"set", key>>) /\ Len(l) > 2), 3)
PanosValue(lines, key) ==
    LET l == FirstMatch(lines, LAMBDA x : TokenAfter(x, key) # "")
    IN  IF l = NoLine THEN <<>> ELSE <<TokenAfter(l, key)>>

BlockRoutePrefix(lines) ==
    IF FortinetValue(lines, "dst") # <<>> THEN FortinetValue(lines, "dst")
    ELSE PanosValue(SelectSeq(lines, LAMBDA l : HasWord(l, {"static-route"})), "destination")
BlockNextHop(fortinet, lines) ==
    IF fortinet THEN FortinetValue(lines, "gateway") ELSE PanosValue(lines, "ip-address")

FirstHop(lines, prefix) ==
    LET l == FirstMatch(lines, LAMBDA x : RoutePrefix(x) = prefix)
    IN  IF l = NoLine THEN <<>> ELSE RouteNextHop(l)

\* touchedRoutes: [prefix, type, beforeHop, afterHop].
TouchedRoutes(changes) ==
    UNION {
        LET c == changes[i]
            old == SelectSeq(c.before, IsRouteLine)
            new == SelectSeq(c.after, IsRouteLine)
            prefix == BlockRoutePrefix(AllLines(c))
            fortinet == FortinetValue(AllLines(c), "dst") # <<>>
        IN  IF c.kind = "route" /\ old \o new = <<>>
            THEN IF prefix = <<>> THEN {}
                 ELSE {[prefix |-> prefix, type |-> c.type,
                        beforeHop |-> BlockNextHop(fortinet, c.before),
                        afterHop |-> BlockNextHop(fortinet, c.after)]}
            ELSE {[prefix |-> p, type |-> c.type, beforeHop |-> FirstHop(old, p), afterHop |-> FirstHop(new, p)]
                    : p \in {RoutePrefix(l) : l \in ToSet(old \o new)}}
        : i \in DOMAIN changes}

\* touchedRules: access lists and firewall rules, by name.
TouchedRules(changes) ==
    {<<changes[i].id[2], changes[i].type>> : i \in {j \in DOMAIN changes : Ordered(changes[j])}}

\* touchedObjects and categoryChanges.
TouchedObjects(changes, kind) ==
    {<<changes[i].id[2], changes[i].type>> : i \in {j \in DOMAIN changes : changes[j].kind = kind}}

-----------------------------------------------------------------------------
(* The rollback of a change.                                               *)

\* Statements a "no" in front of them safely removes (canSafelyNegateCiscoLine).
CanSafelyNegateCiscoLine(l) ==
    /\ Len(l) > 1
    /\ \/ l[1] \in {"access-list", "logging", "snmp-server", "ntp"}
       \/ StartsAny(l, {<<"ip", "route">>, <<"ipv6", "route">>, <<"ip", "http">>, <<"ip", "name-server">>})

Negations(lines) ==
    FlattenSeq([i \in DOMAIN lines |->
                    IF CanSafelyNegateCiscoLine(lines[i]) THEN <<<<"no">> \o lines[i]>> ELSE <<>>])

\* The set statements among the lines of a block.
IsSetStatement(l) == Len(l) > 1 /\ l[1] = "set"
SetStatements(lines) ==
    FlattenSeq([i \in DOMAIN lines |-> IF IsSetStatement(lines[i]) THEN <<lines[i]>> ELSE <<>>])

\* The candidate commands of the set-style dialects: the set statements that
\* were there before, or a delete for each one that was not.
Deleted(lines) == [i \in DOMAIN lines |-> <<"delete">> \o Tail(lines[i])]
SetStyleRollback(change) ==
    IF change.type # "added" THEN SetStatements(change.before) ELSE Deleted(SetStatements(change.after))

\* (mutation) The new lines of a changed block are negated.
CiscoRollbackNegates(change) ==
    IF change.type = "removed" THEN change.before ELSE Negations(change.after)

CiscoRollback(change) ==
    IF change.type # "added" THEN change.before ELSE Negations(change.after)

\* The section and the edit an added FortiOS block is deleted by.
FortinetRollback(change) ==
    LET section == FirstMatch(Reverse(change.after), LAMBDA l : Starts(l, <<"config">>) /\ Len(l) > 1)
        edit == FirstMatch(Reverse(change.after), LAMBDA l : Starts(l, <<"edit">>) /\ Len(l) > 1)
    IN  IF change.type # "added" THEN change.before
        ELSE IF section = NoLine \/ edit = NoLine THEN <<>>
        ELSE <<section, <<"delete">> \o Tail(edit), <<"end">>>>

\* rollbackCommands
RollbackCommands(change, parser) ==
    CASE parser \in {"cisco-ios", "edgeswitch"} -> CiscoRollback(change)
      [] parser \in {"junos", "edgeos", "panos"} -> SetStyleRollback(change)
      [] parser = "fortinet" -> FortinetRollback(change)
      [] OTHER -> <<>>

\* rollbackNeedsManualReview
NeedsManualReview(change, commands) ==
    \/ change.type = "added"
    \/ commands = <<>>
    \/ change.kind \in {"route", "acl", "firewall", "nat", "vpn", "aaa", "management"}

\* rollbackAnalysis.  high: some risk finding is high.
Rollback(changes, high, parser) ==
    [confidence |-> IF changes = <<>> THEN "clean"
                    ELSE IF high THEN "risky"
                    ELSE IF \E i \in DOMAIN changes : changes[i].type = "added" THEN "partial"
                    ELSE "clean",
     snippets |->
        [i \in DOMAIN changes |->
            [id |-> changes[i].id,
             exactReapply |-> IF changes[i].type = "added" THEN <<>> ELSE changes[i].before,
             commands |-> RollbackCommands(changes[i], parser),
             manual |-> NeedsManualReview(changes[i], RollbackCommands(changes[i], parser))]]]

=============================================================================
