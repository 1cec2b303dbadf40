---------------------------- MODULE DesiredState ----------------------------
(***************************************************************************)
(* src/pkg/configdiff/policy.go: a desired-state policy evaluated on the   *)
(* current, the predecessor and the baseline snapshot, and the two         *)
(* comparisons with the current one.                                       *)
(*                                                                         *)
(* A requirement is <<category, expectation, value>> and a policy a set of *)
(* them; a value is a VLAN id as vlanIDs gives it, a prefix, a service, a  *)
(* whole line, or a part of a firewall line.                               *)
(***************************************************************************)
EXTENDS ConfigParser

\* A fact is <<category, value, evidence line>>.
Facts(category, values, l) == {<<category, v, l>> : v \in values}

\* The facts of one line of a block (extractPolicyFacts); removals state none.
LineFacts(kind, l) ==
    IF IsNegatedCommand(l) THEN {} ELSE
      Facts("vlan", VlanIDs(l) \cup (IF Starts(l, <<"vlan">>) /\ Len(l) > 1 THEN {VlanWord(l[2])} ELSE {}), l)
      \cup Facts("route", IF IsRouteLine(l) THEN {RoutePrefix(l)} ELSE {}, l)
      \cup Facts("management_service", ManagementServices(l), l)
      \cup Facts("aaa", IF IsAAAAuthLine(l) THEN {l} ELSE {}, l)
      \cup Facts("firewall_property",
                 IF kind \in {"acl", "firewall"} /\ ~(Starts(l, <<"ip", "access-list">>) /\ Len(l) > 2)
                 THEN {l} ELSE {}, l)

\* extractPolicyFacts
Inventory(blocks) ==
    UNION {UNION {LineFacts(blocks[i].kind, l) : l \in ToSet(blocks[i].lines)} : i \in DOMAIN blocks}

\* policyFactEvidence: the lines that state a fact.  The text of a firewall
\* requirement is looked for inside the lines.
Evidence(facts, category, value) ==
    {f[3] : f \in {g \in facts : /\ g[1] = category
                                 /\ IF category = "firewall_property" THEN HasRun(g[2], value)
                                    ELSE g[2] = value}}

\* evaluatePolicySnapshot: a finding [identity, evidence] for each requirement
\* that is not met.  The identity (policyFindingIdentity) is the requirement
\* and the status.
EvaluateFacts(policy, facts) ==
    LET evidence(r) == Evidence(facts, r[1], r[3])
        broken(r) == (r[2] = "required") = (evidence(r) = {})
        status(r) == IF r[2] = "required" THEN "missing" ELSE "present"
    IN  {[identity |-> Append(r, status(r)), evidence |-> evidence(r)] : r \in {q \in policy : broken(q)}}
EvaluateSnapshot(policy, parser, text) == EvaluateFacts(policy, Inventory(Parse(parser, text)))

Identities(findings) == {f.identity : f \in findings}

\* (mutation) Findings are matched by category and expectation.
ComparePolicyCoarse(current, reference) ==
    LET kinds(findings) == {SubSeq(f.identity, 1, 2) : f \in findings}
    IN  [introduced |-> {f \in current : SubSeq(f.identity, 1, 2) \notin kinds(reference)},
         resolved |-> {f \in reference : SubSeq(f.identity, 1, 2) \notin kinds(current)}]

\* comparePolicyFindings: by identity, so that a finding whose evidence alone
\* changed is neither introduced nor resolved.
ComparePolicy(current, reference) ==
    [introduced |-> {f \in current : f.identity \notin Identities(reference)},
     resolved |-> {f \in reference : f.identity \notin Identities(current)}]

\* EvaluatePolicy: one parser, chosen from all three texts, reads them all.
Evaluation(current, predecessor, baseline) ==
    [current |-> current, predecessor |-> predecessor, baseline |-> baseline,
     fromPredecessor |-> ComparePolicy(current, predecessor),
     fromBaseline |-> ComparePolicy(current, baseline)]
EvaluateTexts(policy, parser, current, predecessor, baseline) ==
    Evaluation(EvaluateSnapshot(policy, parser, current), EvaluateSnapshot(policy, parser, predecessor),
               EvaluateSnapshot(policy, parser, baseline))
EvaluatePolicy(policy, current, predecessor, baseline, vendor) ==
    EvaluateTexts(policy, SelectParser(vendor, current \o predecessor \o baseline),
                  current, predecessor, baseline)

=============================================================================
