------------------------------- MODULE NetGraph -------------------------------
(***************************************************************************)
(* src/internal/netgraph: the graph of what the changes of some devices    *)
(* touch, and what is within so many hops of a node.                       *)
(*                                                                         *)
(* A graph is [nodes, edges]; an edge is <<from, to, type>>.  The nodes of *)
(* a VLAN and of a next hop are global, so that two devices meet in them;  *)
(* the others carry their device's name.                                   *)
(***************************************************************************)
EXTENDS Naturals

DeviceNode(device) == <<"device", device>>
VlanNode(vlan) == <<"vlan", vlan>>
NextHopNode(hop) == <<"nexthop", hop>>
\* (mutation) Objects of one kind and name are one node.
ScopedByName(device, kind, name) == <<"object", kind, name>>
Scoped(device, kind, name) == <<"device", device, kind, name>>

\* Derive.  The touched objects are the sets ConfigDiff gives; every next hop
\* linked is the one the route has after the change.
Derive(device, analysis) ==
    LET self == DeviceNode(device)
        names(touched) == {t[1] : t \in touched}
        interfaces == {<<self, Scoped(device, "interface", n), "has_interface">> : n \in names(analysis.interfaces)}
        vlans == {<<self, VlanNode(v), "has_vlan">> : v \in names(analysis.vlans)}
        routes == {<<self, Scoped(device, "route", r.prefix), "has_route">> : r \in analysis.routes}
        hops == {<<Scoped(device, "route", r.prefix), NextHopNode(r.afterHop), "next_hop">> :
                   r \in {x \in analysis.routes : x.afterHop # <<>>}}
        rules == {<<self, Scoped(device, "rule", n), "has_rule">> : n \in names(analysis.rules)}
        edges == interfaces \cup vlans \cup routes \cup hops \cup rules
    IN  [nodes |-> {self} \cup {e[2] : e \in edges}, edges |-> edges]

Merge(g, h) == [nodes |-> g.nodes \cup h.nodes, edges |-> g.edges \cup h.edges]

Neighbours(g, nodes) ==
    {e[2] : e \in {x \in g.edges : x[1] \in nodes}} \cup {e[1] : e \in {x \in g.edges : x[2] \in nodes}}

\* What the walk has visited and its frontier before the round at each depth:
\* a round adds what the frontier reaches and was not visited.
Walk(g, start) ==
    LET walk[depth \in Nat] ==
            IF depth = 0 THEN [visited |-> {start}, frontier |-> {start}]
            ELSE LET last == walk[depth - 1]
                     new == Neighbours(g, last.frontier) \ last.visited
                 IN  [visited |-> last.visited \cup new, frontier |-> new]
    IN  walk

\* The depth at which the walk ends: nothing new was found, or maxDepth is
\* reached (0: there is no such limit).
EndDepth(walk, maxDepth) ==
    LET end[depth \in Nat] ==
            IF walk[depth].frontier # {} /\ (maxDepth = 0 \/ depth < maxDepth)
            THEN end[depth + 1] ELSE depth
    IN  end[0]

\* BlastRadius: breadth first from start, along edges in either direction.
BlastRadius(g, start, maxDepth) ==
    LET walk == Walk(g, start)
    IN  walk[EndDepth(walk, maxDepth)].visited \ {start}

=============================================================================
