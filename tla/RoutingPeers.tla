---------------------------- MODULE RoutingPeers ----------------------------
(***************************************************************************)
(* src/pkg/configdiff/routing_peers.go: the BGP and OSPF neighbours a      *)
(* change adds, removes or gives another AS or area.                       *)
(*                                                                         *)
(* A fact is [proto, peer, local, remote, area, summary], "" standing for  *)
(* what the lines do not say.                                              *)
(***************************************************************************)
EXTENDS ConfigDiff

PeerKeywords == {"remote-as", "description", "update-source", "route-map", "prefix-list",
                 "next-hop-self", "activate", "soft-reconfiguration", "priority", "poll-interval"}

BgpAttributes == {"description", "update-source", "remote-as", "route-map", "password", "timers",
                  "ebgp-multihop", "next-hop-self", "send-community", "soft-reconfiguration",
                  "activate", "peer-group", "local-as", "shutdown"}

\* looksPeerAddress: an address, or a word that is no number and no keyword.
LooksPeerAddress(w) == w \in Addresses \/ w \notin Numerals \cup PeerKeywords

NeighborLine(l) == Len(l) >= 2 /\ l[1] = "neighbor" /\ LooksPeerAddress(l[2])

\* The neighbour named anywhere in a set-style line, "" when there is none.
NeighborIn(l) ==
    LET w == TokenAfter(l, "neighbor") IN IF w # "" /\ LooksPeerAddress(w) THEN w ELSE ""

\* routingPeerLine and isRoutingPeerSource: which changes are read for peers.
RoutingPeerLine(l) ==
    \/ NeighborLine(l)
    \/ /\ HasAny(l, {<<"protocols", "bgp">>, <<"protocols", "ospf">>})
       /\ \E i \in 2 .. Len(l) - 1 : l[i] = "neighbor"

IsRoutingPeerSource(c) ==
    \/ c.kind = "routing"
    \/ HasWord(c.header \o c.id[2], {"bgp", "ospf"})
    \/ AnyLine(AllLines(c), RoutingPeerLine)

\* routingProtocolHint
ProtocolHint(header, lines) ==
    LET says(words) == HasWord(header, words) \/ AnyLine(lines, LAMBDA l : HasWord(l, words))
        bgp == says({"bgp", "remote-as"})
        ospf == says({"ospf"})
    IN  CASE bgp /\ ~ospf -> "bgp" [] ospf /\ ~bgp -> "ospf" [] OTHER -> ""

\* localASFromHeaderOrLines and ospfAreaFromLines: the first that names one.
AsIn(l) == {l[i + 1] : i \in {j \in 1 .. Len(l) - 1 : l[j] = "bgp" /\ l[j + 1] \in Numerals}}
LocalAS(header, lines) ==
    LET l == FirstMatch(<<header>> \o lines, LAMBDA x : AsIn(x) # {})
    IN  IF l = NoLine THEN "" ELSE CHOOSE as \in AsIn(l) : TRUE
OspfArea(lines) ==
    LET l == FirstMatch(lines, LAMBDA x : TokenAfter(x, "area") # "")
    IN  IF l = NoLine THEN "" ELSE TokenAfter(l, "area")

BgpFact(peer, local, remote) ==
    [proto |-> "bgp", peer |-> peer, local |-> local, remote |-> remote, area |-> "",
     summary |-> <<local, remote>>]
OspfFact(peer, area) ==
    [proto |-> "ospf", peer |-> peer, local |-> "", remote |-> "", area |-> area,
     summary |-> <<peer, area>>]

\* parseBGPNeighborLine: a neighbour is a peer only where its remote AS is.
ParseBGP(l, localAS) ==
    IF NeighborLine(l) /\ Len(l) >= 4 /\ l[3] = "remote-as" THEN <<BgpFact(l[2], localAS, l[4])>>
    ELSE IF TokenAfter(l, "bgp") # "" /\ NeighborIn(l) # "" /\ TokenAfter(l, "remote-as") # ""
    THEN <<BgpFact(NeighborIn(l),
                   IF TokenAfter(l, "bgp") \in Numerals THEN TokenAfter(l, "bgp") ELSE localAS,
                   TokenAfter(l, "remote-as"))>>
    ELSE <<>>

\* parseOSPFNeighborLine: BGP attributes of a neighbour are not OSPF.
ParseOSPF(l, area) ==
    IF NeighborLine(l)
    THEN IF HasWord(l, {"remote-as"}) \/ (Len(l) >= 3 /\ l[3] \in BgpAttributes) THEN <<>>
         ELSE <<OspfFact(l[2], area)>>
    ELSE IF HasWord(l, {"ospf"}) /\ NeighborIn(l) # ""
    THEN <<OspfFact(NeighborIn(l), IF TokenAfter(l, "area") # "" THEN TokenAfter(l, "area") ELSE area)>>
    ELSE <<>>

\* mergePeerFact: what is known first stays, only the summary is replaced.
MergePeer(facts, f) ==
    LET i == SelectInSeq(facts, LAMBDA x : x.proto = f.proto /\ x.peer = f.peer)
        keep(old, new) == IF old = "" THEN new ELSE old
    IN  IF i = 0 THEN Append(facts, f)
        ELSE [facts EXCEPT ![i].local = keep(@, f.local), ![i].remote = keep(@, f.remote),
                           ![i].area = keep(@, f.area), ![i].summary = f.summary]

MergePeers(facts) == FoldLeft(MergePeer, <<>>, FlattenSeq(facts))

\* What a line says of a neighbour: without a hint, of BGP first.
PeerOf(hint, bgp, ospf) == IF hint = "bgp" \/ (hint = "" /\ bgp # <<>>) THEN bgp ELSE ospf

\* parseRoutingPeersFromLines
PeersInBlock(lines, hint, localAS, area) ==
    MergePeers([i \in DOMAIN lines |-> PeerOf(hint, ParseBGP(lines[i], localAS), ParseOSPF(lines[i], area))])
PeersFromLines(lines, header) ==
    PeersInBlock(lines, ProtocolHint(header, lines), LocalAS(header, lines), OspfArea(lines))

\* (mutation) The local AS is not compared.
PeerRemoteChanged(b, a) == IF b.proto = "bgp" THEN b.remote # a.remote ELSE b.area # a.area

\* peerCoreChanged: the remote AS, both local ASes known and different, or the area.
PeerCoreChanged(b, a) ==
    IF b.proto = "bgp"
    THEN b.remote # a.remote \/ (b.local # "" /\ a.local # "" /\ b.local # a.local)
    ELSE b.area # a.area

\* Two tables of facts compared: [proto, peer, type, before, after] with the
\* summaries.
ComparePeers(old, new) ==
    LET same(b, a) == b.proto = a.proto /\ b.peer = a.peer
        Touched(f, type, before, after) ==
            [proto |-> f.proto, peer |-> f.peer, type |-> type, before |-> before, after |-> after]
    IN  {Touched(a, "added", <<>>, a.summary) : a \in {x \in new : \A b \in old : ~same(b, x)}}
        \cup {Touched(b, "removed", b.summary, <<>>) : b \in {x \in old : \A a \in new : ~same(x, a)}}
        \cup {Touched(p[2], "changed", p[1].summary, p[2].summary) :
                p \in {q \in old \X new : same(q[1], q[2]) /\ PeerCoreChanged(q[1], q[2])}}

\* routingPeerChanges
RoutingPeerChanges(changes) ==
    LET sources == SelectSeq(changes, IsRoutingPeerSource)
        peers(side) == ToSet(MergePeers([i \in DOMAIN sources |->
                                           PeersFromLines(sources[i][side], sources[i].header)]))
    IN  ComparePeers(peers("before"), peers("after"))

=============================================================================
