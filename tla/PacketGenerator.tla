--------------------------- MODULE PacketGenerator ---------------------------
(* pkt_gen.py of the UVM packet generators (comp/uvm/packet_generators/search): *)
(* a packet is a walk through the graph of protocols, drawn at random or       *)
(* enumerated depth first. A weight is zero or not; the values of the header   *)
(* fields and the bytes written to the pcap file are not modelled.             *)
EXTENDS Integers, Sequences, FiniteSets, SequencesExt

CONSTANTS Configs,   \* configuration files: [weight, vlan, mpls]; weight maps a protocol
                     \* to the protocols it sets to a weight above zero and to zero
          Trill, IPv6Ext, \* initial counters of packet_config (1 and 4)
          MaxPackets \* bound: packets drawn at random

VARIABLES conf,    \* the file given with -c
          stack,   \* Parser_dfs: next_items
          written, \* packets of the depth first search; how many there were
          walk,    \* Parser_rand: the packet so far and its packet_config
          drawn,   \* the packet just drawn; how many were
          failed   \* random.choices has raised
vars == <<conf, stack, written, walk, drawn, failed>>

(* ------------------------------------------------- protocols and their weights -- *)
Default ==
    LET l2 == {"IPv4", "IPv6", "MPLS", "Empty"}  l4 == {"Payload", "Empty"}
        ip == l4 \cup {"ICMPv4", "UDP", "TCP", "SCTP"}
    IN  [ETH |-> l2 \cup {"VLAN", "TRILL", "PPP"}, VLAN |-> l2 \cup {"VLAN", "TRILL", "PPP"},
         TRILL |-> {"ETH"}, PPP |-> l2, MPLS |-> l2, IPv4 |-> ip,
         IPv6 |-> ip \cup {"ICMPv6", "IPv6Ext"}, IPv6Ext |-> ip \cup {"ICMPv6", "IPv6Ext"},
         UDP |-> l4, TCP |-> l4, SCTP |-> l4, ICMPv4 |-> {}, ICMPv6 |-> {}, Payload |-> {}, Empty |-> {}]
Leaf(p) == Default[p] = {}

Weighted(p) ==
    IF p \in DOMAIN conf.weight /\ ~Leaf(p) /\ p # "TRILL"
    THEN (Default[p] \cup conf.weight[p].on) \ conf.weight[p].off ELSE Default[p]

\* packet_config of a new packet
packet_config == [trill |-> Trill, vlan |-> conf.vlan, mpls |-> conf.mpls, ipv6ext |-> IPv6Ext]
Less(n) == IF n = 0 THEN 0 ELSE n - 1

\* protocol_next: the counter of the protocol goes down; at zero it may not follow
\* itself, and after the last MPLS an IP protocol may always follow.
protocol_next(p, c) ==
    LET d == CASE p = "TRILL" -> [c EXCEPT !.trill = Less(@)]
               [] p = "VLAN" -> [c EXCEPT !.vlan = Less(@)]
               [] p = "MPLS" -> [c EXCEPT !.mpls = Less(@)]
               [] p = "IPv6Ext" -> [c EXCEPT !.ipv6ext = Less(@)]
               [] OTHER -> c
        spent == {q \in {"TRILL"} : p \in {"ETH", "VLAN"} /\ d.trill = 0}
                 \cup {q \in {"VLAN"} : p = q /\ d.vlan = 0}
                 \cup {q \in {"MPLS"} : p = q /\ d.mpls = 0}
                 \cup {q \in {"IPv6Ext"} : p = q /\ d.ipv6ext = 0}
    IN  [cfg |-> d,
         next |-> (Weighted(p) \ spent) \cup {q \in {"IPv4", "IPv6"} : p = "MPLS" /\ d.mpls = 0}]

\* protocol_add: the empty protocol adds no layer.
Layers(protocols) == SelectSeq(protocols, LAMBDA p : p # "Empty")

(* ----------------------------------------------------------------- depth first -- *)
\* The children come in the order of a dictionary, here of one for all protocols.
Order == <<"IPv4", "IPv6", "VLAN", "TRILL", "MPLS", "ETH", "Payload", "Empty", "PPP",
           "ICMPv4", "ICMPv6", "UDP", "TCP", "SCTP", "IPv6Ext">>
dfs_item(p, c) ==
    LET n == protocol_next(p, c)
    IN  [protocol |-> p, cfg |-> n.cfg, next |-> SelectSeq(Order, LAMBDA q : q \in n.next),
        index |-> 0]

\* A packet at an item without children.
DfsWrite ==
    /\ stack # <<>> /\ Last(stack).next = <<>>
    /\ written' = [packets |-> written.packets \cup {Layers([k \in DOMAIN stack |-> stack[k].protocol])},
                   count |-> written.count + 1]
    /\ stack' = Front(stack)
    /\ UNCHANGED <<conf, walk, drawn, failed>>

\* The next child, or back when there is none.
DfsNext ==
    /\ stack # <<>> /\ Last(stack).next # <<>>
    /\ LET item == Last(stack) IN
       stack' = IF item.index = Len(item.next) THEN Front(stack)
                ELSE Append([stack EXCEPT ![Len(stack)].index = @ + 1],
                            dfs_item(item.next[item.index + 1], item.cfg))
    /\ UNCHANGED <<conf, written, walk, drawn, failed>>

(* --------------------------------------------------------------------- at random -- *)
Start == [protocols |-> <<"ETH">>, cfg |-> packet_config]

\* A second call of the tool, with the same file: every packet has counters of its own.
RandNext ==
    /\ stack = <<>> /\ ~failed /\ drawn.count < MaxPackets
    /\ LET p == Last(walk.protocols)  n == protocol_next(p, walk.cfg)
       IN  IF Leaf(p)
           THEN /\ drawn' = [packet |-> Layers(walk.protocols), count |-> drawn.count + 1]
                /\ walk' = Start
                /\ UNCHANGED failed
           ELSE IF n.next = {}  \* the weights add up to zero
           THEN failed' = TRUE /\ UNCHANGED <<walk, drawn>>
           ELSE /\ \E q \in n.next :
                       walk' = [protocols |-> Append(walk.protocols, q), cfg |-> n.cfg]
                /\ drawn' = [drawn EXCEPT !.packet = <<>>]
                /\ UNCHANGED failed
    /\ UNCHANGED <<conf, stack, written>>

(* -------------------------------------------------------------- specification -- *)
Init ==
    /\ conf \in Configs
    /\ stack = <<dfs_item("ETH", packet_config)>>
    /\ written = [packets |-> {}, count |-> 0]
    /\ walk = Start
    /\ drawn = [packet |-> <<>>, count |-> 0]
    /\ failed = FALSE

Next == DfsWrite \/ DfsNext \/ RandNext

Spec == Init /\ [][Next]_vars

(* ----------------------------------------------------------------- properties -- *)
TypeOK ==
    /\ conf \in Configs
    /\ \A k \in DOMAIN stack : stack[k].index \in 0 .. Len(stack[k].next)
    /\ drawn.count \in 0 .. MaxPackets

Stacked(packet, p, n) ==
    \E i \in 1 .. Len(packet) - n + 1 : \A j \in i .. i + n - 1 : packet[j] = p
Most(n) == IF n = 0 THEN 1 ELSE n

\* The depth first search writes every packet that can be drawn at random, and none
\* twice; no packet stacks more tags, labels or headers than the file allows (one
\* where it allows none); a draw fails only where the file leaves a protocol with
\* no successor but itself, which cannot be MPLS.
PacketsGenerated ==
    /\ Cardinality(written.packets) = written.count
    /\ drawn.packet # <<>> => drawn.packet \in written.packets
    /\ ~Stacked(drawn.packet, "VLAN", Most(conf.vlan) + 1)
    /\ ~Stacked(drawn.packet, "MPLS", Most(conf.mpls) + 1)
    /\ ~Stacked(drawn.packet, "IPv6Ext", Most(IPv6Ext) + 1)
    /\ failed => Last(walk.protocols) # "MPLS"
=============================================================================
