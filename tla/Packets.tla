------------------------------- MODULE Packets --------------------------------
(***************************************************************************)
(* Packets between the switch and the controller: packet_in.rs,            *)
(* packet_out.rs and ndp.rs of rovs-openflow, and the handlers of          *)
(* rovs-ext/src/controller that answer ARP and neighbour solicitations.    *)
(***************************************************************************)
EXTENDS FlowMods

-----------------------------------------------------------------------------
(* Packet-in and packet-out.                                               *)

PacketInLayout == << <<"buffer_id", 4>>, <<"total_len", 2>>, <<"reason", 1>>,
                     <<"table_id", 1>>, <<"cookie", 8>>, <<"type", 2>>, <<"match_len", 2>> >>

(* PacketIn::parse: the match, its padding, two bytes, the packet.         *)
ParsePacketIn(body) ==
    LET p == Unpack(PacketInLayout, body)
        tlvs == Max({p.match_len - 4, 0})
        padding == Pad8(p.match_len)
    IN  IF \/ Len(body) < 20 \/ p.reason \notin 0..5 \/ p.type # 1
           \/ Len(body) - 20 < tlvs + padding + 2
        THEN [ok |-> FALSE]
        ELSE [ok |-> TRUE, data |-> Rest(body, 20 + tlvs + padding + 2),
              match |-> DecodeOxm(Slice(body, 20, 20 + tlvs))] @@ p

(* PacketIn::in_port: 0 when the match has none.                           *)
InPort(p) == IF "in_port" \in DOMAIN p.match THEN p.match.in_port ELSE 0

(* PacketOut; the data goes along only when there is no buffer.            *)
NewPacketOut == [buffer_id |-> None, in_port |-> Port.CONTROLLER, actions |-> <<>>, data |-> <<>>]
PacketOutLayout == << <<"buffer_id", 4>>, <<"in_port", 4>>, <<"actions_len", 2>>, <<"", 6>> >>

PacketOutBytes(p) ==
    LET as == ActionListBytes(p.actions) IN
    Pack(PacketOutLayout, [actions_len |-> Len(as)] @@ p) \o as
    \o (IF p.buffer_id = None THEN p.data ELSE <<>>)

-----------------------------------------------------------------------------
(* Frames.                                                                 *)

IP6   == 34525     \* 0x86dd
ARP   == 2054      \* 0x0806
ICMP6 == 58

EthernetLayout == << <<"dst", 6, "octets">>, <<"src", 6, "octets">>, <<"type", 2>> >>
Ip6Layout == << <<"version", 1>>, <<"", 3>>, <<"payload_len", 2>>, <<"next_header", 1>>,
                <<"hop_limit", 1>>, <<"src", 16, "octets">>, <<"dst", 16, "octets">> >>

(* ParsedEthernet::parse, EthernetFrame::parse.                            *)
Ethernet(data) ==
    IF Len(data) < 14 THEN [ok |-> FALSE] ELSE [ok |-> TRUE] @@ Unpack(EthernetLayout, data)

(* Ipv6Header::parse; traffic class and flow label are left out.           *)
Ip6(data) ==
    LET h == Unpack(Ip6Layout, data) IN
    IF Len(data) < 40 \/ h.version \div 16 # 6 THEN [ok |-> FALSE] ELSE [ok |-> TRUE] @@ h

Unspecified == Zeros(16)
AllNodes == <<255, 2>> \o Zeros(13) \o <<1>>     \* ff02::1

(* The options of a solicitation, in units of 8 bytes.                     *)
OptionSize(data, o) ==
    IF Len(data) - o < 2 \/ o + 8 * data[o + 2] > Len(data) THEN 0 ELSE 8 * data[o + 2]

(* NeighborSolicitation::parse; the last source address option counts.     *)
Solicitation(data) ==
    LET sources == SelectSeq(Items(Rest(data, 24), OptionSize), LAMBDA o : o[1] = 1) IN
    IF Len(data) < 24 \/ data[1] # 135 THEN [ok |-> FALSE]
    ELSE [ok |-> TRUE, target |-> Slice(data, 8, 24),
          source |-> IF sources = <<>> THEN <<>> ELSE Slice(Last(sources), 2, 8)]

(* NeighborAdvertisement::encode_icmpv6, its checksum still zero.          *)
Advertisement(target, mac, solicited) ==
    <<136, 0, 0, 0>> \o <<FromBits({5} \union (IF solicited THEN {6} ELSE {})), 0, 0, 0>>
    \o target \o <<2, 1>> \o mac

(* Fault: the checksum leaves the pseudo header out.                       *)
ChecksumPlain(src, dst, data) ==
    LET words == [i \in 1..Len(data) \div 2 |-> At(data, 2 * i - 2, 2)]
        sum == FoldLeft(+, 0, words)
        carried == (sum % 65536) + (sum \div 65536)
    IN  65535 - ((carried % 65536) + (carried \div 65536))

(* icmpv6_checksum; an odd last byte is the high byte of a word.           *)
Checksum(src, dst, data) ==
    LET text == src \o dst \o data \o Zeros(Len(data) % 2)
        words == [i \in 1..Len(text) \div 2 |-> At(text, 2 * i - 2, 2)]
        sum == FoldLeft(+, Len(data) + ICMP6, words)
        carried == (sum % 65536) + (sum \div 65536)
    IN  65535 - ((carried % 65536) + (carried \div 65536))

(* build_na_reply: who asks without an address is told through all nodes.  *)
NaReply(eth, ip, ns, mac, addr) ==
    LET anonymous == ip.src = Unspecified
        dst == IF anonymous THEN AllNodes ELSE ip.src
        na == Advertisement(addr, mac, ~anonymous)
        sum == BE(Checksum(addr, dst, na), 2)
    IN  Pack(EthernetLayout, [dst |-> IF ns.source = <<>> THEN eth.src ELSE ns.source,
                              src |-> mac, type |-> IP6])
        \o Pack(Ip6Layout, [version |-> 96, payload_len |-> Len(na), next_header |-> ICMP6,
                            hop_limit |-> 255, src |-> addr, dst |-> dst])
        \o [i \in DOMAIN na |-> IF i \in {3, 4} THEN sum[i - 2] ELSE na[i]]

(* parse_neighbor_solicitation.                                            *)
AsksNeighbour(data) ==
    /\ Ethernet(data).ok /\ Ethernet(data).type = IP6
    /\ Ip6(Rest(data, 14)).ok /\ Ip6(Rest(data, 14)).next_header = ICMP6
    /\ Solicitation(Rest(data, 54)).ok

ArpLayout == << <<"htype", 2>>, <<"ptype", 2>>, <<"hlen", 1>>, <<"plen", 1>>, <<"oper", 2>>,
    <<"sha", 6, "octets">>, <<"spa", 4, "octets">>, <<"tha", 6, "octets">>, <<"tpa", 4, "octets">> >>

(* ArpPacket::parse and is_request.                                        *)
AsksArp(data) ==
    LET a == Unpack(ArpLayout, Rest(data, 14)) IN
    /\ Len(data) >= 42
    /\ <<a.htype, a.ptype, a.hlen, a.plen>> = <<1, 2048, 6, 4>>
    /\ a.oper = 1

(* ArpPacket::build_reply behind the Ethernet header of build_reply_packet.*)
ArpReply(data, mac) ==
    LET a == Unpack(ArpLayout, Rest(data, 14)) IN
    Pack(EthernetLayout, [dst |-> Ethernet(data).src, src |-> mac, type |-> ARP])
    \o Pack(ArpLayout, [htype |-> 1, ptype |-> 2048, hlen |-> 6, plen |-> 4, oper |-> 2,
                        sha |-> mac, spa |-> a.tpa, tha |-> a.sha, tpa |-> a.spa])

-----------------------------------------------------------------------------
(* The handlers; a proxy is its entries, a function from addresses to MACs.*)

NotHandled == [type |-> "NotHandled"]
Answer(port, frame) ==
    [type |-> "SendPacketOut",
     out |-> [NewPacketOut EXCEPT !.in_port = port, !.actions = ActionsOf(<< <<"IN_PORT">> >>),
                                  !.data = frame]]

ArpProxyHandler(entries, port, data) ==
    LET tpa == Unpack(ArpLayout, Rest(data, 14)).tpa IN
    IF ~AsksArp(data) THEN NotHandled
    ELSE IF tpa \notin DOMAIN entries THEN NotHandled
    ELSE Answer(port, ArpReply(data, entries[tpa]))

NdpProxyHandler(entries, port, data) ==
    LET ns == Solicitation(Rest(data, 54)) IN
    IF ~AsksNeighbour(data) THEN NotHandled
    ELSE IF ns.target \notin DOMAIN entries THEN NotHandled
    ELSE Answer(port, NaReply(Ethernet(data), Ip6(Rest(data, 14)), ns,
                              entries[ns.target], ns.target))

(* PacketInEvent, is_arp and is_ipv6: nothing without an Ethernet header.  *)
CanHandle(proxy, data) ==
    Ethernet(data).ok /\ Ethernet(data).type = (IF proxy = "arp" THEN ARP ELSE IP6)

Handle(proxy, entries, port, data) ==
    IF proxy = "arp" THEN ArpProxyHandler(entries, port, data)
    ELSE NdpProxyHandler(entries, port, data)

(* Dispatcher::dispatch: the first handler, in order of registration, that *)
(* can handle the event and does not return NotHandled.                    *)
FirstHandled(outcomes) ==
    LET handled == {i \in DOMAIN outcomes : outcomes[i] # NotHandled} IN
    IF handled = {} THEN NotHandled ELSE outcomes[Min(handled)]

Dispatch(proxies, entries, port, data) ==
    FirstHandled(Each(LAMBDA p : IF CanHandle(p, data) THEN Handle(p, entries, port, data)
                                 ELSE NotHandled, proxies))
===============================================================================
