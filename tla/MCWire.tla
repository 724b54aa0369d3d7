------------------------------- MODULE MCWire -------------------------------
(* Instances of Wire for TLC: flows that use every builder and action, what *)
(* other controllers install, and the frames hosts send.                    *)
EXTENDS Wire

Mac(n) == <<2, 0, 0, 0, 0, n>>
Ip(n)  == <<10, 0, 0, n>>
Ip6Addr(n) == <<254, 128>> \o Zeros(13) \o <<n>>
Net6   == <<32, 1, 13, 184>> \o Zeros(12)

Flow(match, actions) ==
    [NewFlow("add") EXCEPT !.match = Built(match), !.actions = ActionsOf(actions),
                           !.priority = 100, !.table_id = 1, !.cookie = 66051]

Matches == <<
    << >>,
    << <<"in_port", 3>>, <<"eth_src", Mac(1)>>, <<"eth_dst", Mac(2)>>, <<"vlan_vid", 100>> >>,
    << <<"eth_type", 2048>>, <<"ip_proto", 6>>, <<"tcp_src", 80>>, <<"tcp_dst", 1023>> >>,
    << <<"ipv4_src", Ip(0), 24>>, <<"ipv4_dst", Ip(9), 32>>, <<"udp_src", 53>>, <<"udp_dst", 67>> >>,
    << <<"ipv4_src", <<10, 1, 128, 0>>, 17>> >>,
    << <<"ipv6_src", Net6, 32>>, <<"ipv6_dst", Ip6Addr(1), 128>>, <<"tcp_dst", 443>> >>,
    << <<"icmp_type", 8>>, <<"icmp_code", 0>> >>,
    << <<"icmpv6_type", 135>>, <<"icmpv6_code", 0>> >>,
    << <<"arp_op", 1>>, <<"arp_spa", Ip(1)>>, <<"arp_tpa", Ip(2)>>, <<"arp_sha", Mac(1)>>,
       <<"arp_tha", Mac(2)>> >>,
    << <<"tunnel_id", 5000>>, <<"ct_state", 33>>, <<"ct_zone", 7>>, <<"ct_mark", 9>> >>,
    << <<"ct_state_masked", 32, 48>>, <<"ct_mark_masked", 1, 255>>, <<"eth_type", 2048>> >>,
    << <<"ct_state_masked", 1, -1>> >> >>

(* Refused: the port without an Ethernet type, the address with host bits. *)
Unfinished == <<
    << <<"tcp_dst", 80>> >>, << <<"ip_proto", 17>> >>, << <<"ipv4_src", Ip(9), 24>> >>,
    << <<"ipv6_dst", Ip6Addr(1), 64>> >> >>

LearnAction == Learned(<< <<"idle_timeout", 60>>, <<"priority", 5>>, <<"table_id", 2>>, <<"cookie", 7>>,
    <<"match_field", Nxm.ETH_SRC, Nxm.ETH_DST, 48>>, <<"match_immediate", <<8, 0>>, Nxm.VLAN_TCI, 12>>,
    <<"load_field", Nxm.IN_PORT, Nxm.REG0, 16>>, <<"load_immediate", <<5>>, Nxm.REG0, 32>>,
    <<"output_field", Nxm.IN_PORT, 16>> >>)
LearnOneBit == Learned(<< <<"hard_timeout", 9>>, <<"match_immediate", <<1>>, Nxm.REG0, 1>>,
    <<"match_field", Nxm.REG0, Nxm.REG0, 1>>, <<"output_field", Nxm.IN_PORT, 16>> >>)

Nats == << NatPortRange(SnatRange(Ip(1), Ip(9)), 1024, 2048), Hash(Persistent(Snat(Ip(1)))),
           Random(Hash(DnatV6Range(Ip6Addr(1), Ip6Addr(9)))), NatPort(Dnat(Ip(2)), 8080) >>

ActionLists == <<
    << <<"output", 7>>, <<"FLOOD">>, <<"ALL">>, <<"NORMAL">>, <<"IN_PORT">>, <<"controller", 128>>,
       <<"output", Port.CONTROLLER>>, <<"group", 4>> >>,
    << <<"drop">> >>,
    << <<"push_vlan", 33024>>, <<"set_vlan_vid", 100>>, <<"pop_vlan">>, <<"dec_ttl">>, <<"set_ttl", 64>> >>,
    << <<"set_eth_src", Mac(1)>>, <<"set_eth_dst", Mac(2)>>, <<"set_ipv4_src", Ip(1)>>,
       <<"set_ipv4_dst", Ip(2)>>, <<"set_tp_src", 80>>, <<"set_tp_dst", 443>>, <<"set_tunnel_id", 99>> >>,
    << <<"goto_table", 2>>, <<"output", 1>> >>,
    << <<"load_field", Nxm.REG0, 4, 8, 17>>, <<"move_field", Nxm.ARP_SPA, Nxm.ARP_TPA, 32, 0, 0>>,
       <<"set_arp_op", 2>>, <<"resubmit", 3, 5>>, <<"resubmit_table", 6>> >>,
    << <<"ct", 1, 9, 4>>, <<"ct_commit", 3>>, <<"ct_snat", 1, 2, Ip(1)>>, <<"ct_dnat", 1, 2, Ip(2)>>,
       <<"ct_nat", 1, 5, None, Nats[1]>>, <<"output", 2>> >>,
    << <<"ct_nat", 0, 5, 8, Nats[2]>>, <<"ct_nat", 1, 5, 8, Nats[3]>>, <<"ct_nat", 1, 5, 8, Nats[4]>> >>,
    << <<"learn", LearnAction>>, <<"learn", LearnOneBit>>, <<"output", 3>> >> >>

Instructed ==
    [Flow(Matches[2], <<>>) EXCEPT
        !.instructions = << Instr("apply_actions", ActionsOf(<< <<"set_eth_src", Mac(3)>>, <<"output", 1>> >>)),
                            [type |-> "clear_actions"], Instr("write_actions", ActionsOf(<< <<"group", 9>> >>)),
                            [type |-> "write_metadata", value |-> 17, mask |-> 255],
                            Instr("meter", 3), Instr("goto_table", 4) >>,
        !.idle_timeout = 30, !.hard_timeout = 600,
        !.flags = {"send_flow_rem", "check_overlap", "no_byte_counts"}]

Flows_ == {Flow(Matches[i], << <<"output", i>> >>) : i \in DOMAIN Matches}
          \union {Flow(Unfinished[i], << <<"output", i>> >>) : i \in DOMAIN Unfinished}
          \union {Flow(<<>>, ActionLists[i]) : i \in DOMAIN ActionLists} \union {Instructed}

First  == Flow(Matches[2], << <<"output", 1>> >>)
Second == Flow(Matches[4], << <<"output", 2>> >>)
Again  == [Second EXCEPT !.actions = ActionsOf(<< <<"output", 9>> >>)]

(* Other controllers: flows written field by field, among them fields that *)
(* Match does not know, and actions that Action does not know.             *)
ValueOf(kind) ==
    CASE kind = "mac" -> Mac(9) [] kind = "ip4" -> Ip(9) [] kind = "u128" -> Ip6Addr(9)
      [] kind = "u8" -> 5 [] OTHER -> 77
Prefixed(row) ==
    LET eth(v) == << <<Basic, <<"eth_type", 5, "u16">>, v>> >>
        proto(v) == << <<Basic, <<"ip_proto", 10, "u8">>, v>> >>
        n == row[2]
    IN  CASE n \in 8..12 -> eth(2048)
          [] n \in 13..14 -> eth(2048) \o proto(6) [] n \in 15..16 -> eth(2048) \o proto(17)
          [] n \in 17..18 -> eth(2048) \o proto(132) [] n \in 19..20 -> eth(2048) \o proto(1)
          [] n \in 21..25 -> eth(2054)
          [] n = 7 -> << <<Basic, <<"vlan_vid", 6, "u16">>, 4196>> >> [] OTHER -> <<>>

SeenField(f) ==
    LET rows == {r \in FieldsOf(f[1]) : r[2] = f[2][2]}
        row == CHOOSE r \in rows : TRUE
    IN  IF rows = {} THEN AnyMatch
        ELSE IF row[4] = "prefix" THEN (row[1] :> f[3]) @@ (MaskName(row[1]) :> 8 * Len(f[3]))
        ELSE row[1] :> f[3]

OtherFlow(fields, instructions, seen) ==
    LET tlvs == Concat(MatchField, fields)
        f == [NewFlow("add") EXCEPT !.priority = 7, !.instructions = seen,
                 !.match = FoldLeft(LAMBDA m, x : SeenField(x) @@ m, AnyMatch, fields)]
    IN  [flow |-> f, bytes |-> EncodeFixed(f) \o Padded(BE(1, 2) \o BE(4 + Len(tlvs), 2) \o tlvs)
                               \o instructions]

OtherFlows ==
    {OtherFlow(Prefixed(r) \o << <<Basic, r, ValueOf(r[3])>> >>, <<>>, <<>>) : r \in OxmMatchField}
    \union {OtherFlow(<< <<Nxm1, r, ValueOf(r[3])>>, <<Nxm1, <<"ct_zone", 106, "u16">>, 3>> >>, <<>>, <<>>)
              : r \in NxmMatchField \ {<<"ct_zone", 106, "u16">>}}
MaskedFlow ==
    LET tlvs == EncodeField([eth_type |-> 2048], Basic, <<"eth_type", 5, "u16", "none">>)
                \o EncodeIpv4Prefix(<<"ipv4_src", 11, "ip4">>, <<10, 1, 255, 7>>, 20)
                \o MatchField(<<Basic, <<"metadata", 2, "u64">>, 3, 15>>)
        f == [NewFlow("add") EXCEPT !.match =
                 [eth_type |-> 2048, ipv4_src |-> <<10, 1, 240, 0>>, ipv4_src_mask |-> 20,
                  metadata |-> 3, metadata_mask |-> 15],
              !.instructions = <<Instr("apply_actions", ActionsOf(<< <<"output", 4>> >>))>>]
    IN  [flow |-> f, bytes |-> EncodeFixed(f) \o Padded(BE(1, 2) \o BE(4 + Len(tlvs), 2) \o tlvs)
             \o Framed(4, Zeros(4) \o Framed(19, Zeros(4)) \o ActionBytes(OutputTo(4)))]

-----------------------------------------------------------------------------
ProxyEntries == (Ip(1) :> Mac(17)) @@ (Ip6Addr(1) :> Mac(33))
ProxyOrder == <<"arp", "ndp">>

ArpFrame(op, spa, tpa) ==
    Pack(EthernetLayout, [dst |-> <<255, 255, 255, 255, 255, 255>>, src |-> Mac(5), type |-> ARP])
    \o Pack(ArpLayout, [htype |-> 1, ptype |-> 2048, hlen |-> 6, plen |-> 4, oper |-> op,
                        sha |-> Mac(5), spa |-> spa, tha |-> Zeros(6), tpa |-> tpa])
NsFrame(src, target, option) ==
    Pack(EthernetLayout, [dst |-> <<51, 51, 255, 0, 0, 1>>, src |-> Mac(6), type |-> IP6])
    \o Pack(Ip6Layout, [version |-> 96, payload_len |-> 24 + Len(option), next_header |-> ICMP6,
                        hop_limit |-> 255, src |-> src, dst |-> target])
    \o <<135, 0, 0, 0, 0, 0, 0, 0>> \o target \o option
SourceOption == <<1, 1>> \o Mac(6)

Frames == <<
    ArpFrame(1, Ip(7), Ip(1)), NsFrame(Ip6Addr(7), Ip6Addr(1), SourceOption),
    NsFrame(Unspecified, Ip6Addr(1), <<>>), NsFrame(Ip6Addr(255), Ip6Addr(1), <<14, 1>> \o Zeros(6) \o SourceOption),
    ArpFrame(1, Ip(7), Ip(8)), ArpFrame(2, Ip(7), Ip(1)), NsFrame(Ip6Addr(7), Ip6Addr(8), SourceOption),
    Mac(1) \o Mac(2) \o <<8, 0>> \o Zeros(20), Zeros(10), Slice(ArpFrame(1, Ip(7), Ip(1)), 0, 30),
    Mac(1) \o Mac(2) \o <<129, 0, 0, 5>> \o Rest(ArpFrame(1, Ip(7), Ip(1)), 12) >>
Asking(is) == [j \in DOMAIN is |-> [port |-> j + 2, frame |-> Frames[is[j]]]]

-----------------------------------------------------------------------------
Nothing == [calls |-> <<>>, others |-> <<>>, frames |-> <<>>, echoes |-> <<>>, splits |-> 0, drops |-> 0]
All == NewStatsRequest
Dump == <<"dump_flows", All>>
Monitor(id) == <<"monitor_flows", AllChanges(id)>>

RoundTrips == {[Nothing EXCEPT !.calls = << <<"send_flow", f>>, Dump >>] : f \in Flows_}
Modified ==
    {[Nothing EXCEPT !.calls = << <<"send_flow", First>>, <<"send_flow", Second>>, <<"send_flow", f>>, Dump >>]
        : f \in {Again} \union
                {[c EXCEPT !.command = x] : c \in {[First EXCEPT !.table_id = 255], Again},
                                            x \in {"delete", "modify"}}
                \union {[Again EXCEPT !.command = x, !.cookie = y, !.cookie_mask = 255] :
                            x \in {"delete_strict", "modify_strict"}, y \in {66051, 1}}}
Filtered == {[Nothing EXCEPT !.calls =
                << <<"send_flow", First>>, <<"send_flow_sync", Second>>, <<"dump_flows", r>> >>] :
                r \in {[All EXCEPT !.table_id = 0], [All EXCEPT !.match = Built(<< <<"eth_type", 2048>> >>)],
                       [All EXCEPT !.cookie = 66051, !.cookie_mask = -1]}}
Others == {[Nothing EXCEPT !.calls = <<Dump>>, !.others = <<o>>] : o \in OtherFlows \union {MaskedFlow}}
Monitored ==
    {[Nothing EXCEPT !.calls = << <<"send_flow", f>>, Monitor(1), <<"recv_flow_updates">> >>,
                     !.others = <<MaskedFlow>>] :
        f \in {Flow(Matches[i], <<>>) : i \in DOMAIN Matches}}
MonitoredToo ==
    [Nothing EXCEPT !.calls = << Monitor(1), <<"send_flow", First>>, <<"recv_flow_updates">>, <<"recv_flow_updates">> >>,
                    !.others = << MaskedFlow,
                        [MaskedFlow EXCEPT !.bytes = [@ EXCEPT ![18] = 4], !.flow = MaskedFlow.flow] >>]
Split == {[Nothing EXCEPT !.calls = c, !.echoes = << <<>>, <<1, 2>> >>, !.others = o, !.splits = 2, !.drops = 1] :
            c \in {<< <<"send_flow_sync", First>>, Dump, Dump >>,
                   << <<"send_flow_sync", Flow(Unfinished[2], <<>>)>>, Dump >>,
                   << Monitor(9), <<"recv_flow_updates">> >>},
            o \in {<<>>, <<MaskedFlow>>}}
Running == {[Nothing EXCEPT !.calls = << <<"run">> >>, !.frames = Asking(<<i, j>>), !.echoes = << <<7>> >>,
                            !.splits = 1] : i, j \in DOMAIN Frames}
Interrupted == {[Nothing EXCEPT !.calls = << <<"run_once">>, Dump, <<"run">> >>, !.frames = Asking(<<1, i, 3>>),
                                !.drops = 1] : i \in DOMAIN Frames}
               \union {[Nothing EXCEPT !.frames = Asking(<<1, 2>>),
                           !.calls = << <<"send_flow", Flow(Unfinished[1], <<>>)>>, <<"run">> >>]}

AllPrograms == RoundTrips \union Modified \union Filtered \union Others \union Monitored
               \union {MonitoredToo} \union Split \union Running \union Interrupted
===============================================================================
