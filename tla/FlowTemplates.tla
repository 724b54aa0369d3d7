---------------------------- MODULE FlowTemplates ----------------------------
(***************************************************************************)
(* The flow builders of rovs-ext/src/flows as sequences of flow mods, in   *)
(* the order in which they are sent.                                       *)
(*                                                                         *)
(* A match is a set of pairs <<field, value>>; ct_state is matched by the  *)
(* set of flags that have to be set.  Tables and priorities keep their     *)
(* widths (u8, u16) as in a release build; a debug build panics instead.   *)
(* Timeouts, cookies and buffer sizes are left out.                        *)
(***************************************************************************)
EXTENDS Integers, SequencesExt

AddFlow(t, p, m, as) ==
    [command |-> "add", table |-> t % 256, priority |-> p % 65536, match |-> m, actions |-> as]
DeleteFlows(t, m) == [command |-> "delete", table |-> t % 256, match |-> m]

(* ActionList *)
Output(p)      == [type |-> "output", port |-> p]
Flood          == [type |-> "flood"]
Normal         == [type |-> "normal"]
InPort         == [type |-> "in_port"]
Controller     == [type |-> "controller"]
Drop           == [type |-> "drop"]
GotoTable(t)   == [type |-> "goto_table", table |-> t]
SetField(f, v) == [type |-> "set", field |-> f, value |-> v]
Move(src, dst) == [type |-> "move", src |-> src, dst |-> dst]
PushVlan       == [type |-> "push_vlan"]
PopVlan        == [type |-> "pop_vlan"]
Ct(z, t)       == [type |-> "ct", zone |-> z, table |-> t]
CtNat(z, t, n) == [type |-> "ct_nat", zone |-> z, table |-> t, nat |-> n]

(* NxLearn with one match_field(src, dst) spec and an output_field spec:   *)
(* the learned flow matches dst against the packet's src.                  *)
Learn(t, p, src, dst, out) ==
    [type |-> "learn", table |-> t, priority |-> p, src |-> src, dst |-> dst, out |-> out]

(* What Flow::encode sends for a list of actions: those that are really    *)
(* instructions (goto_table) and drop are encoded as nothing.              *)
EncodeAction(as, a) == IF a.type \in {"drop", "goto_table"} THEN as ELSE Append(as, a)
Encoded(f) ==
    IF f.command = "delete" THEN f
    ELSE [f EXCEPT !.actions = FoldLeft(EncodeAction, <<>>, @)]

-----------------------------------------------------------------------------
(* LearningSwitchFlows *)
LearningFlow(c) ==
    AddFlow(c.learn_table, 100, {},
            <<Learn(c.forward_table, 100, "eth_dst", "eth_src", "in_port"),
              GotoTable(c.forward_table)>>)
FloodFlow(c) == AddFlow(c.forward_table, 1, {}, <<Flood>>)

LearningFlows(c) == <<LearningFlow(c), FloodFlow(c)>>

(* Fault: what was learned between the two deletes stays.                  *)
LearningDeleteBackwards(c) ==
    <<DeleteFlows(c.forward_table, {}), DeleteFlows(c.learn_table, {})>>

LearningDelete(c) == <<DeleteFlows(c.learn_table, {}), DeleteFlows(c.forward_table, {})>>

-----------------------------------------------------------------------------
(* VLAN helpers *)
PushVlanFlow(in, out, vid, t, p) ==
    AddFlow(t, p, {<<"in_port", in>>}, <<PushVlan, SetField("vlan_vid", vid), Output(out)>>)
PopVlanFlow(in, out, vid, t, p) ==
    AddFlow(t, p, {<<"in_port", in>>, <<"vlan_vid", vid>>}, <<PopVlan, Output(out)>>)
ForwardVlanFlow(in, out, vid, t, p) ==
    AddFlow(t, p, {<<"in_port", in>>, <<"vlan_vid", vid>>}, <<Output(out)>>)

(* Fault: the tag is rewritten after the packet has left.                  *)
TranslateVlanFlowLate(in, out, src, dst, t, p) ==
    AddFlow(t, p, {<<"in_port", in>>, <<"vlan_vid", src>>},
            <<Output(out), SetField("vlan_vid", dst)>>)

TranslateVlanFlow(in, out, src, dst, t, p) ==
    AddFlow(t, p, {<<"in_port", in>>, <<"vlan_vid", src>>},
            <<SetField("vlan_vid", dst), Output(out)>>)

AccessPortFlows(a, t, p) ==
    <<PushVlanFlow(a.port, a.trunk_port, a.vlan_id, t, p),
      PopVlanFlow(a.trunk_port, a.port, a.vlan_id, t, p)>>
VlanConfigFlows(ports, t, p) ==
    FlattenSeq([i \in DOMAIN ports |-> AccessPortFlows(ports[i], t, p)])

-----------------------------------------------------------------------------
(* MacNatFlows *)
Outbound(c, et, t, p, more) ==
    AddFlow(t, p, {<<"in_port", c.internal_port>>, <<"eth_src", c.internal_mac>>, <<"eth_type", et>>},
            <<SetField("eth_src", c.external_mac)>> \o more \o <<Output(c.external_port)>>)
Inbound(c, et, t, p, more) ==
    AddFlow(t, p, {<<"in_port", c.external_port>>, <<"eth_dst", c.external_mac>>, <<"eth_type", et>>},
            <<SetField("eth_dst", c.internal_mac)>> \o more \o <<Output(c.internal_port)>>)

(* Fault: the sender address inside the ARP packet is left as it was.      *)
ArpOutboundEthOnly(c, t, p) == Outbound(c, "arp", t, p, <<>>)

ArpOutbound(c, t, p) == Outbound(c, "arp", t, p, <<SetField("sha", c.external_mac)>>)
ArpInbound(c, t, p)  == Inbound(c, "arp", t, p, <<SetField("tha", c.internal_mac)>>)

MacNatFlows(c, t, p) ==
    <<Outbound(c, "ip", t, p, <<>>), Inbound(c, "ip", t, p, <<>>),
      Outbound(c, "ip6", t, p, <<>>), Inbound(c, "ip6", t, p, <<>>),
      ArpOutbound(c, t, p), ArpInbound(c, t, p)>>

(* Fault: everything on the external port goes.                            *)
MacNatDeletePorts(c, t) ==
    <<DeleteFlows(t, {<<"in_port", c.internal_port>>}),
      DeleteFlows(t, {<<"in_port", c.external_port>>})>>

MacNatDelete(c, t) ==
    <<DeleteFlows(t, {<<"in_port", c.internal_port>>, <<"eth_src", c.internal_mac>>}),
      DeleteFlows(t, {<<"in_port", c.external_port>>, <<"eth_dst", c.external_mac>>})>>

-----------------------------------------------------------------------------
(* ArpProxyFlows *)
ArpRequestFor(c) ==
    {<<"in_port", c.port>>, <<"eth_type", "arp">>, <<"arp_op", "request">>, <<"tpa", c.ip>>}

(* Fault: the sender is overwritten before it is copied to the target.     *)
ArpProxyFlowSetsFirst(c, t, p) ==
    AddFlow(t, p, ArpRequestFor(c),
            <<SetField("sha", c.mac), SetField("spa", c.ip), Move("sha", "tha"), Move("spa", "tpa"),
              SetField("arp_op", "reply"), Move("eth_src", "eth_dst"), SetField("eth_src", c.mac),
              InPort>>)

ArpProxyFlow(c, t, p) ==
    AddFlow(t, p, ArpRequestFor(c),
            <<Move("sha", "tha"), Move("spa", "tpa"), SetField("sha", c.mac), SetField("spa", c.ip),
              SetField("arp_op", "reply"), Move("eth_src", "eth_dst"), SetField("eth_src", c.mac),
              InPort>>)
ArpProxyDelete(c, t) == <<DeleteFlows(t, ArpRequestFor(c))>>

(* NdpProxyFlows: neighbour solicitations go to the controller.            *)
Solicitation(port) ==
    {<<"in_port", port>>, <<"eth_type", "ip6">>, <<"ip_proto", "icmpv6">>, <<"icmpv6_type", "ns">>}
NdpProxyFlow(c, t, p)  == AddFlow(t, p, Solicitation(c.port), <<Controller>>)
NdpProxyDelete(c, t)   == <<DeleteFlows(t, Solicitation(c.port))>>

-----------------------------------------------------------------------------
(* NAT.  A pipeline of three tables: n tracks, n + 1 decides, n + 2 outputs. *)
Track(et, c, n, p) == AddFlow(n, p, {<<"eth_type", et>>}, <<Ct(c.zone, n + 1)>>)
DropInvalid(n, p) ==
    AddFlow(n + 1, p + 10, {<<"ct_state", {"trk", "inv"}>>}, <<Drop>>)

(* Fault: any tracked packet is forwarded as it is.                        *)
EstablishedOrNew(in, out, n, p) ==
    AddFlow(n + 1, p + 5, {<<"in_port", in>>, <<"ct_state", {"trk"}>>}, <<Output(out)>>)

Established(in, out, n, p) ==
    AddFlow(n + 1, p + 5, {<<"in_port", in>>, <<"ct_state", {"trk", "est"}>>}, <<Output(out)>>)
AfterNat(in, out, n, p) == AddFlow(n + 2, p, {<<"in_port", in>>}, <<Output(out)>>)

(* Fault: the new connections of every port are masqueraded.               *)
MasqueradeAnyPort(c, et, addrs, n, p) ==
    AddFlow(n + 1, p, {<<"eth_type", et>>, <<"ct_state", {"trk", "new"}>>},
            <<CtNat(c.zone, n + 2, [kind |-> "src", addrs |-> addrs, port |-> "same"])>>)

Masquerade(c, et, addrs, n, p) ==
    AddFlow(n + 1, p,
            {<<"in_port", c.internal_port>>, <<"eth_type", et>>, <<"ct_state", {"trk", "new"}>>},
            <<CtNat(c.zone, n + 2, [kind |-> "src", addrs |-> addrs, port |-> "same"])>>)

(* SnatGateway; v4 and v6 are the ranges of external addresses, or {}.     *)
SnatFlows(c, n, p) ==
    LET Only(addrs, f) == IF addrs = {} THEN <<>> ELSE <<f>>
    IN  Only(c.v4, Track("ip", c, n, p)) \o Only(c.v6, Track("ip6", c, n, p))
        \o <<AddFlow(n, p, {<<"eth_type", "arp">>}, <<Normal>>), DropInvalid(n, p),
             Established(c.internal_port, c.external_port, n, p),
             Established(c.external_port, c.internal_port, n, p)>>
        \o Only(c.v4, Masquerade(c, "ip", c.v4, n, p)) \o Only(c.v6, Masquerade(c, "ip6", c.v6, n, p))
        \o <<AfterNat(c.internal_port, c.external_port, n, p),
             AfterNat(c.external_port, c.internal_port, n, p)>>
SnatDelete(n) == <<DeleteFlows(n, {}), DeleteFlows(n + 1, {}), DeleteFlows(n + 2, {})>>

(* DnatService; a rule's internal_port is "same" if it is None.            *)
Forwarding(c, r, n, p) ==
    AddFlow(n + 1, p,
            {<<"in_port", c.external_port>>, <<"eth_type", r.family>>, <<"ip_proto", r.protocol>>,
             <<"ct_state", {"trk", "new"}>>, <<"tp_dst", r.external_port>>},
            <<CtNat(c.zone, n + 2, [kind |-> "dst", addrs |-> {r.target}, port |-> r.internal_port])>>)
DnatFlows(c, n, p) ==
    LET TrackIfUsed(et) ==
            IF \E i \in DOMAIN c.rules : c.rules[i].family = et THEN <<Track(et, c, n, p)>> ELSE <<>>
    IN  TrackIfUsed("ip") \o TrackIfUsed("ip6")
        \o <<DropInvalid(n, p), Established(c.external_port, c.internal_port, n, p),
             Established(c.internal_port, c.external_port, n, p)>>
        \o [i \in DOMAIN c.rules |-> Forwarding(c, c.rules[i], n, p)]
        \o <<AfterNat(c.external_port, c.internal_port, n, p),
             AfterNat(c.internal_port, c.external_port, n, p)>>
=============================================================================
