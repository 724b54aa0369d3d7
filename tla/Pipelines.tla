------------------------------ MODULE Pipelines ------------------------------
(***************************************************************************)
(* Flow templates of rovs-ext installed on and deleted from a switch that  *)
(* forwards frames meanwhile.  install and delete send their flow mods one *)
(* by one with send_flow_sync and stop at the first error, so every prefix *)
(* of a pipeline is a state traffic meets.                                 *)
(*                                                                         *)
(* A deployment (Templates) is the set of templates a program uses         *)
(* together, all at table 0.  Port 1 is internal, port 2 external; "h" is  *)
(* the internal host and "r" a remote one.                                 *)
(***************************************************************************)
EXTENDS FlowTemplates, FiniteSets

CONSTANTS
    Deployments,  \* the sets of templates to choose from
    MaxCalls,     \* calls of install and delete
    MaxFrames     \* frames forwarded

AllTemplates == {"learning", "vlan", "mac_nat", "arp_proxy", "ndp_proxy", "snat", "dnat"}
ASSUME DeploymentsAssumption == Deployments \subseteq SUBSET AllTemplates
ASSUME BoundsAssumption == MaxCalls \in Nat /\ MaxFrames \in Nat

(* Templates share tables and registers, and some disturb each other: what *)
(* is promised of one may hold only with certain others.                   *)
Sparing == {"mac_nat", "arp_proxy", "ndp_proxy"}
NatTemplates == {"snat", "dnat"}
UsedApart(ts) == \A D \in Deployments : D \intersect ts # {} => D \subseteq ts
LearnsAlone == \A D \in Deployments : "learning" \in D => D \intersect Sparing = {}

Ports == {1, 2, 3, 4}

INSTANCE Datapath

VARIABLES
    deployment,  \* the templates in use
    table,       \* the flow table of the switch
    conns,       \* the connections it tracks
    op,          \* the install or delete in progress: what is still to send
    status,      \* template -> absent, partial (or unknown), whole
    last,        \* the last frame, what was sent for it, what was whole then
    calls, frames

vars == <<deployment, table, conns, op, status, last, calls, frames>>

-----------------------------------------------------------------------------
(* The configurations.  The priority of snat is close to the limit: the    *)
(* code adds 5 and 10 to it.                                               *)
LearningConfig == [learn_table |-> 0, forward_table |-> 1]
AccessPorts == <<[port |-> 1, vlan_id |-> "10", trunk_port |-> 2],
                 [port |-> 3, vlan_id |-> "20", trunk_port |-> 2]>>
MacNatConfig == [internal_mac |-> "h", external_mac |-> "x", internal_port |-> 1, external_port |-> 2]
ArpProxyConfig == [ip |-> "gw1", mac |-> "x", port |-> 2]
NdpProxyConfig == [port |-> 2]
SnatConfig == [internal_port |-> 1, external_port |-> 2, zone |-> 1,
               v4 |-> {"gw1", "gw2"}, v6 |-> {"gw6"}]
DnatConfig == [external_port |-> 2, internal_port |-> 1, zone |-> 1,
               rules |-> <<[family |-> "ip", protocol |-> "tcp", external_port |-> "80",
                            target |-> "srv", internal_port |-> "8080"],
                           [family |-> "ip", protocol |-> "udp", external_port |-> "53",
                            target |-> "srv", internal_port |-> "same"]>>]

FlowsOf(t) ==
    CASE t = "learning"  -> LearningFlows(LearningConfig)
      [] t = "vlan"      -> VlanConfigFlows(AccessPorts, 0, 100)
                                \o <<ForwardVlanFlow(2, 4, "30", 0, 100),
                                     TranslateVlanFlow(4, 2, "31", "30", 0, 100)>>
      [] t = "mac_nat"   -> MacNatFlows(MacNatConfig, 0, 100)
      [] t = "arp_proxy" -> <<ArpProxyFlow(ArpProxyConfig, 0, 200)>>
      [] t = "ndp_proxy" -> <<NdpProxyFlow(NdpProxyConfig, 0, 200)>>
      [] t = "snat"      -> SnatFlows(SnatConfig, 0, 65530)
      [] t = "dnat"      -> DnatFlows(DnatConfig, 0, 100)

(* The templates that have a delete.                                       *)
Deletes(t) ==
    CASE t = "learning"  -> LearningDelete(LearningConfig)
      [] t = "mac_nat"   -> MacNatDelete(MacNatConfig, 0)
      [] t = "arp_proxy" -> ArpProxyDelete(ArpProxyConfig, 0)
      [] t = "ndp_proxy" -> NdpProxyDelete(NdpProxyConfig, 0)
      [] t = "snat"      -> SnatDelete(0)
Deletable == {"learning", "mac_nat", "arp_proxy", "ndp_proxy", "snat"}

-----------------------------------------------------------------------------
(* The frames that may arrive.                                             *)
Blank == [in_port |-> 1, eth_src |-> "h", eth_dst |-> "r", eth_type |-> "ip", vlans |-> <<>>,
          ip_src |-> "-", ip_dst |-> "-", ip_proto |-> "-", tp_src |-> "-", tp_dst |-> "-",
          arp_op |-> "-", sha |-> "-", spa |-> "-", tha |-> "-", tpa |-> "-",
          icmpv6_type |-> "-", ct |-> {}]

Segment(in, src, dst, proto, from, to) ==
    [Blank EXCEPT !.in_port = in, !.ip_src = src, !.ip_dst = dst, !.ip_proto = proto,
                  !.tp_src = from, !.tp_dst = to]
Arp(in, opcode, es, ed, sha, spa, tha, tpa) ==
    [Blank EXCEPT !.in_port = in, !.eth_type = "arp", !.arp_op = opcode, !.eth_src = es, !.eth_dst = ed,
                  !.sha = sha, !.spa = spa, !.tha = tha, !.tpa = tpa]
Ethernet(in, es, ed) == [Blank EXCEPT !.in_port = in, !.eth_src = es, !.eth_dst = ed]

LearningFrames == {Ethernet(1, "h", "r"), Ethernet(2, "r", "h"), Ethernet(3, "s", "h"), Ethernet(2, "r", "s")}
VlanFrames ==
    {[Blank EXCEPT !.in_port = p, !.vlans = v] :
        p \in {1, 2, 3}, v \in {<<>>, <<"10">>, <<"20">>, <<"30">>, <<"10", "20">>}}
    \union {[Blank EXCEPT !.in_port = 4, !.vlans = <<"31">>]}
ProxyFrames ==
    {[Blank EXCEPT !.eth_type = et] : et \in {"ip", "ip6"}}
    \union {[Blank EXCEPT !.in_port = 2, !.eth_src = "r", !.eth_dst = d, !.eth_type = et] :
              d \in {"x", "h"}, et \in {"ip", "ip6"}}
    \union {[Blank EXCEPT !.in_port = 2, !.eth_src = "r", !.eth_dst = "m", !.eth_type = "ip6",
                          !.ip_proto = "icmpv6", !.icmpv6_type = "ns"],
            Arp(1, "request", "h", "b", "h", "gw1", "0", "ri"),
            Arp(2, "reply", "r", "x", "r", "ri", "x", "gw1"),
            Arp(2, "request", "r", "b", "r", "ri", "0", "gw1"),
            Arp(2, "request", "r", "b", "r", "ri", "0", "gw9")}
NatFrames ==
    {Segment(1, "h", "ri", "tcp", "e", "80"), Segment(1, "srv", "ri", "tcp", "8080", "e"),
     Segment(2, "ri", "gw1", "tcp", "80", "e"), Segment(2, "ri", "gw2", "tcp", "80", "e"),
     Segment(2, "ri", "gw1", "tcp", "e", "80"), Segment(2, "ri", "gw1", "tcp", "e", "22"),
     Segment(2, "ri", "gw1", "udp", "e", "53"), Segment(2, "ri", "h", "tcp", "80", "e"),
     [Segment(1, "h6", "ri6", "tcp", "e", "80") EXCEPT !.eth_type = "ip6"],
     [Segment(2, "ri6", "h6", "tcp", "e", "80") EXCEPT !.eth_type = "ip6"]}

FramesOf(t) ==
    CASE t = "learning" -> LearningFrames
      [] t = "vlan" -> VlanFrames
      [] t \in {"mac_nat", "arp_proxy", "ndp_proxy"} -> ProxyFrames
      [] t \in {"snat", "dnat"} -> NatFrames

-----------------------------------------------------------------------------
Idle == [kind |-> "none", template |-> "none", todo |-> <<>>]
NoFrame == [frame |-> Blank, out |-> {}, whole |-> {}]

Init ==
    /\ deployment \in Deployments
    /\ table = {}
    /\ conns = {}
    /\ op = Idle
    /\ status = [t \in deployment |-> "absent"]
    /\ last = NoFrame
    /\ calls = 0
    /\ frames = 0

Call(kind, t, mods) ==
    /\ op = Idle
    /\ calls < MaxCalls
    /\ op' = [kind |-> kind, template |-> t, todo |-> mods]
    /\ status' = [status EXCEPT ![t] = "partial"]
    /\ calls' = calls + 1
    /\ UNCHANGED <<deployment, table, conns, last, frames>>

Install(t) == Call("install", t, FlowsOf(t))
Delete(t)  == t \in Deletable /\ Call("delete", t, Deletes(t))

(* One send_flow_sync of the loop that returns Ok, and the last one the    *)
(* call with it.                                                           *)
Send ==
    /\ op # Idle
    /\ table' = Applied(table, Encoded(Head(op.todo)), op.template)
    /\ IF Len(op.todo) > 1
       THEN op' = [op EXCEPT !.todo = Tail(@)] /\ UNCHANGED status
       ELSE /\ op' = Idle
            /\ status' = [status EXCEPT ![op.template] =
                             IF op.kind = "install" THEN "whole" ELSE "absent"]
    /\ UNCHANGED <<deployment, conns, last, calls, frames>>

(* One that returns Err: the flow mod was refused, or was applied and its  *)
(* confirmation lost.  The rest is not sent.                               *)
SendFails ==
    /\ op # Idle
    /\ table' \in {table, Applied(table, Encoded(Head(op.todo)), op.template)}
    /\ op' = Idle
    /\ UNCHANGED <<deployment, conns, status, last, calls, frames>>

Forward ==
    /\ frames < MaxFrames
    /\ \E f \in UNION {FramesOf(t) : t \in deployment} :
          \E s \in Traversals(table, conns, f) :
             /\ table' = s.table
             /\ conns' = s.conns
             /\ last' = [frame |-> f, out |-> s.out,
                         whole |-> {t \in deployment : status[t] = "whole"}]
    /\ frames' = frames + 1
    /\ UNCHANGED <<deployment, op, status, calls>>

Next == (\E t \in deployment : Install(t) \/ Delete(t)) \/ Send \/ SendFails \/ Forward

Spec == Init /\ [][Next]_vars

-----------------------------------------------------------------------------
Owned(t) == {g \in table : g.owner = t}

(* A delete that returned Ok leaves no flow of its template, whatever the  *)
(* switch learned while the deletes were under way.                        *)
DeleteLeavesNothing == \A t \in deployment : status[t] = "absent" => Owned(t) = {}

(* The deletes of the proxies and of the MAC NAT, which name what they     *)
(* match, take no flow of another template in the same table.              *)
DeleteSparesOthers ==
    [][op.kind = "delete" /\ op.template \in {"mac_nat", "arp_proxy", "ndp_proxy"}
          => \A t \in deployment \ {op.template} : Owned(t) \subseteq Owned(t)']_vars

(* A frame changes VLAN only as configured, also while half of the flows   *)
(* are installed and when frames come tagged where none should.            *)
VlanIsolation ==
    "vlan" \in deployment =>
        \A o \in last.out :
            LET from == last.frame.in_port
                tag  == Field(last.frame, "vlan_vid")
                to   == Field(o.frame, "vlan_vid")
            IN  \/ \E i \in DOMAIN AccessPorts : LET a == AccessPorts[i] IN
                      \/ from = a.port /\ o.port = a.trunk_port /\ to = a.vlan_id
                      \/ from = a.trunk_port /\ tag = a.vlan_id /\ o.port = a.port
                            /\ o.frame.vlans = Tail(last.frame.vlans)
                \/ <<from, tag, o.port, to>> \in {<<2, "30", 4, "30">>, <<4, "31", 2, "30">>}

(* The internal MAC is never seen on the external port, neither in the     *)
(* Ethernet header nor inside ARP, at any point of installing and deleting.*)
MacHidden ==
    "mac_nat" \in deployment =>
        \A o \in last.out : o.port = 2 => o.frame.eth_src # "h" /\ o.frame.sha # "h"

(* With the ARP proxy installed a request for its address gets exactly one *)
(* reply, well formed, to the port and the host that asked.                *)
RequestIsAnswered ==
    "arp_proxy" \in last.whole /\ Matches(ArpRequestFor(ArpProxyConfig), last.frame)
    => last.out = {[port |-> 2,
                    frame |-> Arp(2, "reply", "x", last.frame.eth_src, "x", "gw1",
                                  last.frame.sha, last.frame.spa)]}

(* Nothing that comes in on the external port reaches the internal network *)
(* but the answers to connections from inside, and connections that a rule *)
(* forwards, to where it forwards them: not even in a half-installed       *)
(* pipeline.                                                               *)
OnlyInvitedEnter ==
    deployment \intersect {"snat", "dnat"} # {} /\ last.frame.in_port = 2 =>
        \A o \in last.out : o.port = 1 =>
            \E c \in conns :
                \/ c.by = 1 /\ Answers(c, last.frame)
                \/ /\ Of(c, last.frame) /\ "dnat" \in deployment
                   /\ \E i \in DOMAIN DnatConfig.rules :
                         LET r == DnatConfig.rules[i]
                         IN  c.port = r.external_port /\ c.ndst = r.target

(* An internal address leaves the gateway only in packets of connections   *)
(* that the switch takes for established.                                  *)
NewIsMasqueraded ==
    "snat" \in deployment /\ last.frame.in_port = 1 =>
        \A o \in last.out :
            o.port = 2 /\ "est" \notin o.frame.ct
                => o.frame.ip_src \in SnatConfig.v4 \union SnatConfig.v6
=============================================================================
