--------------------------- MODULE PipelinesProofs ---------------------------
(***************************************************************************)
(* Theorems about the flow pipelines: whatever is installed, deleted and   *)
(* forwarded, in any order and however often.                              *)
(***************************************************************************)
EXTENDS Pipelines, SequenceTheorems, TLAPS

Acting   == INSTANCE FoldFacts WITH Step <- Acts
Encoding == INSTANCE FoldFacts WITH Step <- EncodeAction

LEMMA ActingIs == \A b, q : Acting!Fold(b, q) = FoldLeft(Acts, b, q)
  BY DEF Acting!Fold, FoldLeft, Acting!FoldLeft, MapThenFoldSet, Acting!MapThenFoldSet,
         Max, Acting!Max

LEMMA EncodingIs == \A b, q : Encoding!Fold(b, q) = FoldLeft(EncodeAction, b, q)
  BY DEF Encoding!Fold, FoldLeft, Encoding!FoldLeft, MapThenFoldSet, Encoding!MapThenFoldSet,
         Max, Encoding!Max

-----------------------------------------------------------------------------
(* What a flow does, action by action.                                     *)
Entering(s, g) == [s EXCEPT !.next = NoTable, !.owner = g.owner]

Leads(s, g, t, c) ==
    /\ c[0] = Entering(s, g)
    /\ \A i \in DOMAIN g.actions : c[i] \in Act(c[i - 1], g.actions[i])
    /\ c[Len(g.actions)] = t

(* A sequence of actions leads along a chain of traversals.                *)
LEMMA ThroughChain ==
    ASSUME NEW s, NEW g, NEW S, g.actions \in Seq(S), NEW t \in Through(s, g)
    PROVE  \E c : Leads(s, g, t, c)
<1> DEFINE acts == g.actions
           F(n) == Acting!Fold({Entering(s, g)}, SubSeq(acts, 1, n))
           Chain(c, n) == /\ c[0] = Entering(s, g)
                          /\ \A i \in 1 .. n : c[i] \in Act(c[i - 1], acts[i])
<1>1. /\ F(0) = {Entering(s, g)}
      /\ \A n \in Nat : n + 1 \in DOMAIN acts => F(n + 1) = Acts(F(n), acts[n + 1])
      /\ F(Len(acts)) = Through(s, g)
  <2>1. /\ F(0) = {Entering(s, g)}
        /\ \A n \in Nat : n + 1 \in DOMAIN acts => F(n + 1) = Acts(F(n), acts[n + 1])
        /\ F(Len(acts)) = Acting!Fold({Entering(s, g)}, acts)
    BY Acting!FoldPrefixes
  <2> QED
    BY <2>1, ActingIs DEF Through, Entering
<1> HIDE DEF F
<1> DEFINE D == {n \in Nat : n <= Len(acts) => \A u \in F(n) : \E c : Chain(c, n) /\ c[n] = u}
<1>2. 0 \in D
  <2>1. ASSUME NEW u \in F(0) PROVE \E c : Chain(c, 0) /\ c[0] = u
    <3>1. u = Entering(s, g)
      BY <1>1, <2>1
    <3>2. Chain([i \in {0} |-> u], 0)
      BY <3>1
    <3> QED
      BY <3>2
  <2> QED
    BY <2>1
<1>3. ASSUME NEW n \in Nat, n \in D PROVE n + 1 \in D
  <2> SUFFICES ASSUME n + 1 <= Len(acts), NEW u \in F(n + 1)
               PROVE  \E c : Chain(c, n + 1) /\ c[n + 1] = u
    OBVIOUS
  <2>1. n + 1 \in DOMAIN acts /\ n <= Len(acts)
    OBVIOUS
  <2>2. PICK v \in F(n) : u \in Act(v, acts[n + 1])
    BY <1>1, <2>1 DEF Acts
  <2>3. PICK c : Chain(c, n) /\ c[n] = v
    BY <1>3, <2>1, <2>2
  <2> DEFINE e == [i \in 0 .. n + 1 |-> IF i = n + 1 THEN u ELSE c[i]]
  <2>4. \A i \in 0 .. n : e[i] = c[i]
    OBVIOUS
  <2>5. e[n + 1] = u
    OBVIOUS
  <2> HIDE DEF e
  <2>6. Chain(e, n + 1)
    <3>1. ASSUME NEW i \in 1 .. n + 1 PROVE e[i] \in Act(e[i - 1], acts[i])
      <4>1. CASE i = n + 1
        <5>1. e[i] = u /\ i - 1 = n /\ n \in 0 .. n
          BY <2>5, <4>1
        <5>2. e[i - 1] = v
          BY <2>3, <2>4, <5>1
        <5> QED
          BY <2>2, <4>1, <5>1, <5>2
      <4>2. CASE i # n + 1
        <5>1. i \in 1 .. n /\ i - 1 \in 0 .. n /\ i \in 0 .. n
          BY <4>2
        <5> QED
          BY <2>3, <2>4, <5>1
      <4> QED
        BY <4>1, <4>2
    <3> QED
      BY <2>3, <2>4, <3>1
  <2> QED
    BY <2>5, <2>6
<1> HIDE DEF D
<1>4. Nat \subseteq D
  BY <1>2, <1>3, Acting!NatSetInduction
<1>5. Len(acts) \in Nat /\ DOMAIN acts = 1 .. Len(acts)
  OBVIOUS
<1>6. \E c : Chain(c, Len(acts)) /\ c[Len(acts)] = t
  BY <1>1, <1>4, <1>5 DEF D
<1> QED
  BY <1>5, <1>6 DEF Leads

(* Actions that are encoded at all stay what they are.                     *)
Plain(acts) == \A i \in DOMAIN acts : acts[i].type \notin {"drop", "goto_table"}

LEMMA EncodedPlain ==
    ASSUME NEW S, NEW acts \in Seq(S), Plain(acts)
    PROVE  FoldLeft(EncodeAction, <<>>, acts) = acts
<1> DEFINE F(n) == Encoding!Fold(<<>>, SubSeq(acts, 1, n))
           Upto(n) == SubSeq(acts, 1, n)
<1>1. /\ F(0) = <<>>
      /\ \A n \in Nat : n + 1 \in DOMAIN acts => F(n + 1) = EncodeAction(F(n), acts[n + 1])
      /\ F(Len(acts)) = FoldLeft(EncodeAction, <<>>, acts)
  <2>1. /\ F(0) = <<>>
        /\ \A n \in Nat : n + 1 \in DOMAIN acts => F(n + 1) = EncodeAction(F(n), acts[n + 1])
        /\ F(Len(acts)) = Encoding!Fold(<<>>, acts)
    BY Encoding!FoldPrefixes
  <2> QED
    BY <2>1, EncodingIs
<1>2. /\ Upto(0) = <<>> /\ Upto(Len(acts)) = acts
      /\ \A n \in Nat : n + 1 \in DOMAIN acts => Upto(n + 1) = Append(Upto(n), acts[n + 1])
  OBVIOUS
<1>3. DOMAIN acts = 1 .. Len(acts) /\ Len(acts) \in Nat
  OBVIOUS
<1> HIDE DEF F, Upto
<1> DEFINE D == {n \in Nat : n <= Len(acts) => F(n) = Upto(n)}
<1>4. 0 \in D
  BY <1>1, <1>2
<1>5. ASSUME NEW n \in Nat, n \in D PROVE n + 1 \in D
  <2> SUFFICES ASSUME n + 1 <= Len(acts) PROVE F(n + 1) = Upto(n + 1)
    OBVIOUS
  <2>1. n + 1 \in DOMAIN acts /\ n <= Len(acts)
    BY <1>3
  <2>2. F(n + 1) = Append(F(n), acts[n + 1])
    BY <1>1, <2>1 DEF EncodeAction, Plain
  <2> QED
    BY <1>2, <1>5, <2>1, <2>2
<1> HIDE DEF D
<1>6. Nat \subseteq D
  BY <1>4, <1>5, Encoding!NatSetInduction
<1> QED
  BY <1>1, <1>2, <1>3, <1>6 DEF D

LEMMA EncodedAdd ==
    ASSUME NEW S, NEW acts \in Seq(S), Plain(acts), NEW n, NEW p, NEW m
    PROVE  Encoded(AddFlow(n, p, m, acts)) = AddFlow(n, p, m, acts)
  BY EncodedPlain DEF Encoded, AddFlow

-----------------------------------------------------------------------------
(* Traversals are records of six fields.                                   *)
IsTraversal(s) ==
    s = [frame |-> s.frame, next |-> s.next, out |-> s.out, table |-> s.table,
         conns |-> s.conns, owner |-> s.owner]

(* Nothing but what is sent, nothing but the frame.                        *)
Sends(s, t, ps) ==
    /\ IsTraversal(t) /\ t.frame = s.frame /\ t.next = s.next /\ t.table = s.table
    /\ t.conns = s.conns /\ t.owner = s.owner
    /\ t.out = s.out \union {[port |-> p, frame |-> s.frame] : p \in ps}
Rewrites(s, t, f) ==
    /\ IsTraversal(t) /\ t.frame = f /\ t.next = s.next /\ t.table = s.table
    /\ t.conns = s.conns /\ t.owner = s.owner /\ t.out = s.out

Pushed(f) == [f EXCEPT !.vlans = <<"0">> \o @]
Popped(f) == [f EXCEPT !.vlans = Tail(@)]

LEMMA TraversalFields ==
    ASSUME NEW f, NEW n, NEW o, NEW tb, NEW cs, NEW w, NEW t,
           t = [frame |-> f, next |-> n, out |-> o, table |-> tb, conns |-> cs, owner |-> w]
    PROVE  /\ t.frame = f /\ t.next = n /\ t.out = o /\ t.table = tb /\ t.conns = cs
           /\ t.owner = w /\ IsTraversal(t)
<1>1. t.frame = f /\ t.next = n /\ t.out = o /\ t.table = tb /\ t.conns = cs /\ t.owner = w
  OBVIOUS
<1> QED
  BY <1>1 DEF IsTraversal

LEMMA EnteringFacts ==
    ASSUME NEW s, IsTraversal(s), NEW g, NEW t, t = Entering(s, g)
    PROVE  /\ IsTraversal(t) /\ t.frame = s.frame /\ t.next = NoTable /\ t.table = s.table
           /\ t.conns = s.conns /\ t.out = s.out /\ t.owner = g.owner
<1>1. t = [frame |-> s.frame, next |-> NoTable, out |-> s.out, table |-> s.table,
           conns |-> s.conns, owner |-> g.owner]
  BY DEF IsTraversal, Entering
<1> QED
  BY <1>1, TraversalFields

LEMMA ActSends ==
    ASSUME NEW s, IsTraversal(s), NEW t
    PROVE  /\ \A p : t \in Act(s, Output(p)) => Sends(s, t, {p} \ {s.frame.in_port})
           /\ t \in Act(s, InPort) => Sends(s, t, {s.frame.in_port})
           /\ t \in Act(s, Controller) => Sends(s, t, {ToController})
           /\ t \in Act(s, Flood) \union Act(s, Normal) => Sends(s, t, Ports \ {s.frame.in_port})
  BY DEF Act, Output, InPort, Controller, Flood, Normal, Sends, Sent, Others, IsTraversal

LEMMA ActRewrites ==
    ASSUME NEW s, IsTraversal(s), NEW t
    PROVE  /\ \A k, v : t \in Act(s, SetField(k, v)) => Rewrites(s, t, WithField(s.frame, k, v))
           /\ \A k, d : t \in Act(s, Move(k, d)) => Rewrites(s, t, WithField(s.frame, d, Field(s.frame, k)))
           /\ t \in Act(s, PushVlan) => Rewrites(s, t, Pushed(s.frame))
           /\ t \in Act(s, PopVlan) => Rewrites(s, t, Popped(s.frame))
<1>1. ASSUME NEW k, NEW v, t \in Act(s, SetField(k, v))
      PROVE  Rewrites(s, t, WithField(s.frame, k, v))
  BY <1>1 DEF Act, SetField, Rewrites, IsTraversal
<1>2. ASSUME NEW k, NEW d, t \in Act(s, Move(k, d))
      PROVE  Rewrites(s, t, WithField(s.frame, d, Field(s.frame, k)))
  BY <1>2 DEF Act, Move, Rewrites, IsTraversal
<1>3. t \in Act(s, PushVlan) => Rewrites(s, t, Pushed(s.frame))
  BY DEF Act, PushVlan, Rewrites, IsTraversal, Pushed
<1>4. t \in Act(s, PopVlan) => Rewrites(s, t, Popped(s.frame))
  BY DEF Act, PopVlan, Rewrites, IsTraversal, Popped
<1> QED
  BY <1>1, <1>2, <1>3, <1>4

(* One table: done already, a miss, or a flow that matches.                *)
LEMMA VisitFacts ==
    ASSUME NEW s, NEW t \in Visit(s)
    PROVE  \/ s.next = NoTable /\ t = s
           \/ s.next # NoTable /\ t = [s EXCEPT !.next = NoTable]
           \/ /\ s.next # NoTable
              /\ \E g \in s.table : /\ g.table = s.next /\ Matches(g.match, s.frame)
                                    /\ g \in Best(Hits(s)) /\ t \in Through(s, g)
<1>1. \A g \in Best(Hits(s)) : g \in s.table /\ g.table = s.next /\ Matches(g.match, s.frame)
  BY DEF Best, Hits
<1>2. \/ s.next = NoTable /\ t = s
      \/ s.next # NoTable /\ t = [s EXCEPT !.next = NoTable]
      \/ s.next # NoTable /\ \E g \in Best(Hits(s)) : t \in Through(s, g)
  BY DEF Visit
<1> QED
  BY <1>1, <1>2

LEMMA ThreeVisits ==
    ASSUME NEW tb, NEW cs, NEW f, NEW t \in Traversals(tb, cs, f)
    PROVE  \E u \in Visit(Entered(tb, cs, f)) : \E v \in Visit(u) : t \in Visit(v)
  BY DEF Traversals, Visits

LEMMA EnteredFacts ==
    ASSUME NEW tb, NEW cs, NEW f, NEW s, s = Entered(tb, cs, f)
    PROVE  /\ IsTraversal(s) /\ s.frame = f /\ s.next = 0 /\ s.out = {} /\ s.table = tb
           /\ s.conns = cs
  BY DEF Entered, IsTraversal

(* Lists of one, two and three actions.                                    *)
LEMMA OneAction ==
    ASSUME NEW s, NEW g, NEW a, g.actions = <<a>>, NEW t \in Through(s, g)
    PROVE  t \in Act(Entering(s, g), a)
<1>1. /\ g.actions \in Seq({a}) /\ Len(g.actions) = 1
      /\ 1 \in DOMAIN g.actions /\ g.actions[1] = a
  <2>1. <<a>> \in Seq({a})
    OBVIOUS
  <2>2. Len(<<a>>) = 1 /\ 1 \in DOMAIN <<a>> /\ <<a>>[1] = a
    OBVIOUS
  <2> QED
    BY <2>1, <2>2, Zenon
<1>2. PICK c : Leads(s, g, t, c)
  BY <1>1, ThroughChain
<1>4. c[0] = Entering(s, g) /\ c[1] = t
  BY <1>1, <1>2 DEF Leads
<1>3. c[1] \in Act(c[1 - 1], a)
  BY <1>1, <1>2 DEF Leads
<1> QED
  BY <1>3, <1>4

LEMMA TwoActions ==
    ASSUME NEW s, NEW g, NEW a, NEW b, g.actions = <<a, b>>, NEW t \in Through(s, g)
    PROVE  \E u \in Act(Entering(s, g), a) : t \in Act(u, b)
<1>1. /\ g.actions \in Seq({a, b}) /\ Len(g.actions) = 2
      /\ 1 \in DOMAIN g.actions /\ g.actions[1] = a
      /\ 2 \in DOMAIN g.actions /\ g.actions[2] = b
  <2>1. <<a, b>> \in Seq({a, b})
    OBVIOUS
  <2>2. /\ Len(<<a, b>>) = 2 /\ 1 \in DOMAIN <<a, b>> /\ 2 \in DOMAIN <<a, b>>
        /\ <<a, b>>[1] = a /\ <<a, b>>[2] = b
    OBVIOUS
  <2> QED
    BY <2>1, <2>2, Zenon
<1>2. PICK c : Leads(s, g, t, c)
  BY <1>1, ThroughChain
<1>4. c[0] = Entering(s, g) /\ c[2] = t
  BY <1>1, <1>2 DEF Leads
<1>3. c[1] \in Act(c[1 - 1], a) /\ c[2] \in Act(c[2 - 1], b)
  BY <1>1, <1>2 DEF Leads
<1> QED
  BY <1>3, <1>4

LEMMA ThreeActions ==
    ASSUME NEW s, NEW g, NEW a, NEW b, NEW d, g.actions = <<a, b, d>>, NEW t \in Through(s, g)
    PROVE  \E u \in Act(Entering(s, g), a) : \E v \in Act(u, b) : t \in Act(v, d)
<1>1. /\ g.actions \in Seq({a, b, d}) /\ Len(g.actions) = 3
      /\ 1 \in DOMAIN g.actions /\ g.actions[1] = a
      /\ 2 \in DOMAIN g.actions /\ g.actions[2] = b
      /\ 3 \in DOMAIN g.actions /\ g.actions[3] = d
  <2>1. <<a, b, d>> \in Seq({a, b, d})
    OBVIOUS
  <2>2. /\ Len(<<a, b, d>>) = 3
        /\ 1 \in DOMAIN <<a, b, d>> /\ 2 \in DOMAIN <<a, b, d>> /\ 3 \in DOMAIN <<a, b, d>>
        /\ <<a, b, d>>[1] = a /\ <<a, b, d>>[2] = b /\ <<a, b, d>>[3] = d
    OBVIOUS
  <2> QED
    BY <2>1, <2>2, Zenon
<1>2. PICK c : Leads(s, g, t, c)
  BY <1>1, ThroughChain
<1>4. c[0] = Entering(s, g) /\ c[3] = t
  BY <1>1, <1>2 DEF Leads
<1>3. /\ c[1] \in Act(c[1 - 1], a) /\ c[2] \in Act(c[2 - 1], b)
      /\ c[3] \in Act(c[3 - 1], d)
  BY <1>1, <1>2 DEF Leads
<1> QED
  BY <1>3, <1>4

LEMMA NoAction ==
    ASSUME NEW s, NEW g, g.actions = <<>>, NEW t \in Through(s, g)
    PROVE  t = Entering(s, g)
<1>1. g.actions \in Seq({}) /\ Len(g.actions) = 0
  <2>1. <<>> \in Seq({}) /\ Len(<<>>) = 0
    OBVIOUS
  <2> QED
    BY <2>1, Zenon
<1>2. PICK c : Leads(s, g, t, c)
  BY <1>1, ThroughChain
<1> QED
  BY <1>1, <1>2 DEF Leads

-----------------------------------------------------------------------------
(* The flows that a template installs, as the switch keeps them.           *)
Row(t, n, p, m, acts) ==
    [table |-> n, priority |-> p, match |-> m, actions |-> acts, owner |-> t]

LearnAction == Learn(1, 100, "eth_dst", "eth_src", "in_port")
Nat44 == CtNat(1, 2, [kind |-> "src", addrs |-> {"gw1", "gw2"}, port |-> "same"])
Nat66 == CtNat(1, 2, [kind |-> "src", addrs |-> {"gw6"}, port |-> "same"])
ToServer(port) == CtNat(1, 2, [kind |-> "dst", addrs |-> {"srv"}, port |-> port])
New == <<"ct_state", {"trk", "new"}>>
Est == <<"ct_state", {"trk", "est"}>>
Inv == <<"ct_state", {"trk", "inv"}>>

LearningRows ==
    {Row("learning", 0, 100, {}, <<LearnAction>>), Row("learning", 1, 1, {}, <<Flood>>)}
VlanRows ==
    {Row("vlan", 0, 100, {<<"in_port", 1>>}, <<PushVlan, SetField("vlan_vid", "10"), Output(2)>>),
     Row("vlan", 0, 100, {<<"in_port", 2>>, <<"vlan_vid", "10">>}, <<PopVlan, Output(1)>>),
     Row("vlan", 0, 100, {<<"in_port", 3>>}, <<PushVlan, SetField("vlan_vid", "20"), Output(2)>>),
     Row("vlan", 0, 100, {<<"in_port", 2>>, <<"vlan_vid", "20">>}, <<PopVlan, Output(3)>>),
     Row("vlan", 0, 100, {<<"in_port", 2>>, <<"vlan_vid", "30">>}, <<Output(4)>>),
     Row("vlan", 0, 100, {<<"in_port", 4>>, <<"vlan_vid", "31">>}, <<SetField("vlan_vid", "30"), Output(2)>>)}
MacNatRows ==
    {Row("mac_nat", 0, 100, {<<"in_port", 1>>, <<"eth_src", "h">>, <<"eth_type", "ip">>},
         <<SetField("eth_src", "x"), Output(2)>>),
     Row("mac_nat", 0, 100, {<<"in_port", 2>>, <<"eth_dst", "x">>, <<"eth_type", "ip">>},
         <<SetField("eth_dst", "h"), Output(1)>>),
     Row("mac_nat", 0, 100, {<<"in_port", 1>>, <<"eth_src", "h">>, <<"eth_type", "ip6">>},
         <<SetField("eth_src", "x"), Output(2)>>),
     Row("mac_nat", 0, 100, {<<"in_port", 2>>, <<"eth_dst", "x">>, <<"eth_type", "ip6">>},
         <<SetField("eth_dst", "h"), Output(1)>>),
     Row("mac_nat", 0, 100, {<<"in_port", 1>>, <<"eth_src", "h">>, <<"eth_type", "arp">>},
         <<SetField("eth_src", "x"), SetField("sha", "x"), Output(2)>>),
     Row("mac_nat", 0, 100, {<<"in_port", 2>>, <<"eth_dst", "x">>, <<"eth_type", "arp">>},
         <<SetField("eth_dst", "h"), SetField("tha", "h"), Output(1)>>)}
Answering ==
    <<Move("sha", "tha"), Move("spa", "tpa"), SetField("sha", "x"), SetField("spa", "gw1"),
      SetField("arp_op", "reply"), Move("eth_src", "eth_dst"), SetField("eth_src", "x"), InPort>>
ArpProxyRows == {Row("arp_proxy", 0, 200, ArpRequestFor(ArpProxyConfig), Answering)}
NdpProxyRows == {Row("ndp_proxy", 0, 200, Solicitation(2), <<Controller>>)}
SnatRows ==
    {Row("snat", 0, 65530, {<<"eth_type", "ip">>}, <<Ct(1, 1)>>),
     Row("snat", 0, 65530, {<<"eth_type", "ip6">>}, <<Ct(1, 1)>>),
     Row("snat", 0, 65530, {<<"eth_type", "arp">>}, <<Normal>>),
     Row("snat", 1, 4, {Inv}, <<>>),
     Row("snat", 1, 65535, {<<"in_port", 1>>, Est}, <<Output(2)>>),
     Row("snat", 1, 65535, {<<"in_port", 2>>, Est}, <<Output(1)>>),
     Row("snat", 1, 65530, {<<"in_port", 1>>, <<"eth_type", "ip">>, New}, <<Nat44>>),
     Row("snat", 1, 65530, {<<"in_port", 1>>, <<"eth_type", "ip6">>, New}, <<Nat66>>),
     Row("snat", 2, 65530, {<<"in_port", 1>>}, <<Output(2)>>),
     Row("snat", 2, 65530, {<<"in_port", 2>>}, <<Output(1)>>)}
DnatRows ==
    {Row("dnat", 0, 100, {<<"eth_type", "ip">>}, <<Ct(1, 1)>>),
     Row("dnat", 1, 110, {Inv}, <<>>),
     Row("dnat", 1, 105, {<<"in_port", 2>>, Est}, <<Output(1)>>),
     Row("dnat", 1, 105, {<<"in_port", 1>>, Est}, <<Output(2)>>),
     Row("dnat", 1, 100, {<<"in_port", 2>>, <<"eth_type", "ip">>, <<"ip_proto", "tcp">>, New,
                          <<"tp_dst", "80">>}, <<ToServer("8080")>>),
     Row("dnat", 1, 100, {<<"in_port", 2>>, <<"eth_type", "ip">>, <<"ip_proto", "udp">>, New,
                          <<"tp_dst", "53">>}, <<ToServer("same")>>),
     Row("dnat", 2, 100, {<<"in_port", 2>>}, <<Output(1)>>),
     Row("dnat", 2, 100, {<<"in_port", 1>>}, <<Output(2)>>)}
Rows(t) ==
    CASE t = "learning" -> LearningRows [] t = "vlan" -> VlanRows [] t = "mac_nat" -> MacNatRows
      [] t = "arp_proxy" -> ArpProxyRows [] t = "ndp_proxy" -> NdpProxyRows
      [] t = "snat" -> SnatRows [] t = "dnat" -> DnatRows

-----------------------------------------------------------------------------
(* Sequences put together.                                                 *)
LEMMA PairJoined ==
    ASSUME NEW S, NEW u \in Seq(S), NEW v \in Seq(S), Len(u) = 1, Len(v) = 1,
           NEW w \in Seq(S), Len(w) = 2, w[1] = u[1], w[2] = v[1]
    PROVE  u \o v = w
<1> DEFINE x == u \o v
<1>1. Len(x) = 2 /\ x \in Seq(S)
  BY ConcatProperties
<1>2. \A i \in 1 .. 2 : x[i] = IF i <= 1 THEN u[i] ELSE v[i - 1]
  BY ConcatProperties
<1> HIDE DEF x
<1>3. \A i \in 1 .. Len(w) : x[i] = w[i]
  BY <1>2
<1>4. x = w
  BY <1>1, <1>3, SeqEqual
<1> QED
  BY <1>4 DEF x

LEMMA TripleJoined ==
    ASSUME NEW S, NEW u \in Seq(S), NEW v \in Seq(S), Len(u) = 2, Len(v) = 1,
           NEW w \in Seq(S), Len(w) = 3, w[1] = u[1], w[2] = u[2], w[3] = v[1]
    PROVE  u \o v = w
<1> DEFINE x == u \o v
<1>0. /\ x \in Seq(S) /\ Len(x) = Len(u) + Len(v)
      /\ \A i \in 1 .. Len(u) + Len(v) : x[i] = IF i <= Len(u) THEN u[i] ELSE v[i - Len(u)]
  BY ConcatProperties, Zenon
<1> HIDE DEF x
<1>1. Len(x) = 3 /\ x \in Seq(S)
  BY <1>0
<1>2. \A i \in 1 .. 3 : x[i] = IF i <= 2 THEN u[i] ELSE v[i - 2]
  BY <1>0
<1>3. \A i \in 1 .. Len(w) : x[i] = w[i]
  BY <1>2
<1>4. x = w
  BY <1>1, <1>3, SeqEqual
<1> QED
  BY <1>4 DEF x

LEMMA TwoJoined == \A a, b : <<a>> \o <<b>> = <<a, b>>
<1> SUFFICES ASSUME NEW a, NEW b PROVE <<a>> \o <<b>> = <<a, b>>
  OBVIOUS
<1> DEFINE u == <<a>>
           v == <<b>>
           w == <<a, b>>
<1>1. u \in Seq({a, b}) /\ v \in Seq({a, b}) /\ w \in Seq({a, b})
  OBVIOUS
<1>2. Len(u) = 1 /\ Len(v) = 1 /\ Len(w) = 2
  OBVIOUS
<1>3. w[1] = u[1] /\ w[2] = v[1]
  OBVIOUS
<1> HIDE DEF u, v, w
<1>4. u \o v = w
  BY <1>1, <1>2, <1>3, PairJoined
<1> QED
  BY <1>4 DEF u, v, w

LEMMA ThreeJoined == \A a, b, d : <<a>> \o <<b>> \o <<d>> = <<a, b, d>>
<1> SUFFICES ASSUME NEW a, NEW b, NEW d PROVE <<a>> \o <<b>> \o <<d>> = <<a, b, d>>
  OBVIOUS
<1> DEFINE u == <<a, b>>
           v == <<d>>
           w == <<a, b, d>>
<1>1. u \in Seq({a, b, d}) /\ v \in Seq({a, b, d}) /\ w \in Seq({a, b, d})
  OBVIOUS
<1>2. Len(u) = 2 /\ Len(v) = 1 /\ Len(w) = 3
  OBVIOUS
<1>3. w[1] = u[1] /\ w[2] = u[2] /\ w[3] = v[1]
  OBVIOUS
<1> HIDE DEF u, v, w
<1>4. u \o v = w
  BY <1>1, <1>2, <1>3, TripleJoined
<1> QED
  BY <1>4, TwoJoined DEF u, v, w

(* FlattenSeq recurses over the positions.                                 *)
Flattening(f, q) == f = [i \in 1 .. Len(q) |-> IF i = 1 THEN q[i] ELSE f[i - 1] \o q[i]]

LEMMA PairFlattened ==
    ASSUME NEW q, NEW a, NEW b, Len(q) = 2, q[1] = a, q[2] = b
    PROVE  FlattenSeq(q) = a \o b
<1> DEFINE g == [i \in 1 .. 2 |-> IF i = 1 THEN a ELSE a \o b]
           h == CHOOSE f : Flattening(f, q)
<1>1. Flattening(g, q)
  BY DEF Flattening
<1>2. Flattening(h, q)
  BY <1>1, Zenon
<1>3. FlattenSeq(q) = h[Len(q)]
  BY DEF FlattenSeq, Flattening
<1> HIDE DEF h
<1>4. h = [i \in 1 .. 2 |-> IF i = 1 THEN q[i] ELSE h[i - 1] \o q[i]]
  BY <1>2 DEF Flattening
<1>5. h[1] = a
  BY <1>4
<1>6. h[2] = h[2 - 1] \o q[2]
  <2> DEFINE e(i) == IF i = 1 THEN q[i] ELSE h[i - 1] \o q[i]
  <2>1. e(2) = h[2 - 1] \o q[2]
    OBVIOUS
  <2>2. h = [i \in 1 .. 2 |-> e(i)]
    BY <1>4
  <2> HIDE DEF e
  <2>3. h[2] = e(2)
    BY <2>2
  <2> QED
    BY <2>1, <2>3
<1>7. 2 - 1 = 1 /\ FlattenSeq(q) = h[2]
  BY <1>3
<1> QED
  BY <1>5, <1>6, <1>7, Zenon

-----------------------------------------------------------------------------
(* What is sent for a row.                                                 *)
Mod(n, p, m, acts) ==
    [command |-> "add", table |-> n, priority |-> p, match |-> m, actions |-> acts]
Before(acts) ==
    IF acts = <<>> THEN <<Drop>>
    ELSE IF acts = <<LearnAction>> THEN <<LearnAction, GotoTable(1)>> ELSE acts
Mods(t) == {Mod(g.table, g.priority, g.match, Before(g.actions)) : g \in Rows(t)}

(* Parts of a list of flow mods for template t.                            *)
Part(q, t) == q \in Seq(Mods(t)) /\ Len(q) > 0

LEMMA OnePart == ASSUME NEW t, NEW m \in Mods(t) PROVE Part(<<m>>, t)
<1>1. <<m>> \in Seq(Mods(t))
  OBVIOUS
<1>2. Len(<<m>>) = 1
  OBVIOUS
<1> QED
  BY <1>1, <1>2 DEF Part

LEMMA MoreParts == ASSUME NEW t, NEW p, NEW q, Part(p, t), Part(q, t) PROVE Part(p \o q, t)
<1>1. p \o q \in Seq(Mods(t)) /\ Len(p \o q) = Len(p) + Len(q)
  BY ConcatProperties DEF Part
<1> QED
  BY <1>1 DEF Part

LEMMA Widths ==
    /\ 0 % 256 = 0 /\ 1 % 256 = 1 /\ (0 + 1) % 256 = 1 /\ (0 + 2) % 256 = 2
    /\ 1 % 65536 = 1 /\ 100 % 65536 = 100 /\ 200 % 65536 = 200
    /\ (100 + 5) % 65536 = 105 /\ (100 + 10) % 65536 = 110
    /\ 65530 % 65536 = 65530 /\ (65530 + 5) % 65536 = 65535 /\ (65530 + 10) % 65536 = 4
  OBVIOUS

LEMMA AddIsMod == \A n, p, m, acts : AddFlow(n, p, m, acts) = Mod(n % 256, p % 65536, m, acts)
  BY DEF AddFlow, Mod

(* Rows are told apart from their actions.                                 *)
LEMMA RowMod ==
    ASSUME NEW t, NEW o, NEW n, NEW p, NEW m, NEW acts, Row(o, n, p, m, acts) \in Rows(t),
           acts # <<>>, acts # <<LearnAction>>
    PROVE  Mod(n, p, m, acts) \in Mods(t)
<1> DEFINE g == Row(o, n, p, m, acts)
<1>1. g.table = n /\ g.priority = p /\ g.match = m /\ g.actions = acts
  BY DEF Row
<1> HIDE DEF g
<1>2. Before(g.actions) = acts
  BY <1>1 DEF Before
<1>3. g \in Rows(t)
  BY DEF g
<1> QED
  BY <1>1, <1>2, <1>3 DEF Mods

LEMMA PairPart ==
    ASSUME NEW t, NEW a \in Mods(t), NEW b \in Mods(t) PROVE Part(<<a, b>>, t)
  BY OnePart, MoreParts, TwoJoined

LEMMA TriplePart ==
    ASSUME NEW t, NEW a \in Mods(t), NEW b \in Mods(t), NEW d \in Mods(t)
    PROVE  Part(<<a, b, d>>, t)
  BY OnePart, MoreParts, ThreeJoined

LEMMA SixParts ==
    ASSUME NEW t, NEW a \in Mods(t), NEW b \in Mods(t), NEW d \in Mods(t),
           NEW u \in Mods(t), NEW v \in Mods(t), NEW w \in Mods(t)
    PROVE  Part(<<a, b, d, u, v, w>>, t)
<1>1. <<a, b, d, u, v, w>> \in Seq(Mods(t))
  OBVIOUS
<1>2. Len(<<a, b, d, u, v, w>>) = 6
  OBVIOUS
<1> QED
  BY <1>1, <1>2 DEF Part

LEMMA Nonempty ==
    /\ \A a : <<a>> # <<>>
    /\ \A a, b : <<a, b>> # <<>>
    /\ \A a, b, d : <<a, b, d>> # <<>>
    /\ Answering # <<>>
<1>1. ASSUME NEW a, NEW b, NEW d PROVE <<a>> # <<>> /\ <<a, b>> # <<>> /\ <<a, b, d>> # <<>>
  <2>1. Len(<<a>>) = 1 /\ Len(<<a, b>>) = 2 /\ Len(<<a, b, d>>) = 3 /\ Len(<<>>) = 0
    OBVIOUS
  <2> QED
    BY <2>1
<1>2. Len(Answering) = 8
  BY DEF Answering
<1>3. Len(<<>>) = 0
  OBVIOUS
<1>4. Answering # <<>>
  BY <1>2, <1>3
<1> QED
  BY <1>1, <1>4

(* Nor do they learn, but for the one that does.                           *)
LEMMA NotLearning ==
    /\ \A a : a.type # "learn" => <<a>> # <<LearnAction>>
    /\ \A a, b : <<a, b>> # <<LearnAction>>
    /\ \A a, b, d : <<a, b, d>> # <<LearnAction>>
    /\ Answering # <<LearnAction>>
<1> DEFINE q == <<LearnAction>>
<1>1. Len(q) = 1 /\ q[1].type = "learn"
  BY DEF LearnAction, Learn
<1> HIDE DEF q
<1>2. ASSUME NEW a, a.type # "learn" PROVE <<a>> # q
  <2>1. <<a>>[1] = a
    OBVIOUS
  <2> QED
    BY <1>1, <1>2, <2>1
<1>3. ASSUME NEW a, NEW b, NEW d PROVE <<a, b>> # q /\ <<a, b, d>> # q
  <2>1. Len(<<a, b>>) = 2 /\ Len(<<a, b, d>>) = 3
    OBVIOUS
  <2> QED
    BY <1>1, <2>1
<1>4. Len(Answering) = 8
  BY DEF Answering
<1>5. Answering # q
  BY <1>1, <1>4
<1> QED
  BY <1>2, <1>3, <1>5 DEF q

LEMMA LearningSent == Part(FlowsOf("learning"), "learning")
<1> DEFINE g == Row("learning", 0, 100, {}, <<LearnAction>>)
<1>1. Mod(0, 100, {}, <<LearnAction, GotoTable(1)>>) \in Mods("learning")
  <2>1. g \in Rows("learning")
    BY DEF Rows, LearningRows
  <2>2. g.table = 0 /\ g.priority = 100 /\ g.match = {} /\ g.actions = <<LearnAction>>
    BY DEF Row
  <2> HIDE DEF g
  <2>3. Before(g.actions) = <<LearnAction, GotoTable(1)>>
    BY <2>2, Nonempty DEF Before
  <2> QED
    BY <2>1, <2>2, <2>3 DEF Mods
<1>2. Mod(1, 1, {}, <<Flood>>) \in Mods("learning")
  <2>1. Row("learning", 1, 1, {}, <<Flood>>) \in Rows("learning")
    BY DEF Rows, LearningRows
  <2>2. Flood.type # "learn"
    BY DEF Flood
  <2> QED
    BY <2>1, <2>2, RowMod, Nonempty, NotLearning
<1>3. FlowsOf("learning") = <<Mod(0, 100, {}, <<LearnAction, GotoTable(1)>>), Mod(1, 1, {}, <<Flood>>)>>
  <2>1. FlowsOf("learning") = LearningFlows(LearningConfig)
    BY DEF FlowsOf
  <2>2. LearningConfig.learn_table = 0 /\ LearningConfig.forward_table = 1
    BY DEF LearningConfig
  <2>3. LearningFlow(LearningConfig) = Mod(0, 100, {}, <<LearnAction, GotoTable(1)>>)
    BY <2>2, AddIsMod, Widths DEF LearningFlow, LearnAction
  <2>4. FloodFlow(LearningConfig) = Mod(1, 1, {}, <<Flood>>)
    BY <2>2, AddIsMod, Widths DEF FloodFlow
  <2> QED
    BY <2>1, <2>3, <2>4 DEF LearningFlows
<1> QED
  BY <1>1, <1>2, <1>3, PairPart

(* The types of the actions.                                               *)
LEMMA Types ==
    /\ \A p : Output(p).type = "output"
    /\ Flood.type = "flood" /\ Normal.type = "normal" /\ InPort.type = "in_port"
    /\ Controller.type = "controller" /\ Drop.type = "drop" /\ PushVlan.type = "push_vlan"
    /\ PopVlan.type = "pop_vlan"
    /\ \A n : GotoTable(n).type = "goto_table"
    /\ \A k, v : SetField(k, v).type = "set" /\ Move(k, v).type = "move"
    /\ \A z, n : Ct(z, n).type = "ct" /\ \A a : CtNat(z, n, a).type = "ct_nat"
    /\ LearnAction.type = "learn"
  BY DEF Output, Flood, Normal, InPort, Controller, Drop, PushVlan, PopVlan, GotoTable, SetField,
         Move, Ct, CtNat, LearnAction, Learn

LEMMA RowMods ==
    ASSUME NEW t, NEW o, NEW n, NEW p, NEW m
    PROVE  /\ \A a : Row(o, n, p, m, <<a>>) \in Rows(t) /\ a.type # "learn"
                        => Mod(n, p, m, <<a>>) \in Mods(t)
           /\ \A a, b : Row(o, n, p, m, <<a, b>>) \in Rows(t) => Mod(n, p, m, <<a, b>>) \in Mods(t)
           /\ \A a, b, d : Row(o, n, p, m, <<a, b, d>>) \in Rows(t)
                              => Mod(n, p, m, <<a, b, d>>) \in Mods(t)
<1>1. ASSUME NEW a, Row(o, n, p, m, <<a>>) \in Rows(t), a.type # "learn"
      PROVE  Mod(n, p, m, <<a>>) \in Mods(t)
  BY <1>1, RowMod, Nonempty, NotLearning
<1>2. ASSUME NEW a, NEW b, Row(o, n, p, m, <<a, b>>) \in Rows(t)
      PROVE  Mod(n, p, m, <<a, b>>) \in Mods(t)
  BY <1>2, RowMod, Nonempty, NotLearning
<1>3. ASSUME NEW a, NEW b, NEW d, Row(o, n, p, m, <<a, b, d>>) \in Rows(t)
      PROVE  Mod(n, p, m, <<a, b, d>>) \in Mods(t)
  BY <1>3, RowMod, Nonempty, NotLearning
<1> QED
  BY <1>1, <1>2, <1>3

LEMMA VlanSent == Part(FlowsOf("vlan"), "vlan")
<1> DEFINE a == AccessPorts[1]
           b == AccessPorts[2]
           each == [i \in DOMAIN AccessPorts |-> AccessPortFlows(AccessPorts[i], 0, 100)]
<1>1. /\ a.port = 1 /\ a.vlan_id = "10" /\ a.trunk_port = 2
      /\ b.port = 3 /\ b.vlan_id = "20" /\ b.trunk_port = 2
  BY DEF AccessPorts
<1>2. DOMAIN AccessPorts = 1 .. 2
  BY DEF AccessPorts
<1> HIDE DEF a, b
<1>3. /\ PushVlanFlow(1, 2, "10", 0, 100) \in Mods("vlan")
      /\ PopVlanFlow(2, 1, "10", 0, 100) \in Mods("vlan")
      /\ PushVlanFlow(3, 2, "20", 0, 100) \in Mods("vlan")
      /\ PopVlanFlow(2, 3, "20", 0, 100) \in Mods("vlan")
      /\ ForwardVlanFlow(2, 4, "30", 0, 100) \in Mods("vlan")
      /\ TranslateVlanFlow(4, 2, "31", "30", 0, 100) \in Mods("vlan")
  <2>1. Rows("vlan") = VlanRows
    BY DEF Rows
  <2>2. PushVlanFlow(1, 2, "10", 0, 100) \in Mods("vlan")
    BY <2>1, RowMods, AddIsMod, Widths DEF VlanRows, PushVlanFlow
  <2>3. PopVlanFlow(2, 1, "10", 0, 100) \in Mods("vlan")
    BY <2>1, RowMods, AddIsMod, Widths DEF VlanRows, PopVlanFlow
  <2>4. PushVlanFlow(3, 2, "20", 0, 100) \in Mods("vlan")
    BY <2>1, RowMods, AddIsMod, Widths DEF VlanRows, PushVlanFlow
  <2>5. PopVlanFlow(2, 3, "20", 0, 100) \in Mods("vlan")
    BY <2>1, RowMods, AddIsMod, Widths DEF VlanRows, PopVlanFlow
  <2>6. ForwardVlanFlow(2, 4, "30", 0, 100) \in Mods("vlan")
    BY <2>1, RowMods, AddIsMod, Widths, Types, SMTT(60) DEF VlanRows, ForwardVlanFlow
  <2>7. TranslateVlanFlow(4, 2, "31", "30", 0, 100) \in Mods("vlan")
    BY <2>1, RowMods, AddIsMod, Widths DEF VlanRows, TranslateVlanFlow
  <2> QED
    BY <2>2, <2>3, <2>4, <2>5, <2>6, <2>7
<1>4. /\ Part(AccessPortFlows(a, 0, 100), "vlan") /\ Part(AccessPortFlows(b, 0, 100), "vlan")
  BY <1>1, <1>3, PairPart DEF AccessPortFlows
<1>5. Len(each) = 2 /\ each[1] = AccessPortFlows(a, 0, 100) /\ each[2] = AccessPortFlows(b, 0, 100)
  BY <1>2 DEF a, b
<1> HIDE DEF each
<1>6. FlattenSeq(each) = AccessPortFlows(a, 0, 100) \o AccessPortFlows(b, 0, 100)
  BY <1>5, PairFlattened
<1>7. Part(FlattenSeq(each), "vlan")
  BY <1>4, <1>6, MoreParts
<1>8. Part(<<ForwardVlanFlow(2, 4, "30", 0, 100), TranslateVlanFlow(4, 2, "31", "30", 0, 100)>>, "vlan")
  BY <1>3, PairPart
<1>9. FlowsOf("vlan") = FlattenSeq(each) \o <<ForwardVlanFlow(2, 4, "30", 0, 100),
                                            TranslateVlanFlow(4, 2, "31", "30", 0, 100)>>
  BY DEF FlowsOf, VlanConfigFlows, each
<1> QED
  BY <1>7, <1>8, <1>9, MoreParts

LEMMA MacNatSent == Part(FlowsOf("mac_nat"), "mac_nat")
<1> DEFINE c == MacNatConfig
<1>1. /\ c.internal_mac = "h" /\ c.external_mac = "x" /\ c.internal_port = 1
      /\ c.external_port = 2
  BY DEF MacNatConfig
<1> HIDE DEF c
<1>2. ASSUME NEW et PROVE
      /\ Outbound(c, et, 0, 100, <<>>)
            = Mod(0, 100, {<<"in_port", 1>>, <<"eth_src", "h">>, <<"eth_type", et>>},
                  <<SetField("eth_src", "x"), Output(2)>>)
      /\ Inbound(c, et, 0, 100, <<>>)
            = Mod(0, 100, {<<"in_port", 2>>, <<"eth_dst", "x">>, <<"eth_type", et>>},
                  <<SetField("eth_dst", "h"), Output(1)>>)
  <2>1. \A u, v : <<u>> \o <<>> \o <<v>> = <<u, v>>
    <3>1. ASSUME NEW u, NEW v PROVE <<u>> \o <<>> \o <<v>> = <<u, v>>
      <4>1. <<u>> \o <<>> = <<u>>
        <5>1. <<u>> \in Seq({u})
          OBVIOUS
        <5> QED
          BY <5>1, ConcatEmptySeq
      <4> QED
        BY <4>1, TwoJoined
    <3> QED
      BY <3>1
  <2>2. /\ <<SetField("eth_src", "x")>> \o <<>> \o <<Output(2)>> = <<SetField("eth_src", "x"), Output(2)>>
        /\ <<SetField("eth_dst", "h")>> \o <<>> \o <<Output(1)>> = <<SetField("eth_dst", "h"), Output(1)>>
    BY <2>1, Zenon
  <2>3. Outbound(c, et, 0, 100, <<>>)
           = AddFlow(0, 100, {<<"in_port", 1>>, <<"eth_src", "h">>, <<"eth_type", et>>},
                     <<SetField("eth_src", "x"), Output(2)>>)
    BY <1>1, <2>2, Zenon DEF Outbound
  <2>4. Inbound(c, et, 0, 100, <<>>)
           = AddFlow(0, 100, {<<"in_port", 2>>, <<"eth_dst", "x">>, <<"eth_type", et>>},
                     <<SetField("eth_dst", "h"), Output(1)>>)
    BY <1>1, <2>2, Zenon DEF Inbound
  <2> QED
    BY <2>3, <2>4, AddIsMod, Widths
<1>3. /\ ArpOutbound(c, 0, 100)
            = Mod(0, 100, {<<"in_port", 1>>, <<"eth_src", "h">>, <<"eth_type", "arp">>},
                  <<SetField("eth_src", "x"), SetField("sha", "x"), Output(2)>>)
      /\ ArpInbound(c, 0, 100)
            = Mod(0, 100, {<<"in_port", 2>>, <<"eth_dst", "x">>, <<"eth_type", "arp">>},
                  <<SetField("eth_dst", "h"), SetField("tha", "h"), Output(1)>>)
  <2>1. ArpOutbound(c, 0, 100)
           = AddFlow(0, 100, {<<"in_port", 1>>, <<"eth_src", "h">>, <<"eth_type", "arp">>},
                     <<SetField("eth_src", "x"), SetField("sha", "x"), Output(2)>>)
    BY <1>1, ThreeJoined, Zenon DEF ArpOutbound, Outbound
  <2>2. ArpInbound(c, 0, 100)
           = AddFlow(0, 100, {<<"in_port", 2>>, <<"eth_dst", "x">>, <<"eth_type", "arp">>},
                     <<SetField("eth_dst", "h"), SetField("tha", "h"), Output(1)>>)
    BY <1>1, ThreeJoined, Zenon DEF ArpInbound, Inbound
  <2> QED
    BY <2>1, <2>2, AddIsMod, Widths
<1>4. Rows("mac_nat") = MacNatRows
  BY DEF Rows
<1>5. ASSUME NEW et \in {"ip", "ip6"}
      PROVE  /\ Outbound(c, et, 0, 100, <<>>) \in Mods("mac_nat")
             /\ Inbound(c, et, 0, 100, <<>>) \in Mods("mac_nat")
  <2>1. /\ Row("mac_nat", 0, 100, {<<"in_port", 1>>, <<"eth_src", "h">>, <<"eth_type", et>>},
               <<SetField("eth_src", "x"), Output(2)>>) \in MacNatRows
        /\ Row("mac_nat", 0, 100, {<<"in_port", 2>>, <<"eth_dst", "x">>, <<"eth_type", et>>},
               <<SetField("eth_dst", "h"), Output(1)>>) \in MacNatRows
    BY Zenon DEF MacNatRows
  <2>2. /\ Mod(0, 100, {<<"in_port", 1>>, <<"eth_src", "h">>, <<"eth_type", et>>},
               <<SetField("eth_src", "x"), Output(2)>>) \in Mods("mac_nat")
        /\ Mod(0, 100, {<<"in_port", 2>>, <<"eth_dst", "x">>, <<"eth_type", et>>},
               <<SetField("eth_dst", "h"), Output(1)>>) \in Mods("mac_nat")
    BY <1>4, <2>1, RowMods
  <2> QED
    BY <1>2, <2>2, Zenon
<1>6. ArpOutbound(c, 0, 100) \in Mods("mac_nat") /\ ArpInbound(c, 0, 100) \in Mods("mac_nat")
  <2>1. /\ Row("mac_nat", 0, 100, {<<"in_port", 1>>, <<"eth_src", "h">>, <<"eth_type", "arp">>},
               <<SetField("eth_src", "x"), SetField("sha", "x"), Output(2)>>) \in MacNatRows
        /\ Row("mac_nat", 0, 100, {<<"in_port", 2>>, <<"eth_dst", "x">>, <<"eth_type", "arp">>},
               <<SetField("eth_dst", "h"), SetField("tha", "h"), Output(1)>>) \in MacNatRows
    BY Zenon DEF MacNatRows
  <2>2. /\ Mod(0, 100, {<<"in_port", 1>>, <<"eth_src", "h">>, <<"eth_type", "arp">>},
               <<SetField("eth_src", "x"), SetField("sha", "x"), Output(2)>>) \in Mods("mac_nat")
        /\ Mod(0, 100, {<<"in_port", 2>>, <<"eth_dst", "x">>, <<"eth_type", "arp">>},
               <<SetField("eth_dst", "h"), SetField("tha", "h"), Output(1)>>) \in Mods("mac_nat")
    BY <1>4, <2>1, RowMods
  <2> QED
    BY <1>3, <2>2, Zenon
<1>7. /\ Outbound(c, "ip", 0, 100, <<>>) \in Mods("mac_nat")
      /\ Outbound(c, "ip6", 0, 100, <<>>) \in Mods("mac_nat")
      /\ Inbound(c, "ip", 0, 100, <<>>) \in Mods("mac_nat")
      /\ Inbound(c, "ip6", 0, 100, <<>>) \in Mods("mac_nat")
  BY <1>5
<1>8. FlowsOf("mac_nat") = MacNatFlows(c, 0, 100)
  BY DEF FlowsOf, c
<1> QED
  BY <1>6, <1>7, <1>8, SixParts DEF MacNatFlows

LEMMA ProxiesSent ==
    Part(FlowsOf("arp_proxy"), "arp_proxy") /\ Part(FlowsOf("ndp_proxy"), "ndp_proxy")
<1>1. ArpProxyFlow(ArpProxyConfig, 0, 200) \in Mods("arp_proxy")
  <2>1. ArpProxyConfig.mac = "x" /\ ArpProxyConfig.ip = "gw1"
    BY DEF ArpProxyConfig
  <2>2. ArpProxyFlow(ArpProxyConfig, 0, 200) = Mod(0, 200, ArpRequestFor(ArpProxyConfig), Answering)
    BY <2>1, AddIsMod, Widths DEF ArpProxyFlow, Answering
  <2>3. Row("arp_proxy", 0, 200, ArpRequestFor(ArpProxyConfig), Answering) \in Rows("arp_proxy")
    BY DEF Rows, ArpProxyRows
  <2> QED
    BY <2>2, <2>3, RowMod, Nonempty, NotLearning
<1>2. NdpProxyFlow(NdpProxyConfig, 0, 200) \in Mods("ndp_proxy")
  <2>1. NdpProxyConfig.port = 2
    BY DEF NdpProxyConfig
  <2>2. NdpProxyFlow(NdpProxyConfig, 0, 200) = Mod(0, 200, Solicitation(2), <<Controller>>)
    BY <2>1, AddIsMod, Widths DEF NdpProxyFlow
  <2>3. Row("ndp_proxy", 0, 200, Solicitation(2), <<Controller>>) \in Rows("ndp_proxy")
    BY DEF Rows, NdpProxyRows
  <2> QED
    BY <2>2, <2>3, RowMods, Types
<1>3. /\ FlowsOf("arp_proxy") = <<ArpProxyFlow(ArpProxyConfig, 0, 200)>>
      /\ FlowsOf("ndp_proxy") = <<NdpProxyFlow(NdpProxyConfig, 0, 200)>>
  BY DEF FlowsOf
<1> QED
  BY <1>1, <1>2, <1>3, OnePart

LEMMA DropSent ==
    ASSUME NEW t, NEW o, NEW n, NEW p, NEW m, Row(o, n, p, m, <<>>) \in Rows(t)
    PROVE  Mod(n, p, m, <<Drop>>) \in Mods(t)
<1> DEFINE g == Row(o, n, p, m, <<>>)
<1>1. g.table = n /\ g.priority = p /\ g.match = m /\ g.actions = <<>>
  BY DEF Row
<1>2. g \in Rows(t)
  OBVIOUS
<1> HIDE DEF g
<1>3. Before(g.actions) = <<Drop>>
  BY <1>1 DEF Before
<1> QED
  BY <1>1, <1>2, <1>3 DEF Mods

LEMMA SnatSent == Part(FlowsOf("snat"), "snat")
<1> DEFINE c == SnatConfig
           p == 65530
<1>1. /\ c.internal_port = 1 /\ c.external_port = 2 /\ c.zone = 1
      /\ c.v4 = {"gw1", "gw2"} /\ c.v6 = {"gw6"} /\ c.v4 # {} /\ c.v6 # {}
  BY DEF SnatConfig
<1>2. FlowsOf("snat") = SnatFlows(c, 0, p)
  BY DEF FlowsOf
<1> HIDE DEF c
<1>3. Rows("snat") = SnatRows
  BY DEF Rows
<1>4. ASSUME NEW et \in {"ip", "ip6"} PROVE Track(et, c, 0, p) \in Mods("snat")
  <2>1. /\ Row("snat", 0, 65530, {<<"eth_type", "ip">>}, <<Ct(1, 1)>>) \in SnatRows
        /\ Row("snat", 0, 65530, {<<"eth_type", "ip6">>}, <<Ct(1, 1)>>) \in SnatRows
    BY DEF SnatRows
  <2>2. /\ Mod(0, 65530, {<<"eth_type", "ip">>}, <<Ct(1, 1)>>) \in Mods("snat")
        /\ Mod(0, 65530, {<<"eth_type", "ip6">>}, <<Ct(1, 1)>>) \in Mods("snat")
    BY <1>3, <2>1, RowMods, Types
  <2>3. Mod(0, 65530, {<<"eth_type", et>>}, <<Ct(1, 1)>>) \in Mods("snat")
    BY <2>2
  <2> QED
    BY <1>1, <2>3, AddIsMod, Widths DEF Track
<1>5. AddFlow(0, p, {<<"eth_type", "arp">>}, <<Normal>>) \in Mods("snat")
  <2>1. Row("snat", 0, 65530, {<<"eth_type", "arp">>}, <<Normal>>) \in SnatRows
    BY DEF SnatRows
  <2>2. Mod(0, 65530, {<<"eth_type", "arp">>}, <<Normal>>) \in Mods("snat")
    BY <1>3, <2>1, RowMods, Types
  <2> QED
    BY <2>2, AddIsMod, Widths
<1>6. DropInvalid(0, p) \in Mods("snat")
  <2>1. Row("snat", 1, 4, {<<"ct_state", {"trk", "inv"}>>}, <<>>) \in SnatRows
    BY DEF SnatRows, Inv
  <2>2. Mod(1, 4, {<<"ct_state", {"trk", "inv"}>>}, <<Drop>>) \in Mods("snat")
    BY <1>3, <2>1, DropSent
  <2> QED
    BY <2>2, AddIsMod, Widths DEF DropInvalid
<1>7. Established(1, 2, 0, p) \in Mods("snat") /\ Established(2, 1, 0, p) \in Mods("snat")
  <2>1. /\ Row("snat", 1, 65535, {<<"in_port", 1>>, <<"ct_state", {"trk", "est"}>>}, <<Output(2)>>) \in SnatRows
        /\ Row("snat", 1, 65535, {<<"in_port", 2>>, <<"ct_state", {"trk", "est"}>>}, <<Output(1)>>) \in SnatRows
    BY DEF SnatRows, Est
  <2>2. /\ Mod(1, 65535, {<<"in_port", 1>>, <<"ct_state", {"trk", "est"}>>}, <<Output(2)>>) \in Mods("snat")
        /\ Mod(1, 65535, {<<"in_port", 2>>, <<"ct_state", {"trk", "est"}>>}, <<Output(1)>>) \in Mods("snat")
    BY <1>3, <2>1, RowMods, Types
  <2> QED
    BY <2>2, AddIsMod, Widths DEF Established
<1>8. Masquerade(c, "ip", c.v4, 0, p) \in Mods("snat")
  <2>1. Row("snat", 1, 65530, {<<"in_port", 1>>, <<"eth_type", "ip">>, <<"ct_state", {"trk", "new"}>>},
            <<Nat44>>) \in SnatRows
    BY DEF SnatRows, New
  <2>2. Masquerade(c, "ip", c.v4, 0, p)
           = Mod(1, 65530, {<<"in_port", 1>>, <<"eth_type", "ip">>, <<"ct_state", {"trk", "new"}>>},
                 <<Nat44>>)
    BY <1>1, AddIsMod, Widths DEF Masquerade, Nat44
  <2>3. Nat44.type # "learn"
    BY Types DEF Nat44
  <2> QED
    BY <1>3, <2>1, <2>2, <2>3, RowMods
<1>9. Masquerade(c, "ip6", c.v6, 0, p) \in Mods("snat")
  <2>1. Row("snat", 1, 65530, {<<"in_port", 1>>, <<"eth_type", "ip6">>, <<"ct_state", {"trk", "new"}>>},
            <<Nat66>>) \in SnatRows
    BY DEF SnatRows, New
  <2>2. Masquerade(c, "ip6", c.v6, 0, p)
           = Mod(1, 65530, {<<"in_port", 1>>, <<"eth_type", "ip6">>, <<"ct_state", {"trk", "new"}>>},
                 <<Nat66>>)
    BY <1>1, AddIsMod, Widths DEF Masquerade, Nat66
  <2>3. Nat66.type # "learn"
    BY Types DEF Nat66
  <2> QED
    BY <1>3, <2>1, <2>2, <2>3, RowMods
<1>10. AfterNat(1, 2, 0, p) \in Mods("snat") /\ AfterNat(2, 1, 0, p) \in Mods("snat")
  <2>1. /\ Row("snat", 2, 65530, {<<"in_port", 1>>}, <<Output(2)>>) \in SnatRows
        /\ Row("snat", 2, 65530, {<<"in_port", 2>>}, <<Output(1)>>) \in SnatRows
    BY DEF SnatRows
  <2>2. /\ Mod(2, 65530, {<<"in_port", 1>>}, <<Output(2)>>) \in Mods("snat")
        /\ Mod(2, 65530, {<<"in_port", 2>>}, <<Output(1)>>) \in Mods("snat")
    BY <1>3, <2>1, RowMods, Types
  <2> QED
    BY <2>2, AddIsMod, Widths DEF AfterNat
<1>11. Part(<<AddFlow(0, p, {<<"eth_type", "arp">>}, <<Normal>>), DropInvalid(0, p),
              Established(1, 2, 0, p), Established(2, 1, 0, p)>>, "snat")
  <2> DEFINE S == Mods("snat")
             q(w, x, y, z) == <<w, x, y, z>>
  <2>1. \A w, x, y, z \in S : Part(q(w, x, y, z), "snat")
    <3>1. ASSUME NEW w \in S, NEW x \in S, NEW y \in S, NEW z \in S PROVE Part(q(w, x, y, z), "snat")
      <4>1. <<w, x, y, z>> \in Seq(S)
        OBVIOUS
      <4>2. Len(<<w, x, y, z>>) = 4
        OBVIOUS
      <4> QED
        BY <4>1, <4>2 DEF Part
    <3> QED
      BY <3>1
  <2> QED
    BY <1>5, <1>6, <1>7, <2>1
<1>12. /\ Part(<<Track("ip", c, 0, p)>>, "snat") /\ Part(<<Track("ip6", c, 0, p)>>, "snat")
       /\ Part(<<Masquerade(c, "ip", c.v4, 0, p)>>, "snat")
       /\ Part(<<Masquerade(c, "ip6", c.v6, 0, p)>>, "snat")
       /\ Part(<<AfterNat(1, 2, 0, p), AfterNat(2, 1, 0, p)>>, "snat")
  BY <1>4, <1>8, <1>9, <1>10, OnePart, PairPart
<1> HIDE DEF p
<1>13. SnatFlows(c, 0, p)
          = <<Track("ip", c, 0, p)>> \o <<Track("ip6", c, 0, p)>>
            \o <<AddFlow(0, p, {<<"eth_type", "arp">>}, <<Normal>>), DropInvalid(0, p),
                 Established(1, 2, 0, p), Established(2, 1, 0, p)>>
            \o <<Masquerade(c, "ip", c.v4, 0, p)>> \o <<Masquerade(c, "ip6", c.v6, 0, p)>>
            \o <<AfterNat(1, 2, 0, p), AfterNat(2, 1, 0, p)>>
  BY <1>1, Zenon DEF SnatFlows
<1> QED
  BY <1>2, <1>11, <1>12, <1>13, MoreParts, Zenon

LEMMA DnatSent == Part(FlowsOf("dnat"), "dnat")
<1> DEFINE c == DnatConfig
           r == c.rules[1]
           u == c.rules[2]
           each == [i \in DOMAIN c.rules |-> Forwarding(c, c.rules[i], 0, 100)]
<1>1. c.internal_port = 1 /\ c.external_port = 2 /\ c.zone = 1
  BY DEF DnatConfig
<1>2. Len(c.rules) = 2 /\ DOMAIN c.rules = 1 .. 2
  BY DEF DnatConfig
<1>3. /\ r.family = "ip" /\ r.protocol = "tcp" /\ r.external_port = "80" /\ r.target = "srv"
      /\ r.internal_port = "8080"
  BY DEF DnatConfig
<1>4. /\ u.family = "ip" /\ u.protocol = "udp" /\ u.external_port = "53" /\ u.target = "srv"
      /\ u.internal_port = "same"
  BY DEF DnatConfig
<1>5. FlowsOf("dnat") = DnatFlows(c, 0, 100)
  BY DEF FlowsOf
<1> HIDE DEF c
<1>6. Rows("dnat") = DnatRows
  BY DEF Rows
<1>7. Track("ip", c, 0, 100) \in Mods("dnat")
  <2>1. Row("dnat", 0, 100, {<<"eth_type", "ip">>}, <<Ct(1, 1)>>) \in DnatRows
    BY Zenon DEF DnatRows
  <2>2. Mod(0, 100, {<<"eth_type", "ip">>}, <<Ct(1, 1)>>) \in Mods("dnat")
    BY <1>6, <2>1, RowMods, Types
  <2> QED
    BY <1>1, <2>2, AddIsMod, Widths DEF Track
<1>8. DropInvalid(0, 100) \in Mods("dnat")
  <2>1. Row("dnat", 1, 110, {<<"ct_state", {"trk", "inv"}>>}, <<>>) \in DnatRows
    BY Zenon DEF DnatRows, Inv
  <2>2. Mod(1, 110, {<<"ct_state", {"trk", "inv"}>>}, <<Drop>>) \in Mods("dnat")
    BY <1>6, <2>1, DropSent
  <2> QED
    BY <2>2, AddIsMod, Widths DEF DropInvalid
<1>9. Established(1, 2, 0, 100) \in Mods("dnat") /\ Established(2, 1, 0, 100) \in Mods("dnat")
  <2>1. /\ Row("dnat", 1, 105, {<<"in_port", 1>>, <<"ct_state", {"trk", "est"}>>}, <<Output(2)>>) \in DnatRows
        /\ Row("dnat", 1, 105, {<<"in_port", 2>>, <<"ct_state", {"trk", "est"}>>}, <<Output(1)>>) \in DnatRows
    BY Zenon DEF DnatRows, Est
  <2>2. /\ Mod(1, 105, {<<"in_port", 1>>, <<"ct_state", {"trk", "est"}>>}, <<Output(2)>>) \in Mods("dnat")
        /\ Mod(1, 105, {<<"in_port", 2>>, <<"ct_state", {"trk", "est"}>>}, <<Output(1)>>) \in Mods("dnat")
    BY <1>6, <2>1, RowMods, Types
  <2> QED
    BY <2>2, AddIsMod, Widths DEF Established
<1>10. Forwarding(c, r, 0, 100) \in Mods("dnat")
  <2> DEFINE m == {<<"in_port", 2>>, <<"eth_type", "ip">>, <<"ip_proto", "tcp">>,
                   <<"ct_state", {"trk", "new"}>>, <<"tp_dst", "80">>}
  <2>1. Row("dnat", 1, 100, m, <<ToServer("8080")>>) \in DnatRows
    BY Zenon DEF DnatRows, New
  <2>2. Forwarding(c, r, 0, 100) = AddFlow(0 + 1, 100, m, <<ToServer("8080")>>)
    BY <1>1, <1>3 DEF Forwarding, ToServer
  <2>3. ToServer("8080").type # "learn"
    BY Types DEF ToServer
  <2> HIDE DEF m
  <2> QED
    BY <1>6, <2>1, <2>2, <2>3, RowMods, AddIsMod, Widths
<1>11. Forwarding(c, u, 0, 100) \in Mods("dnat")
  <2> DEFINE m == {<<"in_port", 2>>, <<"eth_type", "ip">>, <<"ip_proto", "udp">>,
                   <<"ct_state", {"trk", "new"}>>, <<"tp_dst", "53">>}
  <2>1. Row("dnat", 1, 100, m, <<ToServer("same")>>) \in DnatRows
    BY Zenon DEF DnatRows, New
  <2>2. Forwarding(c, u, 0, 100) = AddFlow(0 + 1, 100, m, <<ToServer("same")>>)
    BY <1>1, <1>4 DEF Forwarding, ToServer
  <2>3. ToServer("same").type # "learn"
    BY Types DEF ToServer
  <2> HIDE DEF m
  <2> QED
    BY <1>6, <2>1, <2>2, <2>3, RowMods, AddIsMod, Widths
<1>12. AfterNat(1, 2, 0, 100) \in Mods("dnat") /\ AfterNat(2, 1, 0, 100) \in Mods("dnat")
  <2>1. /\ Row("dnat", 2, 100, {<<"in_port", 1>>}, <<Output(2)>>) \in DnatRows
        /\ Row("dnat", 2, 100, {<<"in_port", 2>>}, <<Output(1)>>) \in DnatRows
    BY Zenon DEF DnatRows
  <2>2. /\ Mod(2, 100, {<<"in_port", 1>>}, <<Output(2)>>) \in Mods("dnat")
        /\ Mod(2, 100, {<<"in_port", 2>>}, <<Output(1)>>) \in Mods("dnat")
    BY <1>6, <2>1, RowMods, Types
  <2> QED
    BY <2>2, AddIsMod, Widths DEF AfterNat
<1>13. Part(each, "dnat")
  <2>1. each \in [1 .. 2 -> Mods("dnat")]
    BY <1>2, <1>10, <1>11
  <2>2. each \in Seq(Mods("dnat")) /\ Len(each) = 2
    BY <2>1, <1>2
  <2> QED
    BY <2>2 DEF Part
<1> DEFINE some == \E i \in DOMAIN c.rules : c.rules[i].family = "ip"
           more == \E i \in DOMAIN c.rules : c.rules[i].family = "ip6"
           rest == <<DropInvalid(0, 100), Established(2, 1, 0, 100), Established(1, 2, 0, 100)>>
           last3 == <<AfterNat(2, 1, 0, 100), AfterNat(1, 2, 0, 100)>>
<1>14. some /\ ~more
  BY <1>2, <1>3, <1>4
<1>15. DnatFlows(c, 0, 100)
          = (IF some THEN <<Track("ip", c, 0, 100)>> ELSE <<>>)
            \o (IF more THEN <<Track("ip6", c, 0, 100)>> ELSE <<>>) \o rest \o each \o last3
  BY <1>1, ZenonT(60) DEF DnatFlows
<1>16. Part(<<Track("ip", c, 0, 100)>>, "dnat") /\ Part(rest, "dnat") /\ Part(last3, "dnat")
  BY <1>7, <1>8, <1>9, <1>12, OnePart, PairPart, TriplePart
<1> HIDE DEF each, rest, last3, some, more
<1>17. <<Track("ip", c, 0, 100)>> \o <<>> = <<Track("ip", c, 0, 100)>>
  BY <1>16, ConcatEmptySeq, Zenon DEF Part
<1>18. DnatFlows(c, 0, 100) = <<Track("ip", c, 0, 100)>> \o rest \o each \o last3
  BY <1>14, <1>15, <1>17, Zenon
<1> QED
  BY <1>5, <1>13, <1>16, <1>18, MoreParts, Zenon

LEMMA FlowsSent == \A t \in AllTemplates : FlowsOf(t) \in Seq(Mods(t)) /\ Len(FlowsOf(t)) > 0
  BY LearningSent, VlanSent, MacNatSent, ProxiesSent, SnatSent, DnatSent DEF Part, AllTemplates

-----------------------------------------------------------------------------
(* What the switch keeps for what is sent.                                 *)
LEMMA EncodedOne == \A a : FoldLeft(EncodeAction, <<>>, <<a>>) = EncodeAction(<<>>, a)
<1> SUFFICES ASSUME NEW a PROVE FoldLeft(EncodeAction, <<>>, <<a>>) = EncodeAction(<<>>, a)
  OBVIOUS
<1> DEFINE q == <<a>>
           F(n) == Encoding!Fold(<<>>, SubSeq(q, 1, n))
<1>1. q \in Seq({a})
  OBVIOUS
<1>2. Len(q) = 1 /\ DOMAIN q = 1 .. 1 /\ q[1] = a
  OBVIOUS
<1> HIDE DEF q
<1>3. /\ F(0) = <<>>
      /\ \A n \in Nat : n + 1 \in DOMAIN q => F(n + 1) = EncodeAction(F(n), q[n + 1])
      /\ F(Len(q)) = Encoding!Fold(<<>>, q)
  BY <1>1, Encoding!FoldPrefixes
<1> HIDE DEF F
<1>4. F(0 + 1) = EncodeAction(F(0), q[0 + 1])
  BY <1>2, <1>3
<1>5. F(1) = EncodeAction(<<>>, a)
  BY <1>2, <1>3, <1>4
<1> QED
  BY <1>2, <1>3, <1>5, EncodingIs DEF q

LEMMA EncodedTwo ==
    \A a, b : FoldLeft(EncodeAction, <<>>, <<a, b>>) = EncodeAction(EncodeAction(<<>>, a), b)
<1> SUFFICES ASSUME NEW a, NEW b
             PROVE  FoldLeft(EncodeAction, <<>>, <<a, b>>) = EncodeAction(EncodeAction(<<>>, a), b)
  OBVIOUS
<1> DEFINE q == <<a, b>>
           F(n) == Encoding!Fold(<<>>, SubSeq(q, 1, n))
<1>1. q \in Seq({a, b})
  OBVIOUS
<1>2. Len(q) = 2 /\ DOMAIN q = 1 .. 2
  OBVIOUS
<1>3. q[1] = a /\ q[2] = b
  OBVIOUS
<1> HIDE DEF q
<1>4. /\ F(0) = <<>>
      /\ \A n \in Nat : n + 1 \in DOMAIN q => F(n + 1) = EncodeAction(F(n), q[n + 1])
      /\ F(Len(q)) = Encoding!Fold(<<>>, q)
  BY <1>1, Encoding!FoldPrefixes
<1> HIDE DEF F
<1>5. F(0 + 1) = EncodeAction(F(0), q[0 + 1]) /\ F(1 + 1) = EncodeAction(F(1), q[1 + 1])
  BY <1>2, <1>4
<1>6. F(1) = EncodeAction(<<>>, a)
  BY <1>3, <1>4, <1>5
<1>7. F(2) = EncodeAction(EncodeAction(<<>>, a), b)
  BY <1>3, <1>5, <1>6
<1> QED
  BY <1>2, <1>4, <1>7, EncodingIs DEF q

(* Lists of actions that are all encoded and do not learn.                 *)
Tamed(a) ==
    a.type \in {"output", "in_port", "controller", "flood", "normal", "set", "move", "push_vlan",
               "pop_vlan", "ct", "ct_nat"}
Tame(acts) == (\E S : acts \in Seq(S)) /\ \A i \in DOMAIN acts : Tamed(acts[i])

LEMMA Tameness ==
    /\ Tame(<<>>)
    /\ \A a : Tamed(a) => Tame(<<a>>)
    /\ \A a, b : Tamed(a) /\ Tamed(b) => Tame(<<a, b>>)
    /\ \A a, b, d : Tamed(a) /\ Tamed(b) /\ Tamed(d) => Tame(<<a, b, d>>)
    /\ Tame(Answering)
<1>1. Tame(<<>>)
  BY DEF Tame
<1>2. ASSUME NEW a, Tamed(a) PROVE Tame(<<a>>)
  <2>1. <<a>> \in Seq({a})
    OBVIOUS
  <2>2. \A i \in DOMAIN <<a>> : <<a>>[i] = a
    OBVIOUS
  <2> QED
    BY <1>2, <2>1, <2>2, Zenon DEF Tame
<1>3. ASSUME NEW a, NEW b, Tamed(a), Tamed(b) PROVE Tame(<<a, b>>)
  <2>1. <<a, b>> \in Seq({a, b})
    OBVIOUS
  <2>2. \A i \in DOMAIN <<a, b>> : <<a, b>>[i] = a \/ <<a, b>>[i] = b
    OBVIOUS
  <2> QED
    BY <1>3, <2>1, <2>2, Zenon DEF Tame
<1>4. ASSUME NEW a, NEW b, NEW d, Tamed(a), Tamed(b), Tamed(d) PROVE Tame(<<a, b, d>>)
  <2>1. <<a, b, d>> \in Seq({a, b, d})
    OBVIOUS
  <2>2. \A i \in DOMAIN <<a, b, d>> : <<a, b, d>>[i] = a \/ <<a, b, d>>[i] = b \/ <<a, b, d>>[i] = d
    OBVIOUS
  <2> QED
    BY <1>4, <2>1, <2>2, Zenon DEF Tame
<1>5. Tame(Answering)
  <2> DEFINE S == {Move("sha", "tha"), Move("spa", "tpa"), SetField("sha", "x"),
                   SetField("spa", "gw1"), SetField("arp_op", "reply"),
                   Move("eth_src", "eth_dst"), SetField("eth_src", "x"), InPort}
  <2>1. Answering \in Seq(S)
    BY DEF Answering
  <2>2. \A a \in S : Tamed(a)
    BY Types DEF Tamed
  <2> HIDE DEF S
  <2>3. \A i \in DOMAIN Answering : Tamed(Answering[i])
    BY <2>1, <2>2
  <2> QED
    BY <2>1, <2>3, Zenon DEF Tame
<1> QED
  BY <1>1, <1>2, <1>3, <1>4, <1>5

LEMMA TamedActions ==
    /\ \A p : Tamed(Output(p))
    /\ Tamed(Flood) /\ Tamed(Normal) /\ Tamed(InPort) /\ Tamed(Controller) /\ Tamed(PushVlan)
    /\ Tamed(PopVlan)
    /\ \A k, v : Tamed(SetField(k, v))
    /\ \A z, n : Tamed(Ct(z, n)) /\ \A a : Tamed(CtNat(z, n, a))
  BY Types DEF Tamed

LEMMA RowFields ==
    ASSUME NEW o, NEW n, NEW p, NEW m, NEW acts, NEW g, g = Row(o, n, p, m, acts)
    PROVE  g.table = n /\ g.priority = p /\ g.match = m /\ g.actions = acts /\ g.owner = o
  BY DEF Row

(* A row of a template: its owner, its table, its actions.                 *)
RowOf(g, t) ==
    /\ g = Row(t, g.table, g.priority, g.match, g.actions)
    /\ g.owner = t /\ g.table \in {0, 1, 2}
    /\ Tame(g.actions) \/ (t = "learning" /\ g.table = 0 /\ g.actions = <<LearnAction>>)

LEMMA RowIsOf ==
    \A t, n, p, m, acts :
        /\ n \in {0, 1, 2}
        /\ Tame(acts) \/ (t = "learning" /\ n = 0 /\ acts = <<LearnAction>>)
        => RowOf(Row(t, n, p, m, acts), t)
<1> SUFFICES ASSUME NEW t, NEW n, NEW p, NEW m, NEW acts, n \in {0, 1, 2},
                    Tame(acts) \/ (t = "learning" /\ n = 0 /\ acts = <<LearnAction>>)
             PROVE  RowOf(Row(t, n, p, m, acts), t)
  OBVIOUS
<1> DEFINE g == Row(t, n, p, m, acts)
<1>1. g.table = n /\ g.priority = p /\ g.match = m /\ g.actions = acts /\ g.owner = t
  BY RowFields
<1> QED
  BY <1>1 DEF RowOf

LEMMA RowsAre ==
    \A t \in AllTemplates : \A g \in Rows(t) : RowOf(g, t)
<1>1. \A g \in LearningRows : RowOf(g, "learning")
  <2>1. Tame(<<Flood>>)
    BY Tameness, TamedActions
  <2> QED
    BY <2>1, RowIsOf DEF LearningRows
<1>2. \A g \in VlanRows : RowOf(g, "vlan")
  <2>1. \A p : Tame(<<Output(p)>>)
    BY Tameness, TamedActions
  <2>2. \A p : Tame(<<PopVlan, Output(p)>>)
    BY Tameness, TamedActions
  <2>3. \A k, v, p : Tame(<<SetField(k, v), Output(p)>>)
    BY Tameness, TamedActions
  <2>4. \A k, v, p : Tame(<<PushVlan, SetField(k, v), Output(p)>>)
    BY Tameness, TamedActions
  <2> QED
    BY <2>1, <2>2, <2>3, <2>4, RowIsOf DEF VlanRows
<1>3. \A g \in MacNatRows : RowOf(g, "mac_nat")
  <2>1. \A k, v, p : Tame(<<SetField(k, v), Output(p)>>)
    BY Tameness, TamedActions
  <2>2. \A k, v, l, w, p : Tame(<<SetField(k, v), SetField(l, w), Output(p)>>)
    BY Tameness, TamedActions
  <2> QED
    BY <2>1, <2>2, RowIsOf DEF MacNatRows
<1>4. \A g \in ArpProxyRows : RowOf(g, "arp_proxy")
  BY Tameness, RowIsOf DEF ArpProxyRows
<1>5. \A g \in NdpProxyRows : RowOf(g, "ndp_proxy")
  <2>1. Tame(<<Controller>>)
    BY Tameness, TamedActions
  <2> QED
    BY <2>1, RowIsOf DEF NdpProxyRows
<1>6. \A g \in SnatRows : RowOf(g, "snat")
  <2>1. \A p : Tame(<<Output(p)>>)
    BY Tameness, TamedActions
  <2>2. Tame(<<Normal>>) /\ Tame(<<Ct(1, 1)>>) /\ Tame(<<Nat44>>) /\ Tame(<<Nat66>>) /\ Tame(<<>>)
    BY Tameness, TamedActions DEF Nat44, Nat66
  <2> QED
    BY <2>1, <2>2, RowIsOf DEF SnatRows
<1>7. \A g \in DnatRows : RowOf(g, "dnat")
  <2>1. \A p : Tame(<<Output(p)>>)
    BY Tameness, TamedActions
  <2>2. Tame(<<Ct(1, 1)>>) /\ Tame(<<>>) /\ \A p : Tame(<<ToServer(p)>>)
    BY Tameness, TamedActions DEF ToServer
  <2> QED
    BY <2>1, <2>2, RowIsOf DEF DnatRows
<1> QED
  BY <1>1, <1>2, <1>3, <1>4, <1>5, <1>6, <1>7 DEF Rows, AllTemplates

LEMMA BeforeEncoded ==
    ASSUME NEW t, NEW g, RowOf(g, t)
    PROVE  FoldLeft(EncodeAction, <<>>, Before(g.actions)) = g.actions
<1>1. CASE g.actions = <<>>
  BY <1>1, EncodedOne, Types DEF Before, EncodeAction
<1>2. CASE g.actions = <<LearnAction>>
  <2>1. Before(g.actions) = <<LearnAction, GotoTable(1)>>
    BY <1>2, Nonempty DEF Before
  <2>2. EncodeAction(<<>>, LearnAction) = Append(<<>>, LearnAction)
    BY Types DEF EncodeAction
  <2>3. Append(<<>>, LearnAction) = <<LearnAction>>
    OBVIOUS
  <2>4. \A q : EncodeAction(q, GotoTable(1)) = q
    BY Types DEF EncodeAction
  <2> QED
    BY <1>2, <2>1, <2>2, <2>3, <2>4, EncodedTwo
<1>3. CASE g.actions # <<>> /\ g.actions # <<LearnAction>>
  <2>1. Tame(g.actions) /\ Before(g.actions) = g.actions
    BY <1>3 DEF RowOf, Before
  <2> QED
    BY <2>1, EncodedPlain DEF Tame, Tamed, Plain
<1> QED
  BY <1>1, <1>2, <1>3

LEMMA EncodedMod ==
    \A n, p, m, acts : Encoded(Mod(n, p, m, acts)) = Mod(n, p, m, FoldLeft(EncodeAction, <<>>, acts))
<1> SUFFICES ASSUME NEW n, NEW p, NEW m, NEW acts
             PROVE  Encoded(Mod(n, p, m, acts)) = Mod(n, p, m, FoldLeft(EncodeAction, <<>>, acts))
  OBVIOUS
<1> DEFINE F(q) == FoldLeft(EncodeAction, <<>>, q)
<1>1. Encoded(Mod(n, p, m, acts)) = [Mod(n, p, m, acts) EXCEPT !.actions = F(@)]
  BY DEF Encoded, Mod
<1> HIDE DEF F
<1>2. [Mod(n, p, m, acts) EXCEPT !.actions = F(@)] = Mod(n, p, m, F(acts))
  BY DEF Mod
<1> QED
  BY <1>1, <1>2 DEF F

(* What a flow mod of a template puts in the table.                        *)
LEMMA ModKept ==
    ASSUME NEW t \in AllTemplates, NEW m \in Mods(t)
    PROVE  Encoded(m).command = "add" /\ Entry(Encoded(m), t) \in Rows(t)
<1>1. PICK g \in Rows(t) : m = Mod(g.table, g.priority, g.match, Before(g.actions))
  BY DEF Mods
<1>2. RowOf(g, t)
  BY RowsAre
<1>3. Encoded(m) = Mod(g.table, g.priority, g.match, g.actions)
  BY <1>1, <1>2, EncodedMod, BeforeEncoded
<1>4. Entry(Encoded(m), t) = Row(t, g.table, g.priority, g.match, g.actions)
  BY <1>3 DEF Entry, Mod, Row
<1>5. Encoded(m).command = "add"
  BY <1>3 DEF Mod
<1> QED
  BY <1>2, <1>4, <1>5 DEF RowOf

-----------------------------------------------------------------------------
(* Only learning changes the flow table.                                   *)
LEMMA ActKeeps ==
    ASSUME NEW s, IsTraversal(s), NEW a, Tamed(a), NEW t \in Act(s, a)
    PROVE  IsTraversal(t) /\ t.table = s.table
<1>1. CASE a.type \in {"output", "in_port", "controller", "flood", "normal"}
  <2>1. \E ps : t = Sent(s, ps)
    BY <1>1 DEF Act
  <2> QED
    BY <2>1 DEF Sent, IsTraversal
<1>2. CASE a.type \in {"set", "move", "push_vlan", "pop_vlan"}
  <2>1. \E f : t = [s EXCEPT !.frame = f]
    BY <1>2 DEF Act
  <2> QED
    BY <2>1 DEF IsTraversal
<1>3. CASE a.type = "ct"
  <2>1. PICK u \in Tracked(s, a.zone) : t = [u EXCEPT !.next = a.table]
    BY <1>3 DEF Act
  <2>2. IsTraversal(u) /\ u.table = s.table
    BY DEF Tracked, IsTraversal
  <2> QED
    BY <2>1, <2>2 DEF IsTraversal
<1>4. CASE a.type = "ct_nat"
  <2>1. t \in Natted(s, a)
    BY <1>4 DEF Act
  <2>2. \E f, cs : t = [s EXCEPT !.frame = f, !.conns = cs, !.next = a.table]
    BY <2>1 DEF Natted
  <2> QED
    BY <2>2 DEF IsTraversal
<1> QED
  BY <1>1, <1>2, <1>3, <1>4 DEF Tamed

LEMMA TameThrough ==
    ASSUME NEW s, IsTraversal(s), NEW g, Tame(g.actions), NEW t \in Through(s, g)
    PROVE  IsTraversal(t) /\ t.table = s.table
<1> DEFINE acts == g.actions
<1>1. PICK c : Leads(s, g, t, c)
  BY ThroughChain DEF Tame
<1>2. PICK S : acts \in Seq(S)
  BY DEF Tame
<1>3. Len(acts) \in Nat /\ DOMAIN acts = 1 .. Len(acts)
  BY <1>2
<1> DEFINE D == {n \in Nat : n <= Len(acts) => IsTraversal(c[n]) /\ c[n].table = s.table}
<1>4. 0 \in D
  BY <1>1, EnteringFacts DEF Leads
<1>5. ASSUME NEW n \in Nat, n \in D PROVE n + 1 \in D
  <2> SUFFICES ASSUME n + 1 <= Len(acts)
               PROVE  IsTraversal(c[n + 1]) /\ c[n + 1].table = s.table
    OBVIOUS
  <2>1. n + 1 \in DOMAIN acts /\ n <= Len(acts) /\ (n + 1) - 1 = n
    BY <1>3
  <2>2. c[n + 1] \in Act(c[n], acts[n + 1])
    BY <1>1, <2>1 DEF Leads
  <2>3. Tamed(acts[n + 1])
    BY <2>1 DEF Tame
  <2> QED
    BY <1>5, <2>1, <2>2, <2>3, ActKeeps
<1> HIDE DEF D
<1>6. Nat \subseteq D
  BY <1>4, <1>5, Encoding!NatSetInduction
<1> QED
  BY <1>1, <1>3, <1>6 DEF D, Leads

(* A flow learned from the learning switch.                                *)
LearnedFlow(g) ==
    \E d, p : g = Row("learning", 1, 100, {<<"eth_src", d>>}, <<Output(p)>>)
FlowGood(g) == (g.owner \in AllTemplates /\ g \in Rows(g.owner)) \/ LearnedFlow(g)
FlowsGood(tb) == \A g \in tb : FlowGood(g)
Grown(tb, u) ==
    \A g \in u : g \in tb \/ (LearnedFlow(g) /\ \E h \in tb : h.owner = "learning")

LEMMA LearnedFacts ==
    ASSUME NEW g, LearnedFlow(g)
    PROVE  /\ g.owner = "learning" /\ g.table = 1 /\ g.priority = 100 /\ Tame(g.actions)
           /\ \E d : g.match = {<<"eth_src", d>>}
           /\ \E p : g.actions = <<Output(p)>>
<1>1. PICK d, p : g = Row("learning", 1, 100, {<<"eth_src", d>>}, <<Output(p)>>)
  BY DEF LearnedFlow
<1>2. Tame(<<Output(p)>>)
  BY Tameness, TamedActions
<1>3. /\ g.owner = "learning" /\ g.table = 1 /\ g.priority = 100 /\ g.match = {<<"eth_src", d>>}
      /\ g.actions = <<Output(p)>>
  BY <1>1, RowFields
<1> QED
  BY <1>2, <1>3

LEMMA GoodFlows ==
    ASSUME NEW g, FlowGood(g)
    PROVE  /\ g.owner \in AllTemplates
           /\ Tame(g.actions) \/ (g.owner = "learning" /\ g.table = 0 /\ g.actions = <<LearnAction>>)
<1>1. CASE g.owner \in AllTemplates /\ g \in Rows(g.owner)
  BY <1>1, RowsAre DEF RowOf
<1>2. CASE LearnedFlow(g)
  BY <1>2, LearnedFacts DEF AllTemplates
<1> QED
  BY <1>1, <1>2 DEF FlowGood

LEMMA LearnFields ==
    ASSUME NEW n, NEW p, NEW x, NEW y, NEW o, NEW a, a = Learn(n, p, x, y, o)
    PROVE  a.table = n /\ a.priority = p /\ a.src = x /\ a.dst = y /\ a.out = o
  BY DEF Learn

LEMMA LearnThrough ==
    ASSUME NEW s, IsTraversal(s), NEW g, g.actions = <<LearnAction>>, g.owner = "learning",
           NEW t \in Through(s, g)
    PROVE  /\ IsTraversal(t) /\ t.next = NoTable
           /\ \A h \in t.table : h \in s.table \/ LearnedFlow(h)
<1> DEFINE e == Entering(s, g)
<1>1. t \in Act(e, LearnAction)
  BY OneAction
<1>2. IsTraversal(e) /\ e.table = s.table /\ e.owner = "learning" /\ e.next = NoTable
  BY EnteringFacts
<1> HIDE DEF e
<1>3. t = [e EXCEPT !.table = Learned(e, LearnAction)]
  BY <1>1, Types DEF Act
<1>4. IsTraversal(t) /\ t.table = Learned(e, LearnAction) /\ t.next = NoTable
  BY <1>2, <1>3 DEF IsTraversal
<1> DEFINE d == Field(e.frame, "eth_dst")
           p == Field(e.frame, "in_port")
           m == [command |-> "add", table |-> 1, priority |-> 100, match |-> {<<"eth_src", d>>},
                 actions |-> <<[type |-> "output", port |-> p]>>]
<1>5. /\ LearnAction.table = 1 /\ LearnAction.priority = 100 /\ LearnAction.src = "eth_dst"
      /\ LearnAction.dst = "eth_src" /\ LearnAction.out = "in_port"
  BY LearnFields DEF LearnAction
<1>6. Learned(e, LearnAction) = Applied(e.table, m, "learning")
  BY <1>2, <1>5 DEF Learned
<1>7. Entry(m, "learning") = Row("learning", 1, 100, {<<"eth_src", d>>}, <<Output(p)>>)
  BY DEF Entry, Row, Output
<1>8. m.command = "add"
  OBVIOUS
<1> HIDE DEF d, p, m
<1>9. \A h \in Applied(e.table, m, "learning") : h \in e.table \/ h = Entry(m, "learning")
  BY <1>8 DEF Applied
<1> QED
  BY <1>2, <1>4, <1>6, <1>7, <1>9 DEF LearnedFlow

LEMMA VisitGrows ==
    ASSUME NEW s, IsTraversal(s), FlowsGood(s.table), NEW t \in Visit(s)
    PROVE  IsTraversal(t) /\ Grown(s.table, t.table)
<1>1. CASE s.next = NoTable /\ t = s
  BY <1>1 DEF Grown
<1>2. CASE t = [s EXCEPT !.next = NoTable]
  BY <1>2 DEF Grown, IsTraversal
<1>3. ASSUME NEW g \in s.table, t \in Through(s, g) PROVE IsTraversal(t) /\ Grown(s.table, t.table)
  <2>1. CASE Tame(g.actions)
    BY <1>3, <2>1, TameThrough DEF Grown
  <2>2. CASE g.owner = "learning" /\ g.actions = <<LearnAction>>
    BY <1>3, <2>2, LearnThrough DEF Grown
  <2> QED
    BY <2>1, <2>2, GoodFlows DEF FlowsGood
<1> QED
  BY <1>1, <1>2, <1>3, VisitFacts

LEMMA GrownGood ==
    ASSUME NEW tb, FlowsGood(tb), NEW u, Grown(tb, u) PROVE FlowsGood(u)
  BY DEF FlowsGood, Grown, FlowGood

LEMMA GrownTwice ==
    ASSUME NEW tb, NEW u, NEW v, Grown(tb, u), Grown(u, v) PROVE Grown(tb, v)
  BY LearnedFacts DEF Grown

LEMMA TraversalGrows ==
    ASSUME NEW tb, FlowsGood(tb), NEW cs, NEW f, NEW t \in Traversals(tb, cs, f)
    PROVE  IsTraversal(t) /\ Grown(tb, t.table) /\ FlowsGood(t.table)
<1> DEFINE s == Entered(tb, cs, f)
<1>1. PICK u \in Visit(s) : \E v \in Visit(u) : t \in Visit(v)
  BY ThreeVisits
<1>2. PICK v \in Visit(u) : t \in Visit(v)
  BY <1>1
<1>3. IsTraversal(s) /\ s.table = tb
  BY EnteredFacts
<1> HIDE DEF s
<1>4. IsTraversal(u) /\ Grown(tb, u.table) /\ FlowsGood(u.table)
  BY <1>1, <1>3, VisitGrows, GrownGood
<1>5. IsTraversal(v) /\ Grown(tb, v.table) /\ FlowsGood(v.table)
  BY <1>2, <1>4, VisitGrows, GrownGood, GrownTwice
<1>6. IsTraversal(t) /\ Grown(tb, t.table)
  BY <1>2, <1>5, VisitGrows, GrownTwice
<1> QED
  BY <1>6, GrownGood

-----------------------------------------------------------------------------
(* Deletes.                                                                *)
Del(n, m) == [command |-> "delete", table |-> n, match |-> m]

LEMMA DelFacts ==
    /\ \A n, m : DeleteFlows(n, m) = Del(n % 256, m)
    /\ \A n, m : Encoded(Del(n, m)) = Del(n, m)
    /\ \A n, m : Del(n, m).command = "delete" /\ Del(n, m).table = n /\ Del(n, m).match = m
  BY DEF DeleteFlows, Del, Encoded

FromMac == Del(0, {<<"in_port", 1>>, <<"eth_src", "h">>})
ToMac   == Del(0, {<<"in_port", 2>>, <<"eth_dst", "x">>})
Asked   == Del(0, ArpRequestFor(ArpProxyConfig))
Sought  == Del(0, Solicitation(2))

LEMMA DeletesAre ==
    /\ Deletes("learning") = <<Del(0, {}), Del(1, {})>>
    /\ Deletes("mac_nat") = <<FromMac, ToMac>>
    /\ Deletes("arp_proxy") = <<Asked>>
    /\ Deletes("ndp_proxy") = <<Sought>>
    /\ Deletes("snat") = <<Del(0, {}), Del(1, {}), Del(2, {})>>
<1>1. Deletes("learning") = <<Del(0, {}), Del(1, {})>>
  <2>1. LearningConfig.learn_table = 0 /\ LearningConfig.forward_table = 1
    BY DEF LearningConfig
  <2> QED
    BY <2>1, DelFacts, Widths DEF Deletes, LearningDelete
<1>2. Deletes("mac_nat") = <<FromMac, ToMac>>
  <2>1. /\ MacNatConfig.internal_mac = "h" /\ MacNatConfig.external_mac = "x"
        /\ MacNatConfig.internal_port = 1 /\ MacNatConfig.external_port = 2
    BY DEF MacNatConfig
  <2> QED
    BY <2>1, DelFacts, Widths DEF Deletes, MacNatDelete, FromMac, ToMac
<1>3. Deletes("arp_proxy") = <<Asked>>
  BY DelFacts, Widths DEF Deletes, ArpProxyDelete, Asked
<1>4. Deletes("ndp_proxy") = <<Sought>>
  <2>1. NdpProxyConfig.port = 2
    BY DEF NdpProxyConfig
  <2> QED
    BY <2>1, DelFacts, Widths DEF Deletes, NdpProxyDelete, Sought
<1>5. Deletes("snat") = <<Del(0, {}), Del(1, {}), Del(2, {})>>
  BY DelFacts, Widths DEF Deletes, SnatDelete
<1> QED
  BY <1>1, <1>2, <1>3, <1>4, <1>5

Dels(t) ==
    CASE t = "mac_nat" -> {FromMac, ToMac} [] t = "arp_proxy" -> {Asked} [] t = "ndp_proxy" -> {Sought}
      [] OTHER -> {Del(0, {}), Del(1, {}), Del(2, {})}
Covered(g, q) == \E i \in DOMAIN q : g.table = q[i].table /\ q[i].match \subseteq g.match

LEMMA DelsSent ==
    ASSUME NEW t \in Deletable
    PROVE  /\ Deletes(t) \in Seq(Dels(t)) /\ Len(Deletes(t)) > 0
           /\ t = "learning" => Deletes(t)[Len(Deletes(t))] = Del(1, {})
<1> DEFINE Good(q, S) == q \in Seq(S) /\ Len(q) > 0
<1>1. \A S : \A a \in S : Good(<<a>>, S)
  OBVIOUS
<1>2. \A S : \A a, b \in S : Good(<<a, b>>, S)
  OBVIOUS
<1>3. \A S : \A a, b, d \in S : Good(<<a, b, d>>, S)
  OBVIOUS
<1> HIDE DEF Good
<1>4. /\ Dels("learning") = {Del(0, {}), Del(1, {}), Del(2, {})}
      /\ Dels("mac_nat") = {FromMac, ToMac}
      /\ Dels("arp_proxy") = {Asked} /\ Dels("ndp_proxy") = {Sought}
      /\ Dels("snat") = {Del(0, {}), Del(1, {}), Del(2, {})}
  BY DEF Dels
<1>5. /\ Good(Deletes("learning"), Dels("learning")) /\ Good(Deletes("mac_nat"), Dels("mac_nat"))
      /\ Good(Deletes("arp_proxy"), Dels("arp_proxy"))
      /\ Good(Deletes("ndp_proxy"), Dels("ndp_proxy")) /\ Good(Deletes("snat"), Dels("snat"))
  BY <1>1, <1>2, <1>3, <1>4, DeletesAre
<1>6. Good(Deletes(t), Dels(t))
  BY <1>5 DEF Deletable
<1>7. \A a, b : Len(<<a, b>>) = 2 /\ <<a, b>>[2] = b
  OBVIOUS
<1>8. Deletes("learning")[Len(Deletes("learning"))] = Del(1, {})
  BY <1>7, DeletesAre
<1> QED
  BY <1>6, <1>8 DEF Good

LEMMA DelIs ==
    ASSUME NEW t, NEW m \in Dels(t)
    PROVE  m.command = "delete" /\ Encoded(m) = m
  BY DelFacts DEF Dels, FromMac, ToMac, Asked, Sought

(* A delete covers all that its template installs or learns.               *)
LEMMA DeletesCover ==
    ASSUME NEW t \in Deletable, NEW g, FlowGood(g), g.owner = t
    PROVE  Covered(g, Deletes(t))
<1>1. CASE LearnedFlow(g)
  <2>1. t = "learning" /\ g.table = 1
    BY <1>1, LearnedFacts
  <2>2. Deletes(t) = <<Del(0, {}), Del(1, {})>>
    BY <2>1, DeletesAre
  <2>3. 2 \in DOMAIN Deletes(t) /\ Deletes(t)[2] = Del(1, {})
    BY <2>2
  <2> QED
    BY <2>1, <2>3, DelFacts DEF Covered
<1>2. CASE g \in Rows(t)
  <2>1. RowOf(g, t)
    BY <1>2, RowsAre DEF Deletable, AllTemplates
  <2>2. CASE t = "learning"
    <3>1. g.table \in {0, 1}
      BY <1>2, <2>2, RowFields DEF Rows, LearningRows
    <3>2. /\ 1 \in DOMAIN Deletes(t) /\ Deletes(t)[1] = Del(0, {})
          /\ 2 \in DOMAIN Deletes(t) /\ Deletes(t)[2] = Del(1, {})
      BY <2>2, DeletesAre
    <3> QED
      BY <3>1, <3>2, DelFacts DEF Covered
  <2>3. CASE t = "snat"
    <3>1. g.table \in {0, 1, 2}
      BY <2>1 DEF RowOf
    <3>2. /\ 1 \in DOMAIN Deletes(t) /\ Deletes(t)[1] = Del(0, {})
          /\ 2 \in DOMAIN Deletes(t) /\ Deletes(t)[2] = Del(1, {})
          /\ 3 \in DOMAIN Deletes(t) /\ Deletes(t)[3] = Del(2, {})
      BY <2>3, DeletesAre
    <3> QED
      BY <3>1, <3>2, DelFacts DEF Covered
  <2>4. CASE t = "mac_nat"
    <3>1. /\ 1 \in DOMAIN Deletes(t) /\ Deletes(t)[1] = FromMac
          /\ 2 \in DOMAIN Deletes(t) /\ Deletes(t)[2] = ToMac
      BY <2>4, DeletesAre
    <3>2. /\ g.table = 0
          /\ \/ {<<"in_port", 1>>, <<"eth_src", "h">>} \subseteq g.match
             \/ {<<"in_port", 2>>, <<"eth_dst", "x">>} \subseteq g.match
      BY <1>2, <2>4, RowFields DEF Rows, MacNatRows
    <3> QED
      BY <3>1, <3>2, DelFacts DEF Covered, FromMac, ToMac
  <2>5. CASE t = "arp_proxy"
    <3>1. 1 \in DOMAIN Deletes(t) /\ Deletes(t)[1] = Asked
      BY <2>5, DeletesAre
    <3>2. g.table = 0 /\ g.match = ArpRequestFor(ArpProxyConfig)
      BY <1>2, <2>5, RowFields DEF Rows, ArpProxyRows
    <3> QED
      BY <3>1, <3>2, DelFacts DEF Covered, Asked
  <2>6. CASE t = "ndp_proxy"
    <3>1. 1 \in DOMAIN Deletes(t) /\ Deletes(t)[1] = Sought
      BY <2>6, DeletesAre
    <3>2. g.table = 0 /\ g.match = Solicitation(2)
      BY <1>2, <2>6, RowFields DEF Rows, NdpProxyRows
    <3> QED
      BY <3>1, <3>2, DelFacts DEF Covered, Sought
  <2> QED
    BY <2>2, <2>3, <2>4, <2>5, <2>6 DEF Deletable
<1> QED
  BY <1>1, <1>2 DEF FlowGood

-----------------------------------------------------------------------------
(* The invariant of all pipelines.  An operation sends what is left of the *)
(* flow mods of its template, whose status is partial meanwhile.           *)
Sending(o) ==
    /\ o.template \in deployment /\ status[o.template] = "partial"
    /\ o.kind = "install" => o.todo \in Seq(Mods(o.template))
    /\ o.kind = "delete" =>
          /\ o.template \in Deletable /\ o.todo \in Seq(Dels(o.template))
          /\ o.template = "learning" => o.todo[Len(o.todo)] = Del(1, {})
    /\ o.kind \in {"install", "delete"} /\ Len(o.todo) > 0
    /\ o = [kind |-> o.kind, template |-> o.template, todo |-> o.todo]

Shape ==
    /\ deployment \in Deployments
    /\ status \in [deployment -> {"absent", "partial", "whole"}]
    /\ op = Idle \/ Sending(op)
    /\ FlowsGood(table)
    /\ \A g \in table : g.owner \in deployment

(* A delete still has to send what takes the flows that are left.          *)
Cleaning ==
    /\ DeleteLeavesNothing
    /\ op.kind = "delete" => \A g \in Owned(op.template) : Covered(g, op.todo)

PipelineInv == Shape /\ Cleaning

LEMMA Deployed == ASSUME NEW d \in Deployments PROVE d \subseteq AllTemplates
  BY DeploymentsAssumption

LEMMA Operations ==
    ASSUME Shape
    PROVE  /\ op = Idle => op.kind = "none"
           /\ op # Idle => Sending(op) /\ op.template \in AllTemplates
  BY Deployed DEF Shape, Sending, Idle

(* What one flow mod does to the table.                                    *)
LEMMA Installed ==
    ASSUME NEW t \in AllTemplates, NEW q \in Seq(Mods(t)), Len(q) > 0, NEW tb
    PROVE  LET new == Applied(tb, Encoded(Head(q)), t)
           IN  \A g \in new : g \in tb \/ (g \in Rows(t) /\ g.owner = t)
<1> DEFINE m == Encoded(Head(q))
           e == Entry(m, t)
<1>1. Head(q) \in Mods(t)
  OBVIOUS
<1>2. m.command = "add" /\ e \in Rows(t)
  BY <1>1, ModKept
<1>3. e.owner = t
  BY <1>2, RowsAre DEF RowOf
<1> HIDE DEF m
<1>4. \A g \in Applied(tb, m, t) : g \in tb \/ g = e
  BY <1>2 DEF Applied
<1> QED
  BY <1>2, <1>3, <1>4 DEF m

LEMMA Removed ==
    ASSUME NEW t, NEW q \in Seq(Dels(t)), Len(q) > 0, NEW tb
    PROVE  LET new == Applied(tb, Encoded(Head(q)), t)
           IN  /\ new \subseteq tb
               /\ \A g \in tb : g \notin new => g.table = Head(q).table /\ Head(q).match \subseteq g.match
               /\ \A g \in new : Covered(g, q) => Len(q) > 1 /\ Covered(g, Tail(q))
<1> DEFINE m == Head(q)
           new == Applied(tb, m, t)
<1>1. m \in Dels(t) /\ m = q[1]
  OBVIOUS
<1>2. Encoded(m) = m /\ m.command # "add"
  BY <1>1, DelIs
<1>3. new = {g \in tb : ~(g.table = m.table /\ m.match \subseteq g.match)}
  BY <1>2 DEF Applied
<1>4. ASSUME NEW g \in new, Covered(g, q) PROVE Len(q) > 1 /\ Covered(g, Tail(q))
  <2>1. PICK i \in DOMAIN q : g.table = q[i].table /\ q[i].match \subseteq g.match
    BY <1>4 DEF Covered
  <2>2. i # 1
    BY <1>1, <1>3, <1>4, <2>1
  <2>3. i - 1 \in DOMAIN Tail(q) /\ Tail(q)[i - 1] = q[i] /\ Len(q) > 1
    BY <2>2
  <2> QED
    BY <2>1, <2>3 DEF Covered
<1> QED
  BY <1>2, <1>3, <1>4

LEMMA InvInit == Init => PipelineInv
<1> SUFFICES ASSUME Init PROVE PipelineInv
  OBVIOUS
<1>1. Shape
  BY DEF Init, Shape, FlowsGood
<1>2. Cleaning
  BY DEF Init, Cleaning, DeleteLeavesNothing, Owned, Idle
<1> QED
  BY <1>1, <1>2 DEF PipelineInv

LEMMA InvCall ==
    ASSUME PipelineInv, NEW t \in deployment, NEW k \in {"install", "delete"}, NEW mods,
           Call(k, t, mods), Len(mods) > 0,
           k = "install" => mods \in Seq(Mods(t)),
           k = "delete" => /\ t \in Deletable /\ mods = Deletes(t)
    PROVE  PipelineInv'
<1>1. op' = [kind |-> k, template |-> t, todo |-> mods]
  BY DEF Call
<1>2. op'.kind = k /\ op'.template = t /\ op'.todo = mods
  BY <1>1
<1>3. UNCHANGED <<deployment, table>> /\ status' = [status EXCEPT ![t] = "partial"]
  BY DEF Call
<1>4. status' \in [deployment -> {"absent", "partial", "whole"}] /\ status'[t] = "partial"
  BY <1>3 DEF PipelineInv, Shape
<1>5. Sending(op)'
  <2>1. k = "delete" => /\ mods \in Seq(Dels(t))
                        /\ t = "learning" => mods[Len(mods)] = Del(1, {})
    BY DelsSent
  <2> QED
    BY <1>1, <1>2, <1>3, <1>4, <2>1 DEF Sending
<1>6. Shape'
  BY <1>3, <1>4, <1>5 DEF PipelineInv, Shape
<1>7. Cleaning'
  <2>1. DeleteLeavesNothing'
    BY <1>3, <1>4 DEF PipelineInv, Cleaning, DeleteLeavesNothing, Owned, Shape
  <2>2. ASSUME op'.kind = "delete", NEW g \in Owned(t)' PROVE Covered(g, op'.todo)
    <3>1. g \in table /\ g.owner = t /\ FlowGood(g)
      BY <1>3 DEF Owned, PipelineInv, Shape, FlowsGood
    <3> QED
      BY <1>2, <2>2, <3>1, DeletesCover
  <2> QED
    BY <1>2, <2>1, <2>2 DEF Cleaning
<1> QED
  BY <1>6, <1>7 DEF PipelineInv

LEMMA InvSent ==
    ASSUME PipelineInv, op # Idle, NEW new, UNCHANGED deployment,
           new = Applied(table, Encoded(Head(op.todo)), op.template)
    PROVE  /\ FlowsGood(new) /\ \A g \in new : g.owner \in deployment
           /\ \A t \in deployment : status[t] = "absent" => \A g \in new : g.owner # t
           /\ op.kind = "delete" =>
                 \A g \in new : g.owner = op.template => Len(op.todo) > 1 /\ Covered(g, Tail(op.todo))
<1> DEFINE t == op.template
<1>1. Sending(op) /\ t \in AllTemplates /\ t \in deployment /\ status[t] = "partial"
  BY Operations DEF PipelineInv, Sending
<1>2. CASE op.kind = "install"
  <2>1. \A g \in new : g \in table \/ (g \in Rows(t) /\ g.owner = t)
    BY <1>1, <1>2, Installed DEF Sending
  <2>2. \A g \in new : FlowGood(g) /\ g.owner \in deployment
    BY <1>1, <2>1 DEF FlowsGood, FlowGood, PipelineInv, Shape
  <2> QED
    BY <1>1, <1>2, <2>1, <2>2 DEF FlowsGood, PipelineInv, Cleaning, DeleteLeavesNothing, Owned
<1>3. CASE op.kind = "delete"
  <2>1. /\ new \subseteq table
        /\ \A g \in new : Covered(g, op.todo) => Len(op.todo) > 1 /\ Covered(g, Tail(op.todo))
    BY <1>1, <1>3, Removed DEF Sending
  <2> QED
    BY <1>1, <1>3, <2>1 DEF FlowsGood, PipelineInv, Shape, Cleaning, DeleteLeavesNothing, Owned
<1> QED
  BY <1>1, <1>2, <1>3 DEF Sending

LEMMA InvSend == ASSUME PipelineInv, Send PROVE PipelineInv'
<1> DEFINE t == op.template
<1>1. /\ op # Idle /\ table' = Applied(table, Encoded(Head(op.todo)), t)
      /\ UNCHANGED deployment
  BY DEF Send
<1>2. Sending(op) /\ t \in deployment
  BY <1>1, Operations DEF PipelineInv, Sending
<1>3. /\ FlowsGood(table') /\ \A g \in table' : g.owner \in deployment
      /\ \A u \in deployment : status[u] = "absent" => \A g \in table' : g.owner # u
      /\ op.kind = "delete" =>
            \A g \in table' : g.owner = t => Len(op.todo) > 1 /\ Covered(g, Tail(op.todo))
  BY <1>1, InvSent
<1>4. CASE Len(op.todo) > 1
  <2> DEFINE new == [op EXCEPT !.todo = Tail(@)]
  <2>1. op' = new /\ UNCHANGED status
    BY <1>4 DEF Send
  <2>2. op' = [kind |-> op.kind, template |-> t, todo |-> Tail(op.todo)]
    BY <1>2, <2>1 DEF Sending
  <2>3. op'.kind = op.kind /\ op'.template = t /\ op'.todo = Tail(op.todo)
    BY <2>2
  <2>4. Sending(op)'
    <3>1. \A S : op.todo \in Seq(S) => /\ Tail(op.todo) \in Seq(S)
                                       /\ Len(Tail(op.todo)) = Len(op.todo) - 1
                                       /\ Tail(op.todo)[Len(op.todo) - 1] = op.todo[Len(op.todo)]
      BY <1>4
    <3>2. Len(op.todo) - 1 > 0
      BY <1>2, <1>4 DEF Sending
    <3>3. t \in deployment' /\ status'[t] = "partial" /\ op.kind \in {"install", "delete"}
      BY <1>1, <1>2, <2>1 DEF Sending
    <3>4. op.kind = "install" => Tail(op.todo) \in Seq(Mods(t)) /\ Len(Tail(op.todo)) > 0
      BY <1>2, <3>1, <3>2 DEF Sending
    <3>5. op.kind = "delete" =>
             /\ t \in Deletable /\ Tail(op.todo) \in Seq(Dels(t)) /\ Len(Tail(op.todo)) > 0
             /\ t = "learning" => Tail(op.todo)[Len(Tail(op.todo))] = Del(1, {})
      BY <1>2, <3>1, <3>2 DEF Sending
    <3> QED
      BY <2>2, <2>3, <3>3, <3>4, <3>5 DEF Sending
  <2>5. Shape'
    BY <1>1, <1>3, <2>1, <2>4 DEF PipelineInv, Shape
  <2>6. Cleaning'
    BY <1>1, <1>3, <2>1, <2>3 DEF Cleaning, DeleteLeavesNothing, Owned
  <2> QED
    BY <2>5, <2>6 DEF PipelineInv
<1>5. CASE ~(Len(op.todo) > 1)
  <2> DEFINE s == IF op.kind = "install" THEN "whole" ELSE "absent"
  <2>1. op' = Idle /\ status' = [status EXCEPT ![t] = s]
    BY <1>5 DEF Send
  <2>2. s \in {"absent", "partial", "whole"}
    OBVIOUS
  <2>3. op'.kind = "none"
    BY <2>1 DEF Idle
  <2>4. s = "absent" => op.kind = "delete"
    BY <1>2 DEF Sending
  <2> HIDE DEF s
  <2>5. Shape'
    BY <1>1, <1>3, <2>1, <2>2 DEF PipelineInv, Shape
  <2>6. ASSUME NEW u \in deployment, status'[u] = "absent" PROVE \A g \in table' : g.owner # u
    BY <1>2, <1>3, <1>5, <2>1, <2>4, <2>6 DEF PipelineInv, Shape
  <2>7. Cleaning'
    BY <1>1, <2>3, <2>6 DEF Cleaning, DeleteLeavesNothing, Owned
  <2> QED
    BY <2>5, <2>7 DEF PipelineInv
<1> QED
  BY <1>4, <1>5

LEMMA InvSendFails == ASSUME PipelineInv, SendFails PROVE PipelineInv'
<1> DEFINE new == Applied(table, Encoded(Head(op.todo)), op.template)
<1>1. op # Idle /\ op' = Idle /\ UNCHANGED <<deployment, status>> /\ table' \in {table, new}
  BY DEF SendFails
<1>2. op'.kind = "none"
  BY <1>1 DEF Idle
<1>3. /\ FlowsGood(new) /\ \A g \in new : g.owner \in deployment
      /\ \A u \in deployment : status[u] = "absent" => \A g \in new : g.owner # u
  BY <1>1, InvSent
<1> HIDE DEF new
<1>4. /\ FlowsGood(table') /\ \A g \in table' : g.owner \in deployment
      /\ \A u \in deployment : status[u] = "absent" => \A g \in table' : g.owner # u
  BY <1>1, <1>3 DEF PipelineInv, Shape, Cleaning, DeleteLeavesNothing, Owned
<1>5. Shape'
  BY <1>1, <1>4 DEF PipelineInv, Shape
<1>6. Cleaning'
  BY <1>1, <1>2, <1>4 DEF Cleaning, DeleteLeavesNothing, Owned
<1> QED
  BY <1>5, <1>6 DEF PipelineInv

LEMMA InvForward == ASSUME PipelineInv, Forward PROVE PipelineInv'
<1>0. PICK f : \E s \in Traversals(table, conns, f) : table' = s.table
  BY DEF Forward
<1>1. PICK s \in Traversals(table, conns, f) : table' = s.table
  BY <1>0
<1>2. UNCHANGED <<deployment, op, status>>
  BY DEF Forward
<1>3. FlowsGood(table') /\ Grown(table, table')
  BY <1>1, TraversalGrows DEF PipelineInv, Shape
<1>4. \A g \in table' : g \in table \/ (LearnedFlow(g) /\ g.owner = "learning"
                                          /\ \E h \in table : h.owner = "learning")
  BY <1>3, LearnedFacts DEF Grown
<1>5. \A g \in table' : g.owner \in deployment
  BY <1>4 DEF PipelineInv, Shape
<1>6. Shape'
  <2>1. Sending(op)' <=> Sending(op)
    BY <1>2 DEF Sending
  <2> QED
    BY <1>2, <1>3, <1>5, <2>1 DEF PipelineInv, Shape
<1>7. DeleteLeavesNothing'
  BY <1>2, <1>4 DEF PipelineInv, Cleaning, DeleteLeavesNothing, Owned
<1>8. ASSUME op.kind = "delete", NEW g \in table', g.owner = op.template PROVE Covered(g, op.todo)
  <2>1. CASE g \in table
    BY <1>8, <2>1 DEF PipelineInv, Cleaning, Owned
  <2>2. CASE LearnedFlow(g)
    <3>1. g.table = 1 /\ op.template = "learning" /\ Sending(op)
      BY <1>8, <2>2, LearnedFacts, Operations DEF PipelineInv, Idle
    <3>2. op.todo[Len(op.todo)] = Del(1, {}) /\ Len(op.todo) \in DOMAIN op.todo
      BY <1>8, <3>1 DEF Sending
    <3> QED
      BY <3>1, <3>2, DelFacts DEF Covered
  <2> QED
    BY <1>4, <2>1, <2>2
<1>9. Cleaning'
  BY <1>2, <1>7, <1>8 DEF Cleaning, Owned
<1> QED
  BY <1>6, <1>9 DEF PipelineInv

LEMMA InvNext == PipelineInv /\ [Next]_vars => PipelineInv'
<1> SUFFICES ASSUME PipelineInv, [Next]_vars PROVE PipelineInv'
  OBVIOUS
<1>1. ASSUME NEW t \in deployment, Install(t) PROVE PipelineInv'
  <2>1. t \in AllTemplates
    BY Deployed DEF PipelineInv, Shape
  <2>2. FlowsOf(t) \in Seq(Mods(t)) /\ Len(FlowsOf(t)) > 0
    BY <2>1, FlowsSent
  <2> QED
    BY <1>1, <2>2, InvCall DEF Install
<1>2. ASSUME NEW t \in deployment, Delete(t) PROVE PipelineInv'
  <2>1. t \in Deletable /\ Len(Deletes(t)) > 0
    BY <1>2, DelsSent DEF Delete
  <2> QED
    BY <1>2, <2>1, InvCall DEF Delete
<1>3. CASE UNCHANGED vars
  <2>1. Sending(op)' <=> Sending(op)
    BY <1>3 DEF Sending, vars
  <2>2. Shape'
    BY <1>3, <2>1 DEF PipelineInv, Shape, vars
  <2>3. Cleaning'
    BY <1>3 DEF PipelineInv, Cleaning, DeleteLeavesNothing, Owned, vars
  <2> QED
    BY <2>2, <2>3 DEF PipelineInv
<1> QED
  BY <1>1, <1>2, <1>3, InvSend, InvSendFails, InvForward DEF Next

(* Every flow on the switch is one that a template installs, or was        *)
(* learned; and a delete in progress still has to send what covers the     *)
(* flows of its template that are left, however often frames are learned   *)
(* from meanwhile.                                                         *)
THEOREM PipelinesShape == Spec => []PipelineInv
<1>1. Init => PipelineInv
  BY InvInit
<1>2. PipelineInv /\ [Next]_vars => PipelineInv'
  BY InvNext
<1> QED
  BY <1>1, <1>2, PTL DEF Spec

(* A delete that returned Ok leaves no flow of its template, whatever was  *)
(* learned meanwhile and whatever templates share the tables.              *)
THEOREM Emptied == Spec => []DeleteLeavesNothing
<1>1. PipelineInv => DeleteLeavesNothing
  BY DEF PipelineInv, Cleaning
<1> QED
  BY <1>1, PipelinesShape, PTL

-----------------------------------------------------------------------------
(* The names of the fields that a match looks at.                          *)
LooksOnly(m, N) == \A c \in m : c[1] \in N
LooksAt(t) ==
    CASE t = "learning" -> {} [] t = "vlan" -> {"in_port", "vlan_vid"}
      [] t = "mac_nat" -> {"in_port", "eth_src", "eth_dst", "eth_type"}
      [] t = "arp_proxy" -> {"in_port", "eth_type", "arp_op", "tpa"}
      [] t = "ndp_proxy" -> {"in_port", "eth_type", "ip_proto", "icmpv6_type"}
      [] t = "snat" -> {"in_port", "eth_type", "ct_state"}
      [] t = "dnat" -> {"in_port", "eth_type", "ct_state", "ip_proto", "tp_dst"}

LEMMA RowMatch == \A t, n, p, m, acts : Row(t, n, p, m, acts).match = m
  BY DEF Row

LEMMA RowsLook == \A t \in AllTemplates : \A g \in Rows(t) : LooksOnly(g.match, LooksAt(t))
<1>1. \A g \in LearningRows : LooksOnly(g.match, {})
  BY RowMatch DEF LearningRows, LooksOnly
<1>2. \A g \in VlanRows : LooksOnly(g.match, {"in_port", "vlan_vid"})
  <2> SUFFICES ASSUME NEW g \in VlanRows, NEW c \in g.match PROVE c[1] \in {"in_port", "vlan_vid"}
    BY DEF LooksOnly
  <2> QED
    BY RowMatch DEF VlanRows
<1>3. \A g \in MacNatRows : LooksOnly(g.match, {"in_port", "eth_src", "eth_dst", "eth_type"})
  <2> SUFFICES ASSUME NEW g \in MacNatRows, NEW c \in g.match PROVE c[1] \in {"in_port", "eth_src", "eth_dst", "eth_type"}
    BY DEF LooksOnly
  <2> QED
    BY RowMatch DEF MacNatRows
<1>4. \A g \in ArpProxyRows : LooksOnly(g.match, {"in_port", "eth_type", "arp_op", "tpa"})
  <2> SUFFICES ASSUME NEW g \in ArpProxyRows, NEW c \in g.match PROVE c[1] \in {"in_port", "eth_type", "arp_op", "tpa"}
    BY DEF LooksOnly
  <2> QED
    BY RowMatch DEF ArpProxyRows, ArpRequestFor
<1>5. \A g \in NdpProxyRows : LooksOnly(g.match, {"in_port", "eth_type", "ip_proto", "icmpv6_type"})
  <2> SUFFICES ASSUME NEW g \in NdpProxyRows, NEW c \in g.match PROVE c[1] \in {"in_port", "eth_type", "ip_proto", "icmpv6_type"}
    BY DEF LooksOnly
  <2> QED
    BY RowMatch DEF NdpProxyRows, Solicitation
<1>6. \A g \in SnatRows : LooksOnly(g.match, {"in_port", "eth_type", "ct_state"})
  <2> SUFFICES ASSUME NEW g \in SnatRows, NEW c \in g.match PROVE c[1] \in {"in_port", "eth_type", "ct_state"}
    BY DEF LooksOnly
  <2> QED
    BY RowMatch DEF SnatRows, New, Est, Inv
<1>7. \A g \in DnatRows : LooksOnly(g.match, {"in_port", "eth_type", "ct_state", "ip_proto", "tp_dst"})
  <2> SUFFICES ASSUME NEW g \in DnatRows, NEW c \in g.match PROVE c[1] \in {"in_port", "eth_type", "ct_state", "ip_proto", "tp_dst"}
    BY DEF LooksOnly
  <2> QED
    BY RowMatch DEF DnatRows, New, Est, Inv
<1> QED
  BY <1>1, <1>2, <1>3, <1>4, <1>5, <1>6, <1>7 DEF AllTemplates, Rows, LooksAt

LEMMA Spared ==
    ASSUME NEW u \in Sparing, NEW m \in Dels(u), NEW g, FlowGood(g), g.owner # u,
           g.table = m.table
    PROVE  ~(m.match \subseteq g.match)
<1>1. m.table = 0
  BY DelFacts DEF Sparing, Dels, FromMac, ToMac, Asked, Sought
<1>2. g.owner \in AllTemplates /\ g \in Rows(g.owner)
  BY <1>1, LearnedFacts DEF FlowGood
<1>3. LooksOnly(g.match, LooksAt(g.owner))
  BY <1>2, RowsLook
<1>4. \A c \in g.match : c[1] \in LooksAt(g.owner)
  BY <1>3 DEF LooksOnly
<1>5. CASE u = "mac_nat"
  <2>1. "eth_src" \notin LooksAt(g.owner) /\ "eth_dst" \notin LooksAt(g.owner)
    BY <1>2, <1>5 DEF LooksAt, AllTemplates
  <2>2. <<"eth_src", "h">> \notin g.match /\ <<"eth_dst", "x">> \notin g.match
    BY <1>4, <2>1
  <2> QED
    BY <1>5, <2>2, DelFacts DEF Dels, FromMac, ToMac
<1>6. CASE u = "arp_proxy"
  <2>1. "arp_op" \notin LooksAt(g.owner)
    BY <1>2, <1>6 DEF LooksAt, AllTemplates
  <2>2. <<"arp_op", "request">> \notin g.match
    BY <1>4, <2>1
  <2> QED
    BY <1>6, <2>2, DelFacts DEF Dels, Asked, ArpRequestFor
<1>7. CASE u = "ndp_proxy"
  <2>1. "icmpv6_type" \notin LooksAt(g.owner)
    BY <1>2, <1>7 DEF LooksAt, AllTemplates
  <2>2. <<"icmpv6_type", "ns">> \notin g.match
    BY <1>4, <2>1
  <2> QED
    BY <1>7, <2>2, DelFacts DEF Dels, Sought, Solicitation
<1> QED
  BY <1>5, <1>6, <1>7 DEF Sparing

(* Without a flow that learns frames leave the table as it is.             *)
AllTame(tb) == \A g \in tb : Tame(g.actions)

LEMMA VisitKeeps ==
    ASSUME NEW s, IsTraversal(s), AllTame(s.table), NEW t \in Visit(s)
    PROVE  IsTraversal(t) /\ t.table = s.table
<1>1. CASE t = [s EXCEPT !.next = NoTable]
  BY <1>1 DEF IsTraversal
<1>2. ASSUME NEW g \in s.table, t \in Through(s, g) PROVE IsTraversal(t) /\ t.table = s.table
  BY <1>2, TameThrough DEF AllTame
<1> QED
  BY <1>1, <1>2, VisitFacts

LEMMA TraversalKeeps ==
    ASSUME NEW tb, AllTame(tb), NEW cs, NEW f, NEW t \in Traversals(tb, cs, f)
    PROVE  t.table = tb
<1> DEFINE s == Entered(tb, cs, f)
<1>1. PICK u \in Visit(s) : \E v \in Visit(u) : t \in Visit(v)
  BY ThreeVisits
<1>2. PICK v \in Visit(u) : t \in Visit(v)
  BY <1>1
<1>3. IsTraversal(s) /\ s.table = tb
  BY EnteredFacts
<1> HIDE DEF s
<1>4. IsTraversal(u) /\ u.table = tb
  BY <1>1, <1>3, VisitKeeps
<1>5. IsTraversal(v) /\ v.table = tb
  BY <1>2, <1>4, VisitKeeps
<1> QED
  BY <1>2, <1>5, VisitKeeps

LEMMA NothingLearns ==
    ASSUME Shape, "learning" \notin deployment
    PROVE  AllTame(table)
  BY GoodFlows DEF Shape, FlowsGood, AllTame

(* The deletes that name what they match take no flow of another template, *)
(* wherever the learning switch, whose flows replace each other, is not    *)
(* used together with them.                                                *)
THEOREM OthersSpared ==
    ASSUME LearnsAlone
    PROVE  Spec => DeleteSparesOthers
<1> DEFINE P == op.kind = "delete" /\ op.template \in {"mac_nat", "arp_proxy", "ndp_proxy"}
                  => \A t \in deployment \ {op.template} : Owned(t) \subseteq Owned(t)'
<1>1. ASSUME PipelineInv, [Next]_vars PROVE P
  <2> SUFFICES ASSUME op.kind = "delete", op.template \in Sparing,
                      NEW t \in deployment \ {op.template}, NEW g \in Owned(t)
               PROVE  g \in table'
    BY DEF Owned, Sparing
  <2>1. g \in table /\ g.owner = t /\ FlowGood(g)
    BY <1>1 DEF Owned, PipelineInv, Shape, FlowsGood
  <2>2. op # Idle /\ Sending(op)
    BY <1>1, Operations DEF PipelineInv, Idle
  <2>3. ASSUME Send \/ SendFails PROVE g \in table'
    <3>1. table' \in {table, Applied(table, Encoded(Head(op.todo)), op.template)}
      BY <2>3 DEF Send, SendFails
    <3>2. op.todo \in Seq(Dels(op.template)) /\ Len(op.todo) > 0
      BY <2>2 DEF Sending
    <3>3. Head(op.todo) \in Dels(op.template)
      BY <3>2
    <3> DEFINE m == Head(op.todo)
               new == Applied(table, Encoded(m), op.template)
    <3>4. g \notin new => g.table = m.table /\ m.match \subseteq g.match
      BY <2>1, <3>2, Removed
    <3>5. g.owner # op.template
      BY <2>1
    <3>6. ~(g.table = m.table /\ m.match \subseteq g.match)
      <4> HIDE DEF m
      <4> QED
        BY <2>1, <3>3, <3>5, Spared DEF m
    <3>7. g \in new
      BY <3>4, <3>6
    <3> QED
      BY <2>1, <3>1, <3>7
  <2>4. ASSUME Forward PROVE g \in table'
    <3>1. "learning" \notin deployment
      BY <1>1, <2>2 DEF LearnsAlone, PipelineInv, Shape, Sending
    <3>2. AllTame(table)
      BY <1>1, <3>1, NothingLearns DEF PipelineInv
    <3>3. PICK f : \E s \in Traversals(table, conns, f) : table' = s.table
      BY <2>4 DEF Forward
    <3>4. table' = table
      BY <3>2, <3>3, TraversalKeeps
    <3> QED
      BY <2>1, <3>4
  <2>5. CASE UNCHANGED vars
    BY <2>1, <2>5 DEF vars
  <2> QED
    BY <1>1, <2>2, <2>3, <2>4, <2>5 DEF Next, Install, Delete, Call
<1>2. Spec => [][P]_vars
  <2>1. PipelineInv /\ [Next]_vars => [P]_vars
    BY <1>1
  <2> QED
    BY <2>1, PipelinesShape, PTL DEF Spec
<1> QED
  BY <1>2 DEF DeleteSparesOthers
-----------------------------------------------------------------------------
(* What is true of the last frame follows from the step that forwarded it. *)
LEMMA ApartOwners ==
    ASSUME Shape, NEW ts, UsedApart(ts), deployment \intersect ts # {}
    PROVE  /\ deployment \subseteq ts
           /\ \A g \in table : g.owner \in ts /\ FlowGood(g)
  BY DEF Shape, UsedApart, FlowsGood

LEMMA OneTable ==
    ASSUME NEW tb, NEW cs, NEW f, NEW t \in Traversals(tb, cs, f),
           \A u \in Visit(Entered(tb, cs, f)) : u.next = NoTable
    PROVE  t \in Visit(Entered(tb, cs, f))
<1>1. PICK u \in Visit(Entered(tb, cs, f)) : \E v \in Visit(u) : t \in Visit(v)
  BY ThreeVisits
<1>2. PICK v \in Visit(u) : t \in Visit(v)
  BY <1>1
<1>3. v = u
  BY <1>2, VisitFacts
<1>4. t = v
  BY <1>2, <1>3, VisitFacts
<1> QED
  BY <1>3, <1>4

-----------------------------------------------------------------------------
(* VLAN: frames and what the flows do to their tags.                       *)
Tags == {"0", "10", "20", "30", "31"}
Taggable(f) == "in_port" \in DOMAIN f /\ "vlans" \in DOMAIN f /\ f.vlans \in Seq(Tags)

LEMMA TagPushed ==
    ASSUME NEW f, Taggable(f), NEW e, e = Pushed(f)
    PROVE  Taggable(e) /\ e.in_port = f.in_port /\ e.vlans # <<>>
<1>1. /\ <<"0">> \o f.vlans \in Seq(Tags)
      /\ Len(<<"0">> \o f.vlans) = Len(<<"0">>) + Len(f.vlans)
  <2>1. <<"0">> \in Seq(Tags) /\ f.vlans \in Seq(Tags)
    BY DEF Taggable, Tags
  <2> QED
    BY <2>1, ConcatProperties
<1>2. Len(<<"0">>) = 1 /\ Len(f.vlans) \in Nat /\ Len(<<>>) = 0
  BY DEF Taggable
<1>3. DOMAIN e = DOMAIN f /\ e.vlans = <<"0">> \o f.vlans /\ e.in_port = f.in_port
  BY DEF Taggable, Pushed
<1>4. <<"0">> \o f.vlans # <<>>
  BY <1>1, <1>2
<1> QED
  BY <1>1, <1>3, <1>4, Zenon DEF Taggable

LEMMA TagSet ==
    ASSUME NEW f, Taggable(f), f.vlans # <<>>, NEW v \in Tags
    PROVE  /\ Taggable(WithField(f, "vlan_vid", v))
           /\ WithField(f, "vlan_vid", v).in_port = f.in_port
           /\ Field(WithField(f, "vlan_vid", v), "vlan_vid") = v
<1> DEFINE e == WithField(f, "vlan_vid", v)
           w == [f.vlans EXCEPT ![1] = v]
<1>1. w \in Seq(Tags) /\ w # <<>> /\ w[1] = v /\ Head(w) = v
  <2>1. Len(f.vlans) \in Nat /\ Len(f.vlans) > 0
    BY DEF Taggable
  <2>2. w \in Seq(Tags) /\ Len(w) = Len(f.vlans) /\ w[1] = v
    BY <2>1 DEF Taggable
  <2> QED
    BY <2>1, <2>2
<1>2. e = [f EXCEPT !.vlans = w]
  BY DEF WithField
<1> HIDE DEF w
<1>3. DOMAIN e = DOMAIN f /\ e.vlans = w /\ e.in_port = f.in_port
  BY <1>2 DEF Taggable
<1> HIDE DEF e
<1>4. Taggable(e)
  BY <1>1, <1>3 DEF Taggable
<1>5. Field(e, "vlan_vid") = v
  BY <1>1, <1>3 DEF Field
<1> QED
  BY <1>3, <1>4, <1>5 DEF e

LEMMA TagPopped ==
    ASSUME NEW f, Taggable(f), NEW e, e = Popped(f)
    PROVE  e.vlans = Tail(f.vlans) /\ e.in_port = f.in_port
  BY DEF Taggable, Popped

LEMMA OutputTo ==
    ASSUME NEW u, IsTraversal(u), NEW p, NEW t \in Act(u, Output(p))
    PROVE  /\ IsTraversal(t) /\ t.next = u.next /\ t.frame = u.frame /\ t.conns = u.conns
           /\ \A o \in t.out : o \in u.out \/ (o.port = p /\ o.frame = u.frame)
<1>1. Sends(u, t, {p} \ {u.frame.in_port})
  BY ActSends
<1>2. \A o \in {[port |-> q, frame |-> u.frame] : q \in {p} \ {u.frame.in_port}} :
         o.port = p /\ o.frame = u.frame
  OBVIOUS
<1> QED
  BY <1>1, <1>2 DEF Sends

(* A traversal that ends here having sent only f, on port p.               *)
EndsWith(t, out, p, f) ==
    /\ t.next = NoTable
    /\ \A o \in t.out : o \in out \/ (o.port = p /\ o.frame = f)

LEMMA ThroughOutput ==
    ASSUME NEW s, IsTraversal(s), NEW g, NEW p, g.actions = <<Output(p)>>, NEW t \in Through(s, g)
    PROVE  EndsWith(t, s.out, p, s.frame)
<1>1. t \in Act(Entering(s, g), Output(p))
  BY OneAction
<1> QED
  BY <1>1, EnteringFacts, OutputTo DEF EndsWith

LEMMA ThroughSet ==
    ASSUME NEW s, IsTraversal(s), NEW g, NEW k, NEW v, NEW p,
           g.actions = <<SetField(k, v), Output(p)>>, NEW t \in Through(s, g)
    PROVE  EndsWith(t, s.out, p, WithField(s.frame, k, v))
<1>1. PICK u \in Act(Entering(s, g), SetField(k, v)) : t \in Act(u, Output(p))
  BY TwoActions
<1>2. Rewrites(Entering(s, g), u, WithField(Entering(s, g).frame, k, v))
  BY <1>1, EnteringFacts, ActRewrites
<1> QED
  BY <1>1, <1>2, EnteringFacts, OutputTo DEF EndsWith, Rewrites

LEMMA ThroughSets ==
    ASSUME NEW s, IsTraversal(s), NEW g, NEW k, NEW v, NEW l, NEW w, NEW p,
           g.actions = <<SetField(k, v), SetField(l, w), Output(p)>>, NEW t \in Through(s, g)
    PROVE  EndsWith(t, s.out, p, WithField(WithField(s.frame, k, v), l, w))
<1>1. PICK u \in Act(Entering(s, g), SetField(k, v)) :
              \E x \in Act(u, SetField(l, w)) : t \in Act(x, Output(p))
  BY ThreeActions
<1>2. PICK x \in Act(u, SetField(l, w)) : t \in Act(x, Output(p))
  BY <1>1
<1>3. Rewrites(Entering(s, g), u, WithField(Entering(s, g).frame, k, v))
  BY <1>1, EnteringFacts, ActRewrites
<1>4. Rewrites(u, x, WithField(u.frame, l, w))
  BY <1>2, <1>3, ActRewrites DEF Rewrites
<1> QED
  BY <1>2, <1>3, <1>4, EnteringFacts, OutputTo DEF EndsWith, Rewrites

LEMMA ThroughPop ==
    ASSUME NEW s, IsTraversal(s), NEW g, NEW p, g.actions = <<PopVlan, Output(p)>>,
           NEW t \in Through(s, g)
    PROVE  EndsWith(t, s.out, p, Popped(s.frame))
<1>1. PICK u \in Act(Entering(s, g), PopVlan) : t \in Act(u, Output(p))
  BY TwoActions
<1>2. Rewrites(Entering(s, g), u, Popped(Entering(s, g).frame))
  BY <1>1, EnteringFacts, ActRewrites
<1> QED
  BY <1>1, <1>2, EnteringFacts, OutputTo DEF EndsWith, Rewrites

LEMMA ThroughPush ==
    ASSUME NEW s, IsTraversal(s), NEW g, NEW v, NEW p,
           g.actions = <<PushVlan, SetField("vlan_vid", v), Output(p)>>, NEW t \in Through(s, g)
    PROVE  EndsWith(t, s.out, p, WithField(Pushed(s.frame), "vlan_vid", v))
<1>1. PICK u \in Act(Entering(s, g), PushVlan) :
              \E x \in Act(u, SetField("vlan_vid", v)) : t \in Act(x, Output(p))
  BY ThreeActions
<1>2. PICK x \in Act(u, SetField("vlan_vid", v)) : t \in Act(x, Output(p))
  BY <1>1
<1>3. Rewrites(Entering(s, g), u, Pushed(Entering(s, g).frame))
  BY <1>1, EnteringFacts, ActRewrites
<1>4. Rewrites(u, x, WithField(u.frame, "vlan_vid", v))
  BY <1>2, <1>3, ActRewrites DEF Rewrites
<1> QED
  BY <1>2, <1>3, <1>4, EnteringFacts, OutputTo DEF EndsWith, Rewrites

LEMMA MatchFacts ==
    \A m, f, k, v : Matches(m, f) /\ <<k, v>> \in m /\ k # "ct_state" => Field(f, k) = v
<1> SUFFICES ASSUME NEW m, NEW f, NEW k, NEW v, Matches(m, f), <<k, v>> \in m, k # "ct_state"
             PROVE  Field(f, k) = v
  OBVIOUS
<1> DEFINE c == <<k, v>>
<1>1. c[1] = k /\ c[2] = v
  OBVIOUS
<1> HIDE DEF c
<1>2. c \in m
  BY DEF c
<1> QED
  BY <1>1, <1>2 DEF Matches

LEMMA PlainField == \A f, k : k # "vlan_vid" => Field(f, k) = f[k]
  BY DEF Field

VlanStep(f, o) ==
    \/ f.in_port = 1 /\ o.port = 2 /\ Field(o.frame, "vlan_vid") = "10"
    \/ f.in_port = 3 /\ o.port = 2 /\ Field(o.frame, "vlan_vid") = "20"
    \/ /\ f.in_port = 2 /\ Field(f, "vlan_vid") = "10" /\ o.port = 1
       /\ o.frame.vlans = Tail(f.vlans)
    \/ /\ f.in_port = 2 /\ Field(f, "vlan_vid") = "20" /\ o.port = 3
       /\ o.frame.vlans = Tail(f.vlans)
    \/ /\ f.in_port = 2 /\ Field(f, "vlan_vid") = "30" /\ o.port = 4
       /\ Field(o.frame, "vlan_vid") = "30"
    \/ /\ f.in_port = 4 /\ Field(f, "vlan_vid") = "31" /\ o.port = 2
       /\ Field(o.frame, "vlan_vid") = "30"

Tagged(q, v) == {<<"in_port", q>>, <<"vlan_vid", v>>}

LEMMA VlanRowStep ==
    ASSUME NEW s, IsTraversal(s), s.out = {}, Taggable(s.frame), NEW g \in VlanRows,
           Matches(g.match, s.frame), NEW t \in Through(s, g)
    PROVE  t.next = NoTable /\ \A o \in t.out : VlanStep(s.frame, o)
<1> DEFINE f == s.frame
<1>1. ASSUME NEW q, NEW v \in Tags, g = Row("vlan", 0, 100, {<<"in_port", q>>},
                                   <<PushVlan, SetField("vlan_vid", v), Output(2)>>)
      PROVE  /\ t.next = NoTable /\ f.in_port = q
             /\ \A o \in t.out : o.port = 2 /\ Field(o.frame, "vlan_vid") = v
  <2> DEFINE e == Pushed(f)
  <2>1. /\ g.match = {<<"in_port", q>>}
        /\ g.actions = <<PushVlan, SetField("vlan_vid", v), Output(2)>>
    BY <1>1, RowFields
  <2>2. EndsWith(t, s.out, 2, WithField(e, "vlan_vid", v))
    BY <2>1, ThroughPush
  <2>3. Field(WithField(e, "vlan_vid", v), "vlan_vid") = v
    <3>1. Taggable(e) /\ e.vlans # <<>>
      BY TagPushed
    <3> HIDE DEF e
    <3> QED
      BY <3>1, TagSet
  <2>4. f.in_port = q
    BY <2>1, MatchFacts, PlainField
  <2> QED
    BY <2>2, <2>3, <2>4 DEF EndsWith
<1>2. ASSUME NEW q, NEW v, NEW p, g = Row("vlan", 0, 100, Tagged(q, v),
                                          <<PopVlan, Output(p)>>)
      PROVE  /\ t.next = NoTable /\ f.in_port = q /\ Field(f, "vlan_vid") = v
             /\ \A o \in t.out : o.port = p /\ o.frame.vlans = Tail(f.vlans)
  <2>1. /\ g.match = {<<"in_port", q>>, <<"vlan_vid", v>>}
        /\ g.actions = <<PopVlan, Output(p)>>
    BY <1>2, RowFields DEF Tagged
  <2>2. EndsWith(t, s.out, p, Popped(f))
    BY <2>1, ThroughPop
  <2>3. Popped(f).vlans = Tail(f.vlans)
    BY TagPopped
  <2>4. f.in_port = q /\ Field(f, "vlan_vid") = v
    BY <2>1, MatchFacts, PlainField
  <2> QED
    BY <2>2, <2>3, <2>4 DEF EndsWith
<1>3. ASSUME NEW q, NEW v, NEW p,
             g = Row("vlan", 0, 100, Tagged(q, v), <<Output(p)>>)
      PROVE  /\ t.next = NoTable /\ f.in_port = q /\ Field(f, "vlan_vid") = v
             /\ \A o \in t.out : o.port = p /\ o.frame = f
  <2>1. g.match = {<<"in_port", q>>, <<"vlan_vid", v>>} /\ g.actions = <<Output(p)>>
    BY <1>3, RowFields DEF Tagged
  <2>2. EndsWith(t, s.out, p, f)
    BY <2>1, ThroughOutput
  <2>3. f.in_port = q /\ Field(f, "vlan_vid") = v
    BY <2>1, MatchFacts, PlainField
  <2> QED
    BY <2>2, <2>3 DEF EndsWith
<1>4. ASSUME NEW q, NEW v, v # NoTag, NEW w \in Tags, NEW p,
             g = Row("vlan", 0, 100, Tagged(q, v),
                     <<SetField("vlan_vid", w), Output(p)>>)
      PROVE  /\ t.next = NoTable /\ f.in_port = q /\ Field(f, "vlan_vid") = v
             /\ \A o \in t.out : o.port = p /\ Field(o.frame, "vlan_vid") = w
  <2>1. /\ g.match = {<<"in_port", q>>, <<"vlan_vid", v>>}
        /\ g.actions = <<SetField("vlan_vid", w), Output(p)>>
    BY <1>4, RowFields DEF Tagged
  <2>2. EndsWith(t, s.out, p, WithField(f, "vlan_vid", w))
    BY <2>1, ThroughSet
  <2>3. f.in_port = q /\ Field(f, "vlan_vid") = v
    BY <2>1, MatchFacts, PlainField
  <2>4. f.vlans # <<>>
    BY <1>4, <2>3 DEF Field
  <2>5. Field(WithField(f, "vlan_vid", w), "vlan_vid") = w
    BY <2>4, TagSet
  <2> QED
    BY <2>2, <2>3, <2>5 DEF EndsWith
<1>5. "10" \in Tags /\ "20" \in Tags /\ "30" \in Tags /\ "31" # NoTag
  BY DEF Tags, NoTag
<1>6. CASE g = Row("vlan", 0, 100, {<<"in_port", 1>>},
                   <<PushVlan, SetField("vlan_vid", "10"), Output(2)>>)
  BY <1>1, <1>5, <1>6 DEF VlanStep
<1>7. CASE g = Row("vlan", 0, 100, {<<"in_port", 2>>, <<"vlan_vid", "10">>}, <<PopVlan, Output(1)>>)
  <2>1. g = Row("vlan", 0, 100, Tagged(2, "10"), <<PopVlan, Output(1)>>)
    BY <1>7 DEF Tagged
  <2> QED
    BY <1>2, <2>1 DEF VlanStep
<1>8. CASE g = Row("vlan", 0, 100, {<<"in_port", 3>>},
                   <<PushVlan, SetField("vlan_vid", "20"), Output(2)>>)
  BY <1>1, <1>5, <1>8, ZenonT(60) DEF VlanStep
<1>9. CASE g = Row("vlan", 0, 100, {<<"in_port", 2>>, <<"vlan_vid", "20">>}, <<PopVlan, Output(3)>>)
  <2>1. g = Row("vlan", 0, 100, Tagged(2, "20"), <<PopVlan, Output(3)>>)
    BY <1>9 DEF Tagged
  <2> QED
    BY <1>2, <2>1 DEF VlanStep
<1>10. CASE g = Row("vlan", 0, 100, {<<"in_port", 2>>, <<"vlan_vid", "30">>}, <<Output(4)>>)
  <2>1. g = Row("vlan", 0, 100, Tagged(2, "30"), <<Output(4)>>)
    BY <1>10 DEF Tagged
  <2> QED
    BY <1>3, <2>1 DEF VlanStep
<1>11. CASE g = Row("vlan", 0, 100, {<<"in_port", 4>>, <<"vlan_vid", "31">>},
                    <<SetField("vlan_vid", "30"), Output(2)>>)
  <2>1. g = Row("vlan", 0, 100, Tagged(4, "31"), <<SetField("vlan_vid", "30"), Output(2)>>)
    BY <1>11 DEF Tagged
  <2> QED
    BY <1>4, <1>5, <2>1 DEF VlanStep
<1> QED
  BY <1>6, <1>7, <1>8, <1>9, <1>10, <1>11 DEF VlanRows

VlanFrame(q, v) == [Blank EXCEPT !.in_port = q, !.vlans = v]

LEMMA VlanTaggable == \A f \in VlanFrames : Taggable(f)
<1> DEFINE Stacks == {<<>>, <<"10">>, <<"20">>, <<"30">>, <<"10", "20">>}
<1>1. \A v \in Stacks : v \in Seq(Tags)
  <2>1. /\ <<>> \in Seq(Tags)
        /\ \A v \in Tags : <<v>> \in Seq(Tags)
        /\ \A v, w \in Tags : <<v, w>> \in Seq(Tags)
    OBVIOUS
  <2>2. "10" \in Tags /\ "20" \in Tags /\ "30" \in Tags
    BY DEF Tags
  <2> QED
    BY <2>1, <2>2, Zenon
<1>2. <<"31">> \in Seq(Tags)
  BY DEF Tags
<1>3. ASSUME NEW q, NEW v, v \in Seq(Tags) PROVE Taggable(VlanFrame(q, v))
  BY <1>3 DEF Blank, Taggable, VlanFrame
<1>4. VlanFrames = {VlanFrame(p, v) : p \in {1, 2, 3}, v \in Stacks} \union {VlanFrame(4, <<"31">>)}
  BY DEF VlanFrames, VlanFrame
<1> HIDE DEF Stacks
<1>5. \A p : \A v \in Stacks : Taggable(VlanFrame(p, v))
  BY <1>1, <1>3
<1>6. Taggable(VlanFrame(4, <<"31">>))
  BY <1>2, <1>3
<1> QED
  BY <1>4, <1>5, <1>6

(* With VLAN flows only, frames change VLAN as configured.                 *)
THEOREM VlanIsolated ==
    ASSUME UsedApart({"vlan"})
    PROVE  Spec => []VlanIsolation
<1>1. Init => VlanIsolation
  BY DEF Init, VlanIsolation, NoFrame
<1>2. ASSUME PipelineInv, Forward, "vlan" \in deployment PROVE VlanIsolation'
  <2>1. \A g \in table : g.owner = "vlan" /\ FlowGood(g)
    BY <1>2, ApartOwners DEF PipelineInv
  <2>2. table \subseteq VlanRows
    BY <2>1, LearnedFacts DEF FlowGood, Rows
  <2>3. deployment = {"vlan"} /\ UNCHANGED deployment
    BY <1>2, ApartOwners DEF PipelineInv, Forward
  <2>4. PICK f \in VlanFrames : \E s \in Traversals(table, conns, f) :
                last'.frame = f /\ last'.out = s.out
    BY <1>2, <2>3 DEF Forward, FramesOf
  <2>5. PICK s \in Traversals(table, conns, f) : last'.frame = f /\ last'.out = s.out
    BY <2>4
  <2> DEFINE e == Entered(table, conns, f)
  <2>6. IsTraversal(e) /\ e.frame = f /\ e.out = {} /\ e.table = table
    BY EnteredFacts
  <2>7. ASSUME NEW t \in Visit(e)
        PROVE  t.next = NoTable /\ \A o \in t.out : VlanStep(f, o)
    <3> HIDE DEF e
    <3>1. CASE e.next = NoTable /\ t = e
      BY <2>6, <3>1
    <3>2. CASE t = [e EXCEPT !.next = NoTable]
      BY <2>6, <3>2 DEF IsTraversal
    <3>3. ASSUME NEW g \in e.table, Matches(g.match, e.frame), t \in Through(e, g)
          PROVE  t.next = NoTable /\ \A o \in t.out : VlanStep(f, o)
      BY <2>2, <2>6, <3>3, VlanRowStep, VlanTaggable
    <3> QED
      BY <3>1, <3>2, <3>3, VisitFacts
  <2>8. s \in Visit(e)
    BY <2>7, OneTable
  <2>9. \A o \in s.out : VlanStep(f, o)
    BY <2>7, <2>8
  <2> QED
    BY <2>5, <2>9 DEF VlanIsolation, VlanStep, AccessPorts
<1>3. PipelineInv /\ VlanIsolation /\ [Next]_vars => VlanIsolation'
  <2> SUFFICES ASSUME PipelineInv, VlanIsolation, [Next]_vars PROVE VlanIsolation'
    OBVIOUS
  <2>1. CASE UNCHANGED <<deployment, last>>
    BY <2>1 DEF VlanIsolation
  <2>2. CASE Forward
    <3>1. UNCHANGED deployment
      BY <2>2 DEF Forward
    <3> QED
      BY <1>2, <2>2, <3>1 DEF VlanIsolation
  <2> QED
    BY <2>1, <2>2 DEF Next, Install, Delete, Call, Send, SendFails, vars
<1> QED
  BY <1>1, <1>3, PipelinesShape, PTL DEF Spec
-----------------------------------------------------------------------------
(* The proxies and the MAC NAT: what the actions of the answer do to ARP.  *)
Setting(f, k, v) ==
    /\ DOMAIN WithField(f, k, v) = DOMAIN f /\ WithField(f, k, v)[k] = v
    /\ \A l \in DOMAIN f \ {k} : WithField(f, k, v)[l] = f[l]

LEMMA SetKeeps == \A f, k, v : k # "vlan_vid" /\ k \in DOMAIN f => Setting(f, k, v)
  BY DEF WithField, Setting

LEMMA ArpFields ==
    \A n, o, es, ed, sha, spa, tha, tpa :
        LET f == Arp(n, o, es, ed, sha, spa, tha, tpa)
        IN  /\ f.in_port = n /\ f.arp_op = o /\ f.eth_src = es /\ f.eth_dst = ed /\ f.sha = sha
            /\ f.spa = spa /\ f.tha = tha /\ f.tpa = tpa
  BY DEF Arp, Blank

LEMMA ArpSet ==
    \A n, o, es, ed, sha, spa, tha, tpa, v :
        LET f == Arp(n, o, es, ed, sha, spa, tha, tpa)
        IN  /\ WithField(f, "arp_op", v) = Arp(n, v, es, ed, sha, spa, tha, tpa)
            /\ WithField(f, "eth_src", v) = Arp(n, o, v, ed, sha, spa, tha, tpa)
            /\ WithField(f, "eth_dst", v) = Arp(n, o, es, v, sha, spa, tha, tpa)
            /\ WithField(f, "sha", v) = Arp(n, o, es, ed, v, spa, tha, tpa)
            /\ WithField(f, "spa", v) = Arp(n, o, es, ed, sha, v, tha, tpa)
            /\ WithField(f, "tha", v) = Arp(n, o, es, ed, sha, spa, v, tpa)
            /\ WithField(f, "tpa", v) = Arp(n, o, es, ed, sha, spa, tha, v)
<1> SUFFICES ASSUME NEW n, NEW o, NEW es, NEW ed, NEW sha, NEW spa, NEW tha, NEW tpa, NEW v
             PROVE  LET f == Arp(n, o, es, ed, sha, spa, tha, tpa)
                    IN  /\ WithField(f, "arp_op", v) = Arp(n, v, es, ed, sha, spa, tha, tpa)
                        /\ WithField(f, "eth_src", v) = Arp(n, o, v, ed, sha, spa, tha, tpa)
                        /\ WithField(f, "eth_dst", v) = Arp(n, o, es, v, sha, spa, tha, tpa)
                        /\ WithField(f, "sha", v) = Arp(n, o, es, ed, v, spa, tha, tpa)
                        /\ WithField(f, "spa", v) = Arp(n, o, es, ed, sha, v, tha, tpa)
                        /\ WithField(f, "tha", v) = Arp(n, o, es, ed, sha, spa, v, tpa)
                        /\ WithField(f, "tpa", v) = Arp(n, o, es, ed, sha, spa, tha, v)
  OBVIOUS
<1> DEFINE f == Arp(n, o, es, ed, sha, spa, tha, tpa)
<1>1. WithField(f, "arp_op", v) = Arp(n, v, es, ed, sha, spa, tha, tpa)
  BY DEF Arp, WithField
<1>2. WithField(f, "eth_src", v) = Arp(n, o, v, ed, sha, spa, tha, tpa)
  BY DEF Arp, WithField
<1>3. WithField(f, "eth_dst", v) = Arp(n, o, es, v, sha, spa, tha, tpa)
  BY DEF Arp, WithField
<1>4. WithField(f, "sha", v) = Arp(n, o, es, ed, v, spa, tha, tpa)
  BY DEF Arp, WithField
<1>5. WithField(f, "spa", v) = Arp(n, o, es, ed, sha, v, tha, tpa)
  BY DEF Arp, WithField
<1>6. WithField(f, "tha", v) = Arp(n, o, es, ed, sha, spa, v, tpa)
  BY DEF Arp, WithField
<1>7. WithField(f, "tpa", v) = Arp(n, o, es, ed, sha, spa, tha, v)
  BY DEF Arp, WithField
<1> QED
  BY <1>1, <1>2, <1>3, <1>4, <1>5, <1>6, <1>7

LEMMA AnswerThrough ==
    ASSUME NEW s, IsTraversal(s), s.out = {}, NEW g, g.actions = Answering, NEW t \in Through(s, g),
           s.frame = Arp(2, "request", "r", "b", "r", "ri", "0", "gw1")
    PROVE  /\ t.next = NoTable
           /\ t.out = {[port |-> 2, frame |-> Arp(2, "reply", "x", "r", "x", "gw1", "r", "ri")]}
<1>1. /\ \E S : g.actions \in Seq(S)
      /\ Len(g.actions) = 8 /\ \A i \in 1 .. 8 : i \in DOMAIN g.actions
      /\ g.actions[1] = Move("sha", "tha") /\ g.actions[2] = Move("spa", "tpa")
      /\ g.actions[3] = SetField("sha", "x") /\ g.actions[4] = SetField("spa", "gw1")
      /\ g.actions[5] = SetField("arp_op", "reply") /\ g.actions[6] = Move("eth_src", "eth_dst")
      /\ g.actions[7] = SetField("eth_src", "x") /\ g.actions[8] = InPort
  <2>1. \E S : g.actions \in Seq(S)
    BY Tameness DEF Tame
  <2> QED
    BY <2>1 DEF Answering
<1>2. PICK c : Leads(s, g, t, c)
  BY <1>1, ThroughChain
<1>3. c[0] = Entering(s, g) /\ c[8] = t
  BY <1>1, <1>2 DEF Leads
<1>4. /\ c[1] \in Act(c[0], Move("sha", "tha")) /\ c[2] \in Act(c[1], Move("spa", "tpa"))
      /\ c[3] \in Act(c[2], SetField("sha", "x")) /\ c[4] \in Act(c[3], SetField("spa", "gw1"))
      /\ c[5] \in Act(c[4], SetField("arp_op", "reply"))
      /\ c[6] \in Act(c[5], Move("eth_src", "eth_dst"))
      /\ c[7] \in Act(c[6], SetField("eth_src", "x")) /\ c[8] \in Act(c[7], InPort)
  <2>1. \A i \in 1 .. 8 : c[i] \in Act(c[i - 1], g.actions[i])
    BY <1>1, <1>2 DEF Leads
  <2> HIDE <1>2
  <2>2. /\ c[1] \in Act(c[1 - 1], g.actions[1]) /\ c[2] \in Act(c[2 - 1], g.actions[2])
        /\ c[3] \in Act(c[3 - 1], g.actions[3]) /\ c[4] \in Act(c[4 - 1], g.actions[4])
        /\ c[5] \in Act(c[5 - 1], g.actions[5]) /\ c[6] \in Act(c[6 - 1], g.actions[6])
        /\ c[7] \in Act(c[7 - 1], g.actions[7]) /\ c[8] \in Act(c[8 - 1], g.actions[8])
    BY <2>1
  <2> QED
    BY <1>1, <2>2
<1> DEFINE At(u, f) == IsTraversal(u) /\ u.next = NoTable /\ u.out = {} /\ u.frame = f
<1>5. At(c[0], Arp(2, "request", "r", "b", "r", "ri", "0", "gw1"))
  BY <1>3, EnteringFacts
<1>6. ASSUME NEW u, NEW f, At(u, f), NEW v, NEW k, NEW w, v \in Act(u, SetField(k, w))
      PROVE  At(v, WithField(f, k, w))
  <2>1. Rewrites(u, v, WithField(u.frame, k, w))
    BY <1>6, ActRewrites
  <2> QED
    BY <1>6, <2>1 DEF Rewrites
<1>7. ASSUME NEW u, NEW f, At(u, f), NEW v, NEW k, NEW d, k # "vlan_vid", v \in Act(u, Move(k, d))
      PROVE  At(v, WithField(f, d, f[k]))
  <2>1. Rewrites(u, v, WithField(u.frame, d, Field(u.frame, k)))
    BY <1>7, ActRewrites
  <2>2. Field(u.frame, k) = f[k]
    BY <1>7, PlainField
  <2> QED
    BY <1>7, <2>1, <2>2 DEF Rewrites
<1> HIDE DEF At
<1>8. At(c[1], Arp(2, "request", "r", "b", "r", "ri", "r", "gw1"))
  BY <1>4, <1>5, <1>7, ArpSet, ArpFields
<1>9. At(c[2], Arp(2, "request", "r", "b", "r", "ri", "r", "ri"))
  BY <1>4, <1>8, <1>7, ArpSet, ArpFields
<1>10. At(c[3], Arp(2, "request", "r", "b", "x", "ri", "r", "ri"))
  BY <1>4, <1>9, <1>6, ArpSet
<1>11. At(c[4], Arp(2, "request", "r", "b", "x", "gw1", "r", "ri"))
  BY <1>4, <1>10, <1>6, ArpSet
<1>12. At(c[5], Arp(2, "reply", "r", "b", "x", "gw1", "r", "ri"))
  BY <1>4, <1>11, <1>6, ArpSet
<1>13. At(c[6], Arp(2, "reply", "r", "r", "x", "gw1", "r", "ri"))
  BY <1>4, <1>12, <1>7, ArpSet, ArpFields
<1>14. At(c[7], Arp(2, "reply", "x", "r", "x", "gw1", "r", "ri"))
  BY <1>4, <1>13, <1>6, ArpSet
<1>15. Sends(c[7], t, {c[7].frame.in_port})
  BY <1>3, <1>4, <1>14, ActSends DEF At
<1>16. c[7].frame.in_port = 2
  BY <1>14, ArpFields DEF At
<1> QED
  BY <1>14, <1>15, <1>16 DEF At, Sends

ArpRow == Row("arp_proxy", 0, 200, ArpRequestFor(ArpProxyConfig), Answering)
TheRequest == Arp(2, "request", "r", "b", "r", "ri", "0", "gw1")
TheAnswer == Arp(2, "reply", "x", "r", "x", "gw1", "r", "ri")

Incoming(d, et) ==
    [Blank EXCEPT !.in_port = 2, !.eth_src = "r", !.eth_dst = d, !.eth_type = et]

LEMMA IncomingFacts ==
    \A d, et : /\ Incoming(d, et).arp_op = "-" /\ Incoming(d, et).sha = "-"
               /\ DOMAIN Incoming(d, et) = DOMAIN Blank
  BY DEF Incoming, Blank

LEMMA ProxyFramesAre ==
    ProxyFrames =
        {[Blank EXCEPT !.eth_type = et] : et \in {"ip", "ip6"}}
        \union {Incoming(d, et) : d \in {"x", "h"}, et \in {"ip", "ip6"}}
        \union {[Blank EXCEPT !.in_port = 2, !.eth_src = "r", !.eth_dst = "m", !.eth_type = "ip6",
                              !.ip_proto = "icmpv6", !.icmpv6_type = "ns"],
                Arp(1, "request", "h", "b", "h", "gw1", "0", "ri"),
                Arp(2, "reply", "r", "x", "r", "ri", "x", "gw1"),
                TheRequest,
                Arp(2, "request", "r", "b", "r", "ri", "0", "gw9")}
  BY DEF ProxyFrames, Incoming, TheRequest

LEMMA Requests ==
    ASSUME NEW f \in ProxyFrames, Matches(ArpRequestFor(ArpProxyConfig), f)
    PROVE  f = TheRequest
<1>1. /\ f["eth_type"] = "arp" /\ f["arp_op"] = "request" /\ f["tpa"] = "gw1" /\ f["in_port"] = 2
  <2>1. /\ <<"eth_type", "arp">> \in ArpRequestFor(ArpProxyConfig)
        /\ <<"arp_op", "request">> \in ArpRequestFor(ArpProxyConfig)
        /\ <<"tpa", "gw1">> \in ArpRequestFor(ArpProxyConfig)
        /\ <<"in_port", 2>> \in ArpRequestFor(ArpProxyConfig)
    BY DEF ArpRequestFor, ArpProxyConfig
  <2> QED
    BY <2>1, MatchFacts, PlainField
<1>2. f.arp_op = "request" /\ f.tpa = "gw1" /\ f.in_port = 2
  BY <1>1
<1>3. CASE f \in {[Blank EXCEPT !.eth_type = et] : et \in {"ip", "ip6"}}
  BY <1>2, <1>3 DEF Blank
<1>4. CASE f \in {Incoming(d, et) : d \in {"x", "h"}, et \in {"ip", "ip6"}}
  BY <1>2, <1>4, IncomingFacts
<1>5. CASE f = [Blank EXCEPT !.in_port = 2, !.eth_src = "r", !.eth_dst = "m", !.eth_type = "ip6",
                             !.ip_proto = "icmpv6", !.icmpv6_type = "ns"]
  BY <1>2, <1>5 DEF Blank
<1>6. CASE f = Arp(1, "request", "h", "b", "h", "gw1", "0", "ri")
  BY <1>2, <1>6, ArpFields
<1>7. CASE f = Arp(2, "reply", "r", "x", "r", "ri", "x", "gw1")
  BY <1>2, <1>7, ArpFields
<1>8. CASE f = Arp(2, "request", "r", "b", "r", "ri", "0", "gw9")
  BY <1>2, <1>8, ArpFields
<1> QED
  BY <1>3, <1>4, <1>5, <1>6, <1>7, <1>8, ProxyFramesAre

(* Frames of other types carry no hardware address.                        *)
Proxied(f) ==
    /\ {"eth_src", "eth_dst", "eth_type", "sha", "tha", "in_port"} \subseteq DOMAIN f
    /\ f.eth_type # "arp" => f.sha # "h"

LEMMA FramesProxied == \A f \in ProxyFrames : Proxied(f)
<1>1. \A f \in {[Blank EXCEPT !.eth_type = et] : et \in {"ip", "ip6"}} : Proxied(f)
  BY DEF Blank, Proxied
<1>2. \A d, et : Proxied(Incoming(d, et))
  <2>1. {"eth_src", "eth_dst", "eth_type", "sha", "tha", "in_port"} \subseteq DOMAIN Blank
    BY DEF Blank
  <2> QED
    BY <2>1, IncomingFacts DEF Proxied
<1>3. Proxied([Blank EXCEPT !.in_port = 2, !.eth_src = "r", !.eth_dst = "m", !.eth_type = "ip6",
                            !.ip_proto = "icmpv6", !.icmpv6_type = "ns"])
  BY DEF Blank, Proxied
<1>4. \A n, o, es, ed, sha, spa, tha, tpa : Proxied(Arp(n, o, es, ed, sha, spa, tha, tpa))
  <2> SUFFICES ASSUME NEW n, NEW o, NEW es, NEW ed, NEW sha, NEW spa, NEW tha, NEW tpa
               PROVE  Proxied(Arp(n, o, es, ed, sha, spa, tha, tpa))
    OBVIOUS
  <2> DEFINE f == Arp(n, o, es, ed, sha, spa, tha, tpa)
  <2>1. {"eth_src", "eth_dst", "eth_type", "sha", "tha", "in_port"} \subseteq DOMAIN Blank
    BY DEF Blank
  <2>2. DOMAIN f = DOMAIN Blank /\ f.eth_type = "arp"
    BY <2>1 DEF Arp
  <2> QED
    BY <2>1, <2>2 DEF Proxied
<1> QED
  BY <1>1, <1>2, <1>3, <1>4, ProxyFramesAre DEF TheRequest

Hidden(o) == o.port = 2 => o.frame.eth_src # "h" /\ o.frame.sha # "h"

LEMMA MacNatStep ==
    ASSUME NEW s, IsTraversal(s), s.out = {}, Proxied(s.frame), NEW g \in MacNatRows,
           Matches(g.match, s.frame), NEW t \in Through(s, g)
    PROVE  t.next = NoTable /\ \A o \in t.out : Hidden(o)
<1> DEFINE f == s.frame
<1>1. ASSUME NEW et, et # "arp",
             g = Row("mac_nat", 0, 100, {<<"in_port", 1>>, <<"eth_src", "h">>, <<"eth_type", et>>},
                     <<SetField("eth_src", "x"), Output(2)>>)
      PROVE  t.next = NoTable /\ \A o \in t.out : Hidden(o)
  <2> DEFINE e == WithField(f, "eth_src", "x")
  <2>1. /\ g.match = {<<"in_port", 1>>, <<"eth_src", "h">>, <<"eth_type", et>>}
        /\ g.actions = <<SetField("eth_src", "x"), Output(2)>>
    BY <1>1, RowFields
  <2>2. EndsWith(t, s.out, 2, e)
    BY <2>1, ThroughSet
  <2>3. f["eth_type"] = et
    BY <2>1, MatchFacts, PlainField
  <2>4. e["eth_src"] = "x" /\ e["sha"] = f["sha"]
    BY SetKeeps DEF Setting, Proxied
  <2>5. e.eth_src # "h" /\ e.sha # "h"
    BY <1>1, <2>3, <2>4 DEF Proxied
  <2> HIDE DEF e
  <2> QED
    BY <2>2, <2>5 DEF EndsWith, Hidden
<1>2. ASSUME NEW m, g = Row("mac_nat", 0, 100, m, <<SetField("eth_dst", "h"), Output(1)>>)
      PROVE  t.next = NoTable /\ \A o \in t.out : Hidden(o)
  <2>1. g.actions = <<SetField("eth_dst", "h"), Output(1)>>
    BY <1>2, RowFields
  <2>2. EndsWith(t, s.out, 1, WithField(f, "eth_dst", "h"))
    BY <2>1, ThroughSet
  <2> QED
    BY <2>2 DEF EndsWith, Hidden
<1>3. ASSUME NEW m, g = Row("mac_nat", 0, 100, m,
                            <<SetField("eth_src", "x"), SetField("sha", "x"), Output(2)>>)
      PROVE  t.next = NoTable /\ \A o \in t.out : Hidden(o)
  <2> DEFINE e == WithField(f, "eth_src", "x")
             d == WithField(e, "sha", "x")
  <2>1. g.actions = <<SetField("eth_src", "x"), SetField("sha", "x"), Output(2)>>
    BY <1>3, RowFields
  <2>2. EndsWith(t, s.out, 2, d)
    BY <2>1, ThroughSets
  <2>3. e["eth_src"] = "x" /\ "sha" \in DOMAIN e /\ "eth_src" \in DOMAIN e
    BY SetKeeps DEF Setting, Proxied
  <2> HIDE DEF e
  <2>4. d["sha"] = "x" /\ d["eth_src"] = "x"
    BY <2>3, SetKeeps DEF Setting
  <2>5. d.eth_src # "h" /\ d.sha # "h"
    BY <2>4
  <2> HIDE DEF d
  <2> QED
    BY <2>2, <2>5 DEF EndsWith, Hidden
<1>4. ASSUME NEW m, g = Row("mac_nat", 0, 100, m,
                            <<SetField("eth_dst", "h"), SetField("tha", "h"), Output(1)>>)
      PROVE  t.next = NoTable /\ \A o \in t.out : Hidden(o)
  <2>1. g.actions = <<SetField("eth_dst", "h"), SetField("tha", "h"), Output(1)>>
    BY <1>4, RowFields
  <2>2. EndsWith(t, s.out, 1, WithField(WithField(f, "eth_dst", "h"), "tha", "h"))
    BY <2>1, ThroughSets
  <2> QED
    BY <2>2 DEF EndsWith, Hidden
<1>5. \/ \E et \in {"ip", "ip6"} :
            g = Row("mac_nat", 0, 100, {<<"in_port", 1>>, <<"eth_src", "h">>, <<"eth_type", et>>},
                    <<SetField("eth_src", "x"), Output(2)>>)
      \/ \E m : g = Row("mac_nat", 0, 100, m, <<SetField("eth_dst", "h"), Output(1)>>)
      \/ \E m : g = Row("mac_nat", 0, 100, m,
                        <<SetField("eth_src", "x"), SetField("sha", "x"), Output(2)>>)
      \/ \E m : g = Row("mac_nat", 0, 100, m,
                        <<SetField("eth_dst", "h"), SetField("tha", "h"), Output(1)>>)
  BY DEF MacNatRows
<1> QED
  BY <1>1, <1>2, <1>3, <1>4, <1>5

(* Whichever of the three a frame meets.                                   *)
LEMMA ProxyStep ==
    ASSUME NEW s, IsTraversal(s), s.out = {}, s.frame \in ProxyFrames,
           NEW g \in MacNatRows \union ArpProxyRows \union NdpProxyRows,
           Matches(g.match, s.frame), NEW t \in Through(s, g)
    PROVE  t.next = NoTable /\ \A o \in t.out : Hidden(o)
<1>1. CASE g \in MacNatRows
  BY <1>1, MacNatStep, FramesProxied
<1>2. CASE g = ArpRow
  <2>1. g.match = ArpRequestFor(ArpProxyConfig) /\ g.actions = Answering
    BY <1>2, RowFields DEF ArpRow
  <2>2. s.frame = TheRequest
    BY <2>1, Requests
  <2>3. t.next = NoTable /\ t.out = {[port |-> 2, frame |-> TheAnswer]}
    BY <2>1, <2>2, AnswerThrough DEF TheRequest, TheAnswer
  <2>4. TheAnswer.eth_src # "h" /\ TheAnswer.sha # "h"
    BY ArpFields DEF TheAnswer
  <2> QED
    BY <2>3, <2>4 DEF Hidden
<1>3. CASE g \in NdpProxyRows
  <2>1. g.actions = <<Controller>>
    BY <1>3, RowFields DEF NdpProxyRows
  <2>2. t \in Act(Entering(s, g), Controller)
    BY <2>1, OneAction
  <2> DEFINE e == Entering(s, g)
  <2>3. IsTraversal(e) /\ e.out = {} /\ e.next = NoTable
    BY EnteringFacts
  <2> HIDE DEF e
  <2>4. Sends(e, t, {ToController})
    BY <2>2, <2>3, ActSends DEF e
  <2>5. t.next = NoTable /\ \A o \in t.out : o.port = ToController
    BY <2>3, <2>4 DEF Sends
  <2> QED
    BY <2>5 DEF Hidden, ToController
<1> QED
  BY <1>1, <1>2, <1>3 DEF ArpProxyRows, ArpRow

(* What Forward does where only these three are used.                      *)
LEMMA ProxyForward ==
    ASSUME UsedApart(Sparing), PipelineInv, Forward, deployment \intersect Sparing # {}
    PROVE  /\ \A g \in table : g.owner \in Sparing /\ g \in Rows(g.owner)
           /\ table' = table
           /\ \E f \in ProxyFrames : \E s \in Visit(Entered(table, conns, f)) :
                 /\ last'.frame = f /\ last'.out = s.out
                 /\ last'.whole = {t \in deployment : status[t] = "whole"}
                 /\ \A o \in s.out : Hidden(o)
<1>1. \A g \in table : g.owner \in Sparing /\ g \in Rows(g.owner)
  BY ApartOwners, LearnedFacts DEF PipelineInv, FlowGood, Sparing
<1>2. \A g \in table : g \in MacNatRows \union ArpProxyRows \union NdpProxyRows
  BY <1>1 DEF Rows, Sparing
<1>3. deployment \subseteq Sparing
  BY ApartOwners DEF PipelineInv
<1>4. UNION {FramesOf(t) : t \in deployment} \subseteq ProxyFrames
  BY <1>3 DEF FramesOf, Sparing
<1>5. PICK f \in ProxyFrames : \E s \in Traversals(table, conns, f) :
         /\ table' = s.table
         /\ last' = [frame |-> f, out |-> s.out, whole |-> {t \in deployment : status[t] = "whole"}]
  BY <1>4 DEF Forward
<1>6. PICK s \in Traversals(table, conns, f) :
         /\ table' = s.table
         /\ last' = [frame |-> f, out |-> s.out, whole |-> {t \in deployment : status[t] = "whole"}]
  BY <1>5
<1> DEFINE e == Entered(table, conns, f)
<1>7. IsTraversal(e) /\ e.frame = f /\ e.out = {} /\ e.table = table
  BY EnteredFacts
<1>8. ASSUME NEW t \in Visit(e)
      PROVE  t.next = NoTable /\ \A o \in t.out : Hidden(o)
  <2> HIDE DEF e
  <2>1. CASE e.next = NoTable /\ t = e
    BY <1>7, <2>1
  <2>2. CASE t = [e EXCEPT !.next = NoTable]
    BY <1>7, <2>2 DEF IsTraversal
  <2>3. ASSUME NEW g \in e.table, Matches(g.match, e.frame), t \in Through(e, g)
        PROVE  t.next = NoTable /\ \A o \in t.out : Hidden(o)
    BY <1>2, <1>7, <2>3, ProxyStep
  <2> QED
    BY <2>1, <2>2, <2>3, VisitFacts
<1>9. s \in Visit(e)
  BY <1>8, OneTable
<1>10. table' = table
  <2>1. "learning" \notin deployment
    BY <1>3 DEF Sparing
  <2>2. AllTame(table)
    BY <2>1, NothingLearns DEF PipelineInv
  <2> QED
    BY <1>6, <2>2, TraversalKeeps
<1>11. /\ last'.frame = f /\ last'.out = s.out
       /\ last'.whole = {t \in deployment : status[t] = "whole"}
  BY <1>6
<1> QED
  BY <1>1, <1>8, <1>9, <1>10, <1>11

(* Steps but Forward leave the last frame alone.                           *)
LEMMA LastKept == [Next]_vars => UNCHANGED <<deployment, last>> \/ Forward
  BY DEF Next, Install, Delete, Call, Send, SendFails, vars

(* The internal MAC address stays hidden where the MAC NAT is used with    *)
(* the proxies only.                                                       *)
THEOREM MacStaysHidden ==
    ASSUME UsedApart(Sparing)
    PROVE  Spec => []MacHidden
<1>1. Init => MacHidden
  BY DEF Init, MacHidden, NoFrame
<1>2. PipelineInv /\ MacHidden /\ [Next]_vars => MacHidden'
  <2> SUFFICES ASSUME PipelineInv, MacHidden, [Next]_vars PROVE MacHidden'
    OBVIOUS
  <2>1. CASE UNCHANGED <<deployment, last>>
    BY <2>1 DEF MacHidden
  <2>2. CASE Forward
    <3>1. deployment' = deployment
      BY <2>2 DEF Forward
    <3>2. "mac_nat" \in deployment => \A o \in last'.out : Hidden(o)
      BY <2>2, ProxyForward DEF Sparing
    <3> QED
      BY <3>1, <3>2 DEF MacHidden, Hidden
  <2> QED
    BY <2>1, <2>2, LastKept
<1> QED
  BY <1>1, <1>2, PipelinesShape, PTL DEF Spec

(* The flow of an installed ARP proxy is in the table.                     *)
Standing == "arp_proxy" \in deployment /\ status["arp_proxy"] = "whole" => ArpRow \in table

LEMMA ArpRowFacts ==
    /\ ArpRow.table = 0 /\ ArpRow.priority = 200 /\ ArpRow.owner = "arp_proxy"
    /\ ArpRow.match = ArpRequestFor(ArpProxyConfig) /\ ArpRow.actions = Answering
    /\ <<"arp_op", "request">> \in ArpRow.match
    /\ ArpRow \in Rows("arp_proxy") /\ FlowGood(ArpRow)
<1>1. /\ ArpRow.table = 0 /\ ArpRow.priority = 200 /\ ArpRow.owner = "arp_proxy"
      /\ ArpRow.match = ArpRequestFor(ArpProxyConfig) /\ ArpRow.actions = Answering
  BY RowFields DEF ArpRow
<1>2. <<"arp_op", "request">> \in ArpRequestFor(ArpProxyConfig)
  BY DEF ArpRequestFor
<1>3. ArpRow \in Rows("arp_proxy")
  BY DEF Rows, ArpProxyRows, ArpRow
<1> QED
  BY <1>1, <1>2, <1>3 DEF FlowGood, AllTemplates

LEMMA AddKeeps ==
    ASSUME NEW tb, NEW m, NEW t, NEW g, m.command = "add",
           g = Entry(m, t) \/ (g \in tb /\ ~SameFlow(g, m))
    PROVE  g \in Applied(tb, m, t)
  BY DEF Applied

LEMMA ArpRowSent ==
    ASSUME PipelineInv, op # Idle, deployment \subseteq Sparing,
           ArpRow \in table \/ (op.kind = "install" /\ op.template = "arp_proxy"),
           ~(op.kind = "delete" /\ op.template = "arp_proxy")
    PROVE  ArpRow \in Applied(table, Encoded(Head(op.todo)), op.template)
<1> DEFINE t == op.template
           m == Head(op.todo)
           new == Applied(table, Encoded(m), t)
<1>1. Sending(op) /\ t \in AllTemplates /\ t \in Sparing
  BY Operations DEF PipelineInv, Sending
<1>2. CASE op.kind = "install"
  <2>1. m \in Mods(t)
    BY <1>1, <1>2 DEF Sending
  <2>2. Encoded(m).command = "add" /\ Entry(Encoded(m), t) \in Rows(t)
    BY <1>1, <2>1, ModKept
  <2>3. CASE t = "arp_proxy"
    <3>1. Entry(Encoded(m), t) = ArpRow
      BY <2>2, <2>3 DEF Rows, ArpProxyRows, ArpRow
    <3> QED
      BY <2>2, <3>1, AddKeeps
  <2>4. CASE t # "arp_proxy"
    <3>1. Entry(Encoded(m), t).match = Encoded(m).match
      BY DEF Entry
    <3>2. \A c \in Encoded(m).match : c[1] \in LooksAt(t)
      BY <1>1, <2>2, <3>1, RowsLook DEF LooksOnly
    <3>3. "arp_op" \notin LooksAt(t)
      BY <1>1, <2>4 DEF LooksAt, Sparing
    <3>4. <<"arp_op", "request">> \notin Encoded(m).match
      BY <3>2, <3>3
    <3>5. ~SameFlow(ArpRow, Encoded(m))
      BY <3>4, ArpRowFacts DEF SameFlow
    <3>6. ArpRow \in table
      BY <2>4
    <3> QED
      BY <2>2, <3>5, <3>6, AddKeeps
  <2> QED
    BY <2>3, <2>4
<1>3. CASE op.kind = "delete"
  <2>1. op.todo \in Seq(Dels(t)) /\ Len(op.todo) > 0 /\ m \in Dels(t)
    BY <1>1, <1>3 DEF Sending
  <2>2. ArpRow \notin new => ArpRow.table = m.table /\ m.match \subseteq ArpRow.match
    BY <1>3, <2>1, Removed
  <2>3. ~(ArpRow.table = m.table /\ m.match \subseteq ArpRow.match)
    <3>1. ArpRow.owner # t
      BY <1>3, ArpRowFacts
    <3> HIDE DEF m, t
    <3> QED
      BY <1>1, <2>1, <3>1, ArpRowFacts, Spared
  <2> QED
    BY <2>2, <2>3
<1> QED
  BY <1>1, <1>2, <1>3 DEF Sending

LEMMA StandingNext ==
    ASSUME UsedApart(Sparing), PipelineInv, Standing, [Next]_vars
    PROVE  Standing'
<1> SUFFICES ASSUME "arp_proxy" \in deployment', status'["arp_proxy"] = "whole"
             PROVE  ArpRow \in table'
  BY DEF Standing
<1> DEFINE new == Applied(table, Encoded(Head(op.todo)), op.template)
<1>1. deployment' = deployment
  BY DEF Next, Install, Delete, Call, Send, SendFails, Forward, vars
<1>2. deployment \subseteq Sparing /\ deployment \intersect Sparing # {}
  <2>1. deployment \intersect Sparing # {}
    BY <1>1 DEF Sparing
  <2> QED
    BY <2>1, ApartOwners DEF PipelineInv
<1>3. ASSUME op # Idle PROVE Sending(op) /\ op.template \in deployment
  BY <1>3, Operations DEF PipelineInv, Sending
<1>4. status \in [deployment -> {"absent", "partial", "whole"}]
  BY DEF PipelineInv, Shape
<1>5. ASSUME NEW t \in deployment, NEW k, NEW mods, Call(k, t, mods) PROVE ArpRow \in table'
  <2>1. table' = table /\ status' = [status EXCEPT ![t] = "partial"]
    BY <1>5 DEF Call
  <2>2. status["arp_proxy"] = "whole"
    BY <1>1, <1>4, <2>1
  <2> QED
    BY <1>1, <2>1, <2>2 DEF Standing
<1>6. CASE Send
  <2>1. /\ op # Idle /\ table' = new
        /\ \/ UNCHANGED status
           \/ status' = [status EXCEPT ![op.template] =
                            IF op.kind = "install" THEN "whole" ELSE "absent"]
    BY <1>6 DEF Send
  <2>2. Sending(op) /\ status[op.template] = "partial" /\ op.kind \in {"install", "delete"}
    BY <1>3, <2>1 DEF Sending
  <2>3. CASE op.template = "arp_proxy"
    <3>1. op.kind = "install"
      BY <1>1, <1>4, <2>1, <2>2, <2>3
    <3> QED
      BY <1>2, <2>1, <2>3, <3>1, ArpRowSent
  <2>4. CASE op.template # "arp_proxy"
    <3>1. status["arp_proxy"] = "whole"
      BY <1>1, <1>4, <2>1, <2>4
    <3>2. ArpRow \in table
      BY <1>1, <3>1 DEF Standing
    <3> QED
      BY <1>2, <2>1, <2>4, <3>2, ArpRowSent
  <2> QED
    BY <2>3, <2>4
<1>7. CASE SendFails
  <2>1. op # Idle /\ table' \in {table, new} /\ UNCHANGED status
    BY <1>7 DEF SendFails
  <2>2. op.template # "arp_proxy"
    BY <1>3, <2>1 DEF Sending
  <2>3. ArpRow \in table
    BY <1>1, <2>1 DEF Standing
  <2>4. ArpRow \in new
    BY <1>2, <2>1, <2>2, <2>3, ArpRowSent
  <2> QED
    BY <2>1, <2>3, <2>4
<1>8. CASE Forward
  <2>1. table' = table /\ UNCHANGED status
    BY <1>2, <1>8, ProxyForward DEF Forward
  <2> QED
    BY <1>1, <2>1 DEF Standing
<1>9. CASE UNCHANGED vars
  BY <1>9 DEF Standing, vars
<1> QED
  BY <1>5, <1>6, <1>7, <1>8, <1>9 DEF Next, Install, Delete

(* The proxy's flow is the best that a request for its address meets.      *)
LEMMA RequestMeets ==
    ASSUME NEW f \in ProxyFrames, Matches(ArpRequestFor(ArpProxyConfig), f), NEW tb, NEW cs,
           \A g \in tb : g.owner \in Sparing /\ g \in Rows(g.owner), ArpRow \in tb,
           NEW s \in Visit(Entered(tb, cs, f))
    PROVE  s.out = {[port |-> 2, frame |-> TheAnswer]}
<1> DEFINE e == Entered(tb, cs, f)
<1>1. IsTraversal(e) /\ e.frame = f /\ e.out = {} /\ e.table = tb /\ e.next = 0
  BY EnteredFacts
<1> HIDE DEF e
<1>2. ArpRow \in Hits(e) /\ e.next # NoTable
  BY <1>1, ArpRowFacts DEF Hits, NoTable
<1>3. PICK g \in Best(Hits(e)) : s \in Through(e, g)
  BY <1>2 DEF Visit, e
<1>4. g \in tb /\ Matches(g.match, f) /\ 200 <= g.priority
  BY <1>1, <1>2, <1>3, ArpRowFacts DEF Best, Hits
<1>5. f = TheRequest /\ f["eth_type"] = "arp"
  BY Requests DEF TheRequest, Arp, Blank
<1>6. g \notin MacNatRows
  <2>1. \A h \in MacNatRows : h.priority = 100
    <3>1. \A t, n, p, m, acts : Row(t, n, p, m, acts).priority = p
      BY DEF Row
    <3> QED
      BY <3>1 DEF MacNatRows
  <2> QED
    BY <1>4, <2>1
<1>7. g \notin NdpProxyRows
  <2> SUFFICES ASSUME g \in NdpProxyRows PROVE FALSE
    OBVIOUS
  <2>1. <<"eth_type", "ip6">> \in g.match
    BY RowMatch DEF NdpProxyRows, Solicitation
  <2>2. f["eth_type"] = "ip6"
    BY <1>4, <2>1, MatchFacts, PlainField
  <2> QED
    BY <1>5, <2>2
<1>8. g = ArpRow
  <2>1. g.owner \in Sparing /\ g \in Rows(g.owner)
    BY <1>4
  <2> QED
    BY <1>6, <1>7, <2>1 DEF Rows, Sparing, ArpProxyRows, ArpRow
<1> QED
  BY <1>1, <1>3, <1>5, <1>8, ArpRowFacts, AnswerThrough DEF TheRequest, TheAnswer

(* Where the proxies and the MAC NAT are used among themselves, a request  *)
(* for the address of an installed ARP proxy gets its one answer.          *)
THEOREM RequestsAnswered ==
    ASSUME UsedApart(Sparing)
    PROVE  Spec => []RequestIsAnswered
<1>1. Init => Standing /\ RequestIsAnswered
  BY DEF Init, Standing, RequestIsAnswered, NoFrame
<1>2. ASSUME PipelineInv, Standing, Forward PROVE RequestIsAnswered'
  <2> SUFFICES ASSUME "arp_proxy" \in last'.whole,
                      Matches(ArpRequestFor(ArpProxyConfig), last'.frame)
               PROVE  last'.out = {[port |-> 2,
                                    frame |-> Arp(2, "reply", "x", last'.frame.eth_src, "x", "gw1",
                                                  last'.frame.sha, last'.frame.spa)]}
    BY DEF RequestIsAnswered
  <2>1. last'.whole = {t \in deployment : status[t] = "whole"}
    BY <1>2 DEF Forward
  <2>2. "arp_proxy" \in deployment /\ status["arp_proxy"] = "whole"
    BY <2>1
  <2>3. deployment \intersect Sparing # {}
    BY <2>2 DEF Sparing
  <2>4. /\ \A g \in table : g.owner \in Sparing /\ g \in Rows(g.owner)
        /\ \E f \in ProxyFrames : \E s \in Visit(Entered(table, conns, f)) :
              last'.frame = f /\ last'.out = s.out
    BY <1>2, <2>3, ProxyForward
  <2>5. PICK f \in ProxyFrames : \E s \in Visit(Entered(table, conns, f)) :
              last'.frame = f /\ last'.out = s.out
    BY <2>4
  <2>6. PICK s \in Visit(Entered(table, conns, f)) : last'.frame = f /\ last'.out = s.out
    BY <2>5
  <2>7. ArpRow \in table
    BY <1>2, <2>2 DEF Standing
  <2>8. s.out = {[port |-> 2, frame |-> TheAnswer]} /\ f = TheRequest
    BY <2>4, <2>6, <2>7, RequestMeets, Requests
  <2>9. f.eth_src = "r" /\ f.sha = "r" /\ f.spa = "ri"
    BY <2>8, ArpFields DEF TheRequest
  <2> QED
    BY <2>6, <2>8, <2>9 DEF TheAnswer
<1>3. PipelineInv /\ Standing /\ RequestIsAnswered /\ [Next]_vars => Standing' /\ RequestIsAnswered'
  <2> SUFFICES ASSUME PipelineInv, Standing, RequestIsAnswered, [Next]_vars
               PROVE  Standing' /\ RequestIsAnswered'
    OBVIOUS
  <2>1. ASSUME UNCHANGED <<deployment, last>> PROVE RequestIsAnswered'
    BY <2>1 DEF RequestIsAnswered
  <2>2. Standing'
    BY StandingNext
  <2>3. RequestIsAnswered'
    BY <1>2, <2>1, LastKept
  <2> QED
    BY <2>2, <2>3
<1> QED
  BY <1>1, <1>3, PipelinesShape, PTL DEF Spec
-----------------------------------------------------------------------------
(* NAT.  What the tracked connections are, and the frames.                 *)
Gateway == SnatConfig.v4 \union SnatConfig.v6

Ours(f) ==
    /\ {"in_port", "ct", "ip_src", "ip_dst", "tp_src", "tp_dst", "eth_type"} \subseteq DOMAIN f
    /\ \/ f.in_port = 1 /\ f.ip_src \in {"h", "h6", "srv"}
       \/ f.in_port = 2 /\ f.ip_src \in {"ri", "ri6"}
    /\ f.eth_type \in {"ip", "ip6"}

ConnGood(c) ==
    /\ {"by", "src", "dst", "port", "nsrc", "ndst", "nport", "replied"} \subseteq DOMAIN c
    /\ \/ c.by = 1 /\ c.src \in {"h", "h6", "srv"} /\ c.nsrc \in Gateway
       \/ /\ c.by = 2 /\ c.src \in {"ri", "ri6"} /\ "dnat" \in deployment
          /\ c.port \in {"80", "53"} /\ c.ndst = "srv"
ConnsGood(cs) == \A c \in cs : ConnGood(c)

(* A connection that lets f in.                                            *)
Invites(c, f) ==
    \/ c.by = 1 /\ Answers(c, f)
    \/ Of(c, f) /\ "dnat" \in deployment /\ c.port \in {"80", "53"} /\ c.ndst = "srv"

(* A frame sent for f that the two properties allow.                       *)
Allowed(f, o, cs) ==
    /\ f.in_port = 2 /\ o.port = 1 => \E c \in cs : Invites(c, f)
    /\ f.in_port = 1 /\ o.port = 2 /\ "est" \notin o.frame.ct => o.frame.ip_src \in Gateway

Flagged(f, x) == [f EXCEPT !.ct = x]

(* The way of a frame f: entered, tracked, translated, done.               *)
NatEntered(s, f) == s.next = 0 /\ s.out = {} /\ s.frame = f
NatTracked(s, f) ==
    /\ s.next = 1 /\ s.out = {}
    /\ \E x : /\ s.frame = Flagged(f, x)
              /\ "est" \in x => \E c \in s.conns : \/ Answers(c, f)
                                                   \/ Of(c, f) /\ c.replied
NatTranslated(s, f) ==
    /\ s.next = 2 /\ s.out = {} /\ s.frame.in_port = f.in_port
    /\ f.in_port = 2 => \E c \in s.conns : Invites(c, f)
    /\ f.in_port = 1 => s.frame.ip_src \in Gateway
NatDone(s, f) == s.next = NoTable /\ \A o \in s.out : Allowed(f, o, s.conns)
OnItsWay(s) ==
    /\ IsTraversal(s) /\ ConnsGood(s.conns)
    /\ s.table \subseteq SnatRows \union DnatRows /\ \A g \in s.table : g.owner \in deployment

SegmentV6(in, src, dst, proto, from, to) ==
    [Segment(in, src, dst, proto, from, to) EXCEPT !.eth_type = "ip6"]

LEMMA FramesOurs == \A f \in NatFrames : Ours(f)
<1>1. \A in, src, dst, proto, from, to :
         (in = 1 /\ src \in {"h", "srv"}) \/ (in = 2 /\ src = "ri")
         => Ours(Segment(in, src, dst, proto, from, to))
  BY DEF Segment, Blank, Ours
<1>2. \A in, src, dst, proto, from, to :
         (in = 1 /\ src = "h6") \/ (in = 2 /\ src = "ri6")
         => Ours(SegmentV6(in, src, dst, proto, from, to))
  BY DEF Segment, SegmentV6, Blank, Ours
<1>3. NatFrames =
        {Segment(1, "h", "ri", "tcp", "e", "80"), Segment(1, "srv", "ri", "tcp", "8080", "e"),
         Segment(2, "ri", "gw1", "tcp", "80", "e"), Segment(2, "ri", "gw2", "tcp", "80", "e"),
         Segment(2, "ri", "gw1", "tcp", "e", "80"), Segment(2, "ri", "gw1", "tcp", "e", "22"),
         Segment(2, "ri", "gw1", "udp", "e", "53"), Segment(2, "ri", "h", "tcp", "80", "e"),
         SegmentV6(1, "h6", "ri6", "tcp", "e", "80"), SegmentV6(2, "ri6", "h6", "tcp", "e", "80")}
  BY DEF NatFrames, SegmentV6
<1> QED
  BY <1>1, <1>2, <1>3

(* Who opened the connection that a frame belongs to or answers.           *)
LEMMA Opened ==
    ASSUME NEW f, Ours(f), NEW c, ConnGood(c)
    PROVE  /\ Of(c, f) => c.by = f.in_port
           /\ Answers(c, f) /\ f.in_port = 2 => c.by = 1
           /\ Of(c, f) /\ f.in_port = 2 => Invites(c, f)
           /\ Answers(c, f) /\ f.in_port = 2 => Invites(c, f)
           /\ Of(c, f) /\ f.in_port = 1 => c.nsrc \in Gateway
  BY DEF Ours, ConnGood, Of, Answers, Invites

LEMMA TrackedFacts ==
    ASSUME NEW s, IsTraversal(s), ConnsGood(s.conns), NEW z, NEW u \in Tracked(s, z)
    PROVE  /\ IsTraversal(u) /\ u.out = s.out /\ u.table = s.table /\ ConnsGood(u.conns)
           /\ \E x : /\ u.frame = Flagged(s.frame, x)
                     /\ "est" \in x => \E c \in u.conns : \/ Answers(c, s.frame)
                                                          \/ Of(c, s.frame) /\ c.replied
<1> DEFINE f == s.frame
           mine == {c \in s.conns : c.zone = z /\ Of(c, f)}
           replied == {c \in s.conns : c.zone = z /\ Answers(c, f)}
           flags == IF replied # {} THEN {"trk", "est", "rpl"}
                    ELSE IF \E c \in mine : c.replied THEN {"trk", "est"} ELSE {"trk", "new"}
           kept == (s.conns \ replied) \union {[c EXCEPT !.replied = TRUE] : c \in replied}
<1>1. \/ u = [s EXCEPT !.frame = Flagged(f, flags), !.conns = kept]
      \/ u = [s EXCEPT !.frame = Flagged(f, {"trk", "inv"})]
  BY DEF Tracked, Flagged
<1>2. \A c : ConnGood(c) => /\ ConnGood([c EXCEPT !.replied = TRUE])
                            /\ Answers(c, f) => Answers([c EXCEPT !.replied = TRUE], f)
  BY DEF ConnGood, Answers
<1>3. \A c \in kept : ConnGood(c)
  BY <1>2 DEF ConnsGood
<1>4. "est" \in flags => \E c \in kept : Answers(c, f) \/ (Of(c, f) /\ c.replied)
  <2>1. CASE replied # {}
    <3>1. PICK c \in replied : TRUE
      BY <2>1
    <3>2. Answers([c EXCEPT !.replied = TRUE], f) /\ [c EXCEPT !.replied = TRUE] \in kept
      BY <1>2 DEF ConnsGood
    <3> QED
      BY <3>2
  <2>2. CASE replied = {} /\ \E c \in mine : c.replied
    BY <2>2
  <2>3. CASE replied = {} /\ ~\E c \in mine : c.replied
    BY <2>3
  <2> QED
    BY <2>1, <2>2, <2>3
<1> HIDE DEF flags, kept
<1>5. CASE u = [s EXCEPT !.frame = Flagged(f, flags), !.conns = kept]
  <2>1. /\ IsTraversal(u) /\ u.frame = Flagged(f, flags) /\ u.conns = kept
        /\ u.out = s.out /\ u.table = s.table
    BY <1>5 DEF IsTraversal
  <2> QED
    BY <2>1, <1>3, <1>4 DEF ConnsGood
<1>6. CASE u = [s EXCEPT !.frame = Flagged(f, {"trk", "inv"})]
  <2>1. /\ IsTraversal(u) /\ u.frame = Flagged(f, {"trk", "inv"}) /\ u.conns = s.conns
        /\ u.out = s.out /\ u.table = s.table
    BY <1>6 DEF IsTraversal
  <2> QED
    BY <2>1
<1> QED
  BY <1>1, <1>5, <1>6

LEMMA NattedFacts ==
    ASSUME NEW s, IsTraversal(s), NEW n, NEW t \in Act(s, CtNat(1, 2, n)),
           {"in_port", "ip_src", "ip_dst", "tp_dst"} \subseteq DOMAIN s.frame
    PROVE  /\ IsTraversal(t) /\ t.out = s.out /\ t.table = s.table /\ t.next = 2
           /\ t.frame.in_port = s.frame.in_port
           /\ \E c : /\ t.conns = s.conns \union {c} /\ t.frame.ip_src = c.nsrc
                     /\ \/ c \in s.conns /\ Of(c, s.frame)
                        \/ \E x \in n.addrs : c = NewConn(s.frame, 1, n, x)
<1>1. CtNat(1, 2, n).type = "ct_nat" /\ CtNat(1, 2, n).zone = 1 /\ CtNat(1, 2, n).nat = n
      /\ CtNat(1, 2, n).table = 2
  BY DEF CtNat
<1>2. t \in Natted(s, CtNat(1, 2, n))
  BY <1>1 DEF Act
<1>3. PICK c : /\ t = [s EXCEPT !.frame = Translated(@, c), !.conns = @ \union {c}, !.next = 2]
               /\ \/ c \in s.conns /\ Of(c, s.frame)
                  \/ \E x \in n.addrs : c = NewConn(s.frame, 1, n, x)
  BY <1>1, <1>2 DEF Natted
<1>4. /\ IsTraversal(t) /\ t.out = s.out /\ t.table = s.table /\ t.next = 2
      /\ t.conns = s.conns \union {c} /\ t.frame = Translated(s.frame, c)
  BY <1>3 DEF IsTraversal
<1>5. Translated(s.frame, c).in_port = s.frame.in_port /\ Translated(s.frame, c).ip_src = c.nsrc
  BY DEF Translated
<1> QED
  BY <1>3, <1>4, <1>5

LEMMA SourceTranslated ==
    ASSUME NEW f, Ours(f), NEW s, OnItsWay(s), NEW x, s.frame = Flagged(f, x), s.out = {},
           f.in_port = 1, NEW n, n.kind = "src", n.addrs \subseteq Gateway,
           NEW t \in Act(s, CtNat(1, 2, n))
    PROVE  OnItsWay(t) /\ NatTranslated(t, f)
<1>1. Ours(s.frame) /\ s.frame.in_port = 1
  BY DEF Ours, Flagged
<1>2. /\ IsTraversal(t) /\ t.out = {} /\ t.table = s.table /\ t.next = 2 /\ t.frame.in_port = 1
      /\ \E c : /\ t.conns = s.conns \union {c} /\ t.frame.ip_src = c.nsrc
                /\ \/ c \in s.conns /\ Of(c, s.frame)
                   \/ \E y \in n.addrs : c = NewConn(s.frame, 1, n, y)
  BY <1>1, NattedFacts DEF OnItsWay, Ours
<1>3. PICK c : /\ t.conns = s.conns \union {c} /\ t.frame.ip_src = c.nsrc
               /\ \/ c \in s.conns /\ Of(c, s.frame)
                  \/ \E y \in n.addrs : c = NewConn(s.frame, 1, n, y)
  BY <1>2
<1>4. ConnGood(c) /\ c.nsrc \in Gateway
  <2>1. CASE c \in s.conns /\ Of(c, s.frame)
    BY <1>1, <2>1, Opened DEF OnItsWay, ConnsGood
  <2>2. ASSUME NEW y \in n.addrs, c = NewConn(s.frame, 1, n, y)
        PROVE  ConnGood(c) /\ c.nsrc \in Gateway
    <3>1. y \in Gateway
      BY <2>2
    <3>2. c.nsrc = y /\ c.by = 1 /\ c.src = s.frame.ip_src
      BY <1>1, <2>2 DEF NewConn
    <3>3. c.src \in {"h", "h6", "srv"}
      BY <1>1, <3>2 DEF Ours
    <3>4. {"by", "src", "dst", "port", "nsrc", "ndst", "nport", "replied"} \subseteq DOMAIN c
      BY <2>2 DEF NewConn
    <3> QED
      BY <3>1, <3>2, <3>3, <3>4 DEF ConnGood
  <2> QED
    BY <1>3, <2>1, <2>2
<1> QED
  BY <1>2, <1>3, <1>4 DEF OnItsWay, ConnsGood, NatTranslated

LEMMA TargetTranslated ==
    ASSUME NEW f, Ours(f), NEW s, OnItsWay(s), NEW x, s.frame = Flagged(f, x), s.out = {},
           f.in_port = 2, NEW n, n.kind = "dst", n.addrs = {"srv"}, f.tp_dst \in {"80", "53"},
           "dnat" \in deployment, NEW t \in Act(s, CtNat(1, 2, n))
    PROVE  OnItsWay(t) /\ NatTranslated(t, f)
<1>1. /\ Ours(s.frame) /\ s.frame.in_port = 2 /\ s.frame.tp_dst = f.tp_dst
      /\ \A c : Of(c, s.frame) <=> Of(c, f)
  BY DEF Ours, Of, Flagged
<1>2. /\ IsTraversal(t) /\ t.out = {} /\ t.table = s.table /\ t.next = 2 /\ t.frame.in_port = 2
      /\ \E c : /\ t.conns = s.conns \union {c}
                /\ \/ c \in s.conns /\ Of(c, s.frame)
                   \/ \E y \in n.addrs : c = NewConn(s.frame, 1, n, y)
  BY <1>1, NattedFacts DEF OnItsWay, Ours
<1>3. PICK c : /\ t.conns = s.conns \union {c}
               /\ \/ c \in s.conns /\ Of(c, s.frame)
                  \/ \E y \in n.addrs : c = NewConn(s.frame, 1, n, y)
  BY <1>2
<1>4. ConnGood(c) /\ Of(c, f)
  <2>1. CASE c \in s.conns /\ Of(c, s.frame)
    BY <1>1, <2>1 DEF OnItsWay, ConnsGood
  <2>2. ASSUME NEW y \in n.addrs, c = NewConn(s.frame, 1, n, y)
        PROVE  ConnGood(c) /\ Of(c, f)
    <3>2. /\ c.ndst = "srv" /\ c.by = 2 /\ c.src = s.frame.ip_src /\ c.dst = s.frame.ip_dst
          /\ c.port = s.frame.tp_dst
      BY <1>1, <2>2 DEF NewConn
    <3>3. c.src \in {"ri", "ri6"} /\ c.port \in {"80", "53"}
      BY <1>1, <3>2 DEF Ours
    <3>4. {"by", "src", "dst", "port", "nsrc", "ndst", "nport", "replied"} \subseteq DOMAIN c
      BY <2>2 DEF NewConn
    <3>5. Of(c, s.frame)
      BY <3>2 DEF Of
    <3> QED
      BY <1>1, <3>2, <3>3, <3>4, <3>5 DEF ConnGood
  <2> QED
    BY <1>3, <2>1, <2>2
<1>5. Invites(c, f)
  BY <1>4, Opened
<1> QED
  BY <1>2, <1>3, <1>4, <1>5 DEF OnItsWay, ConnsGood, NatTranslated

(* Rows by table and by what they do.                                      *)
LEMMA NatRows ==
    \A g \in SnatRows \union DnatRows :
        \/ /\ g.table = 0
           /\ g.actions = <<Ct(1, 1)>> \/ <<"eth_type", "arp">> \in g.match
        \/ g.table = 1 /\ g.actions = <<>>
        \/ /\ g.table = 1 /\ Est \in g.match
           /\ \/ <<"in_port", 1>> \in g.match /\ g.actions = <<Output(2)>>
              \/ <<"in_port", 2>> \in g.match /\ g.actions = <<Output(1)>>
        \/ /\ g.table = 1 /\ <<"in_port", 1>> \in g.match
           /\ g.actions = <<Nat44>> \/ g.actions = <<Nat66>>
        \/ /\ g.table = 1 /\ <<"in_port", 2>> \in g.match /\ g.owner = "dnat"
           /\ \/ <<"tp_dst", "80">> \in g.match /\ g.actions = <<ToServer("8080")>>
              \/ <<"tp_dst", "53">> \in g.match /\ g.actions = <<ToServer("same")>>
        \/ /\ g.table = 2
           /\ \/ <<"in_port", 1>> \in g.match /\ g.actions = <<Output(2)>>
              \/ <<"in_port", 2>> \in g.match /\ g.actions = <<Output(1)>>
<1>1. \A t, n, p, m, acts :
         LET g == Row(t, n, p, m, acts)
         IN  g.owner = t /\ g.table = n /\ g.match = m /\ g.actions = acts
  BY DEF Row
<1> QED
  BY <1>1 DEF SnatRows, DnatRows

LEMMA Missed ==
    ASSUME NEW s, OnItsWay(s), s.out = {}, NEW f, NEW t, t = [s EXCEPT !.next = NoTable]
    PROVE  OnItsWay(t) /\ NatDone(t, f)
<1>1. /\ IsTraversal(t) /\ t.next = NoTable /\ t.out = s.out /\ t.conns = s.conns
      /\ t.table = s.table
  BY DEF OnItsWay, IsTraversal
<1> QED
  BY <1>1 DEF OnItsWay, NatDone

LEMMA EnteringOn ==
    ASSUME NEW s, OnItsWay(s), NEW g, NEW e, e = Entering(s, g)
    PROVE  /\ OnItsWay(e) /\ e.frame = s.frame /\ e.out = s.out /\ e.conns = s.conns
           /\ e.next = NoTable
  BY EnteringFacts DEF OnItsWay

LEMMA NatOutput ==
    ASSUME NEW s, OnItsWay(s), s.out = {}, NEW f, NEW g, NEW p, g.actions = <<Output(p)>>,
           NEW t \in Through(s, g),
           \A o : o.port = p /\ o.frame = s.frame => Allowed(f, o, s.conns)
    PROVE  OnItsWay(t) /\ NatDone(t, f)
<1> DEFINE e == Entering(s, g)
<1>1. t \in Act(e, Output(p))
  BY OneAction
<1>2. OnItsWay(e) /\ e.frame = s.frame /\ e.out = {} /\ e.conns = s.conns /\ e.next = NoTable
  BY EnteringOn
<1> HIDE DEF e
<1>3. Sends(e, t, {p} \ {e.frame.in_port})
  BY <1>1, <1>2, ActSends DEF OnItsWay
<1>4. \A o \in t.out : o.port = p /\ o.frame = s.frame
  BY <1>2, <1>3 DEF Sends
<1>5. t.conns = s.conns
  BY <1>2, <1>3 DEF Sends
<1>6. \A o \in t.out : Allowed(f, o, t.conns)
  BY <1>4, <1>5
<1> QED
  BY <1>2, <1>3, <1>6 DEF NatDone, OnItsWay, Sends

LEMMA VisitEntered ==
    ASSUME NEW f, Ours(f), NEW s, OnItsWay(s), NatEntered(s, f), NEW t \in Visit(s)
    PROVE  OnItsWay(t) /\ (NatTracked(t, f) \/ NatDone(t, f))
<1>1. CASE t = [s EXCEPT !.next = NoTable]
  BY <1>1, Missed DEF NatEntered
<1>2. ASSUME NEW g \in s.table, g.table = s.next, Matches(g.match, s.frame), t \in Through(s, g)
      PROVE  OnItsWay(t) /\ NatTracked(t, f)
  <2>1. g.table = 0 /\ s.frame = f /\ s.out = {}
    BY <1>2 DEF NatEntered
  <2>2. <<"eth_type", "arp">> \notin g.match
    <3> SUFFICES ASSUME <<"eth_type", "arp">> \in g.match PROVE FALSE
      OBVIOUS
    <3>1. f["eth_type"] = "arp"
      BY <1>2, <2>1, MatchFacts, PlainField
    <3> QED
      BY <3>1 DEF Ours
  <2>3. g.actions = <<Ct(1, 1)>>
    BY <2>1, <2>2, NatRows DEF OnItsWay
  <2> DEFINE e == Entering(s, g)
  <2>4. t \in Act(e, Ct(1, 1))
    BY <1>2, <2>3, OneAction
  <2>5. OnItsWay(e) /\ e.frame = f /\ e.out = {}
    BY <2>1, EnteringOn
  <2> HIDE DEF e
  <2>6. PICK u \in Tracked(e, 1) : t = [u EXCEPT !.next = 1]
    <3>1. Ct(1, 1).type = "ct" /\ Ct(1, 1).zone = 1 /\ Ct(1, 1).table = 1
      BY DEF Ct
    <3> QED
      BY <2>4, <3>1 DEF Act
  <2>7. /\ IsTraversal(u) /\ u.out = {} /\ u.table = e.table /\ ConnsGood(u.conns)
        /\ \E x : /\ u.frame = Flagged(f, x)
                  /\ "est" \in x => \E c \in u.conns : Answers(c, f) \/ (Of(c, f) /\ c.replied)
    BY <2>5, TrackedFacts DEF OnItsWay
  <2>8. /\ IsTraversal(t) /\ t.next = 1 /\ t.out = u.out /\ t.table = u.table
        /\ t.conns = u.conns /\ t.frame = u.frame
    BY <2>6, <2>7 DEF IsTraversal
  <2> QED
    BY <2>5, <2>7, <2>8 DEF OnItsWay, NatTracked
<1>3. s.next # NoTable
  BY DEF NatEntered, NoTable
<1> QED
  BY <1>1, <1>2, <1>3, VisitFacts

LEMMA VisitTracked ==
    ASSUME NEW f, Ours(f), NEW s, OnItsWay(s), NatTracked(s, f), NEW t \in Visit(s)
    PROVE  OnItsWay(t) /\ (NatTranslated(t, f) \/ NatDone(t, f))
<1>0. PICK x : /\ s.frame = Flagged(f, x)
               /\ "est" \in x => \E c \in s.conns : Answers(c, f) \/ (Of(c, f) /\ c.replied)
  BY DEF NatTracked
<1>01. /\ s.next = 1 /\ s.out = {} /\ s.frame.ct = x /\ s.frame.in_port = f.in_port
       /\ s.frame.tp_dst = f.tp_dst
  BY <1>0 DEF NatTracked, Ours, Flagged
<1>1. CASE t = [s EXCEPT !.next = NoTable]
  BY <1>1, <1>01, Missed
<1>2. ASSUME NEW g \in s.table, g.table = s.next, Matches(g.match, s.frame), t \in Through(s, g)
      PROVE  OnItsWay(t) /\ (NatTranslated(t, f) \/ NatDone(t, f))
  <2> DEFINE e == Entering(s, g)
  <2>1. \A p : <<"in_port", p>> \in g.match => f.in_port = p
    <3>1. \A p : <<"in_port", p>> \in g.match => s.frame["in_port"] = p
      BY <1>2, MatchFacts, PlainField
    <3> QED
      BY <1>01, <3>1
  <2>2. \A p : <<"tp_dst", p>> \in g.match => f.tp_dst = p
    <3>1. \A p : <<"tp_dst", p>> \in g.match => s.frame["tp_dst"] = p
      BY <1>2, MatchFacts, PlainField
    <3> QED
      BY <1>01, <3>1
  <2>3. Est \in g.match => "est" \in x
    <3>1. Est[1] = "ct_state" /\ Est[2] = {"trk", "est"}
      BY DEF Est
    <3> QED
      BY <1>01, <1>2, <3>1 DEF Matches
  <2>4. /\ OnItsWay(e) /\ e.frame = s.frame /\ e.out = {} /\ e.conns = s.conns
        /\ e.next = NoTable
    BY <1>01, EnteringOn
  <2>5. CASE g.actions = <<>>
    <3>1. t = e
      BY <1>2, <2>5, NoAction
    <3> HIDE DEF e
    <3> QED
      BY <2>4, <3>1 DEF NatDone
  <2>6. CASE Est \in g.match /\ f.in_port = 1 /\ g.actions = <<Output(2)>>
    <3>1. \A o : o.port = 2 /\ o.frame = s.frame => Allowed(f, o, s.conns)
      BY <1>01, <2>3, <2>6 DEF Allowed
    <3> QED
      BY <1>01, <1>2, <2>6, <3>1, NatOutput
  <2>7. CASE Est \in g.match /\ f.in_port = 2 /\ g.actions = <<Output(1)>>
    <3>1. PICK c \in s.conns : Answers(c, f) \/ Of(c, f)
      BY <1>0, <2>3, <2>7
    <3>2. Invites(c, f)
      BY <2>7, <3>1, Opened DEF OnItsWay, ConnsGood
    <3>3. \A o : o.port = 1 /\ o.frame = s.frame => Allowed(f, o, s.conns)
      BY <2>7, <3>2 DEF Allowed
    <3> QED
      BY <1>01, <1>2, <2>7, <3>3, NatOutput
  <2>8. ASSUME f.in_port = 1, NEW n, n.kind = "src", n.addrs \subseteq Gateway,
               g.actions = <<CtNat(1, 2, n)>>
        PROVE  OnItsWay(t) /\ NatTranslated(t, f)
    <3>1. t \in Act(e, CtNat(1, 2, n))
      BY <1>2, <2>8, OneAction
    <3> HIDE DEF e
    <3> QED
      BY <1>0, <2>4, <2>8, <3>1, SourceTranslated
  <2>9. ASSUME f.in_port = 2, f.tp_dst \in {"80", "53"}, g.owner = "dnat",
               NEW port, g.actions = <<ToServer(port)>>
        PROVE  OnItsWay(t) /\ NatTranslated(t, f)
    <3> DEFINE n == [kind |-> "dst", addrs |-> {"srv"}, port |-> port]
    <3>1. t \in Act(e, CtNat(1, 2, n))
      BY <1>2, <2>9, OneAction DEF ToServer
    <3>2. n.kind = "dst" /\ n.addrs = {"srv"}
      OBVIOUS
    <3>3. "dnat" \in deployment
      BY <2>9 DEF OnItsWay
    <3> HIDE DEF e, n
    <3> QED
      BY <1>0, <2>4, <2>9, <3>1, <3>2, <3>3, TargetTranslated
  <2>10. /\ Nat44 = CtNat(1, 2, [kind |-> "src", addrs |-> {"gw1", "gw2"}, port |-> "same"])
         /\ Nat66 = CtNat(1, 2, [kind |-> "src", addrs |-> {"gw6"}, port |-> "same"])
    BY DEF Nat44, Nat66
  <2>11. CASE f.in_port = 1 /\ (g.actions = <<Nat44>> \/ g.actions = <<Nat66>>)
    <3>1. {"gw1", "gw2"} \subseteq Gateway /\ {"gw6"} \subseteq Gateway
      BY DEF Gateway, SnatConfig
    <3> QED
      BY <2>8, <2>10, <2>11, <3>1
  <2> HIDE DEF e
  <2> QED
    BY <1>01, <1>2, <2>1, <2>2, <2>5, <2>6, <2>7, <2>9, <2>11, NatRows DEF OnItsWay
<1>3. s.next # NoTable
  BY <1>01 DEF NoTable
<1> QED
  BY <1>1, <1>2, <1>3, VisitFacts

LEMMA VisitTranslated ==
    ASSUME NEW f, Ours(f), NEW s, OnItsWay(s), NatTranslated(s, f), NEW t \in Visit(s)
    PROVE  OnItsWay(t) /\ NatDone(t, f)
<1>01. s.next = 2 /\ s.out = {} /\ s.frame.in_port = f.in_port
  BY DEF NatTranslated
<1>1. CASE t = [s EXCEPT !.next = NoTable]
  BY <1>1, <1>01, Missed
<1>2. ASSUME NEW g \in s.table, g.table = s.next, Matches(g.match, s.frame), t \in Through(s, g)
      PROVE  OnItsWay(t) /\ NatDone(t, f)
  <2>1. \A p : <<"in_port", p>> \in g.match => f.in_port = p
    <3>1. \A p : <<"in_port", p>> \in g.match => s.frame["in_port"] = p
      BY <1>2, MatchFacts, PlainField
    <3> QED
      BY <1>01, <3>1
  <2>2. \/ f.in_port = 1 /\ g.actions = <<Output(2)>>
        \/ f.in_port = 2 /\ g.actions = <<Output(1)>>
    BY <1>01, <1>2, <2>1, NatRows DEF OnItsWay
  <2>3. CASE f.in_port = 1 /\ g.actions = <<Output(2)>>
    <3>1. \A o : o.port = 2 /\ o.frame = s.frame => Allowed(f, o, s.conns)
      BY <2>3 DEF Allowed, NatTranslated
    <3> QED
      BY <1>01, <1>2, <2>3, <3>1, NatOutput
  <2>4. CASE f.in_port = 2 /\ g.actions = <<Output(1)>>
    <3>1. \A o : o.port = 1 /\ o.frame = s.frame => Allowed(f, o, s.conns)
      BY <2>4 DEF Allowed, NatTranslated
    <3> QED
      BY <1>01, <1>2, <2>4, <3>1, NatOutput
  <2> QED
    BY <2>2, <2>3, <2>4
<1>3. s.next # NoTable
  BY <1>01 DEF NoTable
<1> QED
  BY <1>1, <1>2, <1>3, VisitFacts

LEMMA NatTraversal ==
    ASSUME NEW f, Ours(f), NEW tb, tb \subseteq SnatRows \union DnatRows,
           \A g \in tb : g.owner \in deployment, NEW cs, ConnsGood(cs),
           NEW t \in Traversals(tb, cs, f)
    PROVE  ConnsGood(t.conns) /\ \A o \in t.out : Allowed(f, o, t.conns)
<1> DEFINE s == Entered(tb, cs, f)
<1>1. PICK u \in Visit(s) : \E v \in Visit(u) : t \in Visit(v)
  BY ThreeVisits
<1>2. PICK v \in Visit(u) : t \in Visit(v)
  BY <1>1
<1>3. OnItsWay(s) /\ NatEntered(s, f)
  BY EnteredFacts DEF OnItsWay, NatEntered
<1> HIDE DEF s
<1>4. ASSUME NEW a, OnItsWay(a), NatDone(a, f), NEW b \in Visit(a) PROVE b = a
  BY <1>4, VisitFacts DEF NatDone
<1>5. OnItsWay(u) /\ (NatTracked(u, f) \/ NatDone(u, f))
  BY <1>3, VisitEntered
<1>6. OnItsWay(v) /\ (NatTranslated(v, f) \/ NatDone(v, f))
  BY <1>2, <1>4, <1>5, VisitTracked
<1>7. OnItsWay(t) /\ NatDone(t, f)
  BY <1>2, <1>4, <1>6, VisitTranslated
<1> QED
  BY <1>7 DEF OnItsWay, NatDone

NatConns == deployment \intersect NatTemplates # {} => ConnsGood(conns)
NatFrame ==
    deployment \intersect NatTemplates # {} =>
        /\ last.out # {} => Ours(last.frame)
        /\ \A o \in last.out : Allowed(last.frame, o, conns)

LEMMA NatForward ==
    ASSUME UsedApart(NatTemplates), PipelineInv, NatConns, Forward
    PROVE  NatConns' /\ NatFrame'
<1>1. deployment' = deployment
  BY DEF Forward
<1> SUFFICES ASSUME deployment \intersect NatTemplates # {}
             PROVE  /\ ConnsGood(conns') /\ Ours(last'.frame)
                    /\ \A o \in last'.out : Allowed(last'.frame, o, conns')
  BY <1>1 DEF NatConns, NatFrame, ConnsGood, ConnGood, Allowed, Invites
<1>2. deployment \subseteq NatTemplates /\ \A g \in table : g.owner \in NatTemplates /\ FlowGood(g)
  BY ApartOwners DEF PipelineInv
<1>3. table \subseteq SnatRows \union DnatRows /\ \A g \in table : g.owner \in deployment
  BY <1>2, LearnedFacts DEF FlowGood, Rows, NatTemplates, PipelineInv, Shape
<1>4. UNION {FramesOf(t) : t \in deployment} \subseteq NatFrames
  BY <1>2 DEF FramesOf, NatTemplates
<1>5. PICK f \in NatFrames : \E s \in Traversals(table, conns, f) :
         conns' = s.conns /\ last'.frame = f /\ last'.out = s.out
  BY <1>4 DEF Forward
<1>6. PICK s \in Traversals(table, conns, f) :
         conns' = s.conns /\ last'.frame = f /\ last'.out = s.out
  BY <1>5
<1>7. Ours(f)
  BY FramesOurs
<1>8. ConnsGood(s.conns) /\ \A o \in s.out : Allowed(f, o, s.conns)
  BY <1>3, <1>7, NatTraversal DEF NatConns
<1> QED
  BY <1>6, <1>7, <1>8

LEMMA NatNext ==
    ASSUME UsedApart(NatTemplates), PipelineInv, NatConns, NatFrame, [Next]_vars
    PROVE  NatConns' /\ NatFrame'
<1>1. CASE UNCHANGED <<deployment, last, conns>>
  BY <1>1 DEF NatConns, NatFrame, ConnsGood, ConnGood, Allowed, Invites
<1>2. CASE Forward
  BY <1>2, NatForward
<1> QED
  BY <1>1, <1>2 DEF Next, Install, Delete, Call, Send, SendFails, vars

LEMMA NatInvariant ==
    ASSUME UsedApart(NatTemplates)
    PROVE  Spec => [](NatConns /\ NatFrame)
<1>1. Init => NatConns /\ NatFrame
  BY DEF Init, NatConns, NatFrame, NoFrame, ConnsGood
<1>2. PipelineInv /\ NatConns /\ NatFrame /\ [Next]_vars => NatConns' /\ NatFrame'
  BY NatNext
<1> QED
  BY <1>1, <1>2, PipelinesShape, PTL DEF Spec

(* Where SNAT and DNAT are used among themselves only what was invited     *)
(* reaches the internal network, at any point of installing them.          *)
THEOREM OnlyInvited ==
    ASSUME UsedApart(NatTemplates)
    PROVE  Spec => []OnlyInvitedEnter
<1>1. NatFrame => OnlyInvitedEnter
  <2> SUFFICES ASSUME NatFrame, deployment \intersect {"snat", "dnat"} # {}, last.frame.in_port = 2,
                      NEW o \in last.out, o.port = 1
               PROVE  \E c \in conns :
                         \/ c.by = 1 /\ Answers(c, last.frame)
                         \/ /\ Of(c, last.frame) /\ "dnat" \in deployment
                            /\ \E i \in DOMAIN DnatConfig.rules :
                                  LET r == DnatConfig.rules[i]
                                  IN  c.port = r.external_port /\ c.ndst = r.target
    BY DEF OnlyInvitedEnter
  <2>1. PICK c \in conns : Invites(c, last.frame)
    BY DEF NatFrame, NatTemplates, Allowed
  <2>2. c.port \in {"80", "53"} /\ c.ndst = "srv"
        => \E i \in DOMAIN DnatConfig.rules :
              LET r == DnatConfig.rules[i]
              IN  c.port = r.external_port /\ c.ndst = r.target
    BY DEF DnatConfig
  <2> QED
    BY <2>1, <2>2 DEF Invites
<1> QED
  BY <1>1, NatInvariant, PTL

(* What leaves for the outside without belonging to a connection that the  *)
(* switch takes for established has an address of the gateway.             *)
THEOREM NewMasqueraded ==
    ASSUME UsedApart(NatTemplates)
    PROVE  Spec => []NewIsMasqueraded
<1>1. NatFrame => NewIsMasqueraded
  <2> SUFFICES ASSUME NatFrame, "snat" \in deployment, last.frame.in_port = 1,
                      NEW o \in last.out, o.port = 2, "est" \notin o.frame.ct
               PROVE  o.frame.ip_src \in SnatConfig.v4 \union SnatConfig.v6
    BY DEF NewIsMasqueraded
  <2>1. deployment \intersect NatTemplates # {}
    BY DEF NatTemplates
  <2> QED
    BY <2>1 DEF NatFrame, Allowed, Gateway
<1> QED
  BY <1>1, NatInvariant, PTL
=============================================================================
