------------------------------- MODULE Actions --------------------------------
(***************************************************************************)
(* Action, ActionList and NxLearn of rovs-openflow/src/action.  An action  *)
(* is a record with its "type"; a port is its number on the wire, so the   *)
(* named ports are negative; an absent port or table is None; a field of   *)
(* an action is its header, four octets; a call of a builder is a tuple    *)
(* <<name, argument...>>.                                                  *)
(***************************************************************************)
EXTENDS MatchFields

None == -1

Port == [IN_PORT |-> -8, TABLE |-> -7, NORMAL |-> -6, FLOOD |-> -5, ALL |-> -4,
         CONTROLLER |-> -3, NONE |-> -1]

NICIRA_VENDOR_ID == 8992     \* 0x2320
CT_COMMIT == 1

(* nxm.rs: the headers of fields, by class, number and length.             *)
Nxm == [ETH_DST |-> OxmHeader(Nxm0, 1, FALSE, 6), ETH_SRC |-> OxmHeader(Nxm0, 2, FALSE, 6),
        VLAN_TCI |-> OxmHeader(Nxm0, 4, FALSE, 2), IN_PORT |-> OxmHeader(Nxm0, 0, FALSE, 2),
        ARP_OP |-> OxmHeader(Nxm0, 15, FALSE, 2), ARP_SPA |-> OxmHeader(Nxm0, 16, FALSE, 4),
        ARP_TPA |-> OxmHeader(Nxm0, 17, FALSE, 4), ARP_SHA |-> OxmHeader(Nxm1, 17, FALSE, 6),
        ARP_THA |-> OxmHeader(Nxm1, 18, FALSE, 6), REG0 |-> OxmHeader(Nxm1, 0, FALSE, 4)]

-----------------------------------------------------------------------------
(* NatConfig: the Some fields of a range, in the order of their bits.      *)

RangeFields == << <<"ipv4_min", "ip4">>, <<"ipv4_max", "ip4">>, <<"ipv6_min", "ip6">>,
                  <<"ipv6_max", "ip6">>, <<"port_min", "u16">>, <<"port_max", "u16">> >>

NatFlag == [SRC |-> 0, DST |-> 1, PERSISTENT |-> 2, PROTO_HASH |-> 3, PROTO_RANDOM |-> 4]

NatConfig(dir, range) == [flags |-> {NatFlag[dir]}, range |-> range]
Snat(addr)          == NatConfig("SRC", [ipv4_min |-> addr])
Dnat(addr)          == NatConfig("DST", [ipv4_min |-> addr])
SnatRange(min, max) == NatConfig("SRC", [ipv4_min |-> min, ipv4_max |-> max])
DnatV6Range(min, max) == NatConfig("DST", [ipv6_min |-> min, ipv6_max |-> max])

(* port drops an upper bound set before; hash and random exclude another.  *)
NatPort(n, p) ==
    [n EXCEPT !.range = [x \in (DOMAIN @ \ {"port_max"}) \union {"port_min"} |->
                            IF x = "port_min" THEN p ELSE @[x]]]
NatPortRange(n, p, q) == [n EXCEPT !.range = [port_min |-> p, port_max |-> q] @@ @]
Persistent(n) == [n EXCEPT !.flags = @ \union {NatFlag.PERSISTENT}]
Hash(n)   == [n EXCEPT !.flags = (@ \union {NatFlag.PROTO_HASH}) \ {NatFlag.PROTO_RANDOM}]
Random(n) == [n EXCEPT !.flags = (@ \union {NatFlag.PROTO_RANDOM}) \ {NatFlag.PROTO_HASH}]

RangePresent(n) == {b \in 0..5 : RangeFields[b + 1][1] \in DOMAIN n.range}

-----------------------------------------------------------------------------
(* NxLearn: a record of its numbers and its specs.                         *)

NewLearn == [type |-> "learn", idle_timeout |-> 0, hard_timeout |-> 0, priority |-> 0,
             cookie |-> 0, flags |-> 0, table_id |-> 0, fin_idle_timeout |-> 0,
             fin_hard_timeout |-> 0, specs |-> <<>>]

Spec5(kind, src, dst, bits) == [kind |-> kind, src |-> src, dst |-> dst, bits |-> bits]

(* The builders that push a spec.                                          *)
LearnCall(l, c) ==
    LET push(s) == [l EXCEPT !.specs = Append(@, s)] IN
    CASE c[1] \in {"match_field", "load_field", "match_immediate", "load_immediate"} ->
            push(Spec5(c[1], c[2], c[3], c[4]))
      [] c[1] = "output_field" -> push(Spec5(c[1], c[2], <<>>, c[3]))
      [] OTHER -> [l EXCEPT ![c[1]] = c[2]]

Learned(calls) == FoldLeft(LearnCall, NewLearn, calls)

-----------------------------------------------------------------------------
(* The builders of ActionList.                                             *)

OutputTo(p) == [type |-> "output", port |-> p]
CtAction(f, z, t) == [type |-> "ct", flags |-> f, zone |-> z, table |-> t]
CtNatAction(f, z, t, n) == [type |-> "ct_nat", flags |-> f, zone |-> z, table |-> t, nat |-> n]
LoadAction(h, o, n, v) == [type |-> "reg_load", dst |-> h, ofs |-> o, bits |-> n, value |-> v]

BasicAction(c) ==
    CASE c[1] = "output" -> OutputTo(c[2])
      [] c[1] \in {"FLOOD", "ALL", "NORMAL", "IN_PORT"} -> OutputTo(Port[c[1]])
      [] c[1] = "controller" -> [type |-> "controller", max_len |-> c[2]]
      [] c[1] \in {"drop", "pop_vlan", "dec_ttl"} -> [type |-> c[1]]
      [] OTHER -> [type |-> c[1], value |-> c[2]]

NiciraAction(c) ==
    CASE c[1] = "resubmit"   -> [type |-> "resubmit", port |-> c[2], table |-> c[3]]
      [] c[1] = "resubmit_table" -> [type |-> "resubmit", port |-> None, table |-> c[2]]
      [] c[1] = "ct"         -> CtAction(c[2], c[3], c[4])
      [] c[1] = "ct_commit"  -> CtAction(CT_COMMIT, c[2], None)
      [] c[1] = "ct_nat"     -> CtNatAction(c[2], c[3], c[4], c[5])
      [] c[1] = "ct_snat"    -> CtNatAction(CT_COMMIT, c[2], c[3], Snat(c[4]))
      [] c[1] = "ct_dnat"    -> CtNatAction(CT_COMMIT, c[2], c[3], Dnat(c[4]))
      [] c[1] = "learn"      -> c[2]
      [] c[1] = "move_field" -> [type |-> "move", src |-> c[2], dst |-> c[3], bits |-> c[4],
                                 src_ofs |-> c[5], dst_ofs |-> c[6]]
      [] c[1] = "load_field" -> LoadAction(c[2], c[3], c[4], c[5])
      [] c[1] = "set_arp_op" -> LoadAction(Nxm.ARP_OP, 0, 16, c[2])

NiciraBuilders == {"resubmit", "resubmit_table", "ct", "ct_commit", "ct_nat", "ct_snat",
                   "ct_dnat", "learn", "move_field", "load_field", "set_arp_op"}

ActionsOf(calls) ==
    Each(LAMBDA c : IF c[1] \in NiciraBuilders THEN NiciraAction(c) ELSE BasicAction(c), calls)

-----------------------------------------------------------------------------
(* Action::encode, the actions of OpenFlow.                                *)

Framed(type, body) == BE(type, 2) \o BE(4 + Len(body), 2) \o body

(* type -> number and layout of the body.                                  *)
OutputLayout == << <<"port", 4>>, <<"max_len", 2>>, <<"", 6>> >>
PlainActions ==
    [ push_vlan |-> [number |-> 17, body |-> << <<"value", 2>>, <<"", 2>> >>],
      pop_vlan  |-> [number |-> 18, body |-> << <<"", 4>> >>],
      group     |-> [number |-> 22, body |-> << <<"value", 4>> >>],
      set_ttl   |-> [number |-> 23, body |-> << <<"value", 1>>, <<"", 3>> >>],
      dec_ttl   |-> [number |-> 24, body |-> << <<"", 4>> >>] ]

(* encode_set_field_*: type -> OXM field and type of the value, padded to  *)
(* 16 bytes in all.                                                        *)
SetFields ==
    [ set_eth_src  |-> <<4, "mac">>,  set_eth_dst  |-> <<3, "mac">>,
      set_vlan_vid |-> <<6, "vid">>,  set_ipv4_src |-> <<11, "ip4">>,
      set_ipv4_dst |-> <<12, "ip4">>, set_tp_src   |-> <<13, "u16">>,
      set_tp_dst   |-> <<14, "u16">> ]

EncodeSetField(a) ==
    LET tlv == Plain(Basic, SetFields[a.type][1], Written(SetFields[a.type][2], a.value))
    IN  Framed(25, tlv \o Zeros(12 - Len(tlv)))

-----------------------------------------------------------------------------
(* nicira.rs, encoding.                                                    *)

NxAction(subtype, body) ==
    Framed(65535, BE(NICIRA_VENDOR_ID, 4) \o BE(subtype, 2) \o body)
(* The same, padded to a multiple of 8 bytes.                              *)
NxPadded(subtype, body) == NxAction(subtype, body \o Zeros(Pad8(10 + Len(body))))

Or(x, default) == IF x = None THEN default ELSE x

SetTunnelId(v) == NxAction(33, Plain(Nxm1, 16, BE(v, 8)) \o Zeros(2))
Resubmit(a)    == NxAction(14, BE(Or(a.port, 65528), 2) \o <<Or(a.table, 255)>> \o Zeros(3))
CtBody(a)      == BE(a.flags, 2) \o Zeros(4) \o BE(a.zone, 2) \o <<Or(a.table, 255)>> \o Zeros(5)

NatBytes(n) ==
    NxPadded(36, Zeros(2) \o BE(FromBits(n.flags), 2) \o BE(FromBits(RangePresent(n)), 2)
                 \o Concat(LAMBDA f : IF f[1] \in DOMAIN n.range
                                      THEN Written(f[2], n.range[f[1]]) ELSE <<>>, RangeFields))

RegLoad(a) == NxAction(7, BE(a.ofs * 64 + a.bits - 1, 2) \o a.dst \o BE(a.value, 8))
MoveBytes(a) == NxAction(6, BE(a.bits, 2) \o BE(a.src_ofs, 2) \o BE(a.dst_ofs, 2) \o a.src \o a.dst)

(* The immediate value of a spec takes whole 16-bit words, right-aligned.  *)
ImmediateLen(bits) == 2 * ((bits + 15) \div 16)
Immediate(v, bits) ==
    LET n == ImmediateLen(bits) IN Zeros(n - Len(v)) \o SubSeq(v, 1, Min({n, Len(v)}))
Subfield(h) == h \o Zeros(2)

(* kind -> bits 11 to 13 of the header.                                    *)
SpecBits == [match_field |-> {}, match_immediate |-> {13}, load_field |-> {11},
             load_immediate |-> {11, 13}, output_field |-> {12}]

LearnSpecBytes(s) ==
    BE(FromBits(SpecBits[s.kind]) + s.bits - 1, 2)
    \o (IF 13 \in SpecBits[s.kind] THEN Immediate(s.src, s.bits) ELSE Subfield(s.src))
    \o (IF s.kind = "output_field" THEN <<>> ELSE Subfield(s.dst))

LearnLayout == << <<"idle_timeout", 2>>, <<"hard_timeout", 2>>, <<"priority", 2>>,
    <<"cookie", 8>>, <<"flags", 2>>, <<"table_id", 1>>, <<"", 1>>,
    <<"fin_idle_timeout", 2>>, <<"fin_hard_timeout", 2>> >>

LearnBytes(l) == NxPadded(16, Pack(LearnLayout, l) \o Concat(LearnSpecBytes, l.specs))

(* Action::encode.  What is an instruction in OpenFlow gives no bytes.     *)
ActionBytes(a) ==
    CASE a.type = "output" -> Framed(0, Pack(OutputLayout, [port |-> a.port, max_len |-> 65535]))
      [] a.type = "controller" ->
            Framed(0, Pack(OutputLayout, [port |-> Port.CONTROLLER, max_len |-> a.max_len]))
      [] a.type \in {"drop", "goto_table", "write_metadata", "meter"} -> <<>>
      [] a.type \in DOMAIN PlainActions ->
            Framed(PlainActions[a.type].number, Pack(PlainActions[a.type].body, a))
      [] a.type \in DOMAIN SetFields -> EncodeSetField(a)
      [] a.type = "set_tunnel_id" -> SetTunnelId(a.value)
      [] a.type = "resubmit"  -> Resubmit(a)
      [] a.type = "ct"        -> NxAction(35, CtBody(a))
      [] a.type = "ct_nat"    -> NxPadded(35, CtBody(a) \o NatBytes(a.nat))
      [] a.type = "reg_load"  -> RegLoad(a)
      [] a.type = "move"      -> MoveBytes(a)
      [] a.type = "learn"     -> LearnBytes(a)

ActionListBytes(as) == Padded(Concat(ActionBytes, as))

-----------------------------------------------------------------------------
(* Decoding.  Each reader returns the action, "drop" for what Action has   *)
(* no variant for, or a failure.                                           *)

Skip == [type |-> "drop"]

(* decode_set_field_action, data from the OXM header on.                   *)
DecodeSetField(data) ==
    LET key == <<ClassOf(data), NumberOf(data)>>
        names == {t \in DOMAIN SetFields :
                    /\ key \in { <<Basic, SetFields[t][1]>> }
                               \union (IF t = "set_tp_src" THEN { <<Basic, 15>> }
                                       ELSE IF t = "set_tp_dst" THEN { <<Basic, 16>> } ELSE {})
                    /\ data[4] >= Bytes(SetFields[t][2])}
        t == CHOOSE x \in names : TRUE
        kind == SetFields[t][2]
    IN  IF Len(data) < 4 \/ Len(data) < 4 + data[4] THEN Bad
        ELSE IF key = <<Nxm1, 16>> /\ data[4] >= 8
        THEN [type |-> "set_tunnel_id", value |-> At(data, 4, 8)]
        ELSE IF names = {} THEN Skip
        ELSE [type |-> t, value |-> Read(kind, Slice(data, 4, 4 + Bytes(kind)))]

NoneIf(x, absent) == IF x = absent THEN None ELSE x

(* The readers of nicira.rs, data from behind the subtype.                 *)
DecodeResubmit(data, table) ==
    [type |-> "resubmit", port |-> NoneIf(At(data, 0, 2), 65528), table |-> NoneIf(table, 255)]

(* What follows the table, nested nat actions included, is not read.       *)
DecodeCt(data) ==
    CtAction(At(data, 0, 2), At(data, 6, 2),
             IF Len(data) > 8 THEN NoneIf(data[9], 255) ELSE None)

DecodeRegLoad2(data) ==
    IF Len(data) < 4 + data[4] THEN Bad
    ELSE IF <<ClassOf(data), NumberOf(data)>> = <<Nxm1, 16>> /\ data[4] >= 8
    THEN [type |-> "set_tunnel_id", value |-> At(data, 4, 8)] ELSE Skip

(* The specs of a learn action: a header of zero is taken for the padding, *)
(* also that of a match_field of one bit.                                  *)
SpecKind(h) ==
    LET bits == ToBits(h, 14) \intersect 11..13
        kinds == {k \in DOMAIN SpecBits : SpecBits[k] = bits}
    IN  IF kinds = {} THEN "Err" ELSE CHOOSE k \in kinds : TRUE

DecodeSpecs(data) ==
    LET from[o \in 0..Len(data)] ==
            LET h == At(data, o, 2)
                bits == (h % 2048) + 1
                kind == SpecKind(h)
                immediate == kind \in {"match_immediate", "load_immediate"}
                value == o + 2 + (IF immediate THEN ImmediateLen(bits) ELSE 4)
                dst == IF immediate THEN value ELSE value + 2
                end == IF kind = "output_field" THEN dst ELSE dst + 6
            IN  IF Len(data) - o < 2 \/ h = 0 THEN <<>>
                ELSE IF kind = "Err" \/ end > Len(data) THEN <<Bad>>
                ELSE <<Spec5(kind, Slice(data, o + 2, value),
                             IF end = dst THEN <<>> ELSE Slice(data, dst, dst + 4), bits)>>
                     \o from[end]
    IN  from[0]

(* Where two octets for it are missing, fin_hard_timeout is 0.             *)
DecodeLearn(data) ==
    LET w == Width(LearnLayout)
        fixed == IF Len(data) < w THEN Slice(data, 0, w - 2) \o Zeros(2) ELSE data
        specs == DecodeSpecs(Rest(data, w))
    IN  IF Bad \in Range(specs) THEN Bad
        ELSE [type |-> "learn", specs |-> specs] @@ Unpack(LearnLayout, fixed)

(* Shorter data is an error of the cursor.                                 *)
NiciraMin(subtype) ==
    CASE subtype = 14 -> 3 [] subtype = 1 -> 2 [] subtype = 35 -> 8
      [] subtype = 33 -> 4 [] subtype = 16 -> Width(LearnLayout) - 2 [] OTHER -> 0

DecodeNicira(subtype, data) ==
    CASE Len(data) < NiciraMin(subtype) -> Bad
      [] subtype = 14 -> DecodeResubmit(data, data[3])
      [] subtype = 1  -> DecodeResubmit(data, 255)
      [] subtype = 35 -> DecodeCt(data)
      [] subtype = 33 -> DecodeRegLoad2(data)
      [] subtype = 16 -> DecodeLearn(data)
      [] OTHER -> Skip

DecodePlain(number, data) ==
    LET t == CHOOSE t \in DOMAIN PlainActions : PlainActions[t].number = number IN
    [type |-> t] @@ Unpack(PlainActions[t].body, Rest(data, 4))

(* ActionType::try_from knows these, and Action none of them.              *)
OtherTypes == {11, 12, 15, 16, 19, 20, 21, 26, 27}

MinLength(type) ==
    CASE type = 0 -> 16 [] type \in {17, 22, 23} -> 8 [] type = 65535 -> 10 [] OTHER -> 0

(* Action::decode, data from the action to the end of the list.            *)
DecodeAction(data) ==
    LET type == At(data, 0, 2)
        length == At(data, 2, 2)
        out == Unpack(OutputLayout, Rest(data, 4))
    IN  IF Len(data) < length \/ length < MinLength(type) THEN Bad
        ELSE
        CASE type = 0 /\ out.port = Port.CONTROLLER ->
                [type |-> "controller", max_len |-> out.max_len]
          [] type = 0 /\ out.port # Port.CONTROLLER -> OutputTo(out.port)
          [] type \in {17, 18, 22, 23, 24} -> DecodePlain(type, data)
          [] type = 25 -> IF length < 4 THEN Panic ELSE DecodeSetField(Slice(data, 4, length))
          [] type = 65535 -> IF At(data, 4, 4) = NICIRA_VENDOR_ID
                             THEN DecodeNicira(At(data, 8, 2), Slice(data, 10, length)) ELSE Bad
          [] type \in OtherTypes -> Skip
          [] OTHER -> Bad

ActionSize(data, o) ==
    IF Len(data) - o < 4 THEN 0 ELSE Min({At(data, o + 2, 2), Len(data) - o})

(* ActionList::decode, without the skipped.                                *)
DecodeActions(data) ==
    SelectSeq(UntilFailure(Each(DecodeAction, Tails(data, ActionSize))), LAMBDA a : a # Skip)
===============================================================================
