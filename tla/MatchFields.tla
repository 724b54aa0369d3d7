----------------------------- MODULE MatchFields ------------------------------
(***************************************************************************)
(* Match of rovs-openflow/src/match_fields.rs and the TLVs of oxm.rs.  A   *)
(* match is a function from the names of the struct's fields that are Some *)
(* to their values: numbers, or octets for MAC and IP addresses.           *)
(*                                                                         *)
(* The code's long sequences of if-let and match arms are tables of rows   *)
(* <<name, number, kind, mask>>: the struct field, its number on the wire, *)
(* the type of its value, and what the code does about a mask: "none", the *)
(* value of <name>_mask, or <name>_mask as a "prefix" length.              *)
(***************************************************************************)
EXTENDS Octets

Basic == 32768     \* OxmClass::OpenflowBasic
Nxm0  == 0
Nxm1  == 1

AnyMatch == <<>>                                  \* Match::new()
With(m, f, v) == (f :> v) @@ m
MaskName(f)   == f \o "_mask"

-----------------------------------------------------------------------------
(* The builders: what a builder sets besides its own field.                *)

Ip4Builders  == {"ipv4_src", "ipv4_dst"}
Ip6Builders  == {"ipv6_src", "ipv6_dst"}
PlainBuilders == {"in_port", "eth_src", "eth_dst", "eth_type", "vlan_vid", "ip_proto",
                  "tunnel_id", "ct_zone", "ct_mark"}
ArpBuilders  == {"arp_op", "arp_spa", "arp_tpa", "arp_sha", "arp_tha"}
L4Builders   == {"tcp_src", "tcp_dst", "udp_src", "udp_dst"}
IcmpBuilders == {"icmp_type", "icmp_code", "icmpv6_type", "icmpv6_code"}

(* tcp_*, udp_*: ip_proto, and nothing about the Ethernet type.            *)
BuildL4(m, b, v) ==
    With(With(m, "ip_proto", IF b \in {"tcp_src", "tcp_dst"} THEN 6 ELSE 17), b, v)

BuildIcmp(m, b, v) ==
    LET four == b \in {"icmp_type", "icmp_code"} IN
    With(With(With(m, "eth_type", IF four THEN 2048 ELSE 34525),
              "ip_proto", IF four THEN 1 ELSE 58), b, v)

BuildIp(m, b, addr, prefix) ==
    With(With(With(m, "eth_type", IF b \in Ip4Builders THEN 2048 ELSE 34525), b, addr),
         MaskName(b), prefix)

(* Fault: the Ethernet type is left to the caller.                         *)
BuildArpBare(m, b, v) == With(m, b, v)

BuildArp(m, b, v) == With(With(m, "eth_type", 2054), b, v)

(* ct_state(state): the mask is the state, the bits that must be set.      *)
BuildCt(m, b, v, mask) == With(With(m, b, v), MaskName(b), mask)

(* A call <<builder, argument...>> of the chain that makes a match.        *)
Build(m, c) ==
    CASE c[1] \in Ip4Builders \union Ip6Builders -> BuildIp(m, c[1], c[2], c[3])
      [] c[1] \in ArpBuilders  -> BuildArp(m, c[1], c[2])
      [] c[1] \in L4Builders   -> BuildL4(m, c[1], c[2])
      [] c[1] \in IcmpBuilders -> BuildIcmp(m, c[1], c[2])
      [] c[1] = "ct_state"     -> BuildCt(m, c[1], c[2], c[2])
      [] c[1] = "ct_state_masked" -> BuildCt(m, "ct_state", c[2], c[3])
      [] c[1] = "ct_mark_masked"  -> BuildCt(m, "ct_mark", c[2], c[3])
      [] c[1] \in PlainBuilders -> With(m, c[1], c[2])

Built(calls) == FoldLeft(Build, AnyMatch, calls)

-----------------------------------------------------------------------------
(* Values on the wire.                                                     *)

Bytes(kind) ==
    CASE kind \in {"u8", "tos"}          -> 1
      [] kind \in {"u16", "vid"}         -> 2
      [] kind \in {"u32", "ip4"}         -> 4
      [] kind = "mac"                    -> 6
      [] kind = "u64"                    -> 8
      [] kind \in {"ip6", "u128"}        -> 16

(* vid: the CFI bit is set when written and removed when read.             *)
Written(kind, v) ==
    CASE kind \in {"mac", "ip4", "ip6", "u128"} -> v
      [] kind = "vid" -> BE(IF 12 \in ToBits(v, 13) THEN v ELSE v + 4096, 2)
      [] OTHER        -> BE(v, Bytes(kind))

Read(kind, b) ==
    CASE kind \in {"mac", "ip4", "ip6", "u128"} -> b
      [] kind = "vid" -> Value(b) % 4096
      [] kind = "tos" -> Value(b) \div 4
      [] OTHER        -> Value(b)

(* prefix_to_mask and prefix_to_mask_v6, by the width of the address.      *)
PrefixMask(p, n) ==
    [i \in 1..n |-> LET k == p - 8 * (i - 1) IN
        IF k >= 8 THEN 255 ELSE IF k <= 0 THEN 0 ELSE 256 - 2^(8 - k)]

(* mask_to_prefix and mask_to_prefix_v6: the leading ones.                 *)
MaskPrefix(mask) ==
    LET ones == {p \in 0..8 * Len(mask) : \A i \in DOMAIN mask :
                    mask[i] >= PrefixMask(p, Len(mask))[i]}
    IN  Max(ones)

(* encode_u8 ... encode_mac: header, value; and with a mask.               *)
OxmHeader(class, field, hasMask, len) ==
    BE(class, 2) \o <<2 * field + (IF hasMask THEN 1 ELSE 0), len>>
Plain(class, field, b)     == OxmHeader(class, field, FALSE, Len(b)) \o b
Masked(class, field, b, k) == OxmHeader(class, field, TRUE, Len(b) + Len(k)) \o b \o k

-----------------------------------------------------------------------------
(* Match::encode, field by field.                                          *)

LinkRows == <<
    <<"in_port", 0, "u32", "none">>, <<"in_phy_port", 1, "u32", "none">>,
    <<"metadata", 2, "u64", "mask">>, <<"eth_dst", 3, "mac", "mask">>,
    <<"eth_src", 4, "mac", "mask">>, <<"eth_type", 5, "u16", "none">>,
    <<"vlan_vid", 6, "vid", "none">>, <<"vlan_pcp", 7, "u8", "none">>,
    <<"ip_dscp", 8, "u8", "none">>, <<"ip_ecn", 9, "u8", "none">>,
    <<"ip_proto", 10, "u8", "none">> >>

AddressRows == <<
    <<"ipv4_src", 11, "ip4", "prefix">>, <<"ipv4_dst", 12, "ip4", "prefix">>,
    <<"tcp_src", 13, "u16", "none">>, <<"tcp_dst", 14, "u16", "none">>,
    <<"udp_src", 15, "u16", "none">>, <<"udp_dst", 16, "u16", "none">>,
    <<"icmp_type", 19, "u8", "none">>, <<"icmp_code", 20, "u8", "none">>,
    <<"icmpv6_type", 29, "u8", "none">>, <<"icmpv6_code", 30, "u8", "none">>,
    <<"arp_op", 21, "u16", "none">>, <<"arp_spa", 22, "ip4", "none">>,
    <<"arp_tpa", 23, "ip4", "none">>, <<"arp_sha", 24, "mac", "none">>,
    <<"arp_tha", 25, "mac", "none">> >>

Ip6Rows == <<
    <<"ipv6_src", 26, "ip6", "prefix">>, <<"ipv6_dst", 27, "ip6", "prefix">>,
    <<"ipv6_flabel", 28, "u32", "none">> >>

ExtensionRows == <<
    <<"tunnel_id", 16, "u64", "none">>, <<"ct_state", 105, "u32", "mask">>,
    <<"ct_zone", 106, "u16", "none">>, <<"ct_mark", 107, "u32", "mask">> >>

(* A full prefix and a ct_state mask of ones are written without a mask.   *)
HasMask(m, row) ==
    /\ MaskName(row[1]) \in DOMAIN m
    /\ row[4] = "prefix" => m[MaskName(row[1])] < 8 * Bytes(row[3])
    /\ row[1] = "ct_state" => m["ct_state_mask"] # -1

MaskBytes(m, row) ==
    IF row[4] = "prefix" THEN PrefixMask(m[MaskName(row[1])], Bytes(row[3]))
    ELSE Written(row[3], m[MaskName(row[1])])

EncodeField(m, class, row) ==
    IF row[1] \notin DOMAIN m THEN <<>>
    ELSE IF row[4] # "none" /\ HasMask(m, row)
    THEN Masked(class, row[2], Written(row[3], m[row[1]]), MaskBytes(m, row))
    ELSE Plain(class, row[2], Written(row[3], m[row[1]]))

(* encode_oxm_fields: the TLVs alone, as flow monitor requests want them.  *)
EncodeOxmFields(m) ==
    Concat(LAMBDA r : EncodeField(m, Basic, r), LinkRows \o AddressRows \o Ip6Rows)
    \o Concat(LAMBDA r : EncodeField(m, Nxm1, r), ExtensionRows)

Encode(m) ==
    LET tlvs == EncodeOxmFields(m) IN Padded(BE(1, 2) \o BE(4 + Len(tlvs), 2) \o tlvs)

-----------------------------------------------------------------------------
(* Match::decode.  A row is applied when the value is long enough for it.  *)

LinkFields == {
    <<"in_port", 0, "u32", "none">>, <<"in_phy_port", 1, "u32", "none">>,
    <<"metadata", 2, "u64", "mask">>, <<"eth_dst", 3, "mac", "mask">>,
    <<"eth_src", 4, "mac", "mask">>, <<"eth_type", 5, "u16", "none">>,
    <<"vlan_vid", 6, "vid", "none">>, <<"vlan_pcp", 7, "u8", "none">>,
    <<"ip_dscp", 8, "u8", "none">>, <<"ip_ecn", 9, "u8", "none">>,
    <<"ip_proto", 10, "u8", "none">>, <<"ipv4_src", 11, "ip4", "prefix">>,
    <<"ipv4_dst", 12, "ip4", "prefix">> }

TransportFields == {
    <<"tcp_src", 13, "u16", "none">>, <<"tcp_dst", 14, "u16", "none">>,
    <<"udp_src", 15, "u16", "none">>, <<"udp_dst", 16, "u16", "none">>,
    <<"icmp_type", 19, "u8", "none">>, <<"icmp_code", 20, "u8", "none">>,
    <<"arp_op", 21, "u16", "none">>, <<"arp_spa", 22, "ip4", "none">>,
    <<"arp_tpa", 23, "ip4", "none">>, <<"arp_sha", 24, "mac", "none">>,
    <<"arp_tha", 25, "mac", "none">>, <<"ipv6_src", 26, "ip6", "prefix">>,
    <<"ipv6_dst", 27, "ip6", "prefix">>, <<"ipv6_flabel", 28, "u32", "none">>,
    <<"icmpv6_type", 29, "u8", "none">>, <<"icmpv6_code", 30, "u8", "none">>,
    <<"tunnel_id", 38, "u64", "none">> }

Nxm0Fields == {
    <<"in_port", 0, "u16", "none">>, <<"eth_dst", 1, "mac", "mask">>,
    <<"eth_src", 2, "mac", "mask">>, <<"eth_type", 3, "u16", "none">>,
    <<"vlan_vid", 4, "u16", "none">>, <<"ip_dscp", 5, "tos", "none">>,
    <<"ip_proto", 6, "u8", "none">>, <<"ipv4_src", 7, "ip4", "prefix">>,
    <<"ipv4_dst", 8, "ip4", "prefix">>, <<"tcp_src", 9, "u16", "none">>,
    <<"tcp_dst", 10, "u16", "none">>, <<"udp_src", 11, "u16", "none">>,
    <<"udp_dst", 12, "u16", "none">>, <<"icmp_type", 13, "u8", "none">>,
    <<"icmp_code", 14, "u8", "none">>, <<"arp_op", 15, "u16", "none">>,
    <<"arp_spa", 16, "ip4", "none">>, <<"arp_tpa", 17, "ip4", "none">> }

NxmFields == {
    <<"tunnel_id", 16, "u64", "none">>, <<"ct_state", 105, "u32", "mask">>,
    <<"ct_zone", 106, "u16", "none">>, <<"ct_mark", 107, "u32", "mask">> }

(* Fault: the numbers of the constants in action/nxm.rs, IP_PROTO = 5.     *)
FieldsOfConstants(class) ==
    CASE class = Basic -> LinkFields \union TransportFields
      [] class = Nxm0  -> {[r EXCEPT ![2] = IF @ > 5 THEN @ - 1 ELSE @] : r \in Nxm0Fields}
      [] class = Nxm1  -> NxmFields
      [] OTHER         -> {}

FieldsOf(class) ==
    CASE class = Basic -> LinkFields \union TransportFields
      [] class = Nxm0  -> Nxm0Fields
      [] class = Nxm1  -> NxmFields
      [] OTHER         -> {}

(* The mask of an address that comes without one is the full prefix.       *)
DecodeMask(row, hasMask, value) ==
    LET w == Bytes(row[3])
        given == hasMask /\ Len(value) >= 2 * w
        mask == Slice(value, w, 2 * w)
    IN  CASE row[4] = "prefix" ->
                MaskName(row[1]) :> IF given THEN MaskPrefix(mask) ELSE 8 * w
          [] row[4] = "mask" /\ given -> MaskName(row[1]) :> Read(row[3], mask)
          [] OTHER -> AnyMatch

(* The TLVs of a byte string: the loop stops at one that does not fit.     *)
TlvSize(data, o) ==
    IF o + 4 > Len(data) \/ o + 4 + data[o + 4] > Len(data) THEN 0 ELSE 4 + data[o + 4]
Tlvs(data) == Items(data, TlvSize)

ClassOf(t)    == At(t, 0, 2)
NumberOf(t)   == t[3] \div 2
TlvMasked(t)  == t[3] % 2 = 1

DecodeField(m, t) ==
    LET value == Rest(t, 4)
        len == IF TlvMasked(t) THEN Len(value) \div 2 ELSE Len(value)
        rows == {r \in FieldsOf(ClassOf(t)) : r[2] = NumberOf(t) /\ len >= Bytes(r[3])}
        Apply(row) == DecodeMask(row, TlvMasked(t), value)
                      @@ (row[1] :> Read(row[3], Slice(value, 0, Bytes(row[3])))) @@ m
    IN  IF rows = {} THEN m ELSE Apply(CHOOSE r \in rows : TRUE)

(* Fault: the first unknown field ends the match.                          *)
DecodeOxmKnown(data) ==
    LET ts == Tlvs(data)
        known == {i \in DOMAIN ts : \A j \in 1..i : DecodeField(AnyMatch, ts[j]) # AnyMatch}
    IN  FoldLeft(DecodeField, AnyMatch, SubSeq(ts, 1, Cardinality(known)))

(* Match::decode_oxm.                                                      *)
DecodeOxm(data) == FoldLeft(DecodeField, AnyMatch, Tlvs(data))

(* Match::decode: the match and the bytes it takes.                        *)
Decode(data) ==
    LET len == At(data, 2, 2) IN
    IF Len(data) < 4 \/ At(data, 0, 2) # 1 \/ Len(data) < len THEN Bad
    ELSE IF len < 4 THEN Panic
    ELSE [match |-> DecodeOxm(Slice(data, 4, len)), len |-> len + Pad8(len)]

-----------------------------------------------------------------------------
(* The typed fields of oxm.rs, with which a match is written one TLV at a  *)
(* time: rows <<name, number, kind>>.  Those of the second table that are  *)
(* not in NxmFields have no place in a Match.                              *)

OxmMatchField == {
    <<"in_port", 0, "u32">>, <<"in_phy_port", 1, "u32">>, <<"metadata", 2, "u64">>,
    <<"eth_dst", 3, "mac">>, <<"eth_src", 4, "mac">>, <<"eth_type", 5, "u16">>,
    <<"vlan_vid", 6, "u16">>, <<"vlan_pcp", 7, "u8">>, <<"ip_dscp", 8, "u8">>,
    <<"ip_ecn", 9, "u8">>, <<"ip_proto", 10, "u8">>, <<"ipv4_src", 11, "ip4">>,
    <<"ipv4_dst", 12, "ip4">>, <<"tcp_src", 13, "u16">>, <<"tcp_dst", 14, "u16">>,
    <<"udp_src", 15, "u16">>, <<"udp_dst", 16, "u16">>, <<"sctp_src", 17, "u16">>,
    <<"sctp_dst", 18, "u16">>, <<"icmp_type", 19, "u8">>, <<"icmp_code", 20, "u8">>,
    <<"arp_op", 21, "u16">>, <<"arp_spa", 22, "ip4">>, <<"arp_tpa", 23, "ip4">>,
    <<"arp_sha", 24, "mac">>, <<"arp_tha", 25, "mac">>, <<"tunnel_id", 38, "u64">> }

(* encode_reg(n) is reg<n>, encode_xxreg(n) is 111 + n.                    *)
NxmMatchField ==
    {<<"reg", n, "u32">> : n \in 0..15} \union {<<"xxreg", 111 + n, "u128">> : n \in 0..3}
    \union { <<"tunnel_id", 16, "u64">>, <<"tun_ipv4_src", 31, "ip4">>,
             <<"tun_ipv4_dst", 32, "ip4">>, <<"pkt_mark", 33, "u32">>,
             <<"ct_state", 105, "u32">>, <<"ct_zone", 106, "u16">>,
             <<"ct_mark", 107, "u32">>, <<"ct_label", 108, "u128">> }

(* One field; f is <<class, row, value>> or <<class, row, value, mask>>.   *)
MatchField(f) ==
    LET v == Written(f[2][3], f[3]) IN
    IF Len(f) = 3 THEN Plain(f[1], f[2][2], v)
    ELSE Masked(f[1], f[2][2], v, Written(f[2][3], f[4]))

(* encode_ipv4_prefix: the bits outside the mask are cleared.              *)
EncodeIpv4Prefix(row, addr, prefix) ==
    LET mask == PrefixMask(prefix, 4)
        cleared == [i \in 1..4 |-> addr[i] - (addr[i] % (256 - mask[i]))]
    IN  MatchField(<<Basic, row, cleared, mask>>)
===============================================================================
