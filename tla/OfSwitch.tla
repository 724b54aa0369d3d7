------------------------------- MODULE OfSwitch -------------------------------
(***************************************************************************)
(* The switch at the other end of a VConn, as the OpenFlow 1.3 formats and *)
(* the client's requests describe it: flow tables, statistics, flow        *)
(* monitors, packet-in and packet-out, on bytes.  The layouts are those of *)
(* the protocol and are written here a second time on purpose: what the    *)
(* client packs in one order must not be unpacked in the same wrong order. *)
(*                                                                         *)
(* A table is a set of entries: their numbers, the set of the TLVs of the  *)
(* match, the bytes of the instructions, and in "flow" the flow that the   *)
(* sender meant, which no reply depends on.                                *)
(***************************************************************************)
EXTENDS Octets

TlvLength(data, o) == IF Len(data) - o < 4 THEN 0 ELSE Min({4 + data[o + 4], Len(data) - o})
TlvsOf(data)       == Items(data, TlvLength)
TlvKey(t)    == <<At(t, 0, 2), t[3] \div 2>>
TlvIsMasked(t) == t[3] % 2 = 1
TlvValue(t)  == Slice(t, 4, 4 + (IF TlvIsMasked(t) THEN t[4] \div 2 ELSE t[4]))
TlvMask(t)   == Slice(t, 4 + (t[4] \div 2), Len(t))

(* A match is refused when a field lacks its prerequisite before it, when  *)
(* it has value bits outside the mask, or comes twice.                     *)
Oxm(n) == <<32768, n>>
EthIs(ts, types) == \E i \in DOMAIN ts : TlvKey(ts[i]) = Oxm(5) /\ Value(TlvValue(ts[i])) \in types
ProtoIs(ts, p)   == \E i \in DOMAIN ts : TlvKey(ts[i]) = Oxm(10) /\ Value(TlvValue(ts[i])) = p

Prerequisite(key, before) ==
    LET n == IF key[1] = 32768 THEN key[2] ELSE 0 IN
    /\ n = 7 => \E i \in DOMAIN before : TlvKey(before[i]) = Oxm(6)
    /\ n \in {8, 9, 10} => EthIs(before, {2048, 34525})
    /\ n \in {11, 12}   => EthIs(before, {2048})
    /\ n \in {13, 14}   => ProtoIs(before, 6)
    /\ n \in {15, 16}   => ProtoIs(before, 17)
    /\ n \in {17, 18}   => ProtoIs(before, 132)
    /\ n \in {19, 20}   => EthIs(before, {2048}) /\ ProtoIs(before, 1)
    /\ n \in 21..25     => EthIs(before, {2054})
    /\ n \in 26..28     => EthIs(before, {34525})
    /\ n \in {29, 30}   => EthIs(before, {34525}) /\ ProtoIs(before, 58)

OutsideMask(t) ==
    TlvIsMasked(t) /\ \E i \in DOMAIN TlvMask(t) :
        ToBits(TlvValue(t)[i], 8) \ ToBits(TlvMask(t)[i], 8) # {}

AcceptsMatch(ts) ==
    \A i \in DOMAIN ts :
        /\ Prerequisite(TlvKey(ts[i]), SubSeq(ts, 1, i - 1))
        /\ ~OutsideMask(ts[i])
        /\ \A j \in 1..i-1 : TlvKey(ts[j]) # TlvKey(ts[i])

-----------------------------------------------------------------------------
(* Flow mods.                                                              *)

FlowModFormat == << <<"cookie", 8>>, <<"cookie_mask", 8>>, <<"table_id", 1>>, <<"command", 1>>,
    <<"idle_timeout", 2>>, <<"hard_timeout", 2>>, <<"priority", 2>>, <<"buffer_id", 4>>,
    <<"out_port", 4>>, <<"out_group", 4>>, <<"flags", 2>>, <<"", 2>> >>
EntryNumbers == {"table_id", "priority", "cookie", "idle_timeout", "hard_timeout", "flags"}

(* set_tunnel comes back as a set_field.                                   *)
ActionForm(a) ==
    IF At(a, 0, 2) = 65535 /\ At(a, 8, 2) = 33
    THEN BE(25, 2) \o BE(16, 2) \o Slice(a, 10, 22) ELSE a
Announced(data, o) == IF Len(data) - o < 4 THEN 0 ELSE Min({At(data, o + 2, 2), Len(data) - o})
InstructionForm(i) ==
    LET actions == Concat(ActionForm, Items(Rest(i, 8), Announced)) IN
    IF At(i, 0, 2) \in {3, 4} THEN Slice(i, 0, 2) \o BE(8 + Len(actions), 2) \o Zeros(4) \o actions
    ELSE i

(* The request of a flow mod; the flags that last are those of the entry.  *)
FlowModOf(body, flow) ==
    LET len == At(body, 42, 2)
        ts == TlvsOf(Slice(body, 44, 40 + len))
        fixed == Unpack(FlowModFormat, body)
    IN  [tlvs |-> ts, flow |-> flow, command |-> fixed.command, filter |-> fixed.cookie_mask,
         instructions |-> Concat(InstructionForm, Items(Rest(body, 40 + len + Pad8(len)), Announced)),
         numbers |-> [x \in EntryNumbers |->
             IF x = "flags" THEN FromBits(ToBits(fixed.flags, 5) \intersect {0, 3, 4})
             ELSE fixed[x]]]

EntryOf(r) == [numbers |-> r.numbers, tlvs |-> Range(r.tlvs), instructions |-> r.instructions,
               flow |-> r.flow]

SameFlow(e, r) == /\ e.tlvs = Range(r.tlvs) /\ e.numbers.priority = r.numbers.priority
                  /\ e.numbers.table_id = r.numbers.table_id
Within(e, r)   == /\ Range(r.tlvs) \subseteq e.tlvs
                  /\ r.numbers.table_id \in {e.numbers.table_id, 255}

(* 0 add, 1 modify, 2 modify_strict, 3 delete, 4 delete_strict.            *)
Affected(table, r) ==
    {e \in table : /\ IF r.command \in {1, 3} THEN Within(e, r) ELSE SameFlow(e, r)
                   /\ r.command # 0 /\ r.filter # 0 => e.numbers.cookie = r.numbers.cookie}

AfterFlowMod(table, r) ==
    LET hit == Affected(table, r) IN
    CASE r.command = 0 -> (table \ hit) \union {EntryOf(r)}
      [] r.command \in {1, 2} ->
            (table \ hit) \union {[e EXCEPT !.instructions = r.instructions,
                !.flow.actions = r.flow.actions, !.flow.instructions = r.flow.instructions] : e \in hit}
      [] r.command \in {3, 4} -> table \ hit

-----------------------------------------------------------------------------
(* Replies.  The match of an entry has its fields in the order of numbers. *)

MatchBytes(tlvs) ==
    FlattenSeq(SetToSortSeq(tlvs, LAMBDA s, t : LET a == TlvKey(s) b == TlvKey(t) IN
                  a[1] > b[1] \/ (a[1] = b[1] /\ a[2] < b[2])))

OxmMatchBytes(tlvs) == Padded(BE(1, 2) \o BE(4 + Len(MatchBytes(tlvs)), 2) \o MatchBytes(tlvs))

StatsFormat == << <<"length", 2>>, <<"table_id", 1>>, <<"", 1>>, <<"", 8>>, <<"priority", 2>>,
    <<"idle_timeout", 2>>, <<"hard_timeout", 2>>, <<"flags", 2>>, <<"", 4>>, <<"cookie", 8>>,
    <<"", 16>> >>

EntryStats(e) ==
    LET m == OxmMatchBytes(e.tlvs) IN
    Pack(StatsFormat, [length |-> 48 + Len(m) + Len(e.instructions)] @@ e.numbers)
    \o m \o e.instructions

(* The parts of a multipart reply, one item in each, at least one part.    *)
PartsOf(type, header, items) ==
    LET n == Max({1, Len(items)}) IN
    [i \in 1..n |-> BE(type, 2) \o BE(IF i < n THEN 1 ELSE 0, 2) \o Zeros(4) \o header
                    \o (IF items = <<>> THEN <<>> ELSE items[i])]

AskedFormat == << <<"", 8>>, <<"table_id", 1>>, <<"", 15>>, <<"cookie", 8>>, <<"cookie_mask", 8>> >>
AskedEntries(table, body) ==
    LET r == Unpack(AskedFormat, body)
        tlvs == Range(TlvsOf(Slice(body, 44, 40 + At(body, 42, 2))))
    IN  {e \in table : /\ r.table_id \in {255, e.numbers.table_id} /\ tlvs \subseteq e.tlvs
                       /\ r.cookie_mask # 0 => r.cookie = e.numbers.cookie}

FlowStats(es) == PartsOf(1, <<>>, Each(EntryStats, es))

(* A monitored flow: the fields that NXM has come as NXM.                  *)
NxmForms == { <<0, 0>>, <<3, 1>>, <<4, 2>>, <<5, 3>>, <<6, 4>>, <<8, 5>>, <<10, 6>>, <<11, 7>>,
              <<12, 8>>, <<13, 9>>, <<14, 10>>, <<15, 11>>, <<16, 12>>, <<19, 13>>, <<20, 14>>,
              <<21, 15>>, <<22, 16>>, <<23, 17>> }

NxmForm(t) ==
    LET forms == {f \in NxmForms : TlvKey(t) = Oxm(f[1])}
        n == (CHOOSE f \in forms : TRUE)[2]
        v == CASE n = 0 -> Rest(t, 6) [] n = 5 -> <<4 * t[5]>> [] OTHER -> Rest(t, 4)
    IN  IF forms = {} THEN t ELSE BE(0, 2) \o <<2 * n + (t[3] % 2), Len(v)>> \o v

UpdateFormat == << <<"length", 2>>, <<"event", 2>>, <<"reason", 2>>, <<"priority", 2>>,
    <<"idle_timeout", 2>>, <<"hard_timeout", 2>>, <<"match_len", 2>>, <<"table_id", 1>>,
    <<"", 1>>, <<"cookie", 8>> >>

FullUpdate(e, event) ==
    LET m == Concat(NxmForm, TlvsOf(MatchBytes(e.tlvs))) IN
    Pack(UpdateFormat, [length |-> 24 + Len(Padded(m)), event |-> event, reason |-> 0,
                        match_len |-> Len(m)] @@ e.numbers)
    \o Padded(m)

Abbreviated(xid) == BE(8, 2) \o BE(3, 2) \o BE(xid, 4)

Updates(items) == PartsOf(65535, BE(8992, 4) \o BE(2, 4), items)
EntryUpdates(es, event) == Each(LAMBDA e : FullUpdate(e, event), es)

-----------------------------------------------------------------------------
(* A packet sent to the controller, and one that comes from it: the frame  *)
(* and the port it leaves by, output to IN_PORT being the only action.     *)

PacketInOf(port, frame) ==
    BE(-1, 4) \o BE(Len(frame), 2) \o <<1, 0>> \o BE(0, 8)
    \o OxmMatchBytes({BE(32768, 2) \o <<0, 4>> \o BE(port, 4)}) \o Zeros(2) \o frame

PacketOutOf(body) ==
    LET len == At(body, 8, 2) IN
    [port |-> IF Slice(body, 16, 16 + len) = BE(0, 2) \o BE(16, 2) \o BE(-8, 4) \o BE(65535, 2) \o Zeros(6)
              THEN At(body, 4, 4) ELSE -1,
     frame |-> Rest(body, 16 + len)]
===============================================================================
