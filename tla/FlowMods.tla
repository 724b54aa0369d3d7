------------------------------- MODULE FlowMods -------------------------------
(***************************************************************************)
(* The messages about flows in rovs-openflow/src: instruction.rs, flow.rs, *)
(* multipart.rs and flow_monitor.rs.  A flow is a record with the fields   *)
(* of the struct Flow; None is the Option's.                               *)
(***************************************************************************)
EXTENDS Actions

(* The actions of an apply_actions or write_actions instruction.           *)
Instr(t, v) == [type |-> t, value |-> v]

(* type -> number, and the layout of what follows the length.              *)
InstructionType == [goto_table |-> 1, write_metadata |-> 2, write_actions |-> 3,
                    apply_actions |-> 4, clear_actions |-> 5, meter |-> 6]
InstructionLayout ==
    [ goto_table     |-> << <<"value", 1>>, <<"", 3>> >>,
      write_metadata |-> << <<"", 4>>, <<"value", 8>>, <<"mask", 8>> >>,
      clear_actions  |-> << <<"", 4>> >>,
      meter          |-> << <<"value", 4>> >> ]
ActionInstructions == {"apply_actions", "write_actions"}

EncodeInstruction(i) ==
    Framed(InstructionType[i.type],
           IF i.type \in ActionInstructions THEN Zeros(4) \o ActionListBytes(i.value)
           ELSE Pack(InstructionLayout[i.type], i))

(* Shorter instructions are an error; with actions nothing is checked, and *)
(* the slice of the actions panics.                                        *)
InstructionMin == [goto_table |-> 8, write_metadata |-> 24, clear_actions |-> 0, meter |-> 8]

WithActions(type, as) == IF Failed(as) THEN as[1] ELSE Instr(type, as)

(* Instruction::decode, data from the instruction to the end of the list.  *)
DecodeInstruction(data) ==
    LET types == {t \in DOMAIN InstructionType : InstructionType[t] = At(data, 0, 2)}
        type == CHOOSE t \in types : TRUE
        length == At(data, 2, 2)
    IN  IF Len(data) < length \/ types = {} THEN Bad
        ELSE IF type \in ActionInstructions
        THEN IF length < 8 THEN Panic
             ELSE WithActions(type, DecodeActions(Slice(data, 8, length)))
        ELSE IF length < InstructionMin[type] THEN Bad
        ELSE [type |-> type] @@ Unpack(InstructionLayout[type], Rest(data, 4))

(* Instructions have the framing of actions.                               *)
DecodeInstructions(data) ==
    UntilFailure(Each(DecodeInstruction, Tails(data, ActionSize)))

-----------------------------------------------------------------------------
(* Flow.                                                                   *)

Command == [add |-> 0, modify |-> 1, modify_strict |-> 2, delete |-> 3, delete_strict |-> 4]
FlowFlag == [send_flow_rem |-> 0, check_overlap |-> 1, reset_counts |-> 2,
             no_packet_counts |-> 3, no_byte_counts |-> 4]

(* Flow::add() and Flow::delete(); the builders are EXCEPT.                *)
NewFlow(c) ==
    [command |-> c, table_id |-> IF c = "delete" THEN 255 ELSE 0, priority |-> 0, cookie |-> 0,
     cookie_mask |-> 0, match |-> AnyMatch, actions |-> <<>>, instructions |-> <<>>,
     idle_timeout |-> 0, hard_timeout |-> 0, flags |-> {}, out_port |-> None,
     out_group |-> None, buffer_id |-> None]

FlowLayout == << <<"cookie", 8>>, <<"cookie_mask", 8>>, <<"table_id", 1>>, <<"command", 1>>,
    <<"idle_timeout", 2>>, <<"hard_timeout", 2>>, <<"priority", 2>>, <<"buffer_id", 4>>,
    <<"out_port", 4>>, <<"out_group", 4>>, <<"flags", 2>>, <<"", 2>> >>

(* None is written as OFP_NO_BUFFER, OFPP_ANY, OFPG_ANY: all ones.         *)
EncodeFixed(f) ==
    Pack(FlowLayout, [f EXCEPT !.command = Command[@], !.flags = FromBits({FlowFlag[x] : x \in @})])

(* Bare actions are applied; they are left out when there are instructions.*)
InstructionsSent(f) ==
    IF f.instructions = <<>> /\ f.actions # <<>> THEN <<Instr("apply_actions", f.actions)>>
    ELSE f.instructions

EncodeFlow(f) ==
    EncodeFixed(f) \o Encode(f.match) \o Concat(EncodeInstruction, InstructionsSent(f))

-----------------------------------------------------------------------------
(* Multipart messages.                                                     *)

MultipartType == [Flow |-> 1, Experimenter |-> 65535]
NXST_FLOW_MONITOR == 2

MultipartHeader(t, more) == BE(MultipartType[t], 2) \o BE(IF more THEN 1 ELSE 0, 2) \o Zeros(4)
HasMore(body) == 0 \in ToBits(At(body, 2, 2), 1)
IsMultipart(body, t) == Len(body) >= 8 /\ At(body, 0, 2) = MultipartType[t]

NewStatsRequest == [table_id |-> 255, out_port |-> None, out_group |-> None, cookie |-> 0,
                    cookie_mask |-> 0, match |-> AnyMatch]
StatsLayout == << <<"table_id", 1>>, <<"", 3>>, <<"out_port", 4>>, <<"out_group", 4>>,
                  <<"", 4>>, <<"cookie", 8>>, <<"cookie_mask", 8>> >>

FlowStatsRequest(r) ==
    MultipartHeader("Flow", FALSE) \o Pack(StatsLayout, r) \o Encode(r.match)

EntryLayout == << <<"length", 2>>, <<"table_id", 1>>, <<"", 1>>, <<"duration_sec", 4>>,
    <<"duration_nsec", 4>>, <<"priority", 2>>, <<"idle_timeout", 2>>, <<"hard_timeout", 2>>,
    <<"flags", 2>>, <<"", 4>>, <<"cookie", 8>>, <<"packet_count", 8>>, <<"byte_count", 8>> >>

(* FlowStatsEntry::decode, data from the entry to the end of the reply: the *)
(* match may reach behind the entry, and the slice of the instructions,    *)
(* which stay bytes, panics.                                               *)
DecodeEntry(data) ==
    LET e == Unpack(EntryLayout, data)
        m == Decode(Rest(data, 48))
    IN  IF Len(data) < 48 \/ Len(data) < e.length THEN Bad
        ELSE IF m \in Failures THEN m
        ELSE IF 48 + m.len > e.length THEN Panic
        ELSE [match |-> m.match, instructions |-> Slice(data, 48 + m.len, e.length)] @@ e

(* Fault: the entries are taken to be as long as their fixed part.         *)
EntrySizeFixed(body, o) == IF Len(body) - o < 48 THEN 0 ELSE 48

(* No entry that has length 0 or is cut short can be decoded: it is the    *)
(* last.                                                                   *)
EntrySize(body, o) ==
    LET n == At(body, o, 2)
        left == Len(body) - o
    IN  IF left < 4 THEN 0 ELSE IF n \in 1..left THEN n ELSE left

Unparsed(failure) == [ok |-> FALSE, panic |-> failure = Panic]

(* parse_flow_stats_reply: the entries of one part, and whether more come. *)
ParseFlowStats(body) ==
    LET es == UntilFailure(Each(DecodeEntry, Tails(Rest(body, 8), EntrySize))) IN
    IF ~IsMultipart(body, "Flow") THEN Unparsed(Bad)
    ELSE IF Failed(es) THEN Unparsed(es[1])
    ELSE [ok |-> TRUE, items |-> es, more |-> HasMore(body)]

-----------------------------------------------------------------------------
(* Flow monitors.                                                          *)

(* FlowMonitorRequest::all_changes: INITIAL, ADD, DELETE, MODIFY, ACTIONS. *)
AllChanges(id) ==
    [id |-> id, flags |-> {0, 1, 2, 3, 4}, out_port |-> 65535, table_id |-> 255,
     match |-> AnyMatch]

MonitorLayout == << <<"id", 4>>, <<"flags", 2>>, <<"out_port", 2>>, <<"match_len", 2>>,
                    <<"table_id", 1>>, <<"", 1>> >>

(* The match has no header and no padding.                                 *)
FlowMonitorRequest(r) ==
    LET tlvs == EncodeOxmFields(r.match) IN
    MultipartHeader("Experimenter", FALSE) \o BE(NICIRA_VENDOR_ID, 4)
    \o BE(NXST_FLOW_MONITOR, 4)
    \o Pack(MonitorLayout, [match_len |-> Len(tlvs)] @@ [r EXCEPT !.flags = FromBits(@)])
    \o tlvs

Event == <<"added", "deleted", "modified">>
UpdateLayout == << <<"length", 2>>, <<"event", 2>>, <<"reason", 2>>, <<"priority", 2>>,
    <<"idle_timeout", 2>>, <<"hard_timeout", 2>>, <<"match_len", 2>>, <<"table_id", 1>>,
    <<"", 1>>, <<"cookie", 8>> >>

(* parse_flow_update_full: the actions start right behind the match.       *)
DecodeUpdateFull(data) ==
    LET u == Unpack(UpdateLayout, data)
        end == 24 + u.match_len
    IN  IF Len(data) < 24 \/ u.event > 2 \/ end > Len(data) THEN Bad
        ELSE [event |-> Event[u.event + 1], match |-> DecodeOxm(Slice(data, 24, end)),
              actions |-> Rest(data, end)] @@ u

DecodeUpdate(data) ==
    CASE At(data, 2, 2) # 3 -> DecodeUpdateFull(data)
      [] At(data, 2, 2) = 3 /\ Len(data) < 8 -> Bad
      [] OTHER -> [event |-> "abbrev", xid |-> At(data, 4, 4)]

UpdateSize(body, o) ==
    LET n == At(body, o, 2) IN
    IF Len(body) - o < 4 \/ n < 4 \/ o + n > Len(body) THEN 0 ELSE n

ParseFlowMonitor(body) ==
    LET us == Each(DecodeUpdate, Items(Rest(body, 16), UpdateSize)) IN
    IF \/ ~IsMultipart(body, "Experimenter") \/ Len(body) < 16
       \/ At(body, 8, 4) # NICIRA_VENDOR_ID \/ At(body, 12, 4) # NXST_FLOW_MONITOR
       \/ Bad \in Range(us)
    THEN Unparsed(Bad)
    ELSE [ok |-> TRUE, items |-> us, more |-> HasMore(body)]
===============================================================================
