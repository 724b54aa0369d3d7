--------------------------------- MODULE Wire ---------------------------------
(***************************************************************************)
(* A VConn and a switch on a stream of octets: what VConn.tla takes for    *)
(* whole messages is written, split, read and decoded here.  The methods   *)
(* of VConn that carry data run to their end or are dropped, also in the   *)
(* middle of a message; Controller::run answers packet-ins through its     *)
(* proxies; other controllers change the flow table.                       *)
(***************************************************************************)
EXTENDS Packets, OfSwitch

CONSTANTS Programs,    \* what may happen in one behaviour (see program below)
          Proxies,     \* the handlers of the controller, in order
          Entries      \* what they know: addresses to MACs

VARIABLES
    program,    \* what is still to come: calls of the client, flow mods of
                \* other controllers, frames and echo requests from the
                \* switch, and how often reads are split and calls dropped
    call,       \* the pending call: its op, and the items collected
    got,        \* the octets read of the message being received
    xid,        \* VConn.next_xid
    toSwitch,   \* messages under way, each with the flow it is about
    toClient,   \* octets under way
    inTransit,  \* the messages these are, and what they report
    table,      \* the switch's flow table
    monitored,  \* whether the switch has a flow monitor of the client
    told,       \* packets of the controller that the switch has sent on
    last,       \* the outcome of the last call, and what it should report
    refused,    \* flows answered by an error message
    garbled,    \* the client has received something other than was sent
    lost        \* a call was dropped in the middle of a message

vars == <<program, call, got, xid, toSwitch, toClient, inTransit, table, monitored, told, last,
          refused, garbled, lost>>
clientVars == <<program, call, got, xid, last, lost>>
switchVars == <<table, monitored, told, refused>>

MessageType == [Error |-> 1, EchoRequest |-> 2, EchoReply |-> 3, PacketIn |-> 10,
                PacketOut |-> 13, FlowMod |-> 14, MultipartRequest |-> 18,
                MultipartReply |-> 19, BarrierRequest |-> 20, BarrierReply |-> 21]

NoFlow == <<>>
Idle   == [op |-> "idle", items |-> <<>>, reported |-> {}]
NoOutcome == [op |-> "none", ok |-> TRUE, panic |-> FALSE, items |-> <<>>, expected |-> {}]

-----------------------------------------------------------------------------
(* message.rs.                                                             *)

HeaderLayout == << <<"version", 1>>, <<"type", 1>>, <<"length", 2>>, <<"xid", 4>> >>
Header(bytes) == Unpack(HeaderLayout, bytes)

(* Fault: the length is that of the body.                                  *)
MessageBody(type, id, body) ==
    Pack(HeaderLayout, [version |-> 4, type |-> MessageType[type], length |-> Len(body), xid |-> id])
    \o body

(* Message::new and encode; the length is cast to u16.                     *)
MessageBytes(type, id, body) ==
    Pack(HeaderLayout, [version |-> 4, type |-> MessageType[type],
                        length |-> (8 + Len(body)) % 65536, xid |-> id])
    \o body

-----------------------------------------------------------------------------
(* Calls.                                                                  *)

Sent(type, body, flow) == [bytes |-> MessageBytes(type, xid, body), flow |-> flow]
NextXid(n) == xid' = xid + n

Start(op) ==
    /\ call.op = "idle" /\ ~lost /\ ~last.panic /\ program.calls # <<>> /\ Head(program.calls)[1] = op
    /\ program' = [program EXCEPT !.calls = Tail(@)]
    /\ UNCHANGED <<got, toClient, inTransit, switchVars, garbled, lost>>
Argument == Head(program.calls)[2]

(* send_flow: no reply is awaited.                                         *)
SendFlow ==
    /\ Start("send_flow")
    /\ toSwitch' = Append(toSwitch, Sent("FlowMod", EncodeFlow(Argument), Argument))
    /\ NextXid(1)
    /\ UNCHANGED <<call, last>>

(* send_flow_sync: the flow mod, then a barrier request.                   *)
SendFlowSync ==
    /\ Start("send_flow_sync")
    /\ toSwitch' = toSwitch \o
          << Sent("FlowMod", EncodeFlow(Argument), Argument),
             [bytes |-> MessageBytes("BarrierRequest", xid + 1, <<>>), flow |-> NoFlow] >>
    /\ NextXid(2)
    /\ call' = [Idle EXCEPT !.op = "send_flow_sync"]
    /\ UNCHANGED last

Request(op, body) ==
    /\ Start(op)
    /\ toSwitch' = Append(toSwitch, Sent("MultipartRequest", body, NoFlow))
    /\ NextXid(1)
    /\ call' = [Idle EXCEPT !.op = op]
    /\ UNCHANGED last

DumpFlows    == Request("dump_flows", FlowStatsRequest(Argument))
MonitorFlows == Request("monitor_flows", FlowMonitorRequest(Argument))

(* recv_flow_updates, Controller::run and run_once only receive.           *)
Receive ==
    \E op \in {"recv_flow_updates", "run", "run_once"} :
        /\ Start(op)
        /\ call' = [Idle EXCEPT !.op = op]
        /\ UNCHANGED <<toSwitch, xid, last>>

(* The future of a call is dropped; what it has read of a message is gone. *)
Drop ==
    /\ call.op # "idle" /\ program.drops > 0
    /\ program' = [program EXCEPT !.drops = @ - 1]
    /\ call' = Idle /\ got' = <<>> /\ lost' = (lost \/ got # <<>>)
    /\ last' = [NoOutcome EXCEPT !.op = call.op, !.ok = FALSE]
    /\ UNCHANGED <<xid, toSwitch, toClient, inTransit, switchVars, garbled>>

-----------------------------------------------------------------------------
(* recv_message: the header, then as many octets as it says.               *)

Missing == IF Len(got) < 8 THEN 8 - Len(got) ELSE Header(got).length - Len(got)
Waiting == call.op # "idle" /\ toClient # <<>> /\ ~lost

(* A read that does not end the message: half of what is missing, or the   *)
(* header of a message that has a body.                                    *)
ReadPart ==
    \E k \in {Missing, Missing \div 2} :
        LET all == got \o SubSeq(toClient, 1, k) IN
        /\ Waiting /\ k > 0
        /\ k # Missing => program.splits > 0
        /\ k = Missing => Len(all) = 8 /\ Header(all).length > 8
        /\ got' = all /\ toClient' = Rest(toClient, k)
        /\ program' = [program EXCEPT !.splits = IF k = Missing THEN @ ELSE @ - 1]
        /\ UNCHANGED <<call, xid, last, lost, toSwitch, inTransit, switchVars, garbled>>

(* The read that ends it, and the message.                                 *)
Message == got \o SubSeq(toClient, 1, Missing)
Type    == Header(Message).type
Body    == Rest(Message, 8)
ReadEnd ==
    /\ Waiting /\ Len(Message) >= 8 /\ Header(Message).length = Len(Message)
    /\ got' = <<>> /\ toClient' = Rest(toClient, Missing)
    /\ inTransit' = Tail(inTransit)
    /\ garbled' = (garbled \/ Head(inTransit).bytes # Message)
    /\ UNCHANGED <<program, switchVars, lost>>

Reported == call.reported \union Head(inTransit).reports

Return(ok, items) ==
    /\ call' = Idle
    /\ last' = [op |-> call.op, ok |-> ok, panic |-> FALSE, items |-> items, expected |-> Reported]

(* What could not be parsed: an Err, or the end of the task and its VConn. *)
Fail(part) ==
    /\ call' = Idle
    /\ last' = [NoOutcome EXCEPT !.op = call.op, !.ok = FALSE, !.panic = part.panic]

(* check_error.                                                            *)
RecvError ==
    /\ ReadEnd /\ Type = MessageType.Error
    /\ Return(FALSE, <<>>)
    /\ UNCHANGED <<toSwitch, xid>>

RecvEchoRequest ==
    /\ ReadEnd /\ Type = MessageType.EchoRequest
    /\ toSwitch' = Append(toSwitch, [flow |-> NoFlow,
                          bytes |-> MessageBytes("EchoReply", Header(Message).xid, Body)])
    /\ UNCHANGED <<call, last, xid>>

(* A part of the reply to dump_flows or monitor_flows.                     *)
Gather(part) ==
    IF ~part.ok THEN Fail(part)
    ELSE IF part.more
    THEN /\ call' = [call EXCEPT !.items = @ \o part.items, !.reported = Reported]
         /\ UNCHANGED last
    ELSE Return(TRUE, call.items \o part.items)

RecvPart ==
    /\ ReadEnd /\ Type = MessageType.MultipartReply
    /\ \/ call.op = "dump_flows" /\ Gather(ParseFlowStats(Body))
       \/ call.op = "monitor_flows" /\ Gather(ParseFlowMonitor(Body))
    /\ UNCHANGED <<toSwitch, xid>>

Deliver(part) ==
    IF ~part.ok THEN Fail(part)
    ELSE IF part.items = <<>> THEN UNCHANGED <<call, last>>
    ELSE Return(TRUE, part.items)

RecvFlowUpdates ==
    /\ ReadEnd /\ Type = MessageType.MultipartReply /\ call.op = "recv_flow_updates"
    /\ Deliver(ParseFlowMonitor(Body))
    /\ UNCHANGED <<toSwitch, xid>>

RecvBarrierReply ==
    /\ ReadEnd /\ Type = MessageType.BarrierReply /\ call.op = "send_flow_sync"
    /\ Return(TRUE, <<>>)
    /\ UNCHANGED <<toSwitch, xid>>

(* recv_packet_in, and then the dispatcher; run comes back for the next.   *)
Respond(outcome) ==
    IF outcome.type = "SendPacketOut"
    THEN /\ toSwitch' = Append(toSwitch, Sent("PacketOut", PacketOutBytes(outcome.out), NoFlow))
         /\ NextXid(1)
    ELSE UNCHANGED <<toSwitch, xid>>

(* Fault: run returns what run_once returns.                               *)
ProcessOnce(p) ==
    /\ Return(p.ok, <<>>)
    /\ Respond(IF p.ok THEN Dispatch(Proxies, Entries, InPort(p), p.data) ELSE NotHandled)

Process(p) ==
    /\ IF call.op = "run_once" \/ ~p.ok THEN Return(p.ok, <<>>) ELSE UNCHANGED <<call, last>>
    /\ Respond(IF p.ok THEN Dispatch(Proxies, Entries, InPort(p), p.data) ELSE NotHandled)

RecvPacketIn ==
    /\ ReadEnd /\ Type = MessageType.PacketIn /\ call.op \in {"run", "run_once"}
    /\ Process(ParsePacketIn(Body))

(* Every other message is skipped by the call that reads it.               *)
RecvOther ==
    /\ ReadEnd /\ Type \notin {MessageType.Error, MessageType.EchoRequest}
    /\ Type = MessageType.MultipartReply =>
          call.op \notin {"dump_flows", "monitor_flows", "recv_flow_updates"}
    /\ Type = MessageType.BarrierReply => call.op # "send_flow_sync"
    /\ Type = MessageType.PacketIn => call.op \notin {"run", "run_once"}
    /\ UNCHANGED <<call, last, toSwitch, xid>>

ClientReads == \/ ReadPart \/ RecvError \/ RecvEchoRequest \/ RecvPart \/ RecvFlowUpdates
               \/ RecvBarrierReply \/ RecvPacketIn \/ RecvOther

-----------------------------------------------------------------------------
(* The switch.                                                             *)

(* Messages to the client, with what they report.                          *)
Transmit(ms) ==
    /\ inTransit' = inTransit \o ms
    /\ toClient' = toClient \o Concat(LAMBDA x : x.bytes, ms)
Reply(type, id, body, reports) ==
    [bytes |-> <<4, MessageType[type]>> \o BE(8 + Len(body), 2) \o BE(id, 4) \o body,
     reports |-> reports]
Parts(id, bodies, reports) ==
    [i \in DOMAIN bodies |-> Reply("MultipartReply", id, bodies[i],
                                   IF reports = <<>> THEN {} ELSE {reports[i]})]

Flows(es, event) == Each(LAMBDA e : [event |-> event, flow |-> e.flow], es)
OwnUpdate(id) ==
    IF monitored THEN Parts(0, Updates(<<Abbreviated(id)>>), <<[event |-> "abbrev", flow |-> id]>>)
    ELSE <<>>

Incoming == Head(toSwitch)
From     == Header(Incoming.bytes)
SwitchReceives(type) ==
    /\ toSwitch # <<>> /\ From.type = MessageType[type]
    /\ From.version = 4
    /\ toSwitch' = Tail(toSwitch)
    /\ UNCHANGED <<clientVars, garbled>>
SwitchBody == Rest(Incoming.bytes, 8)

Change(r) ==
    IF AcceptsMatch(r.tlvs)
    THEN /\ table' = AfterFlowMod(table, r) /\ refused' = refused
         /\ Transmit(OwnUpdate(From.xid))
    ELSE /\ table' = table /\ refused' = refused \union {Incoming.flow}
         /\ Transmit(<<Reply("Error", From.xid, BE(4, 2) \o BE(9, 2), {})>>)

SwitchFlowMod ==
    /\ SwitchReceives("FlowMod")
    /\ Change(FlowModOf(SwitchBody, Incoming.flow))
    /\ UNCHANGED <<monitored, told>>

SwitchFlowStats ==
    LET asked == SetToSeq(AskedEntries(table, SwitchBody)) IN
    /\ SwitchReceives("MultipartRequest") /\ At(SwitchBody, 0, 2) = 1
    /\ Transmit(Parts(From.xid, FlowStats(asked), Flows(asked, "stats")))
    /\ UNCHANGED switchVars

SwitchMonitor ==
    /\ SwitchReceives("MultipartRequest") /\ At(SwitchBody, 0, 2) = 65535
    /\ monitored' = TRUE
    /\ LET es == SetToSeq(table) IN
       Transmit(Parts(From.xid, Updates(EntryUpdates(es, 0)), Flows(es, "added")))
    /\ UNCHANGED <<table, told, refused>>

SwitchBarrier ==
    /\ SwitchReceives("BarrierRequest")
    /\ Transmit(<<Reply("BarrierReply", From.xid, <<>>, {})>>)
    /\ UNCHANGED switchVars

SwitchPacketOut ==
    /\ SwitchReceives("PacketOut")
    /\ told' = Append(told, PacketOutOf(SwitchBody))
    /\ UNCHANGED <<table, monitored, refused, toClient, inTransit>>

SwitchEchoReply ==
    /\ SwitchReceives("EchoReply")
    /\ UNCHANGED <<switchVars, toClient, inTransit>>

SwitchHandles == \/ SwitchFlowMod \/ SwitchFlowStats \/ SwitchMonitor
                 \/ SwitchBarrier \/ SwitchPacketOut \/ SwitchEchoReply

(* What the switch does of its own accord.                                 *)
Happens(kind) ==
    /\ program[kind] # <<>>
    /\ program' = [program EXCEPT ![kind] = Tail(@)]
    /\ UNCHANGED <<call, got, xid, last, lost, toSwitch, garbled, told, refused>>

SwitchSendsFrame ==
    /\ Happens("frames")
    /\ LET q == Head(program.frames) IN
       Transmit(<<Reply("PacketIn", 0, PacketInOf(q.port, q.frame), {})>>)
    /\ UNCHANGED <<table, monitored>>

SwitchSendsEcho ==
    /\ Happens("echoes")
    /\ Transmit(<<Reply("EchoRequest", 0, Head(program.echoes), {})>>)
    /\ UNCHANGED <<table, monitored>>

(* Another controller's flow mod: octets and the flow that they mean.      *)
Notify(es, event) ==
    IF monitored /\ es # <<>>
    THEN Transmit(Parts(0, Updates(EntryUpdates(es, event)),
                        Flows(es, <<"added", "deleted", "modified">>[event + 1])))
    ELSE UNCHANGED <<toClient, inTransit>>

OtherChange(r, before) ==
    LET after == AfterFlowMod(table, r) IN
    /\ table' = after
    /\ IF r.command > 2 THEN Notify(SetToSeq(before), 1)
       ELSE Notify(SetToSeq(after \ table), IF before = {} THEN 0 ELSE 2)

OtherFlowMod(r) == OtherChange(r, Affected(table, r))

OtherController ==
    /\ Happens("others") /\ monitored' = monitored
    /\ OtherFlowMod(FlowModOf(Head(program.others).bytes, Head(program.others).flow))

-----------------------------------------------------------------------------
Init ==
    /\ program \in Programs
    /\ call = Idle /\ got = <<>> /\ xid = 1 /\ last = NoOutcome
    /\ toSwitch = <<>> /\ toClient = <<>> /\ inTransit = <<>>
    /\ table = {} /\ monitored = FALSE /\ told = <<>> /\ refused = {}
    /\ garbled = FALSE /\ lost = FALSE

Next == \/ SendFlow \/ SendFlowSync \/ DumpFlows \/ MonitorFlows \/ Receive \/ Drop \/ ClientReads
        \/ SwitchHandles \/ SwitchSendsFrame \/ SwitchSendsEcho \/ OtherController

(* The pending call is polled, and the switch handles what has arrived: the *)
(* steps of ClientReads and SwitchHandles are those that take octets off   *)
(* the one stream, and a message off the other.                            *)
Polled  == Waiting /\ toClient' \in {Rest(toClient, k) : k \in 1..Missing}
Handled == toSwitch # <<>> /\ toSwitch' = Tail(toSwitch)

Spec == Init /\ [][Next]_vars /\ WF_toClient(Polled) /\ WF_toSwitch(Handled)
-----------------------------------------------------------------------------
(* Properties.                                                             *)

(* Neither side ever reads anything but a whole message as it was sent, in *)
(* order, however the reads are split and wherever calls are dropped       *)
(* between two messages; what is under way to the client is the rest of    *)
(* them, nothing is left of a message when a call has ended, and no number *)
(* was written into fewer octets than it takes.                            *)
StreamInStep ==
    /\ ~garbled
    /\ call.op = "idle" => got = <<>>
    /\ Len(got) >= 8 => Len(got) < Header(got).length
    /\ \A i \in DOMAIN toClient : toClient[i] \in 0..255
    /\ \A i \in DOMAIN toSwitch : Range(toSwitch[i].bytes) \subseteq 0..255
    /\ \A i \in DOMAIN toSwitch : Header(toSwitch[i].bytes).length = Len(toSwitch[i].bytes)
    /\ ~lost => got \o toClient = Concat(LAMBDA x : x.bytes, inTransit)

(* What a reply can tell of a flow: masks that say nothing are not there,  *)
(* actions without an encoding or a decoder are missing, NAT is a plain ct,*)
(* a learn action ends before a match_field of one bit.                    *)
LostActions == {"drop", "goto_table", "write_metadata", "meter", "reg_load", "move"}

SeenSpecs(specs) ==
    LET zero == {i \in DOMAIN specs : specs[i].kind = "match_field" /\ specs[i].bits = 1}
        seen == SubSeq(specs, 1, IF zero = {} THEN Len(specs) ELSE Min(zero) - 1)
    IN  Each(LAMBDA s : IF s.kind \in {"match_immediate", "load_immediate"}
                        THEN [s EXCEPT !.src = Immediate(s.src, s.bits)] ELSE s, seen)

SeenAction(a) ==
    CASE a.type = "ct_nat" -> CtAction(a.flags, a.zone, a.table)
      [] a.type = "output" /\ a.port = Port.CONTROLLER -> [type |-> "controller", max_len |-> 65535]
      [] a.type = "learn"  -> [a EXCEPT !.specs = SeenSpecs(@)]
      [] OTHER -> a

SeenInstruction(i) ==
    IF i.type \in ActionInstructions
    THEN Instr(i.type, Each(SeenAction, SelectSeq(i.value, LAMBDA a : a.type \notin LostActions)))
    ELSE i

SeenMatch(m) ==
    [x \in {f \in DOMAIN m : f = "ct_state_mask" => m[f] # -1} |->
        IF x = "vlan_vid" THEN m[x] % 4096 ELSE m[x]]

Numbers(f) == [x \in {"table_id", "priority", "cookie", "idle_timeout", "hard_timeout"} |-> f[x]]
LastingFlags == {"send_flow_rem", "no_packet_counts", "no_byte_counts"}

SeenFlow(f) ==
    [numbers |-> Numbers(f), match |-> SeenMatch(f.match),
     flags |-> {FlowFlag[x] : x \in f.flags \intersect LastingFlags},
     instructions |-> Each(SeenInstruction, InstructionsSent(f))]

Entry(e) ==
    [numbers |-> Numbers(e), match |-> e.match, flags |-> ToBits(e.flags, 16),
     instructions |-> DecodeInstructions(e.instructions)]

(* dump_flows returns the entries of the table, each once, and of each     *)
(* flow everything a reply can tell, whoever installed it.                 *)
DumpTellsFlows ==
    last.op = "dump_flows" /\ last.ok =>
        /\ Len(last.items) = Cardinality(last.expected)
        /\ {Entry(e) : e \in Range(last.items)} = {SeenFlow(r.flow) : r \in last.expected}

(* A flow monitor reports what changed: whose flow, and its match, but for *)
(* the presence bit of a VLAN id.                                          *)
UpdateTold(u) ==
    IF u.event = "abbrev" THEN [event |-> "abbrev", flow |-> u.xid]
    ELSE [event |-> u.event, flow |-> Numbers(u), match |-> u.match]

UpdateOf(r) ==
    IF r.event = "abbrev" THEN r
    ELSE [event |-> r.event, flow |-> Numbers(r.flow),
          match |-> LET m == SeenMatch(r.flow.match) IN
                    [x \in DOMAIN m |-> IF x = "vlan_vid" THEN m[x] + 4096 ELSE m[x]]]

UpdatesTellChanges ==
    last.op \in {"monitor_flows", "recv_flow_updates"} /\ last.ok =>
        {UpdateTold(u) : u \in Range(last.items)} = {UpdateOf(r) : r \in last.expected}

(* The switch refuses no flow but those whose match was not completed: an  *)
(* IP protocol or a port without an Ethernet type, or an address with bits *)
(* outside its prefix; the builders see to everything else.                *)
NeedsEthType == {"ip_proto", "ip_dscp", "ip_ecn"}
HostBits(m, f) ==
    /\ f \in DOMAIN m
    /\ \E i \in DOMAIN m[f] :
           ToBits(m[f][i], 8) \ ToBits(PrefixMask(m[MaskName(f)], Len(m[f]))[i], 8) # {}
Incomplete(m) ==
    \/ DOMAIN m \intersect NeedsEthType # {} /\ "eth_type" \notin DOMAIN m
    \/ \E f \in Ip4Builders \union Ip6Builders : HostBits(m, f)

OnlyIncompleteRefused == \A f \in refused : Incomplete(f.match)

(* A call fails because a flow was refused, because it was dropped or,     *)
(* with a monitor on the connection, because an update came in between;    *)
(* what the switch sends is never taken for something invalid, and never   *)
(* makes a decoder panic.                                                  *)
NothingMisread ==
    /\ ~last.panic
    /\ ~last.ok => \/ refused # {} \/ monitored
                   \/ \E p \in Programs : p.calls # <<>> /\ program.drops < p.drops

(* The controller is an ARP and NDP proxy: the packets it sends, on their  *)
(* way to the switch or sent on by it, are the answers to the questions    *)
(* the switch has sent, in order.                                          *)
PacketIns  == SelectSeq(inTransit, LAMBDA x : x.bytes[2] = MessageType.PacketIn)
PacketOuts == SelectSeq(toSwitch, LAMBDA x : x.bytes[2] = MessageType.PacketOut)


Rules == INSTANCE Proxy WITH asked <- <<>>, told <- <<>>
OpenQuestions ==
    SelectSeq(Each(LAMBDA x : [port |-> At(x.bytes, 32, 4), frame |-> Rest(x.bytes, 42)], PacketIns),
              LAMBDA q : Rules!IsQuestion(q))

Promised == INSTANCE Proxy WITH
    asked <- OpenQuestions,
    told  <- told \o Each(LAMBDA x : PacketOutOf(Rest(x.bytes, 8)), PacketOuts)

AnswersQuestions == Promised!Spec

(* As long as run goes on, whoever asks is told.                           *)
AskersAreTold ==
    (call.op = "run" /\ OpenQuestions # <<>>)
        ~> (OpenQuestions = <<>> /\ PacketOuts = <<>>) \/ ~last.ok
===============================================================================
