------------------------------- MODULE VConn -------------------------------
(***************************************************************************)
(* An OpenFlow connection, rovs-openflow/src/vconn.rs: the client VConn,   *)
(* whose methods are futures awaited one at a time (they take &mut self),  *)
(* the TCP stream as one FIFO of whole messages per direction, and the     *)
(* switch at the other end (external).                                     *)
(*                                                                         *)
(* A method is split at its await points: a write, a read, the write of an *)
(* echo reply.  Between two of them the switch may act, the stream may     *)
(* close, and the caller may drop the future.  Wire encodings, versions    *)
(* and packet payloads are left out; a flow is a model value.              *)
(***************************************************************************)
EXTENDS Naturals, Sequences, SequencesExt

CONSTANTS
    Flows,       \* the flows that can be installed
    Ops,         \* the VConn methods the caller uses
    Droppable,   \* the methods whose future the caller may drop
    XidModulus,  \* 2^32 in the code: next_xid wraps there
    MaxCalls,    \* bound: method calls, connect included
    MaxAsync,    \* bound: messages the switch sends of its own accord
    MaxChanges   \* bound: changes another controller makes to the flow table

VARIABLES
    toSwitch, toClient,      \* messages in flight, oldest first
    open,                    \* the stream is not closed
    connected,               \* VConn::connect has returned Ok
    nextXid,                 \* VConn.next_xid
    op,                      \* the method being awaited
    last,                    \* what the last method to end returned
    broken,                  \* history: some method returned Err or was dropped
    calls,                   \* history: methods called
    sent,                    \* history: xids of the FlowMods sent
    table, monitoring,       \* switch: flow table, flow monitor registered
    accepted,                \* switch: xids of the FlowMods it applied
    snaps,                   \* switch: table at each flow-stats request served
    asked, answered,         \* switch: echo requests sent, xids answered
    asyncs, changes,         \* switch: bounds used up
    view                     \* caller: the table as its flow updates tell it

wire   == <<toSwitch, toClient, open>>
client == <<connected, nextXid, op, last, broken, calls, sent, view>>
switch == <<table, monitoring, accepted, snaps, asked, answered, asyncs, changes>>
vars   == <<wire, client, switch>>

-----------------------------------------------------------------------------
(* Messages.  A multipart reply carries a change of a set of flows: a flow *)
(* stats part only adds, a flow monitor part adds or deletes; an           *)
(* abbreviated update (for the client's own change) changes nothing but    *)
(* counts as an update ("any").                                            *)

Delta   == [added : SUBSET Flows, deleted : SUBSET Flows]
NoDelta == [added |-> {}, deleted |-> {}]
Xid     == 0 .. XidModulus - 1

ClientMsg ==
    [type : {"Hello", "BarrierRequest", "EchoRequest", "EchoReply",
             "FlowStatsRequest", "FlowMonitorRequest", "PacketOut"}, xid : Xid]
    \union [type : {"FlowMod"}, xid : Xid, cmd : {"add", "delete"}, flow : Flows]

SwitchMsg ==
    [type : {"Hello", "Error", "BarrierReply", "EchoRequest", "EchoReply",
             "PacketIn", "PortStatus"}, xid : Xid]
    \union [type : {"MultipartReply"}, xid : Xid, mp : {"Flow", "Experimenter"},
            body : Delta, any : BOOLEAN, more : BOOLEAN]

Msg(t, x)        == [type |-> t, xid |-> x]
FlowMod(x, c, f) == [type |-> "FlowMod", xid |-> x, cmd |-> c, flow |-> f]
Part(x, k, d, a, m) == [type |-> "MultipartReply", xid |-> x, mp |-> k,
                        body |-> d, any |-> a, more |-> m]

(* Applying a batch of changes, and the changes of two batches in order.   *)
Apply(S, d) == (S \ d.deleted) \union d.added
Then(d, e)  == [added   |-> (d.added \ e.deleted) \union e.added,
                deleted |-> d.deleted \union e.deleted]

-----------------------------------------------------------------------------
(* The methods.                                                            *)

FireAndForget == {"send_flow", "send_packet_out"}
Requests == {"send_flow_sync", "barrier", "dump_flows", "monitor_flows"}
Receives == {"recv_packet_in", "try_recv_packet_in", "recv_flow_updates"}
(* The methods whose receive loop checks for errors and answers echoes.    *)
Loops    == Requests \union Receives
Methods  == FireAndForget \union Loops \union {"connect", "echo"}

(* Fault: the loops treat echo requests like any other message.            *)
AcceptsNoEcho(k) ==
    {"Error"} \union
    CASE k \in {"send_flow_sync", "barrier"} -> {"BarrierReply"}
      [] k \in {"dump_flows", "monitor_flows", "recv_flow_updates"} -> {"MultipartReply"}
      [] OTHER -> {"PacketIn"}

(* The messages each receive loop does not skip.                           *)
Accepts(k) ==
    {"Error", "EchoRequest"} \union
    CASE k \in {"send_flow_sync", "barrier"} -> {"BarrierReply"}
      [] k \in {"dump_flows", "monitor_flows", "recv_flow_updates"} -> {"MultipartReply"}
      [] OTHER -> {"PacketIn"}

(* The pending future, and what a future ended with.                       *)
Pending == [kind : Methods \union {"none"}, pc : {"idle", "barrier", "recv", "reply"},
            xid : Xid, echo : Xid, acc : Delta]
Outcome == [kind : Methods \union {"none"}, res : {"none", "Ok", "Err", "Dropped"},
            xid : Xid, body : Delta, sent : SUBSET Xid]

Idle == [kind |-> "none", pc |-> "idle", xid |-> 0, echo |-> 0, acc |-> NoDelta]
Call(k, p, x) == [kind |-> k, pc |-> p, xid |-> x, echo |-> 0, acc |-> NoDelta]

ASSUME BoundsAssumption ==
    /\ XidModulus \in Nat /\ XidModulus > 1
    /\ MaxCalls \in Nat /\ MaxAsync \in Nat /\ MaxChanges \in Nat
    /\ Ops \subseteq Methods /\ Droppable \subseteq Methods

TypeOK ==
    /\ toSwitch \in Seq(ClientMsg) /\ toClient \in Seq(SwitchMsg)
    /\ open \in BOOLEAN /\ connected \in BOOLEAN /\ nextXid \in Xid
    /\ op \in Pending /\ last \in Outcome
    /\ broken \in BOOLEAN /\ calls \in Nat /\ sent \subseteq Xid
    /\ table \subseteq Flows /\ monitoring \in BOOLEAN
    /\ accepted \subseteq Xid /\ snaps \subseteq [xid : Xid, flows : SUBSET Flows]
    /\ asked \subseteq Xid /\ answered \subseteq Xid
    /\ asyncs \in Nat /\ changes \in Nat /\ view \subseteq Flows

(* The switch says Hello when it accepts the stream.                       *)
Init ==
    /\ toSwitch = <<>> /\ toClient = <<Msg("Hello", 0)>> /\ open = TRUE
    /\ connected = FALSE /\ nextXid = 1 /\ op = Idle
    /\ last = [kind |-> "none", res |-> "none", xid |-> 0, body |-> NoDelta, sent |-> {}]
    /\ broken = FALSE /\ calls = 0 /\ sent = {}
    /\ table \in SUBSET Flows /\ monitoring = FALSE
    /\ accepted = {} /\ snaps = {} /\ asked = {} /\ answered = {}
    /\ asyncs = 0 /\ changes = 0 /\ view = {}

-----------------------------------------------------------------------------
(* Client: calling a method.                                               *)

(* Fault: next_xid without wrapping_add.                                   *)
FreshNoWrap == nextXid + 1

(* VConn::next_xid.                                                        *)
Fresh == (nextXid + 1) % XidModulus

Write(m) == toSwitch' = IF open THEN Append(toSwitch, m) ELSE toSwitch

(* The end of a method: r is how it ended, b what its Ok carries.  The     *)
(* caller applies the flow updates it is given to its view of the table.   *)
Return(r, b) ==
    /\ op' = Idle
    /\ last' = [kind |-> op.kind, res |-> r, xid |-> op.xid, body |-> b, sent |-> sent]
    /\ broken' = (broken \/ r # "Ok")
    /\ view' = IF r = "Ok" /\ op.kind \in {"monitor_flows", "recv_flow_updates"}
               THEN Apply(view, b) ELSE view

CanCall(k) == op = Idle /\ connected /\ k \in Ops /\ calls < MaxCalls

Connect ==
    /\ op = Idle /\ calls = 0 /\ calls < MaxCalls
    /\ Write(Msg("Hello", nextXid))
    /\ op' = Call("connect", "recv", nextXid)
    /\ nextXid' = Fresh /\ calls' = calls + 1
    /\ UNCHANGED <<toClient, open, connected, last, broken, sent, view, switch>>

(* The methods that write and return.  On a closed stream the write fails, *)
(* or succeeds into the local buffer.                                      *)
SendAndReturn(k, m) ==
    /\ CanCall(k) /\ Write(m)
    /\ \E r \in {"Ok", "Err"} :
          /\ open => r = "Ok"
          /\ last' = [kind |-> k, res |-> r, xid |-> nextXid, body |-> NoDelta, sent |-> sent']
          /\ broken' = (broken \/ r # "Ok")
    /\ nextXid' = Fresh /\ calls' = calls + 1
    /\ UNCHANGED <<toClient, open, connected, op, view, switch>>

SendFlow(c, f) ==
    /\ sent' = sent \union {nextXid}
    /\ SendAndReturn("send_flow", FlowMod(nextXid, c, f))

SendPacketOut ==
    /\ UNCHANGED sent
    /\ SendAndReturn("send_packet_out", Msg("PacketOut", nextXid))

SendFlowSync(c, f) ==
    /\ CanCall("send_flow_sync")
    /\ Write(FlowMod(nextXid, c, f))
    /\ sent' = sent \union {nextXid}
    /\ op' = Call("send_flow_sync", "barrier", nextXid)
    /\ nextXid' = Fresh /\ calls' = calls + 1
    /\ UNCHANGED <<toClient, open, connected, last, broken, view, switch>>

(* The second write of send_flow_sync, after the first was awaited.        *)
SendBarrier ==
    /\ op.pc = "barrier"
    /\ Write(Msg("BarrierRequest", nextXid))
    /\ op' = [op EXCEPT !.pc = "recv"]
    /\ nextXid' = Fresh
    /\ UNCHANGED <<toClient, open, connected, last, broken, calls, sent, view, switch>>

(* The methods that write one request and then read.                       *)
RequestType(k) == CASE k = "barrier"       -> "BarrierRequest"
                    [] k = "echo"          -> "EchoRequest"
                    [] k = "dump_flows"    -> "FlowStatsRequest"
                    [] k = "monitor_flows" -> "FlowMonitorRequest"

SendRequest(k) ==
    /\ CanCall(k)
    /\ Write(Msg(RequestType(k), nextXid))
    /\ op' = Call(k, "recv", nextXid)
    /\ nextXid' = Fresh /\ calls' = calls + 1
    /\ UNCHANGED <<toClient, open, connected, last, broken, sent, view, switch>>

(* The methods that only read.                                             *)
StartReceive(k) ==
    /\ CanCall(k)
    /\ op' = Call(k, "recv", 0)
    /\ calls' = calls + 1
    /\ UNCHANGED <<wire, connected, nextXid, last, broken, sent, view, switch>>

-----------------------------------------------------------------------------
(* Client: reading one message.                                            *)

Receiving(kinds) == op.pc = "recv" /\ op.kind \in kinds /\ toClient # <<>>
Got     == Head(toClient)
Consume == toClient' = Tail(toClient)
ReadOnly == UNCHANGED <<toSwitch, open, nextXid, calls, sent, switch>>

RecvHello ==
    /\ Receiving({"connect"}) /\ Consume
    /\ IF Got.type = "Hello"
       THEN Return("Ok", NoDelta) /\ connected' = TRUE
       ELSE Return("Err", NoDelta) /\ UNCHANGED connected
    /\ ReadOnly

(* echo() takes the next message, whatever it is, for its answer.          *)
RecvEchoReply ==
    /\ Receiving({"echo"}) /\ Consume
    /\ Return(IF Got.type = "EchoReply" /\ Got.xid = op.xid THEN "Ok" ELSE "Err", NoDelta)
    /\ UNCHANGED connected /\ ReadOnly

(* Fault: the loop goes on after an error message.                         *)
RecvErrorIgnored ==
    /\ Receiving(Loops) /\ Got.type = "Error" /\ Consume
    /\ UNCHANGED <<connected, op, last, broken, view>> /\ ReadOnly

(* check_error in every receive loop.                                      *)
RecvError ==
    /\ Receiving(Loops) /\ Got.type = "Error" /\ Consume
    /\ Return("Err", NoDelta)
    /\ UNCHANGED connected /\ ReadOnly

RecvEchoRequest ==
    /\ Receiving(Loops) /\ Got.type = "EchoRequest" /\ Consume
    /\ op' = [op EXCEPT !.pc = "reply", !.echo = Got.xid]
    /\ UNCHANGED <<connected, last, broken, view>> /\ ReadOnly

(* Fault: every method returns once it has answered an echo.               *)
SendEchoReplyReturns ==
    /\ op.pc = "reply"
    /\ Write(Msg("EchoReply", op.echo))
    /\ Return("Ok", NoDelta)
    /\ UNCHANGED <<toClient, open, connected, nextXid, calls, sent, switch>>

(* Writing the echo reply; only try_recv_packet_in then returns.           *)
SendEchoReply ==
    /\ op.pc = "reply"
    /\ Write(Msg("EchoReply", op.echo))
    /\ IF op.kind = "try_recv_packet_in"
       THEN Return("Ok", NoDelta)
       ELSE op' = [op EXCEPT !.pc = "recv", !.echo = 0] /\ UNCHANGED <<last, broken, view>>
    /\ UNCHANGED <<toClient, open, connected, nextXid, calls, sent, switch>>

(* Fault: the xid of the reply is compared with the flow's, not the        *)
(* barrier's, and a reply with another xid skipped.                        *)
RecvBarrierReplyWrongXid ==
    /\ Receiving({"send_flow_sync", "barrier"}) /\ Got.type = "BarrierReply" /\ Consume
    /\ IF Got.xid = op.xid THEN Return("Ok", NoDelta) ELSE UNCHANGED <<op, last, broken, view>>
    /\ UNCHANGED connected /\ ReadOnly

(* The xid of the reply is not looked at.                                  *)
RecvBarrierReply ==
    /\ Receiving({"send_flow_sync", "barrier"}) /\ Got.type = "BarrierReply" /\ Consume
    /\ Return("Ok", NoDelta)
    /\ UNCHANGED connected /\ ReadOnly

(* Fault: the MORE flag is not looked at.                                  *)
RecvCollectedNoMore(k, mp) ==
    /\ Receiving({k}) /\ Got.type = "MultipartReply" /\ Consume
    /\ \/ Got.mp # mp /\ Return("Err", NoDelta)
       \/ Got.mp = mp /\ Return("Ok", Then(op.acc, Got.body))
    /\ UNCHANGED connected /\ ReadOnly

(* Fault: the last part ends the loop before it is collected.              *)
RecvCollectedButLast(k, mp) ==
    /\ Receiving({k}) /\ Got.type = "MultipartReply" /\ Consume
    /\ \/ Got.mp # mp /\ Return("Err", NoDelta)
       \/ Got.mp = mp /\ ~Got.more /\ Return("Ok", op.acc)
       \/ /\ Got.mp = mp /\ Got.more
          /\ op' = [op EXCEPT !.acc = Then(op.acc, Got.body)]
          /\ UNCHANGED <<last, broken, view>>
    /\ UNCHANGED connected /\ ReadOnly

(* A part of the wrong multipart type is a parse error; the parts are      *)
(* collected up to one without the MORE flag.                              *)
RecvCollected(k, mp) ==
    /\ Receiving({k}) /\ Got.type = "MultipartReply" /\ Consume
    /\ \/ Got.mp # mp /\ Return("Err", NoDelta)
       \/ Got.mp = mp /\ ~Got.more /\ Return("Ok", Then(op.acc, Got.body))
       \/ /\ Got.mp = mp /\ Got.more
          /\ op' = [op EXCEPT !.acc = Then(op.acc, Got.body)]
          /\ UNCHANGED <<last, broken, view>>
    /\ UNCHANGED connected /\ ReadOnly

(* recv_flow_updates returns the first part that carries an update and     *)
(* does not look at the MORE flag.                                         *)
RecvUpdates ==
    /\ Receiving({"recv_flow_updates"}) /\ Got.type = "MultipartReply" /\ Consume
    /\ \/ Got.mp # "Experimenter" /\ Return("Err", NoDelta)
       \/ Got.mp = "Experimenter" /\ Got.any /\ Return("Ok", Got.body)
       \/ Got.mp = "Experimenter" /\ ~Got.any /\ UNCHANGED <<op, last, broken, view>>
    /\ UNCHANGED connected /\ ReadOnly

RecvPacketIn ==
    /\ Receiving({"recv_packet_in", "try_recv_packet_in"}) /\ Got.type = "PacketIn" /\ Consume
    /\ Return("Ok", NoDelta)
    /\ UNCHANGED connected /\ ReadOnly

(* Any other message is dropped; try_recv_packet_in then returns Ok(None). *)
RecvOther ==
    /\ Receiving(Loops) /\ Got.type \notin Accepts(op.kind) /\ Consume
    /\ IF op.kind = "try_recv_packet_in"
       THEN Return("Ok", NoDelta)
       ELSE UNCHANGED <<op, last, broken, view>>
    /\ UNCHANGED connected /\ ReadOnly

(* The stream is closed: a read past its end, or a write, fails.           *)
StreamFails ==
    /\ op # Idle /\ ~open /\ (op.pc = "recv" => toClient = <<>>)
    /\ Return("Err", NoDelta)
    /\ UNCHANGED <<wire, connected, nextXid, calls, sent, switch>>

(* The caller drops the future (a timeout, a select) while it is pending.  *)
Drop ==
    /\ op.kind \in Droppable
    /\ Return("Dropped", NoDelta)
    /\ UNCHANGED <<wire, connected, nextXid, calls, sent, switch>>

-----------------------------------------------------------------------------
(* The switch (external): it handles the messages of one connection in     *)
(* order and writes what it has to say about one before the next.          *)

Handling(t) == open /\ toSwitch # <<>> /\ Head(toSwitch).type = t
Req    == Head(toSwitch)
Say(ms) == toSwitch' = Tail(toSwitch) /\ toClient' = toClient \o ms
Refuse  == Say(<<Msg("Error", Req.xid)>>)

(* A change of the table as the registered flow monitor reports it; the    *)
(* connection's own changes are abbreviated.                               *)
Notice(d) == IF monitoring THEN <<Part(0, "Experimenter", d, TRUE, FALSE)>> ELSE <<>>

(* The ways to report the flows in S, in one part or in two.               *)
Reports(x, mp, S) ==
    {<<Part(x, mp, [added |-> S, deleted |-> {}], S # {}, FALSE)>>} \union
    {<<Part(x, mp, [added |-> A, deleted |-> {}], TRUE, TRUE),
       Part(x, mp, [added |-> S \ A, deleted |-> {}], TRUE, FALSE)>> :
         A \in SUBSET S \ {{}, S}}

SwitchFlowMod ==
    /\ Handling("FlowMod")
    /\ \/ Refuse /\ UNCHANGED <<table, accepted>>
       \/ /\ table' = IF Req.cmd = "add" THEN table \union {Req.flow} ELSE table \ {Req.flow}
          /\ accepted' = accepted \union {Req.xid}
          /\ Say(IF table' # table THEN Notice(NoDelta) ELSE <<>>)
    /\ UNCHANGED <<open, monitoring, snaps, asked, answered, asyncs, changes, client>>

SwitchBarrier ==
    /\ Handling("BarrierRequest") /\ Say(<<Msg("BarrierReply", Req.xid)>>)
    /\ UNCHANGED <<open, switch, client>>

SwitchEcho ==
    /\ Handling("EchoRequest") /\ Say(<<Msg("EchoReply", Req.xid)>>)
    /\ UNCHANGED <<open, switch, client>>

SwitchEchoReply ==
    /\ Handling("EchoReply") /\ Say(<<>>)
    /\ answered' = answered \union {Req.xid}
    /\ UNCHANGED <<open, table, monitoring, accepted, snaps, asked, asyncs, changes, client>>

SwitchStats ==
    /\ Handling("FlowStatsRequest")
    /\ \/ Refuse /\ UNCHANGED snaps
       \/ /\ \E ms \in Reports(Req.xid, "Flow", table) : Say(ms)
          /\ snaps' = snaps \union {[xid |-> Req.xid, flows |-> table]}
    /\ UNCHANGED <<open, table, monitoring, accepted, asked, answered, asyncs, changes, client>>

(* A second monitor of the same id is refused.                             *)
SwitchMonitor ==
    /\ Handling("FlowMonitorRequest")
    /\ \/ Refuse /\ UNCHANGED monitoring
       \/ /\ ~monitoring /\ monitoring' = TRUE
          /\ \E ms \in Reports(Req.xid, "Experimenter", table) : Say(ms)
    /\ UNCHANGED <<open, table, accepted, snaps, asked, answered, asyncs, changes, client>>

SwitchOther ==
    /\ \/ Handling("Hello") /\ Say(<<>>)
       \/ Handling("PacketOut") /\ (Say(<<>>) \/ Refuse)
    /\ UNCHANGED <<open, switch, client>>

SwitchHandles ==
    \/ SwitchFlowMod \/ SwitchBarrier \/ SwitchEcho \/ SwitchEchoReply
    \/ SwitchStats \/ SwitchMonitor \/ SwitchOther

(* What the switch sends of its own accord, once it has said Hello.        *)
SwitchAsync(t) ==
    /\ open /\ asyncs < MaxAsync
    /\ toClient' = Append(toClient, Msg(t, asyncs % XidModulus))
    /\ asked' = IF t = "EchoRequest" THEN asked \union {asyncs % XidModulus} ELSE asked
    /\ asyncs' = asyncs + 1
    /\ UNCHANGED <<toSwitch, open, table, monitoring, accepted, snaps, answered, changes, client>>

OtherController(f) ==
    /\ changes < MaxChanges /\ changes' = changes + 1
    /\ \/ /\ f \notin table /\ table' = table \union {f}
          /\ toClient' = IF open THEN toClient \o Notice([added |-> {f}, deleted |-> {}])
                         ELSE toClient
       \/ /\ f \in table /\ table' = table \ {f}
          /\ toClient' = IF open THEN toClient \o Notice([added |-> {}, deleted |-> {f}])
                         ELSE toClient
    /\ UNCHANGED <<toSwitch, open, monitoring, accepted, snaps, asked, answered, asyncs, client>>

(* The switch goes away: what it has not read is lost, and of what it has  *)
(* written a prefix still arrives.                                         *)
Close ==
    /\ open /\ open' = FALSE
    /\ toSwitch' = <<>>
    /\ \E n \in 0 .. Len(toClient) : toClient' = SubSeq(toClient, 1, n)
    /\ UNCHANGED <<switch, client>>

-----------------------------------------------------------------------------
ClientCalls ==
    \/ Connect \/ SendPacketOut
    \/ \E f \in Flows, c \in {"add", "delete"} : SendFlow(c, f) \/ SendFlowSync(c, f)
    \/ \E k \in {"barrier", "echo", "dump_flows", "monitor_flows"} : SendRequest(k)
    \/ \E k \in Receives : StartReceive(k)

(* What polling the pending future may do.                                 *)
ClientSteps ==
    \/ SendBarrier \/ SendEchoReply \/ StreamFails
    \/ RecvHello \/ RecvEchoReply \/ RecvError \/ RecvEchoRequest \/ RecvBarrierReply
    \/ RecvCollected("dump_flows", "Flow") \/ RecvCollected("monitor_flows", "Experimenter")
    \/ RecvUpdates \/ RecvPacketIn \/ RecvOther

SwitchActs ==
    \/ SwitchHandles \/ Close
    \/ \E t \in {"EchoRequest", "PacketIn", "PortStatus"} : SwitchAsync(t)
    \/ \E f \in Flows : OtherController(f)

Next == ClientCalls \/ ClientSteps \/ Drop \/ SwitchActs

Spec == Init /\ [][Next]_vars

(* The runtime polls a future whose stream is ready, and the switch reads  *)
(* its stream.  Nothing forces the caller to call, nor the switch to speak.*)
FairSpec == Spec /\ WF_vars(ClientSteps) /\ WF_vars(SwitchHandles)

-----------------------------------------------------------------------------
(* Properties.                                                             *)

InFlight(q, t) == \E i \in DOMAIN q : q[i].type = t

(* Once send_flow_sync or barrier has returned Ok on a connection where no *)
(* method failed or was dropped, the switch has applied every flow the     *)
(* connection had sent by then, the ones send_flow sent included.  The     *)
(* code gets this without comparing xids, from the order of the replies.   *)
ConfirmedFlowsApplied ==
    last.kind \in {"send_flow_sync", "barrier"} /\ last.res = "Ok" /\ ~broken
        => last.sent \subseteq accepted

(* A dump_flows that returns Ok on such a connection returns what was in   *)
(* the table at one moment, when the switch served this very request:      *)
(* never parts of two answers, nor an answer to something else.            *)
DumpIsSnapshot ==
    last.kind = "dump_flows" /\ last.res = "Ok" /\ ~broken
        => [xid |-> last.xid, flows |-> last.body.added] \in snaps

(* No echo request of the switch is lost while methods succeed: it is      *)
(* unread, being answered, on its way back or answered.  OVS disconnects   *)
(* a controller that does not answer.                                      *)
EchoesAccounted ==
    open /\ ~broken =>
        \A x \in asked :
            \/ x \in answered
            \/ op.pc = "reply" /\ op.echo = x
            \/ \E i \in DOMAIN toClient : toClient[i] = Msg("EchoRequest", x)
            \/ \E i \in DOMAIN toSwitch : toSwitch[i] = Msg("EchoReply", x)

(* The view built from monitor_flows and recv_flow_updates, brought up to  *)
(* date with the parts collected and in flight, is the switch's table: no  *)
(* update is lost, doubled or reordered on a connection used for nothing   *)
(* else.  (monitor_flows and recv_flow_updates disagree about MORE.)       *)
Follow(S, m) == IF m.type = "MultipartReply" THEN Apply(S, m.body) ELSE S
MonitorFollowsTable ==
    open /\ monitoring /\ ~broken => FoldLeft(Follow, Apply(view, op.acc), toClient) = table

(* Between calls nothing is owed to the client: as long as methods succeed *)
(* no barrier, stats or echo answer, nor a request for one, outlives the   *)
(* method that asked, so the next method cannot take it for its own.  The  *)
(* exception is a second monitor_flows, which takes an update of the first *)
(* monitor for its snapshot and returns before the switch refuses it.      *)
NothingOwed ==
    op = Idle /\ connected /\ ~broken =>
        /\ \A t \in {"BarrierRequest", "EchoRequest", "FlowStatsRequest"} : ~InFlight(toSwitch, t)
        /\ InFlight(toSwitch, "FlowMonitorRequest") => monitoring
        /\ ~InFlight(toClient, "BarrierReply") /\ ~InFlight(toClient, "EchoReply")
        /\ \A i \in DOMAIN toClient :
               toClient[i].type = "MultipartReply" => toClient[i].mp # "Flow"

(* A method that asks the switch something returns, Ok or Err, if the      *)
(* switch keeps reading and the runtime keeps polling: its loop cannot     *)
(* wait for an answer it has skipped, or that is not coming.               *)
RequestsReturn ==
    \A k \in Requests \union {"connect", "echo"} : op.kind = k ~> op = Idle

(* What the doc of send_flow_sync says: it "ensures the flow is installed  *)
(* (or rejected) before returning" and a rejection "will be returned".     *)
SyncEnsuresInstalled ==
    last.kind = "send_flow_sync" /\ last.res = "Ok" => last.xid \in accepted
=============================================================================
