---------------------------- MODULE VConnProofs ----------------------------
(* Theorems about VConn, for every set of flows, choice of methods, xid    *)
(* width and bound.                                                        *)
EXTENDS VConn, TLAPS

-----------------------------------------------------------------------------
(* What the records the actions build belong to.                           *)

LEMMA XidType ==
    /\ 0 \in Xid /\ 1 \in Xid
    /\ \A n \in Nat : n % XidModulus \in Xid
    /\ \A x \in Xid : (x + 1) % XidModulus \in Xid
  BY BoundsAssumption DEF Xid

LEMMA DeltaType ==
    /\ NoDelta \in Delta
    /\ \A d, e \in Delta : Then(d, e) \in Delta
    /\ \A d \in Delta, S \in SUBSET Flows : Apply(S, d) \subseteq Flows
    /\ \A A, D \in SUBSET Flows : [added |-> A, deleted |-> D] \in Delta
  BY DEF NoDelta, Delta, Then, Apply

LEMMA ClientMsgType ==
    \A x \in Xid :
        /\ \A t \in {"Hello", "BarrierRequest", "EchoRequest", "EchoReply",
                     "FlowStatsRequest", "FlowMonitorRequest", "PacketOut"} :
               Msg(t, x) \in ClientMsg
        /\ \A c \in {"add", "delete"}, f \in Flows : FlowMod(x, c, f) \in ClientMsg
  BY DEF ClientMsg, Msg, FlowMod

LEMMA SwitchMsgType ==
    \A x \in Xid :
        /\ \A t \in {"Hello", "Error", "BarrierReply", "EchoRequest", "EchoReply",
                     "PacketIn", "PortStatus"} : Msg(t, x) \in SwitchMsg
        /\ \A k \in {"Flow", "Experimenter"}, d \in Delta, a, m \in BOOLEAN :
               Part(x, k, d, a, m) \in SwitchMsg
  BY DEF SwitchMsg, Msg, Part

LEMMA ReadType ==
    ASSUME TypeOK, toClient # <<>>
    PROVE  /\ Got \in SwitchMsg /\ Got.xid \in Xid
           /\ Got.type = "MultipartReply" => Got.body \in Delta
           /\ Tail(toClient) \in Seq(SwitchMsg)
  BY DEF TypeOK, Got, SwitchMsg

LEMMA ReqType ==
    ASSUME TypeOK, toSwitch # <<>>
    PROVE  /\ Req \in ClientMsg /\ Req.xid \in Xid
           /\ Req.type = "FlowMod" => Req.flow \in Flows
           /\ Tail(toSwitch) \in Seq(ClientMsg)
  BY DEF TypeOK, Req, ClientMsg

LEMMA WriteType ==
    ASSUME TypeOK, NEW m \in ClientMsg, Write(m)
    PROVE  toSwitch' \in Seq(ClientMsg)
  BY DEF TypeOK, Write

LEMMA CallType ==
    ASSUME NEW k \in Methods, NEW p \in {"barrier", "recv"}, NEW x \in Xid
    PROVE  Call(k, p, x) \in Pending
  BY XidType, DeltaType DEF Call, Pending

LEMMA ReturnType ==
    ASSUME TypeOK, NEW r \in {"Ok", "Err", "Dropped"}, NEW b \in Delta, Return(r, b)
    PROVE  op' \in Pending /\ last' \in Outcome /\ broken' \in BOOLEAN /\ view' \subseteq Flows
<1>1. op' \in Pending
  BY XidType, DeltaType DEF Return, Idle, Pending
<1>2. last' \in Outcome
  BY DEF TypeOK, Return, Pending, Outcome
<1>3. view' \subseteq Flows
  BY DeltaType DEF TypeOK, Return
<1> QED
  BY <1>1, <1>2, <1>3 DEF Return, TypeOK

LEMMA ShortSeq ==
    ASSUME NEW S
    PROVE  /\ <<>> \in Seq(S)
           /\ \A x \in S : <<x>> \in Seq(S)
           /\ \A x, y \in S : <<x, y>> \in Seq(S)
  OBVIOUS

LEMMA ReportsType ==
    ASSUME NEW x \in Xid, NEW k \in {"Flow", "Experimenter"}, NEW S \in SUBSET Flows,
           NEW ms \in Reports(x, k, S)
    PROVE  ms \in Seq(SwitchMsg)
<1> DEFINE D(A) == [added |-> A, deleted |-> {}]
<1>1. \A A \in SUBSET S, a, m \in BOOLEAN : Part(x, k, D(A), a, m) \in SwitchMsg
  BY DeltaType, SwitchMsgType
<1>2. CASE ms = <<Part(x, k, D(S), S # {}, FALSE)>>
  <2>1. Part(x, k, D(S), S # {}, FALSE) \in SwitchMsg
    BY <1>1
  <2> QED
    BY <1>2, <2>1, ShortSeq
<1>3. ASSUME NEW A \in SUBSET S, ms = <<Part(x, k, D(A), TRUE, TRUE), Part(x, k, D(S \ A), TRUE, FALSE)>>
      PROVE  ms \in Seq(SwitchMsg)
  <2>1. Part(x, k, D(A), TRUE, TRUE) \in SwitchMsg /\ Part(x, k, D(S \ A), TRUE, FALSE) \in SwitchMsg
    BY <1>1
  <2> QED
    BY <1>3, <2>1, ShortSeq
<1> QED
  BY <1>2, <1>3 DEF Reports

LEMMA NoticeType ==
    ASSUME NEW d \in Delta
    PROVE  Notice(d) \in Seq(SwitchMsg)
<1>1. Part(0, "Experimenter", d, TRUE, FALSE) \in SwitchMsg
  BY XidType, SwitchMsgType
<1> QED
  BY <1>1, ShortSeq DEF Notice

-----------------------------------------------------------------------------
(* Every variable keeps its type.                                          *)
LEMMA TypeInit == Init => TypeOK
<1> SUFFICES ASSUME Init PROVE TypeOK
  OBVIOUS
<1>1. toClient \in Seq(SwitchMsg) /\ toSwitch \in Seq(ClientMsg)
  BY XidType, SwitchMsgType DEF Init
<1>2. op \in Pending
  BY XidType, DeltaType DEF Init, Idle, Pending
<1>3. last \in Outcome
  BY XidType, DeltaType DEF Init, Outcome
<1> QED
  BY <1>1, <1>2, <1>3, XidType DEF Init, TypeOK

LEMMA TypeNext == TypeOK /\ [Next]_vars => TypeOK'
<1> SUFFICES ASSUME TypeOK, [Next]_vars PROVE TypeOK'
  OBVIOUS
<1>a. Fresh \in Xid /\ nextXid \in Xid
  BY XidType DEF TypeOK, Fresh
(* Frames: what most client steps and most switch steps leave alone.       *)
<1>f. ASSUME toSwitch' \in Seq(ClientMsg), toClient' \in Seq(SwitchMsg), open' \in BOOLEAN,
             connected' \in BOOLEAN, nextXid' \in Xid, op' \in Pending, last' \in Outcome,
             broken' \in BOOLEAN, calls' \in Nat, sent' \subseteq Xid, view' \subseteq Flows,
             UNCHANGED switch
      PROVE  TypeOK'
  BY <1>f DEF TypeOK, switch
<1>g. ASSUME toSwitch' \in Seq(ClientMsg), toClient' \in Seq(SwitchMsg), open' \in BOOLEAN,
             table' \subseteq Flows, monitoring' \in BOOLEAN, accepted' \subseteq Xid,
             snaps' \subseteq [xid : Xid, flows : SUBSET Flows], asked' \subseteq Xid,
             answered' \subseteq Xid, asyncs' \in Nat, changes' \in Nat, UNCHANGED client
      PROVE  TypeOK'
  BY <1>g DEF TypeOK, client
<1>1. CASE Connect
  <2>1. toSwitch' \in Seq(ClientMsg)
    BY <1>1, <1>a, WriteType, ClientMsgType DEF Connect
  <2>2. op' \in Pending
    BY <1>1, <1>a, CallType DEF Connect, Methods
  <2> QED
    BY <1>1, <1>a, <1>f, <2>1, <2>2 DEF Connect, TypeOK
<1>2. ASSUME NEW k \in FireAndForget, NEW m \in ClientMsg, SendAndReturn(k, m), sent' \subseteq Xid
      PROVE  TypeOK'
  <2>1. toSwitch' \in Seq(ClientMsg)
    BY <1>2, WriteType DEF SendAndReturn
  <2>2. last' \in Outcome /\ broken' \in BOOLEAN
    BY <1>2, <1>a, DeltaType DEF SendAndReturn, Outcome, Methods
  <2> QED
    BY <1>2, <1>a, <1>f, <2>1, <2>2 DEF SendAndReturn, TypeOK
<1>3. CASE SendPacketOut
  <2>1. sent' \subseteq Xid
    BY <1>3 DEF SendPacketOut, TypeOK
  <2> QED
    BY <1>3, <1>2, <1>a, <2>1, ClientMsgType DEF SendPacketOut, FireAndForget
<1>4. ASSUME NEW f \in Flows, NEW c \in {"add", "delete"}, SendFlow(c, f)
      PROVE  TypeOK'
  <2>1. sent' \subseteq Xid
    BY <1>4, <1>a DEF SendFlow, TypeOK
  <2> QED
    BY <1>4, <1>2, <1>a, <2>1, ClientMsgType DEF SendFlow, FireAndForget
<1>5. ASSUME NEW f \in Flows, NEW c \in {"add", "delete"}, SendFlowSync(c, f)
      PROVE  TypeOK'
  <2>1. toSwitch' \in Seq(ClientMsg)
    BY <1>5, <1>a, WriteType, ClientMsgType DEF SendFlowSync
  <2>2. op' \in Pending
    BY <1>5, <1>a, CallType DEF SendFlowSync, Methods, Loops, Requests
  <2> QED
    BY <1>5, <1>a, <1>f, <2>1, <2>2 DEF SendFlowSync, TypeOK
<1>6. ASSUME NEW k \in {"barrier", "echo", "dump_flows", "monitor_flows"}, SendRequest(k)
      PROVE  TypeOK'
  <2>1. toSwitch' \in Seq(ClientMsg)
    BY <1>6, <1>a, WriteType, ClientMsgType DEF SendRequest, RequestType
  <2>2. op' \in Pending
    BY <1>6, <1>a, CallType DEF SendRequest, Methods, Loops, Requests
  <2> QED
    BY <1>6, <1>a, <1>f, <2>1, <2>2 DEF SendRequest, TypeOK
<1>7. ASSUME NEW k \in Receives, StartReceive(k)
      PROVE  TypeOK'
  <2>1. op' \in Pending
    BY <1>7, XidType, CallType DEF StartReceive, Methods, Loops
  <2> QED
    BY <1>7, <1>f, <2>1 DEF StartReceive, TypeOK, wire
<1>8. CASE SendBarrier
  <2>1. toSwitch' \in Seq(ClientMsg)
    BY <1>8, <1>a, WriteType, ClientMsgType DEF SendBarrier
  <2>2. op' \in Pending
    BY <1>8 DEF SendBarrier, TypeOK, Pending
  <2> QED
    BY <1>8, <1>a, <1>f, <2>1, <2>2 DEF SendBarrier, TypeOK
<1>9. CASE SendEchoReply
  <2>1. toSwitch' \in Seq(ClientMsg)
    <3>1. Msg("EchoReply", op.echo) \in ClientMsg
      BY ClientMsgType DEF TypeOK, Pending
    <3> QED
      BY <1>9, <3>1, WriteType DEF SendEchoReply
  <2>2. op' \in Pending /\ last' \in Outcome /\ broken' \in BOOLEAN /\ view' \subseteq Flows
    <3>1. CASE op.kind = "try_recv_packet_in"
      BY <1>9, <3>1, ReturnType, DeltaType DEF SendEchoReply
    <3>2. CASE op.kind # "try_recv_packet_in"
      BY <1>9, <3>2, XidType DEF SendEchoReply, TypeOK, Pending
    <3> QED
      BY <3>1, <3>2
  <2> QED
    BY <1>9, <1>f, <2>1, <2>2 DEF SendEchoReply, TypeOK
(* A step that reads a message either returns or keeps the future pending. *)
<1>r. ASSUME NEW r \in {"Ok", "Err", "Dropped"}, NEW b \in Delta, Return(r, b),
             toClient' \in Seq(SwitchMsg), connected' \in BOOLEAN, ReadOnly
      PROVE  TypeOK'
  BY <1>r, <1>f, ReturnType DEF ReadOnly, TypeOK
<1>p. ASSUME op' \in Pending, UNCHANGED <<connected, last, broken, view>>,
             toClient' \in Seq(SwitchMsg), ReadOnly
      PROVE  TypeOK'
  BY <1>p, <1>f DEF ReadOnly, TypeOK
<1>c. ASSUME toClient # <<>>, Consume PROVE toClient' \in Seq(SwitchMsg)
  BY <1>c, ReadType DEF Consume
<1>10. CASE RecvHello
  BY <1>10, <1>r, <1>c, DeltaType DEF RecvHello, Receiving, TypeOK
<1>11. CASE RecvEchoReply
  BY <1>11, <1>r, <1>c, DeltaType DEF RecvEchoReply, Receiving, TypeOK
<1>12. CASE RecvError
  BY <1>12, <1>r, <1>c, DeltaType DEF RecvError, Receiving, TypeOK
<1>13. CASE RecvEchoRequest
  <2>1. op' \in Pending
    BY <1>13, ReadType DEF RecvEchoRequest, Receiving, TypeOK, Pending
  <2> QED
    BY <1>13, <1>p, <1>c, <2>1 DEF RecvEchoRequest, Receiving
<1>14. CASE RecvBarrierReply
  BY <1>14, <1>r, <1>c, DeltaType DEF RecvBarrierReply, Receiving, TypeOK
<1>15. ASSUME NEW k \in Methods, NEW mp \in {"Flow", "Experimenter"}, RecvCollected(k, mp)
       PROVE  TypeOK'
  <2>1. Then(op.acc, Got.body) \in Delta
    BY <1>15, ReadType, DeltaType DEF RecvCollected, Receiving, TypeOK, Pending
  <2>2. CASE Return("Err", NoDelta) \/ Return("Ok", Then(op.acc, Got.body))
    BY <1>15, <2>1, <2>2, <1>r, <1>c, DeltaType DEF RecvCollected, Receiving, TypeOK
  <2>3. CASE op' = [op EXCEPT !.acc = Then(op.acc, Got.body)] /\ UNCHANGED <<last, broken, view>>
    <3>1. op' \in Pending
      BY <2>1, <2>3 DEF TypeOK, Pending
    <3> QED
      BY <1>15, <2>3, <3>1, <1>p, <1>c DEF RecvCollected, Receiving
  <2> QED
    BY <1>15, <2>2, <2>3 DEF RecvCollected
<1>16. CASE RecvUpdates
  <2>1. CASE Return("Err", NoDelta) \/ Return("Ok", Got.body)
    BY <1>16, <2>1, <1>r, <1>c, ReadType, DeltaType DEF RecvUpdates, Receiving, TypeOK
  <2>2. CASE UNCHANGED <<op, last, broken, view>>
    BY <1>16, <2>2, <1>p, <1>c DEF RecvUpdates, Receiving, TypeOK
  <2> QED
    BY <1>16, <2>1, <2>2 DEF RecvUpdates
<1>17. CASE RecvPacketIn
  BY <1>17, <1>r, <1>c, DeltaType DEF RecvPacketIn, Receiving, TypeOK
<1>18. CASE RecvOther
  BY <1>18, <1>r, <1>p, <1>c, DeltaType DEF RecvOther, Receiving, TypeOK
<1>19. CASE StreamFails \/ Drop
  <2>1. op' \in Pending /\ last' \in Outcome /\ broken' \in BOOLEAN /\ view' \subseteq Flows
    BY <1>19, ReturnType, DeltaType DEF StreamFails, Drop
  <2> QED
    BY <1>19, <2>1, <1>f DEF StreamFails, Drop, TypeOK, wire
(* What the switch says is well typed, and so are the streams after it.    *)
<1>s. ASSUME toSwitch # <<>>, NEW ms \in Seq(SwitchMsg), Say(ms)
      PROVE  toSwitch' \in Seq(ClientMsg) /\ toClient' \in Seq(SwitchMsg)
  BY <1>s, ReqType DEF Say, TypeOK
<1>e. ASSUME toSwitch # <<>>, Refuse
      PROVE  toSwitch' \in Seq(ClientMsg) /\ toClient' \in Seq(SwitchMsg)
  BY <1>e, <1>s, ReqType, SwitchMsgType, ShortSeq DEF Refuse
<1>20. CASE SwitchFlowMod
  <2>1. CASE Refuse /\ UNCHANGED <<table, accepted>>
    BY <1>20, <2>1, <1>e, <1>g DEF SwitchFlowMod, Handling, TypeOK
  <2>2. CASE ~ (Refuse /\ UNCHANGED <<table, accepted>>)
    <3>1. Notice(NoDelta) \in Seq(SwitchMsg) /\ <<>> \in Seq(SwitchMsg)
      BY NoticeType, DeltaType, ShortSeq
    <3>2. toSwitch' \in Seq(ClientMsg) /\ toClient' \in Seq(SwitchMsg)
      BY <1>20, <2>2, <3>1, <1>s DEF SwitchFlowMod, Handling
    <3>3. table' \subseteq Flows /\ accepted' \subseteq Xid
      BY <1>20, <2>2, ReqType DEF SwitchFlowMod, Handling, TypeOK, Req
    <3> QED
      BY <1>20, <3>2, <3>3, <1>g DEF SwitchFlowMod, TypeOK
  <2> QED
    BY <1>20, <2>1, <2>2 DEF SwitchFlowMod
<1>21. CASE SwitchBarrier \/ SwitchEcho
  BY <1>21, <1>s, <1>f, ReqType, SwitchMsgType, ShortSeq
     DEF SwitchBarrier, SwitchEcho, Handling, TypeOK, client
<1>22. CASE SwitchEchoReply
  BY <1>22, <1>s, <1>g, ReqType, ShortSeq DEF SwitchEchoReply, Handling, TypeOK
<1>23. CASE SwitchStats
  <2>1. CASE Refuse /\ UNCHANGED snaps
    BY <1>23, <2>1, <1>e, <1>g DEF SwitchStats, Handling, TypeOK
  <2>2. ASSUME NEW ms \in Reports(Req.xid, "Flow", table), Say(ms),
               snaps' = snaps \union {[xid |-> Req.xid, flows |-> table]}
        PROVE  TypeOK'
    <3>1. ms \in Seq(SwitchMsg)
      BY <1>23, ReportsType, ReqType DEF SwitchStats, Handling, TypeOK
    <3>2. snaps' \subseteq [xid : Xid, flows : SUBSET Flows]
      BY <1>23, <2>2, ReqType DEF SwitchStats, Handling, TypeOK
    <3> QED
      BY <1>23, <2>2, <3>1, <3>2, <1>s, <1>g DEF SwitchStats, Handling, TypeOK
  <2> QED
    BY <1>23, <2>1, <2>2 DEF SwitchStats
<1>24. CASE SwitchMonitor
  <2>1. CASE Refuse /\ UNCHANGED monitoring
    BY <1>24, <2>1, <1>e, <1>g DEF SwitchMonitor, Handling, TypeOK
  <2>2. ASSUME NEW ms \in Reports(Req.xid, "Experimenter", table), Say(ms), monitoring' = TRUE
        PROVE  TypeOK'
    <3>1. ms \in Seq(SwitchMsg)
      BY <1>24, ReportsType, ReqType DEF SwitchMonitor, Handling, TypeOK
    <3> QED
      BY <1>24, <2>2, <3>1, <1>s, <1>g DEF SwitchMonitor, Handling, TypeOK
  <2> QED
    BY <1>24, <2>1, <2>2 DEF SwitchMonitor
<1>25. CASE SwitchOther
  BY <1>25, <1>s, <1>e, <1>f, ShortSeq DEF SwitchOther, Handling, TypeOK, client
<1>26. ASSUME NEW t \in {"EchoRequest", "PacketIn", "PortStatus"}, SwitchAsync(t)
       PROVE  TypeOK'
  <2>1. asyncs % XidModulus \in Xid
    BY XidType DEF TypeOK
  <2>2. toClient' \in Seq(SwitchMsg)
    BY <1>26, <2>1, SwitchMsgType DEF SwitchAsync, TypeOK
  <2> QED
    BY <1>26, <2>1, <2>2, <1>g DEF SwitchAsync, TypeOK
<1>27. ASSUME NEW f \in Flows, OtherController(f)
       PROVE  TypeOK'
  <2>1. /\ Notice([added |-> {f}, deleted |-> {}]) \in Seq(SwitchMsg)
        /\ Notice([added |-> {}, deleted |-> {f}]) \in Seq(SwitchMsg)
    BY NoticeType, DeltaType
  <2>2. toClient' \in Seq(SwitchMsg)
    <3>1. \A ms \in Seq(SwitchMsg) : toClient \o ms \in Seq(SwitchMsg)
      BY DEF TypeOK
    <3> QED
      BY <1>27, <2>1, <3>1 DEF OtherController, TypeOK
  <2> QED
    BY <1>27, <2>2, <1>g DEF OtherController, TypeOK
<1>28. CASE Close
  <2>1. toClient' \in Seq(SwitchMsg) /\ toSwitch' \in Seq(ClientMsg)
    BY <1>28, ShortSeq DEF Close, TypeOK
  <2> QED
    BY <1>28, <2>1, <1>f DEF Close, TypeOK, client
<1>29. CASE UNCHANGED vars
  BY <1>29 DEF vars, wire, client, switch, TypeOK
<1> QED
  BY <1>1, <1>3, <1>4, <1>5, <1>6, <1>7, <1>8, <1>9, <1>10, <1>11, <1>12, <1>13, <1>14, <1>15,
     <1>16, <1>17, <1>18, <1>19, <1>20, <1>21, <1>22, <1>23, <1>24, <1>25, <1>26, <1>27, <1>28, <1>29
     DEF Next, ClientCalls, ClientSteps, SwitchActs, SwitchHandles, Methods, Loops, Requests

(* Type correctness of the connection.                                     *)
THEOREM TypeCorrect == Spec => []TypeOK
  BY TypeInit, TypeNext, PTL DEF Spec

-----------------------------------------------------------------------------
(* The inductive invariant behind ConfirmedFlowsApplied.  The code matches *)
(* a barrier reply by its type alone; the order of the two streams and the *)
(* fact that at most one barrier is unanswered make that enough.           *)

AwaitingBarrier == op.kind \in {"send_flow_sync", "barrier"} /\ op.pc \in {"recv", "reply"}

(* A barrier request in flight is the pending method's, the only one, and  *)
(* behind every flow sent.                                                 *)
RequestAwaited ==
    \A i \in DOMAIN toSwitch : toSwitch[i].type = "BarrierRequest" =>
        /\ AwaitingBarrier
        /\ \A j \in DOMAIN toSwitch :
               j > i => toSwitch[j].type \notin {"FlowMod", "BarrierRequest"}

(* So is a barrier reply; it says that every flow sent was applied, unless *)
(* an error message is ahead of it.                                        *)
ReplyAwaited ==
    \A i \in DOMAIN toClient : toClient[i].type = "BarrierReply" =>
        /\ AwaitingBarrier
        /\ ~InFlight(toSwitch, "BarrierRequest")
        /\ \A j \in DOMAIN toClient : j > i => toClient[j].type # "BarrierReply"
        /\ \/ sent \subseteq accepted
           \/ \E e \in DOMAIN toClient : e < i /\ toClient[e].type = "Error"

(* A flow sent is applied or still in flight, or an error message is.      *)
Unhandled(x) == \E i \in DOMAIN toSwitch : toSwitch[i].type = "FlowMod" /\ toSwitch[i].xid = x
FlowsAccounted ==
    \/ ~open
    \/ \A x \in sent : x \in accepted \/ Unhandled(x)
    \/ InFlight(toClient, "Error")

BarrierInv == RequestAwaited /\ ReplyAwaited /\ FlowsAccounted

(* Only send_flow_sync has a second request to write.                      *)
SecondWrite == op.pc = "barrier" => op.kind = "send_flow_sync"

IInv == TypeOK /\ SecondWrite /\ ConfirmedFlowsApplied /\ (~broken => BarrierInv)

(* Sequence facts the steps below use.                                     *)
LEMMA AppendFacts ==
    ASSUME NEW S, NEW q \in Seq(S), NEW m \in S, NEW r, r = Append(q, m)
    PROVE  /\ r \in Seq(S) /\ DOMAIN r = 1 .. Len(q) + 1 /\ DOMAIN q = 1 .. Len(q)
           /\ \A i \in DOMAIN q : r[i] = q[i] /\ i <= Len(q)
           /\ r[Len(q) + 1] = m /\ Len(q) \in Nat
  OBVIOUS

LEMMA TailFacts ==
    ASSUME NEW S, NEW q \in Seq(S), q # <<>>, NEW r, r = Tail(q)
    PROVE  /\ r \in Seq(S)
           /\ DOMAIN q = 1 .. Len(q) /\ DOMAIN r = 1 .. Len(q) - 1 /\ Len(q) \in Nat
           /\ 1 \in DOMAIN q /\ Head(q) = q[1]
           /\ \A i \in DOMAIN r : i + 1 \in DOMAIN q /\ r[i] = q[i + 1]
           /\ \A i \in DOMAIN q : i # 1 => i - 1 \in DOMAIN r /\ r[i - 1] = q[i]
  OBVIOUS

LEMMA ConcatFacts ==
    ASSUME NEW S, NEW q \in Seq(S), NEW p \in Seq(S), NEW r, r = q \o p
    PROVE  /\ r \in Seq(S) /\ DOMAIN q = 1 .. Len(q) /\ DOMAIN r = 1 .. Len(q) + Len(p)
           /\ DOMAIN p = 1 .. Len(p) /\ Len(q) \in Nat /\ Len(p) \in Nat
           /\ \A i \in DOMAIN q : i \in DOMAIN r /\ r[i] = q[i]
           /\ \A i \in DOMAIN p : Len(q) + i \in DOMAIN r /\ r[Len(q) + i] = p[i]
           /\ \A i \in DOMAIN r : i \notin DOMAIN q => i - Len(q) \in DOMAIN p /\ r[i] = p[i - Len(q)]
  OBVIOUS

-----------------------------------------------------------------------------
(* The effects of the steps on the barrier invariant.                      *)

LEMMA WritePlain ==
    ASSUME TypeOK, BarrierInv, NEW m \in ClientMsg, m.type \notin {"FlowMod", "BarrierRequest"},
           Write(m), AwaitingBarrier => AwaitingBarrier',
           UNCHANGED <<toClient, open, sent, accepted>>
    PROVE  BarrierInv'
<1>1. CASE ~open
  BY <1>1 DEF Write, BarrierInv, RequestAwaited, ReplyAwaited, FlowsAccounted, InFlight
<1>2. CASE open
  <2>1. /\ DOMAIN toSwitch' = 1 .. Len(toSwitch) + 1 /\ DOMAIN toSwitch = 1 .. Len(toSwitch)
        /\ \A i \in DOMAIN toSwitch : toSwitch'[i] = toSwitch[i] /\ i <= Len(toSwitch)
        /\ toSwitch'[Len(toSwitch) + 1] = m /\ Len(toSwitch) \in Nat
    BY <1>2, AppendFacts DEF Write, TypeOK
  <2>2. RequestAwaited'
    BY <2>1 DEF BarrierInv, RequestAwaited
  <2>3. ReplyAwaited'
    BY <2>1 DEF BarrierInv, ReplyAwaited, InFlight
  <2>4. FlowsAccounted'
    BY <2>1 DEF BarrierInv, FlowsAccounted, InFlight, Unhandled
  <2> QED
    BY <2>2, <2>3, <2>4 DEF BarrierInv
<1> QED
  BY <1>1, <1>2 DEF TypeOK

LEMMA WriteFlow ==
    ASSUME TypeOK, BarrierInv, op = Idle, NEW m \in ClientMsg, m.type = "FlowMod",
           Write(m), sent' = sent \union {m.xid}, UNCHANGED <<toClient, open, accepted>>
    PROVE  BarrierInv'
<1>0. ~AwaitingBarrier
  BY DEF AwaitingBarrier, Idle
<1>1. ~InFlight(toSwitch, "BarrierRequest") /\ ~InFlight(toClient, "BarrierReply")
  BY <1>0 DEF BarrierInv, RequestAwaited, ReplyAwaited, InFlight
<1>2. CASE ~open
  BY <1>1, <1>2 DEF Write, BarrierInv, RequestAwaited, ReplyAwaited, FlowsAccounted, InFlight
<1>3. CASE open
  <2>1. /\ DOMAIN toSwitch' = 1 .. Len(toSwitch) + 1 /\ DOMAIN toSwitch = 1 .. Len(toSwitch)
        /\ \A i \in DOMAIN toSwitch : toSwitch'[i] = toSwitch[i] /\ i <= Len(toSwitch)
        /\ toSwitch'[Len(toSwitch) + 1] = m /\ Len(toSwitch) \in Nat
    BY <1>3, AppendFacts DEF Write, TypeOK
  <2>2. RequestAwaited' /\ ReplyAwaited'
    BY <1>1, <2>1 DEF RequestAwaited, ReplyAwaited, InFlight
  <2>4. FlowsAccounted'
    BY <2>1 DEF BarrierInv, FlowsAccounted, InFlight, Unhandled
  <2> QED
    BY <2>2, <2>4 DEF BarrierInv
<1> QED
  BY <1>2, <1>3 DEF TypeOK

LEMMA WriteBarrier ==
    ASSUME TypeOK, BarrierInv, ~AwaitingBarrier, AwaitingBarrier', NEW m \in ClientMsg,
           m.type = "BarrierRequest", Write(m), UNCHANGED <<toClient, open, sent, accepted>>
    PROVE  BarrierInv'
<1>1. ~InFlight(toSwitch, "BarrierRequest") /\ ~InFlight(toClient, "BarrierReply")
  BY DEF BarrierInv, RequestAwaited, ReplyAwaited, InFlight
<1>2. CASE ~open
  BY <1>1, <1>2 DEF Write, BarrierInv, RequestAwaited, ReplyAwaited, FlowsAccounted, InFlight
<1>3. CASE open
  <2>1. /\ DOMAIN toSwitch' = 1 .. Len(toSwitch) + 1 /\ DOMAIN toSwitch = 1 .. Len(toSwitch)
        /\ \A i \in DOMAIN toSwitch : toSwitch'[i] = toSwitch[i] /\ i <= Len(toSwitch)
        /\ toSwitch'[Len(toSwitch) + 1] = m /\ Len(toSwitch) \in Nat
    BY <1>3, AppendFacts DEF Write, TypeOK
  <2>2. RequestAwaited' /\ ReplyAwaited'
    BY <1>1, <2>1 DEF RequestAwaited, ReplyAwaited, InFlight
  <2>4. FlowsAccounted'
    BY <2>1 DEF BarrierInv, FlowsAccounted, InFlight, Unhandled
  <2> QED
    BY <2>2, <2>4 DEF BarrierInv
<1> QED
  BY <1>2, <1>3 DEF TypeOK

LEMMA ReadPlain ==
    ASSUME TypeOK, BarrierInv, toClient # <<>>, Consume, Got.type \notin {"Error", "BarrierReply"},
           AwaitingBarrier => AwaitingBarrier', UNCHANGED <<toSwitch, open, sent, accepted>>
    PROVE  BarrierInv'
<1>1. /\ DOMAIN toClient' \subseteq Int /\ DOMAIN toClient \subseteq Int
      /\ 1 \in DOMAIN toClient /\ Got = toClient[1]
      /\ \A i \in DOMAIN toClient' : i + 1 \in DOMAIN toClient /\ toClient'[i] = toClient[i + 1]
      /\ \A i \in DOMAIN toClient : i # 1 => i - 1 \in DOMAIN toClient' /\ toClient'[i - 1] = toClient[i]
  BY TailFacts DEF Consume, TypeOK, Got
<1>2. RequestAwaited'
  BY DEF BarrierInv, RequestAwaited
<1>3. ReplyAwaited'
  <2> SUFFICES ASSUME NEW i \in DOMAIN toClient', toClient'[i].type = "BarrierReply"
               PROVE  /\ AwaitingBarrier'
                      /\ ~InFlight(toSwitch', "BarrierRequest")
                      /\ \A j \in DOMAIN toClient' : j > i => toClient'[j].type # "BarrierReply"
                      /\ \/ sent' \subseteq accepted'
                         \/ \E e \in DOMAIN toClient' : e < i /\ toClient'[e].type = "Error"
    BY DEF ReplyAwaited, InFlight
  <2>1. i + 1 \in DOMAIN toClient /\ toClient[i + 1].type = "BarrierReply"
    BY <1>1
  <2>2. AwaitingBarrier' /\ ~InFlight(toSwitch', "BarrierRequest")
    BY <2>1 DEF BarrierInv, ReplyAwaited, InFlight
  <2>3. \A j \in DOMAIN toClient' : j > i => toClient'[j].type # "BarrierReply"
    BY <1>1, <2>1 DEF BarrierInv, ReplyAwaited
  <2>4. ASSUME NEW e \in DOMAIN toClient, e < i + 1, toClient[e].type = "Error"
        PROVE  \E f \in DOMAIN toClient' : f < i /\ toClient'[f].type = "Error"
    <3>1. e # 1
      BY <1>1, <2>4
    <3>2. e - 1 \in DOMAIN toClient' /\ toClient'[e - 1].type = "Error" /\ e - 1 < i
      BY <1>1, <2>4, <3>1
    <3> QED
      BY <3>2
  <2> QED
    BY <2>1, <2>2, <2>3, <2>4 DEF BarrierInv, ReplyAwaited
<1>4. FlowsAccounted'
  <2>1. InFlight(toClient, "Error") => InFlight(toClient', "Error")
    BY <1>1 DEF InFlight
  <2> QED
    BY <2>1 DEF BarrierInv, FlowsAccounted, InFlight, Unhandled
<1> QED
  BY <1>2, <1>3, <1>4 DEF BarrierInv

LEMMA ReadBarrier ==
    ASSUME TypeOK, BarrierInv, toClient # <<>>, Consume, Got.type = "BarrierReply",
           UNCHANGED <<toSwitch, open, sent, accepted>>
    PROVE  BarrierInv' /\ sent \subseteq accepted
<1>1. /\ DOMAIN toClient' = 1 .. Len(toClient) - 1 /\ DOMAIN toClient = 1 .. Len(toClient)
      /\ 1 \in DOMAIN toClient /\ Got = toClient[1] /\ Len(toClient) \in Nat
      /\ \A i \in DOMAIN toClient' : i + 1 \in DOMAIN toClient /\ toClient'[i] = toClient[i + 1]
      /\ \A i \in DOMAIN toClient : i # 1 => i - 1 \in DOMAIN toClient' /\ toClient'[i - 1] = toClient[i]
  BY TailFacts DEF Consume, TypeOK, Got
<1>2. sent \subseteq accepted
  BY <1>1 DEF BarrierInv, ReplyAwaited
<1>3. ~InFlight(toSwitch, "BarrierRequest")
  BY <1>1 DEF BarrierInv, ReplyAwaited
<1>4. RequestAwaited'
  BY <1>3 DEF RequestAwaited, InFlight
<1>5. ReplyAwaited'
  <2>1. \A i \in DOMAIN toClient' : toClient'[i].type # "BarrierReply"
    BY <1>1 DEF BarrierInv, ReplyAwaited
  <2> QED
    BY <2>1 DEF ReplyAwaited
<1>6. FlowsAccounted'
  BY <1>2 DEF FlowsAccounted
<1> QED
  BY <1>2, <1>4, <1>5, <1>6 DEF BarrierInv

(* The switch handles a message that is no barrier request.                *)
LEMMA SwitchSays ==
    ASSUME TypeOK, BarrierInv, toSwitch # <<>>, NEW ms \in Seq(SwitchMsg), Say(ms),
           Req.type # "BarrierRequest", ~InFlight(ms, "BarrierReply"),
           Req.type = "FlowMod" => Req.xid \in accepted' \/ InFlight(ms, "Error"),
           accepted \subseteq accepted', UNCHANGED <<open, op, sent>>
    PROVE  BarrierInv'
<1>1. /\ DOMAIN toSwitch' = 1 .. Len(toSwitch) - 1 /\ DOMAIN toSwitch = 1 .. Len(toSwitch)
      /\ 1 \in DOMAIN toSwitch /\ Req = toSwitch[1] /\ Len(toSwitch) \in Nat
      /\ \A i \in DOMAIN toSwitch' : i + 1 \in DOMAIN toSwitch /\ toSwitch'[i] = toSwitch[i + 1]
      /\ \A i \in DOMAIN toSwitch : i # 1 => i - 1 \in DOMAIN toSwitch' /\ toSwitch'[i - 1] = toSwitch[i]
  BY TailFacts DEF Say, TypeOK, Req
<1>2. /\ DOMAIN toClient = 1 .. Len(toClient) /\ DOMAIN toClient' = 1 .. Len(toClient) + Len(ms)
      /\ DOMAIN ms = 1 .. Len(ms) /\ Len(toClient) \in Nat /\ Len(ms) \in Nat
      /\ \A i \in DOMAIN toClient : i \in DOMAIN toClient' /\ toClient'[i] = toClient[i]
      /\ \A i \in DOMAIN ms : Len(toClient) + i \in DOMAIN toClient' /\ toClient'[Len(toClient) + i] = ms[i]
      /\ \A i \in DOMAIN toClient' : i \notin DOMAIN toClient =>
             i - Len(toClient) \in DOMAIN ms /\ toClient'[i] = ms[i - Len(toClient)]
  BY ConcatFacts DEF Say, TypeOK
<1>3. RequestAwaited'
  BY <1>1 DEF BarrierInv, RequestAwaited, AwaitingBarrier
<1>4. ReplyAwaited'
  <2>1. \A i \in DOMAIN toClient' : toClient'[i].type = "BarrierReply" =>
            i \in DOMAIN toClient /\ toClient[i].type = "BarrierReply"
    BY <1>2 DEF InFlight
  <2>2. InFlight(toSwitch', "BarrierRequest") => InFlight(toSwitch, "BarrierRequest")
    BY <1>1 DEF InFlight
  <2> SUFFICES ASSUME NEW i \in DOMAIN toClient', toClient'[i].type = "BarrierReply"
               PROVE  /\ AwaitingBarrier'
                      /\ ~InFlight(toSwitch', "BarrierRequest")
                      /\ \A j \in DOMAIN toClient' : j > i => toClient'[j].type # "BarrierReply"
                      /\ \/ sent' \subseteq accepted'
                         \/ \E e \in DOMAIN toClient' : e < i /\ toClient'[e].type = "Error"
    BY DEF ReplyAwaited, InFlight
  <2>3. i \in DOMAIN toClient /\ toClient[i].type = "BarrierReply"
    BY <2>1
  <2>4. AwaitingBarrier' /\ ~InFlight(toSwitch', "BarrierRequest")
    BY <2>2, <2>3 DEF BarrierInv, ReplyAwaited, AwaitingBarrier
  <2>5. \A j \in DOMAIN toClient' : j > i => toClient'[j].type # "BarrierReply"
    BY <2>1, <2>3 DEF BarrierInv, ReplyAwaited
  <2>6. \/ sent' \subseteq accepted'
        \/ \E e \in DOMAIN toClient' : e < i /\ toClient'[e].type = "Error"
    BY <1>2, <2>3 DEF BarrierInv, ReplyAwaited
  <2> QED
    BY <2>4, <2>5, <2>6
<1>5. FlowsAccounted'
  <2>1. InFlight(toClient, "Error") \/ InFlight(ms, "Error") => InFlight(toClient', "Error")
    BY <1>2 DEF InFlight
  <2>2. ASSUME NEW x, Unhandled(x), ~InFlight(ms, "Error")
        PROVE  x \in accepted' \/ Unhandled(x)'
    <3> PICK i \in DOMAIN toSwitch : toSwitch[i].type = "FlowMod" /\ toSwitch[i].xid = x
      BY <2>2 DEF Unhandled
    <3>1. CASE i = 1
      BY <1>1, <2>2, <3>1
    <3>2. CASE i # 1
      BY <1>1, <3>2 DEF Unhandled
    <3> QED
      BY <3>1, <3>2
  <2> QED
    BY <2>1, <2>2 DEF BarrierInv, FlowsAccounted
<1> QED
  BY <1>3, <1>4, <1>5 DEF BarrierInv

(* The switch answers the barrier: nothing the client sent before it is    *)
(* left, so every flow was applied or an error is already on its way.      *)
LEMMA SwitchAnswersBarrier ==
    ASSUME TypeOK, BarrierInv, SwitchBarrier
    PROVE  BarrierInv'
<1> DEFINE reply == Msg("BarrierReply", Req.xid)
<1>0. reply \in SwitchMsg /\ <<reply>> \in Seq(SwitchMsg)
  BY ReqType, SwitchMsgType, ShortSeq DEF SwitchBarrier, Handling
<1>1. /\ DOMAIN toSwitch' = 1 .. Len(toSwitch) - 1 /\ DOMAIN toSwitch = 1 .. Len(toSwitch)
      /\ 1 \in DOMAIN toSwitch /\ Req = toSwitch[1] /\ Len(toSwitch) \in Nat
      /\ \A i \in DOMAIN toSwitch' : i + 1 \in DOMAIN toSwitch /\ toSwitch'[i] = toSwitch[i + 1]
  BY TailFacts DEF SwitchBarrier, Handling, Say, TypeOK, Req
<1>2. /\ DOMAIN toClient = 1 .. Len(toClient) /\ DOMAIN toClient' = 1 .. Len(toClient) + 1
      /\ \A i \in DOMAIN toClient : toClient'[i] = toClient[i] /\ i <= Len(toClient)
      /\ toClient'[Len(toClient) + 1] = reply /\ Len(toClient) \in Nat
  <2>1. toClient' = Append(toClient, reply)
    BY <1>0 DEF SwitchBarrier, Say, TypeOK
  <2> QED
    BY <1>0, <2>1, AppendFacts DEF TypeOK
<1>3. open /\ Req.type = "BarrierRequest" /\ UNCHANGED <<open, op, sent, accepted>>
  BY DEF SwitchBarrier, Handling, client, switch, Req
<1>4. /\ AwaitingBarrier
      /\ \A j \in DOMAIN toSwitch : j > 1 => toSwitch[j].type \notin {"FlowMod", "BarrierRequest"}
  BY <1>1, <1>3 DEF BarrierInv, RequestAwaited
<1>5. ~InFlight(toSwitch', "BarrierRequest") /\ ~InFlight(toClient, "BarrierReply")
  BY <1>1, <1>3, <1>4 DEF BarrierInv, ReplyAwaited, InFlight
<1>6. sent \subseteq accepted \/ InFlight(toClient, "Error")
  <2>1. \A x : ~Unhandled(x)
    BY <1>1, <1>3, <1>4 DEF Unhandled
  <2> QED
    BY <1>3, <2>1 DEF BarrierInv, FlowsAccounted
<1>7. RequestAwaited'
  BY <1>5 DEF RequestAwaited, InFlight
<1>8. ReplyAwaited'
  <2>1. \A i \in DOMAIN toClient' : toClient'[i].type = "BarrierReply" => i = Len(toClient) + 1
    BY <1>2, <1>5 DEF InFlight
  <2>2. \A j \in DOMAIN toClient' : j <= Len(toClient) + 1
    BY <1>2
  <2>3. AwaitingBarrier'
    BY <1>3, <1>4 DEF AwaitingBarrier
  <2>4. \/ sent' \subseteq accepted'
        \/ \E e \in DOMAIN toClient' : e < Len(toClient) + 1 /\ toClient'[e].type = "Error"
    BY <1>2, <1>3, <1>6 DEF InFlight
  <2>5. \A i, j \in DOMAIN toClient' :
            toClient'[i].type = "BarrierReply" /\ j > i => toClient'[j].type # "BarrierReply"
    BY <1>2, <2>1, <2>2
  <2> QED
    BY <1>5, <2>1, <2>3, <2>4, <2>5 DEF ReplyAwaited, InFlight
<1>9. FlowsAccounted'
  <2>1. InFlight(toClient, "Error") => InFlight(toClient', "Error")
    BY <1>2 DEF InFlight
  <2> QED
    BY <1>3, <1>6, <2>1 DEF FlowsAccounted
<1> QED
  BY <1>7, <1>8, <1>9 DEF BarrierInv

(* Messages the switch sends of its own accord.                            *)
LEMMA SwitchVolunteers ==
    ASSUME TypeOK, BarrierInv, NEW ms \in Seq(SwitchMsg), toClient' = toClient \o ms,
           ~InFlight(ms, "BarrierReply"), UNCHANGED <<toSwitch, open, op, sent, accepted>>
    PROVE  BarrierInv'
<1>1. /\ DOMAIN toClient = 1 .. Len(toClient) /\ DOMAIN toClient' = 1 .. Len(toClient) + Len(ms)
      /\ DOMAIN ms = 1 .. Len(ms) /\ Len(toClient) \in Nat /\ Len(ms) \in Nat
      /\ \A i \in DOMAIN toClient : i \in DOMAIN toClient' /\ toClient'[i] = toClient[i]
      /\ \A i \in DOMAIN toClient' : i \notin DOMAIN toClient =>
             i - Len(toClient) \in DOMAIN ms /\ toClient'[i] = ms[i - Len(toClient)]
  BY ConcatFacts DEF TypeOK
<1>2. \A i \in DOMAIN toClient' : toClient'[i].type = "BarrierReply" =>
          i \in DOMAIN toClient /\ toClient[i].type = "BarrierReply"
  BY <1>1 DEF InFlight
<1>3. RequestAwaited'
  BY DEF BarrierInv, RequestAwaited, AwaitingBarrier
<1>4. ReplyAwaited'
  <2> SUFFICES ASSUME NEW i \in DOMAIN toClient', toClient'[i].type = "BarrierReply"
               PROVE  /\ AwaitingBarrier'
                      /\ ~InFlight(toSwitch', "BarrierRequest")
                      /\ \A j \in DOMAIN toClient' : j > i => toClient'[j].type # "BarrierReply"
                      /\ \/ sent' \subseteq accepted'
                         \/ \E e \in DOMAIN toClient' : e < i /\ toClient'[e].type = "Error"
    BY DEF ReplyAwaited, InFlight
  <2>1. i \in DOMAIN toClient /\ toClient[i].type = "BarrierReply"
    BY <1>2
  <2>2. AwaitingBarrier' /\ ~InFlight(toSwitch', "BarrierRequest")
    BY <2>1 DEF BarrierInv, ReplyAwaited, AwaitingBarrier, InFlight
  <2>3. \A j \in DOMAIN toClient' : j > i => toClient'[j].type # "BarrierReply"
    BY <1>2, <2>1 DEF BarrierInv, ReplyAwaited
  <2>4. \/ sent' \subseteq accepted'
        \/ \E e \in DOMAIN toClient' : e < i /\ toClient'[e].type = "Error"
    BY <1>1, <2>1 DEF BarrierInv, ReplyAwaited
  <2> QED
    BY <2>2, <2>3, <2>4
<1>5. FlowsAccounted'
  BY <1>1 DEF BarrierInv, FlowsAccounted, InFlight, Unhandled
<1> QED
  BY <1>3, <1>4, <1>5 DEF BarrierInv

(* The stream closes.                                                      *)
LEMMA StreamCloses ==
    ASSUME TypeOK, BarrierInv, Close
    PROVE  BarrierInv'
<1>1. PICK n \in 0 .. Len(toClient) : toClient' = SubSeq(toClient, 1, n)
  BY DEF Close
<1>2. /\ \A i \in DOMAIN toClient' : i \in DOMAIN toClient /\ i <= n /\ toClient'[i] = toClient[i]
      /\ \A i \in DOMAIN toClient : i <= n => i \in DOMAIN toClient'
      /\ DOMAIN toClient \subseteq Int /\ n \in Int
  BY <1>1 DEF TypeOK
<1>3. DOMAIN toSwitch' = {} /\ ~open' /\ UNCHANGED <<op, sent, accepted>>
  BY DEF Close, switch, client
<1>4. RequestAwaited' /\ FlowsAccounted'
  BY <1>3 DEF RequestAwaited, FlowsAccounted
<1>5. ReplyAwaited'
  <2> SUFFICES ASSUME NEW i \in DOMAIN toClient', toClient'[i].type = "BarrierReply"
               PROVE  /\ AwaitingBarrier'
                      /\ ~InFlight(toSwitch', "BarrierRequest")
                      /\ \A j \in DOMAIN toClient' : j > i => toClient'[j].type # "BarrierReply"
                      /\ \/ sent' \subseteq accepted'
                         \/ \E e \in DOMAIN toClient' : e < i /\ toClient'[e].type = "Error"
    BY DEF ReplyAwaited, InFlight
  <2>1. i \in DOMAIN toClient /\ toClient[i].type = "BarrierReply" /\ i <= n
    BY <1>2
  <2>2. AwaitingBarrier' /\ ~InFlight(toSwitch', "BarrierRequest")
    BY <1>3, <2>1 DEF BarrierInv, ReplyAwaited, AwaitingBarrier, InFlight
  <2>3. \A j \in DOMAIN toClient' : j > i => toClient'[j].type # "BarrierReply"
    BY <1>2, <2>1 DEF BarrierInv, ReplyAwaited
  <2>4. ASSUME NEW e \in DOMAIN toClient, e < i, toClient[e].type = "Error"
        PROVE  e \in DOMAIN toClient' /\ toClient'[e].type = "Error"
    BY <1>2, <2>1, <2>4
  <2> QED
    BY <1>3, <2>1, <2>2, <2>3, <2>4 DEF BarrierInv, ReplyAwaited
<1> QED
  BY <1>4, <1>5 DEF BarrierInv

(* What the switch says: which of it is a barrier reply or an error.       *)
LEMMA SaidFacts ==
    /\ \A t : ~InFlight(<<>>, t)
    /\ \A x, t, u : InFlight(<<Msg(u, x)>>, t) <=> u = t
    /\ \A d : ~InFlight(Notice(d), "BarrierReply")
<1>1. \A t : ~InFlight(<<>>, t)
  BY DEF InFlight
<1>2. ASSUME NEW m, NEW t PROVE InFlight(<<m>>, t) <=> m.type = t
  <2>1. DOMAIN <<m>> = {1} /\ <<m>>[1] = m
    OBVIOUS
  <2> QED
    BY <2>1 DEF InFlight
<1>3. \A x, u : Msg(u, x).type = u
  BY DEF Msg
<1>4. \A d : Part(0, "Experimenter", d, TRUE, FALSE).type = "MultipartReply"
  BY DEF Part
<1>5. \A d : ~InFlight(<<Part(0, "Experimenter", d, TRUE, FALSE)>>, "BarrierReply")
  BY <1>2, <1>4
<1>6. ASSUME NEW d PROVE ~InFlight(Notice(d), "BarrierReply")
  <2>1. CASE monitoring
    <3>1. Notice(d) = <<Part(0, "Experimenter", d, TRUE, FALSE)>>
      BY <2>1 DEF Notice
    <3> QED
      BY <1>5, <3>1
  <2>2. CASE ~monitoring
    BY <1>1, <2>2 DEF Notice
  <2> QED
    BY <2>1, <2>2
<1>7. ASSUME NEW x, NEW t, NEW u PROVE InFlight(<<Msg(u, x)>>, t) <=> u = t
  BY <1>2, <1>3
<1> QED
  BY <1>1, <1>6, <1>7

LEMMA ReportsFacts ==
    ASSUME NEW x, NEW k, NEW S, NEW ms \in Reports(x, k, S)
    PROVE  ~InFlight(ms, "BarrierReply")
<1>1. \A d, a, m : Part(x, k, d, a, m).type = "MultipartReply"
  BY DEF Part
<1>2. \A d, a, m : ~InFlight(<<Part(x, k, d, a, m)>>, "BarrierReply")
  BY <1>1 DEF InFlight
<1>3. ASSUME NEW d, NEW a, NEW m, NEW e, NEW b, NEW n,
             ms = <<Part(x, k, d, a, m), Part(x, k, e, b, n)>>
      PROVE  ~InFlight(ms, "BarrierReply")
  <2>1. DOMAIN ms = {1, 2} /\ ms[1] = Part(x, k, d, a, m) /\ ms[2] = Part(x, k, e, b, n)
    BY <1>3
  <2> QED
    BY <1>1, <2>1 DEF InFlight
<1>4. CASE ms = <<Part(x, k, [added |-> S, deleted |-> {}], S # {}, FALSE)>>
  BY <1>2, <1>4
<1>5. ASSUME NEW A \in SUBSET S,
             ms = <<Part(x, k, [added |-> A, deleted |-> {}], TRUE, TRUE),
                    Part(x, k, [added |-> S \ A, deleted |-> {}], TRUE, FALSE)>>
      PROVE  ~InFlight(ms, "BarrierReply")
  BY <1>3, <1>5
<1> QED
  BY <1>4, <1>5 DEF Reports

-----------------------------------------------------------------------------
LEMMA InvInit == Init => IInv
<1> SUFFICES ASSUME Init PROVE IInv
  OBVIOUS
<1>1. /\ DOMAIN toSwitch = {} /\ sent = {} /\ last.kind = "none"
      /\ \A i \in DOMAIN toClient : toClient[i].type = "Hello"
  BY DEF Init, Msg
<1>2. BarrierInv
  BY <1>1 DEF BarrierInv, RequestAwaited, ReplyAwaited, FlowsAccounted
<1> QED
  BY <1>1, <1>2, TypeInit DEF IInv, ConfirmedFlowsApplied, SecondWrite, Init, Idle

LEMMA SecondWriteNext == TypeOK /\ SecondWrite /\ [Next]_vars => SecondWrite'
<1> SUFFICES ASSUME TypeOK, SecondWrite, [Next]_vars PROVE SecondWrite'
  OBVIOUS
<1>1. ASSUME UNCHANGED op \/ op'.pc # "barrier" \/ op'.kind = "send_flow_sync" PROVE SecondWrite'
  BY <1>1 DEF SecondWrite
<1>2. ASSUME NEW r, NEW b, Return(r, b) PROVE SecondWrite'
  BY <1>1, <1>2 DEF Return, Idle
<1>3. CASE ClientCalls
  BY <1>1, <1>3 DEF ClientCalls, Connect, SendPacketOut, SendFlow, SendAndReturn, SendFlowSync,
     SendRequest, StartReceive, Call
<1>4. CASE SendBarrier \/ RecvEchoRequest \/ SendEchoReply
  BY <1>1, <1>2, <1>4 DEF SendBarrier, RecvEchoRequest, SendEchoReply, TypeOK, Pending
<1>5. CASE RecvHello \/ RecvEchoReply \/ RecvError \/ RecvBarrierReply \/ RecvPacketIn
           \/ StreamFails \/ Drop
  BY <1>2, <1>5 DEF RecvHello, RecvEchoReply, RecvError, RecvBarrierReply, RecvPacketIn,
     StreamFails, Drop
<1>6. ASSUME NEW k, NEW mp, RecvCollected(k, mp) PROVE SecondWrite'
  BY <1>1, <1>2, <1>6 DEF RecvCollected, Receiving, TypeOK, Pending
<1>7. CASE RecvUpdates \/ RecvOther
  BY <1>1, <1>2, <1>7 DEF RecvUpdates, RecvOther
<1>8. CASE SwitchActs \/ UNCHANGED vars
  BY <1>1, <1>8 DEF SwitchActs, SwitchHandles, SwitchFlowMod, SwitchBarrier, SwitchEcho,
     SwitchEchoReply, SwitchStats, SwitchMonitor, SwitchOther, SwitchAsync, OtherController,
     Close, client, vars
<1> QED
  BY <1>3, <1>4, <1>5, <1>6, <1>7, <1>8 DEF Next, ClientSteps

LEMMA InvNext == IInv /\ [Next]_vars => IInv'
<1> SUFFICES ASSUME IInv, [Next]_vars PROVE IInv'
  OBVIOUS
<1>0. /\ TypeOK /\ TypeOK' /\ SecondWrite /\ SecondWrite'
      /\ ConfirmedFlowsApplied /\ (~broken => BarrierInv)
  BY TypeNext, SecondWriteNext DEF IInv
(* A step that breaks the connection leaves nothing to show; one that      *)
(* returns nothing from a barrier leaves the last outcome true.            *)
<1>b. ASSUME broken' PROVE IInv'
  BY <1>0, <1>b DEF IInv, ConfirmedFlowsApplied
<1>k. ASSUME broken' = broken, ~broken => BarrierInv', accepted \subseteq accepted',
             \/ UNCHANGED last
             \/ last'.kind \notin {"send_flow_sync", "barrier"}
             \/ last'.sent \subseteq accepted'
      PROVE  IInv'
  BY <1>0, <1>k DEF IInv, ConfirmedFlowsApplied
<1>r. ASSUME NEW r \in {"Ok", "Err", "Dropped"}, NEW b, Return(r, b), r # "Ok" PROVE IInv'
  BY <1>r, <1>b DEF Return
<1>1. CASE Connect
  <2>1. Msg("Hello", nextXid) \in ClientMsg /\ ~AwaitingBarrier
    BY <1>0, <1>1, ClientMsgType DEF Connect, TypeOK, AwaitingBarrier, Idle
  <2>2. UNCHANGED <<toClient, open, sent, accepted, last, broken>>
    BY <1>1 DEF Connect, switch
  <2>3. ~broken => BarrierInv'
    BY <1>0, <1>1, <2>1, <2>2, WritePlain DEF Connect, Msg
  <2> QED
    BY <1>k, <2>2, <2>3
<1>2. ASSUME NEW k \in FireAndForget, NEW m \in ClientMsg, SendAndReturn(k, m),
             ~broken => BarrierInv'
      PROVE  IInv'
  <2>1. accepted' = accepted /\ last'.kind = k
    BY <1>2 DEF SendAndReturn, switch
  <2>2. CASE ~broken'
    <3>1. broken' = broken
      BY <1>0, <1>2, <2>2 DEF SendAndReturn, TypeOK
    <3> QED
      BY <1>2, <1>k, <2>1, <3>1 DEF FireAndForget
  <2> QED
    BY <1>b, <2>2
<1>3. CASE SendPacketOut
  <2>1. Msg("PacketOut", nextXid) \in ClientMsg
    BY <1>0, ClientMsgType DEF TypeOK
  <2>2. ~broken => BarrierInv'
    BY <1>0, <1>3, <2>1, WritePlain
       DEF SendPacketOut, SendAndReturn, Msg, switch, AwaitingBarrier
  <2> QED
    BY <1>2, <1>3, <2>1, <2>2 DEF SendPacketOut, FireAndForget
<1>4. ASSUME NEW f \in Flows, NEW c \in {"add", "delete"}, SendFlow(c, f)
      PROVE  IInv'
  <2>1. FlowMod(nextXid, c, f) \in ClientMsg
    BY <1>0, ClientMsgType DEF TypeOK
  <2>2. ~broken => BarrierInv'
    BY <1>0, <1>4, <2>1, WriteFlow DEF SendFlow, SendAndReturn, CanCall, FlowMod, switch
  <2> QED
    BY <1>2, <1>4, <2>1, <2>2 DEF SendFlow, FireAndForget
<1>5. ASSUME NEW f \in Flows, NEW c \in {"add", "delete"}, SendFlowSync(c, f)
      PROVE  IInv'
  <2>1. FlowMod(nextXid, c, f) \in ClientMsg
    BY <1>0, ClientMsgType DEF TypeOK
  <2>2. ~broken => BarrierInv'
    BY <1>0, <1>5, <2>1, WriteFlow DEF SendFlowSync, CanCall, FlowMod, switch
  <2> QED
    BY <1>5, <1>k, <2>2 DEF SendFlowSync, switch
<1>6. ASSUME NEW k \in {"barrier", "echo", "dump_flows", "monitor_flows"}, SendRequest(k)
      PROVE  IInv'
  <2>1. Msg(RequestType(k), nextXid) \in ClientMsg
    BY <1>0, ClientMsgType DEF TypeOK, RequestType
  <2>2. ~AwaitingBarrier /\ UNCHANGED <<toClient, open, sent, accepted, last, broken>>
    BY <1>6 DEF SendRequest, CanCall, AwaitingBarrier, Idle, switch
  <2>3. CASE k = "barrier"
    <3>1. AwaitingBarrier'
      BY <1>6, <2>3 DEF SendRequest, AwaitingBarrier, Call
    <3>2. ~broken => BarrierInv'
      BY <1>0, <1>6, <2>1, <2>2, <2>3, <3>1, WriteBarrier DEF SendRequest, Msg, RequestType
    <3> QED
      BY <1>k, <2>2, <3>2
  <2>4. CASE k # "barrier"
    <3>1. ~broken => BarrierInv'
      BY <1>0, <1>6, <2>1, <2>2, <2>4, WritePlain DEF SendRequest, Msg, RequestType
    <3> QED
      BY <1>k, <2>2, <3>1
  <2> QED
    BY <2>3, <2>4
<1>7. ASSUME NEW k \in Receives, StartReceive(k)
      PROVE  IInv'
  <2>1. ~AwaitingBarrier /\ UNCHANGED <<toClient, toSwitch, open, sent, accepted, last, broken>>
    BY <1>7 DEF StartReceive, CanCall, AwaitingBarrier, Idle, switch, wire
  <2>2. ~broken => BarrierInv'
    BY <1>0, <2>1 DEF BarrierInv, RequestAwaited, ReplyAwaited, FlowsAccounted, InFlight, Unhandled
  <2> QED
    BY <1>k, <2>1, <2>2
<1>8. CASE SendBarrier
  <2>1. Msg("BarrierRequest", nextXid) \in ClientMsg /\ ~AwaitingBarrier
    BY <1>0, <1>8, ClientMsgType DEF SendBarrier, TypeOK, AwaitingBarrier
  <2>2. UNCHANGED <<toClient, open, sent, accepted, last, broken>>
    BY <1>8 DEF SendBarrier, switch
  <2>3. AwaitingBarrier'
    BY <1>0, <1>8 DEF SendBarrier, AwaitingBarrier, SecondWrite, TypeOK, Pending
  <2>4. ~broken => BarrierInv'
    BY <1>0, <1>8, <2>1, <2>2, <2>3, WriteBarrier DEF SendBarrier, Msg
  <2> QED
    BY <1>k, <2>2, <2>4
<1>9. CASE SendEchoReply
  <2>1. Msg("EchoReply", op.echo) \in ClientMsg
    BY <1>0, ClientMsgType DEF TypeOK, Pending
  <2>2. UNCHANGED <<toClient, open, sent, accepted>> /\ broken' = broken
    BY <1>0, <1>9 DEF SendEchoReply, Return, switch, TypeOK
  <2>3. AwaitingBarrier => AwaitingBarrier'
    BY <1>0, <1>9 DEF SendEchoReply, AwaitingBarrier, TypeOK, Pending
  <2>4. ~broken => BarrierInv'
    BY <1>0, <1>9, <2>1, <2>2, <2>3, WritePlain DEF SendEchoReply, Msg
  <2>5. UNCHANGED last \/ last'.kind = "try_recv_packet_in"
    BY <1>9 DEF SendEchoReply, Return
  <2> QED
    BY <1>k, <2>2, <2>4, <2>5
(* Reading a message that is neither an error nor a barrier reply.         *)
<1>p. ASSUME NEW kinds, Receiving(kinds), Consume, ReadOnly,
             Got.type \notin {"Error", "BarrierReply"},
             AwaitingBarrier => AwaitingBarrier', broken' = broken,
             UNCHANGED last \/ last'.kind \notin {"send_flow_sync", "barrier"}
      PROVE  IInv'
  <2>1. UNCHANGED <<toSwitch, open, sent, accepted>>
    BY <1>p DEF ReadOnly, switch
  <2>2. ~broken => BarrierInv'
    BY <1>0, <1>p, <2>1, ReadPlain DEF Receiving
  <2> QED
    BY <1>k, <1>p, <2>1, <2>2
(* The same for a method that is not a barrier and returns Ok.             *)
<1>o. ASSUME NEW kinds, Receiving(kinds), Consume, ReadOnly, NEW b, Return("Ok", b),
             Got.type \notin {"Error", "BarrierReply"}, op.kind \notin {"send_flow_sync", "barrier"}
      PROVE  IInv'
  <2>1. broken' = broken /\ last'.kind = op.kind /\ ~AwaitingBarrier
    BY <1>0, <1>o DEF Return, AwaitingBarrier, TypeOK
  <2> QED
    BY <1>o, <1>p, <2>1
<1>10. CASE RecvHello
  <2>1. CASE Got.type = "Hello"
    BY <1>10, <1>o, <2>1 DEF RecvHello, Receiving
  <2>2. CASE Got.type # "Hello"
    BY <1>10, <1>r, <2>2 DEF RecvHello
  <2> QED
    BY <2>1, <2>2
<1>11. CASE RecvEchoReply
  <2>1. CASE Got.type = "EchoReply" /\ Got.xid = op.xid
    BY <1>11, <1>o, <2>1 DEF RecvEchoReply, Receiving
  <2>2. CASE ~(Got.type = "EchoReply" /\ Got.xid = op.xid)
    BY <1>11, <1>r, <2>2 DEF RecvEchoReply
  <2> QED
    BY <2>1, <2>2
<1>12. CASE RecvError
  BY <1>12, <1>r DEF RecvError
<1>13. CASE RecvEchoRequest
  <2>1. AwaitingBarrier => AwaitingBarrier'
    BY <1>0, <1>13 DEF RecvEchoRequest, AwaitingBarrier, TypeOK, Pending
  <2> QED
    BY <1>13, <1>p, <2>1 DEF RecvEchoRequest
<1>14. CASE RecvBarrierReply
  <2>1. /\ UNCHANGED <<toSwitch, open, sent, accepted>> /\ broken' = broken
        /\ last'.sent = sent
    BY <1>0, <1>14 DEF RecvBarrierReply, ReadOnly, Return, switch, TypeOK
  <2>2. ~broken => BarrierInv' /\ sent \subseteq accepted
    BY <1>0, <1>14, <2>1, ReadBarrier DEF RecvBarrierReply, Receiving
  <2>3. CASE broken
    BY <1>b, <2>1, <2>3
  <2>4. CASE ~broken
    BY <1>k, <2>1, <2>2, <2>4
  <2> QED
    BY <2>3, <2>4
<1>15. ASSUME NEW k \in {"dump_flows", "monitor_flows"}, NEW mp, RecvCollected(k, mp)
       PROVE  IInv'
  <2>1. CASE Return("Err", NoDelta)
    BY <1>r, <2>1
  <2>2. CASE Return("Ok", Then(op.acc, Got.body))
    BY <1>15, <1>o, <2>2 DEF RecvCollected, Receiving
  <2>3. CASE UNCHANGED <<last, broken, view>>
    BY <1>15, <1>p, <2>3 DEF RecvCollected, Receiving, AwaitingBarrier
  <2> QED
    BY <1>15, <2>1, <2>2, <2>3 DEF RecvCollected
<1>16. CASE RecvUpdates
  <2>1. CASE Return("Err", NoDelta)
    BY <1>r, <2>1
  <2>2. CASE Return("Ok", Got.body)
    BY <1>16, <1>o, <2>2 DEF RecvUpdates, Receiving
  <2>3. CASE UNCHANGED <<last, broken, view>>
    BY <1>16, <1>p, <2>3 DEF RecvUpdates, Receiving, AwaitingBarrier
  <2> QED
    BY <1>16, <2>1, <2>2, <2>3 DEF RecvUpdates
<1>17. CASE RecvPacketIn
  BY <1>17, <1>o DEF RecvPacketIn, Receiving
(* A skipped message: a barrier reply would be awaited, so not skipped.    *)
<1>18. CASE RecvOther
  <2>1. CASE broken
    BY <1>18, <1>b, <2>1 DEF RecvOther, Return
  <2>2. CASE ~broken
    <3>1. Got = toClient[1] /\ 1 \in DOMAIN toClient
      BY <1>0, <1>18 DEF RecvOther, Receiving, Got, TypeOK
    <3>2. Got.type # "BarrierReply"
      BY <1>0, <1>18, <2>2, <3>1
         DEF BarrierInv, ReplyAwaited, AwaitingBarrier, RecvOther, Accepts
    <3>3. Got.type # "Error"
      BY <1>18 DEF RecvOther, Accepts
    <3>4. CASE op.kind = "try_recv_packet_in"
      BY <1>18, <1>o, <3>2, <3>3, <3>4 DEF RecvOther
    <3>5. CASE op.kind # "try_recv_packet_in"
      BY <1>18, <1>p, <3>2, <3>3, <3>5 DEF RecvOther, AwaitingBarrier
    <3> QED
      BY <3>4, <3>5
  <2> QED
    BY <2>1, <2>2
<1>19. CASE StreamFails \/ Drop
  BY <1>19, <1>r DEF StreamFails, Drop
<1>s. ASSUME UNCHANGED client, accepted \subseteq accepted', ~broken => BarrierInv'
      PROVE  IInv'
  BY <1>s, <1>k DEF client
<1>e. ASSUME toSwitch # <<>>, Refuse, Req.type # "BarrierRequest",
             UNCHANGED <<open, client, accepted>>
      PROVE  IInv'
  <2>1. <<Msg("Error", Req.xid)>> \in Seq(SwitchMsg)
    BY <1>0, <1>e, ReqType, SwitchMsgType, ShortSeq
  <2>2. UNCHANGED <<op, sent, broken>>
    BY <1>e DEF client
  <2>3. ~broken => BarrierInv'
    BY <1>0, <1>e, <2>1, <2>2, SaidFacts, SwitchSays DEF Refuse
  <2> QED
    BY <1>e, <1>s, <2>3
<1>h. ASSUME toSwitch # <<>>, NEW ms \in Seq(SwitchMsg), Say(ms), ~InFlight(ms, "BarrierReply"),
             Req.type \notin {"BarrierRequest", "FlowMod"}, UNCHANGED <<open, client, accepted>>
      PROVE  IInv'
  <2>1. UNCHANGED <<op, sent, broken>>
    BY <1>h DEF client
  <2>2. ~broken => BarrierInv'
    BY <1>0, <1>h, <2>1, SwitchSays
  <2> QED
    BY <1>h, <1>s, <2>2
<1>v. ASSUME NEW ms \in Seq(SwitchMsg), toClient' = toClient \o ms, ~InFlight(ms, "BarrierReply"),
             UNCHANGED <<toSwitch, open, client, accepted>>
      PROVE  IInv'
  <2>1. UNCHANGED <<op, sent, broken>>
    BY <1>v DEF client
  <2>2. ~broken => BarrierInv'
    BY <1>0, <1>v, <2>1, SwitchVolunteers
  <2> QED
    BY <1>v, <1>s, <2>2
<1>20. CASE SwitchFlowMod
  <2>0. toSwitch # <<>> /\ Req.type = "FlowMod" /\ UNCHANGED <<open, client>>
    BY <1>20 DEF SwitchFlowMod, Handling, Req
  <2>1. CASE Refuse /\ UNCHANGED <<table, accepted>>
    BY <1>e, <2>0, <2>1
  <2>2. ASSUME NEW ms \in {Notice(NoDelta), <<>>}, Say(ms),
               accepted' = accepted \union {Req.xid}
        PROVE  IInv'
    <3>1. ms \in Seq(SwitchMsg) /\ ~InFlight(ms, "BarrierReply")
      BY NoticeType, DeltaType, ShortSeq, SaidFacts
    <3>2. UNCHANGED <<op, sent, broken>>
      BY <2>0 DEF client
    <3>3. ~broken => BarrierInv'
      BY <1>0, <2>0, <2>2, <3>1, <3>2, SwitchSays
    <3> QED
      BY <1>s, <2>0, <2>2, <3>3
  <2> QED
    BY <1>20, <2>1, <2>2 DEF SwitchFlowMod
<1>21. CASE SwitchBarrier
  <2>1. ~broken => BarrierInv'
    BY <1>0, <1>21, SwitchAnswersBarrier
  <2> QED
    BY <1>21, <1>s, <2>1 DEF SwitchBarrier, switch
<1>22. CASE SwitchEcho
  <2>1. <<Msg("EchoReply", Req.xid)>> \in Seq(SwitchMsg)
    BY <1>0, <1>22, ReqType, SwitchMsgType, ShortSeq DEF SwitchEcho, Handling
  <2> QED
    BY <1>22, <1>h, <2>1, SaidFacts DEF SwitchEcho, Handling, Req, switch
<1>23. CASE SwitchEchoReply
  BY <1>23, <1>h, ShortSeq, SaidFacts DEF SwitchEchoReply, Handling, Req
<1>24. CASE SwitchStats
  <2>1. toSwitch # <<>> /\ Req.type = "FlowStatsRequest" /\ UNCHANGED <<open, client, accepted>>
    BY <1>24 DEF SwitchStats, Handling, Req
  <2>2. ASSUME NEW ms \in Reports(Req.xid, "Flow", table), Say(ms) PROVE IInv'
    <3>1. ms \in Seq(SwitchMsg)
      BY <1>0, <2>1, ReportsType, ReqType DEF TypeOK
    <3> QED
      BY <1>h, <2>1, <2>2, <3>1, ReportsFacts
  <2> QED
    BY <1>24, <1>e, <2>1, <2>2 DEF SwitchStats
<1>25. CASE SwitchMonitor
  <2>1. toSwitch # <<>> /\ Req.type = "FlowMonitorRequest" /\ UNCHANGED <<open, client, accepted>>
    BY <1>25 DEF SwitchMonitor, Handling, Req
  <2>2. ASSUME NEW ms \in Reports(Req.xid, "Experimenter", table), Say(ms) PROVE IInv'
    <3>1. ms \in Seq(SwitchMsg)
      BY <1>0, <2>1, ReportsType, ReqType DEF TypeOK
    <3> QED
      BY <1>h, <2>1, <2>2, <3>1, ReportsFacts
  <2> QED
    BY <1>25, <1>e, <2>1, <2>2 DEF SwitchMonitor
<1>26. CASE SwitchOther
  <2>1. toSwitch # <<>> /\ Req.type \in {"Hello", "PacketOut"} /\ UNCHANGED <<open, client, accepted>>
    BY <1>26 DEF SwitchOther, Handling, Req, switch
  <2> QED
    BY <1>26, <1>e, <1>h, <2>1, ShortSeq, SaidFacts DEF SwitchOther
<1>27. ASSUME NEW t \in {"EchoRequest", "PacketIn", "PortStatus"}, SwitchAsync(t)
       PROVE  IInv'
  <2>1. Msg(t, asyncs % XidModulus) \in SwitchMsg
    BY <1>0, XidType, SwitchMsgType DEF TypeOK
  <2>2. toClient' = toClient \o <<Msg(t, asyncs % XidModulus)>>
    BY <1>0, <1>27, <2>1 DEF SwitchAsync, TypeOK
  <2> QED
    BY <1>27, <1>v, <2>1, <2>2, ShortSeq, SaidFacts DEF SwitchAsync
<1>28. ASSUME NEW f \in Flows, OtherController(f)
       PROVE  IInv'
  <2>1. /\ Notice([added |-> {f}, deleted |-> {}]) \in Seq(SwitchMsg)
        /\ Notice([added |-> {}, deleted |-> {f}]) \in Seq(SwitchMsg)
    BY NoticeType, DeltaType
  <2>2. \E ms \in Seq(SwitchMsg) : toClient' = toClient \o ms /\ ~InFlight(ms, "BarrierReply")
    <3>1. CASE toClient' = toClient
      <4>1. toClient' = toClient \o <<>>
        BY <1>0, <3>1 DEF TypeOK
      <4> QED
        BY <4>1, ShortSeq, SaidFacts
    <3>2. CASE toClient' # toClient
      BY <1>28, <2>1, <3>2, SaidFacts DEF OtherController
    <3> QED
      BY <3>1, <3>2
  <2> QED
    BY <1>28, <1>v, <2>2 DEF OtherController
<1>29. CASE Close
  <2>1. ~broken => BarrierInv'
    BY <1>0, <1>29, StreamCloses
  <2> QED
    BY <1>29, <1>s, <2>1 DEF Close, switch
<1>30. CASE UNCHANGED vars
  <2>1. UNCHANGED <<toClient, toSwitch, open, op, sent, accepted, last, broken>>
    BY <1>30 DEF vars, wire, client, switch
  <2>2. ~broken => BarrierInv'
    BY <1>0, <2>1 DEF BarrierInv, RequestAwaited, ReplyAwaited, FlowsAccounted, InFlight,
       Unhandled, AwaitingBarrier
  <2> QED
    BY <1>k, <2>1, <2>2
<1> QED
  BY <1>1, <1>3, <1>4, <1>5, <1>6, <1>7, <1>8, <1>9, <1>10, <1>11, <1>12, <1>13, <1>14, <1>15,
     <1>16, <1>17, <1>18, <1>19, <1>20, <1>21, <1>22, <1>23, <1>24, <1>25, <1>26, <1>27, <1>28,
     <1>29, <1>30
     DEF Next, ClientCalls, ClientSteps, SwitchActs, SwitchHandles

(* A send_flow_sync or barrier that returns Ok on a connection where no    *)
(* method has failed or been dropped means the switch applied every flow   *)
(* sent: for any flows, methods, xid width, traffic and closing stream.    *)
THEOREM FlowsConfirmed == Spec => []ConfirmedFlowsApplied
<1>1. Init => IInv
  BY InvInit
<1>2. IInv /\ [Next]_vars => IInv'
  BY InvNext
<1>3. IInv => ConfirmedFlowsApplied
  BY DEF IInv
<1> QED
  BY <1>1, <1>2, <1>3, PTL DEF Spec

-----------------------------------------------------------------------------
(* Theorems about who gets which answer on a VConn: what is owed to a      *)
(* client between its calls, and what a dump is made of; for every set of  *)
(* flows, choice of methods, xid width and bound.                          *)


-----------------------------------------------------------------------------
(* Two kinds of methods ask for an answer they recognise by its type only: *)
(* echo, and dump_flows, whose answer comes in parts.                      *)
Exchanges == {"echo", "dump_flows"}
IsRequest(k, m) == m.type = IF k = "echo" THEN "EchoRequest" ELSE "FlowStatsRequest"
IsPart(mp, m)   == m.type = "MultipartReply" /\ m.mp = mp
IsAnswer(k, m)  == IF k = "echo" THEN m.type = "EchoReply" ELSE IsPart("Flow", m)
IsFinal(k, m)   == IsAnswer(k, m) /\ (k = "dump_flows" => ~m.more)

(* A request in flight is the pending method's, the only one, and not      *)
(* answered yet.                                                           *)
RequestOwned(k) ==
    \A i \in DOMAIN toSwitch : IsRequest(k, toSwitch[i]) =>
        /\ op.kind = k
        /\ \A j \in DOMAIN toSwitch : IsRequest(k, toSwitch[j]) => j = i
        /\ \A j \in DOMAIN toClient : ~IsAnswer(k, toClient[j])

(* So is an answer, and nothing of it is behind its end.                   *)
AnswerOwned(k) ==
    \A i \in DOMAIN toClient : IsAnswer(k, toClient[i]) =>
        /\ op.kind = k
        /\ IsFinal(k, toClient[i]) =>
              \A j \in DOMAIN toClient : j > i => ~IsAnswer(k, toClient[j])

Owned(k) == RequestOwned(k) /\ AnswerOwned(k)

LEMMA NothingWhenIdle ==
    ASSUME NEW k, Owned(k), op.kind # k
    PROVE  /\ \A i \in DOMAIN toSwitch : ~IsRequest(k, toSwitch[i])
           /\ \A i \in DOMAIN toClient : ~IsAnswer(k, toClient[i])
  BY DEF Owned, RequestOwned, AnswerOwned

(* Queues as the steps change them: read from, written to, cut short.      *)
LEMMA ReadFacts ==
    ASSUME TypeOK, toClient # <<>>, Consume
    PROVE  /\ 1 \in DOMAIN toClient /\ Got = toClient[1]
           /\ DOMAIN toClient \subseteq Nat \ {0} /\ DOMAIN toClient' \subseteq Nat \ {0}
           /\ \A i \in DOMAIN toClient' : i + 1 \in DOMAIN toClient /\ toClient'[i] = toClient[i + 1]
           /\ \A i \in DOMAIN toClient : i # 1 => i - 1 \in DOMAIN toClient' /\ toClient'[i - 1] = toClient[i]
  BY TailFacts DEF Consume, TypeOK, Got

LEMMA WriteFacts ==
    ASSUME TypeOK, NEW m \in ClientMsg, Write(m)
    PROVE  /\ DOMAIN toSwitch \subseteq Nat \ {0} /\ DOMAIN toSwitch' \subseteq Nat \ {0}
           /\ \A i \in DOMAIN toSwitch : i \in DOMAIN toSwitch' /\ toSwitch'[i] = toSwitch[i]
           /\ \A i \in DOMAIN toSwitch' \ DOMAIN toSwitch :
                  i = Len(toSwitch) + 1 /\ toSwitch'[i] = m /\ open
           /\ open => Len(toSwitch) + 1 \in DOMAIN toSwitch' /\ toSwitch'[Len(toSwitch) + 1] = m
           /\ Len(toSwitch) \in Nat /\ Len(toSwitch) + 1 \notin DOMAIN toSwitch
  BY AppendFacts DEF Write, TypeOK

LEMMA HandledFacts ==
    ASSUME TypeOK, toSwitch # <<>>, NEW ms \in Seq(SwitchMsg), Say(ms)
    PROVE  /\ 1 \in DOMAIN toSwitch /\ Req = toSwitch[1] /\ toClient' = toClient \o ms
           /\ DOMAIN toSwitch \subseteq Nat \ {0} /\ DOMAIN toSwitch' \subseteq Nat \ {0}
           /\ \A i \in DOMAIN toSwitch' : i + 1 \in DOMAIN toSwitch /\ toSwitch'[i] = toSwitch[i + 1]
           /\ \A i \in DOMAIN toSwitch : i # 1 => i - 1 \in DOMAIN toSwitch' /\ toSwitch'[i - 1] = toSwitch[i]
  BY TailFacts DEF Say, TypeOK, Req

LEMMA SaidInOrder ==
    ASSUME TypeOK, NEW ms \in Seq(SwitchMsg), toClient' = toClient \o ms
    PROVE  /\ DOMAIN toClient \subseteq Nat \ {0} /\ DOMAIN toClient' \subseteq Nat \ {0}
           /\ DOMAIN ms \subseteq Nat \ {0} /\ Len(toClient) \in Nat
           /\ \A i \in DOMAIN toClient : i \in DOMAIN toClient' /\ toClient'[i] = toClient[i]
                                          /\ i <= Len(toClient)
           /\ \A i \in DOMAIN ms : Len(toClient) + i \in DOMAIN toClient'
                                    /\ toClient'[Len(toClient) + i] = ms[i]
           /\ \A i \in DOMAIN toClient' \ DOMAIN toClient :
                  i - Len(toClient) \in DOMAIN ms /\ toClient'[i] = ms[i - Len(toClient)]
  BY ConcatFacts DEF TypeOK

LEMMA CutFacts ==
    ASSUME TypeOK, Close
    PROVE  /\ DOMAIN toSwitch' = {}
           /\ DOMAIN toClient \subseteq Nat \ {0}
           /\ \A i \in DOMAIN toClient' : i \in DOMAIN toClient /\ toClient'[i] = toClient[i]
           /\ \A i \in DOMAIN toClient', j \in DOMAIN toClient : j < i => j \in DOMAIN toClient'
<1>1. PICK n \in 0 .. Len(toClient) : toClient' = SubSeq(toClient, 1, n)
  BY DEF Close
<1>2. DOMAIN toClient' = 1 .. n /\ DOMAIN toClient = 1 .. Len(toClient) /\ Len(toClient) \in Nat
      /\ \A i \in 1 .. n : toClient'[i] = toClient[i]
  BY <1>1 DEF TypeOK
<1>3. DOMAIN toSwitch' = {}
  BY DEF Close
<1> QED
  BY <1>2, <1>3

-----------------------------------------------------------------------------
(* What the steps do to Owned.                                             *)
LEMMA OwnedWrite ==
    ASSUME TypeOK, NEW k, Owned(k), NEW m \in ClientMsg, ~IsRequest(k, m), Write(m),
           UNCHANGED toClient, op.kind = k => op'.kind = k
    PROVE  Owned(k)'
  BY WriteFacts DEF Owned, RequestOwned, AnswerOwned

LEMMA OwnedRequest ==
    ASSUME TypeOK, NEW k, Owned(k), NEW m \in ClientMsg, Write(m),
           UNCHANGED toClient, op.kind # k, op'.kind = k
    PROVE  Owned(k)'
  BY WriteFacts, NothingWhenIdle DEF Owned, RequestOwned, AnswerOwned

LEMMA OwnedRead ==
    ASSUME TypeOK, NEW k, Owned(k), toClient # <<>>, Consume, UNCHANGED toSwitch,
           op.kind = k => op'.kind = k \/ IsFinal(k, Got)
    PROVE  Owned(k)'
<1>1. IsFinal(k, Got) => /\ \A i \in DOMAIN toSwitch : ~IsRequest(k, toSwitch[i])
                         /\ \A i \in DOMAIN toClient' : ~IsAnswer(k, toClient'[i])
  BY ReadFacts DEF Owned, RequestOwned, AnswerOwned, IsFinal
<1>2. RequestOwned(k)'
  BY <1>1, ReadFacts DEF Owned, RequestOwned
<1>3. AnswerOwned(k)'
  BY <1>1, ReadFacts DEF Owned, AnswerOwned
<1> QED
  BY <1>2, <1>3 DEF Owned

LEMMA OwnedSaid ==
    ASSUME TypeOK, NEW k, Owned(k), NEW ms \in Seq(SwitchMsg), toClient' = toClient \o ms,
           \A i \in DOMAIN ms : ~IsAnswer(k, ms[i]), UNCHANGED op,
           UNCHANGED toSwitch \/ (toSwitch # <<>> /\ Say(ms))
    PROVE  Owned(k)'
<1>1. \A i \in DOMAIN toClient' : IsAnswer(k, toClient'[i]) =>
          i \in DOMAIN toClient /\ toClient'[i] = toClient[i]
  BY SaidInOrder
<1>2. RequestOwned(k)'
  BY <1>1, HandledFacts DEF Owned, RequestOwned
<1>3. AnswerOwned(k)'
  BY <1>1 DEF Owned, AnswerOwned
<1> QED
  BY <1>2, <1>3 DEF Owned

(* The switch answers: in one message, or in two the first of which says   *)
(* that there is more.                                                     *)
LEMMA OwnedAnswered ==
    ASSUME TypeOK, NEW k, Owned(k), toSwitch # <<>>, IsRequest(k, Req), UNCHANGED op,
           NEW ms \in Seq(SwitchMsg), Say(ms),
           \A i, j \in DOMAIN ms : j > i => ~IsFinal(k, ms[i])
    PROVE  Owned(k)'
<1>1. /\ op.kind = k
      /\ \A i \in DOMAIN toSwitch' : ~IsRequest(k, toSwitch'[i])
      /\ \A i \in DOMAIN toClient : ~IsAnswer(k, toClient[i])
  BY HandledFacts DEF Owned, RequestOwned
<1>2. RequestOwned(k)'
  BY <1>1 DEF RequestOwned
<1>3. AnswerOwned(k)'
  <2> SUFFICES ASSUME NEW i \in DOMAIN toClient', IsAnswer(k, toClient'[i])
               PROVE  /\ op'.kind = k
                      /\ IsFinal(k, toClient'[i]) =>
                            \A j \in DOMAIN toClient' : j > i => ~IsAnswer(k, toClient'[j])
    BY DEF AnswerOwned
  <2>1. toClient' = toClient \o ms
    BY DEF Say
  <2>2. i \notin DOMAIN toClient
    BY <1>1, <2>1, SaidInOrder
  <2>3. ASSUME NEW j \in DOMAIN toClient', j > i, IsFinal(k, toClient'[i])
        PROVE  FALSE
    <3>1. j \notin DOMAIN toClient
      BY <2>1, <2>2, <2>3, ConcatFacts DEF TypeOK
    <3>2. /\ i - Len(toClient) \in DOMAIN ms /\ toClient'[i] = ms[i - Len(toClient)]
          /\ j - Len(toClient) \in DOMAIN ms /\ j - Len(toClient) > i - Len(toClient)
      BY <2>1, <2>2, <2>3, <3>1, SaidInOrder
    <3> QED
      BY <2>3, <3>2
  <2> QED
    BY <1>1, <2>3
<1> QED
  BY <1>2, <1>3 DEF Owned

LEMMA OwnedClosed ==
    ASSUME TypeOK, NEW k, Owned(k), Close, UNCHANGED op
    PROVE  Owned(k)'
  BY CutFacts DEF Owned, RequestOwned, AnswerOwned

-----------------------------------------------------------------------------
(* What a step of Next may do to the streams, to what the pending method   *)
(* is and has collected, and to what the last one returned, as long as no  *)
(* method fails.                                                           *)
AskingMethods == {"echo", "dump_flows", "monitor_flows"}

(* The pending method goes on, or one that asks nothing begins or ends.    *)
GoesOn ==
    /\ op'.kind = op.kind /\ op'.xid = op.xid
    /\ op.kind = "dump_flows" => op'.acc = op.acc
    /\ UNCHANGED last
AsksNothing ==
    /\ op.kind \notin AskingMethods /\ op'.kind \notin AskingMethods
    /\ UNCHANGED last \/ last'.kind # "dump_flows"

Stays == UNCHANGED <<toSwitch, toClient, snaps, monitoring>> /\ (GoesOn \/ AsksNothing)
WritesPlain ==
    /\ \E m \in ClientMsg : Write(m) /\ m.type \notin {"EchoRequest", "FlowStatsRequest", "FlowMonitorRequest"}
    /\ UNCHANGED <<toClient, snaps, monitoring>> /\ (GoesOn \/ AsksNothing)
WritesRequest(k) ==
    /\ op = Idle /\ nextXid \in Xid
    /\ Write(Msg(RequestType(k), nextXid)) /\ op' = Call(k, "recv", nextXid)
    /\ UNCHANGED <<toClient, snaps, monitoring, last>>

ReadsPlain ==
    /\ \/ GoesOn /\ (op.kind = "dump_flows" => ~IsPart("Flow", Got))
       \/ AsksNothing
       \/ op.kind = "monitor_flows" /\ IsPart("Experimenter", Got) /\ op' = Idle /\ last'.kind = op.kind
ReadsEcho ==
    op.kind = "echo" /\ Got.type = "EchoReply" /\ op' = Idle /\ last'.kind = op.kind
ReadsPart ==
    /\ op.kind = "dump_flows" /\ IsPart("Flow", Got) /\ Got.more
    /\ op' = [op EXCEPT !.acc = Then(op.acc, Got.body)] /\ UNCHANGED last
ReadsLastPart ==
    /\ op.kind = "dump_flows" /\ IsPart("Flow", Got) /\ ~Got.more
    /\ op' = Idle
    /\ last' = [kind |-> op.kind, res |-> "Ok", xid |-> op.xid, body |-> Then(op.acc, Got.body), sent |-> sent]
Reads ==
    /\ toClient # <<>> /\ Consume /\ UNCHANGED <<toSwitch, snaps, monitoring>>
    /\ ReadsPlain \/ ReadsEcho \/ ReadsPart \/ ReadsLastPart

PlainSaying(ms) ==
    /\ ms \in Seq(SwitchMsg)
    /\ \A i \in DOMAIN ms :
           /\ ms[i].type # "EchoReply"
           /\ ms[i].type = "MultipartReply" => ms[i].mp = "Experimenter" /\ monitoring
Serves(ms) ==
    /\ toSwitch # <<>> /\ UNCHANGED <<op, last>> /\ Say(ms)
    /\ \/ PlainSaying(ms) /\ UNCHANGED <<snaps, monitoring>>
       \/ /\ Req.type = "EchoRequest" /\ ms = <<Msg("EchoReply", Req.xid)>>
          /\ UNCHANGED <<snaps, monitoring>>
       \/ /\ Req.type = "FlowStatsRequest" /\ ms \in Reports(Req.xid, "Flow", table)
          /\ snaps' = snaps \union {[xid |-> Req.xid, flows |-> table]} /\ UNCHANGED monitoring
       \/ /\ Req.type = "FlowMonitorRequest" /\ ms \in Reports(Req.xid, "Experimenter", table)
          /\ monitoring' = TRUE /\ UNCHANGED snaps
Volunteers(ms) ==
    /\ PlainSaying(ms) /\ toClient' = toClient \o ms
    /\ UNCHANGED <<toSwitch, op, last, snaps, monitoring>>
Closes == Close /\ UNCHANGED <<op, last, snaps, monitoring>>

(* The parts of a report: all but the last say that there is more, none    *)
(* deletes, and together they hold the flows reported.                     *)
LEMMA ReportParts ==
    ASSUME NEW x, NEW mp, NEW S, NEW ms \in Reports(x, mp, S)
    PROVE  /\ \A i \in DOMAIN ms :
                  /\ ms[i].type = "MultipartReply" /\ ms[i].mp = mp /\ ms[i].xid = x
                  /\ ms[i].body.deleted = {} /\ ms[i].body.added \subseteq S
                  /\ i \in {1, 2} /\ (ms[i].more => i = 1) /\ (~ms[i].any => S = {})
           /\ \A i, j \in DOMAIN ms : j > i => ms[i].more
           /\ 1 \in DOMAIN ms
           /\ IF ms[1].more THEN /\ 2 \in DOMAIN ms /\ ~ms[2].more
                                 /\ ms[1].body.added \union ms[2].body.added = S
                            ELSE 2 \notin DOMAIN ms /\ ms[1].body.added = S
<1> DEFINE D(A) == [added |-> A, deleted |-> {}]
<1>1. CASE ms = <<Part(x, mp, D(S), S # {}, FALSE)>>
  <2> DEFINE any == S # {}
  <2>1. DOMAIN ms = {1} /\ ms[1] = Part(x, mp, D(S), any, FALSE)
    BY <1>1
  <2> HIDE DEF any
  <2>2. /\ ms[1].type = "MultipartReply" /\ ms[1].mp = mp /\ ms[1].xid = x
        /\ ms[1].body = D(S) /\ ms[1].more = FALSE
    BY <2>1 DEF Part
  <2>3. ~ms[1].any => S = {}
    <3>1. ms[1].any = any
      BY <2>1 DEF Part
    <3> QED
      BY <3>1, Zenon DEF any
  <2>4. D(S).added = S /\ D(S).deleted = {}
    OBVIOUS
  <2>5. \A i \in DOMAIN ms : ~ms[i].any => S = {}
    BY <2>1, <2>3
  <2> HIDE DEF D
  <2>6. DOMAIN ms = {1}
    BY <2>1
  <2> QED
    BY <2>2, <2>4, <2>5, <2>6
<1>2. ASSUME NEW A \in SUBSET S,
             ms = <<Part(x, mp, D(A), TRUE, TRUE), Part(x, mp, D(S \ A), TRUE, FALSE)>>
      PROVE  /\ DOMAIN ms = {1, 2}
             /\ ms[1] = Part(x, mp, D(A), TRUE, TRUE) /\ ms[2] = Part(x, mp, D(S \ A), TRUE, FALSE)
  BY <1>2
<1>3. CASE ms # <<Part(x, mp, D(S), S # {}, FALSE)>>
  <2>1. PICK A \in SUBSET S :
            ms = <<Part(x, mp, D(A), TRUE, TRUE), Part(x, mp, D(S \ A), TRUE, FALSE)>>
    BY <1>3 DEF Reports
  <2>2. /\ DOMAIN ms = {1, 2}
        /\ ms[1] = Part(x, mp, D(A), TRUE, TRUE) /\ ms[2] = Part(x, mp, D(S \ A), TRUE, FALSE)
    BY <1>2, <2>1
  <2> QED
    BY <2>2 DEF Part
<1> QED
  BY <1>1, <1>3

LEMMA PlainSayings ==
    ASSUME TypeOK
    PROVE  /\ PlainSaying(<<>>)
           /\ \A t \in {"Error", "BarrierReply", "EchoRequest", "PacketIn", "PortStatus"}, x \in Xid :
                  PlainSaying(<<Msg(t, x)>>)
           /\ \A d \in Delta : PlainSaying(Notice(d))
<1>1. PlainSaying(<<>>)
  BY ShortSeq DEF PlainSaying
<1>2. ASSUME NEW m \in SwitchMsg, m.type # "EchoReply",
             m.type = "MultipartReply" => m.mp = "Experimenter" /\ monitoring
      PROVE  PlainSaying(<<m>>)
  <2>1. DOMAIN <<m>> = {1} /\ <<m>>[1] = m /\ <<m>> \in Seq(SwitchMsg)
    BY <1>2, ShortSeq
  <2> QED
    BY <1>2, <2>1 DEF PlainSaying
<1>3. ASSUME NEW t \in {"Error", "BarrierReply", "EchoRequest", "PacketIn", "PortStatus"}, NEW x \in Xid
      PROVE  PlainSaying(<<Msg(t, x)>>)
  <2>1. Msg(t, x) \in SwitchMsg /\ Msg(t, x).type = t
    BY <1>3, SwitchMsgType DEF Msg
  <2> QED
    BY <1>2, <1>3, <2>1
<1>4. ASSUME NEW d \in Delta PROVE PlainSaying(Notice(d))
  <2>1. /\ Part(0, "Experimenter", d, TRUE, FALSE) \in SwitchMsg
        /\ Part(0, "Experimenter", d, TRUE, FALSE).type = "MultipartReply"
        /\ Part(0, "Experimenter", d, TRUE, FALSE).mp = "Experimenter"
    BY <1>4, XidType, SwitchMsgType DEF Part
  <2> QED
    BY <1>1, <1>2, <2>1 DEF Notice
<1> QED
  BY <1>1, <1>3, <1>4

LEMMA StepShapes ==
    ASSUME TypeOK, [Next]_vars, ~broken'
    PROVE  \/ Stays \/ WritesPlain \/ Reads \/ Closes
           \/ \E k \in AskingMethods : WritesRequest(k)
           \/ \E ms \in Seq(SwitchMsg) : Serves(ms) \/ Volunteers(ms)
<1> DEFINE Shape == \/ Stays \/ WritesPlain \/ Reads \/ Closes
                    \/ \E k \in AskingMethods : WritesRequest(k)
                    \/ \E ms \in Seq(SwitchMsg) : Serves(ms) \/ Volunteers(ms)
<1> SUFFICES Shape
  OBVIOUS
<1>a. nextXid \in Xid /\ op.echo \in Xid /\ op.kind \in Methods \union {"none"}
  BY DEF TypeOK, Pending
<1>i. Idle.kind \notin AskingMethods
  BY DEF Idle, AskingMethods
<1>w. ASSUME NEW m \in ClientMsg, Write(m), m.type \notin {"EchoRequest", "FlowStatsRequest", "FlowMonitorRequest"},
             UNCHANGED <<toClient, snaps, monitoring>>, GoesOn \/ AsksNothing
      PROVE  Shape
  BY <1>w DEF WritesPlain
<1>1. CASE Connect
  <2>1. Msg("Hello", nextXid) \in ClientMsg /\ Msg("Hello", nextXid).type = "Hello"
    BY <1>a, ClientMsgType DEF Msg
  <2>2. AsksNothing
    BY <1>1, <1>i DEF Connect, AsksNothing, Call, AskingMethods
  <2> QED
    BY <1>1, <1>w, <2>1, <2>2 DEF Connect, switch
<1>2. CASE SendPacketOut
  <2>1. Msg("PacketOut", nextXid) \in ClientMsg /\ Msg("PacketOut", nextXid).type = "PacketOut"
    BY <1>a, ClientMsgType DEF Msg
  <2>2. AsksNothing
    BY <1>2, <1>i DEF SendPacketOut, SendAndReturn, CanCall, AsksNothing
  <2> QED
    BY <1>2, <1>w, <2>1, <2>2 DEF SendPacketOut, SendAndReturn, switch
<1>3. ASSUME NEW f \in Flows, NEW c \in {"add", "delete"}, SendFlow(c, f) \/ SendFlowSync(c, f)
      PROVE  Shape
  <2>1. FlowMod(nextXid, c, f) \in ClientMsg /\ FlowMod(nextXid, c, f).type = "FlowMod"
    BY <1>a, ClientMsgType DEF FlowMod
  <2>2. AsksNothing
    BY <1>3, <1>i DEF SendFlow, SendFlowSync, SendAndReturn, CanCall, AsksNothing, Call, AskingMethods
  <2> QED
    BY <1>3, <1>w, <2>1, <2>2 DEF SendFlow, SendFlowSync, SendAndReturn, switch
<1>4. ASSUME NEW k \in {"barrier", "echo", "dump_flows", "monitor_flows"}, SendRequest(k)
      PROVE  Shape
  <2>1. CASE k = "barrier"
    <3>1. RequestType(k) = "BarrierRequest"
      BY <2>1 DEF RequestType
    <3>2. Msg("BarrierRequest", nextXid) \in ClientMsg /\ Msg("BarrierRequest", nextXid).type = "BarrierRequest"
      BY <1>a, ClientMsgType DEF Msg
    <3>3. AsksNothing
      BY <1>4, <1>i, <2>1 DEF SendRequest, CanCall, AsksNothing, Call, AskingMethods
    <3> QED
      BY <1>4, <1>w, <3>1, <3>2, <3>3 DEF SendRequest, switch
  <2>2. CASE k # "barrier"
    <3>1. WritesRequest(k) /\ k \in AskingMethods
      BY <1>4, <1>a, <2>2 DEF SendRequest, CanCall, WritesRequest, switch, AskingMethods
    <3> QED
      BY <3>1
  <2> QED
    BY <2>1, <2>2
<1>5. ASSUME NEW k \in Receives, StartReceive(k)
      PROVE  Shape
  <2>1. AsksNothing
    BY <1>5, <1>i DEF StartReceive, CanCall, AsksNothing, Call, AskingMethods, Receives
  <2> QED
    BY <1>5, <2>1 DEF StartReceive, Stays, wire, switch
<1>6. CASE SendBarrier
  <2>1. Msg("BarrierRequest", nextXid) \in ClientMsg /\ Msg("BarrierRequest", nextXid).type = "BarrierRequest"
    BY <1>a, ClientMsgType DEF Msg
  <2>2. GoesOn
    BY <1>6 DEF SendBarrier, GoesOn, TypeOK, Pending
  <2> QED
    BY <1>6, <1>w, <2>1, <2>2 DEF SendBarrier, switch
<1>7. CASE SendEchoReply
  <2>1. Msg("EchoReply", op.echo) \in ClientMsg /\ Msg("EchoReply", op.echo).type = "EchoReply"
    BY <1>a, ClientMsgType DEF Msg
  <2>2. GoesOn \/ AsksNothing
    <3>1. CASE op.kind = "try_recv_packet_in"
      BY <1>7, <1>i, <3>1 DEF SendEchoReply, Return, AsksNothing, AskingMethods
    <3>2. CASE op.kind # "try_recv_packet_in"
      BY <1>7, <3>2 DEF SendEchoReply, GoesOn, TypeOK, Pending
    <3> QED
      BY <3>1, <3>2
  <2> QED
    BY <1>7, <1>w, <2>1, <2>2 DEF SendEchoReply, switch
(* Reading: a method that asked nothing returns, or the future stays.      *)
<1>n. ASSUME NEW kinds, Receiving(kinds), Consume, ReadOnly, NEW r, NEW b, Return(r, b),
             op.kind \notin AskingMethods
      PROVE  Shape
  <2>1. AsksNothing
    BY <1>n, <1>i DEF Return, AsksNothing, AskingMethods
  <2> QED
    BY <1>n, <2>1 DEF Receiving, ReadOnly, switch, Reads, ReadsPlain
<1>g. ASSUME NEW kinds, Receiving(kinds), Consume, ReadOnly, GoesOn,
             op.kind = "dump_flows" => ~IsPart("Flow", Got)
      PROVE  Shape
  BY <1>g DEF Receiving, ReadOnly, switch, Reads, ReadsPlain
<1>e. ASSUME NEW b, Return("Err", b) \/ Return("Dropped", b) PROVE Shape
  BY <1>e DEF Return
<1>8. CASE RecvHello
  BY <1>8, <1>n DEF RecvHello, Receiving, AskingMethods
<1>9. CASE RecvEchoReply
  <2>1. Got.type = "EchoReply" /\ Return("Ok", NoDelta)
    <3>1. ~Return("Err", NoDelta)
      BY DEF Return
    <3>2. CASE Got.type = "EchoReply" /\ Got.xid = op.xid
      BY <1>9, <3>2 DEF RecvEchoReply
    <3>3. CASE ~(Got.type = "EchoReply" /\ Got.xid = op.xid)
      BY <1>9, <3>1, <3>3 DEF RecvEchoReply
    <3> QED
      BY <3>2, <3>3
  <2>2. ReadsEcho
    BY <1>9, <2>1 DEF RecvEchoReply, Receiving, ReadsEcho, Return
  <2> QED
    BY <1>9, <2>2 DEF RecvEchoReply, Receiving, ReadOnly, switch, Reads
<1>10. CASE RecvError
  BY <1>10, <1>e DEF RecvError
<1>11. CASE RecvEchoRequest
  <2>1. GoesOn
    BY <1>11 DEF RecvEchoRequest, GoesOn, TypeOK, Pending
  <2> QED
    BY <1>11, <1>g, <2>1 DEF RecvEchoRequest, IsPart
<1>12. CASE RecvBarrierReply
  BY <1>12, <1>n DEF RecvBarrierReply, Receiving, AskingMethods
<1>13. CASE RecvCollected("dump_flows", "Flow")
  <2>0. ~Return("Err", NoDelta)
    BY DEF Return
  <2>1. op.kind = "dump_flows" /\ IsPart("Flow", Got)
    BY <1>13, <2>0 DEF RecvCollected, Receiving, IsPart
  <2>2. ReadsPart \/ ReadsLastPart
    BY <1>13, <2>0, <2>1 DEF RecvCollected, ReadsPart, ReadsLastPart, Return
  <2> QED
    BY <1>13, <2>2 DEF RecvCollected, Receiving, ReadOnly, switch, Reads
<1>14. CASE RecvCollected("monitor_flows", "Experimenter")
  <2>0. ~Return("Err", NoDelta)
    BY DEF Return
  <2>1. op.kind = "monitor_flows" /\ IsPart("Experimenter", Got)
    BY <1>14, <2>0 DEF RecvCollected, Receiving, IsPart
  <2>2. CASE Return("Ok", Then(op.acc, Got.body))
    <3>1. ReadsPlain
      BY <2>1, <2>2 DEF ReadsPlain, Return
    <3> QED
      BY <1>14, <3>1 DEF RecvCollected, Receiving, ReadOnly, switch, Reads
  <2>3. CASE op' = [op EXCEPT !.acc = Then(op.acc, Got.body)] /\ UNCHANGED <<last, broken, view>>
    <3>1. GoesOn
      BY <2>1, <2>3 DEF GoesOn, TypeOK, Pending
    <3> QED
      BY <1>14, <1>g, <2>1, <3>1 DEF RecvCollected
  <2> QED
    BY <1>14, <2>0, <2>2, <2>3 DEF RecvCollected
<1>15. CASE RecvUpdates
  <2>1. op.kind \notin AskingMethods
    BY <1>15 DEF RecvUpdates, Receiving, AskingMethods
  <2>2. CASE Return("Err", NoDelta) \/ Return("Ok", Got.body)
    BY <1>15, <1>n, <2>1, <2>2 DEF RecvUpdates
  <2>3. CASE UNCHANGED <<op, last, broken, view>>
    BY <1>15, <1>g, <2>1, <2>3 DEF RecvUpdates, GoesOn, AskingMethods
  <2> QED
    BY <1>15, <2>2, <2>3 DEF RecvUpdates
<1>16. CASE RecvPacketIn
  BY <1>16, <1>n DEF RecvPacketIn, Receiving, AskingMethods
<1>17. CASE RecvOther
  <2>1. CASE op.kind = "try_recv_packet_in"
    BY <1>17, <1>n, <2>1 DEF RecvOther, AskingMethods
  <2>2. CASE op.kind # "try_recv_packet_in"
    <3>1. GoesOn /\ (op.kind = "dump_flows" => ~IsPart("Flow", Got))
      BY <1>17, <2>2 DEF RecvOther, GoesOn, Accepts, IsPart
    <3> QED
      BY <1>17, <1>g, <3>1 DEF RecvOther
  <2> QED
    BY <2>1, <2>2
<1>18. CASE StreamFails \/ Drop
  BY <1>18, <1>e DEF StreamFails, Drop
<1>s. ASSUME toSwitch # <<>>, UNCHANGED <<client, snaps, monitoring>>, NEW ms, PlainSaying(ms), Say(ms)
      PROVE  Shape
  BY <1>s DEF client, PlainSaying, Serves
<1>f. ASSUME toSwitch # <<>>, UNCHANGED <<client, snaps, monitoring>>, Refuse
      PROVE  Shape
  BY <1>f, <1>s, ReqType, PlainSayings DEF Refuse
<1>19. CASE SwitchFlowMod
  <2>1. toSwitch # <<>> /\ UNCHANGED <<client, snaps, monitoring>>
    BY <1>19 DEF SwitchFlowMod, Handling
  <2>2. Refuse \/ Say(Notice(NoDelta)) \/ Say(<<>>)
    BY <1>19 DEF SwitchFlowMod
  <2> QED
    BY <1>f, <1>s, <2>1, <2>2, PlainSayings, DeltaType
<1>20. CASE SwitchBarrier
  <2>1. toSwitch # <<>> /\ UNCHANGED <<client, snaps, monitoring>> /\ Say(<<Msg("BarrierReply", Req.xid)>>)
    BY <1>20 DEF SwitchBarrier, Handling, switch
  <2> QED
    BY <1>s, <2>1, ReqType, PlainSayings
<1>21. CASE SwitchEcho
  <2>1. /\ toSwitch # <<>> /\ UNCHANGED <<client, snaps, monitoring>> /\ Req.type = "EchoRequest"
        /\ Say(<<Msg("EchoReply", Req.xid)>>)
    BY <1>21 DEF SwitchEcho, Handling, Req, switch
  <2>2. <<Msg("EchoReply", Req.xid)>> \in Seq(SwitchMsg)
    BY <2>1, ReqType, SwitchMsgType, ShortSeq
  <2> QED
    BY <2>1, <2>2 DEF client, Serves
<1>22. CASE SwitchEchoReply
  BY <1>22, <1>s, PlainSayings DEF SwitchEchoReply, Handling
<1>23. CASE SwitchStats
  <2>1. toSwitch # <<>> /\ UNCHANGED <<client, monitoring>> /\ Req.type = "FlowStatsRequest"
    BY <1>23 DEF SwitchStats, Handling, Req
  <2>2. CASE Refuse /\ UNCHANGED snaps
    BY <1>f, <2>1, <2>2
  <2>3. ASSUME NEW ms \in Reports(Req.xid, "Flow", table), Say(ms),
               snaps' = snaps \union {[xid |-> Req.xid, flows |-> table]}
        PROVE  Shape
    <3>1. ms \in Seq(SwitchMsg)
      BY <2>1, ReportsType, ReqType DEF TypeOK
    <3> QED
      BY <2>1, <2>3, <3>1 DEF client, Serves
  <2> QED
    BY <1>23, <2>2, <2>3 DEF SwitchStats
<1>24. CASE SwitchMonitor
  <2>1. toSwitch # <<>> /\ UNCHANGED <<client, snaps>> /\ Req.type = "FlowMonitorRequest"
    BY <1>24 DEF SwitchMonitor, Handling, Req
  <2>2. CASE Refuse /\ UNCHANGED monitoring
    BY <1>f, <2>1, <2>2
  <2>3. ASSUME NEW ms \in Reports(Req.xid, "Experimenter", table), Say(ms), monitoring' = TRUE
        PROVE  Shape
    <3>1. ms \in Seq(SwitchMsg)
      BY <2>1, ReportsType, ReqType DEF TypeOK
    <3> QED
      BY <2>1, <2>3, <3>1 DEF client, Serves
  <2> QED
    BY <1>24, <2>2, <2>3 DEF SwitchMonitor
<1>25. CASE SwitchOther
  <2>1. toSwitch # <<>> /\ UNCHANGED <<client, snaps, monitoring>>
    BY <1>25 DEF SwitchOther, Handling, switch
  <2> QED
    BY <1>25, <1>f, <1>s, <2>1, PlainSayings DEF SwitchOther
<1>v. ASSUME NEW ms, PlainSaying(ms), toClient' = toClient \o ms,
             UNCHANGED <<toSwitch, client, snaps, monitoring>>
      PROVE  Shape
  BY <1>v DEF client, PlainSaying, Volunteers
<1>26. ASSUME NEW t \in {"EchoRequest", "PacketIn", "PortStatus"}, SwitchAsync(t)
       PROVE  Shape
  <2>1. Msg(t, asyncs % XidModulus) \in SwitchMsg /\ asyncs % XidModulus \in Xid
    BY XidType, SwitchMsgType DEF TypeOK
  <2>2. toClient' = toClient \o <<Msg(t, asyncs % XidModulus)>>
    BY <1>26, <2>1 DEF SwitchAsync, TypeOK
  <2> QED
    BY <1>26, <1>v, <2>1, <2>2, PlainSayings DEF SwitchAsync
<1>27. ASSUME NEW f \in Flows, OtherController(f)
       PROVE  Shape
  <2>1. UNCHANGED <<toSwitch, client, snaps, monitoring>>
    BY <1>27 DEF OtherController
  <2>2. CASE toClient' = toClient
    <3>1. GoesOn
      BY <2>1 DEF GoesOn, client
    <3> QED
      BY <2>1, <2>2, <3>1 DEF Stays
  <2>3. CASE toClient' # toClient
    <3>1. /\ PlainSaying(Notice([added |-> {f}, deleted |-> {}]))
          /\ PlainSaying(Notice([added |-> {}, deleted |-> {f}]))
      BY PlainSayings, DeltaType
    <3> QED
      BY <1>27, <1>v, <2>1, <2>3, <3>1 DEF OtherController
  <2> QED
    BY <2>2, <2>3
<1>28. CASE Close
  BY <1>28 DEF Closes, Close, client, switch
<1>29. CASE UNCHANGED vars
  BY <1>29 DEF vars, wire, client, switch, Stays, GoesOn
<1> QED
  BY <1>1, <1>2, <1>3, <1>4, <1>5, <1>6, <1>7, <1>8, <1>9, <1>10, <1>11, <1>12, <1>13, <1>14, <1>15,
     <1>16, <1>17, <1>18, <1>19, <1>20, <1>21, <1>22, <1>23, <1>24, <1>25, <1>26, <1>27, <1>28, <1>29
     DEF Next, ClientCalls, ClientSteps, SwitchActs, SwitchHandles

-----------------------------------------------------------------------------
(* Owned is kept, whichever the exchange.                                  *)
LEMMA OwnedNext ==
    ASSUME TypeOK, [Next]_vars, ~broken', NEW k \in Exchanges, Owned(k)
    PROVE  Owned(k)'
<1>a. k \in AskingMethods /\ k \in {"echo", "dump_flows"}
  BY DEF Exchanges, AskingMethods
<1>b. GoesOn \/ AsksNothing => (op.kind = k => op'.kind = k)
  BY <1>a DEF GoesOn, AsksNothing
<1>1. CASE Stays
  <2>1. op.kind = k => op'.kind = k
    BY <1>1, <1>b DEF Stays
  <2>2. UNCHANGED <<toSwitch, toClient>>
    BY <1>1 DEF Stays
  <2> QED
    BY <2>1, <2>2 DEF Owned, RequestOwned, AnswerOwned
<1>2. CASE WritesPlain
  <2>1. PICK m \in ClientMsg : Write(m) /\ m.type \notin {"EchoRequest", "FlowStatsRequest", "FlowMonitorRequest"}
    BY <1>2 DEF WritesPlain
  <2>2. ~IsRequest(k, m)
    BY <2>1 DEF IsRequest
  <2> QED
    BY <1>2, <1>b, <2>1, <2>2, OwnedWrite DEF WritesPlain
<1>3. ASSUME NEW a \in AskingMethods, WritesRequest(a) PROVE Owned(k)'
  <2>1. Msg(RequestType(a), nextXid) \in ClientMsg /\ Msg(RequestType(a), nextXid).type = RequestType(a)
    BY <1>3, ClientMsgType DEF WritesRequest, AskingMethods, RequestType, Msg
  <2>2. op.kind # k /\ op'.kind = a
    BY <1>3, <1>a DEF WritesRequest, Idle, Call
  <2>3. CASE a = k
    BY <1>3, <2>1, <2>2, <2>3, OwnedRequest DEF WritesRequest
  <2>4. CASE a # k
    <3>1. ~IsRequest(k, Msg(RequestType(a), nextXid))
      BY <1>3, <1>a, <2>1, <2>4 DEF IsRequest, AskingMethods, RequestType
    <3> QED
      BY <1>3, <2>1, <2>2, <3>1, OwnedWrite DEF WritesRequest
  <2> QED
    BY <2>3, <2>4
<1>4. CASE Reads
  <2>1. op.kind = k => op'.kind = k \/ IsFinal(k, Got)
    <3>1. CASE ReadsPlain
      BY <1>a, <1>b, <3>1 DEF ReadsPlain
    <3>2. CASE ReadsEcho
      BY <3>2 DEF ReadsEcho, IsFinal, IsAnswer
    <3>3. CASE ReadsPart
      BY <3>3 DEF ReadsPart, TypeOK, Pending
    <3>4. CASE ReadsLastPart
      BY <3>4 DEF ReadsLastPart, IsFinal, IsAnswer
    <3> QED
      BY <1>4, <3>1, <3>2, <3>3, <3>4 DEF Reads
  <2> QED
    BY <1>4, <2>1, OwnedRead DEF Reads
<1>s. ASSUME NEW ms, PlainSaying(ms) PROVE \A i \in DOMAIN ms : ~IsAnswer(k, ms[i])
  BY <1>s DEF PlainSaying, IsAnswer, IsPart
<1>5. ASSUME NEW ms \in Seq(SwitchMsg), Serves(ms) PROVE Owned(k)'
  <2>1. toSwitch # <<>> /\ UNCHANGED op /\ Say(ms) /\ toClient' = toClient \o ms
    BY <1>5 DEF Serves, Say
  <2>2. CASE \A i \in DOMAIN ms : ~IsAnswer(k, ms[i])
    BY <2>1, <2>2, OwnedSaid
  <2>3. CASE IsRequest(k, Req) /\ \A i, j \in DOMAIN ms : j > i => ~IsFinal(k, ms[i])
    BY <2>1, <2>3, OwnedAnswered
  <2>4. CASE PlainSaying(ms)
    BY <1>s, <2>2, <2>4
  <2>5. CASE Req.type = "EchoRequest" /\ ms = <<Msg("EchoReply", Req.xid)>>
    <3>1. DOMAIN ms = {1} /\ ms[1].type = "EchoReply"
      BY <2>5 DEF Msg
    <3> QED
      BY <1>a, <2>2, <2>3, <2>5, <3>1 DEF IsRequest, IsAnswer, IsPart
  <2>6. ASSUME NEW mp \in {"Flow", "Experimenter"}, ms \in Reports(Req.xid, mp, table),
               Req.type = IF mp = "Flow" THEN "FlowStatsRequest" ELSE "FlowMonitorRequest"
        PROVE  Owned(k)'
    <3>1. \A i \in DOMAIN ms : ms[i].type = "MultipartReply" /\ ms[i].mp = mp
      BY <2>6, ReportParts
    <3>2. \A i, j \in DOMAIN ms : j > i => ms[i].more
      BY <2>6, ReportParts
    <3>3. CASE k = "dump_flows" /\ mp = "Flow"
      BY <2>3, <2>6, <3>2, <3>3 DEF IsRequest, IsFinal
    <3>4. CASE k = "echo" \/ mp = "Experimenter"
      BY <1>a, <2>2, <3>1, <3>4 DEF IsAnswer, IsPart
    <3> QED
      BY <1>a, <3>3, <3>4
  <2> QED
    BY <1>5, <2>4, <2>5, <2>6 DEF Serves
<1>6. ASSUME NEW ms \in Seq(SwitchMsg), Volunteers(ms) PROVE Owned(k)'
  BY <1>6, <1>s, OwnedSaid DEF Volunteers
<1>7. CASE Closes
  BY <1>7, OwnedClosed DEF Closes
<1> QED
  BY <1>1, <1>2, <1>3, <1>4, <1>5, <1>6, <1>7, StepShapes

-----------------------------------------------------------------------------
(* What a dump is made of.  A stats request in flight is the pending       *)
(* dump's, which has collected nothing; a part says that more follows only *)
(* if it is the first; and with the last part, what was collected or the   *)
(* part ahead of it makes up a table the switch had for this very request. *)
PartBefore(i) == {j \in DOMAIN toClient : j < i /\ IsPart("Flow", toClient[j])}
DumpServed(i) ==
    \E S \in SUBSET Flows :
        /\ [xid |-> op.xid, flows |-> S] \in snaps
        /\ \/ PartBefore(i) = {} /\ S = op.acc.added \union toClient[i].body.added
           \/ \E j \in PartBefore(i) : S = toClient[j].body.added \union toClient[i].body.added

DumpRequested ==
    \A i \in DOMAIN toSwitch : toSwitch[i].type = "FlowStatsRequest" =>
        toSwitch[i].xid = op.xid /\ op.acc = NoDelta
DumpAnswered ==
    \A i \in DOMAIN toClient : IsPart("Flow", toClient[i]) =>
        /\ toClient[i].body.deleted = {}
        /\ IF toClient[i].more THEN op.acc = NoDelta /\ PartBefore(i) = {} ELSE DumpServed(i)
DumpInv == DumpRequested /\ DumpAnswered

LEMMA DumpIdle ==
    ASSUME \A i \in DOMAIN toSwitch : ~IsRequest("dump_flows", toSwitch[i]),
           \A i \in DOMAIN toClient : ~IsAnswer("dump_flows", toClient[i])
    PROVE  DumpInv
  BY DEF IsRequest, IsAnswer, DumpInv, DumpRequested, DumpAnswered

(* The parts in flight are the same, at the same or shifted places.        *)
LEMMA DumpSame ==
    ASSUME DumpAnswered, snaps \subseteq snaps', NEW n \in {0, 1},
           DOMAIN toClient \subseteq Nat, DOMAIN toClient' \subseteq Nat,
           \A i \in DOMAIN toClient' : IsPart("Flow", toClient'[i]) =>
               i + n \in DOMAIN toClient /\ toClient'[i] = toClient[i + n]
                  /\ op'.xid = op.xid /\ op'.acc = op.acc,
           \A i \in DOMAIN toClient : IsPart("Flow", toClient[i]) /\ i - n \in DOMAIN toClient' =>
               toClient'[i - n] = toClient[i],
           \A i \in DOMAIN toClient, j \in DOMAIN toClient' :
               IsPart("Flow", toClient[i]) /\ i - n < j => i - n \in DOMAIN toClient'
    PROVE  DumpAnswered'
<1> SUFFICES ASSUME NEW i \in DOMAIN toClient', IsPart("Flow", toClient'[i])
             PROVE  /\ toClient'[i].body.deleted = {}
                    /\ IF toClient'[i].more THEN op'.acc = NoDelta /\ PartBefore(i)' = {}
                       ELSE DumpServed(i)'
  BY DEF DumpAnswered
<1>1. /\ i + n \in DOMAIN toClient /\ toClient'[i] = toClient[i + n]
      /\ op'.xid = op.xid /\ op'.acc = op.acc
  OBVIOUS
<1>2. \A j \in PartBefore(i)' : j + n \in PartBefore(i + n) /\ toClient'[j] = toClient[j + n]
  BY <1>1 DEF PartBefore
<1>3. \A j \in PartBefore(i + n) : j - n \in PartBefore(i)' /\ toClient'[j - n] = toClient[j]
  BY <1>1 DEF PartBefore
<1>4. PartBefore(i + n) = {} <=> PartBefore(i)' = {}
  BY <1>2, <1>3
<1>5. CASE toClient'[i].more
  BY <1>1, <1>4, <1>5 DEF DumpAnswered
<1>6. CASE ~toClient'[i].more
  <2>1. toClient[i + n].body.deleted = {} /\ DumpServed(i + n)
    BY <1>1, <1>6 DEF DumpAnswered
  <2>2. PICK S \in SUBSET Flows :
           /\ [xid |-> op.xid, flows |-> S] \in snaps
           /\ \/ PartBefore(i + n) = {} /\ S = op.acc.added \union toClient[i + n].body.added
              \/ \E j \in PartBefore(i + n) : S = toClient[j].body.added \union toClient[i + n].body.added
    BY <2>1 DEF DumpServed
  <2>3. CASE PartBefore(i + n) = {} /\ S = op.acc.added \union toClient[i + n].body.added
    BY <1>1, <1>4, <1>6, <2>1, <2>2, <2>3 DEF DumpServed
  <2>4. ASSUME NEW j \in PartBefore(i + n), S = toClient[j].body.added \union toClient[i + n].body.added
        PROVE  DumpServed(i)'
    BY <1>1, <1>3, <2>2, <2>4 DEF DumpServed
  <2> QED
    BY <1>1, <1>6, <2>1, <2>2, <2>3, <2>4
<1> QED
  BY <1>5, <1>6

LEMMA DumpSaid ==
    ASSUME TypeOK, DumpAnswered, UNCHANGED op, snaps \subseteq snaps',
           NEW ms \in Seq(SwitchMsg), toClient' = toClient \o ms,
           \A i \in DOMAIN ms : ~IsPart("Flow", ms[i])
    PROVE  DumpAnswered'
<1>1. /\ DOMAIN toClient \subseteq Nat \ {0} /\ DOMAIN toClient' \subseteq Nat \ {0}
      /\ \A i \in DOMAIN toClient : i \in DOMAIN toClient' /\ toClient'[i] = toClient[i]
      /\ \A i \in DOMAIN toClient' : IsPart("Flow", toClient'[i]) => i \in DOMAIN toClient
  BY SaidInOrder
<1> QED
  BY <1>1, DumpSame

(* A part is read; the one behind it, if any, is the last.                 *)
LEMMA DumpReadPart ==
    ASSUME TypeOK, Owned("dump_flows"), DumpInv, Reads, ReadsPart
    PROVE  DumpInv'
<1>1. IsAnswer("dump_flows", toClient[1]) /\ 1 \in DOMAIN toClient /\ Got = toClient[1] /\ Got.more
  BY ReadFacts DEF Reads, ReadsPart, IsAnswer
<1>2. DumpRequested'
  <2>1. \A i \in DOMAIN toSwitch' : toSwitch'[i].type # "FlowStatsRequest"
    BY <1>1 DEF Owned, RequestOwned, IsRequest, Reads
  <2> QED
    BY <2>1 DEF DumpRequested
<1>3. op.acc = NoDelta /\ Got.body.deleted = {}
  BY <1>1 DEF DumpInv, DumpAnswered, IsAnswer
<1>4. op'.xid = op.xid /\ op'.acc.added = Got.body.added
  BY <1>3 DEF ReadsPart, TypeOK, Pending, Then, NoDelta
<1>5. ASSUME NEW i \in DOMAIN toClient, IsPart("Flow", toClient[i]), i # 1
      PROVE  ~toClient[i].more /\ \A j \in DOMAIN toClient : j # 1 /\ j < i => ~IsPart("Flow", toClient[j])
  <2>1. \A j \in DOMAIN toClient : j # 1 /\ IsPart("Flow", toClient[j]) => 1 \in PartBefore(j)
    BY <1>1, ReadFacts DEF PartBefore, IsAnswer, Reads
  <2>2. \A j \in DOMAIN toClient : j # 1 /\ IsPart("Flow", toClient[j]) => ~toClient[j].more
    BY <2>1 DEF DumpInv, DumpAnswered
  <2>3. \A j \in DOMAIN toClient : j # 1 /\ j < i => ~IsPart("Flow", toClient[j])
    BY <1>5, <2>2, ReadFacts DEF Owned, AnswerOwned, IsAnswer, IsFinal, Reads
  <2> QED
    BY <1>5, <2>2, <2>3
<1>6. ASSUME NEW i \in DOMAIN toClient', IsPart("Flow", toClient'[i])
      PROVE  toClient'[i].body.deleted = {} /\ ~toClient'[i].more /\ DumpServed(i)'
  <2>1. /\ i + 1 \in DOMAIN toClient /\ toClient'[i] = toClient[i + 1] /\ i + 1 # 1
        /\ IsPart("Flow", toClient[i + 1]) /\ i \in Nat
    BY <1>6, ReadFacts DEF Reads
  <2>2. ~toClient[i + 1].more /\ \A j \in DOMAIN toClient : j # 1 /\ j < i + 1 => ~IsPart("Flow", toClient[j])
    BY <1>5, <2>1
  <2>3. toClient[i + 1].body.deleted = {} /\ DumpServed(i + 1)
    BY <2>1, <2>2 DEF DumpInv, DumpAnswered
  <2>4. PartBefore(i + 1) = {1}
    BY <1>1, <2>1, <2>2, ReadFacts DEF PartBefore, IsAnswer, Reads
  <2>5. PICK S \in SUBSET Flows : /\ [xid |-> op.xid, flows |-> S] \in snaps
                                  /\ S = toClient[1].body.added \union toClient[i + 1].body.added
    BY <2>3, <2>4 DEF DumpServed
  <2>6. PartBefore(i)' = {}
    <3>1. \A j \in DOMAIN toClient' : j + 1 \in DOMAIN toClient /\ toClient'[j] = toClient[j + 1] /\ j \in Nat \ {0}
      BY ReadFacts DEF Reads
    <3> QED
      BY <2>1, <2>2, <3>1 DEF PartBefore
  <2>7. S = op'.acc.added \union toClient'[i].body.added /\ [xid |-> op'.xid, flows |-> S] \in snaps'
    BY <1>1, <1>4, <2>1, <2>5 DEF Reads
  <2> QED
    BY <2>1, <2>2, <2>3, <2>6, <2>7 DEF DumpServed
<1> QED
  BY <1>2, <1>6 DEF DumpInv, DumpAnswered

(* The switch serves the request: in one part, or in two.                  *)
LEMMA DumpReported ==
    ASSUME TypeOK, Owned("dump_flows"), DumpInv, UNCHANGED op, toSwitch # <<>>,
           Req.type = "FlowStatsRequest", NEW ms \in Reports(Req.xid, "Flow", table), Say(ms),
           snaps' = snaps \union {[xid |-> Req.xid, flows |-> table]}
    PROVE  DumpInv'
<1>1. ms \in Seq(SwitchMsg) /\ toClient' = toClient \o ms
  BY ReqType, ReportsType DEF TypeOK, Say
<1>2. /\ 1 \in DOMAIN toSwitch /\ Req = toSwitch[1] /\ IsRequest("dump_flows", toSwitch[1])
      /\ \A i \in DOMAIN toSwitch' : i \in Nat \ {0} /\ i + 1 \in DOMAIN toSwitch /\ toSwitch'[i] = toSwitch[i + 1]
  BY <1>1, HandledFacts DEF IsRequest
<1>3. op.xid = Req.xid /\ op.acc = NoDelta
  BY <1>2 DEF DumpInv, DumpRequested
<1>4. /\ \A i \in DOMAIN toClient : ~IsPart("Flow", toClient[i])
      /\ \A i \in DOMAIN toSwitch' : ~IsRequest("dump_flows", toSwitch'[i])
  BY <1>2 DEF Owned, RequestOwned, IsAnswer
<1>5. DumpRequested'
  BY <1>4 DEF DumpRequested, IsRequest
<1>6. ASSUME NEW i \in DOMAIN toClient', IsPart("Flow", toClient'[i])
      PROVE  /\ toClient'[i].body.deleted = {}
             /\ IF toClient'[i].more THEN op'.acc = NoDelta /\ PartBefore(i)' = {} ELSE DumpServed(i)'
  <2> DEFINE L == Len(toClient)
  <2>0. L \in Nat /\ \A j \in DOMAIN toClient : j <= L
    BY <1>1, SaidInOrder
  <2>1. i \notin DOMAIN toClient /\ i - L \in DOMAIN ms /\ toClient'[i] = ms[i - L] /\ i \in Nat
    BY <1>1, <1>4, <1>6, SaidInOrder
  <2>2. /\ ms[i - L].body.deleted = {} /\ i - L \in {1, 2}
        /\ ms[i - L].more => i - L = 1
    BY <2>1, ReportParts
  <2>3. \A j \in PartBefore(i)' : j = L + 1 /\ i = L + 2
    <3>1. \A j \in PartBefore(i)' : j \in DOMAIN toClient' \ DOMAIN toClient /\ j < i /\ j \in Nat
      BY <1>1, <1>4, SaidInOrder DEF PartBefore
    <3>2. \A j \in PartBefore(i)' : j - L \in {1, 2}
      BY <1>1, <3>1, SaidInOrder, ReportParts
    <3> QED
      BY <2>0, <2>1, <2>2, <3>1, <3>2
  <2>4. CASE toClient'[i].more
    <3>1. i = L + 1
      BY <2>0, <2>1, <2>2, <2>4
    <3>2. PartBefore(i)' = {}
      BY <2>0, <2>3, <3>1
    <3> QED
      BY <1>3, <2>1, <2>2, <2>4, <3>2
  <2>5. CASE ~toClient'[i].more
    <3>1. table \in SUBSET Flows /\ [xid |-> op'.xid, flows |-> table] \in snaps'
      BY <1>3 DEF TypeOK
    <3>2. ASSUME i = L + 1 PROVE DumpServed(i)'
      <4>1. i - L = 1
        BY <2>0, <3>2
      <4>2. toClient'[i].body.added = table
        BY <2>1, <2>5, <4>1, ReportParts
      <4>3. PartBefore(i)' = {}
        BY <2>0, <2>3, <3>2
      <4>4. table = op'.acc.added \union toClient'[i].body.added
        BY <1>3, <4>2 DEF NoDelta
      <4> QED
        BY <3>1, <4>3, <4>4 DEF DumpServed
    <3>3. ASSUME i = L + 2 PROVE DumpServed(i)'
      <4>1. i - L = 2 /\ L + 1 < i /\ 1 \in DOMAIN ms
        BY <2>0, <3>3, ReportParts
      <4>2. L + 1 \in DOMAIN toClient' /\ toClient'[L + 1] = ms[1]
        BY <1>1, <4>1, SaidInOrder
      <4>3. L + 1 \in PartBefore(i)'
        <5>1. IsPart("Flow", ms[1])
          BY <4>1, ReportParts DEF IsPart
        <5> QED
          BY <4>1, <4>2, <5>1 DEF PartBefore
      <4>4. table = toClient'[L + 1].body.added \union toClient'[i].body.added
        BY <2>1, <4>1, <4>2, ReportParts
      <4> QED
        BY <3>1, <4>3, <4>4 DEF DumpServed
    <3>4. i = L + 1 \/ i = L + 2
      BY <2>0, <2>1, <2>2
    <3> QED
      BY <2>1, <2>2, <2>5, <3>2, <3>3, <3>4
  <2> QED
    BY <2>4, <2>5
<1> QED
  BY <1>5, <1>6 DEF DumpInv, DumpAnswered

LEMMA DumpNext ==
    ASSUME TypeOK, [Next]_vars, ~broken', Owned("dump_flows"), DumpInv
    PROVE  DumpInv'
<1> DEFINE k == "dump_flows"
<1>a. Owned(k)'
  BY OwnedNext DEF Exchanges
<1>b. op'.kind # k => DumpInv'
  <2>1. /\ (\A i \in DOMAIN toSwitch : IsRequest(k, toSwitch[i]) => op.kind = k)'
        /\ (\A i \in DOMAIN toClient : IsAnswer(k, toClient[i]) => op.kind = k)'
    BY <1>a DEF Owned, RequestOwned, AnswerOwned
  <2> QED
    BY <2>1 DEF IsRequest, IsAnswer, DumpInv, DumpRequested, DumpAnswered
<1>c. op.kind # k => /\ \A i \in DOMAIN toSwitch : toSwitch[i].type # "FlowStatsRequest"
                     /\ \A i \in DOMAIN toClient : ~IsPart("Flow", toClient[i])
  BY DEF Owned, RequestOwned, AnswerOwned, IsRequest, IsAnswer
(* The same dump goes on, its request and its parts as they were.          *)
<1>d. ASSUME op'.kind = k, op'.xid = op.xid, op.kind = k => op'.acc = op.acc,
             \A i \in DOMAIN toSwitch' : toSwitch'[i].type = "FlowStatsRequest" =>
                 \E j \in DOMAIN toSwitch : toSwitch'[i] = toSwitch[j]
      PROVE  DumpRequested'
  BY <1>c, <1>d DEF DumpInv, DumpRequested
<1>e. ASSUME op'.kind = k, GoesOn, UNCHANGED <<toClient, snaps>>
      PROVE  DumpAnswered'
  <2>1. op'.xid = op.xid /\ op'.acc = op.acc
    BY <1>e DEF GoesOn
  <2>2. DOMAIN toClient \subseteq Nat /\ \A i \in DOMAIN toClient : i + 0 = i /\ i - 0 = i
    BY DEF TypeOK
  <2> QED
    BY <1>e, <2>1, <2>2, DumpSame DEF DumpInv
<1>1. CASE Stays
  <2>1. CASE GoesOn /\ op'.kind = k
    BY <1>1, <1>d, <1>e, <2>1 DEF GoesOn, Stays, DumpInv
  <2> QED
    BY <1>1, <1>b, <2>1 DEF Stays, AsksNothing, AskingMethods
<1>2. CASE WritesPlain
  <2>1. CASE GoesOn /\ op'.kind = k
    <3>1. PICK m \in ClientMsg : Write(m) /\ m.type \notin {"EchoRequest", "FlowStatsRequest", "FlowMonitorRequest"}
      BY <1>2 DEF WritesPlain
    <3>2. DumpRequested'
      BY <1>d, <2>1, <3>1, WriteFacts DEF GoesOn
    <3>3. DumpAnswered'
      BY <1>2, <1>e, <2>1 DEF WritesPlain
    <3> QED
      BY <3>2, <3>3 DEF DumpInv
  <2> QED
    BY <1>2, <1>b, <2>1 DEF WritesPlain, AsksNothing, AskingMethods
<1>3. ASSUME NEW a \in AskingMethods, WritesRequest(a) PROVE DumpInv'
  <2>1. CASE a = k
    <3>1. op.kind # k /\ op'.xid = nextXid /\ op'.acc = NoDelta /\ UNCHANGED toClient
      BY <1>3 DEF WritesRequest, Idle, Call
    <3>2. \A i \in DOMAIN toSwitch' : toSwitch'[i].type = "FlowStatsRequest" => toSwitch'[i].xid = nextXid
      <4>1. Msg(RequestType(a), nextXid) \in ClientMsg /\ Msg(RequestType(a), nextXid).xid = nextXid
        BY <1>3, <2>1, ClientMsgType DEF WritesRequest, RequestType, Msg
      <4> QED
        BY <1>3, <1>c, <3>1, <4>1, WriteFacts DEF WritesRequest
    <3> QED
      BY <1>c, <3>1, <3>2 DEF DumpInv, DumpRequested, DumpAnswered
  <2>2. CASE a # k
    BY <1>3, <1>b, <2>2 DEF WritesRequest, Call
  <2> QED
    BY <2>1, <2>2
<1>4. CASE Reads
  <2>1. CASE ReadsPart
    BY <1>4, <2>1, DumpReadPart
  <2>2. CASE ReadsEcho \/ ReadsLastPart
    BY <1>b, <2>2 DEF ReadsEcho, ReadsLastPart, Idle
  <2>3. CASE ReadsPlain /\ op'.kind = k
    <3>1. op.kind = k /\ op'.xid = op.xid /\ op'.acc = op.acc /\ ~IsPart("Flow", Got)
      BY <2>3 DEF ReadsPlain, GoesOn, AsksNothing, AskingMethods, Idle
    <3>2. DumpRequested'
      BY <1>4, <1>d, <2>3, <3>1 DEF Reads
    <3>3. DumpAnswered'
      <4>1. snaps' = snaps
        BY <1>4 DEF Reads
      <4>2. /\ DOMAIN toClient \subseteq Nat \ {0} /\ DOMAIN toClient' \subseteq Nat \ {0}
            /\ \A i \in DOMAIN toClient' : i + 1 \in DOMAIN toClient /\ toClient'[i] = toClient[i + 1]
            /\ \A i \in DOMAIN toClient : IsPart("Flow", toClient[i]) =>
                   i - 1 \in DOMAIN toClient' /\ toClient'[i - 1] = toClient[i]
        BY <1>4, <3>1, ReadFacts DEF Reads
      <4> QED
        BY <3>1, <4>1, <4>2, DumpSame DEF DumpInv
    <3> QED
      BY <3>2, <3>3 DEF DumpInv
  <2> QED
    BY <1>4, <1>b, <2>1, <2>2, <2>3 DEF Reads
<1>s. ASSUME NEW ms \in Seq(SwitchMsg), \A i \in DOMAIN ms : ~IsPart("Flow", ms[i]),
             snaps \subseteq snaps', UNCHANGED op,
             (UNCHANGED toSwitch /\ toClient' = toClient \o ms) \/ (toSwitch # <<>> /\ Say(ms))
      PROVE  DumpInv'
  <2>1. toClient' = toClient \o ms
    BY <1>s DEF Say
  <2>2. DumpAnswered'
    BY <1>s, <2>1, DumpSaid DEF DumpInv
  <2>3. DumpRequested'
    BY <1>s, HandledFacts DEF DumpInv, DumpRequested
  <2> QED
    BY <2>2, <2>3 DEF DumpInv
<1>p. ASSUME NEW ms, PlainSaying(ms) PROVE ms \in Seq(SwitchMsg) /\ \A i \in DOMAIN ms : ~IsPart("Flow", ms[i])
  BY <1>p DEF PlainSaying, IsPart
<1>5. ASSUME NEW ms \in Seq(SwitchMsg), Serves(ms) PROVE DumpInv'
  <2>1. toSwitch # <<>> /\ UNCHANGED op /\ Say(ms) /\ snaps \subseteq snaps'
    BY <1>5 DEF Serves
  <2>2. CASE PlainSaying(ms)
    BY <1>s, <1>p, <2>1, <2>2
  <2>3. CASE ms = <<Msg("EchoReply", Req.xid)>>
    <3>1. DOMAIN ms = {1} /\ ms[1].type = "EchoReply"
      BY <2>3 DEF Msg
    <3> QED
      BY <1>s, <2>1, <3>1 DEF IsPart
  <2>4. CASE Req.type = "FlowStatsRequest" /\ ms \in Reports(Req.xid, "Flow", table)
             /\ snaps' = snaps \union {[xid |-> Req.xid, flows |-> table]}
    BY <2>1, <2>4, DumpReported
  <2>5. CASE ms \in Reports(Req.xid, "Experimenter", table)
    BY <1>s, <2>1, <2>5, ReportParts DEF IsPart
  <2> QED
    BY <1>5, <2>2, <2>3, <2>4, <2>5 DEF Serves
<1>6. ASSUME NEW ms \in Seq(SwitchMsg), Volunteers(ms) PROVE DumpInv'
  BY <1>6, <1>p, <1>s DEF Volunteers
<1>7. CASE Closes
  <2>1. UNCHANGED <<op, snaps>> /\ DOMAIN toSwitch' = {}
    BY <1>7, CutFacts DEF Closes
  <2>2. DumpAnswered'
    <3>1. DOMAIN toClient' \subseteq DOMAIN toClient
      BY <1>7, CutFacts DEF Closes
    <3> QED
      BY <1>7, <2>1, <3>1, CutFacts, DumpSame DEF Closes, DumpInv
  <2> QED
    BY <2>1, <2>2 DEF DumpInv, DumpRequested
<1> QED
  BY <1>1, <1>2, <1>3, <1>4, <1>5, <1>6, <1>7, StepShapes

-----------------------------------------------------------------------------
(* The parts of a monitor come once the monitor is registered, and a       *)
(* request for one left behind is one for a second.                        *)
MonitorInv ==
    /\ \A i \in DOMAIN toClient : IsPart("Experimenter", toClient[i]) => monitoring
    /\ InFlight(toSwitch, "FlowMonitorRequest") => monitoring \/ op.kind = "monitor_flows"

LEMMA MonitorNext ==
    ASSUME TypeOK, [Next]_vars, ~broken', MonitorInv
    PROVE  MonitorInv'
<1>1. CASE Stays
  BY <1>1 DEF Stays, GoesOn, AsksNothing, AskingMethods, MonitorInv, InFlight
<1>2. CASE WritesPlain
  <2>1. PICK m \in ClientMsg : Write(m) /\ m.type # "FlowMonitorRequest"
    BY <1>2 DEF WritesPlain
  <2>2. InFlight(toSwitch', "FlowMonitorRequest") => InFlight(toSwitch, "FlowMonitorRequest")
    BY <2>1, WriteFacts DEF InFlight
  <2> QED
    BY <1>2, <2>2 DEF WritesPlain, GoesOn, AsksNothing, AskingMethods, MonitorInv
<1>3. ASSUME NEW a \in AskingMethods, WritesRequest(a) PROVE MonitorInv'
  <2>1. Msg(RequestType(a), nextXid) \in ClientMsg /\ Msg(RequestType(a), nextXid).type = RequestType(a)
    BY <1>3, ClientMsgType DEF WritesRequest, AskingMethods, RequestType, Msg
  <2>2. InFlight(toSwitch', "FlowMonitorRequest") =>
            InFlight(toSwitch, "FlowMonitorRequest") \/ a = "monitor_flows"
    BY <1>3, <2>1, WriteFacts DEF WritesRequest, InFlight, RequestType, AskingMethods
  <2> QED
    BY <1>3, <2>2 DEF WritesRequest, Idle, Call, MonitorInv
<1>4. CASE Reads
  <2>1. \A i \in DOMAIN toClient' : IsPart("Experimenter", toClient'[i]) => monitoring'
    BY <1>4, ReadFacts DEF Reads, MonitorInv
  <2>2. InFlight(toSwitch, "FlowMonitorRequest") => monitoring \/ op'.kind = "monitor_flows"
    <3>1. CASE op.kind = "monitor_flows" /\ op'.kind # op.kind
      BY <1>4, <3>1, ReadFacts DEF Reads, ReadsPlain, ReadsEcho, ReadsPart, ReadsLastPart, GoesOn,
                                   AsksNothing, AskingMethods, MonitorInv
    <3> QED
      BY <3>1 DEF MonitorInv
  <2> QED
    BY <1>4, <2>1, <2>2 DEF Reads, MonitorInv
<1>s. ASSUME NEW ms \in Seq(SwitchMsg), UNCHANGED op, monitoring => monitoring',
             \A i \in DOMAIN ms : IsPart("Experimenter", ms[i]) => monitoring',
             (UNCHANGED toSwitch /\ toClient' = toClient \o ms) \/ (toSwitch # <<>> /\ Say(ms))
      PROVE  MonitorInv'
  <2>1. toClient' = toClient \o ms
    BY <1>s DEF Say
  <2>2. \A i \in DOMAIN toClient' : IsPart("Experimenter", toClient'[i]) => monitoring'
    BY <1>s, <2>1, SaidInOrder DEF MonitorInv
  <2>3. InFlight(toSwitch', "FlowMonitorRequest") => InFlight(toSwitch, "FlowMonitorRequest")
    BY <1>s, HandledFacts DEF InFlight
  <2> QED
    BY <1>s, <2>2, <2>3 DEF MonitorInv
<1>5. ASSUME NEW ms \in Seq(SwitchMsg), Serves(ms) PROVE MonitorInv'
  <2>1. toSwitch # <<>> /\ UNCHANGED op /\ Say(ms) /\ (monitoring => monitoring')
    BY <1>5 DEF Serves
  <2>2. \A i \in DOMAIN ms : IsPart("Experimenter", ms[i]) => monitoring'
    <3>1. CASE ms = <<Msg("EchoReply", Req.xid)>>
      <4>1. DOMAIN ms = {1} /\ ms[1].type = "EchoReply"
        BY <3>1 DEF Msg
      <4> QED
        BY <4>1 DEF IsPart
    <3> QED
      BY <1>5, <3>1, ReportParts DEF Serves, PlainSaying, IsPart
  <2> QED
    BY <1>s, <2>1, <2>2
<1>6. ASSUME NEW ms \in Seq(SwitchMsg), Volunteers(ms) PROVE MonitorInv'
  BY <1>6, <1>s DEF Volunteers, PlainSaying, IsPart
<1>7. CASE Closes
  BY <1>7, CutFacts DEF Closes, MonitorInv, InFlight
<1> QED
  BY <1>1, <1>2, <1>3, <1>4, <1>5, <1>6, <1>7, StepShapes

-----------------------------------------------------------------------------
(* The echo requests of the switch: a step keeps them where they are ...   *)
EchoesKept ==
    /\ open /\ ~broken /\ asked' = asked /\ answered \subseteq answered'
    /\ op.pc = "reply" => op'.pc = "reply" /\ op'.echo = op.echo
    /\ \A i \in DOMAIN toClient : toClient[i].type = "EchoRequest" =>
           \E j \in DOMAIN toClient' : toClient'[j] = toClient[i]
    /\ \A i \in DOMAIN toSwitch : toSwitch[i].type = "EchoReply" =>
           \E j \in DOMAIN toSwitch' : toSwitch'[j] = toSwitch[i]

LEMMA EchoesStay ==
    ASSUME EchoesAccounted, EchoesKept
    PROVE  EchoesAccounted'
<1>1. \A x, t : Msg(t, x).type = t
  BY DEF Msg
<1> QED
  BY <1>1 DEF EchoesAccounted, EchoesKept

(* ... or moves one of them on.                                            *)
LEMMA EchoRead ==
    ASSUME TypeOK, EchoesAccounted, RecvEchoRequest, open, ~broken
    PROVE  EchoesAccounted'
<1>1. /\ toClient # <<>> /\ Consume /\ op.pc = "recv" /\ UNCHANGED <<toSwitch, asked, answered>>
      /\ op'.pc = "reply" /\ op'.echo = Got.xid
  BY DEF RecvEchoRequest, Receiving, ReadOnly, switch, TypeOK, Pending
<1>2. \A i \in DOMAIN toClient : i # 1 => \E j \in DOMAIN toClient' : toClient'[j] = toClient[i]
  BY <1>1, ReadFacts
<1>3. \A x : toClient[1] = Msg("EchoRequest", x) => op'.echo = x
  BY <1>1, ReadFacts DEF Msg
<1> QED
  BY <1>1, <1>2, <1>3 DEF EchoesAccounted

LEMMA EchoReplied ==
    ASSUME TypeOK, EchoesAccounted, SendEchoReply, open, ~broken
    PROVE  EchoesAccounted'
<1>1. Msg("EchoReply", op.echo) \in ClientMsg
  BY ClientMsgType DEF TypeOK, Pending
<1>2. /\ Write(Msg("EchoReply", op.echo)) /\ UNCHANGED <<toClient, open, asked, answered>> /\ op.pc = "reply"
  BY DEF SendEchoReply, switch
<1>3. /\ \A i \in DOMAIN toSwitch : i \in DOMAIN toSwitch' /\ toSwitch'[i] = toSwitch[i]
      /\ \E i \in DOMAIN toSwitch' : toSwitch'[i] = Msg("EchoReply", op.echo)
  BY <1>1, <1>2, WriteFacts
<1> QED
  BY <1>2, <1>3 DEF EchoesAccounted

LEMMA EchoAnswered ==
    ASSUME TypeOK, EchoesAccounted, SwitchEchoReply, ~broken
    PROVE  EchoesAccounted'
<1>1. /\ toSwitch # <<>> /\ Say(<<>>) /\ open /\ UNCHANGED <<op, broken, open, asked>>
      /\ answered' = answered \union {Req.xid}
  BY DEF SwitchEchoReply, Handling, client
<1>2. toClient' = toClient
  BY <1>1 DEF Say, TypeOK
<1>3. \A i \in DOMAIN toSwitch : i # 1 => \E j \in DOMAIN toSwitch' : toSwitch'[j] = toSwitch[i]
  BY <1>1, ShortSeq, HandledFacts
<1>4. \A x : toSwitch[1] = Msg("EchoReply", x) => Req.xid = x
  <2>1. Req = toSwitch[1]
    BY <1>1, ShortSeq, HandledFacts
  <2> QED
    BY <2>1 DEF Msg
<1> QED
  BY <1>1, <1>2, <1>3, <1>4 DEF EchoesAccounted

LEMMA EchoAsked ==
    ASSUME TypeOK, EchoesAccounted, NEW t \in {"EchoRequest", "PacketIn", "PortStatus"}, SwitchAsync(t), ~broken
    PROVE  EchoesAccounted'
<1> DEFINE x == asyncs % XidModulus
<1>1. Msg(t, x) \in SwitchMsg
  BY XidType, SwitchMsgType DEF TypeOK
<1>2. /\ open /\ UNCHANGED <<toSwitch, op, broken, answered>> /\ toClient' = Append(toClient, Msg(t, x))
      /\ asked' = IF t = "EchoRequest" THEN asked \union {x} ELSE asked
  BY DEF SwitchAsync, client
<1>3. /\ \A i \in DOMAIN toClient : i \in DOMAIN toClient' /\ toClient'[i] = toClient[i]
      /\ \E i \in DOMAIN toClient' : toClient'[i] = Msg(t, x)
  BY <1>1, <1>2, AppendFacts DEF TypeOK
<1> HIDE DEF x
<1> QED
  BY <1>2, <1>3 DEF EchoesAccounted

LEMMA EchoesInit == Init => EchoesAccounted
  BY DEF Init, EchoesAccounted

LEMMA EchoesNext == TypeOK /\ EchoesAccounted /\ [Next]_vars => EchoesAccounted'
<1> SUFFICES ASSUME TypeOK, EchoesAccounted, [Next]_vars, open', ~broken' PROVE EchoesAccounted'
  BY DEF EchoesAccounted
<1>i. Idle.pc = "idle"
  BY DEF Idle
<1>e. ASSUME NEW r, NEW b, Return(r, b) PROVE r = "Ok" /\ ~broken
  BY <1>e DEF Return
<1>b. ASSUME NEW k, NEW m, SendAndReturn(k, m) PROVE ~broken
  BY <1>b DEF SendAndReturn
(* The steps of the client: calls, ...                                     *)
<1>w. ASSUME NEW m \in ClientMsg, Write(m), UNCHANGED <<toClient, open, asked, answered>>,
             op.pc # "reply", ~broken
      PROVE  EchoesAccounted'
  <2>1. EchoesKept
    BY <1>w, WriteFacts DEF EchoesKept
  <2> QED
    BY <2>1, EchoesStay
<1>a. nextXid \in Xid
  BY DEF TypeOK
<1>1. CASE Connect \/ SendPacketOut \/ SendBarrier
  <2>1. /\ Msg("Hello", nextXid) \in ClientMsg /\ Msg("PacketOut", nextXid) \in ClientMsg
        /\ Msg("BarrierRequest", nextXid) \in ClientMsg
    BY <1>a, ClientMsgType
  <2>2. UNCHANGED <<toClient, open, asked, answered>> /\ op.pc # "reply"
    BY <1>1, <1>i DEF Connect, SendPacketOut, SendBarrier, SendAndReturn, CanCall, switch
  <2>3. ~broken
    BY <1>1, <1>b DEF Connect, SendPacketOut, SendBarrier
  <2>4. \E m \in ClientMsg : Write(m)
    BY <1>1, <2>1 DEF Connect, SendPacketOut, SendBarrier, SendAndReturn
  <2> QED
    BY <1>w, <2>2, <2>3, <2>4
<1>2. ASSUME NEW f \in Flows, NEW c \in {"add", "delete"}, SendFlow(c, f) \/ SendFlowSync(c, f)
      PROVE  EchoesAccounted'
  <2>1. FlowMod(nextXid, c, f) \in ClientMsg
    BY <1>a, ClientMsgType
  <2>2. UNCHANGED <<toClient, open, asked, answered>> /\ op.pc # "reply" /\ Write(FlowMod(nextXid, c, f))
    BY <1>2, <1>i DEF SendFlow, SendFlowSync, SendAndReturn, CanCall, switch
  <2>3. ~broken
    BY <1>2, <1>b DEF SendFlow, SendFlowSync
  <2> QED
    BY <1>w, <2>1, <2>2, <2>3
<1>3. ASSUME NEW k \in {"barrier", "echo", "dump_flows", "monitor_flows"}, SendRequest(k)
      PROVE  EchoesAccounted'
  <2>1. Msg(RequestType(k), nextXid) \in ClientMsg
    BY <1>a, ClientMsgType DEF RequestType
  <2> QED
    BY <1>3, <1>i, <1>w, <2>1 DEF SendRequest, CanCall, switch
<1>4. ASSUME NEW k \in Receives, StartReceive(k)
      PROVE  EchoesAccounted'
  BY <1>4, <1>i DEF StartReceive, CanCall, EchoesAccounted, wire, switch
<1>5. CASE SendEchoReply
  BY <1>5, <1>e, EchoReplied DEF SendEchoReply
(* ... reads, ...                                                          *)
<1>r. ASSUME NEW kinds, Receiving(kinds), Consume, ReadOnly, Got.type # "EchoRequest", ~broken
      PROVE  EchoesAccounted'
  <2>1. EchoesKept
    BY <1>r, ReadFacts DEF EchoesKept, Receiving, ReadOnly, switch
  <2> QED
    BY <2>1, EchoesStay
<1>6. CASE RecvHello
  BY <1>6, <1>e, <1>r DEF RecvHello
<1>7. CASE RecvEchoReply
  <2>1. CASE Got.type = "EchoReply" /\ Got.xid = op.xid
    BY <1>7, <1>e, <1>r, <2>1 DEF RecvEchoReply
  <2>2. CASE ~(Got.type = "EchoReply" /\ Got.xid = op.xid)
    BY <1>7, <1>e, <2>2 DEF RecvEchoReply
  <2> QED
    BY <2>1, <2>2
<1>8. CASE RecvError \/ StreamFails \/ Drop
  BY <1>8, <1>e DEF RecvError, StreamFails, Drop
<1>9. CASE RecvEchoRequest
  BY <1>9, EchoRead DEF RecvEchoRequest, ReadOnly
<1>10. CASE RecvBarrierReply
  BY <1>10, <1>e, <1>r DEF RecvBarrierReply
<1>11. ASSUME NEW k, NEW mp, RecvCollected(k, mp) PROVE EchoesAccounted'
  <2>1. ~broken
    BY <1>11, <1>e DEF RecvCollected
  <2> QED
    BY <1>11, <1>r, <2>1 DEF RecvCollected
<1>12. CASE RecvUpdates
  <2>1. ~broken
    BY <1>12, <1>e DEF RecvUpdates
  <2> QED
    BY <1>12, <1>r, <2>1 DEF RecvUpdates
<1>13. CASE RecvPacketIn
  BY <1>13, <1>e, <1>r DEF RecvPacketIn
<1>14. CASE RecvOther
  <2>1. Got.type # "EchoRequest" /\ ~broken
    BY <1>14, <1>e DEF RecvOther, Accepts
  <2> QED
    BY <1>14, <1>r, <2>1 DEF RecvOther
(* ... and the steps of the switch.                                        *)
<1>s. ASSUME toSwitch # <<>>, NEW ms \in Seq(SwitchMsg), Say(ms), Req.type # "EchoReply",
             UNCHANGED <<open, asked, answered, client>>
      PROVE  EchoesAccounted'
  <2>1. toClient' = toClient \o ms
    BY <1>s DEF Say
  <2>2. \A i \in DOMAIN toSwitch : i # 1 => \E j \in DOMAIN toSwitch' : toSwitch'[j] = toSwitch[i]
    BY <1>s, HandledFacts
  <2>3. toSwitch[1].type # "EchoReply"
    BY <1>s, HandledFacts
  <2>4. EchoesKept
    BY <1>s, <2>1, <2>2, <2>3, SaidInOrder DEF EchoesKept, client
  <2> QED
    BY <2>4, EchoesStay
<1>15. CASE SwitchFlowMod \/ SwitchBarrier \/ SwitchEcho \/ SwitchStats \/ SwitchMonitor \/ SwitchOther
  <2>1. /\ toSwitch # <<>> /\ Req.type # "EchoReply" /\ UNCHANGED <<open, asked, answered, client>>
    BY <1>15 DEF SwitchFlowMod, SwitchBarrier, SwitchEcho, SwitchStats, SwitchMonitor, SwitchOther,
       Handling, Req, switch
  <2>2. \E ms \in Seq(SwitchMsg) : Say(ms)
    <3>1. /\ \A t \in {"Error", "BarrierReply", "EchoReply"} : <<Msg(t, Req.xid)>> \in Seq(SwitchMsg)
          /\ Notice(NoDelta) \in Seq(SwitchMsg) /\ <<>> \in Seq(SwitchMsg)
      BY <2>1, ReqType, SwitchMsgType, ShortSeq, NoticeType, DeltaType
    <3>2. \A mp \in {"Flow", "Experimenter"} : \A ms \in Reports(Req.xid, mp, table) : ms \in Seq(SwitchMsg)
      BY <2>1, ReqType, ReportsType DEF TypeOK
    <3> QED
      BY <1>15, <3>1, <3>2 DEF SwitchFlowMod, SwitchBarrier, SwitchEcho, SwitchStats, SwitchMonitor,
         SwitchOther, Refuse
  <2> QED
    BY <1>s, <2>1, <2>2
<1>16. CASE SwitchEchoReply
  BY <1>16, EchoAnswered DEF SwitchEchoReply, client
<1>17. ASSUME NEW t \in {"EchoRequest", "PacketIn", "PortStatus"}, SwitchAsync(t)
       PROVE  EchoesAccounted'
  BY <1>17, EchoAsked DEF SwitchAsync, client
<1>18. ASSUME NEW f \in Flows, OtherController(f)
       PROVE  EchoesAccounted'
  <2>1. \E ms \in Seq(SwitchMsg) : toClient' = toClient \o ms
    <3>1. /\ Notice([added |-> {f}, deleted |-> {}]) \in Seq(SwitchMsg)
          /\ Notice([added |-> {}, deleted |-> {f}]) \in Seq(SwitchMsg)
          /\ <<>> \in Seq(SwitchMsg)
      BY NoticeType, DeltaType, ShortSeq
    <3>2. toClient = toClient \o <<>>
      BY DEF TypeOK
    <3> QED
      BY <1>18, <3>1, <3>2 DEF OtherController
  <2>2. UNCHANGED <<toSwitch, open, asked, answered, client>>
    BY <1>18 DEF OtherController
  <2>3. EchoesKept
    BY <2>1, <2>2, SaidInOrder DEF EchoesKept, client
  <2> QED
    BY <2>3, EchoesStay
<1>19. CASE Close
  BY <1>19 DEF Close
<1>20. CASE UNCHANGED vars
  BY <1>20 DEF vars, wire, client, switch, EchoesAccounted
<1> QED
  BY <1>1, <1>2, <1>3, <1>4, <1>5, <1>6, <1>7, <1>8, <1>9, <1>10, <1>11, <1>12, <1>13, <1>14, <1>15,
     <1>16, <1>17, <1>18, <1>19, <1>20
     DEF Next, ClientCalls, ClientSteps, SwitchActs, SwitchHandles

-----------------------------------------------------------------------------
(* The inductive invariant: IInv of VConnProofs and what is owed.          *)
OwedInv == Owned("echo") /\ Owned("dump_flows") /\ DumpInv /\ MonitorInv
ReplyInv == IInv /\ DumpIsSnapshot /\ EchoesAccounted /\ (~broken => OwedInv)

LEMMA ReplyInit == Init => ReplyInv
<1> SUFFICES ASSUME Init PROVE ReplyInv
  OBVIOUS
<1>1. DOMAIN toSwitch = {} /\ DOMAIN toClient = {1} /\ toClient[1].type = "Hello"
  BY DEF Init, Msg
<1>2. OwedInv
  BY <1>1 DEF OwedInv, Owned, RequestOwned, AnswerOwned, IsRequest, IsAnswer, IsPart,
     DumpInv, DumpRequested, DumpAnswered, MonitorInv, InFlight
<1> QED
  BY <1>2, InvInit, EchoesInit DEF ReplyInv, Init, DumpIsSnapshot

(* A dump that returns has the whole of a table the switch reported.       *)
LEMMA DumpReturned ==
    ASSUME TypeOK, DumpInv, Reads, ReadsLastPart
    PROVE  [xid |-> last'.xid, flows |-> last'.body.added] \in snaps
<1>1. 1 \in DOMAIN toClient /\ Got = toClient[1] /\ DOMAIN toClient \subseteq Nat \ {0}
  BY ReadFacts DEF Reads
<1>2. PartBefore(1) = {}
  BY <1>1 DEF PartBefore
<1>3. Got.body.deleted = {} /\ DumpServed(1)
  BY <1>1 DEF ReadsLastPart, DumpInv, DumpAnswered
<1>4. [xid |-> op.xid, flows |-> op.acc.added \union Got.body.added] \in snaps
  BY <1>1, <1>2, <1>3 DEF DumpServed
<1>5. last'.xid = op.xid /\ last'.body.added = op.acc.added \union Got.body.added
  BY <1>3 DEF ReadsLastPart, Then
<1> QED
  BY <1>4, <1>5

LEMMA BrokenStays == TypeOK /\ [Next]_vars /\ broken => broken'
  BY DEF Next, ClientCalls, ClientSteps, SwitchActs, SwitchHandles, vars, client, Connect, SendPacketOut,
     SendFlow, SendFlowSync, SendAndReturn, SendRequest, StartReceive, SendBarrier, SendEchoReply,
     StreamFails, RecvHello, RecvEchoReply, RecvError, RecvEchoRequest, RecvBarrierReply, RecvCollected,
     RecvUpdates, RecvPacketIn, RecvOther, Drop, Return, SwitchFlowMod, SwitchBarrier, SwitchEcho,
     SwitchEchoReply, SwitchStats, SwitchMonitor, SwitchOther, SwitchAsync, OtherController, Close

LEMMA ReplyNext == ReplyInv /\ [Next]_vars => ReplyInv'
<1> SUFFICES ASSUME ReplyInv, [Next]_vars PROVE ReplyInv'
  OBVIOUS
<1>1. IInv' /\ EchoesAccounted' /\ TypeOK
  BY InvNext, EchoesNext DEF ReplyInv, IInv
<1>2. broken => broken'
  BY <1>1, BrokenStays
<1>3. ~broken' => OwedInv'
  BY <1>1, <1>2, OwnedNext, DumpNext, MonitorNext DEF ReplyInv, OwedInv, Exchanges
<1>4. DumpIsSnapshot'
  <2> SUFFICES ASSUME ~broken' PROVE DumpIsSnapshot'
    BY DEF DumpIsSnapshot
  <2>1. UNCHANGED last \/ last'.kind # "dump_flows" \/ (Reads /\ ReadsLastPart)
    BY <1>1, StepShapes DEF Stays, WritesPlain, WritesRequest, Reads, ReadsPlain, ReadsEcho, ReadsPart,
       Serves, Volunteers, Closes, GoesOn, AsksNothing
  <2>2. snaps \subseteq snaps'
    BY <1>1, StepShapes DEF Stays, WritesPlain, WritesRequest, Reads, Serves, Volunteers, Closes
  <2> QED
    BY <1>1, <1>2, <2>1, <2>2, DumpReturned DEF ReplyInv, OwedInv, DumpIsSnapshot
<1> QED
  BY <1>1, <1>3, <1>4 DEF ReplyInv

(* No echo request of the switch is lost while the stream is open and      *)
(* methods succeed: whatever the loops skip and whoever reads.             *)
THEOREM EchoesAnswered == Spec => []EchoesAccounted
<1>1. ReplyInv => EchoesAccounted
  BY DEF ReplyInv
<1> QED
  BY <1>1, ReplyInit, ReplyNext, PTL DEF Spec

(* A dump_flows that returns Ok while no method has failed returns one     *)
(* table the switch had, reported for that very request.                   *)
THEOREM DumpsAreSnapshots == Spec => []DumpIsSnapshot
<1>1. ReplyInv => DumpIsSnapshot
  BY DEF ReplyInv
<1> QED
  BY <1>1, ReplyInit, ReplyNext, PTL DEF Spec

(* Between calls no answer, and no request for one, is in flight, so that  *)
(* recognising an answer by its type alone is sound until a method fails.  *)
THEOREM NothingIsOwed == Spec => []NothingOwed
<1>1. ReplyInv => NothingOwed
  <2> SUFFICES ASSUME ReplyInv, op = Idle, ~broken
               PROVE  /\ \A t \in {"BarrierRequest", "EchoRequest", "FlowStatsRequest"} : ~InFlight(toSwitch, t)
                      /\ InFlight(toSwitch, "FlowMonitorRequest") => monitoring
                      /\ ~InFlight(toClient, "BarrierReply") /\ ~InFlight(toClient, "EchoReply")
                      /\ \A i \in DOMAIN toClient :
                             toClient[i].type = "MultipartReply" => toClient[i].mp # "Flow"
    BY DEF NothingOwed
  <2>1. op.kind = "none" /\ ~AwaitingBarrier
    BY DEF Idle, AwaitingBarrier
  <2>2. ~InFlight(toSwitch, "BarrierRequest") /\ ~InFlight(toClient, "BarrierReply")
    BY <2>1 DEF ReplyInv, IInv, BarrierInv, RequestAwaited, ReplyAwaited, InFlight
  <2>3. ~InFlight(toSwitch, "EchoRequest") /\ ~InFlight(toClient, "EchoReply")
    BY <2>1, NothingWhenIdle DEF ReplyInv, OwedInv, IsRequest, IsAnswer, InFlight
  <2>4. /\ ~InFlight(toSwitch, "FlowStatsRequest")
        /\ \A i \in DOMAIN toClient : ~IsPart("Flow", toClient[i])
    BY <2>1, NothingWhenIdle DEF ReplyInv, OwedInv, IsRequest, IsAnswer, InFlight
  <2>5. InFlight(toSwitch, "FlowMonitorRequest") => monitoring
    BY <2>1 DEF ReplyInv, OwedInv, MonitorInv
  <2> QED
    BY <2>2, <2>3, <2>4, <2>5 DEF IsPart
<1> QED
  BY <1>1, ReplyInit, ReplyNext, PTL DEF Spec

-----------------------------------------------------------------------------
(* A flow monitor on a connection used for little else: no method skips an *)
(* update, and no change of the connection's own is abbreviated.           *)
MonitorOps == {"monitor_flows", "recv_flow_updates", "send_packet_out", "echo"}

Told == INSTANCE FoldFacts WITH Step <- Follow

(* Before the monitor is registered no part is in flight and nothing was   *)
(* taken over; only monitor_flows collects; a part without an update       *)
(* changes nothing; and the updates make up the table.                     *)
PartsTell ==
    \A i \in DOMAIN toClient : toClient[i].type = "MultipartReply" =>
        monitoring /\ (~toClient[i].any => toClient[i].body = NoDelta)
FollowInv ==
    /\ op.kind \in MonitorOps \union {"none", "connect"}
    /\ \A i \in DOMAIN toSwitch : toSwitch[i].type \notin {"FlowMod", "FlowStatsRequest"}
    /\ PartsTell
    /\ ~monitoring => view = {}
    /\ ~monitoring \/ op.kind # "monitor_flows" => op.acc = NoDelta
    /\ MonitorFollowsTable
Viewed == Apply(view, op.acc)

LEMMA ToldIs == \A S, q : Told!Fold(S, q) = FoldLeft(Follow, S, q)
  BY DEF Told!Fold, FoldLeft, Told!FoldLeft, MapThenFoldSet, Told!MapThenFoldSet, Max, Told!Max

LEMMA ApplyFacts ==
    /\ \A S \in SUBSET Flows : Apply(S, NoDelta) = S
    /\ \A S \in SUBSET Flows, d, e \in Delta : Apply(S, Then(d, e)) = Apply(Apply(S, d), e)
    /\ \A S : Apply({}, [added |-> S, deleted |-> {}]) = S
    /\ \A A, S : A \subseteq S => Apply(A, [added |-> S \ A, deleted |-> {}]) = S
    /\ \A S, f : /\ Apply(S, [added |-> {f}, deleted |-> {}]) = S \union {f}
                  /\ Apply(S, [added |-> {}, deleted |-> {f}]) = S \ {f}
  BY DEF Apply, NoDelta, Delta, Then

LEMMA ToldNotice ==
    ASSUME NEW S, NEW d, monitoring
    PROVE  FoldLeft(Follow, S, Notice(d)) = Apply(S, d)
<1>1. Notice(d) = <<Part(0, "Experimenter", d, TRUE, FALSE)>>
  BY DEF Notice
<1>2. Follow(S, Part(0, "Experimenter", d, TRUE, FALSE)) = Apply(S, d)
  BY DEF Follow, Part
<1>3. Told!Fold(S, Notice(d)) = Apply(S, d)
  BY <1>1, <1>2, Told!FoldOne
<1> QED
  BY <1>3, ToldIs

(* The first report of a monitor, taken over by an empty view.             *)
LEMMA ToldReports ==
    ASSUME NEW x \in Xid, NEW S \in SUBSET Flows, NEW ms \in Reports(x, "Experimenter", S)
    PROVE  FoldLeft(Follow, {}, ms) = S
<1> DEFINE D(A) == [added |-> A, deleted |-> {}]
           P(A, a, m) == Part(x, "Experimenter", D(A), a, m)
<1>1. \A T, A, a, m : Follow(T, P(A, a, m)) = Apply(T, D(A))
  BY DEF Follow, Part
<1>2. CASE ms = <<P(S, S # {}, FALSE)>>
  <2> DEFINE any == S # {}
  <2>1. Follow({}, P(S, any, FALSE)) = Apply({}, D(S))
    BY <1>1
  <2>2. ms = <<P(S, any, FALSE)>>
    BY <1>2
  <2> HIDE DEF any, P
  <2>3. Told!Fold({}, ms) = S
    BY <2>1, <2>2, Told!FoldOne, ApplyFacts
  <2> QED
    BY <2>3, ToldIs
<1>3. ASSUME NEW A \in SUBSET S, ms = <<P(A, TRUE, TRUE), P(S \ A, TRUE, FALSE)>>
      PROVE  FoldLeft(Follow, {}, ms) = S
  <2> DEFINE p == P(A, TRUE, TRUE)
             r == P(S \ A, TRUE, FALSE)
  <2>3. Follow({}, p) = Apply({}, D(A)) /\ Follow(A, r) = Apply(A, D(S \ A))
    BY <1>1
  <2>4. Apply({}, D(A)) = A /\ Apply(A, D(S \ A)) = S
    BY ApplyFacts
  <2>5. ms = <<p, r>>
    BY <1>3
  <2> HIDE DEF p, r
  <2>0. Follow({}, p) = A /\ Follow(A, r) = S
    BY <2>3, <2>4
  <2>1. <<p>> \in Seq({p, r}) /\ r \in {p, r} /\ ms = Append(<<p>>, r)
    BY <2>5
  <2>2. Told!Fold({}, ms) = Follow(Told!Fold({}, <<p>>), r)
    BY <2>1, Told!FoldAppend
  <2>6. Told!Fold({}, ms) = S
    BY <2>0, <2>2, Told!FoldOne
  <2> QED
    BY <2>6, ToldIs
<1> QED
  BY <1>2, <1>3 DEF Reports

LEMMA FollowWrite ==
    ASSUME TypeOK, FollowInv, NEW m \in ClientMsg, Write(m), m.type \notin {"FlowMod", "FlowStatsRequest"},
           UNCHANGED <<toClient, open, broken, table, monitoring, view>>,
           op'.kind \in MonitorOps \union {"none", "connect"},
           op'.acc = op.acc, op'.kind = op.kind \/ op'.acc = NoDelta
    PROVE  FollowInv'
<1>1. \A i \in DOMAIN toSwitch' : toSwitch'[i].type \notin {"FlowMod", "FlowStatsRequest"}
  BY WriteFacts DEF FollowInv
<1> QED
  BY <1>1 DEF FollowInv, PartsTell, MonitorFollowsTable

LEMMA FollowRead ==
    ASSUME TypeOK, FollowInv, toClient # <<>>, Consume, UNCHANGED <<toSwitch, open, table, monitoring>>,
           ~broken, op'.kind \in MonitorOps \union {"none", "connect"},
           ~monitoring => view' = {},
           ~monitoring \/ op'.kind # "monitor_flows" => op'.acc = NoDelta,
           Apply(view', op'.acc) = Follow(Viewed, Got)
    PROVE  FollowInv'
<1>1. PartsTell'
  BY ReadFacts DEF FollowInv, PartsTell
<1>2. FoldLeft(Follow, Apply(view', op'.acc), toClient') = FoldLeft(Follow, Viewed, toClient)
  BY Told!FoldFirst, ToldIs DEF Consume, Got, TypeOK
<1>3. MonitorFollowsTable'
  BY <1>2 DEF FollowInv, MonitorFollowsTable, Viewed
<1> QED
  BY <1>1, <1>3 DEF FollowInv

LEMMA FollowSaid ==
    ASSUME TypeOK, FollowInv, UNCHANGED <<client, open, monitoring>>, ~broken,
           NEW ms \in Seq(SwitchMsg), toClient' = toClient \o ms,
           UNCHANGED toSwitch \/ (toSwitch # <<>> /\ Say(ms)),
           \A i \in DOMAIN ms : ms[i].type = "MultipartReply" => monitoring /\ ms[i].any,
           open /\ monitoring => FoldLeft(Follow, table, ms) = table'
    PROVE  FollowInv'
<1>1. PartsTell'
  BY SaidInOrder DEF FollowInv, PartsTell
<1>2. \A i \in DOMAIN toSwitch' : toSwitch'[i].type \notin {"FlowMod", "FlowStatsRequest"}
  BY HandledFacts DEF FollowInv
<1>3. FoldLeft(Follow, Viewed, toClient') = FoldLeft(Follow, FoldLeft(Follow, Viewed, toClient), ms)
  BY Told!FoldConcat, ToldIs DEF TypeOK
<1>4. MonitorFollowsTable'
  BY <1>3 DEF FollowInv, MonitorFollowsTable, Viewed, client
<1> QED
  BY <1>1, <1>2, <1>4 DEF FollowInv, client

(* The monitor is registered: nothing was in flight for the view.          *)
LEMMA FollowRegistered ==
    ASSUME TypeOK, FollowInv, UNCHANGED <<client, open, table>>, ~monitoring, monitoring' = TRUE,
           toSwitch # <<>>, NEW ms \in Reports(Req.xid, "Experimenter", table), Say(ms)
    PROVE  FollowInv'
<1>1. ms \in Seq(SwitchMsg) /\ toClient' = toClient \o ms /\ table \in SUBSET Flows /\ Req.xid \in Xid
  BY ReqType, ReportsType DEF TypeOK, Say
<1>2. \A i \in DOMAIN ms : ~ms[i].any => ms[i].body = NoDelta
  <2> SUFFICES ASSUME NEW i \in DOMAIN ms, ~ms[i].any PROVE ms[i].body = NoDelta
    OBVIOUS
  <2>1. ms[i].body.added = {} /\ ms[i].body.deleted = {} /\ ms[i] \in SwitchMsg /\ ms[i].type = "MultipartReply"
    BY <1>1, ReportParts
  <2>2. ms[i].body \in Delta
    BY <2>1 DEF SwitchMsg
  <2> QED
    BY <2>1, <2>2 DEF Delta, NoDelta
<1>3. PartsTell'
  <2>1. \A i \in DOMAIN toClient : toClient[i].type # "MultipartReply"
    BY DEF FollowInv, PartsTell
  <2> QED
    BY <1>1, <1>2, <2>1, SaidInOrder DEF PartsTell
<1>4. \A i \in DOMAIN toSwitch' : toSwitch'[i].type \notin {"FlowMod", "FlowStatsRequest"}
  BY <1>1, HandledFacts DEF FollowInv
<1>5. FoldLeft(Follow, Viewed, toClient) = {}
  <2> DEFINE Others == {m \in SwitchMsg : m.type # "MultipartReply"}
  <2>1. Viewed \in {{}}
    BY ApplyFacts DEF FollowInv, Viewed
  <2>2. toClient \in Seq(Others)
    <3>1. \A i \in 1 .. Len(toClient) : toClient[i] \in Others
      BY DEF FollowInv, PartsTell, TypeOK
    <3> QED
      BY <3>1 DEF TypeOK
  <2>3. \A S \in {{}}, m \in Others : Follow(S, m) \in {{}}
    BY DEF Follow
  <2> HIDE DEF Others
  <2>4. Told!Fold(Viewed, toClient) \in {{}}
    BY <2>1, <2>2, <2>3, Told!FoldKeeps
  <2> QED
    BY <2>4, ToldIs
<1>6. FoldLeft(Follow, Viewed, toClient') = table
  <2>1. FoldLeft(Follow, Viewed, toClient \o ms) = FoldLeft(Follow, FoldLeft(Follow, Viewed, toClient), ms)
    BY <1>1, Told!FoldConcat, ToldIs DEF TypeOK
  <2>2. FoldLeft(Follow, {}, ms) = table
    BY <1>1, ToldReports
  <2> QED
    BY <1>1, <1>5, <2>1, <2>2
<1>7. MonitorFollowsTable'
  BY <1>6 DEF MonitorFollowsTable, Viewed, client
<1> QED
  BY <1>3, <1>4, <1>7 DEF FollowInv, client

LEMMA FollowInit == Init => FollowInv
<1> SUFFICES ASSUME Init PROVE FollowInv
  OBVIOUS
<1>1. DOMAIN toSwitch = {} /\ DOMAIN toClient = {1} /\ toClient[1].type = "Hello"
  BY DEF Init, Msg
<1> QED
  BY <1>1 DEF Init, FollowInv, PartsTell, MonitorFollowsTable, Idle

LEMMA FollowNext ==
    ASSUME Ops \subseteq MonitorOps, TypeOK, [Next]_vars, ~broken, ~broken', FollowInv
    PROVE  FollowInv'
<1>a. nextXid \in Xid /\ op.acc \in Delta /\ view \in SUBSET Flows
  BY DEF TypeOK, Pending
<1>i. Idle.kind = "none" /\ Idle.acc = NoDelta /\ Viewed \in SUBSET Flows
  BY <1>a, DeltaType DEF Idle, Viewed
<1>c. \A k, x : Call(k, "recv", x).kind = k /\ Call(k, "recv", x).acc = NoDelta
  BY DEF Call
<1>t. /\ Msg("Hello", nextXid) \in ClientMsg /\ Msg("PacketOut", nextXid) \in ClientMsg
      /\ Msg("EchoRequest", nextXid) \in ClientMsg /\ Msg("FlowMonitorRequest", nextXid) \in ClientMsg
      /\ \A t, x : Msg(t, x).type = t
  BY <1>a, ClientMsgType DEF Msg
<1>1. CASE Connect
  BY <1>1, <1>i, <1>c, <1>t, FollowWrite DEF Connect, switch
<1>2. CASE SendPacketOut
  <2>1. UNCHANGED broken
    BY <1>2 DEF SendPacketOut, SendAndReturn, TypeOK
  <2> QED
    BY <1>2, <1>i, <1>t, <2>1, FollowWrite DEF SendPacketOut, SendAndReturn, CanCall, switch
<1>3. ASSUME NEW f \in Flows, NEW c \in {"add", "delete"}, SendFlow(c, f) \/ SendFlowSync(c, f)
      PROVE  FollowInv'
  BY <1>3 DEF SendFlow, SendFlowSync, SendAndReturn, CanCall, MonitorOps
<1>4. ASSUME NEW k \in {"barrier", "echo", "dump_flows", "monitor_flows"}, SendRequest(k)
      PROVE  FollowInv'
  <2>1. k \in {"echo", "monitor_flows"}
    BY <1>4 DEF SendRequest, CanCall, MonitorOps
  <2>2. /\ Msg(RequestType(k), nextXid) \in ClientMsg
        /\ Msg(RequestType(k), nextXid).type \notin {"FlowMod", "FlowStatsRequest"}
    BY <1>t, <2>1 DEF RequestType
  <2>3. UNCHANGED <<toClient, open, broken, table, monitoring, view>> /\ op = Idle /\ op' = Call(k, "recv", nextXid)
    BY <1>4 DEF SendRequest, CanCall, switch
  <2> QED
    BY <1>4, <1>i, <1>c, <2>1, <2>2, <2>3, FollowWrite DEF SendRequest, MonitorOps
<1>5. ASSUME NEW k \in Receives, StartReceive(k)
      PROVE  FollowInv'
  <2>1. /\ k = "recv_flow_updates" /\ op' = Call(k, "recv", 0) /\ op = Idle
        /\ UNCHANGED <<toSwitch, toClient, open, broken, table, monitoring, view>>
    BY <1>5 DEF StartReceive, CanCall, Receives, MonitorOps, wire, switch
  <2> QED
    BY <1>i, <1>c, <2>1 DEF FollowInv, PartsTell, MonitorFollowsTable, MonitorOps
<1>6. CASE SendBarrier \/ SendEchoReply
  <2>1. op.kind # "try_recv_packet_in"
    BY DEF FollowInv, MonitorOps
  <2>2. /\ op'.kind = op.kind /\ op'.acc = op.acc
        /\ UNCHANGED <<toClient, open, broken, table, monitoring, view>>
    BY <1>6, <2>1 DEF SendBarrier, SendEchoReply, TypeOK, Pending, switch
  <2>3. \E m \in ClientMsg : Write(m) /\ m.type \in {"BarrierRequest", "EchoReply"}
    <3>1. Msg("EchoReply", op.echo) \in ClientMsg /\ Msg("BarrierRequest", nextXid) \in ClientMsg
      BY <1>a, ClientMsgType DEF TypeOK, Pending
    <3> QED
      BY <1>6, <1>t, <3>1 DEF SendBarrier, SendEchoReply
  <2> QED
    BY <2>2, <2>3, FollowWrite DEF FollowInv
(* Reading something else than a part.                                     *)
<1>e. ASSUME NEW b, Return("Err", b) \/ Return("Dropped", b) PROVE FALSE
  BY <1>e DEF Return
<1>r. ASSUME NEW kinds, Receiving(kinds), Consume, ReadOnly, Got.type # "MultipartReply",
             \/ UNCHANGED view /\ op'.kind = op.kind /\ op'.acc = op.acc
             \/ op.kind \in {"connect", "echo"} /\ Return("Ok", NoDelta)
      PROVE  FollowInv'
  <2>1. toClient # <<>> /\ UNCHANGED <<toSwitch, open, table, monitoring>>
    BY <1>r DEF Receiving, ReadOnly, switch
  <2>2. Follow(Viewed, Got) = Viewed
    BY <1>r DEF Follow
  <2>3. CASE UNCHANGED view /\ op'.kind = op.kind /\ op'.acc = op.acc
    <3>1. Apply(view', op'.acc) = Follow(Viewed, Got)
      BY <2>2, <2>3 DEF Viewed
    <3> QED
      BY <1>r, <2>1, <2>3, <3>1, FollowRead DEF FollowInv
  <2>4. CASE op.kind \in {"connect", "echo"} /\ Return("Ok", NoDelta)
    <3>1. view' = view /\ op' = Idle /\ op.acc = NoDelta
      BY <2>4 DEF Return, FollowInv
    <3>2. Apply(view', op'.acc) = Follow(Viewed, Got)
      BY <1>i, <2>2, <3>1 DEF Viewed
    <3> QED
      BY <1>r, <1>i, <2>1, <3>1, <3>2, FollowRead DEF FollowInv
  <2> QED
    BY <1>r, <2>3, <2>4
<1>7. CASE RecvHello
  BY <1>7, <1>e, <1>r DEF RecvHello, Receiving
<1>8. CASE RecvEchoReply
  <2>1. CASE Got.type = "EchoReply" /\ Got.xid = op.xid
    BY <1>8, <1>r, <2>1 DEF RecvEchoReply, Receiving
  <2>2. CASE ~(Got.type = "EchoReply" /\ Got.xid = op.xid)
    BY <1>8, <1>e, <2>2 DEF RecvEchoReply
  <2> QED
    BY <2>1, <2>2
<1>9. CASE RecvError \/ StreamFails \/ Drop
  BY <1>9, <1>e DEF RecvError, StreamFails, Drop
<1>10. CASE RecvEchoRequest
  <2>1. UNCHANGED view /\ op'.kind = op.kind /\ op'.acc = op.acc
    BY <1>10 DEF RecvEchoRequest, TypeOK, Pending
  <2> QED
    BY <1>10, <1>r, <2>1 DEF RecvEchoRequest
<1>11. CASE RecvBarrierReply \/ RecvPacketIn \/ RecvCollected("dump_flows", "Flow")
  BY <1>11 DEF RecvBarrierReply, RecvPacketIn, RecvCollected, Receiving, FollowInv, MonitorOps
<1>12. CASE RecvOther
  <2>1. op.kind \in {"monitor_flows", "recv_flow_updates"}
    BY <1>12 DEF RecvOther, Receiving, FollowInv, MonitorOps, Loops, Requests, Receives
  <2>2. Got.type # "MultipartReply" /\ UNCHANGED <<op, view>>
    BY <1>12, <2>1 DEF RecvOther, Accepts
  <2> QED
    BY <1>12, <1>r, <2>2 DEF RecvOther
(* Reading a part: the monitor is registered.                              *)
<1>p. ASSUME toClient # <<>>, Got.type = "MultipartReply"
      PROVE  /\ monitoring /\ Got.body \in Delta /\ (~Got.any => Got.body = NoDelta)
             /\ Follow(Viewed, Got) = Apply(view, Then(op.acc, Got.body))
  <2>1. Got = toClient[1] /\ 1 \in DOMAIN toClient /\ Got.body \in Delta
    BY <1>p, ReadType DEF Got, TypeOK
  <2> QED
    BY <1>a, <1>p, <2>1, ApplyFacts DEF FollowInv, PartsTell, Follow, Viewed
<1>13. CASE RecvCollected("monitor_flows", "Experimenter")
  <2>1. /\ op.kind = "monitor_flows" /\ toClient # <<>> /\ Consume /\ Got.type = "MultipartReply"
        /\ UNCHANGED <<toSwitch, open, table, monitoring>>
    BY <1>13 DEF RecvCollected, Receiving, ReadOnly, switch
  <2>2. CASE Return("Ok", Then(op.acc, Got.body))
    <3>1. view' = Apply(view, Then(op.acc, Got.body)) /\ op' = Idle
      BY <2>1, <2>2 DEF Return
    <3>2. Apply(view', op'.acc) = Follow(Viewed, Got)
      <4>1. view' \in SUBSET Flows
        BY <1>a, <1>p, <2>1, <3>1, DeltaType
      <4> QED
        BY <1>i, <1>p, <2>1, <3>1, <4>1, ApplyFacts
    <3> QED
      BY <1>i, <1>p, <2>1, <3>1, <3>2, FollowRead
  <2>3. CASE op' = [op EXCEPT !.acc = Then(op.acc, Got.body)] /\ UNCHANGED <<last, broken, view>>
    <3>1. op'.kind = "monitor_flows" /\ op'.acc = Then(op.acc, Got.body) /\ view' = view
      BY <2>1, <2>3 DEF TypeOK, Pending
    <3>2. Apply(view', op'.acc) = Follow(Viewed, Got)
      BY <1>p, <2>1, <3>1
    <3> QED
      BY <1>p, <2>1, <3>1, <3>2, FollowRead DEF MonitorOps
  <2> QED
    BY <1>13, <1>e, <2>2, <2>3 DEF RecvCollected
<1>14. CASE RecvUpdates
  <2>1. /\ op.kind = "recv_flow_updates" /\ toClient # <<>> /\ Consume /\ Got.type = "MultipartReply"
        /\ UNCHANGED <<toSwitch, open, table, monitoring>> /\ op.acc = NoDelta
    BY <1>14 DEF RecvUpdates, Receiving, ReadOnly, switch, FollowInv
  <2>2. Follow(Viewed, Got) = Apply(view, Got.body)
    BY <1>a, <2>1, ApplyFacts DEF Follow, Viewed
  <2>3. CASE Return("Ok", Got.body)
    <3>1. view' = Apply(view, Got.body) /\ op' = Idle /\ view' \in SUBSET Flows
      BY <1>a, <1>p, <2>1, <2>3, DeltaType DEF Return
    <3> QED
      BY <1>i, <1>p, <2>1, <2>2, <3>1, ApplyFacts, FollowRead
  <2>4. CASE ~Got.any /\ UNCHANGED <<op, last, broken, view>>
    <3>1. Apply(view', op'.acc) = Follow(Viewed, Got)
      BY <1>p, <2>1, <2>2, <2>4
    <3> QED
      BY <1>p, <2>1, <2>4, <3>1, FollowRead DEF FollowInv
  <2> QED
    BY <1>14, <1>e, <2>3, <2>4 DEF RecvUpdates
(* The switch says nothing of the table: it has not changed.               *)
<1>s. ASSUME UNCHANGED <<client, open, monitoring, table>>, NEW ms \in Seq(SwitchMsg), toClient' = toClient \o ms,
             UNCHANGED toSwitch \/ (toSwitch # <<>> /\ Say(ms)),
             ms = <<>> \/ \E m : ms = <<m>> /\ m.type # "MultipartReply"
      PROVE  FollowInv'
  <2>1. FoldLeft(Follow, table, ms) = table /\ \A i \in DOMAIN ms : ms[i].type # "MultipartReply"
    <3>1. CASE ms = <<>>
      <4>1. Told!Fold(table, <<>>) = table
        BY Told!FoldNone
      <4> QED
        BY <3>1, <4>1, ToldIs
    <3>2. ASSUME NEW m, ms = <<m>>, m.type # "MultipartReply"
          PROVE  FoldLeft(Follow, table, ms) = table /\ \A i \in DOMAIN ms : ms[i].type # "MultipartReply"
      <4>1. Told!Fold(table, <<m>>) = Follow(table, m)
        BY Told!FoldOne
      <4>2. Follow(table, m) = table
        BY <3>2 DEF Follow
      <4>3. DOMAIN ms = {1} /\ ms[1] = m
        BY <3>2
      <4> QED
        BY <3>2, <4>1, <4>2, <4>3, ToldIs
    <3> QED
      BY <1>s, <3>1, <3>2
  <2> QED
    BY <1>s, <2>1, FollowSaid
<1>f. ASSUME toSwitch # <<>>, UNCHANGED <<client, open, monitoring, table>>,
             Say(<<>>) \/ \E t \in {"Error", "BarrierReply", "EchoReply"} : Say(<<Msg(t, Req.xid)>>)
      PROVE  FollowInv'
  <2>1. ASSUME NEW t \in {"Error", "BarrierReply", "EchoReply"}
        PROVE  <<Msg(t, Req.xid)>> \in Seq(SwitchMsg) /\ Msg(t, Req.xid).type # "MultipartReply"
    BY <1>f, <1>t, <2>1, ReqType, SwitchMsgType, ShortSeq
  <2> QED
    BY <1>f, <1>s, <2>1, ShortSeq DEF Say
<1>15. CASE SwitchBarrier \/ SwitchEcho \/ SwitchEchoReply \/ SwitchOther
  <2>1. toSwitch # <<>> /\ UNCHANGED <<client, open, monitoring, table>>
    BY <1>15 DEF SwitchBarrier, SwitchEcho, SwitchEchoReply, SwitchOther, Handling, switch
  <2> QED
    BY <1>15, <1>f, <2>1 DEF SwitchBarrier, SwitchEcho, SwitchEchoReply, SwitchOther, Refuse
<1>16. CASE SwitchFlowMod \/ SwitchStats
  <2>1. 1 \in DOMAIN toSwitch /\ toSwitch[1].type \in {"FlowMod", "FlowStatsRequest"}
    BY <1>16 DEF SwitchFlowMod, SwitchStats, Handling, TypeOK
  <2> QED
    BY <2>1 DEF FollowInv
<1>17. CASE SwitchMonitor
  <2>1. toSwitch # <<>> /\ UNCHANGED <<client, open, table>>
    BY <1>17 DEF SwitchMonitor, Handling
  <2> QED
    BY <1>17, <1>f, <2>1, FollowRegistered DEF SwitchMonitor, Refuse
<1>18. ASSUME NEW t \in {"EchoRequest", "PacketIn", "PortStatus"}, SwitchAsync(t)
       PROVE  FollowInv'
  <2>1. Msg(t, asyncs % XidModulus) \in SwitchMsg
    BY XidType, SwitchMsgType DEF TypeOK
  <2>2. toClient' = toClient \o <<Msg(t, asyncs % XidModulus)>>
    BY <1>18, <2>1 DEF SwitchAsync, TypeOK
  <2> QED
    BY <1>18, <1>s, <1>t, <2>1, <2>2, ShortSeq DEF SwitchAsync
<1>19. ASSUME NEW f \in Flows, OtherController(f)
       PROVE  FollowInv'
  <2>1. UNCHANGED <<client, open, monitoring, toSwitch>>
    BY <1>19 DEF OtherController
  <2>2. CASE ~open
    BY <2>1, <2>2, <1>19 DEF OtherController, FollowInv, PartsTell, MonitorFollowsTable, client
  <2>3. CASE open
    <3>1. PICK d \in Delta : toClient' = toClient \o Notice(d) /\ table' = Apply(table, d)
      <4>1. /\ [added |-> {f}, deleted |-> {}] \in Delta /\ [added |-> {}, deleted |-> {f}] \in Delta
        BY DeltaType
      <4> QED
        BY <1>19, <2>3, <4>1, ApplyFacts DEF OtherController
    <3>2. Notice(d) \in Seq(SwitchMsg)
      BY NoticeType
    <3>3. monitoring => FoldLeft(Follow, table, Notice(d)) = table'
      BY <3>1, ToldNotice
    <3>4. \A i \in DOMAIN Notice(d) : Notice(d)[i].type = "MultipartReply" => monitoring /\ Notice(d)[i].any
      <4>1. CASE monitoring
        <5>1. Notice(d) = <<Part(0, "Experimenter", d, TRUE, FALSE)>>
          BY <4>1 DEF Notice
        <5>2. DOMAIN Notice(d) = {1} /\ Notice(d)[1].any
          BY <5>1 DEF Part
        <5> QED
          BY <4>1, <5>2
      <4>2. CASE ~monitoring
        BY <4>2 DEF Notice
      <4> QED
        BY <4>1, <4>2
    <3> QED
      BY <2>1, <3>1, <3>2, <3>3, <3>4, FollowSaid
  <2> QED
    BY <2>2, <2>3
<1>20. CASE Close
  <2>1. PartsTell'
    BY <1>20, CutFacts DEF FollowInv, PartsTell, Close, switch
  <2> QED
    BY <1>20, <2>1, CutFacts DEF FollowInv, MonitorFollowsTable, Close, switch, client
<1>21. CASE UNCHANGED vars
  BY <1>21 DEF vars, wire, client, switch, FollowInv, PartsTell, MonitorFollowsTable
<1> QED
  BY <1>1, <1>2, <1>3, <1>4, <1>5, <1>6, <1>7, <1>8, <1>9, <1>10, <1>11, <1>12, <1>13, <1>14, <1>15,
     <1>16, <1>17, <1>18, <1>19, <1>20, <1>21
     DEF Next, ClientCalls, ClientSteps, SwitchActs, SwitchHandles

(* On a connection used only to monitor flows (and for packet-outs and     *)
(* echoes), as long as no method fails, what the caller was handed, with   *)
(* the parts collected and in flight, is the table of the switch.          *)
THEOREM MonitorFollows ==
    ASSUME Ops \subseteq MonitorOps
    PROVE  Spec => []MonitorFollowsTable
<1> DEFINE FInv == TypeOK /\ (~broken => FollowInv)
<1>1. Init => FInv
  BY TypeInit, FollowInit
<1>2. FInv /\ [Next]_vars => FInv'
  BY TypeNext, BrokenStays, FollowNext
<1>3. FInv => MonitorFollowsTable
  BY DEF FollowInv, MonitorFollowsTable
<1> HIDE DEF FInv
<1> QED
  BY <1>1, <1>2, <1>3, PTL DEF Spec
=============================================================================
