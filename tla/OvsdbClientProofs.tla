------------------------- MODULE OvsdbClientProofs -------------------------
(***************************************************************************)
(* The OVSDB client implements Replica, answers a commit with what the     *)
(* server did with it, and loses no echo request of the server but in run, *)
(* for any rows and values, any of its methods, any of them dropped, and   *)
(* any bounds.                                                             *)
(***************************************************************************)
EXTENDS OvsdbClient, TLAPS

Popping == INSTANCE FoldFacts WITH Step <- Processed
Coming  == INSTANCE FoldFacts WITH Step <- TakeOver

Notifications == {m \in FromServer : m.kind = "request"}

LEMMA PoppingIs == \A b, q : Popping!Fold(b, q) = FoldLeft(Processed, b, q)
  BY DEF Popping!Fold, FoldLeft, Popping!FoldLeft, MapThenFoldSet, Popping!MapThenFoldSet,
         Max, Popping!Max

LEMMA ComingIs == \A b, q : Coming!Fold(b, q) = FoldLeft(TakeOver, b, q)
  BY DEF Coming!Fold, FoldLeft, Coming!FoldLeft, MapThenFoldSet, Coming!MapThenFoldSet,
         Max, Coming!Max

-----------------------------------------------------------------------------
(* Contents and changes.                                                   *)
LEMMA ChangeFacts ==
    ASSUME NEW d
    PROVE  d \in Changes <=> /\ d = [r \in DOMAIN d |-> d[r]]
                             /\ DOMAIN d \subseteq Rows
                             /\ \A r \in DOMAIN d : d[r] \in Values \union {NoRow}
<1>1. ASSUME d \in Changes
      PROVE  /\ d = [r \in DOMAIN d |-> d[r]]
             /\ DOMAIN d \subseteq Rows
             /\ \A r \in DOMAIN d : d[r] \in Values \union {NoRow}
  <2>1. PICK D \in SUBSET Rows : d \in [D -> Values \union {NoRow}]
    BY <1>1 DEF Changes
  <2> QED
    BY <2>1
<1>2. ASSUME d = [r \in DOMAIN d |-> d[r]], DOMAIN d \subseteq Rows,
             \A r \in DOMAIN d : d[r] \in Values \union {NoRow}
      PROVE  d \in Changes
  <2>1. d \in [DOMAIN d -> Values \union {NoRow}] /\ DOMAIN d \in SUBSET Rows
    BY <1>2
  <2> QED
    BY <2>1 DEF Changes
<1> QED
  BY <1>1, <1>2

LEMMA SmallChanges ==
    /\ NoChange \in Changes
    /\ \A c \in Contents : c \in Changes /\ With(c, NoChange) = c
<1>1. NoChange \in Changes
  <2>1. DOMAIN NoChange = {} /\ NoChange = [r \in DOMAIN NoChange |-> NoChange[r]]
    BY DEF NoChange
  <2> QED
    BY <2>1, ChangeFacts
<1>2. \A c \in Contents : c \in Changes
  BY ChangeFacts DEF Contents
<1>3. \A c \in Contents : With(c, NoChange) = c
  BY DEF With, NoChange, Contents
<1> QED
  BY <1>1, <1>2, <1>3

LEMMA WithFacts ==
    ASSUME NEW c \in Contents, NEW d \in Changes
    PROVE  /\ With(c, d) \in Contents
           /\ Effect(c, d) \in Changes /\ With(c, Effect(c, d)) = With(c, d)
           /\ d \in Contents => With(c, d) = d
<1>1. With(c, d) \in Contents
  BY ChangeFacts DEF With, Contents
<1>3. Effect(c, d) \in Changes
  <2>1. DOMAIN Effect(c, d) \subseteq DOMAIN d
    BY DEF Effect
  <2>2. \A r \in DOMAIN Effect(c, d) : Effect(c, d)[r] = d[r]
    BY DEF Effect
  <2>3. Effect(c, d) = [r \in DOMAIN Effect(c, d) |-> Effect(c, d)[r]]
    BY DEF Effect
  <2> QED
    BY <2>1, <2>2, <2>3, ChangeFacts
<1>4. With(c, Effect(c, d)) = With(c, d)
  <2>1. \A r \in Rows : With(c, Effect(c, d))[r] = With(c, d)[r]
    BY DEF With, Effect
  <2> QED
    BY <2>1 DEF With
<1>7. d \in Contents => With(c, d) = d
  BY DEF With, Contents
<1> QED
  BY <1>1, <1>3, <1>4, <1>7

(* Messages.                                                               *)
LEMMA MessageTypes ==
    /\ \A i \in Nat, b \in Changes, t \in {"get_schema", "monitor", "transact", "list_dbs", "monitor_cancel"} :
          Request(t, i, b) \in FromClient
    /\ \A i \in Nat, b \in Changes : Response(i, "Ok", b) \in FromClient
    /\ \A i \in Nat, b \in Changes, t \in {"update", "echo"} :
          Request(t, i, b) \in FromServer /\ Request(t, i, b) \in Notifications
    /\ \A i \in Nat, b \in Changes, r \in {"Ok", "Failed", "Rpc"} : Response(i, r, b) \in FromServer
  BY DEF Request, Response, FromClient, FromServer, Notifications

LEMMA MessageFields ==
    /\ \A m \in FromServer : /\ m.kind \in {"request", "response"} /\ m.id \in Nat /\ m.body \in Changes
                             /\ m.kind = "request" => m.method \in {"update", "echo"} /\ m \in Notifications
                             /\ m.kind = "response" => m.res \in {"Ok", "Failed", "Rpc"}
    /\ \A m \in FromClient : m.kind \in {"request", "response"} /\ m.id \in Nat /\ m.body \in Changes
    /\ \A m \in Notifications : m \in FromServer
  BY DEF FromClient, FromServer, Notifications

LEMMA ProcessedType ==
    ASSUME NEW s \in [idl : Contents, seqno : Nat], NEW m \in Notifications
    PROVE  Processed(s, m) \in [idl : Contents, seqno : Nat]
  BY MessageFields, WithFacts DEF Processed, Merge

LEMMA NotificationType ==
    ASSUME NEW d \in Changes PROVE Notification(d) \in Seq(FromServer)
<1>1. Request("update", 0, d) \in FromServer
  BY MessageTypes
<1> QED
  BY <1>1 DEF Notification

-----------------------------------------------------------------------------
(* Types.                                                                  *)
Results == {"none", "Ok", "Failed", "Rpc", "UnexpectedId", "Closed", "Dropped"}
Points  == {"idle", "schema", "start", "monitor", "response",
            "buffered", "bufferedEcho", "read", "readEcho"}

ConnType ==
    /\ toServer \in Seq(FromClient) /\ toClient \in Seq(FromServer)
    /\ open \in BOOLEAN /\ nextId \in Nat /\ pending \in Seq(Notifications)
CallType ==
    /\ op \in [kind : Methods \union {"none"}, id : Nat, echo : Nat, pc : Points]
    /\ connected \in BOOLEAN
    /\ last \in [kind : Methods \union {"none"}, id : Nat, res : Results]
IdlType ==
    /\ idl \in Contents /\ seqno \in Nat
    /\ idlState \in {"Initial", "MonitorRequested", "Monitoring"}
    /\ monitorId \in BOOLEAN /\ lost \subseteq Nat
ServerType ==
    /\ db \in Contents /\ monitored \in BOOLEAN
    /\ results \subseteq [id : Nat, res : {"Ok", "Failed", "Rpc"}]
    /\ echoes \in Nat /\ answered \subseteq Nat /\ changes \in Nat

LEMMA TypeParts == TypeOK <=> ConnType /\ CallType /\ IdlType /\ ServerType
  BY DEF TypeOK, ConnType, CallType, IdlType, ServerType, Notifications, Results, Points

LEMMA InitType == Init => ConnType /\ CallType /\ IdlType /\ ServerType
<1> SUFFICES ASSUME Init PROVE ConnType /\ CallType /\ IdlType /\ ServerType
  OBVIOUS
<1>1. ConnType
  BY DEF Init, ConnInit, ConnType
<1>2. CallType
  BY DEF Init, CallType, Idle, Results, Points
<1>3. IdlType
  BY DEF Init, IdlType, Contents
<1>4. ServerType
  BY DEF Init, ServerType
<1> QED
  BY <1>1, <1>2, <1>3, <1>4

(* What the parts of an action do to the connection ...                    *)
LEMMA SendType ==
    ASSUME ConnType, NEW b \in Changes, 
           NEW t \in {"get_schema", "monitor", "transact", "list_dbs", "monitor_cancel"},
           SendRequest(t, b)
    PROVE  ConnType'
  BY MessageTypes DEF ConnType, SendRequest, SendMessage

LEMMA TakeType ==
    ASSUME ConnType, TakeNext
    PROVE  /\ Got \in FromServer
           /\ UNCHANGED pending => ConnType'
           /\ Got.kind = "request" /\ pending' = Append(pending, Got) => ConnType'
<1>1. Got \in FromServer /\ toClient' \in Seq(FromServer)
  BY DEF ConnType, TakeNext, Readable, Got
<1>2. UNCHANGED <<toServer, open, nextId>>
  BY DEF TakeNext
<1>3. Got.kind = "request" => Got \in Notifications
  BY <1>1, MessageFields
<1> HIDE DEF Got
<1>4. Got.kind = "request" /\ pending' = Append(pending, Got) => pending' \in Seq(Notifications)
  BY <1>3 DEF ConnType
<1> QED
  BY <1>1, <1>2, <1>4 DEF ConnType

LEMMA PopType ==
    ASSUME ConnType, Pop
    PROVE  /\ Popped \in Notifications
           /\ UNCHANGED <<toServer, toClient, open, nextId>> => ConnType'
  BY DEF ConnType, Pop, Popped

(* ... and to the call.                                                    *)
LEMMA ReturnType ==
    ASSUME CallType, NEW r \in Results, Return(r)
    PROVE  CallType'
  BY DEF CallType, Return, Idle, Points

LEMMA PendingType ==
    ASSUME CallType, NEW pc \in Points, Pending(pc)
    PROVE  CallType'
  BY DEF CallType, Pending

LEMMA BeginType ==
    ASSUME CallType, ConnType, NEW k \in Methods, NEW pc \in Points, Begin(k, pc)
    PROVE  CallType'
  BY DEF CallType, ConnType, Begin

LEMMA ResponseType ==
    ASSUME ConnType, NEW i, TakeResponse(i)
    PROVE  Got \in FromServer /\ Got.body \in Changes /\ Got.res \in Results /\ ConnType'
  BY TakeType, MessageFields DEF TakeResponse, Results

LEMMA UpdateType ==
    ASSUME IdlType, NEW d \in Changes, ProcessUpdate(d)
    PROVE  idl' \in Contents /\ seqno' \in Nat
  BY WithFacts DEF IdlType, ProcessUpdate, Merge

LEMMA NextType ==
    ASSUME ConnType, CallType, IdlType, ServerType, [Next]_vars
    PROVE  ConnType' /\ CallType' /\ IdlType' /\ ServerType'
<1>0. NoChange \in Changes
  BY SmallChanges
<1>1. CASE Connect
  <2>1. ConnType'
    BY <1>0, <1>1, SendType DEF Connect
  <2>2. CallType'
    BY <1>1, BeginType DEF Connect, Methods, Points
  <2> QED
    BY <1>1, <2>1, <2>2 DEF Connect, IdlType, ServerType, server
<1>2. CASE ListDbs \/ CancelMonitor
  <2>1. ConnType'
    BY <1>0, <1>2, SendType DEF ListDbs, CancelMonitor
  <2>2. CallType'
    BY <1>2, BeginType DEF ListDbs, CancelMonitor, Methods, Points
  <2> QED
    BY <1>2, <2>1, <2>2 DEF ListDbs, CancelMonitor, IdlType, ServerType, server
<1>3. CASE Run
  <2> DEFINE start == [idl |-> idl, seqno |-> seqno]
             after == FoldLeft(Processed, start, pending)
  <2>1. start \in [idl : Contents, seqno : Nat]
    BY DEF IdlType
  <2>2. Popping!Fold(start, pending) \in [idl : Contents, seqno : Nat]
    <3> HIDE DEF start
    <3> QED
      BY <2>1, ProcessedType, Popping!FoldKeeps DEF ConnType
  <2>3. after \in [idl : Contents, seqno : Nat]
    BY <2>2, PoppingIs
  <2>4. idl' = after.idl /\ seqno' = after.seqno
    BY <1>3 DEF Run
  <2> HIDE DEF after, start
  <2>5. idl' \in Contents /\ seqno' \in Nat
    BY <2>3, <2>4
  <2>6. lost' \subseteq Nat
    <3>1. \A m \in Range(pending) : m.id \in Nat
      BY MessageFields DEF Range, ConnType
    <3> QED
      BY <1>3, <3>1 DEF Run, IdlType
  <2>7. ConnType' /\ CallType'
    BY <1>3 DEF Run, ConnType, CallType, Methods, Results
  <2> QED
    BY <1>3, <2>5, <2>6, <2>7 DEF Run, IdlType, ServerType, server
<1>4. CASE Wait
  BY <1>4, BeginType DEF Wait, ConnType, IdlType, ServerType, conn, server, Methods, Points
<1>5. CASE ReturnAtOnce
  BY <1>5 DEF ReturnAtOnce, conn, server, ConnType, CallType, IdlType, ServerType, Methods, Results
<1>6. ASSUME NEW d \in Changes, Commit(d)
      PROVE  ConnType' /\ CallType' /\ IdlType' /\ ServerType'
  <2>1. ConnType'
    BY <1>6, SendType DEF Commit
  <2>2. CallType'
    BY <1>6, BeginType DEF Commit, Methods, Points
  <2> QED
    BY <1>6, <2>1, <2>2 DEF Commit, IdlType, ServerType, server
<1>7. CASE StartMonitor
  <2>1. ConnType'
    BY <1>0, <1>7, SendType DEF StartMonitor
  <2>2. CallType'
    BY <1>7, BeginType DEF StartMonitor, Methods, Points
  <2> QED
    BY <1>7, <2>1, <2>2 DEF StartMonitor, IdlType, ServerType, server
<1>8. CASE RecvSchema
  <2>1. ConnType' /\ Got.res \in Results
    BY <1>8, ResponseType DEF RecvSchema
  <2>2. CallType'
    BY <1>8, <2>1, ReturnType, PendingType DEF RecvSchema, Points
  <2> QED
    BY <1>8, <2>1, <2>2 DEF RecvSchema, IdlType, ServerType, server
<1>9. CASE RecvMonitorReply
  <2>1. ConnType' /\ Got.res \in Results /\ Got.body \in Changes
    BY <1>9, ResponseType DEF RecvMonitorReply
  <2>2. CallType'
    BY <1>9, <2>1, ReturnType DEF RecvMonitorReply, Results
  <2>3. idl' \in Contents /\ seqno' \in Nat
    BY <1>9, <2>1, UpdateType DEF RecvMonitorReply, IdlType
  <2> QED
    BY <1>9, <2>1, <2>2, <2>3 DEF RecvMonitorReply, IdlType, ServerType, server
<1>10. CASE RecvResponse
  <2>1. ConnType' /\ Got.res \in Results
    BY <1>10, ResponseType DEF RecvResponse
  <2> QED
    BY <1>10, <2>1, ReturnType DEF RecvResponse, IdlType, ServerType, server
<1>11. CASE RecvNotification
  BY <1>11, TakeType DEF RecvNotification, BufferNotification, client, server, CallType, IdlType, ServerType
<1>12. CASE RecvUnexpected
  <2>1. ConnType'
    BY <1>12, TakeType DEF RecvUnexpected, TakeUnexpected
  <2> QED
    BY <1>12, <2>1, ReturnType DEF RecvUnexpected, IdlType, ServerType, server, Results
<1>13. CASE WaitPop
  <2>1. CASE pending = <<>> /\ Pending("read") /\ UNCHANGED <<pending, idl, seqno>>
    BY <1>13, <2>1, PendingType DEF WaitPop, ConnType, IdlType, ServerType, server, Points
  <2>2. CASE /\ Pop /\ Popped.method = "echo"
             /\ op' = [op EXCEPT !.pc = "bufferedEcho", !.echo = Popped.id]
             /\ UNCHANGED <<connected, last, idl, seqno>>
    <3>1. ConnType' /\ Popped.id \in Nat
      BY <1>13, <2>2, PopType, MessageFields DEF WaitPop
    <3> QED
      BY <1>13, <2>2, <3>1 DEF WaitPop, CallType, IdlType, ServerType, server, Points
  <2>3. CASE Pop /\ Popped.method = "update" /\ ProcessUpdate(Popped.body) /\ Return("Ok")
    <3>1. ConnType' /\ Popped.body \in Changes
      BY <1>13, <2>3, PopType, MessageFields DEF WaitPop
    <3>2. idl' \in Contents /\ seqno' \in Nat /\ CallType'
      BY <2>3, <3>1, UpdateType, ReturnType DEF Results
    <3> QED
      BY <1>13, <3>1, <3>2 DEF WaitPop, IdlType, ServerType, server
  <2> QED
    BY <1>13, <2>1, <2>2, <2>3 DEF WaitPop
<1>14. CASE WaitRead
  <2>1. ConnType' /\ Got \in FromServer /\ Got.id \in Nat /\ Got.body \in Changes
    BY <1>14, TakeType, MessageFields DEF WaitRead
  <2>2. CallType' /\ idl' \in Contents /\ seqno' \in Nat
    <3>1. CASE Got.kind = "response" /\ UNCHANGED <<op, connected, last, idl, seqno>>
      BY <3>1 DEF CallType, IdlType
    <3>2. CASE /\ Got.kind = "request" /\ Got.method = "echo"
               /\ op' = [op EXCEPT !.pc = "readEcho", !.echo = Got.id]
               /\ UNCHANGED <<connected, last, idl, seqno>>
      BY <2>1, <3>2 DEF CallType, IdlType, Points
    <3>3. CASE ProcessUpdate(Got.body) /\ Return("Ok")
      BY <2>1, <3>3, UpdateType, ReturnType DEF Results
    <3> QED
      BY <1>14, <3>1, <3>2, <3>3 DEF WaitRead
  <2> QED
    BY <1>14, <2>1, <2>2 DEF WaitRead, IdlType, ServerType, server
<1>15. CASE SendEchoReply
  <2>1. ConnType'
    BY <1>0, <1>15, MessageTypes DEF SendEchoReply, SendMessage, ConnType, CallType
  <2> QED
    BY <1>15, <2>1 DEF SendEchoReply, CallType, IdlType, ServerType, server, Points
<1>16. CASE StreamFails \/ Drop
  <2>1. CallType'
    BY <1>16, ReturnType DEF StreamFails, Drop, Results
  <2> QED
    BY <1>16, <2>1 DEF StreamFails, Drop, conn, server, ConnType, IdlType, ServerType
<1>17. ASSUME NEW ms \in Seq(FromServer), Tell(ms),
              UNCHANGED <<open, nextId, pending, client>>,
              UNCHANGED toServer \/ (toServer # <<>> /\ toServer' = Tail(toServer))
       PROVE  ConnType' /\ CallType' /\ IdlType'
  <2>1. ConnType'
    <3>1. toServer' \in Seq(FromClient)
      <4>1. toServer \in Seq(FromClient)
        BY DEF ConnType
      <4>2. \A q \in Seq(FromClient) : q # <<>> => Tail(q) \in Seq(FromClient)
        OBVIOUS
      <4> QED
        BY <1>17, <4>1, <4>2
    <3>2. toClient' \in Seq(FromServer)
      BY <1>17 DEF Tell, ConnType
    <3> QED
      BY <1>17, <3>1, <3>2 DEF ConnType
  <2>2. CallType' /\ IdlType'
    BY <1>17 DEF client, CallType, IdlType
  <2> QED
    BY <2>1, <2>2
<1>18. ASSUME toServer # <<>>
       PROVE  /\ Head(toServer).id \in Nat /\ Head(toServer).body \in Changes
              /\ \A b \in Changes, r \in {"Ok", "Failed", "Rpc"} : <<Answer(r, b)>> \in Seq(FromServer)
  <2>1. Head(toServer) \in FromClient
    BY <1>18 DEF ConnType
  <2>2. Head(toServer).id \in Nat /\ Head(toServer).body \in Changes
    BY <2>1, MessageFields
  <2>3. \A b \in Changes, r \in {"Ok", "Failed", "Rpc"} : Answer(r, b) \in FromServer
    BY <2>2, MessageTypes DEF Answer
  <2> QED
    BY <2>2, <2>3
<1>19. CASE ServerSimple
  BY <1>0, <1>17, <1>18, <1>19 DEF ServerSimple, Serve, ServerType
<1>20. CASE ServerMonitor
  <2>1. db \in Changes
    BY SmallChanges DEF ServerType
  <2> QED
    BY <1>0, <1>17, <1>18, <1>20, <2>1 DEF ServerMonitor, Serve, ServerType
<1>21. CASE ServerCancel
  BY <1>0, <1>17, <1>18, <1>21 DEF ServerCancel, Serve, ServerType
<1>22. CASE ServerTransact
  <2>1. toServer # <<>>
    BY <1>22 DEF ServerTransact, Serve
  <2>2. PICK r \in {"Ok", "Failed", "Rpc"} :
            LET d == IF r = "Ok" THEN Effect(db, Head(toServer).body) ELSE NoChange
            IN  /\ db' = With(db, d)
                /\ \/ Tell(Notification(d) \o <<Answer(r, NoChange)>>)
                   \/ Tell(<<Answer(r, NoChange)>> \o Notification(d))
                /\ results' = results \union {[id |-> Head(toServer).id, res |-> r]}
    BY <1>22 DEF ServerTransact
  <2> DEFINE d == IF r = "Ok" THEN Effect(db, Head(toServer).body) ELSE NoChange
  <2>3. d \in Changes
    BY <1>0, <1>18, <2>1, WithFacts DEF ServerType
  <2>4. \E ms \in Seq(FromServer) : Tell(ms)
    <3>1. Notification(d) \in Seq(FromServer) /\ <<Answer(r, NoChange)>> \in Seq(FromServer)
      BY <1>0, <1>18, <2>1, <2>3, NotificationType
    <3>2. \A p, q \in Seq(FromServer) : p \o q \in Seq(FromServer)
      OBVIOUS
    <3> QED
      BY <2>2, <3>1, <3>2
  <2>5. db' \in Contents
    BY <2>2, <2>3, WithFacts DEF ServerType
  <2>6. ConnType' /\ CallType' /\ IdlType'
    BY <1>0, <1>17, <1>22, <2>4 DEF ServerTransact, Serve
  <2> QED
    BY <1>18, <1>22, <2>1, <2>2, <2>5, <2>6 DEF ServerTransact, Serve, ServerType
<1>23. CASE ServerEchoReply
  <2>1. Head(toServer).id \in Nat
    BY <1>18, <1>23 DEF ServerEchoReply
  <2> QED
    <3>1. ServerType'
      BY <1>23, <2>1 DEF ServerEchoReply, ServerType
    <3>2. ConnType'
      BY <1>23 DEF ServerEchoReply, ConnType
    <3>3. CallType' /\ IdlType'
      BY <1>23 DEF ServerEchoReply, client, CallType, IdlType
    <3> QED
      BY <3>1, <3>2, <3>3
<1>24. ASSUME NEW d \in Changes, OtherClient(d)
       PROVE  ConnType' /\ CallType' /\ IdlType' /\ ServerType'
  <2>1. Notification(Effect(db, d)) \in Seq(FromServer) /\ db' \in Contents
    BY <1>24, NotificationType, WithFacts DEF OtherClient, ServerType
  <2> QED
    BY <1>0, <1>17, <1>24, <2>1 DEF OtherClient, ServerType
<1>25. CASE ServerEcho
  <2>1. echoes' \in Nat
    BY <1>25 DEF ServerEcho, ServerType
  <2>2. <<Request("echo", echoes', NoChange)>> \in Seq(FromServer)
    BY <1>0, <2>1, MessageTypes
  <2> QED
    BY <1>0, <1>17, <1>25, <2>1, <2>2 DEF ServerEcho, ServerType
<1>26. CASE Close
  <2>1. PICK n \in 0 .. Len(toClient) : toClient' = SubSeq(toClient, 1, n)
    BY <1>26 DEF Close
  <2>2. toClient' \in Seq(FromServer)
    BY <2>1 DEF ConnType
  <2>3. ConnType'
    <3>1. toServer' \in Seq(FromClient)
      BY <1>26 DEF Close
    <3> QED
      BY <1>26, <2>2, <3>1 DEF Close, ConnType
  <2>4. ServerType'
    BY <1>26 DEF Close, ServerType
  <2>5. CallType' /\ IdlType'
    BY <1>26 DEF Close, client, CallType, IdlType
  <2> QED
    BY <2>3, <2>4, <2>5
<1>27. CASE UNCHANGED vars
  BY <1>27 DEF vars, conn, client, server, ConnType, CallType, IdlType, ServerType
<1> QED
  BY <1>1, <1>2, <1>3, <1>4, <1>5, <1>6, <1>7, <1>8, <1>9, <1>10, <1>11, <1>12, <1>13, <1>14,
     <1>15, <1>16, <1>19, <1>20, <1>21, <1>22, <1>23, <1>24, <1>25, <1>26, <1>27
     DEF Next, Call, ClientStep, Receive, ServerStep

LEMMA NextTypeOK == TypeOK /\ [Next]_vars => TypeOK'
<1> SUFFICES ASSUME TypeOK, [Next]_vars PROVE TypeOK'
  OBVIOUS
<1>1. ConnType' /\ CallType' /\ IdlType' /\ ServerType'
  BY TypeParts, NextType
<1> QED
  BY <1>1 DEF TypeOK, ConnType, CallType, IdlType, ServerType, Notifications, Results, Points

(* Every state of the client and the server is of its type; in particular  *)
(* only whole messages are in flight, and what recv_response sets aside    *)
(* are notifications.                                                      *)
THEOREM OvsdbTypes == Spec => []TypeOK
<1>1. Init => TypeOK
  BY InitType, TypeParts
<1> QED
  BY <1>1, NextTypeOK, PTL DEF Spec

-----------------------------------------------------------------------------
(* Sequences, by position.                                                 *)
LEMMA AppendPlaces ==
    ASSUME NEW S, NEW q \in Seq(S), NEW x \in S, NEW p, p = Append(q, x)
    PROVE  /\ \A i \in DOMAIN p : \/ i = Len(q) + 1 /\ p[i] = x
                                  \/ i \in DOMAIN q /\ i # Len(q) + 1 /\ p[i] = q[i]
           /\ \A i \in DOMAIN q : i \in DOMAIN p /\ p[i] = q[i] /\ i < Len(q) + 1
           /\ Len(q) + 1 \in DOMAIN p /\ p[Len(q) + 1] = x
  OBVIOUS

LEMMA ConcatPlaces ==
    ASSUME NEW S, NEW q \in Seq(S), NEW r \in Seq(S), NEW p, p = q \o r
    PROVE  /\ \A i \in DOMAIN p : \/ i \in DOMAIN q /\ p[i] = q[i]
                                  \/ /\ i - Len(q) \in DOMAIN r /\ p[i] = r[i - Len(q)]
                                     /\ i > Len(q)
           /\ \A i \in DOMAIN q : i \in DOMAIN p /\ p[i] = q[i] /\ i <= Len(q)
           /\ \A i \in DOMAIN r : i + Len(q) \in DOMAIN p /\ p[i + Len(q)] = r[i]
  OBVIOUS

LEMMA AppendConcat ==
    ASSUME NEW S, NEW p \in Seq(S), NEW r \in Seq(S), NEW z \in S
    PROVE  p \o Append(r, z) = Append(p \o r, z)
<1> DEFINE t == Append(r, z)
<1>1. t \in Seq(S) /\ Len(t) = Len(r) + 1 /\ t[Len(r) + 1] = z /\ \A i \in 1 .. Len(r) : t[i] = r[i]
  OBVIOUS
<1> HIDE DEF t
<1>2. p \o t = Append(p \o r, z)
  BY <1>1, SMTT(60)
<1> QED
  BY <1>2 DEF t

LEMMA TailPlaces ==
    ASSUME NEW S, NEW q \in Seq(S), q # <<>>, NEW p, p = Tail(q)
    PROVE  /\ \A i \in DOMAIN p : i + 1 \in DOMAIN q /\ p[i] = q[i + 1] /\ i + 1 > 1
           /\ \A i \in DOMAIN q : IF i = 1 THEN q[i] = Head(q)
                                  ELSE i - 1 \in DOMAIN p /\ p[i - 1] = q[i] /\ i > 1
           /\ 1 \in DOMAIN q /\ q[1] = Head(q)
  OBVIOUS

LEMMA PrefixPlaces ==
    ASSUME NEW S, NEW q \in Seq(S), NEW n \in 0 .. Len(q), NEW p, p = SubSeq(q, 1, n)
    PROVE  \A i \in DOMAIN p : /\ i \in DOMAIN q /\ p[i] = q[i] /\ i \in Nat
                               /\ \A j \in DOMAIN q : j < i => j \in DOMAIN p
  OBVIOUS

LEMMA PrefixRest ==
    ASSUME NEW S, NEW q \in Seq(S), NEW n \in 0 .. Len(q)
    PROVE  /\ SubSeq(q, 1, n) \in Seq(S)
           /\ \E r \in Seq(S) : q = SubSeq(q, 1, n) \o r
<1> DEFINE p == SubSeq(q, 1, n)
           r == SubSeq(q, n + 1, Len(q))
<1>1. p \in Seq(S) /\ Len(p) = n /\ \A i \in 1 .. n : p[i] = q[i]
  OBVIOUS
<1>2. r \in Seq(S) /\ Len(r) = Len(q) - n /\ \A i \in 1 .. Len(q) - n : r[i] = q[i + n]
  <2>1. \A i \in n + 1 .. Len(q) : q[i] \in S
    OBVIOUS
  <2>2. n + 1 \in Int /\ Len(q) \in Nat
    OBVIOUS
  <2> QED
    BY <2>1, <2>2
<1> HIDE DEF p, r
<1>3. Len(p \o r) = Len(q) /\ p \o r \in Seq(S)
  BY <1>1, <1>2
<1>4. ASSUME NEW i \in 1 .. Len(q) PROVE (p \o r)[i] = q[i]
  <2>0. i \in Int /\ n \in Int
    OBVIOUS
  <2>1. CASE i <= n
    <3>1. i \in 1 .. Len(p) /\ p[i] = q[i]
      BY <1>1, <2>0, <2>1
    <3>2. (p \o r)[i] = p[i]
      BY <1>1, <1>2, <3>1
    <3> QED
      BY <3>1, <3>2
  <2>2. CASE i > n
    <3>1. (p \o r)[i] = r[i - n] /\ i - n \in 1 .. Len(q) - n
      BY <1>1, <1>2, <2>2
    <3> QED
      BY <1>2, <3>1
  <2>3. i <= n \/ i > n
    BY <2>0
  <2> QED
    BY <2>1, <2>2, <2>3, Zenon
<1>5. p \o r = q
  <2>1. \A u, v \in Seq(S) : Len(u) = Len(v) /\ (\A i \in 1 .. Len(v) : u[i] = v[i]) => u = v
    OBVIOUS
  <2> HIDE DEF p, r
  <2> QED
    BY <1>3, <1>4, <2>1
<1> QED
  BY <1>1, <1>2, <1>5 DEF p

-----------------------------------------------------------------------------
(* Where a call can be: connect uses the ids 1 and 2, its Client exists    *)
(* from the monitor reply on, and wait reads when nothing is set aside.    *)
CallShape ==
    \/ op = Idle
    \/ /\ op.kind = "connect" /\ ~connected /\ op.echo = 0
       /\ \/ op.pc \in {"schema", "start"} /\ op.id = 1 /\ nextId = 2
          \/ op.pc = "monitor" /\ op.id = 2 /\ nextId = 3
    \/ /\ op.kind \in {"commit", "list_dbs", "cancel_monitor"} /\ connected /\ op.echo = 0
       /\ op.pc = "response" /\ op.id > 2 /\ op.id < nextId
    \/ /\ op.kind = "wait" /\ connected
       /\ \/ op.pc \in {"buffered", "read"} /\ op.echo = 0
          \/ op.pc \in {"bufferedEcho", "readEcho"}

ConnectedShape ==
    /\ connected <=> idlState = "Monitoring"
    /\ connected => nextId > 2
    /\ op.pc \in {"read", "readEcho"} => pending = <<>>

CallInv == CallShape /\ ConnectedShape /\ nextId > 0

LEMMA InitCall == Init => CallInv
  BY DEF Init, ConnInit, Idle, CallInv, CallShape, ConnectedShape

LEMMA ReturnCall ==
    ASSUME CallType, CallInv, NEW r, Return(r), UNCHANGED nextId,
           op.kind = "connect" /\ r = "Ok" => nextId > 2 /\ idlState' = "Monitoring",
           ~(op.kind = "connect" /\ r = "Ok") => (idlState' = "Monitoring" <=> idlState = "Monitoring")
    PROVE  CallInv'
  BY DEF CallType, CallInv, CallShape, ConnectedShape, Return, Idle

LEMMA SendFacts ==
    ASSUME NEW t, NEW b, SendRequest(t, b)
    PROVE  nextId' = nextId + 1 /\ UNCHANGED <<toClient, open, pending>>
  BY DEF SendRequest

LEMMA TakeFacts ==
    /\ \A i : TakeResponse(i) =>
          TakeNext /\ Got.kind = "response" /\ Got.id = i /\ UNCHANGED pending
    /\ TakeNext => UNCHANGED <<toServer, open, nextId>>
  BY DEF TakeResponse, TakeNext

LEMMA NextCall ==
    ASSUME ConnType, CallType, IdlType, CallInv, [Next]_vars
    PROVE  CallInv'
<1> USE DEF CallInv, CallShape, ConnectedShape
<1>0. nextId \in Nat /\ Idle.pc = "idle" /\ Idle.kind = "none" /\ Idle.echo = 0
  BY DEF ConnType, Idle
<1>1. CASE Connect
  BY <1>0, <1>1, SendFacts DEF Connect, Begin
<1>2. CASE ListDbs \/ CancelMonitor \/ (\E d \in Changes : Commit(d))
  <2>1. PICK k \in {"commit", "list_dbs", "cancel_monitor"} : Begin(k, "response")
    BY <1>2 DEF ListDbs, CancelMonitor, Commit
  <2>2. connected /\ nextId' = nextId + 1 /\ UNCHANGED <<pending, idlState>>
    BY <1>2, SendFacts DEF ListDbs, CancelMonitor, Commit, CanCall
  <2> QED
    BY <1>0, <2>1, <2>2 DEF Begin
<1>3. CASE Run
  <2>1. UNCHANGED <<nextId, op, connected, idlState>> /\ op = Idle
    BY <1>3 DEF Run, CanCall
  <2> QED
    BY <1>0, <2>1
<1>4. CASE Wait
  BY <1>0, <1>4 DEF Wait, CanCall, Begin, conn
<1>5. CASE ReturnAtOnce
  BY <1>5 DEF ReturnAtOnce, conn
<1>6. CASE StartMonitor
  BY <1>0, <1>6, SendFacts DEF StartMonitor, Begin
<1>7. CASE RecvSchema
  <2>1. UNCHANGED <<nextId, pending>> /\ op.pc = "schema"
    BY <1>7, TakeFacts DEF RecvSchema
  <2>2. op.kind = "connect" /\ ~connected /\ op.id = 1 /\ nextId = 2 /\ op.echo = 0
    BY <1>0, <2>1
  <2>3. CASE Pending("start") /\ idlState' = "MonitorRequested"
    BY <2>1, <2>2, <2>3 DEF Pending, CallType
  <2>4. CASE Got.res # "Ok" /\ Return(Got.res) /\ UNCHANGED idlState
    BY <2>1, <2>2, <2>4, ReturnCall
  <2> QED
    BY <1>7, <2>3, <2>4 DEF RecvSchema
<1>8. CASE RecvMonitorReply
  <2>1. UNCHANGED <<nextId, pending>> /\ op.pc = "monitor"
    BY <1>8, TakeFacts DEF RecvMonitorReply
  <2>2. op.kind = "connect" /\ nextId = 3
    BY <1>0, <2>1
  <2> QED
    BY <1>8, <2>1, <2>2, ReturnCall DEF RecvMonitorReply
<1>9. CASE RecvResponse
  <2>1. UNCHANGED <<nextId, idlState>> /\ op.pc = "response" /\ Return(Got.res)
    BY <1>9, TakeFacts DEF RecvResponse
  <2>2. op.kind # "connect"
    BY <1>0, <2>1
  <2> QED
    BY <2>1, <2>2, ReturnCall
<1>10. CASE RecvNotification
  <2>1. UNCHANGED <<nextId, idlState, op, connected>> /\ op.pc \in {"schema", "monitor", "response"}
    BY <1>10, TakeFacts DEF RecvNotification, BufferNotification, client, AwaitsResponse
  <2> QED
    BY <2>1
<1>11. CASE RecvUnexpected \/ StreamFails \/ Drop
  <2>1. UNCHANGED <<nextId, idlState>>
    BY <1>11, TakeFacts DEF RecvUnexpected, TakeUnexpected, StreamFails, Drop, conn
  <2>2. PICK r \in {"UnexpectedId", "Closed", "Dropped"} : Return(r)
    BY <1>11 DEF RecvUnexpected, StreamFails, Drop
  <2> QED
    BY <2>1, <2>2, ReturnCall
<1>12. CASE WaitPop
  <2>1. UNCHANGED <<nextId, idlState>> /\ op.pc = "buffered"
    BY <1>12 DEF WaitPop
  <2>2. op.kind = "wait" /\ connected
    BY <1>0, <2>1
  <2>3. CASE pending = <<>> /\ Pending("read") /\ UNCHANGED <<pending, idl, seqno>>
    BY <1>0, <2>1, <2>2, <2>3 DEF Pending, CallType
  <2>4. CASE op' = [op EXCEPT !.pc = "bufferedEcho", !.echo = Popped.id] /\ UNCHANGED connected
    BY <2>1, <2>2, <2>4 DEF CallType
  <2>5. CASE Return("Ok")
    BY <2>1, <2>2, <2>5, ReturnCall
  <2> QED
    BY <1>12, <2>3, <2>4, <2>5 DEF WaitPop
<1>13. CASE WaitRead
  <2>1. UNCHANGED <<nextId, idlState, pending>> /\ op.pc = "read"
    BY <1>13, TakeFacts DEF WaitRead
  <2>2. op.kind = "wait" /\ connected /\ pending = <<>>
    BY <1>0, <2>1
  <2>3. CASE UNCHANGED <<op, connected>>
    BY <2>1, <2>3
  <2>4. CASE op' = [op EXCEPT !.pc = "readEcho", !.echo = Got.id] /\ UNCHANGED connected
    BY <2>1, <2>2, <2>4 DEF CallType
  <2>5. CASE Return("Ok")
    BY <2>1, <2>2, <2>5, ReturnCall
  <2> QED
    BY <1>13, <2>3, <2>4, <2>5 DEF WaitRead
<1>14. CASE SendEchoReply
  <2>1. UNCHANGED <<nextId, idlState, pending, connected>> /\ op.pc \in {"bufferedEcho", "readEcho"}
    BY <1>14 DEF SendEchoReply
  <2>2. op.kind = "wait" /\ connected
    BY <1>0, <2>1
  <2>3. op' = [op EXCEPT !.pc = IF op.pc = "readEcho" THEN "read" ELSE "buffered", !.echo = 0]
    BY <1>14 DEF SendEchoReply
  <2> QED
    BY <2>1, <2>2, <2>3 DEF CallType
<1>15. CASE \/ ServerStep \/ (\E d \in Changes : OtherClient(d))
            \/ ServerEcho \/ Close \/ UNCHANGED vars
  <2>1. UNCHANGED <<nextId, pending, client>>
    BY <1>15 DEF ServerStep, ServerSimple, ServerMonitor, ServerCancel, ServerTransact, ServerEchoReply,
                 Serve, OtherClient, ServerEcho, Close, vars, conn
  <2> QED
    BY <2>1 DEF client
<1> QED
  BY <1>1, <1>2, <1>3, <1>4, <1>5, <1>6, <1>7, <1>8, <1>9, <1>10, <1>11, <1>12, <1>13, <1>14, <1>15
     DEF Next, Call, ClientStep, Receive

-----------------------------------------------------------------------------
(* What is in flight.  The monitor is asked for once, with id 2, and its   *)
(* reply comes before any update.                                          *)
IsMonitor(m) == m.kind = "request" /\ m.method = "monitor"
IsReply(m)   == m.kind = "response" /\ m.id = 2
IsUpdate(m)  == m.kind = "request" /\ m.method = "update"

Asked    == \E i \in DOMAIN toServer : IsMonitor(toServer[i])
Replied  == \E i \in DOMAIN toClient : IsReply(toClient[i])
Updated  == \E i \in DOMAIN toClient : IsUpdate(toClient[i])
SetAside == \E i \in DOMAIN pending : IsUpdate(pending[i])

RequestIds == \A i \in DOMAIN toServer : toServer[i].kind = "request" =>
    toServer[i].id < nextId /\ (toServer[i].id = 2 <=> IsMonitor(toServer[i]))
ResponseIds == \A i \in DOMAIN toClient :
    toClient[i].kind = "response" => toClient[i].id < nextId
AskedOnce == \A i, j \in DOMAIN toServer :
    IsMonitor(toServer[i]) /\ IsMonitor(toServer[j]) => i = j
RepliedOnce == \A i, j \in DOMAIN toClient :
    IsReply(toClient[i]) /\ IsReply(toClient[j]) => i = j
Unwatched == Asked \/ nextId < 3 => ~connected /\ ~monitored /\ ~Replied /\ ~Updated
Unconnected ==
    /\ connected => ~Replied
    /\ ~connected => ~SetAside /\ (monitored => Replied)
ReplyFirst == ~connected => \A i \in DOMAIN toClient : IsUpdate(toClient[i]) =>
    \E j \in DOMAIN toClient : j < i /\ IsReply(toClient[j])
ReplyTells == \A i \in DOMAIN toClient : IsReply(toClient[i]) =>
    IF toClient[i].res = "Ok" THEN toClient[i].body \in Contents ELSE ~monitored /\ ~Updated

(* A commit in progress: only its own transaction can answer it.           *)
Recorded ==
    op.kind = "commit" =>
        /\ \A i \in DOMAIN toServer :
              toServer[i].kind = "request" /\ toServer[i].id = op.id
                  => toServer[i].method = "transact"
        /\ \A i \in DOMAIN toClient :
              toClient[i].kind = "response" /\ toClient[i].id = op.id
                  => [id |-> op.id, res |-> toClient[i].res] \in results

LinkInv ==
    /\ RequestIds /\ ResponseIds /\ AskedOnce /\ RepliedOnce /\ Unwatched
    /\ Unconnected /\ ReplyFirst /\ ReplyTells /\ Recorded

LEMMA InitLink == Init => LinkInv
<1> SUFFICES ASSUME Init PROVE LinkInv
  OBVIOUS
<1>1. DOMAIN toServer = {} /\ DOMAIN toClient = {} /\ DOMAIN pending = {} /\ nextId = 1
  BY DEF Init, ConnInit
<1>2. op.kind = "none" /\ ~connected /\ ~monitored
  BY DEF Init, Idle
<1> QED
  BY <1>1, <1>2 DEF LinkInv, RequestIds, ResponseIds, AskedOnce, RepliedOnce, Unwatched, Unconnected,
       ReplyFirst, ReplyTells, Recorded, Asked, Replied, Updated, SetAside

(* The client writes: a request with a fresh id, or a response.            *)
LEMMA LinkSend ==
    ASSUME ConnType, CallInv, LinkInv, UNCHANGED <<toClient, pending, connected, server>>,
           NEW m \in FromClient, SendMessage(m),
           \/ m.kind = "response" /\ UNCHANGED nextId /\ op'.kind # "commit"
           \/ /\ m.kind = "request" /\ m.id = nextId /\ nextId' = nextId + 1
              /\ IsMonitor(m) <=> nextId = 2
              /\ op'.kind = "commit" => op'.id = nextId /\ m.method = "transact"
    PROVE  LinkInv'
<1>1. nextId \in Nat /\ nextId' \in Nat /\ nextId' >= nextId
  BY DEF ConnType
<1>2. \A i \in DOMAIN toServer' : \/ i \in DOMAIN toServer /\ toServer'[i] = toServer[i]
                                  \/ i = Len(toServer) + 1 /\ toServer'[i] = m
  BY AppendPlaces DEF ConnType, SendMessage
<1>3. ~(Len(toServer) + 1 \in DOMAIN toServer)
  BY DEF ConnType
<1>4. m.kind = "request" /\ IsMonitor(m) => ~Asked
  BY <1>1 DEF LinkInv, RequestIds, Asked, IsMonitor
<1>5. RequestIds'
  <2> SUFFICES ASSUME NEW i \in DOMAIN toServer', toServer'[i].kind = "request"
               PROVE  toServer'[i].id < nextId' /\ (toServer'[i].id = 2 <=> IsMonitor(toServer'[i]))
    BY DEF RequestIds, IsMonitor
  <2>1. CASE i \in DOMAIN toServer /\ toServer'[i] = toServer[i]
    <3>1. toServer[i].id \in Nat
      BY <2>1, MessageFields DEF ConnType
    <3>2. toServer[i].id < nextId /\ (toServer[i].id = 2 <=> IsMonitor(toServer[i]))
      BY <2>1 DEF LinkInv, RequestIds
    <3> QED
      BY <1>1, <2>1, <3>1, <3>2
  <2>2. CASE toServer'[i] = m
    <3>1. m.id = nextId /\ nextId' = nextId + 1 /\ (IsMonitor(m) <=> nextId = 2)
      BY <2>2
    <3> QED
      BY <1>1, <2>2, <3>1
  <2> QED
    BY <1>2, <2>1, <2>2
<1>6. ResponseIds'
  <2>1. \A i \in DOMAIN toClient : toClient[i].id \in Nat
    BY MessageFields DEF ConnType
  <2> QED
    BY <1>1, <2>1 DEF LinkInv, ResponseIds
<1>7. AskedOnce'
  BY <1>2, <1>3, <1>4 DEF LinkInv, AskedOnce, Asked, IsMonitor
<1>8. RepliedOnce' /\ ReplyFirst' /\ ReplyTells' /\ Unconnected'
  BY DEF LinkInv, RepliedOnce, ReplyFirst, ReplyTells, Unconnected, server, Replied, Updated, SetAside
<1>9. Unwatched'
  <2>1. Asked' \/ nextId' < 3 => Asked \/ nextId < 3
    BY <1>1, <1>2 DEF Asked, IsMonitor
  <2> QED
    BY <2>1 DEF LinkInv, Unwatched, server, Replied, Updated
<1>10. Recorded'
  <2> SUFFICES ASSUME op'.kind = "commit" PROVE Recorded'
    BY DEF Recorded
  <2>1. m.kind = "request" /\ m.id = nextId /\ op'.id = nextId /\ m.method = "transact"
    OBVIOUS
  <2>2. \A i \in DOMAIN toServer : toServer[i].kind = "request" => toServer[i].id # nextId
    <3>1. \A i \in DOMAIN toServer : toServer[i].id \in Nat
      BY MessageFields DEF ConnType
    <3> QED
      BY <1>1, <3>1 DEF LinkInv, RequestIds
  <2>3. \A i \in DOMAIN toClient : toClient[i].kind = "response" => toClient[i].id # nextId
    <3>1. \A i \in DOMAIN toClient : toClient[i].id \in Nat
      BY MessageFields DEF ConnType
    <3> QED
      BY <1>1, <3>1 DEF LinkInv, ResponseIds
  <2> QED
    BY <1>2, <2>1, <2>2, <2>3 DEF Recorded
<1> QED
  BY <1>5, <1>6, <1>7, <1>8, <1>9, <1>10 DEF LinkInv

(* The client reads something else than the monitor's reply, and may set   *)
(* it aside.                                                               *)
LEMMA LinkTake ==
    ASSUME ConnType, CallInv, LinkInv, UNCHANGED <<connected, server>>, TakeNext,
           UNCHANGED pending \/ pending' = Append(pending, Got), ~IsReply(Got),
           op'.kind = "commit" => op' = op
    PROVE  LinkInv'
<1>1. UNCHANGED <<toServer, nextId>> /\ toClient # <<>> /\ toClient' = Tail(toClient)
  BY DEF TakeNext, Readable
<1>2. /\ \A i \in DOMAIN toClient' : i + 1 \in DOMAIN toClient /\ toClient'[i] = toClient[i + 1]
                                     /\ i \in Nat
      /\ \A i \in DOMAIN toClient : IF i = 1 THEN toClient[i] = Got
                                    ELSE /\ i - 1 \in DOMAIN toClient' /\ toClient'[i - 1] = toClient[i]
                                         /\ i \in Nat
  <2>1. \A i \in DOMAIN toClient' : i \in Nat
    BY <1>1 DEF ConnType
  <2>2. \A i \in DOMAIN toClient : i \in Nat
    BY DEF ConnType
  <2> QED
    BY <1>1, <2>1, <2>2, TailPlaces DEF ConnType, Got
<1>3. RequestIds' /\ AskedOnce'
  BY <1>1 DEF LinkInv, RequestIds, AskedOnce
<1>4. ResponseIds'
  BY <1>1, <1>2 DEF LinkInv, ResponseIds
<1>5. RepliedOnce'
  <2> SUFFICES ASSUME NEW i \in DOMAIN toClient', NEW j \in DOMAIN toClient',
                      IsReply(toClient'[i]), IsReply(toClient'[j])
               PROVE  i = j
    BY DEF RepliedOnce, IsReply
  <2>1. i + 1 = j + 1 /\ i \in Nat /\ j \in Nat
    BY <1>2 DEF LinkInv, RepliedOnce
  <2> QED
    BY <2>1
<1>6. (Replied' <=> Replied) /\ (Updated' => Updated)
  BY <1>2 DEF Replied, Updated, IsReply, IsUpdate
<1>7. Unwatched'
  BY <1>1, <1>6 DEF LinkInv, Unwatched, Asked, server
<1>8. ~connected => ~IsUpdate(Got)
  <2>1. 1 \in DOMAIN toClient /\ toClient[1] = Got /\ ~\E j \in DOMAIN toClient : j < 1
    BY <1>1 DEF ConnType, Got
  <2> QED
    BY <2>1 DEF LinkInv, ReplyFirst
<1>9. Unconnected'
  <2>1. ~connected /\ ~SetAside => ~SetAside'
    <3>1. CASE UNCHANGED pending
      BY <3>1 DEF SetAside
    <3>2. CASE pending' = Append(pending, Got) /\ ~connected
      <4>1. \A i \in DOMAIN pending' : \/ pending'[i] = Got
                                       \/ i \in DOMAIN pending /\ pending'[i] = pending[i]
        BY <3>2 DEF ConnType
      <4> QED
        BY <1>8, <3>2, <4>1 DEF SetAside, IsUpdate
    <3> QED
      BY <3>1, <3>2
  <2> QED
    BY <1>6, <2>1 DEF LinkInv, Unconnected, server
<1>10. ReplyFirst'
  <2> SUFFICES ASSUME ~connected, NEW i \in DOMAIN toClient', IsUpdate(toClient'[i])
               PROVE  \E j \in DOMAIN toClient' : j < i /\ IsReply(toClient'[j])
    BY DEF ReplyFirst, IsReply, IsUpdate
  <2>1. PICK j \in DOMAIN toClient : j < i + 1 /\ IsReply(toClient[j])
    BY <1>2 DEF LinkInv, ReplyFirst
  <2>2. j - 1 \in DOMAIN toClient' /\ toClient'[j - 1] = toClient[j] /\ j - 1 < i
    BY <1>2, <2>1
  <2> QED
    BY <2>1, <2>2
<1>11. ReplyTells'
  <2> SUFFICES ASSUME NEW i \in DOMAIN toClient', IsReply(toClient'[i])
               PROVE  IF toClient'[i].res = "Ok" THEN toClient'[i].body \in Contents
                      ELSE ~monitored' /\ ~Updated'
    BY DEF ReplyTells, IsReply
  <2> QED
    BY <1>2, <1>6 DEF LinkInv, ReplyTells, server
<1>12. Recorded'
  BY <1>1, <1>2 DEF LinkInv, Recorded, server
<1> QED
  BY <1>3, <1>4, <1>5, <1>7, <1>9, <1>10, <1>11, <1>12 DEF LinkInv

(* Nothing moves between the client and the server.                        *)
LEMMA LinkQuiet ==
    ASSUME ConnType, LinkInv, UNCHANGED <<toServer, toClient, nextId, connected, server>>,
           \A i \in DOMAIN pending' : \E j \in DOMAIN pending : pending'[i] = pending[j],
           op'.kind = "commit" => op' = op
    PROVE  LinkInv'
<1>1. RequestIds' /\ ResponseIds' /\ AskedOnce' /\ RepliedOnce' /\ ReplyFirst' /\ ReplyTells'
  BY DEF LinkInv, RequestIds, ResponseIds, AskedOnce, RepliedOnce, ReplyFirst, ReplyTells, server, Updated
<1>2. Unwatched'
  BY DEF LinkInv, Unwatched, Asked, Replied, Updated, server
<1>3. Unconnected'
  BY DEF LinkInv, Unconnected, SetAside, Replied, IsUpdate, server
<1>4. Recorded'
  BY DEF LinkInv, Recorded, server
<1> QED
  BY <1>1, <1>2, <1>3, <1>4 DEF LinkInv

(* connect reads the monitor's reply.                                      *)
LEMMA LinkReply ==
    ASSUME ConnType, CallType, CallInv, LinkInv, RecvMonitorReply
    PROVE  LinkInv'
<1>1. /\ TakeNext /\ IsReply(Got) /\ op.id = 2 /\ nextId = 3 /\ ~connected
      /\ UNCHANGED <<pending, server>> /\ op' = Idle
      /\ connected' <=> Got.res = "Ok"
  <2>1. op.pc = "monitor" /\ TakeResponse(op.id) /\ UNCHANGED server /\ Return(Got.res)
    BY DEF RecvMonitorReply
  <2>2. op.kind = "connect" /\ op.id = 2 /\ nextId = 3 /\ ~connected
    BY <2>1 DEF CallInv, CallShape, Idle
  <2>3. op' = Idle /\ (connected' <=> Got.res = "Ok")
    BY <2>1, <2>2 DEF Return, CallType
  <2> QED
    BY <2>1, <2>2, <2>3, TakeFacts DEF IsReply
<1>2. UNCHANGED <<toServer, nextId>> /\ toClient # <<>> /\ toClient' = Tail(toClient)
  BY <1>1 DEF TakeNext, Readable
<1>3. /\ \A i \in DOMAIN toClient' : i + 1 \in DOMAIN toClient /\ toClient'[i] = toClient[i + 1] /\ i + 1 # 1
      /\ 1 \in DOMAIN toClient /\ toClient[1] = Got
  <2>1. \A i \in DOMAIN toClient' : i + 1 # 1
    BY <1>2 DEF ConnType
  <2> QED
    BY <1>2, <2>1, TailPlaces DEF ConnType, Got
<1>4. ~Replied'
  BY <1>1, <1>3 DEF LinkInv, RepliedOnce, Replied, IsReply
<1>5. ~Asked'
  <2>1. Replied
    BY <1>1, <1>3 DEF Replied
  <2> QED
    BY <1>2, <2>1 DEF LinkInv, Unwatched, Asked
<1>6. CASE Got.res # "Ok"
  <2>1. ~monitored /\ ~Updated
    BY <1>1, <1>3, <1>6 DEF LinkInv, ReplyTells
  <2>2. ~Updated'
    BY <1>3, <2>1 DEF Updated, IsUpdate
  <2> QED
    BY <1>1, <1>2, <1>3, <1>4, <1>5, <1>6, <2>1, <2>2
       DEF LinkInv, RequestIds, ResponseIds, AskedOnce, RepliedOnce, Unwatched, Unconnected,
           ReplyFirst, ReplyTells, Recorded, Replied, Updated, SetAside, server, Idle
<1>7. CASE Got.res = "Ok"
  <2>1. RequestIds' /\ ResponseIds' /\ AskedOnce'
    BY <1>2, <1>3 DEF LinkInv, RequestIds, ResponseIds, AskedOnce
  <2>2. RepliedOnce' /\ ReplyTells'
    BY <1>4 DEF RepliedOnce, ReplyTells, Replied, IsReply
  <2>3. Unwatched' /\ Unconnected' /\ ReplyFirst' /\ Recorded'
    BY <1>1, <1>2, <1>4, <1>5, <1>7 DEF Unwatched, Unconnected, ReplyFirst, Recorded, Idle
  <2> QED
    BY <2>1, <2>2, <2>3 DEF LinkInv
<1> QED
  BY <1>6, <1>7

(* The server reads, perhaps, and writes, but not the monitor's reply.     *)
LEMMA LinkTell ==
    ASSUME ConnType, CallInv, LinkInv, UNCHANGED <<nextId, pending, client>>,
           UNCHANGED toServer \/ (toServer # <<>> /\ toServer' = Tail(toServer)),
           NEW ms \in Seq(FromServer), Tell(ms), monitored' => monitored,
           \A i \in DOMAIN ms : /\ ms[i].kind = "response" => ms[i].id < nextId /\ ms[i].id # 2
                                /\ IsUpdate(ms[i]) => monitored,
           results \subseteq results',
           \A i \in DOMAIN ms : op.kind = "commit" /\ ms[i].kind = "response" /\ ms[i].id = op.id
               => [id |-> op.id, res |-> ms[i].res] \in results'
    PROVE  LinkInv'
<1>1. UNCHANGED <<op, connected>>
  BY DEF client
<1>2. /\ \A i \in DOMAIN toClient' : \/ i \in DOMAIN toClient /\ toClient'[i] = toClient[i]
                                     \/ /\ i - Len(toClient) \in DOMAIN ms
                                        /\ toClient'[i] = ms[i - Len(toClient)] /\ i > Len(toClient)
      /\ \A i \in DOMAIN toClient : i \in DOMAIN toClient' /\ toClient'[i] = toClient[i] /\ i <= Len(toClient)
  BY ConcatPlaces DEF ConnType, Tell
<1>3. \/ UNCHANGED toServer
      \/ \A i \in DOMAIN toServer' : i + 1 \in DOMAIN toServer /\ toServer'[i] = toServer[i + 1] /\ i \in Nat
  <2>1. CASE toServer # <<>> /\ toServer' = Tail(toServer)
    <3>1. \A i \in DOMAIN toServer' : i \in Nat
      BY <2>1 DEF ConnType
    <3> QED
      BY <2>1, <3>1, TailPlaces DEF ConnType
  <2> QED
    BY <2>1
<1>4. \A i \in DOMAIN toServer' : \E j \in DOMAIN toServer : toServer'[i] = toServer[j]
  BY <1>3
<1>5. RequestIds'
  BY <1>4 DEF LinkInv, RequestIds, IsMonitor
<1>6. AskedOnce'
  <2>1. CASE UNCHANGED toServer
    BY <2>1 DEF LinkInv, AskedOnce
  <2>2. CASE \A i \in DOMAIN toServer' : i + 1 \in DOMAIN toServer /\ toServer'[i] = toServer[i + 1] /\ i \in Nat
    <3> SUFFICES ASSUME NEW i \in DOMAIN toServer', NEW j \in DOMAIN toServer',
                        IsMonitor(toServer'[i]), IsMonitor(toServer'[j])
                 PROVE  i = j
      BY DEF AskedOnce, IsMonitor
    <3>1. i + 1 = j + 1 /\ i \in Nat /\ j \in Nat
      BY <2>2 DEF LinkInv, AskedOnce
    <3> QED
      BY <3>1
  <2> QED
    BY <1>3, <2>1, <2>2
<1>7. ResponseIds'
  BY <1>2 DEF LinkInv, ResponseIds
<1>8. \A i \in DOMAIN toClient' : IsReply(toClient'[i]) => i \in DOMAIN toClient /\ toClient'[i] = toClient[i]
  BY <1>2 DEF IsReply
<1>9. RepliedOnce'
  BY <1>8 DEF LinkInv, RepliedOnce, IsReply
<1>10. (Replied' <=> Replied) /\ (Asked' => Asked)
  BY <1>2, <1>4, <1>8 DEF Replied, Asked, IsReply, IsMonitor
<1>11. Updated' => Updated \/ monitored
  BY <1>2 DEF Updated, IsUpdate
<1>12. Unwatched'
  BY <1>1, <1>10, <1>11 DEF LinkInv, Unwatched
<1>13. Unconnected'
  BY <1>1, <1>10 DEF LinkInv, Unconnected, SetAside
<1>14. ReplyFirst'
  <2> SUFFICES ASSUME ~connected, NEW i \in DOMAIN toClient', IsUpdate(toClient'[i])
               PROVE  \E j \in DOMAIN toClient' : j < i /\ IsReply(toClient'[j])
    BY <1>1 DEF ReplyFirst, IsReply, IsUpdate
  <2>1. CASE i \in DOMAIN toClient /\ toClient'[i] = toClient[i]
    BY <1>2, <2>1 DEF LinkInv, ReplyFirst
  <2>2. CASE i - Len(toClient) \in DOMAIN ms /\ toClient'[i] = ms[i - Len(toClient)] /\ i > Len(toClient)
    <3>1. Replied
      BY <2>2 DEF LinkInv, Unconnected
    <3>2. PICK j \in DOMAIN toClient : IsReply(toClient[j])
      BY <3>1 DEF Replied
    <3>3. j \in DOMAIN toClient' /\ toClient'[j] = toClient[j] /\ j < i
      <4>1. i \in Int /\ j \in Int /\ Len(toClient) \in Int
        BY <2>2 DEF ConnType, Tell
      <4> QED
        BY <1>2, <2>2, <4>1
    <3> QED
      BY <3>2, <3>3
  <2> QED
    BY <1>2, <2>1, <2>2
<1>15. ReplyTells'
  <2> SUFFICES ASSUME NEW i \in DOMAIN toClient', IsReply(toClient'[i])
               PROVE  IF toClient'[i].res = "Ok" THEN toClient'[i].body \in Contents
                      ELSE ~monitored' /\ ~Updated'
    BY DEF ReplyTells, IsReply
  <2> QED
    BY <1>8, <1>11 DEF LinkInv, ReplyTells
<1>16. Recorded'
  <2> SUFFICES ASSUME op.kind = "commit" PROVE Recorded'
    BY <1>1 DEF Recorded
  <2>1. \A i \in DOMAIN toServer' : toServer'[i].kind = "request" /\ toServer'[i].id = op.id
            => toServer'[i].method = "transact"
    BY <1>4 DEF LinkInv, Recorded
  <2>2. \A i \in DOMAIN toClient' : toClient'[i].kind = "response" /\ toClient'[i].id = op.id
            => [id |-> op.id, res |-> toClient'[i].res] \in results'
    BY <1>2 DEF LinkInv, Recorded
  <2> QED
    BY <1>1, <2>1, <2>2 DEF Recorded
<1> QED
  BY <1>5, <1>6, <1>7, <1>9, <1>12, <1>13, <1>14, <1>15, <1>16 DEF LinkInv

(* The server answers the monitor request.                                 *)
LEMMA LinkWatch ==
    ASSUME ConnType, CallInv, ServerType, LinkInv, ServerMonitor
    PROVE  LinkInv' /\ Asked /\ IsMonitor(Head(toServer)) /\ Head(toServer).id = 2
<1>1. /\ toServer # <<>> /\ toServer' = Tail(toServer) /\ IsMonitor(Head(toServer))
      /\ UNCHANGED <<nextId, pending, client, results>>
  BY DEF ServerMonitor, Serve, IsMonitor
<1>2. /\ \A i \in DOMAIN toServer' : i + 1 \in DOMAIN toServer /\ toServer'[i] = toServer[i + 1] /\ i + 1 # 1
                                     /\ i \in Nat
      /\ 1 \in DOMAIN toServer /\ toServer[1] = Head(toServer)
  <2>1. \A i \in DOMAIN toServer' : i + 1 # 1 /\ i \in Nat
    BY <1>1 DEF ConnType
  <2> QED
    BY <1>1, <2>1, TailPlaces DEF ConnType
<1>3. Asked
  BY <1>1, <1>2 DEF Asked
<1>4. Head(toServer).id = 2 /\ Head(toServer).id < nextId
  BY <1>1, <1>2 DEF LinkInv, RequestIds, IsMonitor
<1>5. ~connected /\ ~monitored /\ ~Replied /\ ~Updated /\ UNCHANGED <<op, connected>>
  BY <1>1, <1>3 DEF LinkInv, Unwatched, client
<1>6. PICK m \in FromServer :
         /\ toClient' = Append(toClient, m) /\ IsReply(m) /\ ~IsUpdate(m)
         /\ IF m.res = "Ok" THEN m.body \in Contents ELSE ~monitored'
  <2>1. db \in Contents /\ db \in Changes /\ NoChange \in Changes
    BY SmallChanges DEF ServerType
  <2>2. Response(2, "Ok", db) \in FromServer /\ Response(2, "Rpc", NoChange) \in FromServer
    BY <2>1, MessageTypes
  <2>3. \A m : toClient \o <<m>> = Append(toClient, m)
    BY DEF ConnType
  <2>4. CASE Tell(<<Answer("Ok", db)>>) /\ monitored' = TRUE
    BY <1>4, <2>1, <2>2, <2>3, <2>4 DEF Tell, Answer, Response, IsReply, IsUpdate
  <2>5. CASE Tell(<<Answer("Rpc", NoChange)>>) /\ UNCHANGED monitored
    BY <1>4, <1>5, <2>1, <2>2, <2>3, <2>5 DEF Tell, Answer, Response, IsReply, IsUpdate
  <2> QED
    BY <2>4, <2>5 DEF ServerMonitor
<1>7. /\ \A i \in DOMAIN toClient' : \/ i = Len(toClient) + 1 /\ toClient'[i] = m
                                     \/ i \in DOMAIN toClient /\ toClient'[i] = toClient[i]
      /\ Len(toClient) + 1 \in DOMAIN toClient' /\ toClient'[Len(toClient) + 1] = m
  BY <1>6, AppendPlaces DEF ConnType
<1>8. RequestIds' /\ Recorded'
  <2>1. op.kind # "commit"
    BY <1>5 DEF CallInv, CallShape, Idle
  <2> QED
    BY <1>1, <1>2, <1>5, <2>1 DEF LinkInv, RequestIds, Recorded, IsMonitor
<1>9. ~Asked'
  BY <1>1, <1>2 DEF LinkInv, AskedOnce, Asked, IsMonitor
<1>10. AskedOnce'
  BY <1>9 DEF AskedOnce, Asked, IsMonitor
<1>11. ResponseIds'
  BY <1>1, <1>4, <1>6, <1>7 DEF LinkInv, ResponseIds, IsReply
<1>12. RepliedOnce'
  BY <1>5, <1>7 DEF RepliedOnce, Replied, IsReply
<1>13. Replied' /\ ~Updated'
  BY <1>5, <1>6, <1>7 DEF Replied, Updated, IsUpdate, IsReply
<1>14. Unwatched'
  BY <1>1, <1>4, <1>9 DEF Unwatched, ConnType
<1>15. Unconnected' /\ ReplyFirst'
  BY <1>1, <1>5, <1>13 DEF LinkInv, Unconnected, ReplyFirst, SetAside, Updated, IsUpdate
<1>16. ReplyTells'
  <2> SUFFICES ASSUME NEW i \in DOMAIN toClient', IsReply(toClient'[i])
               PROVE  IF toClient'[i].res = "Ok" THEN toClient'[i].body \in Contents
                      ELSE ~monitored' /\ ~Updated'
    BY DEF ReplyTells, IsReply
  <2>1. toClient'[i] = m
    BY <1>5, <1>7 DEF Replied
  <2> QED
    BY <1>6, <1>13, <2>1
<1> QED
  BY <1>1, <1>3, <1>4, <1>8, <1>10, <1>11, <1>12, <1>14, <1>15, <1>16 DEF LinkInv

(* The connection is lost.                                                 *)
LEMMA LinkClose ==
    ASSUME ConnType, LinkInv, Close
    PROVE  LinkInv'
<1>1. PICK n \in 0 .. Len(toClient) : toClient' = SubSeq(toClient, 1, n)
  BY DEF Close
<1>2. \A i \in DOMAIN toClient' : /\ i \in DOMAIN toClient /\ toClient'[i] = toClient[i]
                                  /\ \A j \in DOMAIN toClient : j < i => j \in DOMAIN toClient'
  BY <1>1, PrefixPlaces DEF ConnType
<1>3. DOMAIN toServer' = {} /\ ~monitored' /\ UNCHANGED <<nextId, pending, op, connected, results>>
  BY DEF Close, client
<1>4. RequestIds' /\ AskedOnce' /\ ~Asked'
  BY <1>3 DEF RequestIds, AskedOnce, Asked
<1>5. ResponseIds' /\ RepliedOnce' /\ (Replied' => Replied) /\ (Updated' => Updated)
  BY <1>2, <1>3 DEF LinkInv, ResponseIds, RepliedOnce, Replied, Updated, IsReply, IsUpdate
<1>6. Unwatched' /\ Unconnected'
  BY <1>3, <1>4, <1>5 DEF LinkInv, Unwatched, Unconnected, SetAside
<1>7. ReplyFirst'
  <2> SUFFICES ASSUME ~connected, NEW i \in DOMAIN toClient', IsUpdate(toClient'[i])
               PROVE  \E j \in DOMAIN toClient' : j < i /\ IsReply(toClient'[j])
    BY <1>3 DEF ReplyFirst, IsReply, IsUpdate
  <2>1. PICK j \in DOMAIN toClient : j < i /\ IsReply(toClient[j])
    BY <1>2 DEF LinkInv, ReplyFirst
  <2> QED
    BY <1>2, <2>1
<1>8. ReplyTells'
  <2> SUFFICES ASSUME NEW i \in DOMAIN toClient', IsReply(toClient'[i])
               PROVE  IF toClient'[i].res = "Ok" THEN toClient'[i].body \in Contents
                      ELSE ~monitored' /\ ~Updated'
    BY DEF ReplyTells, IsReply
  <2> QED
    BY <1>2, <1>3, <1>5 DEF LinkInv, ReplyTells
<1>9. Recorded'
  BY <1>2, <1>3 DEF LinkInv, Recorded
<1> QED
  BY <1>4, <1>5, <1>6, <1>7, <1>8, <1>9 DEF LinkInv

(* The message a read takes is the monitor's reply only for connect.       *)
LEMMA NotTheReply ==
    ASSUME ConnType, CallInv, LinkInv, TakeNext,
           \/ Got.kind = "request" \/ connected
           \/ op.pc = "schema"
           \/ op.pc = "monitor" /\ Got.id # op.id
    PROVE  ~IsReply(Got)
<1>1. 1 \in DOMAIN toClient /\ toClient[1] = Got
  BY DEF ConnType, TakeNext, Readable, Got
<1>2. connected => ~IsReply(Got)
  BY <1>1 DEF LinkInv, Unconnected, Replied
<1>3. op.pc = "schema" => ~IsReply(Got)
  <2>1. op.pc = "schema" => nextId = 2
    BY DEF CallInv, CallShape, Idle
  <2>2. nextId = 2 => ~IsReply(Got)
    BY <1>1 DEF LinkInv, ResponseIds, IsReply
  <2> QED
    BY <2>1, <2>2
<1>4. op.pc = "monitor" => op.id = 2
  BY DEF CallInv, CallShape, Idle
<1> QED
  BY <1>2, <1>3, <1>4 DEF IsReply

(* What the server says in answer to a transaction or of another change.   *)
LEMMA SayFacts ==
    ASSUME ConnType, LinkInv, toServer # <<>>, NEW d \in Changes, NEW r \in {"Ok", "Failed", "Rpc"}
    PROVE  /\ Notification(d) \in Seq(FromServer)
           /\ \A i \in DOMAIN Notification(d) : Notification(d)[i].kind = "request" /\ monitored
           /\ <<Answer(r, NoChange)>> \in Seq(FromServer)
           /\ DOMAIN <<Answer(r, NoChange)>> = {1} /\ <<Answer(r, NoChange)>>[1] = Answer(r, NoChange)
           /\ Answer(r, NoChange).kind = "response" /\ Answer(r, NoChange).id = Head(toServer).id
           /\ Answer(r, NoChange).res = r
           /\ ~IsUpdate(Answer(r, NoChange))
           /\ Head(toServer).kind = "request" =>
                /\ Head(toServer).id < nextId
                /\ ~IsMonitor(Head(toServer)) => Head(toServer).id # 2
                /\ op.kind = "commit" /\ Head(toServer).id = op.id => Head(toServer).method = "transact"
<1>1. 1 \in DOMAIN toServer /\ toServer[1] = Head(toServer) /\ Head(toServer) \in FromClient
  BY DEF ConnType
<1>2. Head(toServer).id \in Nat
  BY <1>1, MessageFields
<1>3. Answer(r, NoChange) \in FromServer
  BY <1>2, MessageTypes, SmallChanges DEF Answer
<1>4. Notification(d) \in Seq(FromServer)
  BY NotificationType
<1>5. \A i \in DOMAIN Notification(d) : Notification(d)[i].kind = "request" /\ monitored
  BY DEF Notification, Request
<1>6. Head(toServer).kind = "request" =>
                /\ Head(toServer).id < nextId
                /\ ~IsMonitor(Head(toServer)) => Head(toServer).id # 2
                /\ op.kind = "commit" /\ Head(toServer).id = op.id => Head(toServer).method = "transact"
  BY <1>1 DEF LinkInv, RequestIds, Recorded
<1>7. /\ Answer(r, NoChange).kind = "response" /\ Answer(r, NoChange).id = Head(toServer).id
      /\ Answer(r, NoChange).res = r
      /\ ~IsUpdate(Answer(r, NoChange))
  BY DEF Answer, Response, IsUpdate
<1> QED
  BY <1>3, <1>4, <1>5, <1>6, <1>7

(* Whatever the server does but close, it says something.                  *)
LEMMA ServerTells ==
    ASSUME ConnType, ServerType, ServerStep \/ ServerEcho \/ \E d \in Changes : OtherClient(d)
    PROVE  \E ms \in Seq(FromServer) : Tell(ms)
<1>0. NoChange \in Changes /\ db \in Changes /\ \A p, q \in Seq(FromServer) : p \o q \in Seq(FromServer)
  BY SmallChanges DEF ServerType
<1>a. ASSUME NEW m, Serve(m), NEW r \in {"Ok", "Failed", "Rpc"}, NEW b \in Changes
      PROVE  <<Answer(r, b)>> \in Seq(FromServer) /\ Head(toServer).body \in Changes
  <2>1. Head(toServer) \in FromClient
    BY <1>a DEF ConnType, Serve
  <2>2. Answer(r, b) \in FromServer
    BY <2>1, MessageFields, MessageTypes DEF Answer
  <2> QED
    BY <2>1, <2>2, MessageFields
<1>1. CASE ServerSimple
  BY <1>0, <1>1, <1>a DEF ServerSimple
<1>2. CASE ServerMonitor
  BY <1>0, <1>2, <1>a DEF ServerMonitor
<1>3. CASE ServerCancel
  BY <1>0, <1>3, <1>a DEF ServerCancel
<1>4. CASE ServerTransact
  <2>1. Serve("transact")
    BY <1>4 DEF ServerTransact
  <2>2. PICK r \in {"Ok", "Failed", "Rpc"} :
            LET d == IF r = "Ok" THEN Effect(db, Head(toServer).body) ELSE NoChange
            IN  \/ Tell(Notification(d) \o <<Answer(r, NoChange)>>)
                \/ Tell(<<Answer(r, NoChange)>> \o Notification(d))
    BY <1>4 DEF ServerTransact
  <2>3. \A d \in Changes : Notification(d) \in Seq(FromServer) /\ Effect(db, d) \in Changes
    BY NotificationType, WithFacts DEF ServerType
  <2>4. <<Answer(r, NoChange)>> \in Seq(FromServer) /\ Head(toServer).body \in Changes
    BY <1>0, <1>a, <2>1
  <2> QED
    BY <1>0, <2>2, <2>3, <2>4
<1>5. CASE ServerEchoReply
  <2>1. <<>> \in Seq(FromServer) /\ Tell(<<>>)
    BY <1>5 DEF ServerEchoReply, Tell, ConnType
  <2> QED
    BY <2>1
<1>6. CASE ServerEcho
  <2>1. Request("echo", echoes', NoChange) \in FromServer
    <3>1. echoes' \in Nat
      BY <1>6 DEF ServerEcho, ServerType
    <3> QED
      BY <1>0, <3>1, MessageTypes
  <2>2. <<Request("echo", echoes', NoChange)>> \in Seq(FromServer)
    BY <2>1
  <2> QED
    BY <1>6, <2>2 DEF ServerEcho
<1>7. ASSUME NEW d \in Changes, OtherClient(d) PROVE \E ms \in Seq(FromServer) : Tell(ms)
  <2>1. Notification(Effect(db, d)) \in Seq(FromServer)
    BY NotificationType, WithFacts DEF ServerType
  <2> QED
    BY <1>7, <2>1 DEF OtherClient
<1> QED
  BY <1>1, <1>2, <1>3, <1>4, <1>5, <1>6, <1>7 DEF ServerStep

LEMMA NextLink ==
    ASSUME ConnType, CallType, IdlType, ServerType, CallInv, LinkInv, [Next]_vars
    PROVE  LinkInv'
<1>0. nextId \in Nat /\ NoChange \in Changes /\ Idle.kind = "none" /\ Idle.pc = "idle"
  BY SmallChanges DEF ConnType, Idle
<1>s. ASSUME NEW t \in {"get_schema", "monitor", "transact", "list_dbs", "monitor_cancel"}, NEW b \in Changes,
             SendRequest(t, b), UNCHANGED <<connected, server>>, t = "monitor" <=> nextId = 2,
             op'.kind = "commit" => op'.id = nextId /\ t = "transact"
      PROVE  LinkInv'
  <2> DEFINE m == Request(t, nextId, b)
  <2>1. m \in FromClient /\ m.kind = "request" /\ m.id = nextId /\ m.method = t
    BY <1>0, MessageTypes DEF Request
  <2>2. SendMessage(m) /\ UNCHANGED <<toClient, pending>> /\ nextId' = nextId + 1
    BY <1>s DEF SendRequest
  <2> HIDE DEF m
  <2> QED
    BY <1>s, <2>1, <2>2, LinkSend DEF IsMonitor
<1>q. ASSUME NEW c, op' = c, c.kind # "commit", UNCHANGED <<conn, connected, server>>
      PROVE  LinkInv'
  BY <1>q, LinkQuiet DEF conn
<1>1. CASE Connect
  BY <1>0, <1>1, <1>s DEF Connect, Begin
<1>2. CASE ListDbs \/ CancelMonitor
  <2>1. nextId > 2
    BY <1>2 DEF ListDbs, CancelMonitor, CanCall, CallInv, ConnectedShape
  <2> QED
    BY <1>0, <1>2, <1>s, <2>1 DEF ListDbs, CancelMonitor, Begin
<1>3. ASSUME NEW d \in Changes, Commit(d) PROVE LinkInv'
  <2>1. nextId > 2
    BY <1>3 DEF Commit, CanCall, CallInv, ConnectedShape
  <2> QED
    BY <1>0, <1>3, <1>s, <2>1 DEF Commit, Begin
<1>4. CASE Run
  <2>1. DOMAIN pending' = {} /\ UNCHANGED <<toServer, toClient, nextId, op, connected, server>>
    BY <1>4 DEF Run
  <2> QED
    BY <2>1, LinkQuiet
<1>5. CASE Wait
  BY <1>5, <1>q DEF Wait, Begin
<1>6. CASE ReturnAtOnce
  BY <1>6, LinkQuiet DEF ReturnAtOnce, conn
<1>7. CASE StartMonitor
  <2>1. nextId = 2
    BY <1>0, <1>7 DEF StartMonitor, CallInv, CallShape
  <2> QED
    BY <1>0, <1>7, <1>s, <2>1 DEF StartMonitor, Begin
<1>8. CASE RecvSchema
  <2>1. TakeNext /\ UNCHANGED <<pending, server>> /\ op.pc = "schema"
    BY <1>8, TakeFacts DEF RecvSchema
  <2>2. op.kind = "connect"
    BY <1>0, <2>1 DEF CallInv, CallShape
  <2>3. op'.kind # "commit" /\ UNCHANGED connected
    BY <1>0, <1>8, <2>2 DEF RecvSchema, Pending, Return, CallType
  <2> QED
    BY <2>1, <2>3, NotTheReply, LinkTake
<1>9. CASE RecvMonitorReply
  BY <1>9, LinkReply
<1>10. CASE RecvResponse
  <2>1. TakeNext /\ UNCHANGED <<pending, server>> /\ op.pc = "response"
    BY <1>10, TakeFacts DEF RecvResponse
  <2>2. op.kind # "connect" /\ connected
    BY <1>0, <2>1 DEF CallInv, CallShape
  <2>3. op'.kind # "commit" /\ UNCHANGED connected
    BY <1>0, <1>10, <2>2 DEF RecvResponse, Return, CallType
  <2> QED
    BY <2>1, <2>2, <2>3, NotTheReply, LinkTake
<1>11. CASE RecvNotification
  <2>1. TakeNext /\ Got.kind = "request" /\ pending' = Append(pending, Got) /\ UNCHANGED <<op, connected, server>>
    BY <1>11 DEF RecvNotification, BufferNotification, client
  <2> QED
    BY <2>1, NotTheReply, LinkTake
<1>12. CASE RecvUnexpected
  <2>1. TakeNext /\ UNCHANGED <<pending, server>> /\ Got.id # op.id /\ op.pc \in {"schema", "monitor", "response"}
    BY <1>12 DEF RecvUnexpected, TakeUnexpected, AwaitsResponse
  <2>2. op.pc = "response" => connected
    BY <1>0 DEF CallInv, CallShape
  <2>3. op'.kind # "commit" /\ UNCHANGED connected
    BY <1>0, <1>12 DEF RecvUnexpected, Return, CallType
  <2> QED
    BY <2>1, <2>2, <2>3, NotTheReply, LinkTake
<1>13. CASE WaitPop
  <2>1. UNCHANGED <<toServer, toClient, nextId, server>> /\ op.pc = "buffered"
    BY <1>13 DEF WaitPop
  <2>2. op.kind = "wait" /\ connected
    BY <1>0, <2>1 DEF CallInv, CallShape
  <2>3. op'.kind # "commit" /\ UNCHANGED connected
    BY <1>0, <1>13, <2>2 DEF WaitPop, Pending, Return, CallType
  <2>4. UNCHANGED pending \/ (pending # <<>> /\ pending' = Tail(pending))
    BY <1>13 DEF WaitPop, Pop
  <2>5. \A i \in DOMAIN pending' : \E j \in DOMAIN pending : pending'[i] = pending[j]
    BY <2>4, TailPlaces DEF ConnType
  <2> QED
    BY <2>1, <2>3, <2>5, LinkQuiet
<1>14. CASE WaitRead
  <2>1. TakeNext /\ UNCHANGED <<pending, server>> /\ op.pc = "read"
    BY <1>14 DEF WaitRead
  <2>2. op.kind = "wait" /\ connected
    BY <1>0, <2>1 DEF CallInv, CallShape
  <2>3. op'.kind # "commit" /\ UNCHANGED connected
    BY <1>0, <1>14, <2>2 DEF WaitRead, Return, CallType
  <2> QED
    BY <2>1, <2>2, <2>3, NotTheReply, LinkTake
<1>15. CASE SendEchoReply
  <2> DEFINE m == Response(op.echo, "Ok", NoChange)
  <2>1. m \in FromClient /\ m.kind = "response"
    BY <1>0, MessageTypes DEF CallType, Response
  <2>2. SendMessage(m) /\ UNCHANGED <<toClient, nextId, pending, connected, server>>
    BY <1>15 DEF SendEchoReply
  <2>3. op.kind = "wait"
    BY <1>0, <1>15 DEF SendEchoReply, CallInv, CallShape
  <2>4. op'.kind # "commit"
    BY <1>15, <2>3 DEF SendEchoReply, CallType
  <2> HIDE DEF m
  <2> QED
    BY <2>1, <2>2, <2>4, LinkSend
<1>16. CASE StreamFails \/ Drop
  <2>1. PICK r \in {"Closed", "Dropped"} : Return(r) /\ UNCHANGED <<conn, server>>
    BY <1>16 DEF StreamFails, Drop
  <2> QED
    BY <1>0, <1>q, <2>1 DEF Return, CallType
<1>17. ASSUME NEW m \in {"get_schema", "list_dbs", "monitor_cancel", "transact"}, Serve(m)
       PROVE  /\ UNCHANGED <<nextId, pending, client>> /\ toServer # <<>> /\ toServer' = Tail(toServer)
              /\ Head(toServer).kind = "request" /\ Head(toServer).method = m /\ ~IsMonitor(Head(toServer))
  BY <1>17 DEF Serve, IsMonitor
<1>18. CASE ServerSimple \/ ServerCancel
  <2>1. PICK m \in {"get_schema", "list_dbs", "monitor_cancel"} : Serve(m)
    BY <1>18 DEF ServerSimple, ServerCancel
  <2>2. PICK r \in {"Ok", "Rpc"} : Tell(<<Answer(r, NoChange)>>)
    BY <1>18 DEF ServerSimple, ServerCancel
  <2>3. UNCHANGED results /\ (monitored' => monitored)
    BY <1>18 DEF ServerSimple, ServerCancel
  <2> QED
    <3> DEFINE ms == <<Answer(r, NoChange)>>
    <3>1. /\ UNCHANGED <<nextId, pending, client>> /\ toServer # <<>> /\ toServer' = Tail(toServer)
          /\ Head(toServer).kind = "request" /\ ~IsMonitor(Head(toServer))
          /\ Head(toServer).method # "transact"
      BY <1>17, <2>1
    <3>2. /\ ms \in Seq(FromServer) /\ DOMAIN ms = {1} /\ ~IsUpdate(ms[1])
          /\ ms[1].id = Head(toServer).id
          /\ Head(toServer).id < nextId /\ Head(toServer).id # 2
          /\ ~(op.kind = "commit" /\ Head(toServer).id = op.id)
      BY <1>0, <3>1, SayFacts
    <3> HIDE DEF ms
    <3> QED
      BY <2>2, <2>3, <3>1, <3>2, LinkTell DEF ms
<1>19. CASE ServerMonitor
  BY <1>19, LinkWatch
<1>20. CASE ServerTransact
  <2>1. Serve("transact") /\ toServer # <<>> /\ UNCHANGED monitored
    BY <1>20 DEF ServerTransact, Serve
  <2>2. PICK r \in {"Ok", "Failed", "Rpc"} :
            LET d == IF r = "Ok" THEN Effect(db, Head(toServer).body) ELSE NoChange
            IN  /\ db' = With(db, d)
                /\ \/ Tell(Notification(d) \o <<Answer(r, NoChange)>>)
                   \/ Tell(<<Answer(r, NoChange)>> \o Notification(d))
                /\ results' = results \union {[id |-> Head(toServer).id, res |-> r]}
    BY <1>20 DEF ServerTransact
  <2> DEFINE d == IF r = "Ok" THEN Effect(db, Head(toServer).body) ELSE NoChange
  <2>3. d \in Changes
    <3>1. Head(toServer) \in FromClient
      BY <2>1 DEF ConnType
    <3> QED
      BY <1>0, <3>1, MessageFields, WithFacts DEF ServerType
  <2>4. PICK say, answer, ms :
            /\ say \in Seq(FromServer) /\ answer \in Seq(FromServer)
            /\ Tell(ms) /\ (ms = say \o answer \/ ms = answer \o say)
            /\ \A i \in DOMAIN say : say[i].kind = "request" /\ monitored
            /\ DOMAIN answer = {1} /\ answer[1].id = Head(toServer).id
            /\ answer[1].res = r /\ ~IsUpdate(answer[1])
    <3>1. Notification(d) \in Seq(FromServer) /\ <<Answer(r, NoChange)>> \in Seq(FromServer)
      BY <2>1, <2>3, SayFacts
    <3>2. \A i \in DOMAIN Notification(d) : Notification(d)[i].kind = "request" /\ monitored
      BY <2>1, <2>3, SayFacts
    <3>3. /\ DOMAIN <<Answer(r, NoChange)>> = {1}
          /\ <<Answer(r, NoChange)>>[1].id = Head(toServer).id
          /\ <<Answer(r, NoChange)>>[1].res = r /\ ~IsUpdate(<<Answer(r, NoChange)>>[1])
      BY <2>1, <2>3, SayFacts
    <3>4. \E ms : Tell(ms) /\ (\/ ms = Notification(d) \o <<Answer(r, NoChange)>>
                                \/ ms = <<Answer(r, NoChange)>> \o Notification(d))
      BY <2>2
    <3> QED
      BY <3>1, <3>2, <3>3, <3>4, Zenon
  <2>5. Head(toServer).id < nextId /\ Head(toServer).id # 2
    BY <1>17, <2>1, <2>3, SayFacts
  <2>6. [id |-> Head(toServer).id, res |-> r] \in results' /\ results \subseteq results'
    BY <2>2
  <2>7. ms \in Seq(FromServer)
    <3>1. \A p, q \in Seq(FromServer) : p \o q \in Seq(FromServer)
      OBVIOUS
    <3> QED
      BY <2>4, <3>1
  <2>8. \A i \in DOMAIN ms : (\E j \in DOMAIN say : ms[i] = say[j]) \/ ms[i] = answer[1]
    <3>1. \A j \in DOMAIN answer : answer[j] = answer[1]
      BY <2>4
    <3>2. \A i \in DOMAIN ms : (\E j \in DOMAIN say : ms[i] = say[j]) \/ (\E j \in DOMAIN answer : ms[i] = answer[j])
      <4>1. CASE ms = say \o answer
        <5> SUFFICES ASSUME NEW i \in DOMAIN ms
                     PROVE  (\E j \in DOMAIN say : ms[i] = say[j]) \/ (\E j \in DOMAIN answer : ms[i] = answer[j])
          OBVIOUS
        <5>1. (i \in DOMAIN say /\ ms[i] = say[i]) \/ (i - Len(say) \in DOMAIN answer /\ ms[i] = answer[i - Len(say)])
          BY <4>1, ConcatPlaces
        <5> QED
          BY <5>1
      <4>2. CASE ms = answer \o say
        <5> SUFFICES ASSUME NEW i \in DOMAIN ms
                     PROVE  (\E j \in DOMAIN say : ms[i] = say[j]) \/ (\E j \in DOMAIN answer : ms[i] = answer[j])
          OBVIOUS
        <5>1. (i \in DOMAIN answer /\ ms[i] = answer[i]) \/ (i - Len(answer) \in DOMAIN say /\ ms[i] = say[i - Len(answer)])
          BY <4>2, ConcatPlaces
        <5> QED
          BY <5>1
      <4> QED
        BY <2>4, <4>1, <4>2
    <3> QED
      BY <3>1, <3>2
  <2>9. \A i \in DOMAIN ms : /\ ms[i].kind = "response" => ms[i] = answer[1]
                             /\ IsUpdate(ms[i]) => monitored
    BY <2>4, <2>8 DEF IsUpdate
  <2> QED
    BY <1>17, <2>1, <2>4, <2>5, <2>6, <2>7, <2>9, LinkTell
<1>21. CASE ServerEchoReply
  <2>1. /\ UNCHANGED <<nextId, pending, client, monitored, results>>
        /\ toServer # <<>> /\ toServer' = Tail(toServer) /\ UNCHANGED toClient
    BY <1>21 DEF ServerEchoReply
  <2>2. <<>> \in Seq(FromServer) /\ Tell(<<>>) /\ DOMAIN <<>> = {}
    BY <2>1 DEF Tell, ConnType
  <2> QED
    BY <2>1, <2>2, LinkTell
<1>22. ASSUME NEW d \in Changes, OtherClient(d) PROVE LinkInv'
  <2> DEFINE ms == Notification(Effect(db, d))
  <2>1. ms \in Seq(FromServer) /\ \A i \in DOMAIN ms : ms[i].kind = "request" /\ monitored
    <3>1. Effect(db, d) \in Changes
      BY WithFacts DEF ServerType
    <3>2. \A i \in DOMAIN ms : ms[i].kind = "request" /\ monitored
      BY DEF Notification, Request
    <3> QED
      BY <3>1, <3>2, NotificationType
  <2>2. Tell(ms) /\ UNCHANGED <<toServer, nextId, pending, client, monitored, results>>
    BY <1>22 DEF OtherClient
  <2> HIDE DEF ms
  <2> QED
    BY <2>1, <2>2, LinkTell
<1>23. CASE ServerEcho
  <2> DEFINE m == Request("echo", echoes', NoChange)
  <2>1. m \in FromServer /\ m.kind = "request" /\ ~IsUpdate(m)
    <3>1. echoes' \in Nat
      BY <1>23 DEF ServerEcho, ServerType
    <3>2. m.kind = "request" /\ m.method = "echo"
      BY DEF Request
    <3> QED
      BY <1>0, <3>1, <3>2, MessageTypes DEF IsUpdate
  <2>2. Tell(<<m>>) /\ UNCHANGED <<toServer, nextId, pending, client, monitored, results>>
    BY <1>23 DEF ServerEcho
  <2> HIDE DEF m
  <2>3. <<m>> \in Seq(FromServer) /\ DOMAIN <<m>> = {1} /\ <<m>>[1] = m
    BY <2>1
  <2> QED
    BY <2>1, <2>2, <2>3, LinkTell
<1>24. CASE Close
  BY <1>24, LinkClose
<1>25. CASE UNCHANGED vars
  BY <1>25, LinkQuiet DEF vars, conn, client
<1> QED
  BY <1>1, <1>2, <1>3, <1>4, <1>5, <1>6, <1>7, <1>8, <1>9, <1>10, <1>11, <1>12, <1>13, <1>14,
     <1>15, <1>16, <1>18, <1>19, <1>20, <1>21, <1>22, <1>23, <1>24, <1>25
     DEF Next, Call, ClientStep, Receive, ServerStep

-----------------------------------------------------------------------------
(* The answers of commits.                                                 *)
LEMMA NextAnswer ==
    ASSUME ConnType, CallType, CallInv, LinkInv, AnswerIsOwn, [Next]_vars
    PROVE  AnswerIsOwn'
<1>0. Idle.kind = "none" /\ Idle.pc = "idle"
  BY DEF Idle
<1>q. ASSUME last' = last, results \subseteq results' PROVE AnswerIsOwn'
  BY <1>q DEF AnswerIsOwn
<1>r. ASSUME last'.kind # "commit" \/ last'.id = 0 \/ last'.res \notin {"Ok", "Failed", "Rpc"}
      PROVE  AnswerIsOwn'
  BY <1>r DEF AnswerIsOwn
<1>1. CASE Connect \/ ListDbs \/ CancelMonitor \/ Wait \/ StartMonitor \/ (\E d \in Changes : Commit(d))
  BY <1>1, <1>q DEF Connect, ListDbs, CancelMonitor, Wait, StartMonitor, Commit, Begin, server
<1>2. CASE Run \/ ReturnAtOnce
  BY <1>2, <1>r DEF Run, ReturnAtOnce
<1>3. CASE RecvSchema \/ RecvMonitorReply
  <2>1. op.kind = "connect"
    BY <1>0, <1>3 DEF RecvSchema, RecvMonitorReply, CallInv, CallShape
  <2>2. last'.kind = "connect" \/ UNCHANGED <<last, results>>
    BY <1>3, <2>1 DEF RecvSchema, RecvMonitorReply, Return, Pending, server
  <2> QED
    BY <2>2, <1>q, <1>r
<1>4. CASE RecvResponse
  <2>1. last' = [kind |-> op.kind, id |-> op.id, res |-> Got.res] /\ UNCHANGED results
    BY <1>4 DEF RecvResponse, Return, server
  <2>2. TakeNext /\ Got.kind = "response" /\ Got.id = op.id
    BY <1>4, TakeFacts DEF RecvResponse
  <2>3. 1 \in DOMAIN toClient /\ toClient[1] = Got
    BY <2>2 DEF ConnType, TakeNext, Readable, Got
  <2>4. op.kind = "commit" => [id |-> op.id, res |-> Got.res] \in results
    BY <2>2, <2>3 DEF LinkInv, Recorded
  <2> QED
    BY <2>1, <2>4 DEF AnswerIsOwn
<1>5. CASE RecvNotification \/ SendEchoReply
  BY <1>5, <1>q DEF RecvNotification, SendEchoReply, client, server
<1>6. CASE RecvUnexpected \/ StreamFails \/ Drop
  BY <1>6, <1>r DEF RecvUnexpected, StreamFails, Drop, Return
<1>7. CASE WaitPop \/ WaitRead
  <2>1. op.kind = "wait"
    BY <1>0, <1>7 DEF WaitPop, WaitRead, CallInv, CallShape
  <2>2. last'.kind = "wait" \/ UNCHANGED <<last, results>>
    BY <1>7, <2>1 DEF WaitPop, WaitRead, Return, Pending, server
  <2> QED
    BY <2>2, <1>q, <1>r
<1>8. CASE ServerStep \/ (\E d \in Changes : OtherClient(d)) \/ ServerEcho \/ Close \/ UNCHANGED vars
  <2>1. UNCHANGED last
    BY <1>8 DEF ServerStep, ServerSimple, ServerMonitor, ServerCancel, ServerTransact, ServerEchoReply,
                Serve, OtherClient, ServerEcho, Close, vars, client
  <2>2. results \subseteq results'
    BY <1>8 DEF ServerStep, ServerSimple, ServerMonitor, ServerCancel, ServerTransact, ServerEchoReply,
                Serve, OtherClient, ServerEcho, Close, vars, server
  <2> QED
    BY <2>1, <2>2, <1>q
<1> QED
  BY <1>1, <1>2, <1>3, <1>4, <1>5, <1>6, <1>7, <1>8 DEF Next, Call, ClientStep, Receive

(* The invariant the theorems rest on.                                     *)
IInv == TypeOK /\ CallInv /\ LinkInv

LEMMA InitIInv == Init => IInv
  BY InitType, TypeParts, InitCall, InitLink DEF IInv

LEMMA NextIInv == IInv /\ [Next]_vars => IInv'
<1> SUFFICES ASSUME IInv, [Next]_vars PROVE IInv'
  OBVIOUS
<1>1. ConnType /\ CallType /\ IdlType /\ ServerType /\ CallInv /\ LinkInv
  BY TypeParts DEF IInv
<1>2. CallInv' /\ LinkInv'
  BY <1>1, NextCall, NextLink
<1> QED
  BY <1>2, NextTypeOK DEF IInv

(* A commit that returns an answer returns what the server did with that   *)
(* very transaction, whichever calls were dropped, and their answers left  *)
(* in the stream, before it.                                               *)
THEOREM AnswersAreOwn == Spec => []AnswerIsOwn
<1>1. Init => AnswerIsOwn
  BY DEF Init, AnswerIsOwn
<1>2. IInv /\ AnswerIsOwn /\ [Next]_vars => AnswerIsOwn'
  BY TypeParts, NextAnswer DEF IInv
<1> QED
  BY InitIInv, NextIInv, <1>1, <1>2, PTL DEF Spec

-----------------------------------------------------------------------------
(* The echo requests of the server.                                        *)
IsEcho(m, e) == m.kind = "request" /\ m.method = "echo" /\ m.id = e

Replying(e) == \E n \in DOMAIN toServer : toServer[n].kind = "response" /\ toServer[n].id = e
Inbound(e)  == \E n \in DOMAIN toClient : IsEcho(toClient[n], e)
Aside(e)    == \E n \in DOMAIN pending : IsEcho(pending[n], e)

Accounted(e) == e \in answered \/ e \in lost \/ op.echo = e \/ Replying(e) \/ Inbound(e) \/ Aside(e)

LEMMA AccountedIs ==
    ConnType => (EchoesAccounted <=> (open => \A e \in 1 .. echoes : Accounted(e)))
<1> SUFFICES ASSUME ConnType
             PROVE  \A e : (\E m \in Range(pending \o toClient) :
                               m.kind = "request" /\ m.method = "echo" /\ m.id = e)
                           <=> Aside(e) \/ Inbound(e)
  BY DEF EchoesAccounted, Accounted, Replying
<1> TAKE e
<1> DEFINE q == pending \o toClient
<1>1. pending \in Seq(FromServer) /\ toClient \in Seq(FromServer)
  BY MessageFields DEF ConnType
<1>2. /\ \A i \in DOMAIN q : \/ i \in DOMAIN pending /\ q[i] = pending[i]
                             \/ i - Len(pending) \in DOMAIN toClient /\ q[i] = toClient[i - Len(pending)]
      /\ \A i \in DOMAIN pending : i \in DOMAIN q /\ q[i] = pending[i]
      /\ \A i \in DOMAIN toClient : i + Len(pending) \in DOMAIN q /\ q[i + Len(pending)] = toClient[i]
  BY <1>1, ConcatPlaces
<1> HIDE DEF q
<1>3. (\E m \in Range(q) : IsEcho(m, e)) <=> \E i \in DOMAIN q : IsEcho(q[i], e)
  BY DEF Range
<1>4. (\E i \in DOMAIN q : IsEcho(q[i], e)) => Aside(e) \/ Inbound(e)
  <2> SUFFICES ASSUME NEW i \in DOMAIN q, IsEcho(q[i], e) PROVE Aside(e) \/ Inbound(e)
    OBVIOUS
  <2>1. CASE i \in DOMAIN pending /\ q[i] = pending[i]
    BY <2>1 DEF Aside
  <2>2. CASE i - Len(pending) \in DOMAIN toClient /\ q[i] = toClient[i - Len(pending)]
    BY <2>2 DEF Inbound
  <2> QED
    BY <1>2, <2>1, <2>2
<1>5. Aside(e) \/ Inbound(e) => \E i \in DOMAIN q : IsEcho(q[i], e)
  <2>1. ASSUME NEW i \in DOMAIN pending, IsEcho(pending[i], e) PROVE \E n \in DOMAIN q : IsEcho(q[n], e)
    BY <1>2, <2>1
  <2>2. ASSUME NEW i \in DOMAIN toClient, IsEcho(toClient[i], e) PROVE \E n \in DOMAIN q : IsEcho(q[n], e)
    <3>1. i + Len(pending) \in DOMAIN q /\ IsEcho(q[i + Len(pending)], e)
      BY <1>2, <2>2
    <3> QED
      BY <3>1
  <2> QED
    BY <2>1, <2>2 DEF Aside, Inbound
<1>6. (\E m \in Range(q) : m.kind = "request" /\ m.method = "echo" /\ m.id = e)
      <=> \E m \in Range(q) : IsEcho(m, e)
  BY DEF IsEcho
<1> QED
  BY <1>3, <1>4, <1>5, <1>6 DEF q

(* Whatever a step does, it takes an echo request only to another of those *)
(* places.                                                                 *)
LEMMA StaysAccounted ==
    ASSUME ConnType, CallType, ServerType, CallInv, [Next]_vars, open', NEW e \in 1 .. echoes, Accounted(e)
    PROVE  Accounted(e)'
<1>0. e \in Nat \ {0} /\ Idle.pc = "idle" /\ Idle.echo = 0
  BY DEF ServerType, Idle
<1>a. /\ op.pc \notin {"bufferedEcho", "readEcho"} => op.echo = 0
  BY <1>0 DEF CallInv, CallShape
<1>s. ASSUME NEW m, SendMessage(m) PROVE Replying(e) => Replying(e)'
  <2>1. \A n \in DOMAIN toServer : n \in DOMAIN toServer' /\ toServer'[n] = toServer[n]
    BY <1>s DEF SendMessage, ConnType
  <2> QED
    BY <2>1 DEF Replying
<1>q. ASSUME NEW t, NEW b, SendRequest(t, b), UNCHANGED <<lost, server>>, op.echo = 0
      PROVE  Accounted(e)'
  <2>1. UNCHANGED <<toClient, pending>> /\ SendMessage(Request(t, nextId, b))
    BY <1>q DEF SendRequest
  <2> QED
    BY <1>0, <1>q, <1>s, <2>1 DEF Accounted, Inbound, Aside, server
<1>k. ASSUME UNCHANGED <<toServer, toClient, pending, lost, server>>, op.echo = 0 \/ op'.echo = op.echo
      PROVE  Accounted(e)'
  BY <1>0, <1>k DEF Accounted, Replying, Inbound, Aside, server
<1>t. ASSUME TakeNext, Got.kind = "response", UNCHANGED <<pending, lost, server>>, op.echo = 0
      PROVE  Accounted(e)'
  <2>1. UNCHANGED toServer /\ toClient # <<>> /\ toClient' = Tail(toClient)
    BY <1>t DEF TakeNext, Readable
  <2>2. Inbound(e) => Inbound(e)'
    <3>1. \A i \in DOMAIN toClient : IF i = 1 THEN toClient[i] = Got
                                     ELSE i - 1 \in DOMAIN toClient' /\ toClient'[i - 1] = toClient[i]
      BY <2>1, TailPlaces DEF ConnType, Got
    <3> QED
      BY <1>t, <3>1 DEF Inbound, IsEcho
  <2> QED
    BY <1>0, <1>t, <2>1, <2>2 DEF Accounted, Replying, Aside, server
<1>1. CASE Connect \/ ListDbs \/ CancelMonitor \/ StartMonitor \/ (\E d \in Changes : Commit(d))
  <2>1. op.echo = 0 /\ UNCHANGED <<lost, server>>
    BY <1>0, <1>1, <1>a DEF Connect, ListDbs, CancelMonitor, StartMonitor, Commit, CanCall
  <2>2. \E t, b : SendRequest(t, b)
    BY <1>1 DEF Connect, ListDbs, CancelMonitor, StartMonitor, Commit
  <2> QED
    BY <1>q, <2>1, <2>2
<1>2. CASE Run
  <2>1. UNCHANGED <<toServer, toClient, op, server>>
    BY <1>2 DEF Run
  <2>2. lost' = lost \union {m.id : m \in {x \in Range(pending) : x.method = "echo"}}
    BY <1>2 DEF Run
  <2>3. Aside(e) => e \in lost'
    <3> SUFFICES ASSUME NEW n \in DOMAIN pending, IsEcho(pending[n], e) PROVE e \in lost'
      BY DEF Aside
    <3>1. pending[n] \in {x \in Range(pending) : x.method = "echo"} /\ pending[n].id = e
      BY DEF Range, IsEcho
    <3> QED
      BY <2>2, <3>1
  <2>4. e \in lost => e \in lost'
    BY <2>2
  <2> QED
    BY <2>1, <2>3, <2>4 DEF Accounted, Replying, Inbound, server
<1>3. CASE Wait
  <2>1. op.echo = 0
    BY <1>0, <1>3 DEF Wait, CanCall
  <2> QED
    BY <1>3, <1>k, <2>1 DEF Wait, conn
<1>4. CASE ReturnAtOnce
  BY <1>4, <1>k DEF ReturnAtOnce, conn
<1>5. CASE RecvSchema \/ RecvMonitorReply \/ RecvResponse
  <2>1. TakeResponse(op.id) /\ UNCHANGED <<lost, server>> /\ op.echo = 0
    BY <1>5, <1>a DEF RecvSchema, RecvMonitorReply, RecvResponse
  <2> QED
    BY <1>t, <2>1, TakeFacts
<1>6. CASE RecvUnexpected
  <2>1. op.echo = 0
    BY <1>6, <1>a DEF RecvUnexpected, AwaitsResponse
  <2> QED
    BY <1>6, <1>t, <2>1 DEF RecvUnexpected, TakeUnexpected
<1>7. CASE RecvNotification
  <2>1. /\ UNCHANGED <<toServer, op, lost, server>> /\ toClient # <<>> /\ toClient' = Tail(toClient)
        /\ pending' = Append(pending, Got) /\ Got \in Notifications
    BY <1>7, TakeType DEF RecvNotification, BufferNotification, TakeNext, Readable, client, ConnType, Notifications
  <2>2. \A i \in DOMAIN toClient : IF i = 1 THEN toClient[i] = Got
                                   ELSE i - 1 \in DOMAIN toClient' /\ toClient'[i - 1] = toClient[i]
    BY <2>1, TailPlaces DEF ConnType, Got
  <2>3. /\ \A i \in DOMAIN pending : i \in DOMAIN pending' /\ pending'[i] = pending[i]
        /\ Len(pending) + 1 \in DOMAIN pending' /\ pending'[Len(pending) + 1] = Got
    BY <2>1, AppendPlaces DEF ConnType
  <2>4. Aside(e) \/ Inbound(e) => Aside(e)' \/ Inbound(e)'
    BY <2>2, <2>3 DEF Aside, Inbound
  <2> QED
    BY <2>1, <2>4 DEF Accounted, Replying, server
<1>8. CASE StreamFails
  <2>1. ~open
    BY <1>8 DEF StreamFails
  <2>2. UNCHANGED open
    BY <1>8 DEF StreamFails, conn
  <2> QED
    BY <2>1, <2>2
<1>9. CASE Drop
  <2>1. op.echo = 0
    BY <1>9, <1>a DEF Drop, AwaitsMessage, AwaitsResponse
  <2> QED
    BY <1>9, <1>k, <2>1 DEF Drop, conn
<1>10. CASE WaitPop
  <2>1. UNCHANGED <<toServer, toClient, lost, server>> /\ op.echo = 0
    BY <1>10, <1>a DEF WaitPop
  <2>2. CASE UNCHANGED pending
    BY <1>k, <2>1, <2>2
  <2>3. CASE Pop /\ (\/ Popped.method = "update"
                    \/ /\ Popped.method = "echo"
                       /\ op' = [op EXCEPT !.pc = "bufferedEcho", !.echo = Popped.id])
    <3>1. pending # <<>> /\ pending' = Tail(pending)
      BY <2>3 DEF Pop
    <3>2. \A i \in DOMAIN pending : IF i = 1 THEN pending[i] = Popped
                                    ELSE i - 1 \in DOMAIN pending' /\ pending'[i - 1] = pending[i]
      BY <3>1, TailPlaces DEF ConnType, Popped
    <3>3. Aside(e) => Aside(e)' \/ IsEcho(Popped, e)
      BY <3>2 DEF Aside
    <3>4. IsEcho(Popped, e) => op'.echo = e
      BY <2>3 DEF IsEcho, CallType
    <3> QED
      BY <1>0, <2>1, <3>3, <3>4 DEF Accounted, Replying, Inbound, server
  <2>4. CASE pending = <<>> /\ Pending("read") /\ UNCHANGED <<pending, idl, seqno>>
    BY <2>2, <2>4
  <2>5. CASE Pop /\ Popped.method = "update" /\ ProcessUpdate(Popped.body) /\ Return("Ok")
    BY <2>3, <2>5
  <2>6. CASE /\ Pop /\ Popped.method = "echo"
             /\ op' = [op EXCEPT !.pc = "bufferedEcho", !.echo = Popped.id]
             /\ UNCHANGED <<connected, last, idl, seqno>>
    BY <2>3, <2>6
  <2> QED
    BY <1>10, <2>4, <2>5, <2>6 DEF WaitPop
<1>11. CASE WaitRead
  <2>1. TakeNext /\ UNCHANGED <<pending, lost, server>> /\ op.echo = 0
    BY <1>11, <1>a DEF WaitRead
  <2>2. CASE Got.kind = "response"
    BY <1>t, <2>1, <2>2
  <2>3. CASE \/ Got.method = "update"
             \/ /\ Got.method = "echo"
                /\ op' = [op EXCEPT !.pc = "readEcho", !.echo = Got.id]
    <3>1. UNCHANGED toServer /\ toClient # <<>> /\ toClient' = Tail(toClient)
      BY <2>1 DEF TakeNext, Readable
    <3>2. \A i \in DOMAIN toClient : IF i = 1 THEN toClient[i] = Got
                                     ELSE i - 1 \in DOMAIN toClient' /\ toClient'[i - 1] = toClient[i]
      BY <3>1, TailPlaces DEF ConnType, Got
    <3>3. Inbound(e) => Inbound(e)' \/ IsEcho(Got, e)
      BY <3>2 DEF Inbound
    <3>4. IsEcho(Got, e) => op'.echo = e
      BY <2>3 DEF IsEcho, CallType
    <3> QED
      BY <1>0, <2>1, <3>1, <3>3, <3>4 DEF Accounted, Replying, Aside, server
  <2> QED
    BY <1>11, <2>2, <2>3 DEF WaitRead
<1>12. CASE SendEchoReply
  <2> DEFINE m == Response(op.echo, "Ok", NoChange)
  <2>1. UNCHANGED <<toClient, pending, lost, server, open>> /\ SendMessage(m)
    BY <1>12 DEF SendEchoReply
  <2>2. toServer' = Append(toServer, m) /\ m.kind = "response" /\ m.id = op.echo
    BY <2>1 DEF SendMessage, Response
  <2> HIDE DEF m
  <2>3. Len(toServer) + 1 \in DOMAIN toServer' /\ toServer'[Len(toServer) + 1] = m
    BY <2>2 DEF ConnType
  <2>4. op.echo = e => Replying(e)'
    BY <2>2, <2>3 DEF Replying
  <2>5. Replying(e) => Replying(e)'
    BY <1>s, <2>1
  <2> QED
    BY <2>1, <2>4, <2>5 DEF Accounted, Inbound, Aside, server
<1>13. ASSUME UNCHANGED <<op, lost, pending, answered>>, NEW ms \in Seq(FromServer), Tell(ms),
              UNCHANGED toServer \/ (toServer # <<>> /\ toServer' = Tail(toServer)
                                     /\ Head(toServer).kind = "request")
       PROVE  Accounted(e)'
  <2>1. Inbound(e) => Inbound(e)'
    <3>1. \A i \in DOMAIN toClient : i \in DOMAIN toClient' /\ toClient'[i] = toClient[i]
      BY <1>13, ConcatPlaces DEF ConnType, Tell
    <3> QED
      BY <3>1 DEF Inbound
  <2>2. Replying(e) => Replying(e)'
    <3>1. CASE UNCHANGED toServer
      BY <3>1 DEF Replying
    <3>2. CASE toServer # <<>> /\ toServer' = Tail(toServer) /\ Head(toServer).kind = "request"
      <4>1. \A i \in DOMAIN toServer : IF i = 1 THEN toServer[i] = Head(toServer)
                                       ELSE i - 1 \in DOMAIN toServer' /\ toServer'[i - 1] = toServer[i]
        BY <3>2, TailPlaces DEF ConnType
      <4> QED
        BY <3>2, <4>1 DEF Replying
    <3> QED
      BY <1>13, <3>1, <3>2
  <2> QED
    BY <1>13, <2>1, <2>2 DEF Accounted, Aside
<1>14. CASE ServerStep \/ (\E d \in Changes : OtherClient(d)) \/ ServerEcho
  <2>1. \E ms \in Seq(FromServer) : toClient' = toClient \o ms
    BY <1>14, ServerTells DEF Tell
  <2>2. CASE ServerEchoReply
    <3>1. /\ UNCHANGED <<toClient, pending, op, lost>> /\ toServer # <<>> /\ toServer' = Tail(toServer)
          /\ answered' = answered \union {Head(toServer).id}
      BY <2>2 DEF ServerEchoReply, client
    <3>2. \A i \in DOMAIN toServer : IF i = 1 THEN toServer[i] = Head(toServer)
                                     ELSE i - 1 \in DOMAIN toServer' /\ toServer'[i - 1] = toServer[i]
      BY <3>1, TailPlaces DEF ConnType
    <3>3. Replying(e) => Replying(e)' \/ e \in answered'
      BY <3>1, <3>2 DEF Replying
    <3>4. e \in answered => e \in answered'
      BY <3>1
    <3> QED
      BY <3>1, <3>3, <3>4 DEF Accounted, Inbound, Aside
  <2>3. CASE ~ServerEchoReply
    <3>1. UNCHANGED <<op, lost, pending, answered>>
      BY <1>14, <2>3 DEF ServerStep, ServerSimple, ServerMonitor, ServerCancel, ServerTransact,
                         Serve, OtherClient, ServerEcho, client
    <3>2. UNCHANGED toServer \/ (toServer # <<>> /\ toServer' = Tail(toServer)
                                 /\ Head(toServer).kind = "request")
      BY <1>14, <2>3 DEF ServerStep, ServerSimple, ServerMonitor, ServerCancel, ServerTransact,
                         Serve, OtherClient, ServerEcho
    <3> QED
      BY <1>13, <2>1, <3>1, <3>2 DEF Tell
  <2> QED
    BY <2>2, <2>3
<1>15. CASE Close
  BY <1>15 DEF Close
<1>16. CASE UNCHANGED vars
  BY <1>16, <1>k DEF vars, conn, client
<1> QED
  BY <1>1, <1>2, <1>3, <1>4, <1>5, <1>6, <1>7, <1>8, <1>9, <1>10, <1>11, <1>12, <1>14, <1>15, <1>16
     DEF Next, Call, ClientStep, Receive

LEMMA EchoStep == [Next]_vars => ServerEcho \/ UNCHANGED echoes
<1> SUFFICES ASSUME [Next]_vars, ~ServerEcho PROVE UNCHANGED echoes
  OBVIOUS
<1>1. CASE Call \/ ClientStep \/ Drop \/ UNCHANGED vars
  BY <1>1 DEF Call, Connect, ListDbs, CancelMonitor, Run, Wait, ReturnAtOnce, Commit, ClientStep, StartMonitor,
     Receive, RecvSchema, RecvMonitorReply, RecvResponse, RecvNotification, RecvUnexpected, WaitPop,
     WaitRead, SendEchoReply, StreamFails, Drop, vars, server
<1>2. CASE ServerStep \/ (\E d \in Changes : OtherClient(d)) \/ Close
  BY <1>2 DEF ServerStep, ServerSimple, ServerMonitor, ServerCancel, ServerTransact, ServerEchoReply,
     Serve, OtherClient, Close
<1> QED
  BY <1>1, <1>2 DEF Next

(* A closed connection stays closed.                                       *)
LEMMA Reopen == [Next]_vars => (open' => open)
<1> SUFFICES ASSUME [Next]_vars PROVE open' => open
  OBVIOUS
<1>1. CASE Call
  BY <1>1, SendFacts DEF Call, Connect, ListDbs, CancelMonitor, Run, Wait, ReturnAtOnce, Commit, conn
<1>2. CASE Receive
  <2>1. TakeNext
    BY <1>2, TakeFacts DEF Receive, RecvSchema, RecvMonitorReply, RecvResponse, RecvNotification,
       RecvUnexpected, BufferNotification, TakeUnexpected
  <2> QED
    BY <2>1, TakeFacts
<1>3. CASE StartMonitor \/ WaitPop \/ WaitRead \/ SendEchoReply \/ StreamFails \/ Drop \/ UNCHANGED vars
  BY <1>3, SendFacts, TakeFacts DEF StartMonitor, WaitPop, WaitRead, SendEchoReply, StreamFails, Drop, vars, conn
<1>4. CASE ServerStep \/ (\E d \in Changes : OtherClient(d)) \/ ServerEcho \/ Close
  BY <1>4 DEF ServerStep, ServerSimple, ServerMonitor, ServerCancel, ServerTransact, ServerEchoReply,
     Serve, OtherClient, ServerEcho, Close
<1> QED
  BY <1>1, <1>2, <1>3, <1>4 DEF Next, ClientStep

LEMMA NextEchoes ==
    ASSUME TypeOK, CallInv, EchoesAccounted, [Next]_vars
    PROVE  EchoesAccounted'
<1>0. ConnType /\ CallType /\ ServerType /\ IdlType
  BY TypeParts
<1>1. ConnType'
  BY NextType, TypeParts
<1>2. EchoesAccounted' <=> (open' => \A e \in 1 .. echoes' : Accounted(e)')
  <2>1. (ConnType => (EchoesAccounted <=> (open => \A e \in 1 .. echoes : Accounted(e))))'
    BY AccountedIs, PTL
  <2> QED
    BY <1>1, <2>1
<1>3. open' => open
  BY Reopen
<1>4. \A e \in 1 .. echoes' : open' => Accounted(e)'
  <2> SUFFICES ASSUME NEW e \in 1 .. echoes', open' PROVE Accounted(e)'
    OBVIOUS
  <2>1. CASE e \in 1 .. echoes
    <3>1. Accounted(e)
      BY <1>0, <1>3, <2>1, AccountedIs
    <3> QED
      BY <1>0, <2>1, <3>1, StaysAccounted
  <2>2. CASE e \notin 1 .. echoes
    <3>1. ServerEcho \/ UNCHANGED echoes
      BY EchoStep
    <3>2. ServerEcho /\ echoes' = echoes + 1 /\ e = echoes'
      <4>1. ServerEcho
        BY <2>2, <3>1
      <4>2. echoes' = echoes + 1 /\ echoes \in Nat
        BY <1>0, <4>1 DEF ServerEcho, ServerType
      <4> QED
        BY <2>2, <4>1, <4>2
    <3>3. toClient' = Append(toClient, Request("echo", e, NoChange))
      BY <1>0, <3>2 DEF ServerEcho, Tell, ConnType
    <3>4. Len(toClient) + 1 \in DOMAIN toClient' /\ IsEcho(toClient'[Len(toClient) + 1], e)
      <4> DEFINE m == Request("echo", e, NoChange)
      <4>1. IsEcho(m, e)
        BY DEF IsEcho, Request
      <4> HIDE DEF m
      <4> QED
        BY <1>0, <3>3, <4>1 DEF ConnType, m
    <3> QED
      BY <3>4 DEF Accounted, Inbound
  <2> QED
    BY <2>1, <2>2
<1> QED
  BY <1>2, <1>4

(* No echo request of the server is lost between its arrival and its       *)
(* answer, also when it comes ahead of a response, is set aside, or wait   *)
(* is dropped before it has read on; only run drops them.                  *)
THEOREM EchoesAnswered == Spec => []EchoesAccounted
<1>1. Init => EchoesAccounted
  BY DEF Init, EchoesAccounted
<1>2. IInv /\ EchoesAccounted /\ [Next]_vars => EchoesAccounted'
  BY NextEchoes DEF IInv
<1> QED
  BY InitIInv, NextIInv, <1>1, <1>2, PTL DEF Spec

-----------------------------------------------------------------------------
(* What is on its way to the replica.                                      *)
Tellings == {m \in FromServer : IsReply(m) /\ m.res = "Ok" => m.body \in Contents}
Ways     == [now : Contents, ahead : Seq(Contents)]
At(c)    == [now |-> c, ahead |-> <<>>]
Way      == FoldLeft(TakeOver, Here, pending \o toClient)

LEMMA WayStep ==
    ASSUME NEW s \in Ways, NEW m \in Tellings
    PROVE  /\ TakeOver(s, m) \in Ways
           /\ Carries(m) => /\ Taken(s.now, m) \in Contents
                            /\ TakeOver(s, m) = [now |-> Taken(s.now, m), ahead |-> Append(s.ahead, Taken(s.now, m))]
           /\ ~Carries(m) => TakeOver(s, m) = s
<1>1. m.body \in Changes /\ s.now \in Contents
  BY MessageFields DEF Tellings, Ways
<1>2. Carries(m) => Taken(s.now, m) \in Contents
  BY <1>1, WithFacts DEF Carries, Taken, Tellings, IsReply
<1> HIDE DEF Tellings
<1>3. Carries(m) => TakeOver(s, m) \in Ways
  BY <1>2 DEF TakeOver, Ways
<1> QED
  BY <1>2, <1>3 DEF TakeOver

LEMMA WayTypes == \A c \in Contents, q \in Seq(Tellings) : At(c) \in Ways /\ FoldLeft(TakeOver, At(c), q) \in Ways
<1>1. \A s \in Ways, m \in Tellings : TakeOver(s, m) \in Ways
  BY WayStep
<1>2. \A c \in Contents : At(c) \in Ways
  BY DEF At, Ways
<1> SUFFICES ASSUME NEW c \in Contents, NEW q \in Seq(Tellings) PROVE Coming!Fold(At(c), q) \in Ways
  BY <1>2, ComingIs
<1> QED
  BY <1>1, <1>2, Coming!FoldKeeps

(* Contents ahead of those on their way stay ahead of them.                *)
LEMMA WayShift ==
    ASSUME NEW c \in Contents, NEW a \in Seq(Contents), NEW q \in Seq(Tellings)
    PROVE  FoldLeft(TakeOver, [now |-> c, ahead |-> a], q) =
             [now |-> FoldLeft(TakeOver, At(c), q).now, ahead |-> a \o FoldLeft(TakeOver, At(c), q).ahead]
<1> DEFINE F(b, t) == Coming!Fold(b, t)
           b0 == [now |-> c, ahead |-> a]
           D == {n \in Nat : \A t \in Seq(Tellings) : Len(t) = n =>
                    F(b0, t) = [now |-> F(At(c), t).now, ahead |-> a \o F(At(c), t).ahead]}
<1>1. 0 \in D
  <2>1. \A t \in Seq(Tellings) : Len(t) = 0 => t = <<>>
    OBVIOUS
  <2>2. F(b0, <<>>) = b0 /\ F(At(c), <<>>) = At(c)
    BY Coming!FoldNone
  <2>3. b0 = [now |-> At(c).now, ahead |-> a \o At(c).ahead]
    BY DEF At
  <2> HIDE DEF b0
  <2> QED
    BY <2>1, <2>2, <2>3
<1>2. ASSUME NEW n \in Nat, n \in D PROVE n + 1 \in D
  <2> SUFFICES ASSUME NEW t \in Seq(Tellings), Len(t) = n + 1
               PROVE  F(b0, t) = [now |-> F(At(c), t).now, ahead |-> a \o F(At(c), t).ahead]
    OBVIOUS
  <2> DEFINE u == SubSeq(t, 1, n)
             x == t[n + 1]
             w == F(At(c), u)
             v == F(b0, u)
  <2>1. u \in Seq(Tellings) /\ x \in Tellings /\ Len(u) = n /\ t = Append(u, x)
    OBVIOUS
  <2>2. v = [now |-> w.now, ahead |-> a \o w.ahead]
    BY <1>2, <2>1
  <2> HIDE DEF u, x
  <2>3. w \in Ways
    BY <2>1, WayTypes, ComingIs
  <2>4. F(At(c), t) = TakeOver(w, x) /\ F(b0, t) = TakeOver(v, x)
    BY <2>1, Coming!FoldAppend
  <2> HIDE DEF w, v, F
  <2>5. w.now \in Contents /\ w.ahead \in Seq(Contents)
    BY <2>3 DEF Ways
  <2>6. v \in Ways /\ v.now = w.now /\ v.ahead = a \o w.ahead
    BY <2>2, <2>5 DEF Ways
  <2>7. CASE ~Carries(x)
    BY <2>1, <2>2, <2>3, <2>4, <2>6, <2>7, WayStep
  <2>8. CASE Carries(x)
    <3> DEFINE y == Taken(w.now, x)
    <3>1. y \in Contents /\ TakeOver(w, x) = [now |-> y, ahead |-> Append(w.ahead, y)]
      BY <2>1, <2>3, <2>8, WayStep
    <3>2. TakeOver(v, x) = [now |-> y, ahead |-> Append(a \o w.ahead, y)]
      BY <2>1, <2>6, <2>8, WayStep
    <3> HIDE DEF y
    <3>3. Append(a \o w.ahead, y) = a \o Append(w.ahead, y)
      <4>1. PICK r \in Seq(Contents), z \in Contents : r = w.ahead /\ z = y
        BY <2>5, <3>1
      <4>2. a \o Append(r, z) = Append(a \o r, z)
        BY AppendConcat
      <4> QED
        BY <4>1, <4>2
    <3>4. F(At(c), t).now = y /\ F(At(c), t).ahead = Append(w.ahead, y)
      BY <2>4, <3>1
    <3>5. F(b0, t) = [now |-> y, ahead |-> a \o Append(w.ahead, y)]
      BY <2>4, <3>2, <3>3
    <3> QED
      BY <3>4, <3>5
  <2> QED
    BY <2>7, <2>8
<1> HIDE DEF D
<1>3. Nat \subseteq D
  BY <1>1, <1>2, Coming!NatSetInduction
<1>4. Len(q) \in D
  BY <1>3
<1> HIDE DEF F
<1>5. F(b0, q) = [now |-> F(At(c), q).now, ahead |-> a \o F(At(c), q).ahead]
  BY <1>4 DEF D
<1> QED
  BY <1>5, ComingIs DEF F

(* The last contents on their way are those the replica ends up with.      *)
LEMMA WayEnds ==
    ASSUME NEW c \in Contents, NEW q \in Seq(Tellings), NEW w, w = FoldLeft(TakeOver, At(c), q)
    PROVE  IF w.ahead = <<>> THEN w.now = c ELSE w.ahead[Len(w.ahead)] = w.now
<1> DEFINE I == {s \in Ways : IF s.ahead = <<>> THEN s.now = c ELSE s.ahead[Len(s.ahead)] = s.now}
<1>1. At(c) \in I
  <2>1. At(c).ahead = <<>> /\ At(c).now = c
    BY DEF At
  <2> QED
    BY <2>1, WayTypes, Coming!FoldNone
<1>2. ASSUME NEW s \in I, NEW m \in Tellings PROVE TakeOver(s, m) \in I
  <2>1. CASE ~Carries(m)
    BY <2>1, WayStep
  <2>2. CASE Carries(m)
    <3> DEFINE y == Taken(s.now, m)
    <3>1. y \in Contents /\ TakeOver(s, m) = [now |-> y, ahead |-> Append(s.ahead, y)] /\ TakeOver(s, m) \in Ways
      BY <2>2, WayStep
    <3> HIDE DEF y
    <3>2. s.ahead \in Seq(Contents)
      BY DEF Ways
    <3>3. Append(s.ahead, y) # <<>> /\ Append(s.ahead, y)[Len(Append(s.ahead, y))] = y
      BY <3>1, <3>2
    <3> QED
      BY <3>1, <3>3
  <2> QED
    BY <2>1, <2>2
<1> HIDE DEF I
<1>3. Coming!Fold(At(c), q) \in I
  BY <1>1, <1>2, Coming!FoldKeeps
<1>4. w \in I
  BY <1>3, ComingIs
<1> QED
  BY <1>4 DEF I

(* What says nothing of the contents changes nothing.                      *)
LEMMA WayQuiet ==
    ASSUME NEW s, NEW S, NEW q \in Seq(S), \A i \in DOMAIN q : ~Carries(q[i])
    PROVE  FoldLeft(TakeOver, s, q) = s
<1> DEFINE Quiet == {m \in S : ~Carries(m)}
<1>1. q \in Seq(Quiet)
  OBVIOUS
<1>2. \A b \in {s}, m \in Quiet : TakeOver(b, m) \in {s}
  BY DEF TakeOver
<1> HIDE DEF Quiet
<1>3. Coming!Fold(s, q) \in {s}
  BY <1>1, <1>2, Coming!FoldKeeps
<1> QED
  BY <1>3, ComingIs

(* run takes over what was set aside as the updates on their way say.      *)
LEMMA RunTakes ==
    ASSUME NEW c \in Contents, NEW n \in Nat, NEW q \in Seq(Notifications)
    PROVE  FoldLeft(Processed, [idl |-> c, seqno |-> n], q).idl = FoldLeft(TakeOver, At(c), q).now
<1> DEFINE b == [idl |-> c, seqno |-> n]
           D == {k \in Nat : \A t \in Seq(Notifications) : Len(t) = k =>
                    Popping!Fold(b, t).idl = Coming!Fold(At(c), t).now}
<1>0. Notifications \subseteq Tellings /\ b \in [idl : Contents, seqno : Nat]
  BY DEF Notifications, Tellings, IsReply
<1>1. 0 \in D
  <2>1. \A t \in Seq(Notifications) : Len(t) = 0 => t = <<>>
    OBVIOUS
  <2>2. Popping!Fold(b, <<>>) = b /\ Coming!Fold(At(c), <<>>) = At(c)
    BY Coming!FoldNone, Popping!FoldNone
  <2> QED
    BY <2>1, <2>2 DEF At
<1>2. ASSUME NEW k \in Nat, k \in D PROVE k + 1 \in D
  <2> SUFFICES ASSUME NEW t \in Seq(Notifications), Len(t) = k + 1
               PROVE  Popping!Fold(b, t).idl = Coming!Fold(At(c), t).now
    OBVIOUS
  <2> DEFINE u == SubSeq(t, 1, k)
             x == t[k + 1]
             w == Coming!Fold(At(c), u)
             v == Popping!Fold(b, u)
  <2>1. u \in Seq(Notifications) /\ x \in Notifications /\ Len(u) = k /\ t = Append(u, x)
    OBVIOUS
  <2>2. v.idl = w.now
    BY <1>2, <2>1
  <2> HIDE DEF u, x, b
  <2>3. Coming!Fold(At(c), t) = TakeOver(w, x) /\ Popping!Fold(b, t) = Processed(v, x)
    BY <2>1, Coming!FoldAppend, Popping!FoldAppend
  <2>4. x.kind = "request"
    BY <2>1 DEF Notifications
  <2> HIDE DEF w, v
  <2>5. Processed(v, x).idl = TakeOver(w, x).now
    BY <2>2, <2>4 DEF Processed, TakeOver, Carries, Taken, Merge
  <2> QED
    BY <2>3, <2>5
<1> HIDE DEF D
<1>3. Nat \subseteq D
  BY <1>1, <1>2, Coming!NatSetInduction
<1> HIDE DEF b
<1>4. Popping!Fold(b, q).idl = Coming!Fold(At(c), q).now
  BY <1>3 DEF D
<1> QED
  BY <1>4, ComingIs, PoppingIs DEF b

-----------------------------------------------------------------------------
(* The steps of the client and the server, as Replica sees them.           *)
Latest == monitored => Way.now = db

Copy == IF idlState = "Monitoring" THEN idl ELSE NoCopy

ViewInv == IInv /\ Latest

LEMMA ViewFacts ==
    ASSUME IInv
    PROVE  /\ pending \in Seq(Tellings) /\ toClient \in Seq(Tellings)
           /\ pending \o toClient \in Seq(Tellings)
           /\ idl \in Contents /\ Here = At(idl) /\ Way \in Ways
           /\ Way = FoldLeft(TakeOver, FoldLeft(TakeOver, At(idl), pending), toClient)
           /\ Behind = Way.ahead
<1>1. ConnType /\ IdlType
  BY TypeParts DEF IInv
<1>2. pending \in Seq(Tellings)
  <2>1. \A m \in Notifications : m \in Tellings
    BY DEF Notifications, Tellings, IsReply
  <2> QED
    BY <1>1, <2>1 DEF ConnType
<1>3. toClient \in Seq(Tellings)
  <2>1. \A i \in 1 .. Len(toClient) : toClient[i] \in Tellings
    BY <1>1 DEF ConnType, IInv, LinkInv, ReplyTells, Tellings
  <2> QED
    BY <1>1, <2>1 DEF ConnType
<1>4. pending \o toClient \in Seq(Tellings)
  BY <1>2, <1>3
<1>5. idl \in Contents /\ Here = At(idl)
  BY <1>1 DEF IdlType, Here, At
<1>6. Way \in Ways
  BY <1>4, <1>5, WayTypes DEF Way
<1>7. Way = FoldLeft(TakeOver, FoldLeft(TakeOver, At(idl), pending), toClient)
  BY <1>2, <1>3, <1>5, Coming!FoldConcat, ComingIs DEF Way
<1> QED
  BY <1>2, <1>3, <1>4, <1>5, <1>6, <1>7 DEF Behind, Way

(* Nothing the replica knows of.                                           *)
LEMMA SeesNothing ==
    ASSUME ViewInv, IInv', UNCHANGED <<db, idl, monitored>>, Way' = Way,
           idlState' = "Monitoring" <=> idlState = "Monitoring"
    PROVE  Latest' /\ [R!Next]_(R!rvars)
<1>1. UNCHANGED Behind
  BY DEF Behind, Way
<1>2. Latest'
  BY DEF ViewInv, Latest
<1> QED
  BY <1>1, <1>2 DEF R!rvars

(* The client reads a message that says nothing of the contents, and may   *)
(* set it aside.                                                           *)
LEMMA SeesRead ==
    ASSUME ViewInv, IInv', UNCHANGED <<db, idl, monitored>>, TakeNext,
           \/ UNCHANGED pending /\ ~Carries(Got)
           \/ pending' = Append(pending, Got),
           idlState' = "Monitoring" <=> idlState = "Monitoring"
    PROVE  Latest' /\ [R!Next]_(R!rvars)
<1>1. /\ toClient \in Seq(Tellings) /\ toClient # <<>> /\ toClient' = Tail(toClient) /\ Got = Head(toClient)
      /\ pending \in Seq(Tellings)
  BY ViewFacts DEF ViewInv, TakeNext, Readable, Got
<1>2. CASE UNCHANGED pending /\ ~Carries(Got)
  <2> DEFINE w == FoldLeft(TakeOver, At(idl), pending)
  <2>1. FoldLeft(TakeOver, w, toClient) = FoldLeft(TakeOver, TakeOver(w, Got), toClient')
    BY <1>1, Coming!FoldFirst, ComingIs
  <2>2. TakeOver(w, Got) = w
    BY <1>2 DEF TakeOver
  <2>3. Way = FoldLeft(TakeOver, w, toClient) /\ Way' = FoldLeft(TakeOver, w, toClient')
    <3>1. (IInv => Way = FoldLeft(TakeOver, FoldLeft(TakeOver, At(idl), pending), toClient))'
      BY ViewFacts, PTL
    <3>2. Way' = FoldLeft(TakeOver, FoldLeft(TakeOver, At(idl'), pending'), toClient')
      BY <3>1
    <3> QED
      BY <1>2, <3>2, ViewFacts DEF ViewInv
  <2> QED
    BY <2>1, <2>2, <2>3, SeesNothing
<1>3. CASE pending' = Append(pending, Got)
  <2>1. pending' \o toClient' = pending \o toClient
    BY <1>1, <1>3
  <2>2. UNCHANGED Way
    BY <2>1 DEF Way, Here
  <2> QED
    BY <2>2, SeesNothing
<1> QED
  BY <1>2, <1>3

(* The replica takes over what the message in front says.                  *)
LEMMA SeesUpdate ==
    ASSUME ViewInv, IInv', UNCHANGED <<db, monitored>>, idlState' = "Monitoring",
           NEW q \in Seq(Tellings), q # <<>>, Way = FoldLeft(TakeOver, At(idl), q),
           NEW p, p = Tail(q), Way' = FoldLeft(TakeOver, At(idl'), p),
           Carries(Head(q)), idl' = Taken(idl, Head(q))
    PROVE  Latest' /\ [R!Next]_(R!rvars)
<1>1. /\ p \in Seq(Tellings) /\ idl \in Contents /\ Head(q) \in Tellings /\ idl' \in Contents
  <2>1. (IInv => idl \in Contents)'
    BY ViewFacts, PTL
  <2> QED
    BY <2>1, ViewFacts DEF ViewInv
<1> DEFINE v == FoldLeft(TakeOver, At(idl'), p)
<1>2. Way' = v /\ v \in Ways
  BY <1>1, WayTypes
<1>3. TakeOver(At(idl), Head(q)) = [now |-> idl', ahead |-> <<idl'>>]
  <2>1. At(idl).now = idl /\ At(idl).ahead = <<>>
    BY DEF At
  <2>2. TakeOver(At(idl), Head(q)) = [now |-> idl', ahead |-> Append(<<>>, idl')]
    BY <2>1 DEF TakeOver
  <2>3. \A x : Append(<<>>, x) = <<x>>
    OBVIOUS
  <2> QED
    BY <2>2, <2>3
<1>4. Way = FoldLeft(TakeOver, [now |-> idl', ahead |-> <<idl'>>], p)
  <2>1. FoldLeft(TakeOver, At(idl), q) = FoldLeft(TakeOver, TakeOver(At(idl), Head(q)), p)
    BY Coming!FoldFirst, ComingIs
  <2> QED
    BY <1>3, <2>1
<1>5. Way = [now |-> v.now, ahead |-> <<idl'>> \o v.ahead]
  <2>1. <<idl'>> \in Seq(Contents)
    BY <1>1
  <2> QED
    BY <1>1, <1>4, <2>1, WayShift
<1> HIDE DEF v
<1>6. v.ahead \in Seq(Contents) /\ Way.ahead = <<idl'>> \o v.ahead /\ Way.now = v.now
  BY <1>2, <1>5 DEF Ways
<1>7. /\ Behind = <<idl'>> \o v.ahead /\ Behind' = v.ahead
  BY <1>2, <1>6 DEF Behind, Way
<1>8. /\ 1 \in 1 .. Len(Behind) /\ Behind[1] = idl'
      /\ SubSeq(Behind, 1 + 1, Len(Behind)) = Behind'
  BY <1>1, <1>6, <1>7
<1>9. Latest'
  BY <1>2, <1>6 DEF ViewInv, Latest
<1>10. R!CatchUp(1)
  BY <1>8 DEF R!CatchUp
<1> QED
  BY <1>8, <1>9, <1>10 DEF R!Next

(* run takes over everything that was set aside.                           *)
LEMMA SeesRun ==
    ASSUME ViewInv, IInv', Run
    PROVE  Latest' /\ [R!Next]_(R!rvars)
<1> DEFINE w == FoldLeft(TakeOver, At(idl), pending)
           v == FoldLeft(TakeOver, At(idl'), toClient)
           a == w.ahead
<1>1. /\ UNCHANGED <<toClient, idlState, db, monitored>> /\ pending' = <<>>
      /\ idlState = "Monitoring"
  BY DEF Run, CanCall, server, ViewInv, IInv, CallInv, ConnectedShape
<1>2. /\ pending \in Seq(Tellings) /\ toClient \in Seq(Tellings) /\ idl \in Contents
      /\ idl' \in Contents /\ Way = FoldLeft(TakeOver, w, toClient)
  <2>1. (IInv => idl \in Contents)'
    BY ViewFacts, PTL
  <2> QED
    BY <2>1, ViewFacts DEF ViewInv
<1>3. idl' = w.now
  <2>1. seqno \in Nat /\ pending \in Seq(Notifications)
    BY TypeParts DEF ViewInv, IInv, IdlType, ConnType
  <2> QED
    BY <1>2, <2>1, RunTakes DEF Run
<1>4. Way' = v /\ v \in Ways
  <2>1. pending' \o toClient' = toClient
    BY <1>1, <1>2
  <2>2. Here' = At(idl')
    BY DEF Here, At
  <2> QED
    BY <1>2, <2>1, <2>2, WayTypes DEF Way
<1>5. w \in Ways /\ (IF a = <<>> THEN w.now = idl ELSE a[Len(a)] = w.now)
  BY <1>2, WayTypes, WayEnds
<1>6. a \in Seq(Contents) /\ w = [now |-> idl', ahead |-> a]
  <2> HIDE DEF w
  <2> QED
    BY <1>3, <1>5 DEF Ways
<1> HIDE DEF w, a
<1>7. Way = [now |-> v.now, ahead |-> a \o v.ahead]
  BY <1>2, <1>6, WayShift
<1> HIDE DEF v
<1>8. v.ahead \in Seq(Contents) /\ Behind = a \o v.ahead /\ Behind' = v.ahead /\ Way.now = v.now
  BY <1>4, <1>7 DEF Ways, Behind, Way
<1>9. Latest'
  BY <1>1, <1>4, <1>8 DEF ViewInv, Latest
<1>10. CASE a = <<>>
  <2>1. idl' = idl /\ Behind' = Behind
    BY <1>3, <1>5, <1>8, <1>10
  <2> QED
    BY <1>1, <1>9, <2>1 DEF R!rvars
<1>11. CASE a # <<>>
  <2>1. /\ Len(a) \in 1 .. Len(Behind) /\ Behind[Len(a)] = idl'
        /\ SubSeq(Behind, Len(a) + 1, Len(Behind)) = Behind'
    <3>1. a[Len(a)] = idl'
      BY <1>3, <1>5, <1>11
    <3>2. PICK b \in Seq(Contents), r \in Seq(Contents) : b = a /\ r = v.ahead
      BY <1>6, <1>8
    <3>3. /\ Len(b) \in 1 .. Len(b \o r) /\ (b \o r)[Len(b)] = b[Len(b)]
          /\ SubSeq(b \o r, Len(b) + 1, Len(b \o r)) = r
      BY <1>11, <3>2
    <3> QED
      BY <1>8, <3>1, <3>2, <3>3
  <2>2. R!CatchUp(Len(a))
    BY <1>1, <2>1 DEF R!CatchUp
  <2> QED
    BY <1>9, <2>1, <2>2 DEF R!Next
<1> QED
  BY <1>10, <1>11

(* connect takes over what the monitor's reply says.                       *)
LEMMA SeesReply ==
    ASSUME ViewInv, IInv', RecvMonitorReply, Got.res = "Ok"
    PROVE  Latest' /\ [R!Next]_(R!rvars)
<1>1. /\ TakeNext /\ Got.kind = "response" /\ Got.id = op.id /\ op.pc = "monitor"
      /\ ProcessUpdate(Got.body) /\ idlState' = "Monitoring" /\ UNCHANGED <<pending, db, monitored>>
  BY TakeFacts DEF RecvMonitorReply, server
<1>2. ~connected /\ op.id = 2
  BY <1>1 DEF ViewInv, IInv, CallInv, CallShape, Idle
<1>3. /\ pending \in Seq(Tellings) /\ toClient \in Seq(Tellings) /\ idl \in Contents
      /\ toClient # <<>> /\ toClient' = Tail(toClient) /\ Got = Head(toClient)
      /\ Way = FoldLeft(TakeOver, FoldLeft(TakeOver, At(idl), pending), toClient)
      /\ Way' = FoldLeft(TakeOver, FoldLeft(TakeOver, At(idl'), pending), toClient')
  <2>1. (IInv => Way = FoldLeft(TakeOver, FoldLeft(TakeOver, At(idl), pending), toClient))'
    BY ViewFacts, PTL
  <2> QED
    BY <1>1, <2>1, ViewFacts DEF ViewInv, TakeNext, Readable, Got
<1>4. \A i \in DOMAIN pending : ~Carries(pending[i])
  <2>1. ~SetAside /\ \A i \in DOMAIN pending : pending[i].kind = "request"
    BY <1>2, TypeParts DEF ViewInv, IInv, LinkInv, Unconnected, ConnType, Notifications
  <2> QED
    BY <2>1 DEF SetAside, Carries, IsUpdate
<1>5. \A c : FoldLeft(TakeOver, At(c), pending) = At(c)
  BY <1>3, <1>4, WayQuiet
<1>6. Carries(Got) /\ Got.body \in Contents
  BY <1>1, <1>2, <1>3 DEF Carries, Tellings, IsReply
<1>7. idl' = Taken(idl, Got)
  <2>1. Got.body \in Changes
    BY <1>6, SmallChanges
  <2>2. With(idl, Got.body) = Got.body
    BY <1>3, <1>6, <2>1, WithFacts
  <2> QED
    BY <1>1, <2>2 DEF ProcessUpdate, Merge, Taken
<1>8. Way = FoldLeft(TakeOver, At(idl), toClient)
  BY <1>3, <1>5
<1>9. Way' = FoldLeft(TakeOver, At(idl'), toClient')
  BY <1>3, <1>5
<1>10. PICK q \in Seq(Tellings) : q = toClient
  BY <1>3
<1>13. PICK p : p = toClient'
  OBVIOUS
<1>11. /\ q # <<>> /\ p = Tail(q) /\ Head(q) = Got
       /\ Way = FoldLeft(TakeOver, At(idl), q) /\ Way' = FoldLeft(TakeOver, At(idl'), p)
  BY <1>3, <1>8, <1>9, <1>10, <1>13
<1>12. UNCHANGED <<db, monitored>> /\ idlState' = "Monitoring"
  BY <1>1
<1> QED
  BY <1>6, <1>7, <1>11, <1>12, SeesUpdate

(* The server says something, and the replica knows nothing of it, ...     *)
LEMMA SaidAfter ==
    ASSUME IInv, UNCHANGED <<pending, client>>, NEW ms \in Seq(FromServer), Tell(ms)
    PROVE  /\ Way' = FoldLeft(TakeOver, Way, ms)
           /\ UNCHANGED <<idl, idlState>>
<1>1. UNCHANGED <<idl, idlState, Here>>
  BY DEF client, Here
<1>2. pending \o toClient \in Seq(FromServer) /\ pending' \o toClient' = (pending \o toClient) \o ms
  <2>1. toClient \in Seq(FromServer) /\ pending \in Seq(FromServer)
    BY TypeParts, MessageFields DEF IInv, ConnType
  <2> QED
    BY <2>1 DEF Tell
<1>3. Way' = FoldLeft(TakeOver, Here, (pending \o toClient) \o ms)
  BY <1>1, <1>2 DEF Way
<1>4. PICK q \in Seq(FromServer) : q = pending \o toClient
  BY <1>2
<1>5. Coming!Fold(Here, q \o ms) = Coming!Fold(Coming!Fold(Here, q), ms)
  BY Coming!FoldConcat
<1>6. FoldLeft(TakeOver, Here, q \o ms) = FoldLeft(TakeOver, FoldLeft(TakeOver, Here, q), ms)
  BY <1>5, ComingIs
<1> QED
  BY <1>1, <1>3, <1>4, <1>6 DEF Way

(* ... or the contents have changed, and it tells what has changed.        *)
LEMMA SeesChange ==
    ASSUME ViewInv, UNCHANGED <<idl, idlState, monitored>>, NEW d \in Changes, db' = With(db, d),
           Way' = IF monitored /\ d # NoChange THEN TakeOver(Way, Request("update", 0, d)) ELSE Way
    PROVE  Latest' /\ [R!Next]_(R!rvars)
<1>1. Way \in Ways /\ db \in Contents /\ db' \in Contents /\ With(db, NoChange) = db
  BY ViewFacts, TypeParts, WithFacts, SmallChanges DEF ViewInv, IInv, ServerType
<1>2. Behind = Way.ahead /\ Behind' = Way'.ahead
  BY DEF Behind, Way
<1>3. CASE ~monitored \/ d = NoChange
  <2>1. Way' = Way /\ UNCHANGED Behind
    BY <1>2, <1>3
  <2>2. Latest'
    BY <1>1, <1>3, <2>1 DEF ViewInv, Latest
  <2>3. CASE monitored
    BY <1>1, <1>3, <2>1, <2>2, <2>3 DEF R!rvars
  <2>4. CASE ~monitored
    <3>1. R!Commit(db')
      BY <2>1, <2>4 DEF R!Commit
    <3> QED
      BY <1>1, <2>2, <3>1 DEF R!Next
  <2> QED
    BY <2>3, <2>4
<1>4. CASE monitored /\ d # NoChange
  <2> DEFINE m == Request("update", 0, d)
  <2>1. m \in Tellings /\ Carries(m) /\ Taken(Way.now, m) = db'
    <3>1. m \in FromServer /\ m.kind = "request" /\ m.method = "update" /\ m.body = d
      BY MessageTypes DEF Request
    <3>2. Way.now = db
      BY <1>4 DEF ViewInv, Latest
    <3> HIDE DEF m
    <3> QED
      BY <3>1, <3>2 DEF Tellings, Carries, IsReply, Taken
  <2> HIDE DEF m
  <2>2. Way' = [now |-> db', ahead |-> Append(Way.ahead, db')]
    BY <1>1, <1>4, <2>1, WayStep DEF m
  <2>3. Latest' /\ Behind' = Append(Behind, db')
    BY <1>2, <2>2 DEF Latest
  <2>4. R!Commit(db')
    BY <1>4, <2>3 DEF R!Commit
  <2> QED
    BY <1>1, <2>3, <2>4 DEF R!Next
<1> QED
  BY <1>3, <1>4

(* ... or the watch has ended, and what was on its way with it.            *)
LEMMA SeesEnd ==
    ASSUME UNCHANGED <<db, idl, idlState>>, monitored' = FALSE,
           NEW n \in 0 .. Len(Behind), Behind' = SubSeq(Behind, 1, n)
    PROVE  Latest' /\ [R!Next]_(R!rvars)
<1>1. Latest'
  BY DEF Latest
<1>2. R!Unwatch
  BY DEF R!Unwatch
<1> QED
  BY <1>1, <1>2 DEF R!Next

LEMMA SaysChange ==
    ASSUME NEW s, NEW d
    PROVE  FoldLeft(TakeOver, s, Notification(d)) =
             IF monitored /\ d # NoChange THEN TakeOver(s, Request("update", 0, d)) ELSE s
<1>1. \A m : FoldLeft(TakeOver, s, <<m>>) = TakeOver(s, m)
  BY Coming!FoldOne, ComingIs
<1>2. FoldLeft(TakeOver, s, <<>>) = s
  BY Coming!FoldNone, ComingIs
<1> QED
  BY <1>1, <1>2 DEF Notification

(* Every step of the server and the other clients.                         *)
LEMMA ViewServer ==
    ASSUME ViewInv, IInv', ServerStep \/ ServerEcho \/ Close \/ \E d \in Changes : OtherClient(d)
    PROVE  Latest' /\ [R!Next]_(R!rvars)
<1>0. /\ ConnType /\ ServerType /\ CallInv /\ LinkInv /\ IInv /\ NoChange \in Changes
      /\ db \in Contents
  BY TypeParts, SmallChanges DEF ViewInv, IInv, ServerType
<1>s. ASSUME UNCHANGED <<db, monitored, idl, idlState>>, Way' = Way
      PROVE  Latest' /\ [R!Next]_(R!rvars)
  BY <1>s, SeesNothing
<1>q. ASSUME UNCHANGED <<pending, client>>, NEW m \in FromServer, ~Carries(m), Tell(<<m>>)
      PROVE  Way' = Way /\ UNCHANGED <<idl, idlState>>
  <2>1. <<m>> \in Seq(FromServer) /\ \A i \in DOMAIN <<m>> : ~Carries(<<m>>[i])
    BY <1>q
  <2> DEFINE ms == <<m>>
  <2>2. ms \in Seq(FromServer) /\ Tell(ms) /\ \A i \in DOMAIN ms : ~Carries(ms[i])
    BY <1>q, <2>1
  <2> HIDE DEF ms
  <2>3. Way' = FoldLeft(TakeOver, Way, ms) /\ UNCHANGED <<idl, idlState>>
    BY <1>0, <1>q, <2>2, SaidAfter
  <2>4. FoldLeft(TakeOver, Way, ms) = Way
    BY <2>2, WayQuiet
  <2> QED
    BY <2>3, <2>4
<1>a. ASSUME NEW t \in {"get_schema", "list_dbs", "monitor_cancel", "transact"}, Serve(t),
             NEW r \in {"Ok", "Failed", "Rpc"}
      PROVE  /\ UNCHANGED <<pending, client>> /\ Answer(r, NoChange) \in FromServer
             /\ ~Carries(Answer(r, NoChange)) /\ Head(toServer).body \in Changes
  <2>1. /\ UNCHANGED <<pending, client>> /\ toServer # <<>>
        /\ Head(toServer).kind = "request" /\ ~IsMonitor(Head(toServer))
    BY <1>a DEF Serve, IsMonitor
  <2>2. Head(toServer).id # 2
    BY <1>0, <2>1, SayFacts
  <2>3. Head(toServer) \in FromClient
    BY <1>0, <2>1 DEF ConnType
  <2>4. Answer(r, NoChange) \in FromServer
    BY <1>0, <2>3, MessageFields, MessageTypes DEF Answer
  <2>5. Answer(r, NoChange).kind = "response" /\ Answer(r, NoChange).id = Head(toServer).id
    BY DEF Answer, Response
  <2> QED
    BY <2>1, <2>2, <2>3, <2>4, <2>5, MessageFields DEF Carries
<1>1. CASE ServerSimple
  <2>1. PICK t \in {"get_schema", "list_dbs"}, r \in {"Ok", "Rpc"} : Serve(t) /\ Tell(<<Answer(r, NoChange)>>)
    BY <1>1 DEF ServerSimple
  <2>2. Way' = Way /\ UNCHANGED <<idl, idlState>>
    BY <1>a, <1>q, <2>1
  <2> QED
    BY <1>1, <1>s, <2>2 DEF ServerSimple
<1>2. CASE ServerMonitor
  <2>1. /\ UNCHANGED <<pending, client, db, idl, idlState>> /\ Asked /\ Head(toServer).id = 2
    BY <1>0, <1>2, LinkWatch DEF ServerMonitor, Serve, client
  <2>2. ~connected /\ ~monitored /\ ~Replied /\ ~Updated /\ ~SetAside
    BY <1>0, <2>1 DEF LinkInv, Unwatched, Unconnected
  <2>3. db \in Changes /\ Answer("Ok", db) \in FromServer /\ Answer("Rpc", NoChange) \in FromServer
    BY <1>0, <2>1, SmallChanges, MessageTypes DEF Answer
  <2>4. CASE Tell(<<Answer("Rpc", NoChange)>>) /\ UNCHANGED monitored
    <3>1. ~Carries(Answer("Rpc", NoChange))
      BY DEF Carries, Answer, Response
    <3> QED
      BY <1>q, <1>s, <2>1, <2>3, <2>4, <3>1
  <2>5. CASE Tell(<<Answer("Ok", db)>>) /\ monitored' = TRUE
    <3> DEFINE q == pending \o toClient
    <3>1. /\ q \in Seq(Tellings) /\ pending \in Seq(Tellings) /\ toClient \in Seq(Tellings)
          /\ Way = FoldLeft(TakeOver, At(idl), q)
      BY <1>0, ViewFacts DEF Way
    <3>2. /\ \A i \in DOMAIN pending : ~Carries(pending[i])
          /\ \A i \in DOMAIN toClient : ~Carries(toClient[i])
      <4>1. \A i \in DOMAIN pending : pending[i].kind = "request"
        BY <1>0 DEF ConnType, Notifications
      <4> QED
        BY <2>2, <4>1 DEF SetAside, Replied, Updated, IsReply, IsUpdate, Carries
    <3>3. Way = At(idl)
      <4>1. \A i \in DOMAIN q : ~Carries(q[i])
        BY <3>1, <3>2, ConcatPlaces
      <4> HIDE DEF q
      <4> QED
        BY <3>1, <4>1, WayQuiet
    <3> DEFINE m == Answer("Ok", db)
    <3>4. m.kind = "response" /\ m.id = 2 /\ m.res = "Ok" /\ m.body = db /\ m \in FromServer
      BY <2>1, <2>3 DEF Answer, Response
    <3> HIDE DEF m
    <3>5. Way' = FoldLeft(TakeOver, At(idl), <<m>>)
      <4>1. <<m>> \in Seq(FromServer)
        BY <3>4
      <4> QED
        BY <1>0, <2>1, <2>5, <3>3, <4>1, SaidAfter DEF m
    <3>6. FoldLeft(TakeOver, At(idl), <<m>>) = TakeOver(At(idl), m)
      BY Coming!FoldOne, ComingIs
    <3>7. TakeOver(At(idl), m) = [now |-> db, ahead |-> <<db>>]
      <4>1. Carries(m) /\ \A c : Taken(c, m) = db
        BY <3>4 DEF Carries, Taken
      <4>2. At(idl).ahead = <<>> /\ Append(<<>>, db) = <<db>>
        BY DEF At
      <4> QED
        BY <4>1, <4>2 DEF TakeOver
    <3>8. Way'.now = db /\ Behind' = <<db>>
      BY <3>5, <3>6, <3>7 DEF Behind, Way
    <3>9. Latest'
      BY <2>1, <3>8 DEF Latest
    <3>10. idlState # "Monitoring"
      BY <1>0, <2>2 DEF CallInv, ConnectedShape
    <3>11. R!Watch
      BY <2>1, <2>2, <2>5, <3>8, <3>10 DEF R!Watch
    <3> QED
      BY <3>9, <3>11 DEF R!Next
  <2> QED
    BY <1>2, <2>4, <2>5 DEF ServerMonitor
<1>3. CASE ServerCancel
  <2>1. Serve("monitor_cancel") /\ Tell(<<Answer("Ok", NoChange)>>) /\ monitored' = FALSE /\ UNCHANGED db
    BY <1>3 DEF ServerCancel
  <2>2. Way' = Way /\ UNCHANGED <<idl, idlState>>
    BY <1>a, <1>q, <2>1
  <2>3. /\ Behind' = SubSeq(Behind, 1, Len(Behind)) /\ Len(Behind) \in 0 .. Len(Behind)
    <3>1. Behind \in Seq(Contents) /\ Behind' = Behind
      BY <1>0, <2>2, ViewFacts DEF Behind, Way, Ways
    <3> QED
      BY <3>1
  <2> QED
    BY <2>1, <2>2, <2>3, SeesEnd
<1>4. CASE ServerTransact
  <2>1. Serve("transact") /\ UNCHANGED monitored
    BY <1>4 DEF ServerTransact
  <2>2. PICK r \in {"Ok", "Failed", "Rpc"} :
            LET d == IF r = "Ok" THEN Effect(db, Head(toServer).body) ELSE NoChange
            IN  /\ db' = With(db, d)
                /\ \/ Tell(Notification(d) \o <<Answer(r, NoChange)>>)
                   \/ Tell(<<Answer(r, NoChange)>> \o Notification(d))
    BY <1>4 DEF ServerTransact
  <2>3. /\ UNCHANGED <<pending, client>> /\ Answer(r, NoChange) \in FromServer
        /\ ~Carries(Answer(r, NoChange)) /\ Head(toServer).body \in Changes
    BY <1>a, <2>1
  <2>4. PICK d \in Changes :
            /\ db' = With(db, d)
            /\ \/ Tell(Notification(d) \o <<Answer(r, NoChange)>>)
               \/ Tell(<<Answer(r, NoChange)>> \o Notification(d))
    <3>1. Effect(db, Head(toServer).body) \in Changes
      BY <1>0, <2>3, WithFacts
    <3> QED
      BY <1>0, <2>2, <3>1
  <2>5. PICK say \in Seq(FromServer), answer \in Seq(FromServer) : \E ms :
            /\ say = Notification(d) /\ \A i \in DOMAIN answer : ~Carries(answer[i])
            /\ Tell(ms) /\ (ms = say \o answer \/ ms = answer \o say)
    <3>1. Notification(d) \in Seq(FromServer)
      BY NotificationType
    <3>2. <<Answer(r, NoChange)>> \in Seq(FromServer)
          /\ \A i \in DOMAIN <<Answer(r, NoChange)>> : ~Carries(<<Answer(r, NoChange)>>[i])
      BY <2>3
    <3> QED
      BY <2>4, <3>1, <3>2, Zenon
  <2>10. PICK ms :
            /\ say = Notification(d) /\ \A i \in DOMAIN answer : ~Carries(answer[i])
            /\ Tell(ms) /\ (ms = say \o answer \/ ms = answer \o say)
    BY <2>5
  <2>6. ms \in Seq(FromServer)
    <3>1. \A p, q \in Seq(FromServer) : p \o q \in Seq(FromServer)
      OBVIOUS
    <3> QED
      BY <2>10, <3>1
  <2>7. FoldLeft(TakeOver, Way, ms) = FoldLeft(TakeOver, Way, say)
    <3>1. \A s : FoldLeft(TakeOver, s, answer) = s
      BY <2>10, WayQuiet
    <3>2. \A p, q \in Seq(FromServer) : \A s :
             FoldLeft(TakeOver, s, p \o q) = FoldLeft(TakeOver, FoldLeft(TakeOver, s, p), q)
      BY Coming!FoldConcat, ComingIs
    <3>3. CASE ms = say \o answer
      BY <3>1, <3>2, <3>3
    <3>4. CASE ms = answer \o say
      BY <3>1, <3>2, <3>4
    <3> QED
      BY <2>10, <3>3, <3>4
  <2>8. Way' = FoldLeft(TakeOver, Way, say) /\ UNCHANGED <<idl, idlState>>
    BY <1>0, <2>3, <2>10, <2>6, <2>7, SaidAfter
  <2>9. Way' = IF monitored /\ d # NoChange THEN TakeOver(Way, Request("update", 0, d)) ELSE Way
    BY <2>10, <2>8, SaysChange
  <2> QED
    BY <2>1, <2>4, <2>8, <2>9, SeesChange
<1>5. CASE ServerEchoReply
  <2>1. UNCHANGED <<db, monitored, idl, idlState, pending, toClient>>
    BY <1>5 DEF ServerEchoReply, client
  <2>2. Way' = Way
    BY <2>1 DEF Way, Here
  <2> QED
    BY <1>s, <2>1, <2>2
<1>6. CASE ServerEcho
  <2>1. Tell(<<Request("echo", echoes', NoChange)>>) /\ UNCHANGED <<pending, client, db, monitored>>
    BY <1>6 DEF ServerEcho
  <2>2. Request("echo", echoes', NoChange) \in FromServer /\ ~Carries(Request("echo", echoes', NoChange))
    <3>1. echoes' \in Nat
      BY <1>0, <1>6 DEF ServerEcho, ServerType
    <3>2. ~Carries(Request("echo", echoes', NoChange))
      BY DEF Carries, Request
    <3> QED
      BY <1>0, <3>1, <3>2, MessageTypes
  <2>3. Way' = Way /\ UNCHANGED <<idl, idlState>>
    BY <1>q, <2>1, <2>2
  <2> QED
    BY <1>s, <2>1, <2>3
<1>7. ASSUME NEW d \in Changes, OtherClient(d) PROVE Latest' /\ [R!Next]_(R!rvars)
  <2>1. /\ Effect(db, d) \in Changes /\ db' = With(db, Effect(db, d))
        /\ Tell(Notification(Effect(db, d))) /\ UNCHANGED <<pending, client, monitored>>
    BY <1>0, <1>7, WithFacts DEF OtherClient
  <2>2. Notification(Effect(db, d)) \in Seq(FromServer)
    BY <2>1, NotificationType
  <2>3. Way' = FoldLeft(TakeOver, Way, Notification(Effect(db, d))) /\ UNCHANGED <<idl, idlState>>
    BY <1>0, <2>1, <2>2, SaidAfter
  <2>4. Way' = IF monitored /\ Effect(db, d) # NoChange
               THEN TakeOver(Way, Request("update", 0, Effect(db, d))) ELSE Way
    BY <2>3, SaysChange
  <2> QED
    BY <2>1, <2>3, <2>4, SeesChange
<1>8. CASE Close
  <2>1. PICK n \in 0 .. Len(toClient) : toClient' = SubSeq(toClient, 1, n)
    BY <1>8 DEF Close
  <2>2. UNCHANGED <<pending, db, idl, idlState>> /\ monitored' = FALSE
    BY <1>8 DEF Close, client
  <2>3. PICK p \in Seq(Tellings), rest \in Seq(Tellings) :
            pending \o toClient = p \o rest /\ pending' \o toClient' = p
    <3>1. pending \in Seq(Tellings) /\ toClient \in Seq(Tellings)
      BY <1>0, ViewFacts
    <3>2. PICK u \in Seq(Tellings), r \in Seq(Tellings) : u = toClient' /\ toClient = u \o r
      <4>1. PICK q \in Seq(Tellings) : q = toClient
        BY <3>1
      <4>2. n \in 0 .. Len(q)
        BY <4>1
      <4>3. SubSeq(q, 1, n) \in Seq(Tellings) /\ \E r \in Seq(Tellings) : q = SubSeq(q, 1, n) \o r
        BY <4>2, PrefixRest
      <4> QED
        BY <2>1, <4>1, <4>3
    <3>3. \A x \in Seq(Tellings) : x \o u \in Seq(Tellings) /\ x \o (u \o r) = (x \o u) \o r
      OBVIOUS
    <3> QED
      BY <2>2, <3>1, <3>2, <3>3, Zenon
  <2>4. /\ Way' = FoldLeft(TakeOver, At(idl), p) /\ Way' \in Ways
        /\ Way = FoldLeft(TakeOver, Way', rest)
    <3>1. Here = At(idl) /\ Here' = At(idl) /\ idl \in Contents
      BY <1>0, <2>2, ViewFacts DEF Here, At
    <3>2. Way' = FoldLeft(TakeOver, At(idl), p) /\ Way = FoldLeft(TakeOver, At(idl), p \o rest)
      BY <2>3, <3>1 DEF Way
    <3>3. FoldLeft(TakeOver, At(idl), p \o rest) = FoldLeft(TakeOver, FoldLeft(TakeOver, At(idl), p), rest)
      BY Coming!FoldConcat, ComingIs
    <3> QED
      BY <3>1, <3>2, <3>3, WayTypes
  <2>5. PICK c \in Contents, a \in Seq(Contents) : Way' = [now |-> c, ahead |-> a]
    BY <2>4 DEF Ways
  <2>6. PICK w \in Ways : Way = [now |-> w.now, ahead |-> a \o w.ahead]
    <3>1. FoldLeft(TakeOver, At(c), rest) \in Ways
      BY WayTypes
    <3>2. Way = [now |-> FoldLeft(TakeOver, At(c), rest).now, ahead |-> a \o FoldLeft(TakeOver, At(c), rest).ahead]
      BY <2>4, <2>5, WayShift
    <3> QED
      BY <3>1, <3>2
  <2>7. Behind = a \o w.ahead /\ Behind' = a /\ w.ahead \in Seq(Contents)
    BY <2>5, <2>6 DEF Behind, Way, Ways
  <2>8. Len(a) \in 0 .. Len(Behind) /\ Behind' = SubSeq(Behind, 1, Len(a))
    <3>1. \A r \in Seq(Contents) : Len(a) \in 0 .. Len(a \o r) /\ a = SubSeq(a \o r, 1, Len(a))
      OBVIOUS
    <3> QED
      BY <2>7, <3>1
  <2> QED
    BY <2>2, <2>8, SeesEnd
<1> QED
  BY <1>1, <1>2, <1>3, <1>4, <1>5, <1>6, <1>7, <1>8 DEF ServerStep

(* Every step of the client and its caller.                                *)
LEMMA ViewClient ==
    ASSUME ViewInv, IInv', Call \/ ClientStep \/ Drop \/ UNCHANGED vars
    PROVE  Latest' /\ [R!Next]_(R!rvars)
<1>0. /\ ConnType /\ CallType /\ ServerType /\ CallInv /\ LinkInv /\ IInv
      /\ Idle.pc = "idle" /\ Idle.kind = "none"
  BY TypeParts DEF ViewInv, IInv, Idle
<1>n. ASSUME UNCHANGED <<db, monitored, idl, pending, toClient>>,
             idlState' = "Monitoring" <=> idlState = "Monitoring"
      PROVE  Latest' /\ [R!Next]_(R!rvars)
  <2>1. Way' = Way
    BY <1>n DEF Way, Here
  <2> QED
    BY <1>n, <2>1, SeesNothing
<1>r. ASSUME UNCHANGED <<db, monitored, idl, pending>>, TakeNext, Got \in FromServer, ~IsReply(Got),
             ~IsUpdate(Got), idlState' = "Monitoring" <=> idlState = "Monitoring"
      PROVE  Latest' /\ [R!Next]_(R!rvars)
  <2>1. ~Carries(Got)
    BY <1>r DEF Carries, IsReply, IsUpdate
  <2> QED
    BY <1>r, <2>1, SeesRead
<1>1. CASE Connect \/ ListDbs \/ CancelMonitor \/ StartMonitor \/ (\E d \in Changes : Commit(d))
  BY <1>1, <1>n, SendFacts DEF Connect, ListDbs, CancelMonitor, StartMonitor, Commit, server
<1>2. CASE Run
  BY <1>2, SeesRun
<1>3. CASE Wait \/ ReturnAtOnce \/ StreamFails \/ Drop
  BY <1>3, <1>n DEF Wait, ReturnAtOnce, StreamFails, Drop, conn, server
<1>4. CASE RecvSchema
  <2>1. /\ TakeNext /\ Got.kind = "response" /\ op.pc = "schema" /\ Got \in FromServer
        /\ UNCHANGED <<db, monitored, idl, pending>>
    BY <1>0, <1>4, TakeFacts, TakeType DEF RecvSchema, server
  <2>2. ~IsReply(Got) /\ ~IsUpdate(Got)
    BY <1>0, <2>1, NotTheReply DEF IsUpdate
  <2>3. idlState' = "Monitoring" <=> idlState = "Monitoring"
    <3>1. ~connected
      BY <1>0, <2>1 DEF CallInv, CallShape
    <3> QED
      BY <1>0, <1>4, <3>1 DEF RecvSchema, CallInv, ConnectedShape
  <2> QED
    BY <1>r, <2>1, <2>2, <2>3
<1>5. CASE RecvMonitorReply
  <2>1. CASE Got.res = "Ok"
    BY <1>5, <2>1, SeesReply
  <2>2. CASE Got.res # "Ok"
    <3>1. /\ TakeNext /\ Got.kind = "response" /\ Got \in FromServer
          /\ UNCHANGED <<db, monitored, idl, pending, idlState>>
      BY <1>0, <1>5, <2>2, TakeFacts, TakeType DEF RecvMonitorReply, server
    <3>2. ~Carries(Got)
      BY <2>2, <3>1 DEF Carries
    <3> QED
      BY <3>1, <3>2, SeesRead
  <2> QED
    BY <2>1, <2>2
<1>6. CASE RecvResponse
  <2>1. /\ TakeNext /\ Got.kind = "response" /\ op.pc = "response" /\ Got \in FromServer
        /\ UNCHANGED <<db, monitored, idl, pending, idlState>>
    BY <1>0, <1>6, TakeFacts, TakeType DEF RecvResponse, server
  <2>2. connected
    BY <1>0, <2>1 DEF CallInv, CallShape
  <2>3. ~IsReply(Got) /\ ~IsUpdate(Got)
    BY <1>0, <2>1, <2>2, NotTheReply DEF IsUpdate
  <2> QED
    BY <1>r, <2>1, <2>3
<1>7. CASE RecvNotification
  <2>1. /\ TakeNext /\ pending' = Append(pending, Got) /\ UNCHANGED <<db, monitored, idl, idlState>>
    BY <1>7 DEF RecvNotification, BufferNotification, client, server
  <2> QED
    BY <2>1, SeesRead
<1>8. CASE RecvUnexpected
  <2>1. /\ TakeNext /\ Got.kind = "response" /\ Got.id # op.id /\ Got \in FromServer
        /\ op.pc \in {"schema", "monitor", "response"}
        /\ UNCHANGED <<db, monitored, idl, pending, idlState>>
    BY <1>0, <1>8, TakeType DEF RecvUnexpected, TakeUnexpected, AwaitsResponse, server
  <2>2. op.pc = "response" => connected
    BY <1>0 DEF CallInv, CallShape
  <2>3. ~IsReply(Got) /\ ~IsUpdate(Got)
    BY <1>0, <2>1, <2>2, NotTheReply DEF IsUpdate
  <2> QED
    BY <1>r, <2>1, <2>3
<1>9. CASE WaitPop
  <2>1. UNCHANGED <<toClient, idlState, db, monitored>> /\ op.pc = "buffered"
    BY <1>9 DEF WaitPop, server
  <2>2. op.kind = "wait" /\ connected /\ idlState = "Monitoring"
    BY <1>0, <2>1 DEF CallInv, CallShape, ConnectedShape
  <2>3. CASE pending = <<>> /\ UNCHANGED <<pending, idl>>
    BY <1>n, <2>1, <2>3
  <2>p. ASSUME Pop
        PROVE  \E q, p \in Seq(Tellings) :
                  /\ q = pending \o toClient /\ p = pending' \o toClient' /\ q # <<>> /\ p = Tail(q)
                  /\ Head(q) = Popped
                  /\ Way = FoldLeft(TakeOver, At(idl), q) /\ Way' = FoldLeft(TakeOver, At(idl'), p)
    <3>1. pending # <<>> /\ pending' = Tail(pending) /\ Popped = Head(pending)
      BY <2>p DEF Pop, Popped
    <3>2. pending \in Seq(Tellings) /\ toClient \in Seq(Tellings)
      BY <1>0, ViewFacts
    <3>3. \A a, b \in Seq(Tellings) : a # <<>> =>
             /\ a \o b \in Seq(Tellings) /\ Tail(a) \o b \in Seq(Tellings) /\ a \o b # <<>>
             /\ Tail(a) \o b = Tail(a \o b) /\ Head(a \o b) = Head(a)
      OBVIOUS
    <3>4. Way = FoldLeft(TakeOver, At(idl), pending \o toClient)
      BY DEF Way, Here, At
    <3>5. Way' = FoldLeft(TakeOver, At(idl'), pending' \o toClient')
      BY DEF Way, Here, At
    <3> QED
      BY <2>1, <3>1, <3>2, <3>3, <3>4, <3>5
  <2>4. CASE Pop /\ Popped.method = "echo" /\ UNCHANGED idl
    <3>1. PICK q, p \in Seq(Tellings) :
              /\ q # <<>> /\ p = Tail(q) /\ Head(q) = Popped
              /\ Way = FoldLeft(TakeOver, At(idl), q) /\ Way' = FoldLeft(TakeOver, At(idl'), p)
      BY <2>4, <2>p
    <3>2. FoldLeft(TakeOver, At(idl), q) = FoldLeft(TakeOver, TakeOver(At(idl), Head(q)), p)
      BY <3>1, Coming!FoldFirst, ComingIs
    <3>3. ~Carries(Popped)
      <4>1. Popped.kind = "request"
        BY <1>0, <2>4, PopType DEF Notifications
      <4> QED
        BY <2>4, <4>1 DEF Carries
    <3>4. TakeOver(At(idl), Head(q)) = At(idl)
      BY <3>1, <3>3 DEF TakeOver
    <3>5. Way' = Way
      BY <2>4, <3>1, <3>2, <3>4
    <3> QED
      BY <2>1, <2>4, <3>5, SeesNothing
  <2>5. CASE Pop /\ Popped.method = "update" /\ ProcessUpdate(Popped.body)
    <3>1. PICK q, p \in Seq(Tellings) :
              /\ q # <<>> /\ p = Tail(q) /\ Head(q) = Popped
              /\ Way = FoldLeft(TakeOver, At(idl), q) /\ Way' = FoldLeft(TakeOver, At(idl'), p)
      BY <2>5, <2>p
    <3>2. Popped.kind = "request"
      BY <1>0, <2>5, PopType DEF Notifications
    <3>3. Carries(Head(q)) /\ idl' = Taken(idl, Head(q))
      BY <2>5, <3>1, <3>2 DEF Carries, Taken, ProcessUpdate, Merge
    <3>4. idlState' = "Monitoring" /\ UNCHANGED <<db, monitored>>
      BY <2>1, <2>2
    <3> QED
      BY <3>1, <3>3, <3>4, SeesUpdate
  <2> QED
    BY <1>9, <2>3, <2>4, <2>5 DEF WaitPop
<1>10. CASE WaitRead
  <2>1. /\ TakeNext /\ Got \in FromServer /\ UNCHANGED <<db, monitored, pending, idlState>> /\ op.pc = "read"
    BY <1>0, <1>10, TakeType DEF WaitRead, server
  <2>2. op.kind = "wait" /\ connected /\ idlState = "Monitoring" /\ pending = <<>>
    BY <1>0, <2>1 DEF CallInv, CallShape, ConnectedShape
  <2>3. ~IsReply(Got)
    BY <1>0, <2>1, <2>2, NotTheReply
  <2>4. CASE ~IsUpdate(Got) /\ UNCHANGED idl
    BY <1>r, <2>1, <2>3, <2>4
  <2>5. CASE Got.kind = "request" /\ Got.method = "update" /\ ProcessUpdate(Got.body)
    <3>1. PICK q, p \in Seq(Tellings) :
              /\ q # <<>> /\ p = Tail(q) /\ Head(q) = Got
              /\ Way = FoldLeft(TakeOver, At(idl), q) /\ Way' = FoldLeft(TakeOver, At(idl'), p)
      <4>1. toClient \in Seq(Tellings) /\ toClient # <<>> /\ toClient' = Tail(toClient) /\ Got = Head(toClient)
        BY <1>0, <2>1, ViewFacts DEF TakeNext, Readable, Got
      <4>2. pending \o toClient = toClient /\ pending' \o toClient' = toClient' /\ toClient' \in Seq(Tellings)
        BY <2>1, <2>2, <4>1
      <4>3. Way = FoldLeft(TakeOver, At(idl), toClient)
        BY <4>2 DEF Way, Here, At
      <4>4. Way' = FoldLeft(TakeOver, At(idl'), toClient')
        BY <4>2 DEF Way, Here, At
      <4> QED
        BY <4>1, <4>2, <4>3, <4>4
    <3>2. Carries(Head(q)) /\ idl' = Taken(idl, Head(q))
      BY <2>5, <3>1 DEF Carries, Taken, ProcessUpdate, Merge
    <3>3. idlState' = "Monitoring" /\ UNCHANGED <<db, monitored>>
      BY <2>1, <2>2
    <3> QED
      BY <3>1, <3>2, <3>3, SeesUpdate
  <2> QED
    BY <1>10, <2>4, <2>5 DEF WaitRead, IsUpdate
<1>11. CASE SendEchoReply
  BY <1>11, <1>n DEF SendEchoReply, server
<1>12. CASE UNCHANGED vars
  BY <1>12, <1>n DEF vars, conn, client, server
<1> QED
  BY <1>1, <1>2, <1>3, <1>4, <1>5, <1>6, <1>7, <1>8, <1>9, <1>10, <1>11, <1>12
     DEF Call, ClientStep, Receive

LEMMA NextView == ViewInv /\ [Next]_vars => ViewInv' /\ [R!Next]_(R!rvars)
<1> SUFFICES ASSUME ViewInv, [Next]_vars PROVE ViewInv' /\ [R!Next]_(R!rvars)
  OBVIOUS
<1>1. IInv'
  BY NextIInv DEF ViewInv
<1>2. Latest' /\ [R!Next]_(R!rvars)
  BY <1>1, ViewClient, ViewServer DEF Next
<1> QED
  BY <1>1, <1>2 DEF ViewInv

LEMMA InitView == Init => ViewInv /\ R!Init
<1> SUFFICES ASSUME Init PROVE ViewInv /\ R!Init
  OBVIOUS
<1>1. pending \o toClient = <<>> /\ db \in Contents /\ monitored = FALSE /\ idlState = "Initial"
  BY DEF Init, ConnInit
<1>2. Way = Here
  BY <1>1, Coming!FoldNone, ComingIs DEF Way
<1>3. Behind = <<>>
  BY <1>2 DEF Behind, Way, Here
<1>4. R!Init
  BY <1>1, <1>3 DEF R!Init
<1> QED
  BY <1>1, <1>4, InitIInv DEF ViewInv, Latest

(* From the monitor reply on the replica goes through the contents the     *)
(* server had, in order, none skipped, repeated or overtaken, whichever of *)
(* commit, run and wait meets the notification and whichever of them is    *)
(* dropped or fails on the way: the client implements Replica.             *)
THEOREM ReplicaImplemented == Spec => ReplicaFollows
BY InitView, NextView, PTL DEF Spec, ReplicaFollows, R!Spec
=============================================================================
