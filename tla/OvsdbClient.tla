---------------------------- MODULE OvsdbClient ----------------------------
(***************************************************************************)
(* The OVSDB client, rovs-ovsdb/src/client.rs, with its in-memory replica, *)
(* rovs-ovsdb/src/idl.rs, over a JSON-RPC connection (Connection), and the *)
(* OVSDB server with its other clients (external).                         *)
(*                                                                         *)
(* A method is a future awaited alone (&mut self) and split at its await   *)
(* points; the caller may drop it while it is pending.  The monitor is of  *)
(* version V1, the default.  A row is a model value or NoRow: every        *)
(* monitored column is in the "new" object of an update, so Row::update,   *)
(* which merges columns, replaces the whole row.                           *)
(***************************************************************************)
EXTENDS Connection, SequencesExt

CONSTANTS
    Rows, Values, NoRow,  \* rows of the database, what a row can hold
    Ops,                  \* the Client methods the caller uses
    Droppable,            \* the methods whose future the caller may drop
    MaxCalls,             \* bound: requests sent (Connection ids used)
    MaxChanges,           \* bound: changes made by other clients of the server
    MaxEchoes,            \* bound: echo requests of the server
    NoCopy                \* stands for "no replica yet" in the refinement

VARIABLES
    op,                   \* the method being awaited
    connected,            \* Client::connect has returned Ok
    idl, idlState, seqno, \* Idl.tables, Idl.state, Idl.change_seqno
    monitorId,            \* Client.monitor_id is Some
    last,                 \* what the last method to end returned
    lost,                 \* history: the echo requests run has dropped
    db, monitored,        \* server: contents, this client has a monitor
    results,              \* server: the answers it gave to transactions
    echoes, answered,     \* server: echo requests sent, ids answered
    changes               \* server: bound used up

client == <<op, connected, idl, idlState, seqno, monitorId, last, lost>>
server == <<db, monitored, results, echoes, answered, changes>>
vars   == <<conn, client, server>>

-----------------------------------------------------------------------------
(* Contents of the database, and changes of some of its rows.              *)
Contents  == [Rows -> Values \union {NoRow}]
Changes   == UNION {[D -> Values \union {NoRow}] : D \in SUBSET Rows}
NoChange  == [r \in {} |-> NoRow]
With(c, d) == [r \in Rows |-> IF r \in DOMAIN d THEN d[r] ELSE c[r]]
(* The rows of d that differ from c, as an update lists them.              *)
Effect(c, d) == [r \in {x \in DOMAIN d : d[x] # c[x]} |-> d[r]]

Methods == {"connect", "commit", "list_dbs", "cancel_monitor", "run", "wait"}
Idle    == [kind |-> "none", pc |-> "idle", id |-> 0, echo |-> 0]

ASSUME ConstantsAssumption ==
    /\ NoRow \notin Values /\ NoCopy \notin Contents
    /\ Ops \subseteq Methods /\ Droppable \subseteq Methods
    /\ MaxCalls \in Nat /\ MaxChanges \in Nat /\ MaxEchoes \in Nat

FromServer ==
    [kind : {"request"}, method : {"update", "echo"}, id : Nat, body : Changes]
    \union [kind : {"response"}, id : Nat, res : {"Ok", "Failed", "Rpc"}, body : Changes]
FromClient ==
    [kind : {"request"}, id : Nat, body : Changes,
     method : {"get_schema", "monitor", "transact", "list_dbs", "monitor_cancel"}]
    \union [kind : {"response"}, id : Nat, res : {"Ok"}, body : Changes]

TypeOK ==
    /\ toServer \in Seq(FromClient) /\ toClient \in Seq(FromServer)
    /\ open \in BOOLEAN /\ nextId \in Nat
    /\ pending \in Seq({m \in FromServer : m.kind = "request"})
    /\ op \in [kind : Methods \union {"none"}, id : Nat, echo : Nat,
               pc : {"idle", "schema", "start", "monitor", "response",
                     "buffered", "bufferedEcho", "read", "readEcho"}]
    /\ connected \in BOOLEAN
    /\ idl \in Contents /\ seqno \in Nat
    /\ idlState \in {"Initial", "MonitorRequested", "Monitoring"}
    /\ monitorId \in BOOLEAN
    /\ last \in [kind : Methods \union {"none"}, id : Nat,
                 res : {"none", "Ok", "Failed", "Rpc", "UnexpectedId", "Closed", "Dropped"}]
    /\ lost \subseteq Nat
    /\ db \in Contents /\ monitored \in BOOLEAN
    /\ results \subseteq [id : Nat, res : {"Ok", "Failed", "Rpc"}]
    /\ echoes \in Nat /\ answered \subseteq Nat /\ changes \in Nat

Init ==
    /\ ConnInit
    /\ op = Idle /\ connected = FALSE
    /\ idl = [r \in Rows |-> NoRow] /\ idlState = "Initial" /\ seqno = 0
    /\ monitorId = FALSE
    /\ last = [kind |-> "none", id |-> 0, res |-> "none"] /\ lost = {}
    /\ db \in Contents /\ monitored = FALSE /\ results = {}
    /\ echoes = 0 /\ answered = {} /\ changes = 0

-----------------------------------------------------------------------------
(* Fault: a row without "new" is left in its table.                        *)
MergeKeepsDeleted(c, d) ==
    [r \in Rows |-> IF r \in DOMAIN d /\ d[r] # NoRow THEN d[r] ELSE c[r]]

(* Idl::process_update.                                                    *)
Merge(c, d) == With(c, d)
ProcessUpdate(d) == idl' = Merge(idl, d) /\ seqno' = seqno + 1

(* The end of a method.  When connect fails there is no Client to call.    *)
Return(r) ==
    /\ op' = Idle
    /\ last' = [kind |-> op.kind, id |-> op.id, res |-> r]
    /\ connected' = (connected \/ (op.kind = "connect" /\ r = "Ok"))

Pending(pc) == op' = [op EXCEPT !.pc = pc] /\ UNCHANGED <<connected, last>>

CanCall(k) == op = Idle /\ connected /\ k \in Ops
Begin(k, pc) ==
    /\ op' = [kind |-> k, pc |-> pc, id |-> nextId, echo |-> 0]
    /\ UNCHANGED <<connected, last>>

-----------------------------------------------------------------------------
(* Client::connect: the schema, then the monitor.                          *)

Connect ==
    /\ op = Idle /\ nextId = 1 /\ nextId <= MaxCalls
    /\ SendRequest("get_schema", NoChange) /\ Begin("connect", "schema")
    /\ UNCHANGED <<idl, idlState, seqno, monitorId, lost, server>>

RecvSchema ==
    /\ op.pc = "schema" /\ TakeResponse(op.id)
    /\ \/ Got.res = "Ok" /\ Pending("start") /\ idlState' = "MonitorRequested"
       \/ Got.res # "Ok" /\ Return(Got.res) /\ UNCHANGED idlState
    /\ UNCHANGED <<idl, seqno, monitorId, lost, server>>

StartMonitor ==
    /\ op.pc = "start" /\ monitorId' = TRUE
    /\ SendRequest("monitor", NoChange) /\ Begin("connect", "monitor")
    /\ UNCHANGED <<idl, idlState, seqno, lost, server>>

RecvMonitorReply ==
    /\ op.pc = "monitor" /\ TakeResponse(op.id)
    /\ \/ /\ Got.res = "Ok" /\ ProcessUpdate(Got.body)
          /\ idlState' = "Monitoring" /\ Return("Ok")
       \/ Got.res # "Ok" /\ Return(Got.res) /\ UNCHANGED <<idl, idlState, seqno>>
    /\ UNCHANGED <<monitorId, lost, server>>

(* Transactions and other calls.                                           *)

Commit(d) ==
    /\ CanCall("commit") /\ nextId <= MaxCalls
    /\ SendRequest("transact", d) /\ Begin("commit", "response")
    /\ UNCHANGED <<idl, idlState, seqno, monitorId, lost, server>>

ListDbs ==
    /\ CanCall("list_dbs") /\ nextId <= MaxCalls
    /\ SendRequest("list_dbs", NoChange) /\ Begin("list_dbs", "response")
    /\ UNCHANGED <<idl, idlState, seqno, monitorId, lost, server>>

(* monitor_id is taken before the request is sent.                         *)
CancelMonitor ==
    /\ CanCall("cancel_monitor") /\ nextId <= MaxCalls /\ monitorId
    /\ monitorId' = FALSE
    /\ SendRequest("monitor_cancel", NoChange) /\ Begin("cancel_monitor", "response")
    /\ UNCHANGED <<idl, idlState, seqno, lost, server>>

RecvResponse ==
    /\ op.pc = "response" /\ TakeResponse(op.id) /\ Return(Got.res)
    /\ UNCHANGED <<idl, idlState, seqno, monitorId, lost, server>>

AwaitsResponse == op.pc \in {"schema", "monitor", "response"}
AwaitsMessage  == AwaitsResponse \/ op.pc = "read"

RecvNotification ==
    /\ AwaitsResponse /\ BufferNotification
    /\ UNCHANGED <<client, server>>

RecvUnexpected ==
    /\ AwaitsResponse /\ TakeUnexpected(op.id) /\ Return("UnexpectedId")
    /\ UNCHANGED <<idl, idlState, seqno, monitorId, lost, server>>

-----------------------------------------------------------------------------
(* Client::run: everything set aside is processed, nothing is read from    *)
(* the stream, and an echo request is popped like any other notification.  *)
Processed(s, m) ==
    IF m.method = "update"
    THEN [idl |-> Merge(s.idl, m.body), seqno |-> s.seqno + 1] ELSE s

Run ==
    /\ CanCall("run")
    /\ LET after == FoldLeft(Processed, [idl |-> idl, seqno |-> seqno], pending)
       IN  idl' = after.idl /\ seqno' = after.seqno
    /\ pending' = <<>>
    /\ last' = [kind |-> "run", id |-> 0, res |-> "Ok"]
    /\ lost' = lost \union {m.id : m \in {x \in Range(pending) : x.method = "echo"}}
    /\ UNCHANGED <<toServer, toClient, open, nextId, op, connected, idlState, monitorId, server>>

Wait ==
    /\ CanCall("wait") /\ Begin("wait", "buffered")
    /\ UNCHANGED <<conn, idl, idlState, seqno, monitorId, lost, server>>

(* Fault: an echo request set aside is popped like in run, unanswered.     *)
WaitPopNoEcho ==
    /\ op.pc = "buffered"
    /\ \/ pending = <<>> /\ Pending("read") /\ UNCHANGED <<pending, idl, seqno>>
       \/ Pop /\ Popped.method = "echo" /\ UNCHANGED <<op, connected, last, idl, seqno>>
       \/ Pop /\ Popped.method = "update" /\ ProcessUpdate(Popped.body) /\ Return("Ok")
    /\ UNCHANGED <<toServer, toClient, open, nextId, idlState, monitorId, lost, server>>

(* Client::wait: first what was set aside ...                              *)
WaitPop ==
    /\ op.pc = "buffered"
    /\ \/ pending = <<>> /\ Pending("read") /\ UNCHANGED <<pending, idl, seqno>>
       \/ /\ Pop /\ Popped.method = "echo"
          /\ op' = [op EXCEPT !.pc = "bufferedEcho", !.echo = Popped.id]
          /\ UNCHANGED <<connected, last, idl, seqno>>
       \/ Pop /\ Popped.method = "update" /\ ProcessUpdate(Popped.body) /\ Return("Ok")
    /\ UNCHANGED <<toServer, toClient, open, nextId, idlState, monitorId, lost, server>>

(* ... then the stream; a response nobody waits for is dropped.            *)
WaitRead ==
    /\ op.pc = "read" /\ TakeNext
    /\ \/ Got.kind = "response" /\ UNCHANGED <<op, connected, last, idl, seqno>>
       \/ /\ Got.kind = "request" /\ Got.method = "echo"
          /\ op' = [op EXCEPT !.pc = "readEcho", !.echo = Got.id]
          /\ UNCHANGED <<connected, last, idl, seqno>>
       \/ /\ Got.kind = "request" /\ Got.method = "update"
          /\ ProcessUpdate(Got.body) /\ Return("Ok")
    /\ UNCHANGED <<pending, idlState, monitorId, lost, server>>

SendEchoReply ==
    /\ op.pc \in {"bufferedEcho", "readEcho"}
    /\ SendMessage(Response(op.echo, "Ok", NoChange))
    /\ op' = [op EXCEPT !.pc = IF op.pc = "readEcho" THEN "read" ELSE "buffered", !.echo = 0]
    /\ UNCHANGED <<toClient, open, nextId, pending, connected, idl, idlState, seqno,
                   monitorId, last, lost, server>>

-----------------------------------------------------------------------------
(* A read at the end of a closed stream fails, and so does a write.        *)
StreamFails ==
    /\ op # Idle /\ ~open
    /\ AwaitsMessage => AtEnd
    /\ op.pc # "buffered"
    /\ Return("Closed")
    /\ UNCHANGED <<conn, idl, idlState, seqno, monitorId, lost, server>>

(* The caller drops the future while it awaits a message; a write is taken *)
(* to end when it is first polled.  The connection keeps what it has read. *)
Drop ==
    /\ op.kind \in Droppable /\ AwaitsMessage
    /\ Return("Dropped")
    /\ UNCHANGED <<conn, idl, idlState, seqno, monitorId, lost, server>>

(* An empty transaction, and the cancellation of no monitor, send nothing. *)
ReturnAtOnce ==
    /\ \/ CanCall("commit") /\ last' = [kind |-> "commit", id |-> 0, res |-> "Ok"]
       \/ /\ CanCall("cancel_monitor") /\ ~monitorId
          /\ last' = [kind |-> "cancel_monitor", id |-> 0, res |-> "Ok"]
    /\ UNCHANGED <<conn, op, connected, idl, idlState, seqno, monitorId, lost, server>>

-----------------------------------------------------------------------------
(* The server (external): it handles requests in the order of their        *)
(* arrival, and tells this client of every change while it has a monitor.  *)

Serve(m) ==
    /\ toServer # <<>> /\ toServer' = Tail(toServer)
    /\ Head(toServer).kind = "request" /\ Head(toServer).method = m
    /\ UNCHANGED <<open, nextId, pending, client, echoes, answered, changes>>
Answer(r, b) == Response(Head(toServer).id, r, b)
Tell(ms)     == toClient' = toClient \o ms

(* The notification of a change that has the given effect.                 *)
Notification(d) ==
    IF monitored /\ d # NoChange THEN <<Request("update", 0, d)>> ELSE <<>>

ServerSimple ==
    /\ Serve("get_schema") \/ Serve("list_dbs")
    /\ \E r \in {"Ok", "Rpc"} : Tell(<<Answer(r, NoChange)>>)
    /\ UNCHANGED <<db, monitored, results>>

ServerMonitor ==
    /\ Serve("monitor")
    /\ \/ Tell(<<Answer("Ok", db)>>) /\ monitored' = TRUE
       \/ Tell(<<Answer("Rpc", NoChange)>>) /\ UNCHANGED monitored
    /\ UNCHANGED <<db, results>>

ServerCancel ==
    /\ Serve("monitor_cancel") /\ Tell(<<Answer("Ok", NoChange)>>)
    /\ monitored' = FALSE
    /\ UNCHANGED <<db, results>>

ServerTransact ==
    /\ Serve("transact")
    /\ \E r \in {"Ok", "Failed", "Rpc"} :
         LET d == IF r = "Ok" THEN Effect(db, Head(toServer).body) ELSE NoChange
         IN  /\ db' = With(db, d)
             /\ \/ Tell(Notification(d) \o <<Answer(r, NoChange)>>)
                \/ Tell(<<Answer(r, NoChange)>> \o Notification(d))
             /\ results' = results \union {[id |-> Head(toServer).id, res |-> r]}
    /\ UNCHANGED monitored

ServerEchoReply ==
    /\ toServer # <<>> /\ Head(toServer).kind = "response"
    /\ answered' = answered \union {Head(toServer).id} /\ toServer' = Tail(toServer)
    /\ UNCHANGED <<toClient, open, nextId, pending, client, db, monitored, results,
                   echoes, changes>>

OtherClient(d) ==
    /\ changes < MaxChanges /\ changes' = changes + 1
    /\ Effect(db, d) # NoChange /\ db' = With(db, d)
    /\ Tell(Notification(Effect(db, d)))
    /\ UNCHANGED <<toServer, open, nextId, pending, client, monitored, results,
                   echoes, answered>>

ServerEcho ==
    /\ open /\ echoes < MaxEchoes /\ echoes' = echoes + 1
    /\ Tell(<<Request("echo", echoes', NoChange)>>)
    /\ UNCHANGED <<toServer, open, nextId, pending, client, db, monitored, results,
                   answered, changes>>

(* The connection is lost, with what was in flight from some point on.     *)
Close ==
    /\ open /\ open' = FALSE /\ toServer' = <<>> /\ monitored' = FALSE
    /\ \E n \in 0 .. Len(toClient) : toClient' = SubSeq(toClient, 1, n)
    /\ UNCHANGED <<nextId, pending, client, db, results, echoes, answered, changes>>

-----------------------------------------------------------------------------
Receive == RecvSchema \/ RecvMonitorReply \/ RecvResponse \/ RecvNotification \/ RecvUnexpected
ClientStep == StartMonitor \/ Receive \/ WaitPop \/ WaitRead \/ SendEchoReply \/ StreamFails
Call ==
    \/ Connect \/ ListDbs \/ CancelMonitor \/ Run \/ Wait \/ ReturnAtOnce
    \/ \E d \in Changes \ {NoChange} : Commit(d)
ServerStep == ServerSimple \/ ServerMonitor \/ ServerCancel \/ ServerTransact \/ ServerEchoReply

Next ==
    \/ Call \/ ClientStep \/ Drop \/ ServerStep
    \/ \E d \in Changes : OtherClient(d)
    \/ ServerEcho \/ Close

Spec == Init /\ [][Next]_vars

(* A future is polled as long as it can move, the server handles what it   *)
(* receives, and the caller connects and calls run or wait in a loop.      *)
FairSpec ==
    /\ Spec
    /\ WF_vars(ClientStep) /\ WF_vars(ServerStep)
    /\ WF_vars(Connect) /\ SF_vars(Wait) /\ SF_vars(WaitRead)

-----------------------------------------------------------------------------
(* The contents the replica has yet to take over: those of the monitor     *)
(* reply (connect sends get_schema and then monitor: ids 1 and 2), and     *)
(* after each update on its way (pending, then toClient).                  *)
Carries(m)  == \/ m.kind = "response" /\ m.id = 2 /\ m.res = "Ok"
               \/ m.kind = "request" /\ m.method = "update"
Taken(c, m) == IF m.kind = "response" THEN m.body ELSE With(c, m.body)
TakeOver(s, m) ==
    IF Carries(m)
    THEN [now |-> Taken(s.now, m), ahead |-> Append(s.ahead, Taken(s.now, m))] ELSE s
Here   == [now |-> idl, ahead |-> <<>>]
Behind == FoldLeft(TakeOver, Here, pending \o toClient).ahead

R == INSTANCE Replica
       WITH copy <- IF idlState = "Monitoring" THEN idl ELSE NoCopy,
            behind <- Behind, watching <- monitored

(* From the monitor reply on the replica takes over the contents the       *)
(* server had, in order, with no change lost, repeated or overtaken by     *)
(* another, whichever of commit, run and wait meets the notification and   *)
(* whichever of them is dropped or fails on the way.                       *)
ReplicaFollows == R!Spec

(* A commit answers with what the server did with that very transaction,   *)
(* whatever calls were dropped before it.                                  *)
AnswerIsOwn ==
    last.kind = "commit" /\ last.id # 0 /\ last.res \in {"Ok", "Failed", "Rpc"}
        => [id |-> last.id, res |-> last.res] \in results

(* No echo request of the server is lost on the way to its answer, also    *)
(* when it arrives ahead of a response or wait is dropped; a server closes *)
(* a connection whose echoes stay unanswered.  Only run drops them.         *)
EchoesAccounted ==
    open => \A e \in 1 .. echoes :
        \/ e \in answered \union lost \/ op.echo = e
        \/ \E n \in DOMAIN toServer : toServer[n].kind = "response" /\ toServer[n].id = e
        \/ \E m \in Range(pending \o toClient) :
              m.kind = "request" /\ m.method = "echo" /\ m.id = e

(* A caller that keeps calling wait (or run) ends up with a replica equal  *)
(* to the database, as long as the connection and the monitor last.        *)
Converges == <>[](connected /\ open /\ monitored => idl = db)

(* Every call but wait returns: with its answer, with the error of another *)
(* call's answer, or because the connection is closed.                     *)
CallsReturn == op.kind \in Methods \ {"wait"} ~> op = Idle
=============================================================================
