----------------------------- MODULE Connection -----------------------------
(***************************************************************************)
(* The JSON-RPC connection, rovs-jsonrpc/src/connection.rs, between an     *)
(* OVSDB client and its server: one FIFO of whole JSON messages per        *)
(* direction, the request ids, and the notifications set aside while a     *)
(* response is awaited.  This module gives the state and the steps; the    *)
(* module of the program that uses the connection puts them in actions.    *)
(***************************************************************************)
EXTENDS Naturals, Sequences

VARIABLES
    toServer, toClient,  \* messages in flight, oldest first
    open,                \* the stream is not closed
    nextId,              \* Connection.next_id
    pending              \* Connection.pending_notifications

conn == <<toServer, toClient, open, nextId, pending>>

ConnInit ==
    /\ toServer = <<>> /\ toClient = <<>> /\ open = TRUE
    /\ nextId = 1 /\ pending = <<>>

(* Messages: a request has a method, a response the id of its request.     *)
Request(m, i, b)  == [kind |-> "request", method |-> m, id |-> i, body |-> b]
Response(i, r, b) == [kind |-> "response", id |-> i, res |-> r, body |-> b]

(* Connection::send_message; into a closed stream it may still succeed.    *)
SendMessage(m) == toServer' = IF open THEN Append(toServer, m) ELSE toServer

(* The first half of Connection::transact: a fresh id, the request sent.   *)
SendRequest(m, b) ==
    /\ SendMessage(Request(m, nextId, b))
    /\ nextId' = nextId + 1
    /\ UNCHANGED <<toClient, open, pending>>

(* One Connection::recv_message that finds a message.                      *)
Readable  == toClient # <<>>
Got       == Head(toClient)
TakeNext  == Readable /\ toClient' = Tail(toClient) /\ UNCHANGED <<toServer, open, nextId>>

(* Fault: notifications that arrive ahead of a response are dropped.       *)
BufferNotificationDrops ==
    TakeNext /\ Got.kind = "request" /\ UNCHANGED pending

(* Fault: whatever comes is set aside, a response too.                     *)
BufferAnything == TakeNext /\ pending' = Append(pending, Got)

(* One turn of Connection::recv_response: a notification is set aside.     *)
BufferNotification ==
    TakeNext /\ Got.kind = "request" /\ pending' = Append(pending, Got)

(* Fault: the id of the response is not compared.                          *)
TakeResponseAnyId(i) ==
    TakeNext /\ Got.kind = "response" /\ UNCHANGED pending

(* The response with the expected id ends recv_response ...                *)
TakeResponse(i) ==
    TakeNext /\ Got.kind = "response" /\ Got.id = i /\ UNCHANGED pending

(* ... and so does any other: it is consumed, and the call fails.          *)
TakeUnexpected(i) ==
    TakeNext /\ Got.kind = "response" /\ Got.id # i /\ UNCHANGED pending

(* Fault: a read of no bytes is not taken for the end of the stream.       *)
AtEndUnnoticed == FALSE

(* recv_message at the end of a closed stream.                             *)
AtEnd == ~open /\ ~Readable

(* pop_notification, its Some case.                                        *)
Popped == Head(pending)
Pop    == pending # <<>> /\ pending' = Tail(pending)
=============================================================================
