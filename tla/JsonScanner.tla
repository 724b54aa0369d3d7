------------------------------ MODULE JsonScanner ------------------------------
(***************************************************************************)
(* recv_message of rovs-jsonrpc/src/connection.rs: the octets of a stream  *)
(* come in pieces of any length and are cut into JSON objects by counting  *)
(* braces.  The caller may drop the future while it waits for octets, and  *)
(* call again.  Connection takes for granted what this module shows: that  *)
(* whole messages come out, in the order they were sent.                   *)
(***************************************************************************)
EXTENDS Integers, Sequences, SequencesExt

CONSTANTS
    Texts,             \* the peer's messages: JSON objects as sequences of characters
    MaxMessages,       \* bound: messages in a stream
    MaxDropped         \* bound: futures dropped while they wait

VARIABLES
    inbound,           \* what the peer sends before it closes the stream
    unread,            \* the characters of it that have not been read
    read_buf,          \* Connection.read_buf
    reading,           \* a recv_message is under way
    scan,              \* its local variables, and the place in the buffer
    returned,          \* the messages recv_message has returned
    ended,             \* recv_message has failed with ConnectionClosed
    dropped

scanner == <<inbound, unread, read_buf, reading, scan, returned, ended, dropped>>

(* How the characters of a JSON text are read: braces nest outside of      *)
(* strings; a quote begins or ends a string unless it is escaped.          *)
Outset == [depth |-> 0, quoted |-> FALSE, escaped |-> FALSE]
Lexed(m, c) ==
    CASE m.escaped -> [m EXCEPT !.escaped = FALSE]
      [] ~m.escaped /\ m.quoted /\ c = "\\" -> [m EXCEPT !.escaped = TRUE]
      [] ~m.escaped /\ c = "\"" -> [m EXCEPT !.quoted = ~ @]
      [] ~m.escaped /\ ~m.quoted /\ c = "{" -> [m EXCEPT !.depth = @ + 1]
      [] ~m.escaped /\ ~m.quoted /\ c = "}" -> [m EXCEPT !.depth = @ - 1]
      [] OTHER -> m
Mode(t, n) == FoldLeft(Lexed, Outset, SubSeq(t, 1, n))

(* A JSON object ends with the brace that closes its first.                *)
IsObject(t) ==
    /\ t \in Seq(Range(t)) /\ t # <<>> /\ t[1] = "{"
    /\ Mode(t, Len(t)).depth = 0 /\ \A n \in 1 .. Len(t) - 1 : Mode(t, n).depth > 0

ASSUME TextsAssumption == MaxMessages \in Nat /\ \A t \in Texts : IsObject(t)

(* A peer ends its messages with a newline or, like an OVSDB server, with  *)
(* nothing at all.                                                         *)
Endings == {<<>>, <<"\n">>}
Joined(s, t) == s \o t
Stream(texts, ending) == FoldLeft(Joined, <<>>, [n \in DOMAIN texts |-> texts[n] \o ending])

Fresh == [at |-> 1, json_start |-> 0, depth |-> 0, in_string |-> FALSE, escape_next |-> FALSE]

ScannerInit ==
    /\ inbound \in BoundedSeq(Texts, MaxMessages)
    /\ \E ending \in Endings : unread = Stream(inbound, ending)
    /\ read_buf = <<>> /\ reading = FALSE /\ scan = Fresh
    /\ returned = <<>> /\ ended = FALSE /\ dropped = 0

(* Fault: the scan goes on where the last call's ended.                    *)
RecvMessageGoesOn ==
    /\ ~reading /\ ~ended /\ reading' = TRUE
    /\ UNCHANGED <<inbound, unread, read_buf, scan, returned, ended, dropped>>

RecvMessage ==
    /\ ~reading /\ ~ended /\ reading' = TRUE /\ scan' = Fresh
    /\ UNCHANGED <<inbound, unread, read_buf, returned, ended, dropped>>

MoreToScan == reading /\ scan.at <= Len(read_buf)
Byte       == read_buf[scan.at]
InObject   == scan.json_start # 0
Closes     == /\ InObject /\ ~scan.escape_next /\ ~scan.in_string
              /\ Byte = "}" /\ scan.depth = 1

(* Fault: braces in strings are counted.                                   *)
CountedPlain(s) ==
    CASE Byte = "{" -> [s EXCEPT !.depth = @ + 1]
      [] Byte = "}" -> [s EXCEPT !.depth = @ - 1]
      [] OTHER -> s

(* The match on a character of an object.                                  *)
Counted(s) ==
    CASE Byte = "\\" /\ s.in_string -> [s EXCEPT !.escape_next = TRUE]
      [] Byte = "\"" -> [s EXCEPT !.in_string = ~ @]
      [] Byte = "{" /\ ~s.in_string -> [s EXCEPT !.depth = @ + 1]
      [] Byte = "}" /\ ~s.in_string -> [s EXCEPT !.depth = @ - 1]
      [] OTHER -> s

Turned(s) ==
    CASE s.json_start = 0 /\ Byte # "{" -> s
      [] s.json_start = 0 /\ Byte = "{" -> Counted([s EXCEPT !.json_start = s.at])
      [] s.json_start # 0 /\ s.escape_next -> [s EXCEPT !.escape_next = FALSE]
      [] s.json_start # 0 /\ ~s.escape_next -> Counted(s)

(* One turn of the loop over the buffer that does not end an object ...    *)
ScanByte ==
    /\ MoreToScan /\ ~Closes
    /\ scan' = [Turned(scan) EXCEPT !.at = @ + 1]
    /\ UNCHANGED <<inbound, unread, read_buf, reading, returned, ended, dropped>>

(* Fault: what was read behind the message is thrown away with it.         *)
ReturnClears ==
    /\ MoreToScan /\ Closes
    /\ returned' = Append(returned, SubSeq(read_buf, scan.json_start, scan.at))
    /\ read_buf' = <<>>
    /\ reading' = FALSE
    /\ UNCHANGED <<inbound, unread, scan, ended, dropped>>

(* ... and one that does: the message is parsed, drained and returned.     *)
ReturnMessage ==
    /\ MoreToScan /\ Closes
    /\ returned' = Append(returned, SubSeq(read_buf, scan.json_start, scan.at))
    /\ read_buf' = SubSeq(read_buf, scan.at + 1, Len(read_buf))
    /\ reading' = FALSE
    /\ UNCHANGED <<inbound, unread, scan, ended, dropped>>

(* At the end of the buffer the future waits for characters.               *)
Waiting == reading /\ scan.at > Len(read_buf)

(* It gets some, and scans the buffer from its start ...                   *)
ReadMore(n) ==
    /\ Waiting /\ n <= Len(unread)
    /\ read_buf' = read_buf \o SubSeq(unread, 1, n)
    /\ unread' = SubSeq(unread, n + 1, Len(unread))
    /\ scan' = Fresh
    /\ UNCHANGED <<inbound, reading, returned, ended, dropped>>

(* Fault: a read of no characters is not taken for the end.                *)
ReadNothingAgain ==
    /\ Waiting /\ unread = <<>> /\ scan' = Fresh
    /\ UNCHANGED <<inbound, unread, read_buf, reading, returned, ended, dropped>>

(* ... or none, at the end of the stream ...                               *)
ReadNothing ==
    /\ Waiting /\ unread = <<>>
    /\ ended' = TRUE /\ reading' = FALSE
    /\ UNCHANGED <<inbound, unread, read_buf, scan, returned, dropped>>

(* ... or the caller drops it, and its variables; the buffer stays.        *)
DropReading ==
    /\ Waiting /\ dropped < MaxDropped
    /\ reading' = FALSE /\ dropped' = dropped + 1
    /\ UNCHANGED <<inbound, unread, read_buf, scan, returned, ended>>

ReadSome == \E n \in 1..Len(unread) : ReadMore(n)

ScannerNext ==
    RecvMessage \/ ScanByte \/ ReturnMessage \/ ReadSome \/ ReadNothing \/ DropReading

ScannerSpec == ScannerInit /\ [][ScannerNext]_scanner

(* The stream delivers what was sent, and the caller goes on reading.      *)
ScannerFairness ==
    /\ WF_scanner(RecvMessage) /\ WF_scanner(ScanByte) /\ WF_scanner(ReturnMessage)
    /\ WF_scanner(ReadSome) /\ WF_scanner(ReadNothing)

Fifo == INSTANCE MessageFifo WITH
            queue <- SubSeq(inbound, Len(returned) + 1, Len(inbound)),
            taken <- returned, over <- ended

(* However the stream is cut into pieces, and whatever braces, quotes and  *)
(* escapes its strings hold, recv_message returns the messages that were   *)
(* sent, whole, in order, and reports the end after the last.              *)
MessagesInOrder == Fifo!Spec

(* Every message is returned, a future dropped while it waited or not.     *)
EveryMessageReturned == <>(returned = inbound /\ ended)
===============================================================================
