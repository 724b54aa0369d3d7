--------------------------------- MODULE Proxy --------------------------------
(***************************************************************************)
(* What the ARP and NDP proxies of a controller promise the hosts: whoever *)
(* asks for a known address is answered once, in the order of asking, on   *)
(* the port the question came from, with a packet that RFC 826 or RFC 4861 *)
(* call an answer to that question.  Questions that are read by a call     *)
(* other than Controller::run are forgotten.                               *)
(*                                                                         *)
(* A question and an answer are records of a port and the octets of a      *)
(* frame; the offsets are those of the RFCs, counted from 1.               *)
(***************************************************************************)
EXTENDS Integers, Sequences

CONSTANT Entries       \* the known addresses: a function to MAC addresses

VARIABLES asked,       \* the questions not answered yet
          told         \* the answers given

LOCAL INSTANCE SequencesExt

Span(f, from, n) == SubSeq(f, from, from + n - 1)
Word(f, i)       == 256 * f[i] + f[i + 1]

IsArpQuestion(f) ==
    /\ Len(f) >= 42 /\ Span(f, 13, 2) = <<8, 6>>
    /\ Span(f, 15, 8) = <<0, 1, 8, 0, 6, 4, 0, 1>>
    /\ Span(f, 39, 4) \in DOMAIN Entries

IsNdpQuestion(f) ==
    /\ Len(f) >= 78 /\ Span(f, 13, 2) = <<134, 221>>
    /\ f[15] \div 16 = 6 /\ f[21] = 58 /\ f[55] = 135
    /\ Span(f, 63, 16) \in DOMAIN Entries

IsQuestion(q) == IsArpQuestion(q.frame) \/ IsNdpQuestion(q.frame)

AnswersArp(f, a) ==
    LET mac == Entries[Span(f, 39, 4)] IN
    /\ Len(a) = 42
    /\ Span(a, 1, 6) = Span(f, 7, 6) /\ Span(a, 7, 6) = mac /\ Span(a, 13, 2) = <<8, 6>>
    /\ Span(a, 15, 8) = <<0, 1, 8, 0, 6, 4, 0, 2>>
    /\ Span(a, 23, 6) = mac           /\ Span(a, 29, 4) = Span(f, 39, 4)
    /\ Span(a, 33, 6) = Span(f, 23, 6) /\ Span(a, 39, 4) = Span(f, 29, 4)

(* The sum over pseudo header and message, checksum included, is all ones. *)
Verifies(a) ==
    LET sum == FoldLeft(LAMBDA n, i : n + Word(a, 21 + 2 * i), 32 + 58, [i \in 1..32 |-> i])
    IN  sum % 65535 = 0

AnswersNdp(f, a) ==
    LET anonymous == \A i \in 23..38 : f[i] = 0 IN
    /\ Len(a) = 86 /\ Span(a, 1, 6) = Span(f, 7, 6)
    /\ Span(a, 7, 6) = Entries[Span(f, 63, 16)] /\ Span(a, 13, 2) = <<134, 221>>
    /\ a[15] = 96 /\ Word(a, 19) = 32 /\ a[21] = 58 /\ a[22] = 255
    /\ Span(a, 23, 16) = Span(f, 63, 16)
    /\ anonymous  => a[39] = 255 /\ a[40] = 2 /\ a[54] = 1 /\ \A i \in 41..53 : a[i] = 0
    /\ ~anonymous => Span(a, 39, 16) = Span(f, 23, 16)
    /\ a[55] = 136 /\ a[56] = 0 /\ a[59] = (IF anonymous THEN 32 ELSE 96)
    /\ Span(a, 63, 16) = Span(f, 63, 16)
    /\ a[79] = 2 /\ a[80] = 1 /\ Span(a, 81, 6) = Entries[Span(f, 63, 16)]
    /\ Verifies(a)

Answers(q, a) ==
    /\ a.port = q.port
    /\ IF IsArpQuestion(q.frame) THEN AnswersArp(q.frame, a.frame)
       ELSE AnswersNdp(q.frame, a.frame)

Init == asked = <<>> /\ told = <<>>

Ask ==
    /\ Len(asked') = Len(asked) + 1 /\ Front(asked') = asked /\ IsQuestion(Last(asked'))
    /\ told' = told

Tell ==
    /\ asked # <<>> /\ asked' = Tail(asked)
    /\ Len(told') = Len(told) + 1 /\ Front(told') = told
    /\ Answers(Head(asked), Last(told'))

Forget == asked # <<>> /\ asked' = Tail(asked) /\ told' = told

Next == Ask \/ Tell \/ Forget
Spec == Init /\ [][Next]_<<asked, told>>
===============================================================================
