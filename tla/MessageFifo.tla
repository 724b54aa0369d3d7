----------------------------- MODULE MessageFifo -----------------------------
(***************************************************************************)
(* What the reader of a message stream promises its caller: every message  *)
(* of the peer once, whole and in order, and the end of the stream after   *)
(* the last one, not before.                                               *)
(***************************************************************************)
EXTENDS Sequences

VARIABLES queue,       \* the messages not taken yet, oldest first
          taken,       \* the messages the caller has been given
          over         \* the caller has been told of the end

Init == taken = <<>> /\ over = FALSE

Take == /\ queue # <<>>
        /\ taken' = Append(taken, Head(queue)) /\ queue' = Tail(queue)
        /\ over' = over

End  == /\ queue = <<>> /\ over' = TRUE /\ UNCHANGED <<queue, taken>>

Next == Take \/ End
Spec == Init /\ [][Next]_<<queue, taken, over>>
===============================================================================
