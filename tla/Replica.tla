------------------------------ MODULE Replica ------------------------------
(***************************************************************************)
(* What an OVSDB client promises ("maintains an in-memory replica via the  *)
(* IDL", rovs-ovsdb/src/client.rs): once it watches the database its copy  *)
(* goes through the contents the database had, one after the other, none   *)
(* skipped, repeated or reordered, each taken over whole.                  *)
(***************************************************************************)
EXTENDS Naturals, Sequences

CONSTANTS Contents,  \* the contents the database can have
          NoCopy     \* the copy before the first contents arrive, none of them

VARIABLES db,       \* the contents of the database
          copy,     \* the client's copy
          behind,   \* the contents the copy has yet to take over, oldest first
          watching  \* the database tells the client of its changes

rvars == <<db, copy, behind, watching>>

Init == db \in Contents /\ copy = NoCopy /\ behind = <<>> /\ watching = FALSE

Commit(c) ==
    /\ db' = c
    /\ behind' = IF watching THEN Append(behind, c) ELSE behind
    /\ UNCHANGED <<copy, watching>>

Watch ==
    /\ ~watching /\ copy = NoCopy /\ watching' = TRUE
    /\ behind' = <<db>>
    /\ UNCHANGED <<db, copy>>

CatchUp(n) ==
    /\ copy' = behind[n] /\ behind' = SubSeq(behind, n + 1, Len(behind))
    /\ UNCHANGED <<db, watching>>

(* The watch ends, by request or because the connection is lost: what was  *)
(* on its way may be lost, from some point on.                             *)
Unwatch ==
    /\ watching' = FALSE
    /\ \E n \in 0 .. Len(behind) : behind' = SubSeq(behind, 1, n)
    /\ UNCHANGED <<db, copy>>

Next ==
    \/ \E c \in Contents : Commit(c)
    \/ Watch \/ Unwatch
    \/ \E n \in 1 .. Len(behind) : CatchUp(n)

Spec == Init /\ [][Next]_rvars

(* While the watch lasts, the copy is the database's contents as soon as   *)
(* it has taken over everything it was told of.                            *)
Fresh == watching => IF behind = <<>> THEN copy = db ELSE behind[Len(behind)] = db
=============================================================================
