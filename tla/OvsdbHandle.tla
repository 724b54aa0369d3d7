---------------------------- MODULE OvsdbHandle ----------------------------
(***************************************************************************)
(* The shared OVSDB handle, rovs-ext/src/ovsdb.rs: tasks that share one    *)
(* lazily connected Client behind a fair (FIFO) asynchronous mutex.        *)
(***************************************************************************)
EXTENDS Naturals, SequencesExt

CONSTANTS Tasks, MaxDrops  \* bound: futures dropped by their tasks

VARIABLES
    client,  \* None, or a Client whose connection is up or lost
    queue,   \* the tasks that want the mutex, oldest first
    holder,  \* the task that has it, or NoTask
    pc,      \* where each task is
    drops

vars == <<client, queue, holder, pc, drops>>

NoTask == "none"

ASSUME TasksAssumption == NoTask \notin Tasks /\ MaxDrops \in Nat

(* The types, and what a fair mutex is: its queue holds the waiting tasks  *)
(* once each, its holder is the one task that connects or has a guard.     *)
TypeOK ==
    /\ client \in {"None", "up", "lost"} /\ queue \in Seq(Tasks)
    /\ holder \in Tasks \union {NoTask} /\ drops \in Nat
    /\ pc \in [Tasks -> {"idle", "client", "connecting", "guard", "disconnect"}]
    /\ IsInjective(queue)
    /\ Range(queue) = {t \in Tasks : pc[t] \in {"client", "disconnect"}}
    /\ \A t \in Tasks : holder = t <=> pc[t] \in {"connecting", "guard"}

Init ==
    /\ client = "None" /\ queue = <<>> /\ holder = NoTask /\ drops = 0
    /\ pc = [t \in Tasks |-> "idle"]

-----------------------------------------------------------------------------
Goto(t, l) == pc' = [pc EXCEPT ![t] = l]

(* client() and disconnect() queue for the mutex.                          *)
Call(t, l) ==
    /\ pc[t] = "idle" /\ l \in {"client", "disconnect"} /\ Goto(t, l)
    /\ queue' = Append(queue, t)
    /\ UNCHANGED <<client, holder, drops>>

Lock(t) == holder = NoTask /\ queue # <<>> /\ Head(queue) = t
           /\ holder' = t /\ queue' = Tail(queue)

(* Client::is_connected: the Idl monitors, which nothing ever undoes.      *)
IsConnected == client \in {"up", "lost"}

(* client() with the mutex: return the guard, or connect first.            *)
Check(t) ==
    /\ pc[t] = "client" /\ Lock(t)
    /\ Goto(t, IF ~IsConnected THEN "connecting" ELSE "guard")
    /\ UNCHANGED <<client, drops>>

(* Client::connect ends; on its error client() returns and the mutex is    *)
(* free.                                                                   *)
Connected(t) ==
    /\ pc[t] = "connecting" /\ client' = "up" /\ Goto(t, "guard")
    /\ UNCHANGED <<holder, queue, drops>>

(* Fault: the mutex is left locked.                                        *)
ConnectFailsLocked(t) ==
    /\ pc[t] = "connecting" /\ Goto(t, "idle") /\ UNCHANGED <<client, holder, queue, drops>>

ConnectFails(t) ==
    /\ pc[t] = "connecting" /\ holder' = NoTask /\ Goto(t, "idle")
    /\ UNCHANGED <<client, queue, drops>>

(* The guard is dropped.                                                   *)
Release(t) ==
    /\ pc[t] = "guard" /\ holder' = NoTask /\ Goto(t, "idle")
    /\ UNCHANGED <<client, queue, drops>>

(* Fault: disconnect() does not wait for the mutex.                        *)
DisconnectUnlocked(t) ==
    /\ pc[t] = "disconnect" /\ client' = "None" /\ Goto(t, "idle")
    /\ queue' = SelectSeq(queue, LAMBDA x : x # t)
    /\ UNCHANGED <<holder, drops>>

Disconnect(t) ==
    /\ pc[t] = "disconnect" /\ holder = NoTask /\ queue # <<>> /\ Head(queue) = t
    /\ queue' = Tail(queue) /\ client' = "None" /\ Goto(t, "idle")
    /\ UNCHANGED <<holder, drops>>

(* The task drops the future: it leaves the queue, or gives up connecting. *)
Drop(t) ==
    /\ pc[t] \in {"client", "connecting", "disconnect"} /\ drops < MaxDrops
    /\ drops' = drops + 1 /\ Goto(t, "idle")
    /\ queue' = SelectSeq(queue, LAMBDA x : x # t)
    /\ holder' = IF holder = t THEN NoTask ELSE holder
    /\ UNCHANGED client

(* The connection is lost (external).                                      *)
Lose == client = "up" /\ client' = "lost" /\ UNCHANGED <<queue, holder, pc, drops>>

Next ==
    \/ \E t \in Tasks :
          \/ \E l \in {"client", "disconnect"} : Call(t, l)
          \/ Check(t) \/ Connected(t) \/ ConnectFails(t) \/ Release(t) \/ Disconnect(t) \/ Drop(t)
    \/ Lose

Spec == Init /\ [][Next]_vars

(* Tasks are polled, connecting ends one way or the other, and a task does *)
(* not keep its guard for ever ("avoid holding it across .await points").  *)
HandleFairness ==
    \A t \in Tasks :
        WF_vars(Check(t) \/ Disconnect(t) \/ Connected(t) \/ ConnectFails(t) \/ Release(t))

-----------------------------------------------------------------------------
(* "OvsdbGuard always holds a connected client": whatever other tasks do,  *)
(* also disconnect(), there is a Client behind a guard, and one guard.     *)
GuardHoldsClient ==
    \A t \in Tasks : pc[t] = "guard" => client # "None" /\ holder = t

(* No task waits for ever, whether the server can be reached or not.       *)
EveryTaskServed == \A t \in Tasks : pc[t] # "idle" ~> pc[t] \in {"idle", "guard"}
=============================================================================
