------------------------------- MODULE Reconnect -------------------------------
(***************************************************************************)
(* The state machine of rovs-transport/src/reconnect.rs, and whoever       *)
(* drives it: it asks should_connect before an attempt and reports how the *)
(* attempt, and later the connection, ends.  Time is in seconds; of        *)
(* last_activity only the time elapsed since then is ever looked at.       *)
(* Nothing in reconnect.rs enters Idle or Reconnecting.                    *)
(***************************************************************************)
EXTENDS Integers

CONSTANTS MaxBackoffs,     \* the arguments of set_max_backoff
          Horizon          \* bound: the clocks, and the failures counted, stop here

VARIABLES
    state, backoff, max_backoff,
    elapsed,               \* since last_activity
    failures,              \* attempts failed since a connection was up
    waited                 \* since the last failure or loss of a connection

ASSUME HorizonAssumption == MaxBackoffs \subseteq Nat /\ Horizon \in Nat

reconnect == <<state, backoff, max_backoff, elapsed, failures, waited>>

Lesser(a, b) == IF a < b THEN a ELSE b

ReconnectInit ==
    /\ state = "Void" /\ backoff = 1 /\ max_backoff = 8
    /\ elapsed = 0 /\ failures = 0 /\ waited = 0

SetMaxBackoff(max) ==
    /\ state = "Void" /\ max_backoff' = max
    /\ UNCHANGED <<state, backoff, elapsed, failures, waited>>

ShouldConnect == \/ state = "Void"
                 \/ state = "Backoff" /\ elapsed >= backoff

Connecting ==
    /\ ShouldConnect /\ state' = "Connecting"
    /\ UNCHANGED <<backoff, max_backoff, elapsed, failures, waited>>

AttemptSucceeds ==
    /\ state = "Connecting" /\ state' = "Active"
    /\ elapsed' = 0 /\ backoff' = 1 /\ failures' = 0
    /\ UNCHANGED <<max_backoff, waited>>

IncreaseBackoff == backoff' = Lesser(2 * backoff, max_backoff)

(* Faults: the time of the loss is not noted; the machine waits in a state *)
(* that should_connect knows nothing of.                                   *)
DisconnectedUntimed  == state' = "Backoff" /\ elapsed' = elapsed /\ waited' = 0
DisconnectedReserved == state' = "Reconnecting" /\ elapsed' = 0 /\ waited' = 0

Disconnected == state' = "Backoff" /\ elapsed' = 0 /\ waited' = 0

AttemptFails ==
    /\ state = "Connecting" /\ IncreaseBackoff /\ Disconnected
    /\ failures' = Lesser(failures + 1, Horizon)
    /\ UNCHANGED max_backoff

ConnectionLost ==
    /\ state = "Active" /\ Disconnected
    /\ UNCHANGED <<backoff, max_backoff, failures>>

Activity ==
    /\ state = "Active" /\ elapsed' = 0
    /\ UNCHANGED <<state, backoff, max_backoff, failures, waited>>

Second ==
    /\ elapsed' = Lesser(elapsed + 1, Horizon) /\ waited' = Lesser(waited + 1, Horizon)
    /\ UNCHANGED <<state, backoff, max_backoff, failures>>

ReconnectNext ==
    \/ \E max \in MaxBackoffs : SetMaxBackoff(max)
    \/ Connecting \/ AttemptSucceeds \/ AttemptFails \/ ConnectionLost \/ Activity \/ Second

ReconnectSpec == ReconnectInit /\ [][ReconnectNext]_reconnect

(* Time passes, and the driver asks again and again.                       *)
ReconnectFairness == WF_reconnect(Second) /\ WF_reconnect(Connecting)

(* 2^k.                                                                    *)
Doubled[k \in 0 .. Horizon] == IF k = 0 THEN 1 ELSE 2 * Doubled[k - 1]

(* The k-th attempt in a row is made no sooner than 2^k seconds after the  *)
(* one before it failed, or the greatest backoff if that is less: a server *)
(* that is down is not flooded with attempts.                              *)
AttemptsSpaced ==
    [][state = "Backoff" /\ state' = "Connecting" =>
           waited >= Lesser(Doubled[failures], max_backoff)]_reconnect

(* A lost connection, or a failed attempt, is followed by another attempt. *)
KeepsTrying == state \in {"Backoff", "Reconnecting"} ~> state = "Connecting"
===============================================================================
