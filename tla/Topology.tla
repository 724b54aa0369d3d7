------------------------------ MODULE Topology ------------------------------
(***************************************************************************)
(* The one-shot calls that build a transaction, commit it and let it go:   *)
(* OvsClient (rovs-client/src/client.rs) and the topology builders of      *)
(* rovs-ext (topology/bridge_pair.rs, topology/vlan_trunk.rs), on one      *)
(* OVSDB client.  A commit leaves the replica alone; the caller brings it  *)
(* up to date between calls, if at all (ovsdb_mut().run() or wait()).      *)
(***************************************************************************)
EXTENDS TransactionOps

CONSTANTS
    Bridges, Ports,  \* names of bridges and ports
    Calls,           \* the calls in use
    MaxCalls         \* bound: calls made

VARIABLES
    rows, next,  \* server: contents of the database, next free uuid
    replica,     \* the contents in the client's Idl
    last,        \* the last call and what it returned
    calls

vars == <<rows, next, replica, last, calls>>

AllCalls == {"create_bridge", "delete_bridge", "add_port", "delete_port", "create_pair",
             "delete_pair", "create_trunk", "extend_trunk", "delete_trunk", "shrink_trunk"}

ASSUME BoundsAssumption ==
    Calls \subseteq AllCalls /\ Bridges \cap Ports = {} /\ MaxCalls \in Nat

BridgeNames == {<<b>> : b \in Bridges}
PortNames   == {<<p>> : p \in Ports}

Init ==
    /\ rows = Empty /\ next = 1 /\ replica = rows /\ calls = 0
    /\ last = [call |-> "none", bridge |-> NoName, other |-> NoName, res |-> "none"]

-----------------------------------------------------------------------------
(* Fault: the bridges are connected from one side only.                    *)
PairHalfConnected(b, d) ==
    CreateBridge(0, b) \o CreateBridge(3, d) \o AddPort(6, b, b \o d, d \o b)

(* BridgePair::build_transaction and build_delete_transaction.             *)
Pair(b, d)   == CreateBridge(0, b) \o CreateBridge(3, d) \o AddPatchPorts(6, b, d)
Unpair(b, d) == DeletePort(b \o d) \o DeletePort(d \o b) \o DeleteBridge(b) \o DeleteBridge(d)

(* VlanTrunk::build_transaction and build_delete_transaction, with one     *)
(* port, access or trunk; for a bridge of its own or an existing_bridge.   *)
Trunk(own, b, p)   == IF own THEN CreateBridge(0, b) \o AddPort(3, b, p, NoName)
                             ELSE AddPort(0, b, p, NoName)
Untrunk(own, b, p) == DeletePort(p) \o IF own THEN DeleteBridge(b) ELSE <<>>

(* OvsClient::get_bridge.                                                  *)
Listed(c, b) == \E u \in DOMAIN c : c[u].table = "Bridge" /\ c[u].name = b

(* A call: build, commit, and return Ok whether or not process_result      *)
(* found the transaction applied; create_bridge then looks its bridge up.  *)
Call(k, b, d, ops) ==
    /\ k \in Calls /\ calls < MaxCalls /\ calls' = calls + 1
    /\ \/ /\ \E o \in Outcomes(rows, next, ops) : rows' = o.rows /\ next' = o.next
          /\ last' = [call |-> k, bridge |-> b, other |-> d,
                      res |-> IF k = "create_bridge" /\ ~Listed(replica, b)
                              THEN "BridgeNotFound" ELSE "Ok"]
       \/ /\ last' = [call |-> k, bridge |-> b, other |-> d, res |-> "Rpc"]
          /\ UNCHANGED <<rows, next>>
    /\ UNCHANGED replica

OvsClientCalls ==
    \/ \E b \in BridgeNames : Call("create_bridge", b, NoName, CreateBridge(0, b))
    \/ \E b \in BridgeNames : Call("delete_bridge", b, NoName, DeleteBridge(b))
    \/ \E b \in BridgeNames, p \in PortNames :
          Call("add_port", b, p, AddPort(0, b, p, NoName))
    \/ \E b \in BridgeNames, p \in PortNames \union BridgeNames :
          Call("delete_port", b, p, DeletePort(p))

BuilderCalls ==
    \/ \E b \in BridgeNames, d \in BridgeNames :
          b # d /\ (Call("create_pair", b, d, Pair(b, d)) \/ Call("delete_pair", b, d, Unpair(b, d)))
    \/ \E b \in BridgeNames, p \in PortNames :
          \/ Call("create_trunk", b, p, Trunk(TRUE, b, p))
          \/ Call("extend_trunk", b, p, Trunk(FALSE, b, p))
          \/ Call("delete_trunk", b, p, Untrunk(TRUE, b, p))
          \/ Call("shrink_trunk", b, p, Untrunk(FALSE, b, p))

(* Client::run or wait, called by the caller (see OvsdbClient).            *)
Refresh == replica' = rows /\ UNCHANGED <<rows, next, last, calls>>

Next == OvsClientCalls \/ BuilderCalls \/ Refresh

Spec == Init /\ [][Next]_vars

-----------------------------------------------------------------------------
(* Whatever calls are made, in whatever order and however many of them are *)
(* refused: every registered bridge has its local port, and a patch port   *)
(* has its peer in the other bridge.                                       *)
NoHalfTopology ==
    \A u \in rows[0].refs :
        /\ \E x \in rows[u].refs : rows[x].name = rows[u].name
        /\ \A x \in rows[u].refs : \A i \in rows[x].refs :
              rows[i].peer # NoName =>
                 \E v \in rows[0].refs \ {u} : \E y \in rows[v].refs : \E j \in rows[y].refs :
                    rows[j].name = rows[i].peer /\ rows[j].peer = rows[i].name

(* "Delete a bridge.", "Delete a port from a bridge.", "Delete the bridge  *)
(* pair from an OVSDB client.", "Delete the VLAN trunk": once the call has *)
(* returned Ok its target is gone.                                         *)
DeletesDelete ==
    last.res = "Ok" =>
        /\ last.call \in {"delete_bridge", "delete_pair", "delete_trunk"}
              => ~Listed(rows, last.bridge)
        /\ last.call \in {"delete_port", "shrink_trunk"}
              => \A u \in DOMAIN rows : rows[u].table = "Port" => rows[u].name # last.other
=============================================================================
