---------------------------- MODULE Transaction ----------------------------
(***************************************************************************)
(* An OVSDB transaction from its building to the processing of its result, *)
(* rovs-ovsdb/src/transaction.rs, committed with Client::commit against a  *)
(* database that other clients change too.  The uuids the caller passes    *)
(* are those of its replica, which may be stale.                           *)
(***************************************************************************)
EXTENDS TransactionOps

CONSTANTS
    Bridges, Ports,  \* names the callers give to bridges and ports
    Helpers,         \* the operations of Transaction in use
    Rivals,          \* the operations other clients use
    MaxSteps,        \* bound: operations in one transaction
    MaxCommits,      \* bound: commits
    MaxOthers        \* bound: transactions of other clients

VARIABLES
    built,    \* the calls that built the transaction, with their operations
    status, uuidMap, uuidCounter,  \* the fields of Transaction
    replica,  \* the contents in the caller's Idl
    rows,     \* server: the contents of the database
    next,     \* server: the next free uuid
    given,    \* history: the uuids the server gave to the uuid-names
    applied,  \* history: the number of the last answered commit if it was applied, or 0
    commits, others

txn  == <<built, status, uuidMap, uuidCounter>>
vars == <<txn, replica, rows, next, given, applied, commits, others>>

AllHelpers == {"create_bridge", "add_port", "add_patch_ports", "set_controller",
               "delete_bridge", "delete_bridge_uuid", "delete_port",
               "delete_port_uuid", "wait"}

ASSUME BoundsAssumption ==
    /\ Helpers \subseteq AllHelpers /\ Rivals \subseteq AllHelpers /\ Bridges \cap Ports = {}
    /\ MaxSteps \in Nat /\ MaxCommits \in Nat /\ MaxOthers \in Nat

BridgeNames == {<<b>> : b \in Bridges}
PortNames   == {<<p>> : p \in Ports}

Init ==
    /\ built = <<>> /\ status = "Uncommitted" /\ uuidMap = <<>> /\ uuidCounter = 0
    /\ rows = Empty /\ replica = rows /\ next = 1 /\ given = <<>>
    /\ applied = 0 /\ commits = 0 /\ others = 0

-----------------------------------------------------------------------------
(* Building.                                                               *)

OfTable(c, t) == {u \in DOMAIN c : c[u].table = t}

(* The calls a caller may make that knows the contents c, when the counter *)
(* is k.                                                                   *)
Step(kind, b, p, ops) == [kind |-> kind, bridge |-> b, other |-> p, ops |-> ops]
BridgeByUuid(c, u) ==
    LET ports == c[u].refs \cap OfTable(c, "Port")
    IN  Step("delete_bridge_uuid", c[u].name, NoName,
             DeleteBridgeUuid(u, ports, UNION {c[x].refs : x \in ports}))
PortByUuid(c, u, x) ==
    Step("delete_port_uuid", c[u].name, c[x].name,
         DeletePortUuid(u, x, CHOOSE i \in c[x].refs : TRUE))
Calls(c, k) ==
    {Step("create_bridge", b, NoName, CreateBridge(k, b)) : b \in BridgeNames} \union
    {Step("add_port", b, p, AddPort(k, b, p, NoName)) : b \in BridgeNames, p \in PortNames} \union
    {Step("add_patch_ports", b, d, AddPatchPorts(k, b, d)) :
        b \in BridgeNames, d \in BridgeNames} \union
    {Step("set_controller", b, NoName, SetController(k, b, NoName)) : b \in BridgeNames} \union
    {Step("delete_bridge", b, NoName, DeleteBridge(b)) : b \in BridgeNames} \union
    {Step("delete_port", NoName, p, DeletePort(p)) : p \in PortNames} \union
    {BridgeByUuid(c, u) : u \in OfTable(c, "Bridge")} \union
    (UNION {{PortByUuid(c, u, x) : x \in c[u].refs \cap OfTable(c, "Port")} :
                u \in OfTable(c, "Bridge")}) \union
    {Step("wait", NoName, NoName, <<Wait>>)}

Build ==
    /\ status = "Uncommitted" /\ Len(built) < MaxSteps
    /\ \E s \in Calls(replica, uuidCounter) :
          /\ s.kind \in Helpers /\ s.bridge # s.other
          /\ built' = Append(built, s)
          /\ uuidCounter' = uuidCounter + Inserts(s.ops)
    /\ UNCHANGED <<status, uuidMap, replica, rows, next, given, applied, commits, others>>

(* Transaction::new.                                                       *)
New ==
    /\ built' = <<>> /\ status' = "Uncommitted" /\ uuidMap' = <<>> /\ uuidCounter' = 0
    /\ given' = <<>> /\ applied' = 0
    /\ UNCHANGED <<replica, rows, next, commits, others>>

Followed(ops, s) == ops \o s.ops
Operations == FoldLeft(Followed, <<>>, built)

-----------------------------------------------------------------------------
(* Committing.                                                             *)

(* Fault: the result that follows those of the operations, for a           *)
(* transaction refused at its end, is not looked at.                       *)
ErrorsOfOperations(results) ==
    {n \in DOMAIN results : n <= Len(Operations) /\ results[n].kind = "error"}

(* Transaction::process_result: the results are gone through up to the     *)
(* first error, and that of operation i - 1 taken for "row{i - 1}".        *)
Errors(results) == {n \in DOMAIN results : results[n].kind = "error"}

(* Fault: operations are counted from one, like results here.              *)
NameOfFromOne(i) == i
NameOf(i) == i - 1

ProcessResult(results) ==
    LET seen == {n \in DOMAIN results : \A e \in Errors(results) : n < e}
        ids  == {n \in seen : results[n].kind = "uuid"}
        new  == [k \in {NameOf(n) : n \in ids} |->
                    results[CHOOSE n \in ids : NameOf(n) = k].uuid]
    IN  /\ status' = IF Errors(results) = {} THEN "Success" ELSE "Error"
        /\ uuidMap' = Extend(new, uuidMap)

(* Client::commit of a transaction that is not empty; a transaction may be *)
(* committed again.                                                        *)
Commit ==
    /\ built # <<>> /\ commits < MaxCommits /\ commits' = commits + 1
    /\ \E o \in Outcomes(rows, next, Operations) :
          /\ rows' = o.rows /\ next' = o.next
          /\ given' = o.given /\ applied' = IF o.ok THEN commits' ELSE 0
          /\ ProcessResult(o.results)
    /\ UNCHANGED <<built, uuidCounter, replica, others>>

(* Its answer is an RPC error, or does not come: the transaction may have  *)
(* been applied all the same.                                              *)
CommitUnanswered ==
    /\ built # <<>> /\ commits < MaxCommits /\ commits' = commits + 1
    /\ \/ UNCHANGED <<rows, next>>
       \/ \E o \in Outcomes(rows, next, Operations) : rows' = o.rows /\ next' = o.next
    /\ UNCHANGED <<txn, replica, given, applied, others>>

(* run or wait bring the replica up to date (see OvsdbClient).             *)
Refresh == replica' = rows /\ UNCHANGED <<txn, rows, next, given, applied, commits, others>>

(* Another client of the same kind, with one call per transaction.         *)
OtherClient ==
    /\ others < MaxOthers /\ others' = others + 1
    /\ \E s \in Calls(rows, 0) :
          /\ s.kind \in Rivals /\ s.bridge # s.other
          /\ \E o \in Outcomes(rows, next, s.ops) :
                o.ok /\ rows' = o.rows /\ next' = o.next
    /\ UNCHANGED <<txn, replica, given, applied, commits>>

Next == Build \/ New \/ Commit \/ CommitUnanswered \/ Refresh \/ OtherClient

Spec == Init /\ [][Next]_vars

-----------------------------------------------------------------------------
(* process_result tells a transaction that was applied from one that was   *)
(* not, wherever in the results the error stands, also when the            *)
(* transaction is committed again.                                         *)
StatusIsHonest == status = "Success" <=> applied # 0

(* get_uuid knows the row of every insert made before other operations.    *)
LeadingRefsResolve ==
    status = "Success" => \A n \in DOMAIN Operations :
        (\A m \in 1 .. n : Operations[m].op = "insert")
            => LET k == Operations[n].as IN k \in DOMAIN uuidMap /\ uuidMap[k] = given[k]

(* A transaction that adds is applied as a whole and nothing of it is      *)
(* collected: the bridge is registered and has its local port, the port is *)
(* in its bridge, the two patch ports are each other's peers, whatever     *)
(* other clients do; if the bridges exist when they are named.             *)
Has(c, b, p, peer) ==
    \E u \in c[0].refs : \E x \in c[u].refs : \E i \in c[x].refs :
        c[u].name = b /\ c[x].name = p /\ c[i].name = p /\ c[i].peer = peer
Exists(b, n) ==
    \/ \E u \in OfTable(rows, "Bridge") : rows[u].name = b
    \/ \E m \in 1 .. n - 1 : built[m].kind = "create_bridge" /\ built[m].bridge = b
Landed(c, n) ==
    LET b == built[n].bridge
        d == built[n].other
    IN  CASE built[n].kind = "create_bridge" -> Has(c, b, b, NoName)
          [] built[n].kind = "add_port" -> Exists(b, n) => Has(c, b, d, NoName)
          [] built[n].kind = "add_patch_ports" ->
               /\ Exists(b, n) => Has(c, b, b \o d, d \o b)
               /\ Exists(d, n) => Has(c, d, d \o b, b \o d)
          [] built[n].kind = "set_controller" -> TRUE
Adds == {"create_bridge", "add_port", "add_patch_ports", "set_controller"}
AddsLand ==
    [][applied' \notin {0, applied} /\ (\A n \in DOMAIN built : built[n].kind \in Adds)
          => \A n \in DOMAIN built : Landed(rows', n)]_vars

(* Deletion by uuid is not refused, however stale the replica the uuids    *)
(* come from ("For reliable deletion, use delete_bridge_uuid", "the safe   *)
(* way to delete ports as it properly handles referential integrity").     *)
UuidDeletesSucceed ==
    status = "Error" =>
        \E n \in DOMAIN built : built[n].kind \notin {"delete_bridge_uuid", "delete_port_uuid"}
=============================================================================
