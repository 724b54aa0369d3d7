--------------------------- MODULE TransactionOps ---------------------------
(***************************************************************************)
(* The operations of an OVSDB transaction as rovs-ovsdb/src/transaction.rs *)
(* builds them, and what the OVSDB server makes of them (external).  No    *)
(* state: Transaction and OvsClient are the programs that use this.        *)
(*                                                                         *)
(* A name is a tuple of atoms: <<b>> for a bridge or a port, <<b1, b2>>    *)
(* for the default name "patch-b1-to-b2".  Columns other than the name,    *)
(* the references and the peer of a patch interface are left out.          *)
(***************************************************************************)
EXTENDS Integers, SequencesExt

NoName == <<>>

(* A row may be referred to by uuid or by the name its insert gave it.     *)
Named(k) == [named |-> TRUE, id |-> k]
Known(u) == [named |-> FALSE, id |-> u]

(* The where clauses: [], name == n, _uuid == u.                           *)
All(t)       == [table |-> t, by |-> "all",  name |-> NoName, uuid |-> 0]
ByName(t, n) == [table |-> t, by |-> "name", name |-> n,      uuid |-> 0]
ByUuid(t, u) == [table |-> t, by |-> "uuid", name |-> NoName, uuid |-> u]

(* Transaction's primitive operations; k is the uuid-name "row{k}".        *)
Insert(t, n, rs, peer, k) ==
    [op |-> "insert", row |-> [table |-> t, name |-> n, peer |-> peer, refs |-> {}],
     refs |-> rs, as |-> k]
Mutate(w, how, rs) == [op |-> "mutate", where |-> w, how |-> how, refs |-> rs]
UpdateController(w, r) == [op |-> "update", where |-> w, refs |-> {r}]
Delete(w)          == [op |-> "delete", where |-> w]
Wait               == [op |-> "wait"]

-----------------------------------------------------------------------------
(* The high-level operations, each a sequence of primitive ones; c is the  *)
(* value of uuid_counter when it is called.                                *)

(* Fault: the bridge is not registered with Open_vSwitch.                  *)
CreateBridgeUnregistered(c, b) ==
    <<Insert("Interface", b, {}, NoName, c),
      Insert("Port", b, {Named(c)}, NoName, c + 1),
      Insert("Bridge", b, {Named(c + 1)}, NoName, c + 2)>>

CreateBridge(c, b) ==
    <<Insert("Interface", b, {}, NoName, c),
      Insert("Port", b, {Named(c)}, NoName, c + 1),
      Insert("Bridge", b, {Named(c + 1)}, NoName, c + 2),
      Mutate(All("Open_vSwitch"), "insert", {Named(c + 2)})>>

(* add_port, add_internal_port, add_system_port and add_vlan_port: they    *)
(* differ in the columns left out.                                         *)
AddPort(c, b, p, peer) ==
    <<Insert("Interface", p, {}, peer, c),
      Insert("Port", p, {Named(c)}, NoName, c + 1),
      Mutate(ByName("Bridge", b), "insert", {Named(c + 1)})>>

(* add_patch_ports and add_trunk_patch_ports, with the default names.      *)
AddPatchPorts(c, b1, b2) ==
    AddPort(c, b1, b1 \o b2, b2 \o b1) \o AddPort(c + 2, b2, b2 \o b1, b1 \o b2)

SetController(c, b, target) ==
    <<Insert("Controller", target, {}, NoName, c),
      UpdateController(ByName("Bridge", b), Named(c))>>

DeleteBridge(b) ==
    <<Delete(ByName("Interface", b)), Delete(ByName("Port", b)), Delete(ByName("Bridge", b))>>

DeletePort(p) == <<Delete(ByName("Interface", p)), Delete(ByName("Port", p))>>

DeleteBridgeUuid(u, ports, ifaces) ==
    LET Deletes(t, S) == SetToSeq({Delete(ByUuid(t, x)) : x \in S})
    IN  <<Mutate(All("Open_vSwitch"), "delete", {Known(u)})>>
            \o Deletes("Interface", ifaces) \o Deletes("Port", ports)
            \o <<Delete(ByUuid("Bridge", u))>>

(* Fault: the port is not taken out of the bridge's set.                   *)
DeletePortUuidReferenced(b, p, i) ==
    <<Delete(ByUuid("Interface", i)), Delete(ByUuid("Port", p))>>

DeletePortUuid(b, p, i) ==
    <<Mutate(ByUuid("Bridge", b), "delete", {Known(p)}),
      Delete(ByUuid("Interface", i)), Delete(ByUuid("Port", p))>>

(* The names an operation sequence uses up: uuid_counter advances by it.   *)
Inserts(ops) == Cardinality({n \in DOMAIN ops : ops[n].op = "insert"})

-----------------------------------------------------------------------------
(* The server.  Contents: a function from uuids to rows; row 0 is the one  *)
(* of Open_vSwitch, whose references are its bridges.                      *)
Empty == [u \in {0} |-> [table |-> "Open_vSwitch", name |-> NoName, peer |-> NoName, refs |-> {}]]

(* f, with the entries of g where f has none.                              *)
Extend(f, g) == [x \in DOMAIN f \union DOMAIN g |-> IF x \in DOMAIN f THEN f[x] ELSE g[x]]

Matches(rows, w) ==
    {u \in DOMAIN rows : /\ rows[u].table = w.table
                         /\ w.by = "name" => rows[u].name = w.name
                         /\ w.by = "uuid" => u = w.uuid}

(* A transaction under way: rows, next free uuid, uuid-names given, one    *)
(* result per operation done.                                              *)
Start(rows, next) == [rows |-> rows, next |-> next, given |-> <<>>, results |-> <<>>]

Result(kind, u) == [kind |-> kind, uuid |-> u]

Do(s, o) ==
    LET uuids == {IF r.named THEN s.given[r.id] ELSE r.id : r \in o.refs}
        hit   == Matches(s.rows, o.where)
        Controllers == {x \in DOMAIN s.rows : s.rows[x].table = "Controller"}
        Refs(u) ==
            CASE o.op = "mutate" /\ o.how = "insert" -> s.rows[u].refs \union uuids
              [] o.op = "mutate" /\ o.how = "delete" -> s.rows[u].refs \ uuids
              [] o.op = "update" ->
                   {x \in s.rows[u].refs : x \notin Controllers} \union uuids
    IN  CASE o.op = "insert" ->
               [rows    |-> Extend(s.rows, [u \in {s.next} |-> [o.row EXCEPT !.refs = uuids]]),
                next    |-> s.next + 1,
                given   |-> Extend(s.given, [k \in {o.as} |-> s.next]),
                results |-> Append(s.results, Result("uuid", s.next))]
          [] o.op \in {"mutate", "update"} ->
               [s EXCEPT !.rows = [u \in DOMAIN @ |->
                                      IF u \in hit THEN [@[u] EXCEPT !.refs = Refs(u)] ELSE @[u]],
                         !.results = Append(@, Result("count", 0))]
          [] o.op = "delete" ->
               [s EXCEPT !.rows = [u \in DOMAIN @ \ hit |-> @[u]],
                         !.results = Append(@, Result("count", 0))]
          [] o.op = "wait" ->
               [s EXCEPT !.results = Append(@, Result("count", 0))]

(* At the end: rows nothing refers to are collected; then no reference may *)
(* dangle and a name may occur only once in its table.                     *)
Reached(rows) ==
    LET Onwards(S) == S \union UNION {rows[u].refs : u \in S \cap DOMAIN rows}
    IN  Onwards(Onwards(Onwards({0})))
Collect(rows) == [u \in Reached(rows) \cap DOMAIN rows |-> rows[u]]
Allowed(rows) ==
    /\ \A u \in DOMAIN rows : rows[u].refs \subseteq DOMAIN rows
    /\ \A u, v \in DOMAIN rows :
          /\ rows[u].table = rows[v].table /\ rows[u].name = rows[v].name
          /\ rows[u].table # "Controller"
          => u = v

(* The ways a transaction can go: an operation (a wait) fails and the rest *)
(* is not tried; the outcome is not allowed, which is one more result; or  *)
(* it is committed.                                                        *)
Outcomes(rows, next, ops) ==
    LET end  == FoldLeft(Do, Start(rows, next), ops)
        kept == Collect(end.rows)
        Failed(n) == [ok |-> FALSE, rows |-> rows, next |-> end.next, given |-> end.given,
                      results |-> Append(SubSeq(end.results, 1, n), Result("error", 0))]
    IN  {Failed(n - 1) : n \in {m \in DOMAIN ops : ops[m].op = "wait"}} \union
        {IF Allowed(kept)
         THEN [ok |-> TRUE, rows |-> kept, next |-> end.next, given |-> end.given,
               results |-> end.results]
         ELSE Failed(Len(ops))}
=============================================================================
