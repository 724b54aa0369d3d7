------------------------------ MODULE Datapath ------------------------------
(***************************************************************************)
(* What Open vSwitch does with a frame, as far as the flow templates of    *)
(* rovs-ext rely on it.  External: the switch is not part of rovs.         *)
(*                                                                         *)
(* A traversal is a record: the frame as it is now, the table it goes to   *)
(* next, the frames sent so far, the flow table and the tracked            *)
(* connections.  An action yields a set of traversals, as the switch may   *)
(* choose (an address of a range, an invalid packet).                      *)
(***************************************************************************)
EXTENDS Integers, SequencesExt

CONSTANT Ports

NoTable == -1
NoTag   == "none"

Field(f, name) ==
    IF name = "vlan_vid" THEN IF f.vlans = <<>> THEN NoTag ELSE Head(f.vlans) ELSE f[name]
WithField(f, name, v) ==
    IF name = "vlan_vid"
    THEN IF f.vlans = <<>> THEN f ELSE [f EXCEPT !.vlans[1] = v]
    ELSE [f EXCEPT ![name] = v]

Matches(m, f) ==
    \A c \in m : IF c[1] = "ct_state" THEN c[2] \subseteq f.ct ELSE Field(f, c[1]) = c[2]

-----------------------------------------------------------------------------
(* Flow mods.  An add replaces the flow of the same table, priority and    *)
(* match; a (non-strict) delete takes every flow with a match as specific. *)
SameFlow(f, g) == f.table = g.table /\ f.priority = g.priority /\ f.match = g.match
Entry(mod, owner) ==
    [table |-> mod.table, priority |-> mod.priority, match |-> mod.match,
     actions |-> mod.actions, owner |-> owner]
Applied(table, mod, owner) ==
    IF mod.command = "add"
    THEN {g \in table : ~SameFlow(g, mod)} \union {Entry(mod, owner)}
    ELSE {g \in table : ~(g.table = mod.table /\ mod.match \subseteq g.match)}

-----------------------------------------------------------------------------
(* Connection tracking.  port is the port of the service that the          *)
(* connection was opened to; n... are the same after translation.          *)
Of(c, f)      == f.ip_src = c.src /\ f.ip_dst = c.dst /\ f.tp_dst = c.port
Answers(c, f) == f.ip_src = c.ndst /\ f.ip_dst = c.nsrc /\ f.tp_src = c.nport

(* The states the tracker can find a packet in.  Packets of the opening    *)
(* side count as new until there has been an answer.                       *)
Tracked(s, zone) ==
    LET mine    == {c \in s.conns : c.zone = zone /\ Of(c, s.frame)}
        replied == {c \in s.conns : c.zone = zone /\ Answers(c, s.frame)}
        flags   == IF replied # {} THEN {"trk", "est", "rpl"}
                   ELSE IF \E c \in mine : c.replied THEN {"trk", "est"} ELSE {"trk", "new"}
    IN  {[s EXCEPT !.frame.ct = flags,
                   !.conns = (@ \ replied) \union {[c EXCEPT !.replied = TRUE] : c \in replied}],
         [s EXCEPT !.frame.ct = {"trk", "inv"}]}

Translated(f, c) == [f EXCEPT !.ip_src = c.nsrc, !.ip_dst = c.ndst, !.tp_dst = c.nport]
NewConn(f, zone, nat, addr) ==
    [zone |-> zone, by |-> f.in_port, src |-> f.ip_src, dst |-> f.ip_dst, port |-> f.tp_dst,
     nsrc |-> IF nat.kind = "src" THEN addr ELSE f.ip_src,
     ndst |-> IF nat.kind = "dst" THEN addr ELSE f.ip_dst,
     nport |-> IF nat.port = "same" THEN f.tp_dst ELSE nat.port, replied |-> FALSE]

Natted(s, a) ==
    LET known == {c \in s.conns : c.zone = a.zone /\ Of(c, s.frame)}
        conns == IF known # {} THEN known
                 ELSE {NewConn(s.frame, a.zone, a.nat, x) : x \in a.nat.addrs}
    IN  {[s EXCEPT !.frame = Translated(@, c), !.conns = @ \union {c}, !.next = a.table] : c \in conns}

-----------------------------------------------------------------------------
Sent(s, ps) == [s EXCEPT !.out = @ \union {[port |-> p, frame |-> s.frame] : p \in ps}]
Others(s)   == Ports \ {s.frame.in_port}
ToController == 0

Learned(s, a) ==
    Applied(s.table,
            [command |-> "add", table |-> a.table, priority |-> a.priority,
             match |-> {<<a.dst, Field(s.frame, a.src)>>},
             actions |-> <<[type |-> "output", port |-> Field(s.frame, a.out)]>>],
            s.owner)

Act(s, a) ==
    CASE a.type = "output"     -> {Sent(s, {a.port} \ {s.frame.in_port})}
      [] a.type = "in_port"    -> {Sent(s, {s.frame.in_port})}
      [] a.type = "controller" -> {Sent(s, {ToController})}
      [] a.type \in {"flood", "normal"} -> {Sent(s, Others(s))}
      [] a.type = "set"        -> {[s EXCEPT !.frame = WithField(@, a.field, a.value)]}
      [] a.type = "move"       -> {[s EXCEPT !.frame = WithField(@, a.dst, Field(@, a.src))]}
      [] a.type = "push_vlan"  -> {[s EXCEPT !.frame.vlans = <<"0">> \o @]}
      [] a.type = "pop_vlan"   -> {[s EXCEPT !.frame.vlans = Tail(@)]}
      [] a.type = "learn"      -> {[s EXCEPT !.table = Learned(s, a)]}
      [] a.type = "ct"         -> {[t EXCEPT !.next = a.table] : t \in Tracked(s, a.zone)}
      [] a.type = "ct_nat"     -> Natted(s, a)

(* One table: the flow of the highest priority that matches; any of them,  *)
(* if there are several; a miss drops the frame.                           *)
Hits(s) == {g \in s.table : g.table = s.next /\ Matches(g.match, s.frame)}
Best(gs) == {g \in gs : \A h \in gs : h.priority <= g.priority}
Acts(S, a) == UNION {Act(s, a) : s \in S}
Through(s, g) == FoldLeft(Acts, {[s EXCEPT !.next = NoTable, !.owner = g.owner]}, g.actions)
Visit(s) ==
    IF s.next = NoTable THEN {s}
    ELSE IF Hits(s) = {} THEN {[s EXCEPT !.next = NoTable]}
    ELSE UNION {Through(s, g) : g \in Best(Hits(s))}

(* Three tables are the longest way through any of the templates.          *)
Visits(S) == UNION {Visit(s) : s \in S}
Entered(table, conns, f) ==
    [frame |-> f, next |-> 0, out |-> {}, table |-> table, conns |-> conns, owner |-> "none"]
Traversals(table, conns, f) == Visits(Visits(Visits({Entered(table, conns, f)})))
=============================================================================
