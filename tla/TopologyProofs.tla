---------------------------- MODULE TopologyProofs ----------------------------
(***************************************************************************)
(* The calls of OvsClient and the topology builders leave no topology half *)
(* done: for any names, calls and number of calls, whatever is refused.    *)
(***************************************************************************)
EXTENDS Topology, TransactionOpsProofs

(* A registered bridge, a port of it and an interface of that.             *)
Held(c, u, x, y) == u \in c[0].refs /\ x \in c[u].refs /\ y \in c[x].refs

(* NoHalfTopology of any contents.                                         *)
OwnPorts(c) == \A u \in c[0].refs : \E x \in c[u].refs : c[x].table = "Port" /\ c[x].name = c[u].name
Partner(c, u, y) ==
    \E v, x, z : v # u /\ Held(c, v, x, z) /\ c[z].name = c[y].peer /\ c[z].peer = c[y].name
Paired(c) == \A u, x, y : Held(c, u, x, y) /\ c[y].peer # NoName => Partner(c, u, y)
Whole(c) == OwnPorts(c) /\ Paired(c)

LEMMA WholeIs == Whole(rows) => NoHalfTopology
  BY DEF Whole, OwnPorts, Paired, Partner, Held, NoHalfTopology

-----------------------------------------------------------------------------
(* What the calls that add put into a transaction: a bridge never without  *)
(* its local port, and a patch port never without its peer, each in a      *)
(* bridge that the same transaction creates.                               *)
Bridged(q) ==
    \A m \in DOMAIN q : q[m].op = "insert" /\ q[m].row.table = "Bridge" =>
        \E f, b : BridgeAt(q, f, b) /\ m = f + 2
Twin(q, m, b, p, d, peer) ==
    /\ PortAt(q, m, b, p, peer)
    /\ \E f : BridgeAt(q, f, b) /\ f + 3 < m
    /\ \E n : /\ PortAt(q, n, d, peer, p)
              /\ \E f : BridgeAt(q, f, d) /\ f + 3 < n
PeerInsert(q, m) == m \in DOMAIN q /\ q[m].op = "insert" /\ q[m].row.peer # NoName
Twinned(q) ==
    \A m \in DOMAIN q : PeerInsert(q, m) =>
        \E b, p, d : b # d /\ Twin(q, m, b, p, d, q[m].row.peer)

LEMMA BridgedConcat ==
    ASSUME NEW p, NEW q, OpList(p), OpList(q), Bridged(p), Bridged(q)
    PROVE  Bridged(p \o q)
<1>1. PICK pq : pq = p \o q
  OBVIOUS
<1>2. /\ Len(p) \in Nat /\ DOMAIN p = 1 .. Len(p) /\ DOMAIN q = 1 .. Len(q) /\ Len(q) \in Nat
  BY DEF OpList
<1>3. DOMAIN pq = 1 .. Len(p) + Len(q) /\ (\A n \in DOMAIN p : pq[n] = p[n])
      /\ \A n \in DOMAIN q : pq[Len(p) + n] = q[n]
  BY <1>1, ConcatIs
<1>4. /\ \A m, b : BridgeAt(p, m, b) => BridgeAt(pq, m, b)
      /\ \A m, b : BridgeAt(q, m, b) => BridgeAt(pq, Len(p) + m, b)
  BY <1>1, AtConcat
<1>5. ASSUME NEW m \in DOMAIN pq, pq[m].op = "insert", pq[m].row.table = "Bridge"
      PROVE  \E f, b : BridgeAt(pq, f, b) /\ m = f + 2
  <2>1. CASE m \in DOMAIN p
    BY <1>3, <1>4, <1>5, <2>1 DEF Bridged
  <2>2. CASE m \notin DOMAIN p
    <3>1. PICK n : n = m - Len(p)
      OBVIOUS
    <3>2. n \in DOMAIN q /\ Len(p) + n = m
      BY <1>2, <1>3, <2>2, <3>1
    <3>3. PICK f, b : BridgeAt(q, f, b) /\ n = f + 2
      BY <1>3, <1>5, <3>2 DEF Bridged
    <3>4. f \in Nat
      BY <1>2, <3>3 DEF BridgeAt
    <3>5. m = (Len(p) + f) + 2
      BY <1>2, <3>2, <3>3, <3>4
    <3> QED
      BY <1>4, <3>3, <3>5
  <2> QED
    BY <2>1, <2>2
<1>6. Bridged(pq)
  BY <1>5 DEF Bridged
<1> QED
  BY <1>1, <1>6

(* Where there are inserts of patch ports in p \o q.                       *)
LEMMA PeersConcat ==
    ASSUME NEW p, NEW q, OpList(p), OpList(q), NEW m, PeerInsert(p \o q, m)
    PROVE  PeerInsert(p, m) \/ \E n : PeerInsert(q, n) /\ m = Len(p) + n
<1>1. PICK pq : pq = p \o q
  OBVIOUS
<1>2. /\ Len(p) \in Nat /\ DOMAIN p = 1 .. Len(p) /\ DOMAIN q = 1 .. Len(q) /\ Len(q) \in Nat
  BY DEF OpList
<1>3. DOMAIN pq = 1 .. Len(p) + Len(q) /\ (\A n \in DOMAIN p : pq[n] = p[n])
      /\ \A n \in DOMAIN q : pq[Len(p) + n] = q[n]
  BY <1>1, ConcatIs
<1>4. PeerInsert(pq, m)
  BY <1>1
<1>5. CASE m \in DOMAIN p
  BY <1>3, <1>4, <1>5 DEF PeerInsert
<1>6. CASE m \notin DOMAIN p
  <2>1. PICK n : n = m - Len(p)
    OBVIOUS
  <2>2. n \in DOMAIN q /\ Len(p) + n = m
    BY <1>2, <1>3, <1>4, <1>6, <2>1 DEF PeerInsert
  <2> QED
    BY <1>3, <1>4, <2>2 DEF PeerInsert
<1> QED
  BY <1>5, <1>6

LEMMA CreateBridgeWhole ==
    ASSUME NEW k, NEW b
    PROVE  /\ Bridged(CreateBridge(k, b)) /\ \A m : ~PeerInsert(CreateBridge(k, b), m)
           /\ Len(CreateBridge(k, b)) = 4
<1>1. PICK x, y, z, w : /\ x = Insert("Interface", b, {}, NoName, k)
                        /\ y = Insert("Port", b, {Named(k)}, NoName, k + 1)
                        /\ z = Insert("Bridge", b, {Named(k + 1)}, NoName, k + 2)
                        /\ w = Mutate(All("Open_vSwitch"), "insert", {Named(k + 2)})
  OBVIOUS
<1>2. PICK q : q = <<x, y, z, w>> /\ q = CreateBridge(k, b)
  BY <1>1 DEF CreateBridge
<1>3. /\ x.row.table = "Interface" /\ x.row.peer = NoName /\ y.row.table = "Port" /\ y.row.peer = NoName
      /\ z.row.peer = NoName /\ w.op = "mutate"
  BY <1>1, InsertFacts, ChangeFacts
<1>4. DOMAIN q = 1 .. 4 /\ q[1] = x /\ q[2] = y /\ q[3] = z /\ q[4] = w /\ Len(q) = 4
  BY <1>2
<1>5. BridgeAt(q, 1, b)
  BY <1>2, CreateBridgeAt
<1>6. \A m \in DOMAIN q : q[m].op = "insert" /\ q[m].row.table = "Bridge" => m = 1 + 2
  BY <1>3, <1>4
<1>7. Bridged(q)
  BY <1>5, <1>6 DEF Bridged
<1>8. \A m : ~PeerInsert(q, m)
  BY <1>3, <1>4 DEF PeerInsert
<1> QED
  BY <1>2, <1>4, <1>7, <1>8

LEMMA AddPortWhole ==
    ASSUME NEW k, NEW b, NEW p, NEW peer
    PROVE  /\ Bridged(AddPort(k, b, p, peer)) /\ Len(AddPort(k, b, p, peer)) = 3
           /\ \A m : PeerInsert(AddPort(k, b, p, peer), m) => m = 1 /\ peer # NoName
<1>1. PICK x, y, w : /\ x = Insert("Interface", p, {}, peer, k)
                     /\ y = Insert("Port", p, {Named(k)}, NoName, k + 1)
                     /\ w = Mutate(ByName("Bridge", b), "insert", {Named(k + 1)})
  OBVIOUS
<1>2. PICK q : q = <<x, y, w>> /\ q = AddPort(k, b, p, peer)
  BY <1>1 DEF AddPort
<1>3. /\ x.row.table = "Interface" /\ x.row.peer = peer /\ y.row.table = "Port" /\ y.row.peer = NoName
      /\ w.op = "mutate"
  BY <1>1, InsertFacts, ChangeFacts
<1>4. DOMAIN q = 1 .. 3 /\ q[1] = x /\ q[2] = y /\ q[3] = w /\ Len(q) = 3
  BY <1>2
<1>5. Bridged(q)
  BY <1>3, <1>4 DEF Bridged
<1>6. \A m : PeerInsert(q, m) => m = 1 /\ peer # NoName
  BY <1>3, <1>4 DEF PeerInsert
<1> QED
  BY <1>2, <1>4, <1>5, <1>6

-----------------------------------------------------------------------------
(* The calls that add.                                                     *)
Part(q, k, l) == Linked(q) /\ Numbered(q, k, l) /\ OnlyAdds(q) /\ Bridged(q)
Addition(q) == (\E l : Part(q, 0, l)) /\ Twinned(q)

LEMMA PartConcat ==
    ASSUME NEW p, NEW q, NEW k, NEW l, NEW m, Part(p, k, l), Part(q, l, m)
    PROVE  Part(p \o q, k, m)
<1>1. PICK pq : pq = p \o q
  OBVIOUS
<1>2. OpList(p) /\ OpList(q)
  BY DEF Part, Linked
<1>3. Linked(pq)
  BY <1>1, LinkedConcat DEF Part
<1>4. Numbered(pq, k, m)
  BY <1>1, <1>2, NumberedConcat DEF Part
<1>5. OnlyAdds(pq)
  BY <1>1, AddsConcat DEF Part
<1>6. Bridged(pq)
  BY <1>1, <1>2, BridgedConcat DEF Part
<1>7. Part(pq, k, m)
  BY <1>3, <1>4, <1>5, <1>6 DEF Part
<1> QED
  BY <1>1, <1>7

LEMMA LenConcat ==
    ASSUME NEW p, NEW q, OpList(p), OpList(q)
    PROVE  Len(p \o q) = Len(p) + Len(q)
<1>1. PICK S : p \in Seq(S)
  BY DEF OpList
<1>2. PICK T : q \in Seq(T)
  BY DEF OpList
<1>3. p \in Seq(S \union T) /\ q \in Seq(S \union T)
  BY <1>1, <1>2
<1> QED
  BY <1>3

LEMMA CreateBridgePart == ASSUME NEW k \in Nat, NEW b PROVE Part(CreateBridge(k, b), k, k + 3)
<1>1. PICK q : q = CreateBridge(k, b)
  OBVIOUS
<1>2. Linked(q) /\ Numbered(q, k, k + 3)
  BY <1>1, CreateBridgeBuilt DEF Built
<1>3. OnlyAdds(q) /\ Bridged(q)
  BY <1>1, HelpersAdd, CreateBridgeWhole
<1>4. Part(q, k, k + 3)
  BY <1>2, <1>3 DEF Part
<1> QED
  BY <1>1, <1>4

LEMMA AddPortPart ==
    ASSUME NEW k \in Nat, NEW b, NEW p, NEW peer
    PROVE  Part(AddPort(k, b, p, peer), k, k + 2)
<1>1. PICK q : q = AddPort(k, b, p, peer)
  OBVIOUS
<1>2. Linked(q) /\ Numbered(q, k, k + 2)
  BY <1>1, AddPortBuilt DEF Built
<1>3. OnlyAdds(q) /\ Bridged(q)
  BY <1>1, HelpersAdd, AddPortWhole
<1>4. Part(q, k, k + 2)
  BY <1>2, <1>3 DEF Part
<1> QED
  BY <1>1, <1>4

LEMMA CreateBridgeAdds == ASSUME NEW b PROVE Addition(CreateBridge(0, b))
<1>1. PICK q : q = CreateBridge(0, b)
  OBVIOUS
<1>2. Part(q, 0, 0 + 3)
  BY <1>1, CreateBridgePart
<1>3. Twinned(q)
  BY <1>1, CreateBridgeWhole DEF Twinned
<1>4. Addition(q)
  BY <1>2, <1>3 DEF Addition
<1> QED
  BY <1>1, <1>4

LEMMA AddPortAdds == ASSUME NEW b, NEW p PROVE Addition(AddPort(0, b, p, NoName))
<1>1. PICK q : q = AddPort(0, b, p, NoName)
  OBVIOUS
<1>2. Part(q, 0, 0 + 2)
  BY <1>1, AddPortPart
<1>3. Twinned(q)
  BY <1>1, AddPortWhole DEF Twinned
<1>4. Addition(q)
  BY <1>2, <1>3 DEF Addition
<1> QED
  BY <1>1, <1>4

LEMMA TrunkAdds == ASSUME NEW own, NEW b, NEW p PROVE own \in BOOLEAN => Addition(Trunk(own, b, p))
<1>1. CASE own = FALSE
  BY <1>1, AddPortAdds DEF Trunk
<1>2. CASE own = TRUE
  <2>1. PICK v : v = CreateBridge(0, b)
    OBVIOUS
  <2>2. PICK w : w = AddPort(3, b, p, NoName)
    OBVIOUS
  <2>3. PICK q : q = v \o w
    OBVIOUS
  <2>4. Part(v, 0, 3) /\ Part(w, 3, 5)
    <3>1. Part(v, 0, 0 + 3) /\ Part(w, 3, 3 + 2)
      BY <2>1, <2>2, CreateBridgePart, AddPortPart
    <3> QED
      BY <3>1
  <2>5. Part(q, 0, 5)
    BY <2>3, <2>4, PartConcat
  <2>6. OpList(v) /\ OpList(w)
    BY <2>4 DEF Part, Linked
  <2>7. \A m : ~PeerInsert(v, m) /\ ~PeerInsert(w, m)
    BY <2>1, <2>2, CreateBridgeWhole, AddPortWhole
  <2>8. \A m : ~PeerInsert(q, m)
    BY <2>3, <2>6, <2>7, PeersConcat
  <2>9. Addition(q)
    BY <2>5, <2>8 DEF Addition, Twinned
  <2>10. q = Trunk(own, b, p)
    BY <1>2, <2>1, <2>2, <2>3 DEF Trunk
  <2> QED
    BY <2>9, <2>10
<1> QED
  BY <1>1, <1>2

LEMMA PairAdds == ASSUME NEW b, NEW d, b # d PROVE Addition(Pair(b, d))
<1>1. PICK v, w : v = CreateBridge(0, b) /\ w = CreateBridge(3, d)
  OBVIOUS
<1>2. PICK bd, db : bd = b \o d /\ db = d \o b
  OBVIOUS
<1>3. PICK x, y : x = AddPort(6, b, bd, db) /\ y = AddPort(6 + 2, d, db, bd)
  OBVIOUS
<1>4. PICK vw : vw = v \o w
  OBVIOUS
<1>5. PICK xy : xy = x \o y
  OBVIOUS
<1>6. PICK q : q = vw \o xy
  OBVIOUS
<1>7. q = Pair(b, d) /\ xy = AddPatchPorts(6, b, d)
  BY <1>1, <1>2, <1>3, <1>4, <1>5, <1>6 DEF Pair, AddPatchPorts
<1>8. Part(v, 0, 0 + 3) /\ Part(w, 3, 3 + 3) /\ Part(x, 6, 6 + 2) /\ Part(y, 6 + 2, (6 + 2) + 2)
  <2>1. 6 + 2 \in Nat
    OBVIOUS
  <2>2. Part(v, 0, 0 + 3) /\ Part(w, 3, 3 + 3)
    BY <1>1, CreateBridgePart
  <2>3. Part(x, 6, 6 + 2)
    BY <1>3, AddPortPart
  <2>4. Part(y, 6 + 2, (6 + 2) + 2)
    BY <1>3, <2>1, AddPortPart
  <2> QED
    BY <2>2, <2>3, <2>4
<1>9. Part(v, 0, 3) /\ Part(w, 3, 6) /\ Part(x, 6, 8) /\ Part(y, 8, 10)
  <2>1. 0 + 3 = 3 /\ 3 + 3 = 6 /\ 6 + 2 = 8 /\ (6 + 2) + 2 = 10
    OBVIOUS
  <2> QED
    BY <1>8, <2>1
<1>10. Part(vw, 0, 6) /\ Part(xy, 6, 10)
  BY <1>4, <1>5, <1>9, PartConcat
<1>11. Part(q, 0, 10)
  BY <1>6, <1>10, PartConcat
<1>12. OpList(v) /\ OpList(w) /\ OpList(x) /\ OpList(y) /\ OpList(vw) /\ OpList(xy)
  BY <1>9, <1>10 DEF Part, Linked
<1>13. Len(v) = 4 /\ Len(w) = 4 /\ Len(x) = 3 /\ Len(vw) = 8
  <2>1. Len(v) = 4 /\ Len(w) = 4 /\ Len(x) = 3
    BY <1>1, <1>3, CreateBridgeWhole, AddPortWhole
  <2>2. Len(vw) = Len(v) + Len(w)
    BY <1>4, <1>12, LenConcat
  <2> QED
    BY <2>1, <2>2
<1>14. BridgeAt(q, 1, b) /\ BridgeAt(q, 5, d)
  <2>1. BridgeAt(v, 1, b) /\ BridgeAt(w, 1, d)
    BY <1>1, CreateBridgeAt
  <2>2. BridgeAt(vw, 1, b) /\ BridgeAt(vw, Len(v) + 1, d)
    BY <1>4, <1>12, <2>1, AtConcat
  <2>3. BridgeAt(q, 1, b) /\ BridgeAt(q, Len(v) + 1, d)
    BY <1>6, <1>12, <2>2, AtConcat
  <2> QED
    BY <1>13, <2>3
<1>15. PortAt(q, 9, b, bd, db) /\ PortAt(q, 12, d, db, bd)
  <2>1. PortAt(xy, 1, b, bd, db) /\ PortAt(xy, 4, d, db, bd)
    BY <1>2, <1>7, AddPatchPortsAt
  <2>2. PortAt(q, Len(vw) + 1, b, bd, db) /\ PortAt(q, Len(vw) + 4, d, db, bd)
    BY <1>6, <1>12, <2>1, AtConcat
  <2> QED
    BY <1>13, <2>2
<1>16. ASSUME NEW m, PeerInsert(q, m) PROVE m \in {9, 12}
  <2>1. \A n : ~PeerInsert(v, n) /\ ~PeerInsert(w, n)
    BY <1>1, CreateBridgeWhole
  <2>2. \A n : ~PeerInsert(vw, n)
    BY <1>4, <1>12, <2>1, PeersConcat
  <2>3. PICK n : PeerInsert(xy, n) /\ m = 8 + n
    <3>1. PeerInsert(vw \o xy, m)
      BY <1>6, <1>16
    <3>2. PeerInsert(vw, m) \/ \E n : PeerInsert(xy, n) /\ m = Len(vw) + n
      BY <1>12, <3>1, PeersConcat
    <3> QED
      BY <1>13, <2>2, <3>2
  <2>4. \A l : PeerInsert(x, l) \/ PeerInsert(y, l) => l = 1
    BY <1>3, AddPortWhole
  <2>5. n = 1 \/ n = 4
    <3>1. PeerInsert(x \o y, n)
      BY <1>5, <2>3
    <3>2. PeerInsert(x, n) \/ \E l : PeerInsert(y, l) /\ n = Len(x) + l
      BY <1>12, <3>1, PeersConcat
    <3> QED
      BY <1>13, <2>4, <3>2
  <2> QED
    BY <2>3, <2>5
<1>17. Twin(q, 9, b, bd, d, db) /\ Twin(q, 12, d, db, b, bd)
  <2>1. 1 + 3 < 9 /\ 5 + 3 < 12
    OBVIOUS
  <2> QED
    BY <1>14, <1>15, <2>1 DEF Twin
<1>18. q[9].row.peer = db /\ q[12].row.peer = bd
  BY <1>15 DEF PortAt
<1>19. Twinned(q)
  BY <1>16, <1>17, <1>18 DEF Twinned
<1>20. Addition(q)
  BY <1>11, <1>19 DEF Addition
<1> QED
  BY <1>7, <1>20

-----------------------------------------------------------------------------
(* What the calls that add make of a whole topology, when they commit.     *)

(* A bridge, its ports and their interfaces are what their tables say.     *)
LEMMA HeldTables ==
    ASSUME NEW c, NEW i, Tree(c, i), NEW u, NEW x, NEW y, Held(c, u, x, y)
    PROVE  /\ 0 \in DOMAIN c /\ u \in DOMAIN c /\ x \in DOMAIN c /\ y \in DOMAIN c
           /\ c[u].table = "Bridge" /\ c[x].table = "Port" /\ c[y].table = "Interface"
<1>1. 0 \in DOMAIN c /\ u \in DOMAIN c /\ x \in DOMAIN c /\ y \in DOMAIN c
  BY DEF Tree, Layered, Allowed, Held
<1>2. Above(c[0].table, c[u].table) /\ Above(c[u].table, c[x].table) /\ Above(c[x].table, c[y].table)
  BY <1>1 DEF Tree, Layered, Held
<1>3. c[0].table = "Open_vSwitch"
  BY <1>1 DEF Tree, Layered
<1> QED
  BY <1>1, <1>2, <1>3 DEF Above

(* A row that was there and that is reached is there, with what it had.    *)
LEMMA OldStays ==
    ASSUME NEW r, NEW i, NEW q, NEW s, Landing(r, i, q, s)
    PROVE  LET k == Collect(s.rows)
           IN  \A u \in DOMAIN r : u \in DOMAIN k =>
                  /\ SameRow(r[u], k[u])
                  /\ \A x \in r[u].refs : r[x].table # "Controller" =>
                        x \in k[u].refs /\ x \in DOMAIN r /\ x \in DOMAIN k
<1> DEFINE k == Collect(s.rows)
<1>1. Kept(r, s) /\ Allowed(r) /\ Allowed(k)
  BY DEF Landing, Grown, Tree
<1>2. \A u \in DOMAIN k : u \in DOMAIN s.rows /\ k[u] = s.rows[u]
  BY KeptFacts
<1> HIDE DEF k
<1>3. \A u \in DOMAIN r : \A x \in r[u].refs : x \in DOMAIN r
  BY <1>1 DEF Allowed
<1>4. \A u \in DOMAIN k : \A x \in k[u].refs : x \in DOMAIN k
  BY <1>1 DEF Allowed
<1>5. \A u \in DOMAIN r : u \in DOMAIN k =>
         /\ SameRow(r[u], k[u])
         /\ \A x \in r[u].refs : r[x].table # "Controller" =>
               x \in k[u].refs /\ x \in DOMAIN r /\ x \in DOMAIN k
  BY <1>1, <1>2, <1>3, <1>4 DEF Kept, Stays
<1> QED
  BY <1>5 DEF k

LEMMA HeldStays ==
    ASSUME NEW r, NEW i, NEW q, NEW s, Landing(r, i, q, s), NEW u, NEW x, NEW y, Held(r, u, x, y)
    PROVE  LET k == Collect(s.rows)
           IN  Held(k, u, x, y) /\ SameRow(r[y], k[y])
<1> DEFINE k == Collect(s.rows)
<1>1. Tree(r, i) /\ Tree(k, s.next)
  BY DEF Landing
<1>2. /\ 0 \in DOMAIN r /\ u \in DOMAIN r /\ x \in DOMAIN r /\ y \in DOMAIN r
      /\ r[u].table = "Bridge" /\ r[x].table = "Port" /\ r[y].table = "Interface"
  BY <1>1, HeldTables
<1>3. 0 \in DOMAIN k
  BY <1>1 DEF Tree, Layered
<1>4. \A v \in DOMAIN r : v \in DOMAIN k =>
         /\ SameRow(r[v], k[v])
         /\ \A z \in r[v].refs : r[z].table # "Controller" =>
               z \in k[v].refs /\ z \in DOMAIN r /\ z \in DOMAIN k
  BY OldStays
<1> HIDE DEF k
<1>5. u \in k[0].refs /\ u \in DOMAIN k
  BY <1>2, <1>3, <1>4 DEF Held
<1>6. x \in k[u].refs /\ x \in DOMAIN k
  BY <1>2, <1>4, <1>5 DEF Held
<1>7. y \in k[x].refs /\ y \in DOMAIN k /\ SameRow(r[y], k[y])
  BY <1>2, <1>4, <1>6 DEF Held
<1> QED
  BY <1>5, <1>6, <1>7 DEF Held, k

(* A row that is there now was there, or its insert is one of the calls'.  *)
LEMMA OldOrNew ==
    ASSUME NEW r, NEW i, NEW q, NEW s, Landing(r, i, q, s), NEW u \in DOMAIN Collect(s.rows), u \notin DOMAIN r
    PROVE  \E m \in DOMAIN q : /\ q[m].op = "insert" /\ u = Given(q, s, m)
                               /\ SameRow(q[m].row, Collect(s.rows)[u])
<1>1. u \in DOMAIN s.rows /\ Collect(s.rows)[u] = s.rows[u]
  BY KeptFacts
<1>2. NoOthers(r, q, Len(q), s) /\ DOMAIN q = 1 .. Len(q)
  BY LandingFacts DEF Landing, Grown
<1>3. PICK m \in DOMAIN q : q[m].op = "insert" /\ u = Given(q, s, m)
  BY <1>1, <1>2 DEF NoOthers
<1>4. SameRow(q[m].row, s.rows[Given(q, s, m)])
  BY <1>3, InsertLands
<1> QED
  BY <1>1, <1>3, <1>4

LEMMA OwnPortsStay ==
    ASSUME NEW r, NEW i, NEW q, NEW s, Landing(r, i, q, s), Older(r, i, Collect(s.rows)), OwnPorts(r), Bridged(q)
    PROVE  OwnPorts(Collect(s.rows))
<1> DEFINE k == Collect(s.rows)
<1>1. Tree(r, i) /\ Tree(k, s.next)
  BY DEF Landing
<1>2. 0 \in DOMAIN k /\ 0 \in DOMAIN r
  BY <1>1 DEF Tree, Layered
<1>3. Older(r, i, k)
  OBVIOUS
<1>4. \A v \in DOMAIN r : v \in DOMAIN k =>
         /\ SameRow(r[v], k[v])
         /\ \A z \in r[v].refs : r[z].table # "Controller" =>
               z \in k[v].refs /\ z \in DOMAIN r /\ z \in DOMAIN k
  BY OldStays
<1>5. \A u \in DOMAIN k : u \in DOMAIN r \/ \E m \in DOMAIN q : /\ q[m].op = "insert" /\ u = Given(q, s, m)
                                                               /\ SameRow(q[m].row, k[u])
  BY OldOrNew
<1>6. \A m, b : BridgeAt(q, m, b) => Hung(k, Given(q, s, m + 2), b, Given(q, s, m + 1), b, Given(q, s, m), NoName)
  BY BridgeLands
<1> HIDE DEF k
<1> SUFFICES ASSUME NEW u \in k[0].refs
             PROVE  \E x \in k[u].refs : k[x].table = "Port" /\ k[x].name = k[u].name
  BY DEF OwnPorts, k
<1>7. u \in DOMAIN k /\ k[u].table = "Bridge"
  <2>1. u \in DOMAIN k
    BY <1>1, <1>2 DEF Tree, Allowed
  <2>2. Above(k[0].table, k[u].table) /\ k[0].table = "Open_vSwitch"
    BY <1>1, <1>2, <2>1 DEF Tree, Layered
  <2> QED
    BY <2>1, <2>2 DEF Above
<1>8. CASE u \in DOMAIN r
  <2>1. u < i
    BY <1>1, <1>8 DEF Tree, Below
  <2>2. u \in r[0].refs
    BY <1>2, <1>3, <2>1 DEF Older
  <2>3. PICK x \in r[u].refs : r[x].table = "Port" /\ r[x].name = r[u].name
    BY <2>2 DEF OwnPorts
  <2>4. x \in k[u].refs /\ x \in DOMAIN r /\ x \in DOMAIN k
    BY <1>4, <1>7, <1>8, <2>3
  <2>5. SameRow(r[x], k[x]) /\ SameRow(r[u], k[u])
    BY <1>4, <1>7, <1>8, <2>4
  <2> QED
    BY <2>3, <2>4, <2>5 DEF SameRow
<1>9. CASE u \notin DOMAIN r
  <2>1. PICK m \in DOMAIN q : q[m].op = "insert" /\ u = Given(q, s, m) /\ SameRow(q[m].row, k[u])
    BY <1>5, <1>7, <1>9
  <2>2. q[m].row.table = "Bridge"
    BY <1>7, <2>1 DEF SameRow
  <2>3. PICK f, b : BridgeAt(q, f, b) /\ m = f + 2
    BY <2>1, <2>2 DEF Bridged
  <2>4. Hung(k, u, b, Given(q, s, f + 1), b, Given(q, s, f), NoName)
    BY <1>6, <2>1, <2>3
  <2> QED
    BY <2>4 DEF Hung
<1> QED
  BY <1>8, <1>9

(* The peer of a patch port that a call has inserted.                      *)
LEMMA TwinLands ==
    ASSUME NEW r, NEW i, NEW q, NEW s, Landing(r, i, q, s), NEW m, NEW b, NEW p, NEW d, NEW peer, b # d,
           Twin(q, m, b, p, d, peer), NEW u, NEW x, Held(Collect(s.rows), u, x, Given(q, s, m))
    PROVE  /\ Collect(s.rows)[Given(q, s, m)].name = p /\ Collect(s.rows)[Given(q, s, m)].peer = peer
           /\ Partner(Collect(s.rows), u, Given(q, s, m))
<1> DEFINE k == Collect(s.rows)
           y == Given(q, s, m)
<1>1. PICK f : BridgeAt(q, f, b) /\ f + 3 < m
  BY DEF Twin
<1>2. PICK n : PortAt(q, n, d, peer, p) /\ \E g : BridgeAt(q, g, d) /\ g + 3 < n
  BY DEF Twin
<1>3. PICK g : BridgeAt(q, g, d) /\ g + 3 < n
  BY <1>2
<1>4. m \in Nat /\ n \in Nat /\ f \in Nat /\ g \in Nat /\ PortAt(q, m, b, p, peer)
  <2>1. DOMAIN q = 1 .. Len(q) /\ Len(q) \in Nat
    BY LandingFacts
  <2>2. PortAt(q, m, b, p, peer)
    BY DEF Twin
  <2> QED
    <3>1. m \in DOMAIN q /\ n \in DOMAIN q
      BY <1>2, <2>2 DEF PortAt
    <3>2. f \in DOMAIN q /\ g \in DOMAIN q
      BY <1>1, <1>3 DEF BridgeAt
    <3>3. \A z \in DOMAIN q : z \in Nat
      BY <2>1
    <3> QED
      BY <2>2, <3>1, <3>2, <3>3
<1>5. PICK w : w = Given(q, s, f + 2)
  OBVIOUS
<1>6. PICK v : v = Given(q, s, g + 2)
  OBVIOUS
<1>7. w \in s.rows[0].refs /\ w \in Matches(s.rows, ByName("Bridge", b)) /\ Seen(r, q, m + 2, s, w)
  <2>1. m + 2 \in Nat /\ f + 3 < m + 2
    BY <1>1, <1>4
  <2> QED
    BY <1>1, <1>5, <2>1, NewBridge
<1>8. v \in s.rows[0].refs /\ v \in Matches(s.rows, ByName("Bridge", d)) /\ Seen(r, q, n + 2, s, v)
  <2>1. n + 2 \in Nat /\ g + 3 < n + 2
    BY <1>3, <1>4
  <2> QED
    BY <1>3, <1>6, <2>1, NewBridge
<1>9. Hung(k, w, b, Given(q, s, m + 1), p, y, peer)
  BY <1>4, <1>7, PortLands
<1>10. Hung(k, v, d, Given(q, s, n + 1), peer, Given(q, s, n), p)
  BY <1>2, <1>8, PortLands
<1>11. Tree(k, s.next) /\ Held(k, u, x, y)
  BY DEF Landing
<1> HIDE DEF k, y
<1>12. 0 \in DOMAIN k /\ u \in DOMAIN k /\ x \in DOMAIN k
  BY <1>11, HeldTables
<1>13. Held(k, w, Given(q, s, m + 1), y)
  BY <1>9 DEF Hung, Held
<1>14. w \in DOMAIN k /\ Given(q, s, m + 1) \in DOMAIN k
  BY <1>11, <1>13, HeldTables
<1>15. x = Given(q, s, m + 1)
  BY <1>11, <1>12, <1>13, <1>14 DEF Tree, OneParent, Held
<1>16. u = w
  BY <1>11, <1>12, <1>13, <1>14, <1>15 DEF Tree, OneParent, Held
<1>17. v # u
  BY <1>9, <1>10, <1>16 DEF Hung
<1>18. k[y].name = p /\ k[y].peer = peer
  BY <1>9 DEF Hung
<1>19. Held(k, v, Given(q, s, n + 1), Given(q, s, n)) /\ k[Given(q, s, n)].name = peer /\ k[Given(q, s, n)].peer = p
  BY <1>10 DEF Hung, Held
<1>20. Partner(k, u, y)
  BY <1>17, <1>18, <1>19 DEF Partner
<1> QED
  BY <1>18, <1>20 DEF k, y

LEMMA PairedStays ==
    ASSUME NEW r, NEW i, NEW q, NEW s, Landing(r, i, q, s), Older(r, i, Collect(s.rows)), Paired(r), Twinned(q)
    PROVE  Paired(Collect(s.rows))
<1> DEFINE k == Collect(s.rows)
<1>1. Tree(r, i) /\ Tree(k, s.next)
  BY DEF Landing
<1>2. \A u, x, y : Held(r, u, x, y) => Held(k, u, x, y) /\ SameRow(r[y], k[y])
  BY HeldStays
<1>3. Older(r, i, k)
  OBVIOUS
<1>4. \A y \in DOMAIN k : y \in DOMAIN r \/ \E m \in DOMAIN q : /\ q[m].op = "insert" /\ y = Given(q, s, m)
                                                               /\ SameRow(q[m].row, k[y])
  BY OldOrNew
<1>5. \A m, b, p, d, peer, u, x :
         b # d /\ Twin(q, m, b, p, d, peer) /\ Held(k, u, x, Given(q, s, m)) => Partner(k, u, Given(q, s, m))
  BY TwinLands
<1> HIDE DEF k
<1> SUFFICES ASSUME NEW u, NEW x, NEW y, Held(k, u, x, y), k[y].peer # NoName
             PROVE  Partner(k, u, y)
  BY DEF Paired, k
<1>6. 0 \in DOMAIN k /\ u \in DOMAIN k /\ x \in DOMAIN k /\ y \in DOMAIN k
  BY <1>1, HeldTables
<1>7. CASE y \in DOMAIN r
  <2>1. \A z \in DOMAIN r : z < i
    BY <1>1 DEF Tree, Below
  <2>2. x \in DOMAIN r /\ y \in r[x].refs
    BY <1>3, <1>6, <1>7, <2>1 DEF Older, Held
  <2>3. u \in DOMAIN r /\ x \in r[u].refs
    BY <1>3, <1>6, <2>1, <2>2 DEF Older, Held
  <2>4. u \in r[0].refs
    BY <1>3, <1>6, <2>1, <2>3 DEF Older, Held
  <2>5. Held(r, u, x, y)
    BY <2>2, <2>3, <2>4 DEF Held
  <2>6. SameRow(r[y], k[y])
    BY <1>2, <2>5
  <2>7. Partner(r, u, y)
    BY <2>5, <2>6 DEF Paired, SameRow
  <2>8. PICK v, a, z : v # u /\ Held(r, v, a, z) /\ r[z].name = r[y].peer /\ r[z].peer = r[y].name
    BY <2>7 DEF Partner
  <2>9. Held(k, v, a, z) /\ SameRow(r[z], k[z])
    BY <1>2, <2>8
  <2> QED
    BY <2>6, <2>8, <2>9 DEF Partner, SameRow
<1>8. CASE y \notin DOMAIN r
  <2>1. PICK m \in DOMAIN q : q[m].op = "insert" /\ y = Given(q, s, m) /\ SameRow(q[m].row, k[y])
    BY <1>4, <1>6, <1>8
  <2>2. PeerInsert(q, m)
    BY <2>1 DEF PeerInsert, SameRow
  <2>3. PICK b, p, d : b # d /\ Twin(q, m, b, p, d, q[m].row.peer)
    BY <2>2 DEF Twinned
  <2> QED
    BY <1>5, <2>1, <2>3
<1> QED
  BY <1>7, <1>8

LEMMA AdditionKeeps ==
    ASSUME NEW r, NEW i, Tree(r, i), Whole(r), NEW q, Addition(q), NEW o \in Outcomes(r, i, q)
    PROVE  Tree(o.rows, o.next) /\ Whole(o.rows)
<1> DEFINE end == FoldLeft(Do, Start(r, i), q)
<1>1. PICK l : Part(q, 0, l)
  BY DEF Addition
<1>2. Linked(q) /\ Numbered(q, 0, l) /\ OpList(q) /\ Bridged(q) /\ Twinned(q) /\ OnlyAdds(q)
  BY <1>1 DEF Part, Linked, Addition
<1>3. \A n \in DOMAIN q : Adding(q[n])
  BY <1>2, AddsAll
<1>4. Grown(r, q, Len(q), end) /\ Mid(r, i, q, Len(q), end)
  BY <1>2, <1>3, GrownAll
<1>5. Tree(o.rows, o.next) /\ Older(r, i, o.rows)
  BY <1>2, Settled
<1>6. (\E n : o = Failure(r, end, n)) \/ (Allowed(Collect(end.rows)) /\ o = Success(end))
  BY <1>2, OutcomeIs
<1> HIDE DEF end
<1>7. CASE \E n : o = Failure(r, end, n)
  BY <1>5, <1>7 DEF Failure
<1>8. CASE Allowed(Collect(end.rows)) /\ o = Success(end)
  <2>1. o.rows = Collect(end.rows) /\ o.next = end.next
    BY <1>8 DEF Success
  <2>2. Landing(r, i, q, end) /\ Older(r, i, Collect(end.rows))
    BY <1>2, <1>4, <1>5, <2>1 DEF Landing
  <2>3. OwnPorts(Collect(end.rows)) /\ Paired(Collect(end.rows))
    BY <1>2, <2>2, OwnPortsStay, PairedStays DEF Whole
  <2> QED
    BY <1>5, <2>1, <2>3 DEF Whole
<1> QED
  BY <1>6, <1>7, <1>8

-----------------------------------------------------------------------------
(* The calls that delete do so by name, which leaves the reference to what *)
(* is deleted: none of them commits unless it deletes nothing.             *)
Deletion(q) == OpList(q) /\ \A n \in DOMAIN q : q[n].op = "delete" /\ Removing(q[n])

LEMMA DeletionKeeps ==
    ASSUME NEW r, NEW i, Tree(r, i), Whole(r), NEW q, Deletion(q), NEW o \in Outcomes(r, i, q)
    PROVE  Tree(o.rows, o.next) /\ Whole(o.rows)
<1> DEFINE end == FoldLeft(Do, Start(r, i), q)
           k == Collect(end.rows)
<1>1. OpList(q) /\ DOMAIN q = 1 .. Len(q) /\ \A n \in DOMAIN q : Removing(q[n])
  BY DEF Deletion, OpList
<1>2. Linked(q) /\ Numbered(q, 0, 0 + 0)
  BY <1>1, RemovingBuilt DEF Built
<1>3. Tree(o.rows, o.next)
  BY <1>2, Settled
<1>4. Shrunk(r, q, Len(q), end)
  BY <1>1, ShrunkAll
<1>5. (\E n : o = Failure(r, end, n)) \/ (Allowed(k) /\ o = Success(end))
  BY <1>1, OutcomeIs
<1>6. \A v \in DOMAIN k : v \in DOMAIN end.rows /\ k[v] = end.rows[v]
  BY KeptFacts
<1> HIDE DEF end
<1>7. CASE \E n : o = Failure(r, end, n)
  BY <1>3, <1>7 DEF Failure
<1>8. CASE Allowed(k) /\ o = Success(end)
  <2>1. o.rows = k
    BY <1>8 DEF Success
  <2>2. \A v \in DOMAIN end.rows : SameRow(r[v], end.rows[v]) /\ end.rows[v].refs = r[v].refs
    BY <1>1, <1>4 DEF Shrunk, Deletion
  <2> HIDE DEF k
  <2>3. \A v \in DOMAIN k : SameRow(r[v], k[v]) /\ k[v].refs = r[v].refs /\ k[v].refs \subseteq DOMAIN k
    BY <1>6, <1>8, <2>2 DEF Allowed
  <2>4. 0 \in DOMAIN k
    BY <1>3, <2>1 DEF Tree, Layered
  <2>5. k[0].refs = r[0].refs
    BY <2>3, <2>4
  <2>6. ASSUME NEW u \in r[0].refs
        PROVE  u \in DOMAIN k /\ \A x \in r[u].refs : x \in DOMAIN k /\ \A y \in r[x].refs : y \in DOMAIN k
    <3>1. u \in DOMAIN k
      BY <2>3, <2>4
    <3>2. \A x \in r[u].refs : x \in DOMAIN k
      BY <2>3, <3>1
    <3> QED
      BY <2>3, <3>1, <3>2
  <2>7. \A u, x, y : Held(k, u, x, y) <=> Held(r, u, x, y)
    BY <2>3, <2>5, <2>6 DEF Held
  <2>8. \A u, x, y : Held(r, u, x, y) => SameRow(r[y], k[y])
    BY <2>3, <2>6 DEF Held
  <2>9. Paired(k)
    BY <2>7, <2>8 DEF Whole, Paired, Partner, SameRow
  <2>10. OwnPorts(k)
    BY <2>3, <2>5, <2>6 DEF Whole, OwnPorts, SameRow
  <2> QED
    BY <1>3, <2>1, <2>9, <2>10 DEF Whole
<1> QED
  BY <1>5, <1>7, <1>8

LEMMA DeletionTuple ==
    ASSUME NEW t1, NEW t2, NEW t3, NEW n1, NEW n2, NEW n3, "Open_vSwitch" \notin {t1, t2, t3},
           NEW x, NEW y, NEW z, x = Delete(ByName(t1, n1)), y = Delete(ByName(t2, n2)), z = Delete(ByName(t3, n3)),
           NEW q, q \in {<<x, y, z>>, <<x, y>>}
    PROVE  Deletion(q)
<1>1. /\ x.op = "delete" /\ y.op = "delete" /\ z.op = "delete"
      /\ Removing(x) /\ Removing(y) /\ Removing(z)
  BY ChangeFacts DEF Removing, ByName
<1>2. OpList(q)
  BY <1>1, FourOps DEF Kinds
<1>3. \A n \in DOMAIN q : q[n] \in {x, y, z}
  <2>1. CASE q = <<x, y, z>>
    BY <2>1
  <2>2. CASE q = <<x, y>>
    BY <2>2
  <2> QED
    BY <2>1, <2>2
<1> QED
  BY <1>1, <1>2, <1>3 DEF Deletion

LEMMA DeleteBridgeDeletes == ASSUME NEW b PROVE Deletion(DeleteBridge(b))
<1>1. PICK x, y, z : /\ x = Delete(ByName("Interface", b)) /\ y = Delete(ByName("Port", b))
                     /\ z = Delete(ByName("Bridge", b))
  OBVIOUS
<1>2. PICK q : q = <<x, y, z>> /\ q = DeleteBridge(b)
  BY <1>1 DEF DeleteBridge
<1>3. Deletion(q)
  BY <1>1, <1>2, DeletionTuple
<1> QED
  BY <1>2, <1>3

LEMMA DeletePortDeletes == ASSUME NEW p PROVE Deletion(DeletePort(p))
<1>1. PICK x, y : x = Delete(ByName("Interface", p)) /\ y = Delete(ByName("Port", p))
  OBVIOUS
<1>2. PICK q : q = <<x, y>> /\ q = DeletePort(p)
  BY <1>1 DEF DeletePort
<1>3. PICK z : z = Delete(ByName("Port", p))
  OBVIOUS
<1>4. Deletion(q)
  BY <1>1, <1>2, <1>3, DeletionTuple
<1> QED
  BY <1>2, <1>4

LEMMA DeletionConcat == ASSUME NEW p, NEW q, Deletion(p), Deletion(q) PROVE Deletion(p \o q)
<1>1. PICK pq : pq = p \o q
  OBVIOUS
<1>2. Range(pq) = Range(p) \union Range(q) /\ OpList(pq)
  BY <1>1, ConcatIs, OpListConcat DEF Deletion
<1>3. \A o \in Range(p) \union Range(q) : o.op = "delete" /\ Removing(o)
  BY DEF Deletion, Range
<1>4. \A n \in DOMAIN pq : pq[n] \in Range(pq)
  BY DEF Range
<1>5. Deletion(pq)
  BY <1>2, <1>3, <1>4 DEF Deletion
<1> QED
  BY <1>1, <1>5

LEMMA UnpairDeletes == ASSUME NEW b, NEW d PROVE Deletion(Unpair(b, d))
<1>1. Deletion(DeletePort(b \o d)) /\ Deletion(DeletePort(d \o b))
      /\ Deletion(DeleteBridge(b)) /\ Deletion(DeleteBridge(d))
  BY DeletePortDeletes, DeleteBridgeDeletes
<1>2. Deletion(DeletePort(b \o d) \o DeletePort(d \o b))
  BY <1>1, DeletionConcat
<1>3. Deletion((DeletePort(b \o d) \o DeletePort(d \o b)) \o DeleteBridge(b))
  BY <1>1, <1>2, DeletionConcat
<1>4. Deletion(((DeletePort(b \o d) \o DeletePort(d \o b)) \o DeleteBridge(b)) \o DeleteBridge(d))
  BY <1>1, <1>3, DeletionConcat
<1> QED
  BY <1>4 DEF Unpair

LEMMA UntrunkDeletes == ASSUME NEW b, NEW p PROVE \A own \in BOOLEAN : Deletion(Untrunk(own, b, p))
<1>1. Deletion(DeletePort(p)) /\ Deletion(DeleteBridge(b)) /\ Deletion(<<>>)
  <2>1. DOMAIN <<>> = {} /\ <<>> \in Seq({})
    OBVIOUS
  <2> QED
    BY <2>1, DeletePortDeletes, DeleteBridgeDeletes DEF Deletion, OpList
<1>2. Deletion(DeletePort(p) \o DeleteBridge(b)) /\ Deletion(DeletePort(p) \o <<>>)
  BY <1>1, DeletionConcat
<1>3. /\ Untrunk(TRUE, b, p) = DeletePort(p) \o DeleteBridge(b)
      /\ Untrunk(FALSE, b, p) = DeletePort(p) \o <<>>
  BY DEF Untrunk
<1> QED
  BY <1>2, <1>3

-----------------------------------------------------------------------------
(* The inductive invariant: with the topology whole, the database is the   *)
(* tree that the lemmas on operations are about.                           *)
IInv == Tree(rows, next) /\ Whole(rows)

LEMMA InitHolds == Init => IInv
<1>1. Empty[0].refs = {}
  BY DEF Empty
<1>2. Whole(Empty)
  BY <1>1 DEF Whole, OwnPorts, Paired, Held
<1> QED
  BY <1>2, EmptyTree DEF Init, IInv

LEMMA CallKeeps ==
    ASSUME IInv, NEW k, NEW b, NEW d, NEW q, Addition(q) \/ Deletion(q), Call(k, b, d, q)
    PROVE  IInv'
<1>1. CASE UNCHANGED <<rows, next>>
  BY <1>1 DEF IInv
<1>2. CASE \E o \in Outcomes(rows, next, q) : rows' = o.rows /\ next' = o.next
  <2>1. PICK o \in Outcomes(rows, next, q) : rows' = o.rows /\ next' = o.next
    BY <1>2
  <2>2. Tree(o.rows, o.next) /\ Whole(o.rows)
    BY AdditionKeeps, DeletionKeeps DEF IInv
  <2> QED
    BY <2>1, <2>2 DEF IInv
<1> QED
  BY <1>1, <1>2 DEF Call

LEMMA OvsClientKeeps == IInv /\ OvsClientCalls => IInv'
<1> SUFFICES ASSUME IInv, OvsClientCalls PROVE IInv'
  OBVIOUS
<1>1. ASSUME NEW b, Call("create_bridge", b, NoName, CreateBridge(0, b)) PROVE IInv'
  BY <1>1, CreateBridgeAdds, CallKeeps
<1>2. ASSUME NEW b, Call("delete_bridge", b, NoName, DeleteBridge(b)) PROVE IInv'
  BY <1>2, DeleteBridgeDeletes, CallKeeps
<1>3. ASSUME NEW b, NEW p, Call("add_port", b, p, AddPort(0, b, p, NoName)) PROVE IInv'
  BY <1>3, AddPortAdds, CallKeeps
<1>4. ASSUME NEW b, NEW p, Call("delete_port", b, p, DeletePort(p)) PROVE IInv'
  BY <1>4, DeletePortDeletes, CallKeeps
<1> QED
  BY <1>1, <1>2, <1>3, <1>4 DEF OvsClientCalls

LEMMA BuilderKeeps == IInv /\ BuilderCalls => IInv'
<1> SUFFICES ASSUME IInv, BuilderCalls PROVE IInv'
  OBVIOUS
<1>1. ASSUME NEW b, NEW d, b # d, Call("create_pair", b, d, Pair(b, d)) PROVE IInv'
  BY <1>1, PairAdds, CallKeeps
<1>2. ASSUME NEW b, NEW d, Call("delete_pair", b, d, Unpair(b, d)) PROVE IInv'
  BY <1>2, UnpairDeletes, CallKeeps
<1>3. ASSUME NEW k, NEW b, NEW p, NEW own \in BOOLEAN, Call(k, b, p, Trunk(own, b, p)) PROVE IInv'
  BY <1>3, TrunkAdds, CallKeeps
<1>4. ASSUME NEW k, NEW b, NEW p, NEW own \in BOOLEAN, Call(k, b, p, Untrunk(own, b, p)) PROVE IInv'
  BY <1>4, UntrunkDeletes, CallKeeps
<1> QED
  BY <1>1, <1>2, <1>3, <1>4 DEF BuilderCalls

LEMMA NextKeeps == IInv /\ [Next]_vars => IInv'
<1> SUFFICES ASSUME IInv, [Next]_vars PROVE IInv'
  OBVIOUS
<1>1. CASE Refresh
  BY <1>1 DEF Refresh, IInv
<1>2. CASE UNCHANGED vars
  BY <1>2 DEF vars, IInv
<1> QED
  BY <1>1, <1>2, OvsClientKeeps, BuilderKeeps DEF Next

(* Whatever calls are made, in whatever order and however many of them are *)
(* refused or lost, every registered bridge has its local port, and a      *)
(* patch port has its peer in another bridge.                              *)
THEOREM TopologyWhole == Spec => []NoHalfTopology
<1>1. IInv => NoHalfTopology
  BY WholeIs DEF IInv
<1> QED
  BY <1>1, InitHolds, NextKeeps, PTL DEF Spec
=============================================================================
