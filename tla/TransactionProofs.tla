-------------------------- MODULE TransactionProofs --------------------------
(***************************************************************************)
(* The status of a transaction is that of its last answered commit,        *)
(* get_uuid is right for the inserts made before other operations, what is *)
(* added is there after the commit, and deletions by uuid are not refused: *)
(* for any bridges and ports, helpers, rivals and bounds.                  *)
(***************************************************************************)
EXTENDS Transaction, TransactionOpsProofs

Joining == INSTANCE FoldFacts WITH Step <- Followed

LEMMA JoiningIs == \A b, q : Joining!Fold(b, q) = FoldLeft(Followed, b, q)
  BY DEF Joining!Fold, FoldLeft, Joining!FoldLeft, MapThenFoldSet, Joining!MapThenFoldSet,
         Max, Joining!Max

-----------------------------------------------------------------------------
(* The operations the calls build.                                         *)
(* The first n operations are inserts.                                     *)
Leads(q, n) == \A m \in 1 .. n : q[m].op = "insert"

(* The operations of one call, made when the counter is k: not all of them *)
(* inserts, and the inserts in front are named "row{k}", "row{k+1}", ...   *)
CallOps(q, k) ==
    /\ OpList(q)
    /\ \E n \in DOMAIN q : q[n].op # "insert"
    /\ \A n \in DOMAIN q : Leads(q, n) => q[n].as = k + n - 1

LEMMA CallConcat ==
    ASSUME NEW p, NEW q, NEW k, CallOps(p, k), OpList(q)
    PROVE  CallOps(p \o q, k)
<1>1. OpList(p) /\ OpList(p \o q)
  BY OpListConcat DEF CallOps
<1>2. PICK i \in DOMAIN p : p[i].op # "insert"
  BY DEF CallOps
<1>3. i \in DOMAIN (p \o q) /\ (p \o q)[i].op # "insert"
  BY <1>1, <1>2, ConcatParts
<1>4. ASSUME NEW n \in DOMAIN (p \o q), Leads(p \o q, n)
      PROVE  (p \o q)[n].as = k + n - 1
  <2>1. n \in Nat /\ i \in 1 .. Len(p) /\ Len(p) \in Nat
    BY <1>1, <1>2, ConcatParts
  <2>2. n < i
    BY <1>3, <1>4, <2>1 DEF Leads
  <2>3. n \in DOMAIN p
    BY <1>1, <2>1, <2>2, ConcatParts
  <2>4. \A m \in 1 .. n : m \in DOMAIN p
    BY <1>1, <2>1, <2>3, ConcatParts
  <2>5. Leads(p, n)
    BY <1>1, <1>4, <2>4, ConcatParts DEF Leads
  <2> QED
    BY <1>1, <2>3, <2>5, ConcatParts DEF CallOps
<1> QED
  BY <1>1, <1>3, <1>4 DEF CallOps

(* Up to three inserts, and an operation that is none.                     *)
LEMMA NumberedOps ==
    ASSUME NEW k \in Nat, NEW q, NEW x, NEW y, NEW z, NEW w,
           x.op = "insert" /\ x.as = k, y.op = "insert" => y.as = k + 1, z.op = "insert" => z.as = k + 2,
           y.op \in Kinds, z.op \in Kinds, w.op \in Kinds,
           \/ q = <<x, y>> /\ y.op # "insert"
           \/ q = <<x, y, z>> /\ z.op # "insert"
           \/ q = <<x, y, z, w>> /\ w.op # "insert"
    PROVE  CallOps(q, k)
<1>1. OpList(q)
  <2>1. q \in {<<x, y, z, w>>, <<x, y, z>>, <<x, y>>, <<x>>} /\ x.op \in Kinds
    BY DEF Kinds
  <2> QED
    BY <2>1, FourOps
<1>2. \E n \in DOMAIN q : q[n].op # "insert"
  <2>1. CASE q = <<x, y>> /\ y.op # "insert"
    <3>1. 2 \in DOMAIN q /\ q[2] = y
      BY <2>1
    <3> QED
      BY <2>1, <3>1
  <2>2. CASE q = <<x, y, z>> /\ z.op # "insert"
    <3>1. 3 \in DOMAIN q /\ q[3] = z
      BY <2>2
    <3> QED
      BY <2>2, <3>1
  <2>3. CASE q = <<x, y, z, w>> /\ w.op # "insert"
    <3>1. 4 \in DOMAIN q /\ q[4] = w
      BY <2>3
    <3> QED
      BY <2>3, <3>1
  <2> QED
    BY <2>1, <2>2, <2>3
<1>3. ASSUME NEW n \in DOMAIN q, Leads(q, n) PROVE q[n].as = k + n - 1
  <2>1. q[n].op = "insert"
    <3>1. n \in 1 .. n
      OBVIOUS
    <3> QED
      BY <1>3, <3>1 DEF Leads
  <2>2. \/ n = 1 /\ q[n] = x
        \/ n = 2 /\ q[n] = y
        \/ n = 3 /\ q[n] = z
    BY <2>1
  <2> QED
    BY <2>1, <2>2
<1> QED
  BY <1>1, <1>2, <1>3 DEF CallOps

LEMMA AddPortOps ==
    ASSUME NEW k \in Nat, NEW b, NEW p, NEW peer
    PROVE  CallOps(AddPort(k, b, p, peer), k)
<1>1. PICK x, y, z :
         /\ x.op = "insert" /\ x.as = k /\ y.op = "insert" /\ y.as = k + 1 /\ z.op = "mutate"
         /\ AddPort(k, b, p, peer) = <<x, y, z>>
  BY OpKinds DEF AddPort
<1>2. y.op \in Kinds /\ z.op \in Kinds
  BY <1>1 DEF Kinds
<1> QED
  BY <1>1, <1>2, NumberedOps

LEMMA CreateBridgeOps ==
    ASSUME NEW k \in Nat, NEW b
    PROVE  CallOps(CreateBridge(k, b), k)
<1>1. PICK x, y, z, w :
         /\ x.op = "insert" /\ x.as = k /\ y.op = "insert" /\ y.as = k + 1
         /\ z.op = "insert" /\ z.as = k + 2 /\ w.op = "mutate"
         /\ CreateBridge(k, b) = <<x, y, z, w>>
  BY OpKinds DEF CreateBridge
<1>2. y.op \in Kinds /\ z.op \in Kinds /\ w.op \in Kinds
  BY <1>1 DEF Kinds
<1> QED
  BY <1>1, <1>2, NumberedOps

LEMMA SetControllerOps ==
    ASSUME NEW k \in Nat, NEW b
    PROVE  CallOps(SetController(k, b, NoName), k)
<1>1. PICK x, y :
         /\ x.op = "insert" /\ x.as = k /\ y.op = "update"
         /\ SetController(k, b, NoName) = <<x, y>>
  BY OpKinds DEF SetController
<1>2. y.op \in Kinds
  BY <1>1 DEF Kinds
<1> QED
  BY <1>1, <1>2, NumberedOps

(* What starts with another operation has no insert in front.              *)
LEMMA OtherOps ==
    ASSUME NEW q, OpList(q), q # <<>>, q[1].op # "insert", NEW k
    PROVE  CallOps(q, k)
<1>1. 1 \in DOMAIN q /\ \A n \in DOMAIN q : 1 \in 1 .. n
  <2>1. PICK S : q \in Seq(S)
    BY DEF OpList
  <2> QED
    BY <2>1
<1> QED
  BY <1>1 DEF CallOps, Leads

(* What a caller knows of the database, and what the database is: finitely *)
(* many rows, that refer to rows.                                          *)
RowsOk(c) == IsFiniteSet(DOMAIN c) /\ \A u \in DOMAIN c : c[u].refs \subseteq DOMAIN c

BridgeOps(c, u) ==
    LET ports == c[u].refs \cap OfTable(c, "Port")
    IN  DeleteBridgeUuid(u, ports, UNION {c[x].refs : x \in ports})
PortOps(c, u, x) == DeletePortUuid(u, x, CHOOSE i \in c[x].refs : TRUE)

(* The calls, one by one.                                                  *)
Is(s, kind, b, d, ops) == s.kind = kind /\ s.bridge = b /\ s.other = d /\ s.ops = ops
LEMMA CallIs ==
    ASSUME NEW c, NEW k, NEW s \in Calls(c, k)
    PROVE  \/ \E b \in BridgeNames : Is(s, "create_bridge", b, NoName, CreateBridge(k, b))
           \/ \E b \in BridgeNames, p \in PortNames : Is(s, "add_port", b, p, AddPort(k, b, p, NoName))
           \/ \E b \in BridgeNames, d \in BridgeNames :
                 Is(s, "add_patch_ports", b, d, AddPatchPorts(k, b, d))
           \/ \E b \in BridgeNames : Is(s, "set_controller", b, NoName, SetController(k, b, NoName))
           \/ \E b \in BridgeNames : Is(s, "delete_bridge", b, NoName, DeleteBridge(b))
           \/ \E p \in PortNames : Is(s, "delete_port", NoName, p, DeletePort(p))
           \/ \E u \in OfTable(c, "Bridge") : s.kind = "delete_bridge_uuid" /\ s.ops = BridgeOps(c, u)
           \/ \E u \in OfTable(c, "Bridge") : \E x \in c[u].refs \cap OfTable(c, "Port") :
                 s.kind = "delete_port_uuid" /\ s.ops = PortOps(c, u, x)
           \/ s.kind = "wait" /\ s.ops = <<Wait>>
<1> DEFINE Creates == {Step("create_bridge", b, NoName, CreateBridge(k, b)) : b \in BridgeNames}
           AddsPort == {Step("add_port", b, p, AddPort(k, b, p, NoName)) :
                           b \in BridgeNames, p \in PortNames}
           AddsPatch == {Step("add_patch_ports", b, d, AddPatchPorts(k, b, d)) :
                            b \in BridgeNames, d \in BridgeNames}
           Sets == {Step("set_controller", b, NoName, SetController(k, b, NoName)) :
                       b \in BridgeNames}
           Bridge == {Step("delete_bridge", b, NoName, DeleteBridge(b)) : b \in BridgeNames}
           Port == {Step("delete_port", NoName, p, DeletePort(p)) : p \in PortNames}
           BridgeUuid == {BridgeByUuid(c, u) : u \in OfTable(c, "Bridge")}
           PortUuid == UNION {{PortByUuid(c, u, x) : x \in c[u].refs \cap OfTable(c, "Port")} :
                                 u \in OfTable(c, "Bridge")}
<1>1. Calls(c, k) = Creates \union AddsPort \union AddsPatch \union Sets \union Bridge
                        \union Port \union BridgeUuid \union PortUuid
                        \union {Step("wait", NoName, NoName, <<Wait>>)}
  BY DEF Calls
<1>2. \A kind, b, d, ops : Is(Step(kind, b, d, ops), kind, b, d, ops)
  BY DEF Step, Is
<1>3. s \in Creates => \E b \in BridgeNames : Is(s, "create_bridge", b, NoName, CreateBridge(k, b))
  BY <1>2
<1>4. s \in AddsPort => \E b \in BridgeNames, p \in PortNames :
                           Is(s, "add_port", b, p, AddPort(k, b, p, NoName))
  BY <1>2
<1>5. s \in AddsPatch => \E b \in BridgeNames, d \in BridgeNames :
                            Is(s, "add_patch_ports", b, d, AddPatchPorts(k, b, d))
  BY <1>2
<1>6. s \in Sets => \E b \in BridgeNames :
                       Is(s, "set_controller", b, NoName, SetController(k, b, NoName))
  BY <1>2
<1>7. s \in Bridge => \E b \in BridgeNames : Is(s, "delete_bridge", b, NoName, DeleteBridge(b))
  BY <1>2
<1>8. s \in Port => \E p \in PortNames : Is(s, "delete_port", NoName, p, DeletePort(p))
  BY <1>2
<1>9. s \in BridgeUuid => \E u \in OfTable(c, "Bridge") :
                             s.kind = "delete_bridge_uuid" /\ s.ops = BridgeOps(c, u)
  <2> SUFFICES ASSUME NEW u \in OfTable(c, "Bridge"), s = BridgeByUuid(c, u)
               PROVE  s.kind = "delete_bridge_uuid" /\ s.ops = BridgeOps(c, u)
    OBVIOUS
  <2>1. s = Step("delete_bridge_uuid", c[u].name, NoName, BridgeOps(c, u))
    BY DEF BridgeByUuid, BridgeOps
  <2> QED
    BY <1>2, <2>1 DEF Is
<1>10. s \in PortUuid => \E u \in OfTable(c, "Bridge") : \E x \in c[u].refs \cap OfTable(c, "Port") :
                            s.kind = "delete_port_uuid" /\ s.ops = PortOps(c, u, x)
  <2> SUFFICES ASSUME NEW u \in OfTable(c, "Bridge"), NEW x \in c[u].refs \cap OfTable(c, "Port"),
                      s = PortByUuid(c, u, x)
               PROVE  s.kind = "delete_port_uuid" /\ s.ops = PortOps(c, u, x)
    OBVIOUS
  <2>1. s = Step("delete_port_uuid", c[u].name, c[x].name, PortOps(c, u, x))
    BY DEF PortByUuid, PortOps
  <2> QED
    BY <1>2, <2>1 DEF Is
<1>11. s = Step("wait", NoName, NoName, <<Wait>>) => s.kind = "wait" /\ s.ops = <<Wait>>
  BY <1>2 DEF Is
<1> HIDE DEF Creates, AddsPort, AddsPatch, Sets, Bridge, Port, BridgeUuid, PortUuid
<1> QED
  BY <1>1, <1>3, <1>4, <1>5, <1>6, <1>7, <1>8, <1>9, <1>10, <1>11

(* The references that deletion by uuid is given.                          *)
LEMMA BridgeOpsAre ==
    ASSUME NEW c, RowsOk(c), NEW u \in OfTable(c, "Bridge")
    PROVE  \E P, I : /\ P = c[u].refs \cap OfTable(c, "Port") /\ I = UNION {c[x].refs : x \in P}
                     /\ IsFiniteSet(P) /\ IsFiniteSet(I) /\ BridgeOps(c, u) = DeleteBridgeUuid(u, P, I)
<1>1. PICK P : P = c[u].refs \cap OfTable(c, "Port")
  OBVIOUS
<1>2. PICK I : I = UNION {c[x].refs : x \in P}
  OBVIOUS
<1>3. BridgeOps(c, u) = DeleteBridgeUuid(u, P, I)
  BY <1>1, <1>2 DEF BridgeOps
<1>4. P \subseteq DOMAIN c /\ I \subseteq DOMAIN c
  BY <1>1, <1>2 DEF RowsOk, OfTable
<1>5. IsFiniteSet(P) /\ IsFiniteSet(I)
  BY <1>4, FS_Subset DEF RowsOk
<1> QED
  BY <1>1, <1>2, <1>3, <1>5

LEMMA UuidRemoving ==
    \A t, x, S : /\ t # "Port" => Removing(Mutate(ByUuid(t, x), "delete", S)) /\ Removing(Mutate(All(t), "delete", S))
                 /\ t # "Open_vSwitch" => Removing(Delete(ByUuid(t, x)))
  BY ChangeFacts DEF Removing, ByUuid, All

LEMMA UuidOps ==
    ASSUME NEW c, RowsOk(c), NEW u \in OfTable(c, "Bridge")
    PROVE  /\ OpList(BridgeOps(c, u)) /\ \A o \in Range(BridgeOps(c, u)) : Removing(o)
           /\ \A x : OpList(PortOps(c, u, x)) /\ (\A o \in Range(PortOps(c, u, x)) : Removing(o))
<1>1. OpList(BridgeOps(c, u)) /\ \A o \in Range(BridgeOps(c, u)) : Removing(o)
  <2>1. PICK P, I : IsFiniteSet(P) /\ IsFiniteSet(I) /\ BridgeOps(c, u) = DeleteBridgeUuid(u, P, I)
    BY BridgeOpsAre
  <2>2. OpList(BridgeOps(c, u))
    BY <2>1, DeleteBridgeUuidIs
  <2>3. Range(BridgeOps(c, u)) = {Mutate(All("Open_vSwitch"), "delete", {Known(u)})}
                                     \union {Delete(ByUuid("Interface", y)) : y \in I}
                                     \union {Delete(ByUuid("Port", x)) : x \in P}
                                     \union {Delete(ByUuid("Bridge", u))}
    BY <2>1, DeleteBridgeUuidIs
  <2>4. /\ \A S : Removing(Mutate(All("Open_vSwitch"), "delete", S))
        /\ \A x : /\ Removing(Delete(ByUuid("Interface", x))) /\ Removing(Delete(ByUuid("Port", x)))
                  /\ Removing(Delete(ByUuid("Bridge", x)))
    BY UuidRemoving
  <2> QED
    BY <2>2, <2>3, <2>4
<1>2. ASSUME NEW x PROVE OpList(PortOps(c, u, x)) /\ \A o \in Range(PortOps(c, u, x)) : Removing(o)
  <2>1. PICK y : PortOps(c, u, x) = DeletePortUuid(u, x, y)
    BY DEF PortOps
  <2>2. /\ OpList(PortOps(c, u, x))
        /\ Range(PortOps(c, u, x)) = {Mutate(ByUuid("Bridge", u), "delete", {Known(x)}),
                                      Delete(ByUuid("Interface", y)), Delete(ByUuid("Port", x))}
    BY <2>1, DeletePortUuidIs
  <2>3. /\ \A S : Removing(Mutate(ByUuid("Bridge", u), "delete", S))
        /\ Removing(Delete(ByUuid("Interface", y))) /\ Removing(Delete(ByUuid("Port", x)))
    BY UuidRemoving
  <2> QED
    BY <2>2, <2>3
<1> QED
  BY <1>1, <1>2

(* Whatever call is made, knowing c, at the counter k.                     *)
LEMMA CallsBuilt ==
    ASSUME NEW c, RowsOk(c), NEW k \in Nat, NEW s \in Calls(c, k)
    PROVE  Linked(s.ops) /\ Inserts(s.ops) \in Nat /\ Numbered(s.ops, k, k + Inserts(s.ops))
<1>1. \E m \in Nat : Built(s.ops, k, m)
  <2>1. CASE \E b : s.ops = CreateBridge(k, b)
    BY <2>1, CreateBridgeBuilt
  <2>2. CASE \E b, p : s.ops = AddPort(k, b, p, NoName)
    BY <2>2, AddPortBuilt
  <2>3. CASE \E b, d : s.ops = AddPatchPorts(k, b, d)
    BY <2>3, AddPatchPortsBuilt
  <2>4. CASE \E b : s.ops = SetController(k, b, NoName)
    BY <2>4, SetControllerBuilt
  <2>5. CASE \E b : s.ops = DeleteBridge(b)
    BY <2>5, DeleteBridgeBuilt
  <2>6. CASE \E p : s.ops = DeletePort(p)
    BY <2>6, DeletePortBuilt
  <2>7. CASE \E u \in OfTable(c, "Bridge") : s.ops = BridgeOps(c, u) \/ \E x : s.ops = PortOps(c, u, x)
    BY <2>7, UuidOps, RemovingAll
  <2>8. CASE s.ops = <<Wait>>
    BY <2>8, WaitBuilt
  <2> QED
    BY <2>1, <2>2, <2>3, <2>4, <2>5, <2>6, <2>7, <2>8, CallIs DEF Is
<1>2. PICK m \in Nat : Built(s.ops, k, m)
  BY <1>1
<1>3. k + m <= k + Inserts(s.ops) /\ k + Inserts(s.ops) \in Nat
  BY <1>2 DEF Built
<1> QED
  BY <1>2, <1>3, NumberedMore DEF Built

LEMMA CallsOps ==
    ASSUME NEW c, RowsOk(c), NEW k \in Nat, NEW s \in Calls(c, k)
    PROVE  CallOps(s.ops, k)
<1>1. CASE \E b : s.ops = CreateBridge(k, b)
  BY <1>1, CreateBridgeOps
<1>2. CASE \E b, p : s.ops = AddPort(k, b, p, NoName)
  BY <1>2, AddPortOps
<1>3. CASE \E b, d : s.ops = AddPatchPorts(k, b, d)
  <2>1. PICK b, d : s.ops = AddPort(k, b, b \o d, d \o b) \o AddPort(k + 2, d, d \o b, b \o d)
    BY <1>3 DEF AddPatchPorts
  <2>2. PICK p : p = AddPort(k, b, b \o d, d \o b)
    OBVIOUS
  <2>3. PICK q : q = AddPort(k + 2, d, d \o b, b \o d)
    OBVIOUS
  <2>4. CallOps(p, k)
    BY <2>2, AddPortOps
  <2>5. CallOps(q, k + 2)
    <3>1. k + 2 \in Nat
      OBVIOUS
    <3> QED
      BY <2>3, <3>1, AddPortOps
  <2>6. OpList(q)
    BY <2>5 DEF CallOps
  <2> QED
    BY <2>1, <2>2, <2>3, <2>4, <2>6, CallConcat
<1>4. CASE \E b : s.ops = SetController(k, b, NoName)
  BY <1>4, SetControllerOps
<1>5. CASE s.ops # <<>> /\ s.ops[1].op # "insert"
  <2>1. OpList(s.ops)
    BY CallsBuilt DEF Linked
  <2> QED
    BY <1>5, <2>1, OtherOps
<1>6. CASE \E b : s.ops = DeleteBridge(b)
  <2>1. PICK x, y, z : s.ops = <<x, y, z>> /\ x.op = "delete"
    BY <1>6, OpKinds DEF DeleteBridge
  <2>2. s.ops # <<>> /\ s.ops[1] = x
    BY <2>1
  <2> QED
    BY <1>5, <2>1, <2>2
<1>7. CASE \E p : s.ops = DeletePort(p)
  <2>1. PICK x, y : s.ops = <<x, y>> /\ x.op = "delete"
    BY <1>7, OpKinds DEF DeletePort
  <2>2. s.ops # <<>> /\ s.ops[1] = x
    BY <2>1
  <2> QED
    BY <1>5, <2>1, <2>2
<1>8. CASE \E u \in OfTable(c, "Bridge") : s.ops = BridgeOps(c, u)
  <2>1. PICK u \in OfTable(c, "Bridge") : s.ops = BridgeOps(c, u)
    BY <1>8
  <2>2. PICK P, I : IsFiniteSet(P) /\ IsFiniteSet(I) /\ s.ops = DeleteBridgeUuid(u, P, I)
    BY <2>1, BridgeOpsAre
  <2> QED
    BY <1>5, <2>2, BridgeUuidFirst
<1>9. CASE \E u, x : s.ops = PortOps(c, u, x)
  <2>0. PICK u, z, i : s.ops = DeletePortUuid(u, z, i)
    BY <1>9 DEF PortOps
  <2>1. PICK x, y, z1 : s.ops = <<x, y, z1>> /\ x.op = "mutate"
    BY <2>0, OpKinds DEF DeletePortUuid
  <2>2. s.ops # <<>> /\ s.ops[1] = x
    BY <2>1
  <2> QED
    BY <1>5, <2>1, <2>2
<1>10. CASE s.ops = <<Wait>>
  <2>1. PICK x : s.ops = <<x>> /\ x.op = "wait"
    BY <1>10, OpKinds
  <2>2. s.ops # <<>> /\ s.ops[1] = x
    BY <2>1
  <2> QED
    BY <1>5, <2>1, <2>2
<1> QED
  BY <1>1, <1>2, <1>3, <1>4, <1>6, <1>7, <1>8, <1>9, <1>10, CallIs DEF Is

(* What is deleted by uuid is covered, in a database that has moved on     *)
(* since c was read.                                                       *)
Stale(c, r, i) ==
    /\ RowsOk(c) /\ Layered(c)
    /\ \A u \in DOMAIN c : \A x \in c[u].refs : Only(r, i, x, u)
UuidDeletes == {"delete_bridge_uuid", "delete_port_uuid"}

LEMMA CallsCover ==
    ASSUME NEW c, NEW r, NEW i, Stale(c, r, i), NEW k \in Nat, NEW s \in Calls(c, k), s.kind \in UuidDeletes
    PROVE  Covers(Range(s.ops), r, i)
<1>1. CASE \E u \in OfTable(c, "Bridge") : s.ops = BridgeOps(c, u)
  <2>1. PICK u \in OfTable(c, "Bridge") : s.ops = BridgeOps(c, u)
    BY <1>1
  <2>2. PICK P, I : /\ P = c[u].refs \cap OfTable(c, "Port") /\ I = UNION {c[x].refs : x \in P}
                    /\ IsFiniteSet(P) /\ IsFiniteSet(I) /\ s.ops = DeleteBridgeUuid(u, P, I)
    BY <2>1, BridgeOpsAre DEF Stale
  <2>3. PICK S : S = Range(s.ops)
    OBVIOUS
  <2>4. S = {Mutate(All("Open_vSwitch"), "delete", {Known(u)})}
                \union {Delete(ByUuid("Interface", y)) : y \in I}
                \union {Delete(ByUuid("Port", x)) : x \in P}
                \union {Delete(ByUuid("Bridge", u))}
    BY <2>2, <2>3, DeleteBridgeUuidIs
  <2>5. \A x \in P : Only(r, i, x, u)
    BY <2>2 DEF Stale, OfTable
  <2>6. \A y \in I : \E x \in P : Only(r, i, y, x)
    BY <2>2 DEF Stale, OfTable
  <2>7. ASSUME NEW o \in S PROVE Covered(S, r, i, o)
    <3>1. CASE o = Mutate(All("Open_vSwitch"), "delete", {Known(u)})
      BY <3>1 DEF Covered
    <3>2. CASE o = Delete(ByUuid("Bridge", u))
      BY <2>4, <3>2 DEF Covered
    <3>3. CASE \E x \in P : o = Delete(ByUuid("Port", x))
      BY <2>4, <2>5, <3>3 DEF Covered
    <3>4. CASE \E y \in I : o = Delete(ByUuid("Interface", y))
      BY <2>4, <2>6, <3>4 DEF Covered
    <3> QED
      BY <2>4, <3>1, <3>2, <3>3, <3>4
  <2> QED
    BY <2>3, <2>7 DEF Covers
<1>2. CASE \E u \in OfTable(c, "Bridge") : \E x \in c[u].refs \cap OfTable(c, "Port") : s.ops = PortOps(c, u, x)
  <2>0. PICK u \in OfTable(c, "Bridge") : \E x \in c[u].refs \cap OfTable(c, "Port") : s.ops = PortOps(c, u, x)
    BY <1>2
  <2>1. PICK x \in c[u].refs \cap OfTable(c, "Port") : s.ops = PortOps(c, u, x)
    BY <2>0
  <2>2. u \in DOMAIN c /\ x \in DOMAIN c /\ x \in c[u].refs /\ c[x].table = "Port"
    BY <2>1 DEF OfTable
  <2>3. c[x].refs # {}
    BY <2>2 DEF Stale, Layered
  <2>4. PICK y : y \in c[x].refs /\ s.ops = DeletePortUuid(u, x, y)
    BY <2>1, <2>3 DEF PortOps
  <2>5. PICK S : S = Range(s.ops)
    OBVIOUS
  <2>6. S = {Mutate(ByUuid("Bridge", u), "delete", {Known(x)}),
             Delete(ByUuid("Interface", y)), Delete(ByUuid("Port", x))}
    BY <2>4, <2>5, DeletePortUuidIs
  <2>7. Only(r, i, x, u) /\ Only(r, i, y, x)
    BY <2>2, <2>4 DEF Stale
  <2>8. \A o \in S : Covered(S, r, i, o)
    BY <2>6, <2>7 DEF Covered
  <2> QED
    BY <2>5, <2>8 DEF Covers
<1> QED
  BY <1>1, <1>2, CallIs DEF Is, UuidDeletes

-----------------------------------------------------------------------------
(* Where among the operations those of a call are, and those of the        *)
(* bridges created before it.                                              *)
Before(q, l, n, e) ==
    \A m \in 1 .. n - 1 : l[m].kind = "create_bridge" => \E f : f + 3 < e /\ BridgeAt(q, f, l[m].bridge)
Laid(q, l, n) ==
    LET b == l[n].bridge
        d == l[n].other
    IN  /\ l[n].kind = "create_bridge" => \E e : BridgeAt(q, e, b)
        /\ l[n].kind = "add_port" => \E e : PortAt(q, e, b, d, NoName) /\ Before(q, l, n, e)
        /\ l[n].kind = "add_patch_ports" =>
              \E e : /\ PortAt(q, e, b, b \o d, d \o b) /\ PortAt(q, e + 3, d, d \o b, b \o d)
                     /\ Before(q, l, n, e)
CallsLaid(q, l) ==
    /\ \A n \in DOMAIN l : Laid(q, l, n)
    /\ (\A n \in DOMAIN l : l[n].kind \in Adds) => OnlyAdds(q)

LEMMA LaidMore ==
    ASSUME NEW q, OpList(q), NEW S, NEW l \in Seq(S), CallsLaid(q, l),
           NEW c, NEW k \in Nat, NEW s \in Calls(c, k), OpList(s.ops)
    PROVE  CallsLaid(q \o s.ops, Append(l, s))
<1>1. PICK p : p = s.ops
  OBVIOUS
<1>2. PICK j : j = Append(l, s)
  OBVIOUS
<1>3. PICK t : t = q \o p
  OBVIOUS
<1>4. /\ Len(l) \in Nat /\ DOMAIN l = 1 .. Len(l) /\ DOMAIN j = 1 .. Len(l) + 1 /\ j[Len(l) + 1] = s
      /\ \A n \in DOMAIN l : j[n] = l[n]
  <2>1. l \in Seq(S \union {s}) /\ s \in S \union {s}
    OBVIOUS
  <2> QED
    BY <1>2, <2>1
<1>5. Len(q) \in Nat /\ Len(q) + 1 \in Nat /\ DOMAIN q = 1 .. Len(q) /\ OpList(p)
  BY <1>1 DEF OpList
<1>6. /\ \A m, b : BridgeAt(q, m, b) => BridgeAt(t, m, b)
      /\ \A m, b, n, peer : PortAt(q, m, b, n, peer) => PortAt(t, m, b, n, peer)
      /\ \A m, b : BridgeAt(p, m, b) => BridgeAt(t, Len(q) + m, b)
      /\ \A m, b, n, peer : PortAt(p, m, b, n, peer) => PortAt(t, Len(q) + m, b, n, peer)
  BY <1>3, <1>5, AtConcat
<1>7. ASSUME NEW n \in DOMAIN l PROVE Laid(t, j, n)
  <2>1. Laid(q, l, n) /\ j[n] = l[n] /\ \A m \in 1 .. n - 1 : j[m] = l[m]
    BY <1>4 DEF CallsLaid
  <2>2. \A e : Before(q, l, n, e) => Before(t, j, n, e)
    BY <1>6, <2>1 DEF Before
  <2> QED
    BY <1>6, <2>1, <2>2 DEF Laid
(* The bridges created before s were created by what is in q.              *)
<1>8. \A m \in 1 .. Len(l) : j[m].kind = "create_bridge" =>
         \E f : f + 3 < Len(q) + 1 /\ BridgeAt(t, f, j[m].bridge)
  <2> SUFFICES ASSUME NEW m \in 1 .. Len(l), j[m].kind = "create_bridge"
               PROVE  \E f : f + 3 < Len(q) + 1 /\ BridgeAt(t, f, j[m].bridge)
    OBVIOUS
  <2>1. Laid(q, l, m) /\ j[m] = l[m]
    BY <1>4 DEF CallsLaid
  <2>2. PICK f : BridgeAt(q, f, l[m].bridge)
    BY <2>1 DEF Laid
  <2>3. f \in 1 .. Len(q) /\ f + 3 \in 1 .. Len(q)
    BY <1>5, <2>2 DEF BridgeAt
  <2>4. f + 3 < Len(q) + 1
    BY <1>5, <2>3
  <2> QED
    BY <1>6, <2>1, <2>2, <2>4
<1>9. Before(t, j, Len(l) + 1, Len(q) + 1)
  <2>1. (Len(l) + 1) - 1 = Len(l)
    BY <1>4
  <2> QED
    BY <1>8, <2>1 DEF Before
<1>10. Laid(t, j, Len(l) + 1)
  <2>1. CASE s.kind = "create_bridge"
    <3>1. p = CreateBridge(k, s.bridge)
      BY <1>1, <2>1, CallIs DEF Is
    <3>2. BridgeAt(t, Len(q) + 1, s.bridge)
      BY <1>6, <3>1, CreateBridgeAt
    <3> QED
      BY <1>4, <2>1, <3>2 DEF Laid
  <2>2. CASE s.kind = "add_port"
    <3>1. p = AddPort(k, s.bridge, s.other, NoName)
      BY <1>1, <2>2, CallIs DEF Is
    <3>2. PortAt(t, Len(q) + 1, s.bridge, s.other, NoName)
      BY <1>6, <3>1, AddPortAt
    <3> QED
      BY <1>4, <1>9, <2>2, <3>2 DEF Laid
  <2>3. CASE s.kind = "add_patch_ports"
    <3>1. p = AddPatchPorts(k, s.bridge, s.other)
      BY <1>1, <2>3, CallIs DEF Is
    <3>2. PICK bd, db : bd = s.bridge \o s.other /\ db = s.other \o s.bridge
      OBVIOUS
    <3>3. PortAt(p, 1, s.bridge, bd, db) /\ PortAt(p, 4, s.other, db, bd)
      BY <3>1, <3>2, AddPatchPortsAt
    <3>4. PortAt(t, Len(q) + 1, s.bridge, bd, db) /\ PortAt(t, Len(q) + 4, s.other, db, bd)
      BY <1>6, <3>3
    <3>5. Len(q) + 4 = (Len(q) + 1) + 3
      BY <1>5
    <3>6. \E e : PortAt(t, e, s.bridge, bd, db) /\ PortAt(t, e + 3, s.other, db, bd) /\ Before(t, j, Len(l) + 1, e)
      BY <1>9, <3>4, <3>5
    <3> QED
      BY <1>4, <2>3, <3>2, <3>6 DEF Laid
  <2> QED
    BY <1>4, <2>1, <2>2, <2>3 DEF Laid
<1>11. (\A n \in DOMAIN j : j[n].kind \in Adds) => OnlyAdds(t)
  <2> SUFFICES ASSUME \A n \in DOMAIN j : j[n].kind \in Adds PROVE OnlyAdds(t)
    OBVIOUS
  <2>1. s.kind \in Adds /\ \A n \in DOMAIN l : l[n].kind \in Adds
    BY <1>4
  <2>2. OnlyAdds(q)
    BY <2>1 DEF CallsLaid
  <2>3. OnlyAdds(p)
    <3>1. \/ \E b : p = CreateBridge(k, b)
          \/ \E b, x : p = AddPort(k, b, x, NoName)
          \/ \E b, d : p = AddPatchPorts(k, b, d)
          \/ \E b : p = SetController(k, b, NoName)
      BY <1>1, <2>1, CallIs DEF Is, Adds
    <3> QED
      BY <3>1, HelpersAdd
  <2> QED
    BY <1>3, <2>2, <2>3, AddsConcat
<1>12. \A n \in DOMAIN j : n \in DOMAIN l \/ n = Len(l) + 1
  BY <1>4
<1>13. CallsLaid(t, j)
  BY <1>7, <1>10, <1>11, <1>12 DEF CallsLaid
<1> QED
  BY <1>1, <1>2, <1>3, <1>13

-----------------------------------------------------------------------------
(* The server, part way through the operations.                            *)

(* The uuids of the leading inserts, after n operations.                   *)
Leading(ops, s, n) ==
    /\ \A m \in 1 .. n : Leads(ops, m) =>
          m - 1 \in DOMAIN s.given /\ s.results[m] = Result("uuid", s.given[m - 1])
    /\ Leads(ops, n) => DOMAIN s.given \subseteq 0 .. n - 1

LEMMA LeadingStep ==
    ASSUME NEW ops, CallOps(ops, 0), NEW s, NEW n \in Nat, n + 1 \in DOMAIN ops,
           Sound(s, n), Leading(ops, s, n)
    PROVE  Leading(ops, Do(s, ops[n + 1]), n + 1)
<1> DEFINE o == ops[n + 1]
           t == Do(s, o)
<1>1. o.op \in Kinds
  BY DEF CallOps, OpList
<1>2. t.results \in Seq(OpResults) /\ Len(t.results) = n + 1 /\ \A m \in 1 .. n : t.results[m] = s.results[m]
  BY <1>1, SoundStep DEF Sound
<1>3. Leads(ops, n + 1) => o.op = "insert" /\ o.as = n /\ Leads(ops, n)
  <2>1. n + 1 \in 1 .. n + 1 /\ 1 .. n \subseteq 1 .. n + 1
    OBVIOUS
  <2>2. Leads(ops, n + 1) => o.as = 0 + (n + 1) - 1
    BY DEF CallOps
  <2> QED
    BY <2>1, <2>2 DEF Leads
<1>4. \A k \in DOMAIN s.given : k \in DOMAIN t.given /\ t.given[k] = s.given[k]
  <2>1. CASE o.op = "insert"
    <3>1. t.given = Extend(s.given, [k \in {o.as} |-> s.next])
      BY <2>1, DoInsert
    <3> QED
      BY <3>1 DEF Extend
  <2>2. CASE o.op # "insert"
    <3>1. IsState(s)
      BY DEF Sound
    <3>2. t.given = s.given
      BY <1>1, <2>2, <3>1, DoOther
    <3> QED
      BY <3>2
  <2> QED
    BY <2>1, <2>2
<1>5. ASSUME Leads(ops, n + 1)
      PROVE  /\ n \in DOMAIN t.given /\ t.results[n + 1] = Result("uuid", t.given[n])
             /\ DOMAIN t.given \subseteq 0 .. n
  <2>1. o.op = "insert" /\ o.as = n /\ DOMAIN s.given \subseteq 0 .. n - 1
    <3> HIDE DEF o
    <3> QED
      BY <1>3, <1>5 DEF Leading
  <2>2. /\ t.given = Extend(s.given, [k \in {n} |-> s.next])
        /\ t.results = Append(s.results, Result("uuid", s.next))
    <3>1. /\ t.given = Extend(s.given, [k \in {o.as} |-> s.next])
          /\ t.results = Append(s.results, Result("uuid", s.next))
      BY <2>1, DoInsert
    <3> HIDE DEF t, o
    <3> QED
      BY <2>1, <3>1
  <2>3. n \notin DOMAIN s.given
    BY <2>1
  <2>4. DOMAIN t.given = DOMAIN s.given \union {n} /\ t.given[n] = s.next
    BY <2>2, <2>3 DEF Extend
  <2>5. t.results[n + 1] = Result("uuid", s.next)
    BY <2>2 DEF Sound
  <2> QED
    BY <2>1, <2>4, <2>5
<1> HIDE DEF t, o
<1>6. ASSUME NEW m \in 1 .. n + 1, Leads(ops, m)
      PROVE  m - 1 \in DOMAIN t.given /\ t.results[m] = Result("uuid", t.given[m - 1])
  <2>1. CASE m = n + 1
    BY <1>5, <1>6, <2>1
  <2>2. CASE m \in 1 .. n
    <3>1. m - 1 \in DOMAIN s.given /\ s.results[m] = Result("uuid", s.given[m - 1])
      BY <1>6, <2>2 DEF Leading
    <3> QED
      BY <1>2, <1>4, <2>2, <3>1
  <2> QED
    BY <2>1, <2>2
<1>7. Leads(ops, n + 1) => DOMAIN t.given \subseteq 0 .. (n + 1) - 1
  BY <1>5
<1> QED
  BY <1>6, <1>7 DEF Leading, t, o

(* All operations done.                                                    *)
LEMMA ServerEnd ==
    ASSUME NEW r, IsFiniteSet(DOMAIN r), NEW i \in Nat, NEW ops, OpList(ops)
    PROVE  LET end == FoldLeft(Do, Start(r, i), ops)
           IN  /\ Sound(end, Len(ops))
               /\ CallOps(ops, 0) => Leading(ops, end, Len(ops))
<1>1. PICK E : Runs(E, Start(r, i), ops)
  BY RunExists
<1>2. Len(ops) \in Nat /\ DOMAIN ops = 1 .. Len(ops)
  BY DEF OpList
<1>3. \A n \in 0 .. Len(ops) : Sound(E[n], n)
  BY <1>1, EndSound
<1> DEFINE D == {n \in Nat : n <= Len(ops) => Leading(ops, E[n], n)}
<1>4. ASSUME CallOps(ops, 0) PROVE Leading(ops, E[Len(ops)], Len(ops))
  <2>1. 0 \in D
    <3>1. E[0].given = <<>>
      BY <1>1 DEF Runs, Start
    <3> QED
      BY <3>1 DEF Leading
  <2>2. ASSUME NEW n \in Nat, n \in D PROVE n + 1 \in D
    <3> SUFFICES ASSUME n + 1 <= Len(ops) PROVE Leading(ops, E[n + 1], n + 1)
      OBVIOUS
    <3>1. n + 1 \in DOMAIN ops /\ Leading(ops, E[n], n) /\ Sound(E[n], n)
      BY <1>2, <1>3, <2>2
    <3>2. E[n + 1] = Do(E[n], ops[n + 1])
      BY <1>1, <3>1 DEF Runs
    <3> HIDE DEF D
    <3> QED
      BY <1>4, <3>1, <3>2, LeadingStep
  <2> HIDE DEF D
  <2>3. Nat \subseteq D
    BY <2>1, <2>2, Doing!NatSetInduction
  <2> QED
    BY <1>2, <2>3 DEF D
<1>5. E[Len(ops)] = FoldLeft(Do, Start(r, i), ops) /\ Sound(E[Len(ops)], Len(ops))
  BY <1>1, <1>2, <1>3 DEF Runs
<1> QED
  BY <1>4, <1>5

-----------------------------------------------------------------------------
(* What the client learns of an outcome.                                   *)

(* An outcome is reported with an error exactly if nothing was applied.    *)
LEMMA OutcomeFacts ==
    ASSUME NEW r, RowsOk(r), NEW i \in Nat, NEW ops, OpList(ops), NEW o \in Outcomes(r, i, ops)
    PROVE  /\ RowsOk(o.rows) /\ o.next \in Nat
           /\ o.ok \in BOOLEAN
           /\ o.ok <=> Errors(o.results) = {}
           /\ o.ok => LET end == FoldLeft(Do, Start(r, i), ops)
                      IN  o.given = end.given /\ o.results = end.results
<1> DEFINE end == FoldLeft(Do, Start(r, i), ops)
           kept == Collect(end.rows)
<1>1. Sound(end, Len(ops)) /\ Len(ops) \in Nat
  BY ServerEnd DEF RowsOk, OpList
<1>2. \/ \E n \in Nat : n <= Len(ops) /\ o = Failure(r, end, n)
      \/ Allowed(kept) /\ o = Success(end)
  BY OutcomeIs
<1> HIDE DEF end
<1>3. CASE \E n \in Nat : n <= Len(ops) /\ o = Failure(r, end, n)
  <2>1. PICK n \in Nat : n <= Len(ops) /\ o = Failure(r, end, n)
    BY <1>3
  <2>2. /\ o.ok = FALSE /\ o.rows = r /\ o.next = end.next
        /\ o.results = Append(SubSeq(end.results, 1, n), Result("error", 0))
    BY <2>1 DEF Failure
  <2>3. n + 1 \in DOMAIN o.results /\ o.results[n + 1] = Result("error", 0)
    <3>1. SubSeq(end.results, 1, n) \in Seq(OpResults) /\ Len(SubSeq(end.results, 1, n)) = n
      BY <1>1, <2>1 DEF Sound
    <3> QED
      BY <2>2, <3>1
  <2>4. n + 1 \in Errors(o.results)
    BY <2>3 DEF Errors, Result
  <2> QED
    BY <1>1, <2>2, <2>4 DEF Sound
<1>4. CASE Allowed(kept) /\ o = Success(end)
  <2>1. /\ o.ok = TRUE /\ o.rows = kept /\ o.next = end.next /\ o.given = end.given
        /\ o.results = end.results
    BY <1>4 DEF Success
  <2>2. Errors(end.results) = {}
    <3>1. \A x \in OpResults : x.kind # "error"
      BY DEF OpResults, Result
    <3>2. \A n \in DOMAIN end.results : end.results[n] \in OpResults
      BY <1>1 DEF Sound
    <3> QED
      BY <3>1, <3>2 DEF Errors
  <2>3. DOMAIN kept \subseteq DOMAIN end.rows
    BY DEF Collect
  <2>4. RowsOk(kept)
    <3>1. IsFiniteSet(DOMAIN kept)
      BY <1>1, <2>3, FS_Subset DEF Sound
    <3> HIDE DEF kept
    <3> QED
      BY <1>4, <3>1 DEF RowsOk, Allowed
  <2> QED
    BY <1>1, <2>1, <2>2, <2>4 DEF Sound, end
<1> QED
  BY <1>2, <1>3, <1>4

(* The client enters result n under "row{n - 1}".                          *)
LEMMA ProcessFacts ==
    ASSUME NEW results, NEW l \in Nat, DOMAIN results = 1 .. l, Errors(results) = {},
           ProcessResult(results)
    PROVE  /\ status' = "Success"
           /\ \A n \in 1 .. l : results[n].kind = "uuid" =>
                 n - 1 \in DOMAIN uuidMap' /\ uuidMap'[n - 1] = results[n].uuid
<1> DEFINE ids == {n \in {m \in DOMAIN results : \A e \in Errors(results) : m < e} :
                      results[n].kind = "uuid"}
           new == [k \in {NameOf(n) : n \in ids} |->
                      results[CHOOSE n \in ids : NameOf(n) = k].uuid]
<1>1. status' = "Success" /\ uuidMap' = Extend(new, uuidMap)
  BY DEF ProcessResult
<1>2. ids = {n \in 1 .. l : results[n].kind = "uuid"}
  OBVIOUS
<1> HIDE DEF ids
<1>3. ASSUME NEW n \in 1 .. l, results[n].kind = "uuid"
      PROVE  n - 1 \in DOMAIN uuidMap' /\ uuidMap'[n - 1] = results[n].uuid
  <2>1. n \in ids /\ NameOf(n) = n - 1
    BY <1>2, <1>3 DEF NameOf
  <2>2. (CHOOSE m \in ids : NameOf(m) = n - 1) = n
    <3>1. \A m \in ids : NameOf(m) = n - 1 => m = n
      BY <1>2 DEF NameOf
    <3> HIDE DEF new
    <3> QED
      BY <2>1, <3>1
  <2>3. n - 1 \in DOMAIN new /\ new[n - 1] = results[n].uuid
    BY <2>1, <2>2
  <2> HIDE DEF new
  <2> QED
    BY <1>1, <2>3 DEF Extend
<1> QED
  BY <1>1, <1>3

-----------------------------------------------------------------------------
(* The invariant.  What the calls have built so far is numbered from 0 as  *)
(* long as only inserts are in front.                                      *)
BuiltOk ==
    /\ uuidCounter \in Nat /\ \E S : built \in Seq(S)
    /\ built = <<>> => Operations = <<>> /\ uuidCounter = 0
    /\ built # <<>> => CallOps(Operations, 0)
    /\ Linked(Operations) /\ Numbered(Operations, 0, uuidCounter) /\ CallsLaid(Operations, built)

(* The database is a tree, and no row that the replica has has got another *)
(* parent since.                                                           *)
ServerOk == Tree(rows, next) /\ Stale(replica, rows, next) /\ commits \in Nat

(* A transaction that only deletes by uuid is covered.                     *)
DeletesOk ==
    (\A n \in DOMAIN built : built[n].kind \in UuidDeletes) => Covers(Range(Operations), rows, next)

IInv ==
    /\ BuiltOk /\ ServerOk /\ DeletesOk
    /\ StatusIsHonest /\ LeadingRefsResolve /\ UuidDeletesSucceed

LEMMA TreeRows ==
    ASSUME NEW r, NEW i, Tree(r, i)
    PROVE  RowsOk(r) /\ i \in Nat /\ Stale(r, r, i)
<1>1. RowsOk(r) /\ i \in Nat
  BY DEF Tree, Below, Allowed, RowsOk
<1>2. \A u \in DOMAIN r : \A x \in r[u].refs : Only(r, i, x, u)
  BY DEF Tree, Below, OneParent, Only
<1> QED
  BY <1>1, <1>2 DEF Stale, Tree

(* What a step of the server does to what the database was.                *)
Moved == Tree(rows', next') /\ next <= next' /\ Older(rows, next, rows')

LEMMA Unmoved == ASSUME Tree(rows, next), UNCHANGED <<rows, next>> PROVE Moved
<1>1. next \in Nat
  BY TreeRows
<1>2. Older(rows, next, rows)
  BY DEF Tree, Below, Older, SameRow
<1> QED
  BY <1>1, <1>2 DEF Moved

LEMMA MovedKeeps ==
    ASSUME ServerOk, DeletesOk, Moved, UNCHANGED <<built, replica>>, commits' \in Nat
    PROVE  ServerOk' /\ DeletesOk'
<1>1. next \in Nat /\ next' \in Nat /\ next <= next' /\ Older(rows, next, rows')
  BY TreeRows DEF ServerOk, Moved
<1>2. Stale(replica, rows', next')
  BY <1>1, OnlyStays DEF ServerOk, Stale
<1>3. ServerOk'
  BY <1>2 DEF ServerOk, Moved
<1>4. Operations' = Operations
  BY DEF Operations
<1>5. DeletesOk'
  BY <1>1, <1>4, CoversStays DEF DeletesOk
<1> QED
  BY <1>3, <1>5

LEMMA OperationsNone == built = <<>> => Operations = <<>>
<1>1. Joining!Fold(<<>>, <<>>) = <<>>
  BY Joining!FoldNone
<1> QED
  BY <1>1, JoiningIs DEF Operations

LEMMA NoOps ==
    /\ \E S : <<>> \in Seq(S)
    /\ Linked(<<>>) /\ Numbered(<<>>, 0, 0) /\ Range(<<>>) = {}
<1>1. <<>> \in Seq({}) /\ DOMAIN <<>> = {}
  OBVIOUS
<1>2. OpList(<<>>)
  BY <1>1 DEF OpList
<1> QED
  BY <1>1, <1>2 DEF Linked, Numbered, Range

LEMMA NoneLaid == CallsLaid(<<>>, <<>>)
<1>1. DOMAIN <<>> = {} /\ Range(<<>>) = {} /\ OpList(<<>>)
  BY NoOps DEF Linked
<1> QED
  BY <1>1 DEF CallsLaid, OnlyAdds

LEMMA OperationsMore ==
    ASSUME NEW S, built \in Seq(S), NEW s, built' = Append(built, s)
    PROVE  Operations' = Operations \o s.ops
<1>1. built \in Seq(S \union {s}) /\ s \in S \union {s}
  OBVIOUS
<1>2. Joining!Fold(<<>>, Append(built, s)) = Followed(Joining!Fold(<<>>, built), s)
  BY <1>1, Joining!FoldAppend
<1>3. Operations = Joining!Fold(<<>>, built) /\ Operations' = Joining!Fold(<<>>, Append(built, s))
  BY JoiningIs DEF Operations
<1> QED
  BY <1>2, <1>3 DEF Followed

LEMMA InitHolds == Init => IInv
<1> SUFFICES ASSUME Init PROVE IInv
  OBVIOUS
<1>1. Operations = <<>> /\ built = <<>> /\ rows = Empty /\ replica = Empty /\ next = 1 /\ commits = 0
  BY OperationsNone DEF Init
<1>2. BuiltOk
  BY <1>1, NoOps, NoneLaid DEF Init, BuiltOk
<1>3. Tree(rows, next)
  BY <1>1, EmptyTree
<1>4. ServerOk
  BY <1>1, <1>3, TreeRows DEF ServerOk
<1>5. DeletesOk
  BY <1>1, NoOps DEF DeletesOk, Covers
<1>6. StatusIsHonest /\ LeadingRefsResolve /\ UuidDeletesSucceed
  BY DEF Init, StatusIsHonest, LeadingRefsResolve, UuidDeletesSucceed
<1> QED
  BY <1>2, <1>4, <1>5, <1>6 DEF IInv

LEMMA BuildKeeps == IInv /\ Build => IInv'
<1> SUFFICES ASSUME IInv, Build PROVE IInv'
  OBVIOUS
<1>1. PICK s \in Calls(replica, uuidCounter) :
         built' = Append(built, s) /\ uuidCounter' = uuidCounter + Inserts(s.ops)
  BY DEF Build
<1>2. /\ status = "Uncommitted"
      /\ UNCHANGED <<status, uuidMap, replica, rows, next, given, applied, commits, others>>
  BY DEF Build
<1>3. PICK S : built \in Seq(S)
  BY DEF IInv, BuiltOk
<1>4. /\ CallOps(s.ops, uuidCounter) /\ OpList(s.ops) /\ Inserts(s.ops) \in Nat
      /\ Linked(s.ops) /\ Numbered(s.ops, uuidCounter, uuidCounter + Inserts(s.ops))
  BY CallsOps, CallsBuilt DEF IInv, BuiltOk, ServerOk, Stale, Linked
<1>5. Operations' = Operations \o s.ops
  BY <1>1, <1>3, OperationsMore
<1>6. CallOps(Operations \o s.ops, 0)
  <2>1. CASE built = <<>>
    <3>1. Operations = <<>> /\ uuidCounter = 0
      BY <2>1 DEF IInv, BuiltOk
    <3>2. Operations \o s.ops = s.ops
      BY <1>4, <3>1 DEF OpList
    <3> QED
      BY <1>4, <3>1, <3>2
  <2>2. CASE built # <<>>
    <3>1. CallOps(Operations, 0)
      BY <2>2 DEF IInv, BuiltOk
    <3> QED
      BY <1>4, <3>1, CallConcat
  <2> QED
    BY <2>1, <2>2
<1>7. Linked(Operations) /\ OpList(Operations) /\ Numbered(Operations, 0, uuidCounter) /\ uuidCounter \in Nat
  BY DEF IInv, BuiltOk, Linked
<1>8. DOMAIN built' = DOMAIN built \union {Len(built) + 1} /\ built'[Len(built) + 1] = s
      /\ (\A n \in DOMAIN built : built'[n] = built[n]) /\ built' # <<>> /\ \E T : built' \in Seq(T)
  <2>1. built \in Seq(S \union {s}) /\ s \in S \union {s}
    BY <1>3
  <2>2. built' \in Seq(S \union {s}) /\ built' # <<>>
    BY <1>1, <2>1
  <2>3. DOMAIN built' = DOMAIN built \union {Len(built) + 1} /\ built'[Len(built) + 1] = s
        /\ (\A n \in DOMAIN built : built'[n] = built[n])
    BY <1>1, <2>1
  <2> QED
    BY <2>2, <2>3
<1>9. BuiltOk'
  <2>1. uuidCounter' \in Nat
    BY <1>1, <1>4, <1>7
  <2>2. Linked(Operations') /\ CallOps(Operations', 0)
    BY <1>4, <1>5, <1>6, <1>7, LinkedConcat
  <2>3. Numbered(Operations', 0, uuidCounter')
    BY <1>1, <1>4, <1>5, <1>7, NumberedConcat
  <2>4. CallsLaid(Operations', built')
    BY <1>1, <1>3, <1>4, <1>5, <1>7, LaidMore DEF IInv, BuiltOk
  <2> QED
    BY <1>8, <2>1, <2>2, <2>3, <2>4 DEF BuiltOk
<1>10. DeletesOk'
  <2> SUFFICES ASSUME \A n \in DOMAIN built' : built'[n].kind \in UuidDeletes
               PROVE  Covers(Range(Operations'), rows, next)
    BY <1>2 DEF DeletesOk
  <2>1. s.kind \in UuidDeletes /\ \A n \in DOMAIN built : built[n].kind \in UuidDeletes
    BY <1>8
  <2>2. Covers(Range(s.ops), rows, next)
    BY <1>7, <2>1, CallsCover DEF IInv, ServerOk
  <2>3. Covers(Range(Operations), rows, next)
    BY <2>1 DEF IInv, DeletesOk
  <2>4. Range(Operations') = Range(Operations) \union Range(s.ops)
    <3>1. PICK a, b, c : a = Operations /\ b = s.ops /\ c = Operations'
      OBVIOUS
    <3>2. OpList(a) /\ OpList(b) /\ c = a \o b
      BY <1>4, <1>5, <1>7, <3>1
    <3>3. Range(c) = Range(a) \union Range(b)
      BY <3>2, ConcatIs, SMTT(30), ZenonT(30)
    <3> QED
      BY <3>1, <3>3
  <2> QED
    BY <2>2, <2>3, <2>4, CoversUnion
<1>11. ServerOk' /\ StatusIsHonest' /\ LeadingRefsResolve' /\ UuidDeletesSucceed'
  BY <1>2 DEF IInv, ServerOk, StatusIsHonest, LeadingRefsResolve, UuidDeletesSucceed
<1> QED
  BY <1>9, <1>10, <1>11 DEF IInv

LEMMA NewKeeps == IInv /\ New => IInv'
<1> SUFFICES ASSUME IInv, New PROVE IInv'
  OBVIOUS
<1>1. /\ built' = <<>> /\ uuidCounter' = 0 /\ status' = "Uncommitted" /\ applied' = 0
      /\ UNCHANGED <<replica, rows, next, commits>>
  BY DEF New
<1>2. Operations' = <<>>
  <2>1. (built = <<>> => Operations = <<>>)'
    BY OperationsNone, PTL
  <2> QED
    BY <1>1, <2>1
<1>3. BuiltOk'
  BY <1>1, <1>2, NoOps, NoneLaid DEF BuiltOk
<1>4. DeletesOk'
  BY <1>2, NoOps DEF DeletesOk, Covers
<1>5. ServerOk'
  BY <1>1 DEF IInv, ServerOk
<1> QED
  BY <1>1, <1>3, <1>4, <1>5 DEF IInv, StatusIsHonest, LeadingRefsResolve, UuidDeletesSucceed

(* Whatever operations were built, by the caller or another client.        *)
LEMMA OutcomeMoves ==
    ASSUME ServerOk, NEW q, Linked(q), NEW l, Numbered(q, 0, l), NEW o \in Outcomes(rows, next, q),
           rows' = o.rows, next' = o.next
    PROVE  Moved
  BY Settled DEF ServerOk, Moved

LEMMA CommitKeeps == IInv /\ Commit => IInv'
<1> SUFFICES ASSUME IInv, Commit PROVE IInv'
  OBVIOUS
<1>1. PICK o \in Outcomes(rows, next, Operations) :
         /\ rows' = o.rows /\ next' = o.next
         /\ given' = o.given /\ applied' = IF o.ok THEN commits' ELSE 0
         /\ ProcessResult(o.results)
  BY DEF Commit
<1>2. /\ built # <<>> /\ commits' = commits + 1
      /\ UNCHANGED <<built, uuidCounter, replica>>
  BY DEF Commit
<1>3. CallOps(Operations, 0) /\ OpList(Operations)
  BY <1>2 DEF IInv, BuiltOk, CallOps
<1>4. Operations' = Operations
  BY <1>2 DEF Operations
<1>5. RowsOk(rows) /\ next \in Nat /\ Tree(rows, next)
  BY TreeRows DEF IInv, ServerOk
<1>6. /\ o.ok \in BOOLEAN
      /\ o.ok <=> Errors(o.results) = {}
      /\ o.ok => LET end == FoldLeft(Do, Start(rows, next), Operations)
                 IN  o.given = end.given /\ o.results = end.results
  <2>1. OpList(Operations)
    BY <1>3
  <2>2. RowsOk(rows) /\ next \in Nat
    BY <1>5
  <2> QED
    BY <2>1, <2>2, OutcomeFacts, SMTT(60)
<1>7. BuiltOk'
  BY <1>2, <1>4 DEF IInv, BuiltOk
<1>8. ServerOk' /\ DeletesOk'
  <2>1. commits' \in Nat
    BY <1>2 DEF IInv, ServerOk
  <2>2. Moved
    BY <1>1, OutcomeMoves DEF IInv, BuiltOk
  <2> QED
    BY <1>2, <2>1, <2>2, MovedKeeps DEF IInv
<1>9. status' = IF Errors(o.results) = {} THEN "Success" ELSE "Error"
  BY <1>1 DEF ProcessResult
<1>10. StatusIsHonest'
  <2>1. commits' # 0
    BY <1>2 DEF IInv, ServerOk
  <2> QED
    BY <1>1, <1>6, <1>9, <2>1 DEF StatusIsHonest
<1>11. LeadingRefsResolve'
  <2>1. CASE o.ok
    <3> DEFINE end == FoldLeft(Do, Start(rows, next), Operations)
    <3>1. o.given = end.given /\ o.results = end.results /\ Errors(end.results) = {}
      BY <1>6, <2>1
    <3>2. Sound(end, Len(Operations)) /\ Leading(Operations, end, Len(Operations))
      BY <1>3, <1>5, ServerEnd DEF RowsOk
    <3>3. given' = end.given /\ ProcessResult(end.results)
      BY <1>1, <3>1
    <3>4. Len(Operations) \in Nat /\ DOMAIN Operations = 1 .. Len(Operations)
      BY <1>3 DEF OpList
    <3> HIDE DEF end
    <3>5. DOMAIN end.results = 1 .. Len(Operations)
      BY <3>2 DEF Sound
    <3>6. \A n \in 1 .. Len(Operations) : end.results[n].kind = "uuid" =>
             n - 1 \in DOMAIN uuidMap' /\ uuidMap'[n - 1] = end.results[n].uuid
      BY <3>1, <3>3, <3>4, <3>5, ProcessFacts
    <3>7. ASSUME NEW n \in DOMAIN Operations, Leads(Operations, n)
          PROVE  LET k == Operations[n].as IN k \in DOMAIN uuidMap' /\ uuidMap'[k] = end.given[k]
      <4>1. Operations[n].as = n - 1
        BY <1>3, <3>4, <3>7 DEF CallOps
      <4>2. end.results[n] = Result("uuid", end.given[n - 1])
        BY <3>2, <3>4, <3>7 DEF Leading
      <4>3. end.results[n].kind = "uuid" /\ end.results[n].uuid = end.given[n - 1]
        BY <4>2 DEF Result
      <4> QED
        BY <3>4, <3>6, <4>1, <4>3
    <3> QED
      BY <1>4, <3>3, <3>7 DEF LeadingRefsResolve, Leads
  <2>2. CASE ~o.ok
    <3>1. status' = "Error"
      BY <1>6, <1>9, <2>2
    <3> QED
      BY <3>1 DEF LeadingRefsResolve
  <2> QED
    BY <2>1, <2>2
<1>12. UuidDeletesSucceed'
  <2> SUFFICES ASSUME status' = "Error", \A n \in DOMAIN built : built[n].kind \in UuidDeletes
               PROVE  FALSE
    BY <1>2 DEF UuidDeletesSucceed, UuidDeletes
  <2>1. Covers(Range(Operations), rows, next)
    BY DEF IInv, DeletesOk
  <2>2. o.ok
    BY <1>3, <1>5, <2>1, CoveredSucceed
  <2> QED
    BY <1>6, <1>9, <2>2
<1> QED
  BY <1>7, <1>8, <1>10, <1>11, <1>12 DEF IInv

(* Steps that touch neither the transaction nor what is known of it.       *)
LEMMA OthersKeep ==
    ASSUME IInv, UNCHANGED <<txn, given, applied>>, ServerOk', DeletesOk'
    PROVE  IInv'
<1>1. UNCHANGED <<built, status, uuidMap, uuidCounter, given, applied>>
  BY DEF txn
<1>2. Operations' = Operations
  BY <1>1 DEF Operations
<1>3. BuiltOk'
  BY <1>1, <1>2 DEF IInv, BuiltOk
<1>4. StatusIsHonest' /\ LeadingRefsResolve' /\ UuidDeletesSucceed'
  BY <1>1, <1>2 DEF IInv, StatusIsHonest, LeadingRefsResolve, UuidDeletesSucceed
<1> QED
  BY <1>3, <1>4 DEF IInv

LEMMA CommitUnansweredKeeps == IInv /\ CommitUnanswered => IInv'
<1> SUFFICES ASSUME IInv, CommitUnanswered PROVE IInv'
  OBVIOUS
<1>1. UNCHANGED <<txn, built, replica, given, applied>> /\ commits' = commits + 1
  BY DEF CommitUnanswered, txn
<1>2. Moved
  <2>1. CASE UNCHANGED <<rows, next>>
    BY <2>1, Unmoved DEF IInv, ServerOk
  <2>2. CASE \E o \in Outcomes(rows, next, Operations) : rows' = o.rows /\ next' = o.next
    BY <2>2, OutcomeMoves DEF IInv, BuiltOk
  <2> QED
    BY <2>1, <2>2 DEF CommitUnanswered
<1>3. commits' \in Nat
  BY <1>1 DEF IInv, ServerOk
<1> QED
  BY <1>1, <1>2, <1>3, MovedKeeps, OthersKeep DEF IInv

LEMMA RefreshKeeps == IInv /\ Refresh => IInv'
<1> SUFFICES ASSUME IInv, Refresh PROVE IInv'
  OBVIOUS
<1>1. UNCHANGED <<txn, built, rows, next, given, applied, commits>> /\ replica' = rows
  BY DEF Refresh, txn
<1>2. ServerOk'
  BY <1>1, TreeRows DEF IInv, ServerOk
<1>3. DeletesOk'
  BY <1>1 DEF IInv, DeletesOk, Operations
<1> QED
  BY <1>1, <1>2, <1>3, OthersKeep

LEMMA OtherClientKeeps == IInv /\ OtherClient => IInv'
<1> SUFFICES ASSUME IInv, OtherClient PROVE IInv'
  OBVIOUS
<1>1. PICK s \in Calls(rows, 0) : \E o \in Outcomes(rows, next, s.ops) :
         rows' = o.rows /\ next' = o.next
  BY DEF OtherClient
<1>2. UNCHANGED <<txn, built, replica, given, applied, commits>>
  BY DEF OtherClient, txn
<1>3. Linked(s.ops) /\ Numbered(s.ops, 0, 0 + Inserts(s.ops))
  BY CallsBuilt, TreeRows DEF IInv, ServerOk
<1>4. Moved
  BY <1>1, <1>3, OutcomeMoves DEF IInv
<1>5. commits' \in Nat
  BY <1>2 DEF IInv, ServerOk
<1> QED
  BY <1>2, <1>4, <1>5, MovedKeeps, OthersKeep DEF IInv

LEMMA StepKeeps == IInv /\ [Next]_vars => IInv'
<1> SUFFICES ASSUME IInv, [Next]_vars PROVE IInv'
  OBVIOUS
<1>1. CASE Build
  BY <1>1, BuildKeeps
<1>2. CASE New
  BY <1>2, NewKeeps
<1>3. CASE Commit
  BY <1>3, CommitKeeps
<1>4. CASE CommitUnanswered
  BY <1>4, CommitUnansweredKeeps
<1>5. CASE Refresh
  BY <1>5, RefreshKeeps
<1>6. CASE OtherClient
  BY <1>6, OtherClientKeeps
<1>7. CASE UNCHANGED vars
  <2>1. UNCHANGED <<txn, given, applied>> /\ ServerOk' /\ DeletesOk'
    BY <1>7 DEF vars, txn, IInv, ServerOk, DeletesOk, Operations
  <2> QED
    BY <2>1, OthersKeep
<1> QED
  BY <1>1, <1>2, <1>3, <1>4, <1>5, <1>6, <1>7 DEF Next

-----------------------------------------------------------------------------
(* A bridge is found by its name if it was there when the transaction was  *)
(* applied, or was created before.                                         *)
LEMMA PortHas ==
    ASSUME NEW q, NEW s, Landing(rows, next, q, s), NEW e, NEW b, NEW p, NEW peer,
           PortAt(q, e, b, p, peer), NEW n, Exists(b, n), Before(q, built, n, e)
    PROVE  Has(Collect(s.rows), b, p, peer)
<1>1. e \in Nat /\ e + 2 \in Nat /\ \A f : f \in Nat /\ f + 3 < e => f + 3 < e + 2
  BY LandingFacts DEF PortAt
<1>2. \E u : u \in s.rows[0].refs /\ u \in Matches(s.rows, ByName("Bridge", b)) /\ Seen(rows, q, e + 2, s, u)
  <2>1. CASE \E u \in OfTable(rows, "Bridge") : rows[u].name = b
    <3>1. PICK u \in DOMAIN rows : rows[u].table = "Bridge" /\ rows[u].name = b
      BY <2>1 DEF OfTable
    <3> QED
      BY <3>1, OldBridge DEF Seen
  <2>2. CASE \E m \in 1 .. n - 1 : built[m].kind = "create_bridge" /\ built[m].bridge = b
    <3>1. PICK f : f + 3 < e /\ BridgeAt(q, f, b)
      BY <2>2 DEF Before
    <3>2. f \in Nat
      BY <3>1, LandingFacts DEF BridgeAt
    <3>3. f + 3 < e + 2
      BY <1>1, <3>1, <3>2
    <3> QED
      BY <1>1, <3>1, <3>3, NewBridge
  <2> QED
    BY <2>1, <2>2 DEF Exists
<1>3. PICK u : /\ u \in s.rows[0].refs /\ u \in Matches(s.rows, ByName("Bridge", b))
               /\ Seen(rows, q, e + 2, s, u)
  BY <1>2
<1>4. Hung(Collect(s.rows), u, b, Given(q, s, e + 1), p, Given(q, s, e), peer)
  BY <1>3, PortLands
<1> QED
  BY <1>4 DEF Hung, Has

LEMMA AllLand ==
    ASSUME NEW q, NEW s, Landing(rows, next, q, s), CallsLaid(q, built), NEW n \in DOMAIN built,
           built[n].kind \in Adds
    PROVE  Landed(Collect(s.rows), n)
<1> DEFINE b == built[n].bridge
           d == built[n].other
           c == Collect(s.rows)
<1>1. Laid(q, built, n)
  BY DEF CallsLaid
<1>2. CASE built[n].kind = "create_bridge"
  <2>1. PICK e : BridgeAt(q, e, b)
    BY <1>1, <1>2 DEF Laid
  <2>2. Hung(c, Given(q, s, e + 2), b, Given(q, s, e + 1), b, Given(q, s, e), NoName)
    BY <2>1, BridgeLands
  <2>3. Has(c, b, b, NoName)
    BY <2>2 DEF Hung, Has
  <2> QED
    BY <1>2, <2>3 DEF Landed
<1>3. CASE built[n].kind = "add_port"
  <2>1. PICK e : PortAt(q, e, b, d, NoName) /\ Before(q, built, n, e)
    BY <1>1, <1>3 DEF Laid
  <2>2. Exists(b, n) => Has(c, b, d, NoName)
    BY <2>1, PortHas
  <2> QED
    BY <1>3, <2>2 DEF Landed
<1>4. CASE built[n].kind = "add_patch_ports"
  <2>1. PICK bd, db : bd = b \o d /\ db = d \o b
    OBVIOUS
  <2>2. PICK e : PortAt(q, e, b, bd, db) /\ PortAt(q, e + 3, d, db, bd) /\ Before(q, built, n, e)
    BY <1>1, <1>4, <2>1 DEF Laid
  <2>3. Before(q, built, n, e + 3)
    <3>1. e \in Nat
      <4>1. e \in DOMAIN q
        BY <2>2 DEF PortAt
      <4>2. Len(q) \in Nat /\ DOMAIN q = 1 .. Len(q)
        BY LandingFacts
      <4> QED
        BY <4>1, <4>2
    <3>2. \A m \in 1 .. n - 1 : built[m].kind = "create_bridge" =>
             \E f : f \in Nat /\ f + 3 < e /\ BridgeAt(q, f, built[m].bridge)
      <4>1. \A f, x : BridgeAt(q, f, x) => f \in Nat
        BY LandingFacts DEF BridgeAt
      <4>2. \A m \in 1 .. n - 1 : built[m].kind = "create_bridge" =>
               \E f : f + 3 < e /\ BridgeAt(q, f, built[m].bridge)
        BY <2>2 DEF Before
      <4> QED
        BY <4>1, <4>2
    <3>3. \A f \in Nat : f + 3 < e => f + 3 < e + 3
      BY <3>1
    <3> QED
      BY <3>2, <3>3 DEF Before
  <2>4. Exists(b, n) => Has(c, b, bd, db)
    BY <2>2, PortHas
  <2>5. Exists(d, n) => Has(c, d, db, bd)
    BY <2>2, <2>3, PortHas
  <2> QED
    BY <1>4, <2>1, <2>4, <2>5 DEF Landed
<1>5. CASE built[n].kind = "set_controller"
  BY <1>5 DEF Landed
<1> QED
  BY <1>2, <1>3, <1>4, <1>5 DEF Adds

(* A commit of calls that only add.                                        *)
LEMMA CommitLands ==
    ASSUME IInv, Commit, applied' # 0, \A n \in DOMAIN built : built[n].kind \in Adds
    PROVE  \A n \in DOMAIN built : Landed(rows', n)
<1>1. PICK o \in Outcomes(rows, next, Operations) :
         rows' = o.rows /\ applied' = IF o.ok THEN commits' ELSE 0
  BY DEF Commit
<1> DEFINE q == Operations
           end == FoldLeft(Do, Start(rows, next), q)
<1>2. Linked(q) /\ OpList(q) /\ Numbered(q, 0, uuidCounter) /\ CallsLaid(q, built) /\ Tree(rows, next)
  BY DEF IInv, BuiltOk, ServerOk, Linked
<1>3. Allowed(Collect(end.rows)) /\ o = Success(end)
  BY <1>1, <1>2, OutcomeIs DEF Failure
<1>4. \A n \in DOMAIN q : Adding(q[n])
  BY <1>2, AddsAll DEF CallsLaid
<1>5. Grown(rows, q, Len(q), end) /\ Mid(rows, next, q, Len(q), end)
  BY <1>2, <1>4, GrownAll
<1>6. IsFiniteSet(DOMAIN end.rows)
  BY <1>2, ServerEnd, TreeRows DEF Sound, RowsOk
<1> HIDE DEF end, q
<1>7. Landing(rows, next, q, end)
  BY <1>2, <1>3, <1>5, <1>6, KeptTree DEF Landing
<1>8. rows' = Collect(end.rows)
  BY <1>1, <1>3 DEF Success
<1> QED
  BY <1>2, <1>7, <1>8, AllLand
-----------------------------------------------------------------------------
(* A transaction is reported as successful exactly if its last answered    *)
(* commit was applied, whatever was committed before it, in the name of    *)
(* the same transaction too, and wherever among the results the error is.  *)
THEOREM StatusHonest == Spec => []StatusIsHonest
<1>1. IInv => StatusIsHonest
  BY DEF IInv
<1> QED
  BY <1>1, InitHolds, StepKeeps, PTL DEF Spec

(* After a success get_uuid finds the row of every insert made before      *)
(* other operations: no operation of a later call takes its name, and the  *)
(* result of another operation is never taken for its own.                 *)
THEOREM LeadingRefs == Spec => []LeadingRefsResolve
<1>1. IInv => LeadingRefsResolve
  BY DEF IInv
<1> QED
  BY <1>1, InitHolds, StepKeeps, PTL DEF Spec

(* Deletion by uuid is never refused, whatever other clients have made of  *)
(* the database since the replica was read: nobody refers to a row that    *)
(* its parent referred to but that parent, so nothing refers to what is    *)
(* deleted.                                                                *)
THEOREM UuidDeletesDone == Spec => []UuidDeletesSucceed
<1>1. IInv => UuidDeletesSucceed
  BY DEF IInv
<1> QED
  BY <1>1, InitHolds, StepKeeps, PTL DEF Spec

(* What the calls of a transaction add is there once it was applied: the   *)
(* bridge registered and with its local port, the port in its bridge, the  *)
(* two patch ports each other's peers, whatever other clients have done;   *)
(* if the bridge exists then, or is created by a call before.              *)
THEOREM AddsDone == Spec => AddsLand
<1>1. IInv /\ [Next]_vars =>
        [applied' \notin {0, applied} /\ (\A n \in DOMAIN built : built[n].kind \in Adds)
            => \A n \in DOMAIN built : Landed(rows', n)]_vars
  <2> SUFFICES ASSUME IInv, [Next]_vars, applied' \notin {0, applied},
                      \A n \in DOMAIN built : built[n].kind \in Adds
               PROVE  \A n \in DOMAIN built : Landed(rows', n)
    OBVIOUS
  <2>1. CASE Commit
    BY <2>1, CommitLands
  <2>2. CASE ~Commit
    BY <2>2 DEF Next, vars, Build, New, CommitUnanswered, Refresh, OtherClient
  <2> QED
    BY <2>1, <2>2
<1> QED
  BY <1>1, InitHolds, StepKeeps, PTL DEF Spec, AddsLand
=============================================================================
