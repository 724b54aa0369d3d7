------------------------ MODULE TransactionOpsProofs ------------------------
(***************************************************************************)
(* What the server makes of the operations that rovs builds, for any rows, *)
(* names and any number of operations.                                     *)
(***************************************************************************)
EXTENDS TransactionOps, FiniteSetTheorems, TLAPS

Doing == INSTANCE FoldFacts WITH Step <- Do

LEMMA DoingIs == \A b, q : Doing!Fold(b, q) = FoldLeft(Do, b, q)
  BY DEF Doing!Fold, FoldLeft, Doing!FoldLeft, MapThenFoldSet, Doing!MapThenFoldSet,
         Max, Doing!Max

Kinds == {"insert", "mutate", "update", "delete", "wait"}

OpList(q) == \E S : q \in Seq(S) /\ \A o \in S : o.op \in Kinds

(* The states of the server, from the first operation to the last.         *)
Runs(E, b, q) ==
    /\ E[0] = b /\ E[Len(q)] = FoldLeft(Do, b, q)
    /\ \A n \in Nat : n + 1 \in DOMAIN q => E[n + 1] = Do(E[n], q[n + 1])

LEMMA RunExists == ASSUME NEW b, NEW q, OpList(q) PROVE \E E : Runs(E, b, q)
<1>1. PICK S : q \in Seq(S)
  BY DEF OpList
<1> DEFINE F(n) == Doing!Fold(b, SubSeq(q, 1, n))
           E == [n \in Nat |-> F(n)]
<1>2. /\ F(0) = b
      /\ \A n \in Nat : n + 1 \in DOMAIN q => F(n + 1) = Do(F(n), q[n + 1])
      /\ F(Len(q)) = Doing!Fold(b, q)
  BY <1>1, Doing!FoldPrefixes
<1>3. Len(q) \in Nat /\ F(Len(q)) = FoldLeft(Do, b, q)
  BY <1>1, <1>2, DoingIs
<1> HIDE DEF F
<1>4. E[0] = b /\ E[Len(q)] = FoldLeft(Do, b, q)
  BY <1>2, <1>3
<1>5. \A n \in Nat : n + 1 \in DOMAIN q => E[n + 1] = Do(E[n], q[n + 1])
  BY <1>2
<1> QED
  BY <1>4, <1>5 DEF Runs

-----------------------------------------------------------------------------
(* One operation.                                                          *)
IsState(s) == s = [rows |-> s.rows, next |-> s.next, given |-> s.given, results |-> s.results]
IsRow(x) == x = [table |-> x.table, name |-> x.name, peer |-> x.peer, refs |-> x.refs]
Uuids(s, o) == {IF r.named THEN s.given[r.id] ELSE r.id : r \in o.refs}
SameRow(x, y) == x.table = y.table /\ x.name = y.name /\ x.peer = y.peer

LEMMA RowUpdate ==
    ASSUME NEW x, IsRow(x), NEW S
    PROVE  LET y == [x EXCEPT !.refs = S] IN IsRow(y) /\ SameRow(x, y) /\ y.refs = S
<1>1. DOMAIN x = {"table", "name", "peer", "refs"}
  BY DEF IsRow
<1> QED
  BY <1>1 DEF IsRow, SameRow

LEMMA Inserted ==
    ASSUME NEW s, NEW o, o.op = "insert", IsRow(o.row), s.next \notin DOMAIN s.rows
    PROVE  LET t == Do(s, o)
           IN  /\ IsState(t) /\ t.next = s.next + 1
               /\ t.given = Extend(s.given, [k \in {o.as} |-> s.next])
               /\ DOMAIN t.rows = DOMAIN s.rows \union {s.next}
               /\ \A u \in DOMAIN s.rows : t.rows[u] = s.rows[u]
               /\ LET x == t.rows[s.next]
                  IN  IsRow(x) /\ SameRow(o.row, x) /\ x.refs = Uuids(s, o)
<1> DEFINE t == Do(s, o)
           x == [o.row EXCEPT !.refs = Uuids(s, o)]
<1>1. t = [rows    |-> Extend(s.rows, [u \in {s.next} |-> x]),
           next    |-> s.next + 1,
           given   |-> Extend(s.given, [k \in {o.as} |-> s.next]),
           results |-> Append(s.results, Result("uuid", s.next))]
  BY DEF Do, Uuids
<1>2. IsRow(x) /\ SameRow(o.row, x) /\ x.refs = Uuids(s, o)
  BY RowUpdate
<1> HIDE DEF x
<1>3. /\ t.rows = Extend(s.rows, [u \in {s.next} |-> x]) /\ t.next = s.next + 1
      /\ t.given = Extend(s.given, [k \in {o.as} |-> s.next]) /\ IsState(t)
  BY <1>1 DEF IsState
<1> HIDE DEF t
<1>4. DOMAIN t.rows = DOMAIN s.rows \union {s.next} /\ t.rows[s.next] = x
      /\ \A u \in DOMAIN s.rows : t.rows[u] = s.rows[u]
  BY <1>3 DEF Extend
<1> QED
  BY <1>2, <1>3, <1>4 DEF t

Controllers(r) == {x \in DOMAIN r : r[x].table = "Controller"}
NewRefs(s, o, u) ==
    CASE o.op = "mutate" /\ o.how = "insert" -> s.rows[u].refs \union Uuids(s, o)
      [] o.op = "mutate" /\ o.how = "delete" -> s.rows[u].refs \ Uuids(s, o)
      [] o.op = "update" ->
            {x \in s.rows[u].refs : x \notin Controllers(s.rows)} \union Uuids(s, o)

LEMMA Changed ==
    ASSUME NEW s, IsState(s), NEW o, o.op \in {"mutate", "update"}, \A u \in DOMAIN s.rows : IsRow(s.rows[u])
    PROVE  LET t == Do(s, o)
           IN  /\ IsState(t) /\ t.next = s.next /\ t.given = s.given
               /\ DOMAIN t.rows = DOMAIN s.rows
               /\ \A u \in DOMAIN s.rows : IsRow(t.rows[u]) /\ SameRow(s.rows[u], t.rows[u])
               /\ \A u \in DOMAIN s.rows \ Matches(s.rows, o.where) : t.rows[u].refs = s.rows[u].refs
               /\ \A u \in Matches(s.rows, o.where) : t.rows[u].refs = NewRefs(s, o, u)
<1> DEFINE t == Do(s, o)
           hit == Matches(s.rows, o.where)
           F == [u \in DOMAIN s.rows |->
                    IF u \in hit THEN [s.rows[u] EXCEPT !.refs = NewRefs(s, o, u)] ELSE s.rows[u]]
<1>1. t = [s EXCEPT !.rows = F, !.results = Append(@, Result("count", 0))]
  BY DEF Do, Uuids, NewRefs, Controllers
<1>2. \A u \in DOMAIN s.rows : LET y == [s.rows[u] EXCEPT !.refs = NewRefs(s, o, u)]
                               IN  IsRow(y) /\ SameRow(s.rows[u], y) /\ y.refs = NewRefs(s, o, u)
  BY RowUpdate
<1>3. hit \subseteq DOMAIN s.rows
  BY DEF Matches
<1> HIDE DEF hit
<1>4. /\ DOMAIN F = DOMAIN s.rows
      /\ \A u \in DOMAIN s.rows : IsRow(F[u]) /\ SameRow(s.rows[u], F[u])
      /\ \A u \in DOMAIN s.rows \ hit : F[u].refs = s.rows[u].refs
      /\ \A u \in hit : F[u].refs = NewRefs(s, o, u)
  BY <1>2, <1>3 DEF SameRow
<1> HIDE DEF F
<1>5. /\ t.rows = F /\ t.next = s.next /\ t.given = s.given /\ IsState(t)
  BY <1>1 DEF IsState
<1> HIDE DEF t
<1>6. /\ IsState(t) /\ t.next = s.next /\ t.given = s.given /\ DOMAIN t.rows = DOMAIN s.rows
      /\ \A u \in DOMAIN s.rows : IsRow(t.rows[u]) /\ SameRow(s.rows[u], t.rows[u])
      /\ \A u \in DOMAIN s.rows \ hit : t.rows[u].refs = s.rows[u].refs
      /\ \A u \in hit : t.rows[u].refs = NewRefs(s, o, u)
  BY <1>4, <1>5
<1> QED
  BY <1>6, Zenon DEF hit, t

LEMMA Deleted ==
    ASSUME NEW s, IsState(s), NEW o, o.op = "delete"
    PROVE  LET t == Do(s, o)
           IN  /\ IsState(t) /\ t.next = s.next /\ t.given = s.given
               /\ DOMAIN t.rows = DOMAIN s.rows \ Matches(s.rows, o.where)
               /\ \A u \in DOMAIN t.rows : t.rows[u] = s.rows[u]
<1> DEFINE t == Do(s, o)
           F == [u \in DOMAIN s.rows \ Matches(s.rows, o.where) |-> s.rows[u]]
<1>1. t = [s EXCEPT !.rows = F, !.results = Append(@, Result("count", 0))]
  BY DEF Do
<1>2. DOMAIN F = DOMAIN s.rows \ Matches(s.rows, o.where) /\ \A u \in DOMAIN F : F[u] = s.rows[u]
  OBVIOUS
<1> HIDE DEF F
<1>3. /\ t.rows = F /\ t.next = s.next /\ t.given = s.given /\ IsState(t)
  BY <1>1 DEF IsState
<1> QED
  BY <1>2, <1>3

LEMMA Waited ==
    ASSUME NEW s, IsState(s), NEW o, o.op = "wait"
    PROVE  LET t == Do(s, o)
           IN  IsState(t) /\ t.next = s.next /\ t.given = s.given /\ t.rows = s.rows
  BY DEF Do, IsState

-----------------------------------------------------------------------------
(* The tree that the rows are: the row of Open_vSwitch has bridges, these  *)
(* have ports and controllers, and ports have interfaces.                  *)
Above(t, u) ==
    \/ t = "Open_vSwitch" /\ u = "Bridge"
    \/ t = "Bridge" /\ u \in {"Port", "Controller"}
    \/ t = "Port" /\ u = "Interface"
Leaves == {"Interface", "Controller"}

Layered(r) ==
    /\ \A u \in DOMAIN r : IsRow(r[u])
    /\ 0 \in DOMAIN r
    /\ \A u \in DOMAIN r : r[u].table = "Open_vSwitch" <=> u = 0
    /\ \A u \in DOMAIN r : \A y \in DOMAIN r : y \in r[u].refs => Above(r[u].table, r[y].table)
    /\ \A u \in DOMAIN r : r[u].table \in Leaves => r[u].refs = {}
    /\ \A u \in DOMAIN r : r[u].table = "Port" => r[u].refs # {}

(* While operations are done, a row may have several parents of one name.  *)
SameParents(r) ==
    \A u, v \in DOMAIN r : \A y \in r[u].refs : y \in r[v].refs
        => r[u].table = r[v].table /\ r[u].name = r[v].name
OneParent(r) == \A u, v \in DOMAIN r : \A y \in r[u].refs : y \in r[v].refs => u = v

Below(r, i) ==
    /\ i \in Nat
    /\ \A u \in DOMAIN r : u \in Nat /\ u < i
    /\ \A u \in DOMAIN r : \A y \in r[u].refs : y \in Nat /\ y < i

(* What the database is between transactions.                              *)
Tree(r, i) ==
    /\ IsFiniteSet(DOMAIN r) /\ Below(r, i)
    /\ Layered(r) /\ OneParent(r) /\ Allowed(r) /\ DOMAIN r \subseteq Reached(r)

-----------------------------------------------------------------------------
(* What the operations are that rovs builds: a row refers to the one that  *)
(* the operation before inserted, and so does what a mutation adds.        *)
After(q, n, t) ==
    /\ n - 1 \in DOMAIN q /\ q[n - 1].op = "insert" /\ q[n - 1].row.table = t
    /\ q[n].refs = {Named(q[n - 1].as)}
Link(q, n) ==
    LET o == q[n] IN
    \/ /\ o.op = "insert" /\ IsRow(o.row)
       /\ \/ o.row.table \in Leaves /\ o.refs = {}
          \/ o.row.table = "Port" /\ After(q, n, "Interface")
          \/ o.row.table = "Bridge" /\ After(q, n, "Port")
    \/ /\ o.op = "mutate" /\ o.how = "insert"
       /\ \/ o.where = All("Open_vSwitch") /\ After(q, n, "Bridge")
          \/ After(q, n, "Port") /\ \E b : o.where = ByName("Bridge", b)
    \/ o.op = "update" /\ After(q, n, "Controller") /\ \E b : o.where = ByName("Bridge", b)
    \/ o.op = "mutate" /\ o.how = "delete" /\ o.where.table # "Port"
    \/ o.op = "delete" /\ o.where.table # "Open_vSwitch"
    \/ o.op = "wait"
Linked(q) == OpList(q) /\ \A n \in DOMAIN q : Link(q, n)

(* The names of the inserts, from k on and below l.                        *)
Numbered(q, k, l) ==
    /\ \E S : q \in Seq(S)
    /\ k \in Nat /\ l \in Nat /\ k <= l
    /\ \A n \in DOMAIN q : q[n].op = "insert" => q[n].as \in Nat /\ k <= q[n].as /\ q[n].as < l
    /\ \A m, n \in DOMAIN q : m < n /\ q[m].op = "insert" /\ q[n].op = "insert" => q[m].as # q[n].as

-----------------------------------------------------------------------------
(* The server in the middle of a transaction, n operations of q done since *)
(* the rows were r and the next uuid i.                                    *)
NoneRefers(r, y) == \A u \in DOMAIN r : y \notin r[u].refs
LastIn(i, q, n, s) ==
    n > 0 /\ q[n].op = "insert" =>
        /\ i <= s.next - 1 /\ s.next - 1 \in DOMAIN s.rows
        /\ s.rows[s.next - 1].table = q[n].row.table
        /\ q[n].as \in DOMAIN s.given /\ s.given[q[n].as] = s.next - 1
        /\ NoneRefers(s.rows, s.next - 1)
Older(r, i, x) ==
    \A v \in DOMAIN x :
        /\ v < i => v \in DOMAIN r /\ SameRow(r[v], x[v])
        /\ \A y \in x[v].refs : y < i => v \in DOMAIN r /\ y \in r[v].refs
NamesGiven(q, n, s) == \A k \in DOMAIN s.given : \E m \in 1 .. n : q[m].op = "insert" /\ q[m].as = k

Mid(r, i, q, n, s) ==
    /\ IsState(s) /\ i \in Nat /\ i <= s.next /\ Below(s.rows, s.next)
    /\ Layered(s.rows) /\ SameParents(s.rows) /\ Older(r, i, s.rows)
    /\ LastIn(i, q, n, s) /\ NamesGiven(q, n, s)

LEMMA MidStart ==
    ASSUME NEW r, NEW i, Tree(r, i), NEW q
    PROVE  Mid(r, i, q, 0, Start(r, i))
<1>1. LET s == Start(r, i) IN s.rows = r /\ s.next = i /\ s.given = <<>> /\ IsState(s)
  BY DEF Start, IsState
<1>2. Older(r, i, r)
  BY DEF Tree, Below, Older, SameRow
<1>3. SameParents(r)
  BY DEF Tree, OneParent, SameParents
<1> QED
  BY <1>1, <1>2, <1>3 DEF Mid, Tree, LastIn, NamesGiven, Below

(* What one operation does: some rows are gone; some (H) have gained what  *)
(* was inserted last, and these have one name; others may have lost        *)
(* references.                                                             *)
Gain(i, s, t, o, N, H) ==
    /\ IsState(t)
    /\ \/ t.next = s.next /\ t.given = s.given /\ DOMAIN t.rows \subseteq DOMAIN s.rows
          /\ o.op # "insert"
       \/ /\ o.op = "insert" /\ t.next = s.next + 1 /\ t.given = Extend(s.given, [k \in {o.as} |-> s.next])
          /\ DOMAIN t.rows = DOMAIN s.rows \union {s.next}
          /\ IsRow(t.rows[s.next]) /\ SameRow(o.row, t.rows[s.next])
          /\ t.rows[s.next].refs = N /\ s.next \in H
          /\ t.rows[s.next].table = "Port" => N # {}
          /\ t.rows[s.next].table \in Leaves => N = {}
          /\ t.rows[s.next].table # "Open_vSwitch"
    /\ \A u \in DOMAIN t.rows : u \in DOMAIN s.rows =>
          /\ IsRow(t.rows[u]) /\ SameRow(s.rows[u], t.rows[u])
          /\ \A y \in t.rows[u].refs : y \in s.rows[u].refs \/ (u \in H /\ y \in N)
          /\ s.rows[u].table = "Port" => t.rows[u].refs = s.rows[u].refs
    /\ 0 \in DOMAIN t.rows
    /\ \A y \in N : /\ y = s.next - 1 /\ i <= y /\ y \in DOMAIN s.rows /\ NoneRefers(s.rows, y)
                     /\ \A u \in H : u \in DOMAIN t.rows => Above(t.rows[u].table, s.rows[y].table)
    /\ \A u, v \in H : u \in DOMAIN t.rows /\ v \in DOMAIN t.rows
          => t.rows[u].table = t.rows[v].table /\ t.rows[u].name = t.rows[v].name

LEMMA GainKeeps ==
    ASSUME NEW r, NEW i, NEW q, NEW l, Numbered(q, 0, l), NEW n \in Nat, n + 1 \in DOMAIN q,
           NEW s, Mid(r, i, q, n, s), NEW t, NEW N, NEW H, Gain(i, s, t, q[n + 1], N, H)
    PROVE  Mid(r, i, q, n + 1, t)
<1> DEFINE o == q[n + 1]
<1>1. /\ s.next \in Nat /\ t.next \in Nat /\ i \in Nat /\ i <= s.next /\ s.next <= t.next /\ 0 < s.next
      /\ \A u \in DOMAIN s.rows : u \in Nat /\ u < s.next
      /\ \A u \in DOMAIN s.rows : \A y \in s.rows[u].refs : y \in Nat /\ y < s.next
  BY DEF Mid, Below, Gain, Layered
<1>2. \A u \in DOMAIN t.rows : u \in DOMAIN s.rows \/ (u = s.next /\ o.op = "insert" /\ t.next = s.next + 1)
  BY DEF Gain
<1>3. \A u \in DOMAIN t.rows : \A y \in t.rows[u].refs :
         \/ u \in DOMAIN s.rows /\ y \in s.rows[u].refs
         \/ u \in H /\ y \in N
  BY <1>2 DEF Gain
<1>4. \A y \in N : /\ y = s.next - 1 /\ i <= y /\ y \in DOMAIN s.rows /\ NoneRefers(s.rows, y)
                   /\ \A u \in H : u \in DOMAIN t.rows => Above(t.rows[u].table, s.rows[y].table)
  BY DEF Gain
<1>5. \A u \in DOMAIN t.rows : u \in DOMAIN s.rows => IsRow(t.rows[u]) /\ SameRow(s.rows[u], t.rows[u])
  BY DEF Gain
<1>6. Below(t.rows, t.next)
  BY <1>1, <1>2, <1>3, <1>4 DEF Below
<1>7. Layered(t.rows)
  <2>1. \A u \in DOMAIN t.rows : IsRow(t.rows[u])
    BY <1>2, <1>5 DEF Gain
  <2>2. 0 \in DOMAIN t.rows
    BY DEF Gain
  <2>3. ASSUME NEW u \in DOMAIN t.rows PROVE t.rows[u].table = "Open_vSwitch" <=> u = 0
    <3>1. CASE u \in DOMAIN s.rows
      BY <1>5, <3>1 DEF Mid, Layered, SameRow
    <3>2. CASE u = s.next /\ o.op = "insert"
      BY <1>1, <3>2 DEF Gain
    <3> QED
      BY <1>2, <3>1, <3>2
  <2>4. ASSUME NEW u \in DOMAIN t.rows, NEW y \in DOMAIN t.rows, y \in t.rows[u].refs
        PROVE  Above(t.rows[u].table, t.rows[y].table)
    <3>1. CASE u \in DOMAIN s.rows /\ y \in s.rows[u].refs
      <4>1. y \in DOMAIN s.rows
        BY <1>1, <1>2, <3>1
      <4> QED
        BY <1>5, <3>1, <4>1 DEF Mid, Layered, SameRow
    <3>2. CASE u \in H /\ y \in N
      BY <1>4, <1>5, <3>2 DEF SameRow
    <3> QED
      BY <1>3, <2>4, <3>1, <3>2
  <2>5. ASSUME NEW u \in DOMAIN t.rows, t.rows[u].table \in Leaves PROVE t.rows[u].refs = {}
    <3>1. SUFFICES ASSUME NEW y \in t.rows[u].refs PROVE FALSE
      <4>1. t.rows[u].refs # {} => \E y \in t.rows[u].refs : TRUE
        OBVIOUS
      <4> QED
        BY <3>1, <4>1
    <3>2. CASE u \in DOMAIN s.rows /\ y \in s.rows[u].refs
      BY <1>5, <2>5, <3>2 DEF Mid, Layered, SameRow
    <3>3. CASE u \in H /\ y \in N
      BY <1>4, <2>5, <3>3 DEF Above, Leaves
    <3> QED
      BY <1>3, <3>2, <3>3
  <2>6. ASSUME NEW u \in DOMAIN t.rows, t.rows[u].table = "Port" PROVE t.rows[u].refs # {}
    <3>1. CASE u \in DOMAIN s.rows
      <4>1. s.rows[u].table = "Port"
        BY <1>5, <2>6, <3>1 DEF SameRow
      <4>2. t.rows[u].refs = s.rows[u].refs
        BY <3>1, <4>1 DEF Gain
      <4> QED
        BY <3>1, <4>1, <4>2 DEF Mid, Layered
    <3>2. CASE u = s.next /\ o.op = "insert"
      BY <2>6, <3>2 DEF Gain
    <3> QED
      BY <1>2, <3>1, <3>2
  <2> QED
    BY <2>1, <2>2, <2>3, <2>4, <2>5, <2>6 DEF Layered
<1>8. SameParents(t.rows)
  <2> SUFFICES ASSUME NEW u \in DOMAIN t.rows, NEW v \in DOMAIN t.rows,
                      NEW y \in t.rows[u].refs, y \in t.rows[v].refs
               PROVE  t.rows[u].table = t.rows[v].table /\ t.rows[u].name = t.rows[v].name
    BY DEF SameParents
  <2>1. CASE y \in N
    <3>1. u \in H /\ v \in H
      BY <1>3, <1>4, <2>1 DEF NoneRefers
    <3> QED
      BY <3>1 DEF Gain
  <2>2. CASE y \notin N
    <3>1. u \in DOMAIN s.rows /\ y \in s.rows[u].refs /\ v \in DOMAIN s.rows /\ y \in s.rows[v].refs
      BY <1>3, <2>2
    <3> QED
      BY <1>5, <3>1 DEF Mid, SameParents, SameRow
  <2> QED
    BY <2>1, <2>2
<1>9. Older(r, i, t.rows)
  <2> SUFFICES ASSUME NEW v \in DOMAIN t.rows
               PROVE  /\ v < i => v \in DOMAIN r /\ SameRow(r[v], t.rows[v])
                      /\ \A y \in t.rows[v].refs : y < i => v \in DOMAIN r /\ y \in r[v].refs
    BY DEF Older
  <2>1. ASSUME v < i PROVE v \in DOMAIN r /\ SameRow(r[v], t.rows[v])
    <3>1. v \in DOMAIN s.rows
      BY <1>1, <1>2, <2>1
    <3> QED
      BY <1>5, <2>1, <3>1 DEF Mid, Older, SameRow
  <2>2. ASSUME NEW y \in t.rows[v].refs, y < i PROVE v \in DOMAIN r /\ y \in r[v].refs
    <3>1. y \notin N
      BY <1>1, <1>4, <2>2
    <3>2. v \in DOMAIN s.rows /\ y \in s.rows[v].refs
      BY <1>3, <3>1
    <3> QED
      BY <2>2, <3>2 DEF Mid, Older
  <2> QED
    BY <2>1, <2>2
<1>10. LastIn(i, q, n + 1, t) /\ NamesGiven(q, n + 1, t)
  <2>1. CASE o.op # "insert"
    <3>1. t.given = s.given /\ 1 .. n \subseteq 1 .. n + 1
      BY <2>1 DEF Gain
    <3> QED
      BY <2>1, <3>1 DEF LastIn, NamesGiven, Mid
  <2>2. CASE o.op = "insert"
    <3>1. /\ t.next = s.next + 1 /\ t.given = Extend(s.given, [k \in {o.as} |-> s.next])
          /\ DOMAIN t.rows = DOMAIN s.rows \union {s.next} /\ SameRow(o.row, t.rows[s.next])
      BY <2>2 DEF Gain
    <3>2. o.as \notin DOMAIN s.given
      <4> SUFFICES ASSUME NEW m \in 1 .. n, q[m].op = "insert", q[m].as = o.as PROVE FALSE
        BY DEF Mid, NamesGiven
      <4>1. m \in DOMAIN q
        <5>1. PICK S : q \in Seq(S)
          BY DEF Numbered
        <5> QED
          BY <5>1
      <4>2. m < n + 1
        OBVIOUS
      <4> QED
        BY <2>2, <4>1, <4>2 DEF Numbered
    <3>3. DOMAIN t.given = DOMAIN s.given \union {o.as} /\ t.given[o.as] = s.next
      BY <3>1, <3>2 DEF Extend
    <3>4. NoneRefers(t.rows, s.next)
      <4> SUFFICES ASSUME NEW u \in DOMAIN t.rows, s.next \in t.rows[u].refs PROVE FALSE
        BY DEF NoneRefers
      <4> QED
        BY <1>1, <1>3, <1>4
    <3>5. t.next - 1 = s.next
      BY <1>1, <3>1
    <3>6. LastIn(i, q, n + 1, t)
      BY <1>1, <3>1, <3>3, <3>4, <3>5 DEF LastIn, SameRow
    <3>7. NamesGiven(q, n + 1, t)
      <4> SUFFICES ASSUME NEW k \in DOMAIN t.given
                   PROVE  \E m \in 1 .. n + 1 : q[m].op = "insert" /\ q[m].as = k
        BY DEF NamesGiven
      <4>1. CASE k = o.as
        <5>1. n + 1 \in 1 .. n + 1
          OBVIOUS
        <5> QED
          BY <2>2, <4>1, <5>1
      <4>2. CASE k \in DOMAIN s.given
        <5>1. PICK m \in 1 .. n : q[m].op = "insert" /\ q[m].as = k
          BY <4>2 DEF Mid, NamesGiven
        <5> QED
          BY <5>1
      <4> QED
        BY <3>3, <4>1, <4>2
    <3> QED
      BY <3>6, <3>7
  <2> QED
    BY <2>1, <2>2
<1> QED
  BY <1>1, <1>6, <1>7, <1>8, <1>9, <1>10 DEF Mid, Gain

LEMMA AfterUuid ==
    ASSUME NEW r, NEW i, NEW q, OpList(q), NEW n \in Nat, n + 1 \in DOMAIN q, NEW s, Mid(r, i, q, n, s),
           NEW t, After(q, n + 1, t)
    PROVE  LET y == s.next - 1
           IN  /\ Uuids(s, q[n + 1]) = {y} /\ i <= y
               /\ y \in DOMAIN s.rows /\ s.rows[y].table = t /\ NoneRefers(s.rows, y)
<1>1. n > 0 /\ n \in DOMAIN q
  BY DEF After, OpList
<1>2. q[n].op = "insert" /\ q[n].row.table = t /\ q[n + 1].refs = {Named(q[n].as)}
  BY DEF After
<1>3. LastIn(i, q, n, s)
  BY DEF Mid
<1>4. Uuids(s, q[n + 1]) = {s.given[q[n].as]}
  BY <1>2 DEF Uuids, Named
<1> QED
  BY <1>1, <1>2, <1>3, <1>4 DEF LastIn

LEMMA InsertGains ==
    ASSUME NEW r, NEW i, NEW q, Linked(q), NEW n \in Nat, n + 1 \in DOMAIN q, NEW s, Mid(r, i, q, n, s),
           q[n + 1].op = "insert"
    PROVE  LET o == q[n + 1] IN Gain(i, s, Do(s, o), o, Uuids(s, o), {s.next})
<1> DEFINE o == q[n + 1]
           t == Do(s, o)
           N == Uuids(s, o)
<1>1. /\ IsRow(o.row)
      /\ \/ o.row.table \in Leaves /\ o.refs = {}
         \/ o.row.table = "Port" /\ After(q, n + 1, "Interface")
         \/ o.row.table = "Bridge" /\ After(q, n + 1, "Port")
  BY DEF Linked, Link
<1>2. s.next \notin DOMAIN s.rows
  BY DEF Mid, Below
<1>3. /\ IsState(t) /\ t.next = s.next + 1
      /\ t.given = Extend(s.given, [k \in {o.as} |-> s.next])
      /\ DOMAIN t.rows = DOMAIN s.rows \union {s.next}
      /\ \A u \in DOMAIN s.rows : t.rows[u] = s.rows[u]
      /\ IsRow(t.rows[s.next]) /\ SameRow(o.row, t.rows[s.next]) /\ t.rows[s.next].refs = N
  BY <1>1, <1>2, Inserted
<1>4. \A y \in N : /\ y = s.next - 1 /\ i <= y /\ y \in DOMAIN s.rows /\ NoneRefers(s.rows, y)
                   /\ Above(o.row.table, s.rows[y].table)
  <2>1. CASE o.refs = {}
    BY <2>1 DEF Uuids
  <2>2. CASE o.row.table = "Port" /\ After(q, n + 1, "Interface")
    BY <2>2, AfterUuid DEF Linked, Above
  <2>3. CASE o.row.table = "Bridge" /\ After(q, n + 1, "Port")
    BY <2>3, AfterUuid DEF Linked, Above
  <2> QED
    BY <1>1, <2>1, <2>2, <2>3
<1>5. /\ o.row.table = "Port" => N # {}
      /\ o.row.table \in Leaves => N = {}
      /\ o.row.table # "Open_vSwitch"
  <2>1. CASE o.row.table \in Leaves /\ o.refs = {}
    BY <2>1 DEF Uuids, Leaves
  <2>2. CASE o.row.table = "Port" /\ After(q, n + 1, "Interface")
    BY <2>2, AfterUuid DEF Linked, Leaves
  <2>3. CASE o.row.table = "Bridge" /\ After(q, n + 1, "Port")
    BY <2>3 DEF Leaves
  <2> QED
    BY <1>1, <2>1, <2>2, <2>3
<1>6. 0 \in DOMAIN s.rows /\ \A u \in DOMAIN s.rows : IsRow(s.rows[u])
  BY DEF Mid, Layered
<1>7. \A u \in DOMAIN s.rows : SameRow(s.rows[u], t.rows[u])
  BY <1>3 DEF SameRow
<1>8. t.rows[s.next].table = o.row.table
  BY <1>3 DEF SameRow
<1> HIDE DEF t, N, o
<1>9. Gain(i, s, t, o, N, {s.next})
  <2>1. o.op = "insert"
    BY DEF o
  <2> QED
    BY <1>2, <1>3, <1>4, <1>5, <1>6, <1>7, <1>8, <2>1 DEF Gain
<1> QED
  BY <1>9 DEF t, N, o

LEMMA ChangeGains ==
    ASSUME NEW r, NEW i, NEW q, Linked(q), NEW n \in Nat, n + 1 \in DOMAIN q, NEW s, Mid(r, i, q, n, s),
           q[n + 1].op \in {"mutate", "update"}
    PROVE  \E N, H : Gain(i, s, Do(s, q[n + 1]), q[n + 1], N, H)
<1> DEFINE o == q[n + 1]
           t == Do(s, o)
           M == Matches(s.rows, o.where)
<1>1. \/ o.op = "mutate" /\ o.how = "insert" /\ o.where = All("Open_vSwitch") /\ After(q, n + 1, "Bridge")
      \/ /\ o.op = "mutate" /\ o.how = "insert" /\ After(q, n + 1, "Port")
         /\ \E b : o.where = ByName("Bridge", b)
      \/ o.op = "update" /\ After(q, n + 1, "Controller") /\ \E b : o.where = ByName("Bridge", b)
      \/ o.op = "mutate" /\ o.how = "delete" /\ o.where.table # "Port"
  BY DEF Linked, Link
<1>2. \A u \in DOMAIN s.rows : IsRow(s.rows[u])
  BY DEF Mid, Layered
<1>3. /\ IsState(t) /\ t.next = s.next /\ t.given = s.given /\ DOMAIN t.rows = DOMAIN s.rows
      /\ \A u \in DOMAIN s.rows : IsRow(t.rows[u]) /\ SameRow(s.rows[u], t.rows[u])
      /\ \A u \in DOMAIN s.rows \ M : t.rows[u].refs = s.rows[u].refs
      /\ \A u \in M : t.rows[u].refs = NewRefs(s, o, u)
  <2>1. IsState(s)
    BY DEF Mid
  <2> QED
    BY <1>2, <2>1, Changed
<1>4. 0 \in DOMAIN s.rows /\ \A u \in DOMAIN s.rows : s.rows[u].table = "Open_vSwitch" => u = 0
  BY DEF Mid, Layered
<1>5. CASE o.op = "mutate" /\ o.how = "delete" /\ o.where.table # "Port"
  <2>1. \A u \in M : t.rows[u].refs = s.rows[u].refs \ Uuids(s, o)
    BY <1>3, <1>5 DEF NewRefs
  <2>2. \A u \in M : s.rows[u].table # "Port"
    BY <1>5 DEF Matches
  <2>3. o.op # "insert" /\ M \subseteq DOMAIN s.rows
    BY <1>5 DEF Matches
  <2> HIDE DEF M, t, o
  <2>4. Gain(i, s, t, o, {}, {})
    <3>1. \A u \in DOMAIN s.rows : t.rows[u].refs \subseteq s.rows[u].refs
      BY <1>3, <2>1
    <3>2. \A u \in DOMAIN s.rows : s.rows[u].table = "Port" => t.rows[u].refs = s.rows[u].refs
      BY <1>3, <2>2
    <3> QED
      BY <1>3, <1>4, <2>3, <3>1, <3>2 DEF Gain
  <2> QED
    BY <2>4 DEF t, o
<1>6. ASSUME o.op = "update" \/ o.how = "insert", NEW a, NEW c, After(q, n + 1, c), Above(a, c),
             \A u \in M : s.rows[u].table = a, \A u, v \in M : s.rows[u].name = s.rows[v].name,
             a # "Port"
      PROVE  Gain(i, s, t, o, Uuids(s, o), M)
  <2> DEFINE N == Uuids(s, o)
  <2>1. \A u \in M : \A y \in t.rows[u].refs : y \in s.rows[u].refs \/ y \in N
    BY <1>1, <1>3, <1>6 DEF NewRefs
  <2>2. \A y \in N : y = s.next - 1 /\ i <= y /\ y \in DOMAIN s.rows /\ s.rows[y].table = c /\ NoneRefers(s.rows, y)
    BY <1>6, AfterUuid DEF Linked
  <2>3. M \subseteq DOMAIN s.rows
    BY DEF Matches
  <2>4. \A u, v \in M : t.rows[u].table = a /\ t.rows[u].name = t.rows[v].name
    BY <1>3, <1>6, <2>3 DEF SameRow
  <2>5. o.op # "insert"
    OBVIOUS
  <2>6. \A u \in M : s.rows[u].table # "Port"
    BY <1>6
  <2> HIDE DEF N, M, t, o
  <2> QED
    BY <1>3, <1>4, <1>6, <2>1, <2>2, <2>3, <2>4, <2>5, <2>6 DEF Gain, N
<1>7. CASE o.op = "mutate" /\ o.how = "insert" /\ o.where = All("Open_vSwitch") /\ After(q, n + 1, "Bridge")
  <2>1. \A u \in M : s.rows[u].table = "Open_vSwitch" /\ u = 0
    BY <1>4, <1>7 DEF Matches, All
  <2> HIDE DEF M
  <2>2. \A u, v \in M : s.rows[u].name = s.rows[v].name
    BY <2>1
  <2> HIDE DEF t, o
  <2> QED
    BY <1>6, <1>7, <2>1, <2>2 DEF Above, t, o
<1>8. ASSUME NEW b, o.where = ByName("Bridge", b)
      PROVE  /\ \A u \in M : s.rows[u].table = "Bridge"
             /\ \A u, v \in M : s.rows[u].name = s.rows[v].name
  BY <1>8 DEF Matches, ByName
<1> HIDE DEF M, t, o
<1>9. CASE o.op = "mutate" /\ o.how = "insert" /\ After(q, n + 1, "Port") /\ \E b : o.where = ByName("Bridge", b)
  <2>1. /\ \A u \in M : s.rows[u].table = "Bridge"
        /\ \A u, v \in M : s.rows[u].name = s.rows[v].name
    BY <1>8, <1>9
  <2>2. Above("Bridge", "Port")
    BY DEF Above
  <2>3. Gain(i, s, t, o, Uuids(s, o), M)
    BY <1>6, <1>9, <2>1, <2>2
  <2> QED
    BY <2>3 DEF t, o
<1>10. CASE o.op = "update" /\ After(q, n + 1, "Controller") /\ \E b : o.where = ByName("Bridge", b)
  <2>1. /\ \A u \in M : s.rows[u].table = "Bridge"
        /\ \A u, v \in M : s.rows[u].name = s.rows[v].name
    BY <1>8, <1>10
  <2>2. Above("Bridge", "Controller")
    BY DEF Above
  <2>3. Gain(i, s, t, o, Uuids(s, o), M)
    BY <1>6, <1>10, <2>1, <2>2
  <2> QED
    BY <2>3 DEF t, o
<1> QED
  BY <1>1, <1>5, <1>7, <1>9, <1>10

LEMMA OtherGains ==
    ASSUME NEW r, NEW i, NEW q, Linked(q), NEW n \in Nat, n + 1 \in DOMAIN q, NEW s, Mid(r, i, q, n, s),
           q[n + 1].op \in {"delete", "wait"}
    PROVE  Gain(i, s, Do(s, q[n + 1]), q[n + 1], {}, {})
<1> DEFINE o == q[n + 1]
           t == Do(s, o)
<1>1. /\ IsState(s) /\ 0 \in DOMAIN s.rows /\ s.rows[0].table = "Open_vSwitch"
      /\ \A u \in DOMAIN s.rows : IsRow(s.rows[u]) /\ SameRow(s.rows[u], s.rows[u])
  BY DEF Mid, Layered, SameRow
<1>2. CASE o.op = "delete"
  <2>1. /\ IsState(t) /\ t.next = s.next /\ t.given = s.given
        /\ DOMAIN t.rows = DOMAIN s.rows \ Matches(s.rows, o.where)
        /\ \A u \in DOMAIN t.rows : t.rows[u] = s.rows[u]
    BY <1>1, <1>2, Deleted
  <2>2. 0 \notin Matches(s.rows, o.where)
    BY <1>1, <1>2 DEF Matches, Linked, Link
  <2> HIDE DEF t
  <2> QED
    BY <1>1, <1>2, <2>1, <2>2 DEF Gain, t
<1>3. CASE o.op = "wait"
  <2>1. IsState(t) /\ t.next = s.next /\ t.given = s.given /\ t.rows = s.rows
    BY <1>1, <1>3, Waited
  <2> HIDE DEF t
  <2> QED
    BY <1>1, <1>3, <2>1 DEF Gain, t
<1> QED
  BY <1>2, <1>3

LEMMA MidStep ==
    ASSUME NEW r, NEW i, NEW q, Linked(q), NEW l, Numbered(q, 0, l), NEW n \in Nat, n + 1 \in DOMAIN q,
           NEW s, Mid(r, i, q, n, s)
    PROVE  Mid(r, i, q, n + 1, Do(s, q[n + 1]))
<1>1. q[n + 1].op \in Kinds
  BY DEF Linked, OpList
<1>2. \E N, H : Gain(i, s, Do(s, q[n + 1]), q[n + 1], N, H)
  <2>1. CASE q[n + 1].op = "insert"
    BY <2>1, InsertGains
  <2>2. CASE q[n + 1].op \in {"mutate", "update"}
    BY <2>2, ChangeGains
  <2>3. CASE q[n + 1].op \in {"delete", "wait"}
    BY <2>3, OtherGains
  <2> QED
    BY <1>1, <2>1, <2>2, <2>3 DEF Kinds
<1>3. PICK N, H : Gain(i, s, Do(s, q[n + 1]), q[n + 1], N, H)
  BY <1>2
<1> QED
  BY <1>3, GainKeeps

LEMMA MidAll ==
    ASSUME NEW r, NEW i, Tree(r, i), NEW q, Linked(q), NEW l, Numbered(q, 0, l),
           NEW E, Runs(E, Start(r, i), q)
    PROVE  \A n \in 0 .. Len(q) : Mid(r, i, q, n, E[n])
<1> DEFINE D == {n \in Nat : n <= Len(q) => Mid(r, i, q, n, E[n])}
<1>1. OpList(q)
  BY DEF Linked
<1>2. DOMAIN q = 1 .. Len(q) /\ Len(q) \in Nat
  BY <1>1 DEF OpList
<1>3. 0 \in D
  BY MidStart DEF Runs
<1>4. ASSUME NEW n \in Nat, n \in D PROVE n + 1 \in D
  <2> SUFFICES ASSUME n + 1 <= Len(q) PROVE Mid(r, i, q, n + 1, E[n + 1])
    OBVIOUS
  <2>1. n + 1 \in DOMAIN q /\ Mid(r, i, q, n, E[n])
    BY <1>2, <1>4
  <2>2. E[n + 1] = Do(E[n], q[n + 1])
    BY <2>1 DEF Runs
  <2> HIDE DEF D
  <2> QED
    BY <2>1, <2>2, MidStep
<1> HIDE DEF D
<1>5. Nat \subseteq D
  BY <1>3, <1>4, Doing!NatSetInduction
<1> QED
  BY <1>2, <1>5 DEF D

-----------------------------------------------------------------------------
(* The rows that are kept.                                                 *)
Onward(r, S) == S \union UNION {r[u].refs : u \in S \cap DOMAIN r}

LEMMA ReachedIs == \A r : Reached(r) = Onward(r, Onward(r, Onward(r, {0})))
  BY DEF Reached, Onward

LEMMA OnwardFacts ==
    \A r, S : /\ S \subseteq Onward(r, S)
              /\ \A u \in S : u \in DOMAIN r => r[u].refs \subseteq Onward(r, S)
              /\ \A y \in Onward(r, S) : y \in S \/ \E u \in S : u \in DOMAIN r /\ y \in r[u].refs
  BY DEF Onward

LEMMA KeptFacts ==
    ASSUME NEW r
    PROVE  LET k == Collect(r)
           IN  /\ DOMAIN k = Reached(r) \cap DOMAIN r
               /\ \A u \in DOMAIN k : k[u] = r[u]
               /\ Reached(k) = Reached(r)
<1> DEFINE k == Collect(r)
           S1 == Onward(r, {0})
           S2 == Onward(r, S1)
<1>1. DOMAIN k = Reached(r) \cap DOMAIN r /\ \A u \in DOMAIN k : k[u] = r[u]
  BY DEF Collect
<1>2. Reached(r) = Onward(r, S2)
  BY ReachedIs
<1> HIDE DEF k
<1>3. ASSUME NEW S, S \subseteq Reached(r) PROVE Onward(k, S) = Onward(r, S)
  <2>1. \A u \in S : u \in DOMAIN k <=> u \in DOMAIN r
    BY <1>1, <1>3
  <2> QED
    BY <1>1, <2>1 DEF Onward
<1>4. {0} \subseteq S1 /\ S1 \subseteq S2 /\ S2 \subseteq Reached(r)
  BY <1>2, OnwardFacts
<1>5. Onward(k, {0}) = S1
  BY <1>3, <1>4
<1>6. Onward(k, S1) = S2
  BY <1>3, <1>4
<1>7. Onward(k, S2) = Reached(r)
  BY <1>2, <1>3, <1>4
<1>8. Reached(k) = Onward(k, Onward(k, Onward(k, {0})))
  BY ReachedIs
<1>9. Reached(k) = Reached(r)
  <2> HIDE DEF S1, S2
  <2> QED
    BY <1>5, <1>6, <1>7, <1>8, Zenon
<1> QED
  BY <1>1, <1>9 DEF k

(* What a row that is kept refers to is reached too.                       *)
LEMMA ReachedOnwards ==
    ASSUME NEW r, Layered(r), NEW u \in DOMAIN r, u \in Reached(r)
    PROVE  r[u].refs \subseteq Reached(r)
<1> DEFINE S1 == Onward(r, {0})
           S2 == Onward(r, S1)
<1>1. Reached(r) = Onward(r, S2)
  BY ReachedIs
<1>2. SUFFICES ASSUME u \notin S2 PROVE r[u].refs = {}
  BY <1>1, OnwardFacts
<1>3. PICK p \in S2 : p \in DOMAIN r /\ u \in r[p].refs
  BY <1>1, <1>2, OnwardFacts
<1>4. p \notin S1
  BY <1>2, <1>3, OnwardFacts
<1>5. PICK g \in S1 : g \in DOMAIN r /\ p \in r[g].refs
  BY <1>3, <1>4, OnwardFacts
<1>6. g # 0
  BY <1>4, <1>5, OnwardFacts
<1>7. PICK h \in {0} : h \in DOMAIN r /\ g \in r[h].refs
  BY <1>5, <1>6, OnwardFacts
<1>8. Above(r[p].table, r[u].table) /\ Above(r[g].table, r[p].table) /\ Above(r[h].table, r[g].table)
  BY <1>3, <1>5, <1>7 DEF Layered
<1>9. r[u].table \in Leaves
  BY <1>8 DEF Above, Leaves
<1> QED
  BY <1>9 DEF Layered

-----------------------------------------------------------------------------
LEMMA KeptTree ==
    ASSUME NEW r, NEW i, NEW q, NEW n, NEW s, Mid(r, i, q, n, s), IsFiniteSet(DOMAIN s.rows),
           Allowed(Collect(s.rows))
    PROVE  Tree(Collect(s.rows), s.next) /\ Older(r, i, Collect(s.rows))
<1> DEFINE k == Collect(s.rows)
<1>1. /\ DOMAIN k = Reached(s.rows) \cap DOMAIN s.rows /\ \A u \in DOMAIN k : k[u] = s.rows[u]
      /\ Reached(k) = Reached(s.rows)
  BY KeptFacts
<1>2. Allowed(k)
  OBVIOUS
<1> HIDE DEF k
<1>3. IsFiniteSet(DOMAIN k)
  BY <1>1, FS_Subset
<1>4. Below(k, s.next)
  BY <1>1 DEF Below, Mid
<1>5. Layered(k)
  <2>1. 0 \in Reached(s.rows)
    BY ReachedIs, OnwardFacts
  <2> QED
    BY <1>1, <2>1 DEF Layered, Mid
<1>6. OneParent(k)
  <2> SUFFICES ASSUME NEW u \in DOMAIN k, NEW v \in DOMAIN k, NEW y \in k[u].refs, y \in k[v].refs
               PROVE  u = v
    BY DEF OneParent
  <2>1. k[u].table = k[v].table /\ k[u].name = k[v].name
    BY <1>1 DEF Mid, SameParents
  <2>2. k[u].table # "Controller"
    BY <1>5 DEF Layered, Leaves
  <2> QED
    BY <1>2, <2>1, <2>2 DEF Allowed
<1>7. Older(r, i, k)
  BY <1>1 DEF Older, Mid
<1> QED
  BY <1>1, <1>2, <1>3, <1>4, <1>5, <1>6, <1>7 DEF Tree, k

-----------------------------------------------------------------------------
(* What any operations leave: one result each, that is no error, and       *)
(* finitely many rows.                                                     *)
OpResults == {Result("uuid", u) : u \in Nat} \union {Result("count", 0)}

Sound(s, n) ==
    /\ IsState(s) /\ s.next \in Nat /\ IsFiniteSet(DOMAIN s.rows)
    /\ s.results \in Seq(OpResults) /\ Len(s.results) = n

LEMMA DoInsert ==
    ASSUME NEW s, NEW o, o.op = "insert"
    PROVE  /\ \E r : Do(s, o).rows = Extend(s.rows, [u \in {s.next} |-> r])
           /\ Do(s, o).next = s.next + 1
           /\ Do(s, o).given = Extend(s.given, [k \in {o.as} |-> s.next])
           /\ Do(s, o).results = Append(s.results, Result("uuid", s.next))
  BY DEF Do

LEMMA DoOther ==
    ASSUME NEW s, IsState(s), NEW o, o.op \in Kinds, o.op # "insert"
    PROVE  /\ IsState(Do(s, o))
           /\ DOMAIN Do(s, o).rows \subseteq DOMAIN s.rows
           /\ Do(s, o).next = s.next /\ Do(s, o).given = s.given
           /\ Do(s, o).results = Append(s.results, Result("count", 0))
<1>1. /\ "rows" \in DOMAIN s /\ "next" \in DOMAIN s /\ "given" \in DOMAIN s /\ "results" \in DOMAIN s
      /\ DOMAIN s = {"rows", "next", "given", "results"}
  BY DEF IsState
<1>2. CASE o.op \in {"mutate", "update"}
  <2>1. PICK F : DOMAIN F = DOMAIN s.rows
                 /\ Do(s, o) = [s EXCEPT !.rows = F, !.results = Append(@, Result("count", 0))]
    BY <1>2 DEF Do
  <2> QED
    BY <1>1, <2>1 DEF IsState
<1>3. CASE o.op = "delete"
  <2>1. PICK F : DOMAIN F \subseteq DOMAIN s.rows
                 /\ Do(s, o) = [s EXCEPT !.rows = F, !.results = Append(@, Result("count", 0))]
    BY <1>3 DEF Do
  <2> QED
    BY <1>1, <2>1 DEF IsState
<1>4. CASE o.op = "wait"
  <2>1. Do(s, o) = [s EXCEPT !.results = Append(@, Result("count", 0))]
    BY <1>4 DEF Do
  <2> QED
    BY <2>1 DEF IsState
<1> QED
  BY <1>2, <1>3, <1>4 DEF Kinds

LEMMA AppendFacts ==
    ASSUME NEW S, NEW q \in Seq(S), NEW x \in S
    PROVE  /\ Append(q, x) \in Seq(S) /\ Len(Append(q, x)) = Len(q) + 1
           /\ \A m \in 1 .. Len(q) : Append(q, x)[m] = q[m]
           /\ Append(q, x)[Len(q) + 1] = x
  OBVIOUS

LEMMA SoundStep ==
    ASSUME NEW s, NEW n \in Nat, Sound(s, n), NEW o, o.op \in Kinds
    PROVE  /\ Sound(Do(s, o), n + 1)
           /\ \A m \in 1 .. n : Do(s, o).results[m] = s.results[m]
<1>1. CASE o.op = "insert"
  <2>1. IsState(Do(s, o))
    BY <1>1 DEF Do, IsState
  <2>2. DOMAIN Do(s, o).rows = DOMAIN s.rows \union {s.next}
    <3>1. \E r : Do(s, o).rows = Extend(s.rows, [u \in {s.next} |-> r])
      BY <1>1, DoInsert, ZenonT(60)
    <3>2. PICK r : Do(s, o).rows = Extend(s.rows, [u \in {s.next} |-> r])
      BY <3>1
    <3> QED
      BY <3>2 DEF Extend
  <2>3. IsFiniteSet(DOMAIN Do(s, o).rows)
    BY <2>2, FS_AddElement DEF Sound
  <2>4. PICK x \in OpResults : x = Result("uuid", s.next)
    BY DEF Sound, OpResults
  <2>5. Do(s, o).results = Append(s.results, x) /\ Do(s, o).next = s.next + 1
    BY <1>1, <2>4, DoInsert
  <2>6. /\ Do(s, o).results \in Seq(OpResults) /\ Len(Do(s, o).results) = n + 1
        /\ \A m \in 1 .. n : Do(s, o).results[m] = s.results[m]
    BY <2>5, AppendFacts DEF Sound
  <2>7. Do(s, o).next \in Nat
    BY <2>5 DEF Sound
  <2> QED
    BY <2>1, <2>3, <2>6, <2>7 DEF Sound
<1>2. CASE o.op # "insert"
  <2>1. IsState(s)
    BY DEF Sound
  <2>2. IsFiniteSet(DOMAIN Do(s, o).rows)
    BY <1>2, <2>1, DoOther, FS_Subset DEF Sound
  <2>3. PICK x \in OpResults : x = Result("count", 0)
    BY DEF OpResults
  <2>4. IsState(Do(s, o)) /\ Do(s, o).results = Append(s.results, x) /\ Do(s, o).next = s.next
    BY <1>2, <2>1, <2>3, DoOther
  <2> QED
    BY <2>2, <2>4 DEF Sound
<1> QED
  BY <1>1, <1>2

LEMMA EndSound ==
    ASSUME NEW r, IsFiniteSet(DOMAIN r), NEW i \in Nat, NEW q, OpList(q),
           NEW E, Runs(E, Start(r, i), q)
    PROVE  \A n \in 0 .. Len(q) : Sound(E[n], n)
<1> DEFINE D == {n \in Nat : n <= Len(q) => Sound(E[n], n)}
<1>1. PICK S : q \in Seq(S) /\ \A o \in S : o.op \in Kinds
  BY DEF OpList
<1>2. 0 \in D
  <2>1. IsState(Start(r, i))
    BY DEF IsState, Start
  <2>2. <<>> \in Seq(OpResults) /\ Len(<<>>) = 0
    OBVIOUS
  <2>3. Sound(Start(r, i), 0)
    BY <2>1, <2>2 DEF Sound, Start
  <2> QED
    BY <2>3 DEF Runs
<1>3. ASSUME NEW n \in Nat, n \in D PROVE n + 1 \in D
  <2> SUFFICES ASSUME n + 1 <= Len(q) PROVE Sound(E[n + 1], n + 1)
    OBVIOUS
  <2>1. n + 1 \in DOMAIN q /\ q[n + 1].op \in Kinds /\ Sound(E[n], n)
    BY <1>1, <1>3
  <2>2. E[n + 1] = Do(E[n], q[n + 1])
    BY <2>1 DEF Runs
  <2> HIDE DEF D
  <2> QED
    BY <2>1, <2>2, SoundStep
<1> HIDE DEF D
<1>4. Nat \subseteq D
  BY <1>2, <1>3, Doing!NatSetInduction
<1> QED
  BY <1>4 DEF D

-----------------------------------------------------------------------------
(* A transaction that is committed, and one that is not.                   *)
Failure(r, end, n) ==
    [ok |-> FALSE, rows |-> r, next |-> end.next, given |-> end.given,
     results |-> Append(SubSeq(end.results, 1, n), Result("error", 0))]
Success(end) ==
    [ok |-> TRUE, rows |-> Collect(end.rows), next |-> end.next, given |-> end.given,
     results |-> end.results]

LEMMA OutcomeIs ==
    ASSUME NEW r, NEW i, NEW q, OpList(q), NEW o \in Outcomes(r, i, q)
    PROVE  LET end == FoldLeft(Do, Start(r, i), q)
           IN  \/ /\ \E n \in Nat : n <= Len(q) /\ o = Failure(r, end, n)
                  /\ ~Allowed(Collect(end.rows)) \/ \E n \in DOMAIN q : q[n].op = "wait"
               \/ Allowed(Collect(end.rows)) /\ o = Success(end)
<1> DEFINE end == FoldLeft(Do, Start(r, i), q)
<1>1. Len(q) \in Nat /\ DOMAIN q = 1 .. Len(q)
  BY DEF OpList
<1>2. Outcomes(r, i, q) =
         {Failure(r, end, n - 1) : n \in {m \in DOMAIN q : q[m].op = "wait"}} \union
         {IF Allowed(Collect(end.rows)) THEN Success(end) ELSE Failure(r, end, Len(q))}
  BY DEF Outcomes, Failure, Success
<1> HIDE DEF end
<1>3. CASE \E n \in DOMAIN q : q[n].op = "wait" /\ o = Failure(r, end, n - 1)
  <2>1. PICK n \in DOMAIN q : q[n].op = "wait" /\ o = Failure(r, end, n - 1)
    BY <1>3
  <2>2. n - 1 \in Nat /\ n - 1 <= Len(q)
    BY <1>1
  <2> QED
    BY <2>1, <2>2 DEF end
<1>4. CASE Allowed(Collect(end.rows)) /\ o = Success(end)
  BY <1>4 DEF end
<1>5. CASE ~Allowed(Collect(end.rows)) /\ o = Failure(r, end, Len(q))
  BY <1>1, <1>5 DEF end
<1> QED
  BY <1>2, <1>3, <1>4, <1>5

(* Whatever is committed, the database is a tree; and no row that was      *)
(* there has got a parent.                                                 *)
LEMMA Settled ==
    ASSUME NEW r, NEW i, Tree(r, i), NEW q, Linked(q), NEW l, Numbered(q, 0, l),
           NEW o \in Outcomes(r, i, q)
    PROVE  Tree(o.rows, o.next) /\ i <= o.next /\ Older(r, i, o.rows)
<1> DEFINE b == Start(r, i)
           end == FoldLeft(Do, b, q)
<1>1. OpList(q) /\ Len(q) \in Nat /\ i \in Nat /\ IsFiniteSet(DOMAIN r)
  BY DEF Linked, OpList, Tree, Below
<1>2. PICK E : Runs(E, b, q)
  BY <1>1, RunExists
<1>3. Mid(r, i, q, Len(q), E[Len(q)]) /\ Sound(E[Len(q)], Len(q))
  BY <1>1, <1>2, MidAll, EndSound
<1>4. E[Len(q)] = end
  BY <1>2 DEF Runs
<1> HIDE DEF end
<1>5. Mid(r, i, q, Len(q), end) /\ IsFiniteSet(DOMAIN end.rows)
  BY <1>3, <1>4 DEF Sound
<1>6. end.next \in Nat /\ i <= end.next
  BY <1>5 DEF Mid, Below
<1>7. CASE \E n \in Nat : o = Failure(r, end, n)
  <2>1. o.rows = r /\ o.next = end.next
    BY <1>7 DEF Failure
  <2>2. Tree(r, end.next)
    BY <1>1, <1>6 DEF Tree, Below
  <2>3. Older(r, i, r)
    BY DEF Tree, Below, Older, SameRow
  <2> QED
    BY <1>6, <2>1, <2>2, <2>3
<1>8. CASE Allowed(Collect(end.rows)) /\ o = Success(end)
  <2>1. o.rows = Collect(end.rows) /\ o.next = end.next
    BY <1>8 DEF Success
  <2> QED
    BY <1>5, <1>6, <1>8, <2>1, KeptTree
<1> QED
  BY <1>1, <1>7, <1>8, OutcomeIs DEF end

-----------------------------------------------------------------------------
(* The operations that the helpers build.                                  *)
LEMMA OpListConcat ==
    ASSUME NEW p, NEW q, OpList(p), OpList(q)
    PROVE  OpList(p \o q)
<1>1. PICK S : p \in Seq(S) /\ \A o \in S : o.op \in Kinds
  BY DEF OpList
<1>2. PICK T : q \in Seq(T) /\ \A o \in T : o.op \in Kinds
  BY DEF OpList
<1>3. p \in Seq(S \union T) /\ q \in Seq(S \union T)
  BY <1>1, <1>2
<1>4. p \o q \in Seq(S \union T)
  BY <1>3
<1> QED
  BY <1>1, <1>2, <1>4 DEF OpList

LEMMA ConcatParts ==
    ASSUME NEW p, NEW q, OpList(p), OpList(q)
    PROVE  /\ Len(p) \in Nat /\ DOMAIN p = 1 .. Len(p)
           /\ \A n \in DOMAIN p : n \in DOMAIN (p \o q) /\ (p \o q)[n] = p[n]
           /\ \A n \in DOMAIN (p \o q) : n \in Nat \ {0} /\ (n \in DOMAIN p \/ n > Len(p))
           /\ p = <<>> => p \o q = q
<1>1. PICK S : p \in Seq(S)
  BY DEF OpList
<1>2. PICK T : q \in Seq(T)
  BY DEF OpList
<1>3. p \in Seq(S \union T) /\ q \in Seq(S \union T)
  BY <1>1, <1>2
<1> QED
  BY <1>3

LEMMA OpListIs ==
    ASSUME NEW S, NEW q \in Seq(S), \A o \in S : o.op \in Kinds
    PROVE  OpList(q)
  BY DEF OpList

LEMMA FourOps ==
    ASSUME NEW a, NEW b, NEW c, NEW d, a.op \in Kinds, b.op \in Kinds, c.op \in Kinds, d.op \in Kinds,
           NEW q, q \in {<<a, b, c, d>>, <<a, b, c>>, <<a, b>>, <<a>>}
    PROVE  OpList(q)
<1>1. q \in Seq({a, b, c, d})
  <2>1. /\ <<a, b, c, d>> \in Seq({a, b, c, d}) /\ <<a, b, c>> \in Seq({a, b, c, d})
        /\ <<a, b>> \in Seq({a, b, c, d}) /\ <<a>> \in Seq({a, b, c, d})
    OBVIOUS
  <2> QED
    BY <2>1, Zenon
<1>2. \A o \in {a, b, c, d} : o.op \in Kinds
  OBVIOUS
<1> HIDE DEF Kinds
<1> QED
  BY <1>1, <1>2, OpListIs

LEMMA OpKinds ==
    /\ \A t, n, rs, peer, k : Insert(t, n, rs, peer, k).op = "insert" /\ Insert(t, n, rs, peer, k).as = k
    /\ \A w, how, rs : Mutate(w, how, rs).op = "mutate"
    /\ \A w, r : UpdateController(w, r).op = "update"
    /\ \A w : Delete(w).op = "delete"
    /\ Wait.op = "wait"
  BY DEF Insert, Mutate, UpdateController, Delete, Wait

(* A sequence of deletions, one for each element of a finite set.          *)
LEMMA DeletesOps ==
    ASSUME NEW S, IsFiniteSet(S), NEW t
    PROVE  LET q == SetToSeq({Delete(ByUuid(t, x)) : x \in S})
           IN  OpList(q) /\ Range(q) = {Delete(ByUuid(t, x)) : x \in S}
<1> DEFINE T == {Delete(ByUuid(t, x)) : x \in S}
           f == [x \in S |-> Delete(ByUuid(t, x))]
<1>1. f \in Surjection(S, T)
  BY DEF Surjection
<1>2. IsFiniteSet(T)
  <2> HIDE DEF f, T
  <2>1. PICK g : g \in Surjection(S, T)
    BY <1>1
  <2> QED
    BY <2>1, FS_Surjection
<1>3. \A o \in T : o.op \in Kinds
  BY OpKinds DEF Kinds
<1> HIDE DEF T
<1>4. Cardinality(T) \in Nat /\ ExistsBijection(1 .. Cardinality(T), T)
  BY <1>2, FS_CardinalityType
<1>5. \E g \in [1 .. Cardinality(T) -> T] : IsInjective(g)
  <2>1. PICK g \in Bijection(1 .. Cardinality(T), T) : TRUE
    BY <1>4 DEF ExistsBijection
  <2>2. g \in [1 .. Cardinality(T) -> T] /\ IsInjective(g)
    BY <2>1 DEF Bijection, Injection, IsInjective
  <2> QED
    BY <2>2
<1>6. SetToSeq(T) \in [1 .. Cardinality(T) -> T]
  BY <1>5 DEF SetToSeq
<1>7. SetToSeq(T) \in Seq(T)
  BY <1>4, <1>6
<1>8. OpList(SetToSeq(T))
  BY <1>3, <1>7 DEF OpList
<1>9. Range(SetToSeq(T)) = T
  <2> DEFINE h == SetToSeq(T)
  <2>1. h \in [1 .. Cardinality(T) -> T] /\ IsInjective(h)
    BY <1>5 DEF SetToSeq
  <2>2. IsFiniteSet(1 .. Cardinality(T)) /\ Cardinality(1 .. Cardinality(T)) = Cardinality(T)
    BY <1>4, FS_Interval
  <2> HIDE DEF h
  <2>3. h \in Injection(1 .. Cardinality(T), T)
    BY <2>1 DEF Injection, IsInjective
  <2>4. h \in Surjection(1 .. Cardinality(T), T)
    BY <1>2, <2>2, <2>3, FS_Injection
  <2>5. \A y \in T : \E n \in 1 .. Cardinality(T) : h[n] = y
    BY <2>4 DEF Surjection
  <2>6. Range(h) = T
    BY <2>1, <2>5 DEF Range
  <2> QED
    BY <2>6 DEF h
<1> QED
  BY <1>8, <1>9 DEF T


LEMMA ConcatAt ==
    ASSUME NEW p, NEW q, OpList(p), OpList(q)
    PROVE  /\ Len(p) \in Nat /\ Len(q) \in Nat /\ DOMAIN p = 1 .. Len(p) /\ DOMAIN q = 1 .. Len(q)
           /\ DOMAIN (p \o q) = 1 .. Len(p) + Len(q)
           /\ \A n \in DOMAIN p : (p \o q)[n] = p[n]
           /\ \A n \in DOMAIN q : (p \o q)[Len(p) + n] = q[n]
           /\ \A n \in DOMAIN (p \o q) : n \in DOMAIN p \/ (n - Len(p) \in DOMAIN q /\ (p \o q)[n] = q[n - Len(p)])
           /\ Range(p \o q) = Range(p) \union Range(q)
<1>1. PICK S : p \in Seq(S)
  BY DEF OpList
<1>2. PICK T : q \in Seq(T)
  BY DEF OpList
<1>3. p \in Seq(S \union T) /\ q \in Seq(S \union T)
  BY <1>1, <1>2
<1>4. /\ Len(p) \in Nat /\ Len(q) \in Nat /\ DOMAIN p = 1 .. Len(p) /\ DOMAIN q = 1 .. Len(q)
      /\ DOMAIN (p \o q) = 1 .. Len(p) + Len(q)
      /\ \A n \in DOMAIN p : (p \o q)[n] = p[n]
      /\ \A n \in DOMAIN q : (p \o q)[Len(p) + n] = q[n]
      /\ \A n \in DOMAIN (p \o q) : n \in DOMAIN p \/ (n - Len(p) \in DOMAIN q /\ (p \o q)[n] = q[n - Len(p)])
  BY <1>3
<1> DEFINE pq == p \o q
<1> HIDE DEF pq
<1>5. /\ \A n \in DOMAIN p : n \in DOMAIN pq /\ pq[n] = p[n]
      /\ \A n \in DOMAIN q : Len(p) + n \in DOMAIN pq /\ pq[Len(p) + n] = q[n]
      /\ \A n \in DOMAIN pq : n \in DOMAIN p \/ (n - Len(p) \in DOMAIN q /\ pq[n] = q[n - Len(p)])
  BY <1>4 DEF pq
<1>6. Range(pq) = Range(p) \union Range(q)
  BY <1>5 DEF Range
<1> QED
  BY <1>4, <1>6 DEF pq

LEMMA ConcatIs ==
    ASSUME NEW p, NEW r, OpList(p), OpList(r), NEW q, q = p \o r
    PROVE  /\ DOMAIN q = 1 .. Len(p) + Len(r)
           /\ \A n \in DOMAIN p : q[n] = p[n]
           /\ \A n \in DOMAIN r : q[Len(p) + n] = r[n]
           /\ Range(q) = Range(p) \union Range(r)
<1>1. /\ DOMAIN (p \o r) = 1 .. Len(p) + Len(r)
      /\ \A n \in DOMAIN p : (p \o r)[n] = p[n]
      /\ Range(p \o r) = Range(p) \union Range(r)
  BY ConcatAt
<1>2. \A n \in DOMAIN r : (p \o r)[Len(p) + n] = r[n]
  BY ConcatAt
<1> QED
  BY <1>1, <1>2, Zenon

LEMMA LinkedConcat ==
    ASSUME NEW p, NEW q, Linked(p), Linked(q)
    PROVE  Linked(p \o q)
<1>1. OpList(p) /\ OpList(q)
  BY DEF Linked
<1> DEFINE pq == p \o q
<1>2. /\ Len(p) \in Nat /\ DOMAIN p = 1 .. Len(p) /\ DOMAIN q = 1 .. Len(q)
      /\ DOMAIN pq = 1 .. Len(p) + Len(q) /\ Len(q) \in Nat
      /\ \A n \in DOMAIN p : pq[n] = p[n]
      /\ \A n \in DOMAIN pq : n \in DOMAIN p \/ (n - Len(p) \in DOMAIN q /\ pq[n] = q[n - Len(p)])
  BY <1>1, ConcatAt
<1>3. OpList(pq)
  BY <1>1, OpListConcat
<1> HIDE DEF pq
<1>4. ASSUME NEW n \in DOMAIN p PROVE Link(pq, n)
  <2>1. Link(p, n) /\ n \in DOMAIN pq /\ pq[n] = p[n]
    BY <1>2 DEF Linked
  <2>2. n - 1 \in DOMAIN p => n - 1 \in DOMAIN pq /\ pq[n - 1] = p[n - 1]
    BY <1>2
  <2>3. \A t : After(p, n, t) => After(pq, n, t)
    BY <2>1, <2>2 DEF After
  <2> QED
    BY <2>1, <2>3 DEF Link
<1>5. ASSUME NEW n \in DOMAIN pq, n - Len(p) \in DOMAIN q, pq[n] = q[n - Len(p)] PROVE Link(pq, n)
  <2> DEFINE m == n - Len(p)
  <2>1. Link(q, m) /\ pq[n] = q[m]
    BY <1>5 DEF Linked
  <2>2. m - 1 \in DOMAIN q => n - 1 \in DOMAIN pq /\ pq[n - 1] = q[m - 1]
    <3> SUFFICES ASSUME m - 1 \in DOMAIN q PROVE n - 1 \in DOMAIN pq /\ pq[n - 1] = q[m - 1]
      OBVIOUS
    <3>1. n - 1 \in DOMAIN pq /\ n - 1 \notin DOMAIN p /\ (n - 1) - Len(p) = m - 1
      BY <1>2
    <3> QED
      BY <1>2, <3>1
  <2> HIDE DEF m
  <2>3. \A t : After(q, m, t) => After(pq, n, t)
    BY <2>1, <2>2 DEF After
  <2> QED
    BY <2>1, <2>3 DEF Link
<1>6. \A n \in DOMAIN pq : Link(pq, n)
  BY <1>2, <1>4, <1>5
<1> QED
  BY <1>3, <1>6 DEF Linked, pq

LEMMA NumberedConcat ==
    ASSUME NEW p, NEW q, OpList(p), OpList(q), NEW k, NEW l, NEW m, Numbered(p, k, l), Numbered(q, l, m)
    PROVE  Numbered(p \o q, k, m)
<1> DEFINE pq == p \o q
<1>1. /\ Len(p) \in Nat /\ DOMAIN p = 1 .. Len(p) /\ DOMAIN q = 1 .. Len(q)
      /\ DOMAIN pq = 1 .. Len(p) + Len(q) /\ Len(q) \in Nat
      /\ \A n \in DOMAIN p : pq[n] = p[n]
      /\ \A n \in DOMAIN pq : n \in DOMAIN p \/ (n - Len(p) \in DOMAIN q /\ pq[n] = q[n - Len(p)])
  BY ConcatAt
<1>2. OpList(pq)
  BY OpListConcat
<1> HIDE DEF pq
<1>3. k \in Nat /\ l \in Nat /\ m \in Nat /\ k <= l /\ l <= m /\ k <= m
  BY DEF Numbered
<1>4. \A n \in DOMAIN pq : pq[n].op = "insert" =>
         /\ pq[n].as \in Nat /\ k <= pq[n].as /\ pq[n].as < m
         /\ n \in DOMAIN p => pq[n].as < l
         /\ n \notin DOMAIN p => l <= pq[n].as
  BY <1>1, <1>3 DEF Numbered
<1>5. ASSUME NEW a \in DOMAIN pq, NEW b \in DOMAIN pq, a < b, pq[a].op = "insert", pq[b].op = "insert"
      PROVE  pq[a].as # pq[b].as
  <2>1. CASE a \in DOMAIN p /\ b \in DOMAIN p
    BY <1>1, <1>5, <2>1 DEF Numbered
  <2>2. CASE a \in DOMAIN p /\ b \notin DOMAIN p
    BY <1>3, <1>4, <1>5, <2>2
  <2>3. CASE a \notin DOMAIN p
    <3>1. b \notin DOMAIN p /\ a - Len(p) < b - Len(p)
      BY <1>1, <1>5, <2>3
    <3> QED
      BY <1>1, <1>5, <2>3, <3>1 DEF Numbered
  <2> QED
    BY <2>1, <2>2, <2>3
<1>6. \E S : pq \in Seq(S)
  BY <1>2 DEF OpList
<1> QED
  BY <1>3, <1>4, <1>5, <1>6 DEF Numbered, pq

LEMMA InsertFacts ==
    \A t, n, rs, peer, k :
        LET o == Insert(t, n, rs, peer, k)
        IN  /\ o.op = "insert" /\ IsRow(o.row) /\ o.as = k /\ o.refs = rs
            /\ o.row.table = t /\ o.row.name = n /\ o.row.peer = peer
  BY DEF Insert, IsRow
LEMMA ChangeFacts ==
    /\ \A w, how, rs : LET o == Mutate(w, how, rs)
                       IN  o.op = "mutate" /\ o.how = how /\ o.where = w /\ o.refs = rs
    /\ \A w, r : LET o == UpdateController(w, r) IN o.op = "update" /\ o.where = w /\ o.refs = {r}
    /\ \A w : LET o == Delete(w) IN o.op = "delete" /\ o.where = w
    /\ Wait.op = "wait"
  BY DEF Mutate, UpdateController, Delete, Wait

LEMMA InsertsMore ==
    ASSUME NEW q, OpList(q), NEW c \in Nat, NEW T, IsFiniteSet(T), Cardinality(T) = c,
           \A n \in T : n \in DOMAIN q /\ q[n].op = "insert"
    PROVE  Inserts(q) \in Nat /\ c <= Inserts(q)
<1> DEFINE I == {n \in DOMAIN q : q[n].op = "insert"}
<1>1. DOMAIN q = 1 .. Len(q) /\ Len(q) \in Nat
  BY DEF OpList
<1>2. IsFiniteSet(DOMAIN q)
  BY <1>1, FS_Interval
<1>3. I \subseteq DOMAIN q /\ T \subseteq I
  OBVIOUS
<1> HIDE DEF I
<1>4. IsFiniteSet(I) /\ Cardinality(I) \in Nat
  BY <1>2, <1>3, FS_Subset, FS_CardinalityType
<1>5. Cardinality(T) <= Cardinality(I)
  BY <1>3, <1>4, FS_Subset
<1> QED
  BY <1>4, <1>5 DEF Inserts, I

LEMMA NumberedMore ==
    ASSUME NEW q, NEW k, NEW l, Numbered(q, k, l), NEW m \in Nat, l <= m
    PROVE  Numbered(q, k, m)
  BY DEF Numbered

LEMMA UpTo == \A n \in Nat : IsFiniteSet(1 .. n) /\ Cardinality(1 .. n) = n
<1> TAKE n \in Nat
<1>1. 1 \in Int /\ n \in Int
  OBVIOUS
<1>2. IsFiniteSet(1 .. n)
  BY <1>1, FS_Interval
<1>3. Cardinality(1 .. n) = IF 1 > n THEN 0 ELSE n - 1 + 1
  BY <1>1, FS_Interval
<1> QED
  BY <1>2, <1>3

(* What a helper that makes c inserts builds when the counter is k.        *)
Built(q, k, c) == Linked(q) /\ Numbered(q, k, k + c) /\ c <= Inserts(q) /\ Inserts(q) \in Nat

LEMMA CreateBridgeBuilt == ASSUME NEW k \in Nat, NEW b PROVE Built(CreateBridge(k, b), k, 3)
<1> DEFINE q == CreateBridge(k, b)
<1>1. PICK x, y, z, w : /\ x = Insert("Interface", b, {}, NoName, k)
                        /\ y = Insert("Port", b, {Named(k)}, NoName, k + 1)
                        /\ z = Insert("Bridge", b, {Named(k + 1)}, NoName, k + 2)
                        /\ w = Mutate(All("Open_vSwitch"), "insert", {Named(k + 2)})
  OBVIOUS
<1>2. q = <<x, y, z, w>>
  BY <1>1 DEF CreateBridge
<1>3. /\ x.op = "insert" /\ x.as = k /\ IsRow(x.row) /\ x.row.table = "Interface" /\ x.refs = {}
      /\ y.op = "insert" /\ y.as = k + 1 /\ IsRow(y.row) /\ y.row.table = "Port" /\ y.refs = {Named(k)}
      /\ z.op = "insert" /\ z.as = k + 2 /\ IsRow(z.row) /\ z.row.table = "Bridge" /\ z.refs = {Named(k + 1)}
      /\ w.op = "mutate" /\ w.how = "insert" /\ w.where = All("Open_vSwitch") /\ w.refs = {Named(k + 2)}
  BY <1>1, InsertFacts, ChangeFacts
<1> HIDE DEF q
<1>4. OpList(q)
  BY <1>2, <1>3, FourOps DEF Kinds
<1>5. DOMAIN q = 1 .. 4 /\ q[1] = x /\ q[2] = y /\ q[3] = z /\ q[4] = w
  BY <1>2
<1>6. After(q, 2, "Interface") /\ After(q, 3, "Port") /\ After(q, 4, "Bridge")
  BY <1>3, <1>5 DEF After
<1>7. Link(q, 1) /\ Link(q, 2) /\ Link(q, 3) /\ Link(q, 4)
  BY <1>3, <1>5, <1>6 DEF Link, Leaves
<1>8. Linked(q)
  BY <1>4, <1>5, <1>7 DEF Linked
<1>9. Numbered(q, k, k + 3)
  BY <1>3, <1>4, <1>5 DEF Numbered, OpList
<1>10. IsFiniteSet(1 .. 3) /\ Cardinality(1 .. 3) = 3
  BY UpTo
<1>11. Inserts(q) \in Nat /\ 3 <= Inserts(q)
  BY <1>3, <1>4, <1>5, <1>10, InsertsMore
<1> QED
  BY <1>8, <1>9, <1>11 DEF Built, q

LEMMA AddPortBuilt ==
    ASSUME NEW k \in Nat, NEW b, NEW p, NEW peer
    PROVE  Built(AddPort(k, b, p, peer), k, 2)
<1> DEFINE q == AddPort(k, b, p, peer)
<1>1. PICK x, y, w : /\ x = Insert("Interface", p, {}, peer, k)
                     /\ y = Insert("Port", p, {Named(k)}, NoName, k + 1)
                     /\ w = Mutate(ByName("Bridge", b), "insert", {Named(k + 1)})
  OBVIOUS
<1>2. q = <<x, y, w>>
  BY <1>1 DEF AddPort
<1>3. /\ x.op = "insert" /\ x.as = k /\ IsRow(x.row) /\ x.row.table = "Interface" /\ x.refs = {}
      /\ y.op = "insert" /\ y.as = k + 1 /\ IsRow(y.row) /\ y.row.table = "Port" /\ y.refs = {Named(k)}
      /\ w.op = "mutate" /\ w.how = "insert" /\ w.where = ByName("Bridge", b) /\ w.refs = {Named(k + 1)}
  BY <1>1, InsertFacts, ChangeFacts
<1> HIDE DEF q
<1>4. OpList(q)
  BY <1>2, <1>3, FourOps DEF Kinds
<1>5. DOMAIN q = 1 .. 3 /\ q[1] = x /\ q[2] = y /\ q[3] = w
  BY <1>2
<1>6. After(q, 2, "Interface") /\ After(q, 3, "Port")
  BY <1>3, <1>5 DEF After
<1>7. Link(q, 1) /\ Link(q, 2) /\ Link(q, 3)
  BY <1>3, <1>5, <1>6 DEF Link, Leaves
<1>8. Linked(q)
  BY <1>4, <1>5, <1>7 DEF Linked
<1>9. Numbered(q, k, k + 2)
  BY <1>3, <1>4, <1>5 DEF Numbered, OpList
<1>10. IsFiniteSet(1 .. 2) /\ Cardinality(1 .. 2) = 2
  BY UpTo
<1>11. Inserts(q) \in Nat /\ 2 <= Inserts(q)
  BY <1>3, <1>4, <1>5, <1>10, InsertsMore
<1> QED
  BY <1>8, <1>9, <1>11 DEF Built, q

LEMMA AddPortInserts ==
    ASSUME NEW k, NEW b, NEW p, NEW peer
    PROVE  LET q == AddPort(k, b, p, peer)
           IN  DOMAIN q = 1 .. 3 /\ q[1].op = "insert" /\ q[2].op = "insert" /\ Len(q) = 3
<1>1. PICK x, y, w : /\ x = Insert("Interface", p, {}, peer, k)
                     /\ y = Insert("Port", p, {Named(k)}, NoName, k + 1)
                     /\ w = Mutate(ByName("Bridge", b), "insert", {Named(k + 1)})
  OBVIOUS
<1>2. AddPort(k, b, p, peer) = <<x, y, w>>
  BY <1>1 DEF AddPort
<1>3. x.op = "insert" /\ y.op = "insert"
  BY <1>1, InsertFacts
<1> QED
  BY <1>2, <1>3

LEMMA AddPatchPortsBuilt ==
    ASSUME NEW k \in Nat, NEW b, NEW d
    PROVE  Built(AddPatchPorts(k, b, d), k, 4)
<1>1. PICK p : p = AddPort(k, b, b \o d, d \o b)
  OBVIOUS
<1>2. PICK r : r = AddPort(k + 2, d, d \o b, b \o d)
  OBVIOUS
<1>3. Built(p, k, 2) /\ Built(r, k + 2, 2)
  BY <1>1, <1>2, AddPortBuilt
<1> DEFINE q == p \o r
<1>4. q = AddPatchPorts(k, b, d)
  BY <1>1, <1>2 DEF AddPatchPorts
<1>5. Linked(q)
  BY <1>3, LinkedConcat DEF Built
<1>6. Numbered(q, k, k + 4)
  <2>1. Numbered(q, k, (k + 2) + 2)
    BY <1>3, NumberedConcat DEF Built, Linked
  <2> QED
    BY <2>1
<1>7. /\ DOMAIN p = 1 .. 3 /\ p[1].op = "insert" /\ p[2].op = "insert" /\ Len(p) = 3
      /\ DOMAIN r = 1 .. 3 /\ r[1].op = "insert" /\ r[2].op = "insert" /\ Len(r) = 3
  BY <1>1, <1>2, AddPortInserts
<1>8. DOMAIN q = 1 .. 6 /\ q[1] = p[1] /\ q[2] = p[2] /\ q[4] = r[1] /\ q[5] = r[2]
  <2>1. OpList(p) /\ OpList(r)
    BY <1>3 DEF Built, Linked
  <2>2. PICK pr : pr = q
    OBVIOUS
  <2>3. /\ DOMAIN pr = 1 .. Len(p) + Len(r)
        /\ \A n \in DOMAIN p : pr[n] = p[n]
        /\ \A n \in DOMAIN r : pr[Len(p) + n] = r[n]
    BY <2>1, <2>2, ConcatIs
  <2> HIDE DEF q
  <2> QED
    BY <1>7, <2>2, <2>3
<1> HIDE DEF q
<1>9. IsFiniteSet((1 .. 2) \union {4} \union {5}) /\ Cardinality((1 .. 2) \union {4} \union {5}) = 4
  <2>1. IsFiniteSet(1 .. 2) /\ Cardinality(1 .. 2) = 2
    BY UpTo
  <2>2. IsFiniteSet((1 .. 2) \union {4}) /\ Cardinality((1 .. 2) \union {4}) = 3
    BY <2>1, FS_AddElement
  <2>3. 5 \notin (1 .. 2) \union {4}
    OBVIOUS
  <2> QED
    BY <2>2, <2>3, FS_AddElement
<1>10. Inserts(q) \in Nat /\ 4 <= Inserts(q)
  <2>1. OpList(q)
    BY <1>5 DEF Linked
  <2> QED
    BY <1>7, <1>8, <1>9, <2>1, InsertsMore
<1> QED
  BY <1>4, <1>5, <1>6, <1>10 DEF Built

LEMMA SetControllerBuilt ==
    ASSUME NEW k \in Nat, NEW b, NEW a
    PROVE  Built(SetController(k, b, a), k, 1)
<1> DEFINE q == SetController(k, b, a)
<1>1. PICK x, w : /\ x = Insert("Controller", a, {}, NoName, k)
                  /\ w = UpdateController(ByName("Bridge", b), Named(k))
  OBVIOUS
<1>2. q = <<x, w>>
  BY <1>1 DEF SetController
<1>3. /\ x.op = "insert" /\ x.as = k /\ IsRow(x.row) /\ x.row.table = "Controller" /\ x.refs = {}
      /\ w.op = "update" /\ w.where = ByName("Bridge", b) /\ w.refs = {Named(k)}
  BY <1>1, InsertFacts, ChangeFacts
<1> HIDE DEF q
<1>4. OpList(q)
  BY <1>2, <1>3, FourOps DEF Kinds
<1>5. DOMAIN q = 1 .. 2 /\ q[1] = x /\ q[2] = w
  BY <1>2
<1>6. After(q, 2, "Controller")
  BY <1>3, <1>5 DEF After
<1>7. Link(q, 1) /\ Link(q, 2)
  BY <1>3, <1>5, <1>6 DEF Link, Leaves
<1>8. Linked(q)
  BY <1>4, <1>5, <1>7 DEF Linked
<1>9. Numbered(q, k, k + 1)
  BY <1>3, <1>4, <1>5 DEF Numbered, OpList
<1>10. IsFiniteSet(1 .. 1) /\ Cardinality(1 .. 1) = 1
  BY UpTo
<1>11. Inserts(q) \in Nat /\ 1 <= Inserts(q)
  BY <1>3, <1>4, <1>5, <1>10, InsertsMore
<1> QED
  BY <1>8, <1>9, <1>11 DEF Built, q

(* Operations that delete, or wait.                                        *)
Removing(o) ==
    \/ o.op = "mutate" /\ o.how = "delete" /\ o.where.table # "Port"
    \/ o.op = "delete" /\ o.where.table # "Open_vSwitch"
    \/ o.op = "wait"

LEMMA RemovingBuilt ==
    ASSUME NEW q, OpList(q), \A n \in DOMAIN q : Removing(q[n]), NEW k \in Nat
    PROVE  Built(q, k, 0)
<1>1. \A n \in DOMAIN q : Link(q, n) /\ q[n].op # "insert"
  BY DEF Removing, Link
<1>2. Linked(q)
  BY <1>1 DEF Linked
<1>3. Numbered(q, k, k + 0)
  BY <1>1 DEF Numbered, OpList
<1>4. IsFiniteSet({}) /\ Cardinality({}) = 0
  BY FS_EmptySet
<1>5. Inserts(q) \in Nat /\ 0 <= Inserts(q)
  BY <1>4, InsertsMore
<1> QED
  BY <1>2, <1>3, <1>5 DEF Built

LEMMA RangeRemoving ==
    ASSUME NEW q, \A o \in Range(q) : Removing(o)
    PROVE  \A n \in DOMAIN q : Removing(q[n])
  BY DEF Range

LEMMA TupleRange ==
    /\ \A a : Range(<<a>>) = {a} /\ DOMAIN <<a>> = 1 .. 1
    /\ \A a, b : Range(<<a, b>>) = {a, b}
    /\ \A a, b, c : Range(<<a, b, c>>) = {a, b, c}
<1>1. ASSUME NEW a PROVE Range(<<a>>) = {a} /\ DOMAIN <<a>> = 1 .. 1
  <2>1. DOMAIN <<a>> = {1} /\ <<a>>[1] = a
    OBVIOUS
  <2> QED
    BY <2>1 DEF Range
<1>2. ASSUME NEW a, NEW b PROVE Range(<<a, b>>) = {a, b}
  <2>1. DOMAIN <<a, b>> = {1, 2} /\ <<a, b>>[1] = a /\ <<a, b>>[2] = b
    OBVIOUS
  <2> QED
    BY <2>1 DEF Range
<1>3. ASSUME NEW a, NEW b, NEW c PROVE Range(<<a, b, c>>) = {a, b, c}
  <2>1. DOMAIN <<a, b, c>> = {1, 2, 3} /\ <<a, b, c>>[1] = a /\ <<a, b, c>>[2] = b /\ <<a, b, c>>[3] = c
    OBVIOUS
  <2> QED
    BY <2>1 DEF Range
<1> QED
  BY <1>1, <1>2, <1>3

(* The calls that delete.                                                  *)
LEMMA RemovingAll ==
    ASSUME NEW q, OpList(q), \A o \in Range(q) : Removing(o), NEW k \in Nat
    PROVE  Built(q, k, 0)
  BY RangeRemoving, RemovingBuilt

LEMMA DeleteBridgeBuilt == ASSUME NEW k \in Nat, NEW b PROVE Built(DeleteBridge(b), k, 0)
<1>1. PICK x, y, z : /\ x = Delete(ByName("Interface", b))
                     /\ y = Delete(ByName("Port", b))
                     /\ z = Delete(ByName("Bridge", b))
  OBVIOUS
<1>2. DeleteBridge(b) = <<x, y, z>>
  BY <1>1 DEF DeleteBridge
<1>3. x.op \in Kinds /\ y.op \in Kinds /\ z.op \in Kinds /\ Removing(x) /\ Removing(y) /\ Removing(z)
  BY <1>1, ChangeFacts DEF Removing, Kinds, ByName
<1>4. PICK q : q = <<x, y, z>>
  OBVIOUS
<1>5. OpList(q)
  BY <1>3, <1>4, FourOps
<1>6. Range(q) = {x, y, z}
  BY <1>4, TupleRange
<1>7. \A o \in Range(q) : Removing(o)
  BY <1>3, <1>6
<1> QED
  BY <1>2, <1>4, <1>5, <1>7, RemovingAll

LEMMA DeletePortBuilt == ASSUME NEW k \in Nat, NEW p PROVE Built(DeletePort(p), k, 0)
<1>1. PICK x, y : /\ x = Delete(ByName("Interface", p))
                  /\ y = Delete(ByName("Port", p))
  OBVIOUS
<1>2. DeletePort(p) = <<x, y>>
  BY <1>1 DEF DeletePort
<1>3. x.op \in Kinds /\ y.op \in Kinds /\ Removing(x) /\ Removing(y)
  BY <1>1, ChangeFacts DEF Removing, Kinds, ByName
<1>4. PICK q : q = <<x, y>>
  OBVIOUS
<1>5. OpList(q)
  BY <1>3, <1>4, FourOps
<1>6. Range(q) = {x, y}
  BY <1>4, TupleRange
<1>7. \A o \in Range(q) : Removing(o)
  BY <1>3, <1>6
<1> QED
  BY <1>2, <1>4, <1>5, <1>7, RemovingAll

LEMMA WaitBuilt == ASSUME NEW k \in Nat PROVE Built(<<Wait>>, k, 0)
<1>1. PICK x : x = Wait
  OBVIOUS
<1>2. x.op \in Kinds /\ Removing(x)
  BY <1>1, ChangeFacts DEF Removing, Kinds
<1>3. PICK q : q = <<x>>
  OBVIOUS
<1>4. OpList(q)
  BY <1>2, <1>3, FourOps
<1>5. Range(q) = {x}
  BY <1>3, TupleRange
<1>6. \A o \in Range(q) : Removing(o)
  BY <1>2, <1>5
<1> QED
  BY <1>1, <1>3, <1>4, <1>6, RemovingAll

LEMMA DeletePortUuidIs ==
    ASSUME NEW u, NEW x, NEW y
    PROVE  LET q == DeletePortUuid(u, x, y)
           IN  /\ OpList(q)
               /\ Range(q) = {Mutate(ByUuid("Bridge", u), "delete", {Known(x)}),
                              Delete(ByUuid("Interface", y)), Delete(ByUuid("Port", x))}
<1>1. PICK a, b, c : /\ a = Mutate(ByUuid("Bridge", u), "delete", {Known(x)})
                     /\ b = Delete(ByUuid("Interface", y))
                     /\ c = Delete(ByUuid("Port", x))
  OBVIOUS
<1>2. DeletePortUuid(u, x, y) = <<a, b, c>>
  BY <1>1 DEF DeletePortUuid
<1>3. a.op \in Kinds /\ b.op \in Kinds /\ c.op \in Kinds
  BY <1>1, ChangeFacts DEF Kinds
<1>4. PICK q : q = <<a, b, c>>
  OBVIOUS
<1>5. OpList(q)
  BY <1>3, <1>4, FourOps
<1>6. Range(q) = {a, b, c}
  BY <1>4, TupleRange
<1> QED
  BY <1>1, <1>2, <1>4, <1>5, <1>6

LEMMA DeleteBridgeUuidIs ==
    ASSUME NEW u, NEW P, IsFiniteSet(P), NEW I, IsFiniteSet(I)
    PROVE  LET q == DeleteBridgeUuid(u, P, I)
           IN  /\ OpList(q)
               /\ Range(q) = {Mutate(All("Open_vSwitch"), "delete", {Known(u)})}
                                \union {Delete(ByUuid("Interface", y)) : y \in I}
                                \union {Delete(ByUuid("Port", x)) : x \in P}
                                \union {Delete(ByUuid("Bridge", u))}
<1> DEFINE D(t, S) == SetToSeq({Delete(ByUuid(t, x)) : x \in S})
<1>1. PICK m, d : m = Mutate(All("Open_vSwitch"), "delete", {Known(u)}) /\ d = Delete(ByUuid("Bridge", u))
  OBVIOUS
<1>2. PICK a, b, i, p : a = <<m>> /\ b = <<d>> /\ i = D("Interface", I) /\ p = D("Port", P)
  OBVIOUS
<1>3. DeleteBridgeUuid(u, P, I) = a \o i \o p \o b
  BY <1>1, <1>2 DEF DeleteBridgeUuid
<1>4. /\ OpList(i) /\ Range(i) = {Delete(ByUuid("Interface", y)) : y \in I}
      /\ OpList(p) /\ Range(p) = {Delete(ByUuid("Port", x)) : x \in P}
  <2>1. OpList(i) /\ Range(i) = {Delete(ByUuid("Interface", y)) : y \in I}
    BY <1>2, DeletesOps
  <2>2. OpList(p) /\ Range(p) = {Delete(ByUuid("Port", x)) : x \in P}
    BY <1>2, DeletesOps
  <2> QED
    BY <2>1, <2>2
<1>5. m.op \in Kinds /\ d.op \in Kinds
  BY <1>1, ChangeFacts DEF Kinds
<1>6. OpList(a) /\ OpList(b) /\ Range(a) = {m} /\ Range(b) = {d}
  BY <1>2, <1>5, FourOps, TupleRange
<1>7. PICK ai : ai = a \o i
  OBVIOUS
<1>8. OpList(ai) /\ Range(ai) = Range(a) \union Range(i)
  BY <1>4, <1>6, <1>7, OpListConcat, ConcatIs
<1>9. PICK aip : aip = ai \o p
  OBVIOUS
<1>10. OpList(aip) /\ Range(aip) = Range(ai) \union Range(p)
  BY <1>4, <1>8, <1>9, OpListConcat, ConcatIs
<1>11. PICK q : q = aip \o b
  OBVIOUS
<1>12. OpList(q) /\ Range(q) = Range(aip) \union Range(b)
  BY <1>6, <1>10, <1>11, OpListConcat, ConcatIs
<1>13. q = DeleteBridgeUuid(u, P, I)
  BY <1>3, <1>7, <1>9, <1>11, Zenon
<1>14. Range(q) = {m} \union Range(i) \union Range(p) \union {d}
  BY <1>6, <1>8, <1>10, <1>12
<1> QED
  BY <1>1, <1>4, <1>12, <1>13, <1>14, Zenon

-----------------------------------------------------------------------------
(* Deletions by uuid.                                                      *)

(* A row of r, or one to come, that no other row than u refers to: x has   *)
(* got its uuid already, so none will.                                     *)
Only(r, i, x, u) == x \in Nat /\ x < i /\ \A v \in DOMAIN r : x \in r[v].refs => v = u

(* A row is deleted with the row that refers to it, or with the reference. *)
Covered(S, r, i, o) ==
    \/ \E u : o = Mutate(All("Open_vSwitch"), "delete", {Known(u)})
    \/ \E u, x : o = Mutate(ByUuid("Bridge", u), "delete", {Known(x)})
    \/ \E u : /\ o = Delete(ByUuid("Bridge", u))
              /\ Mutate(All("Open_vSwitch"), "delete", {Known(u)}) \in S
    \/ \E x, u : /\ o = Delete(ByUuid("Port", x)) /\ Only(r, i, x, u)
                 /\ \/ Delete(ByUuid("Bridge", u)) \in S
                    \/ Mutate(ByUuid("Bridge", u), "delete", {Known(x)}) \in S
    \/ \E y, x : /\ o = Delete(ByUuid("Interface", y)) /\ Only(r, i, y, x)
                 /\ Delete(ByUuid("Port", x)) \in S
Covers(S, r, i) == \A o \in S : Covered(S, r, i, o)

LEMMA OnlyStays ==
    ASSUME NEW r, NEW i \in Nat, NEW x, NEW u, Only(r, i, x, u), NEW s, NEW j \in Nat, i <= j, Older(r, i, s)
    PROVE  Only(s, j, x, u)
<1>1. x \in Nat /\ x < i /\ x < j
  BY DEF Only
<1>2. \A v \in DOMAIN s : x \in s[v].refs => v = u
  BY <1>1 DEF Only, Older
<1> QED
  BY <1>1, <1>2 DEF Only

LEMMA CoversStays ==
    ASSUME NEW r, NEW i \in Nat, NEW S, Covers(S, r, i), NEW s, NEW j \in Nat, i <= j, Older(r, i, s)
    PROVE  Covers(S, s, j)
<1>1. \A x, u : Only(r, i, x, u) => Only(s, j, x, u)
  BY OnlyStays
<1> QED
  BY <1>1 DEF Covers, Covered

LEMMA CoversUnion ==
    ASSUME NEW r, NEW i, NEW S, Covers(S, r, i), NEW T, Covers(T, r, i)
    PROVE  Covers(S \union T, r, i)
<1>1. \A o : Covered(S, r, i, o) \/ Covered(T, r, i, o) => Covered(S \union T, r, i, o)
  BY DEF Covered
<1> QED
  BY <1>1 DEF Covers

-----------------------------------------------------------------------------
(* What is left of the rows by operations that delete: what they match is  *)
(* gone, and nothing else; and so are the references that are taken out.   *)
Shrunk(r, q, n, s) ==
    /\ DOMAIN s.rows \subseteq DOMAIN r
    /\ \A v \in DOMAIN s.rows : SameRow(r[v], s.rows[v]) /\ s.rows[v].refs \subseteq r[v].refs
    /\ \A m \in 1 .. n : q[m].op = "delete" => Matches(r, q[m].where) \cap DOMAIN s.rows = {}
    /\ \A m \in 1 .. n : q[m].op = "mutate" =>
          \A x : Known(x) \in q[m].refs =>
             \A v \in Matches(r, q[m].where) : v \in DOMAIN s.rows => x \notin s.rows[v].refs
    /\ \A v \in DOMAIN r : v \in DOMAIN s.rows \/
          \E m \in 1 .. n : q[m].op = "delete" /\ v \in Matches(r, q[m].where)
    /\ (\A m \in 1 .. n : q[m].op # "mutate") => \A v \in DOMAIN s.rows : s.rows[v].refs = r[v].refs

LEMMA SameMatches ==
    ASSUME NEW r, NEW s, DOMAIN s \subseteq DOMAIN r, \A v \in DOMAIN s : SameRow(r[v], s[v]), NEW w
    PROVE  Matches(s, w) = Matches(r, w) \cap DOMAIN s
  BY DEF Matches, SameRow

LEMMA ShrunkStep ==
    ASSUME NEW r, NEW q, OpList(q), NEW n \in Nat, n + 1 \in DOMAIN q, Removing(q[n + 1]),
           NEW s, IsState(s), \A v \in DOMAIN s.rows : IsRow(s.rows[v]), Shrunk(r, q, n, s)
    PROVE  Shrunk(r, q, n + 1, Do(s, q[n + 1]))
<1> DEFINE o == q[n + 1]
           t == Do(s, o)
           M == Matches(r, o.where)
<1>1. /\ DOMAIN s.rows \subseteq DOMAIN r
      /\ \A v \in DOMAIN s.rows : SameRow(r[v], s.rows[v]) /\ s.rows[v].refs \subseteq r[v].refs
      /\ \A m \in 1 .. n : q[m].op = "delete" => Matches(r, q[m].where) \cap DOMAIN s.rows = {}
      /\ \A m \in 1 .. n : q[m].op = "mutate" =>
            \A x : Known(x) \in q[m].refs =>
               \A v \in Matches(r, q[m].where) : v \in DOMAIN s.rows => x \notin s.rows[v].refs
      /\ \A v \in DOMAIN r : v \in DOMAIN s.rows \/
            \E m \in 1 .. n : q[m].op = "delete" /\ v \in Matches(r, q[m].where)
      /\ (\A m \in 1 .. n : q[m].op # "mutate") => \A v \in DOMAIN s.rows : s.rows[v].refs = r[v].refs
  BY DEF Shrunk
<1>2. Matches(s.rows, o.where) = M \cap DOMAIN s.rows
  BY <1>1, SameMatches
<1>3. \A m \in 1 .. n + 1 : m \in 1 .. n \/ m = n + 1
  OBVIOUS
<1>4. n + 1 \in 1 .. n + 1 /\ \A m \in 1 .. n : m \in 1 .. n + 1
  OBVIOUS
<1> HIDE DEF t, M
(* The rows that are left, their references, and what is known of o.       *)
<1>5. ASSUME DOMAIN t.rows \subseteq DOMAIN s.rows,
             \A v \in DOMAIN t.rows : /\ SameRow(s.rows[v], t.rows[v])
                                      /\ t.rows[v].refs \subseteq s.rows[v].refs,
             o.op = "delete" => M \cap DOMAIN t.rows = {},
             o.op = "mutate" => \A x : Known(x) \in o.refs =>
                 \A v \in M : v \in DOMAIN t.rows => x \notin t.rows[v].refs,
             \A v \in DOMAIN s.rows : v \in DOMAIN t.rows \/ (o.op = "delete" /\ v \in M),
             o.op # "mutate" => \A v \in DOMAIN t.rows : t.rows[v].refs = s.rows[v].refs
      PROVE  Shrunk(r, q, n + 1, t)
  <2>1. \A v \in DOMAIN t.rows : SameRow(r[v], t.rows[v]) /\ t.rows[v].refs \subseteq r[v].refs
    BY <1>1, <1>5 DEF SameRow
  <2>2. \A m \in 1 .. n + 1 : q[m].op = "delete" => Matches(r, q[m].where) \cap DOMAIN t.rows = {}
    BY <1>1, <1>3, <1>5 DEF M
  <2>3. \A m \in 1 .. n + 1 : q[m].op = "mutate" =>
           \A x : Known(x) \in q[m].refs =>
              \A v \in Matches(r, q[m].where) : v \in DOMAIN t.rows => x \notin t.rows[v].refs
    BY <1>1, <1>3, <1>5 DEF M
  <2>4. \A v \in DOMAIN r : v \in DOMAIN t.rows \/
           \E m \in 1 .. n + 1 : q[m].op = "delete" /\ v \in Matches(r, q[m].where)
    <3> SUFFICES ASSUME NEW v \in DOMAIN r, v \notin DOMAIN t.rows
                 PROVE  \E m \in 1 .. n + 1 : q[m].op = "delete" /\ v \in Matches(r, q[m].where)
      OBVIOUS
    <3>1. CASE v \in DOMAIN s.rows
      BY <1>4, <1>5, <3>1 DEF M
    <3>2. CASE v \notin DOMAIN s.rows
      BY <1>1, <1>4, <3>2
    <3> QED
      BY <3>1, <3>2
  <2>5. (\A m \in 1 .. n + 1 : q[m].op # "mutate") => \A v \in DOMAIN t.rows : t.rows[v].refs = r[v].refs
    BY <1>1, <1>4, <1>5
  <2> QED
    BY <1>1, <1>5, <2>1, <2>2, <2>3, <2>4, <2>5 DEF Shrunk
<1>6. CASE o.op = "mutate" /\ o.how = "delete" /\ o.where.table # "Port"
  <2>1. /\ DOMAIN t.rows = DOMAIN s.rows
        /\ \A v \in DOMAIN s.rows : SameRow(s.rows[v], t.rows[v])
        /\ \A v \in DOMAIN s.rows \ Matches(s.rows, o.where) : t.rows[v].refs = s.rows[v].refs
        /\ \A v \in Matches(s.rows, o.where) : t.rows[v].refs = NewRefs(s, o, v)
    BY <1>6, Changed DEF t
  <2>2. \A v \in Matches(s.rows, o.where) : t.rows[v].refs = s.rows[v].refs \ Uuids(s, o)
    BY <1>6, <2>1 DEF NewRefs
  <2>3. \A x : Known(x) \in o.refs => x \in Uuids(s, o)
    BY DEF Uuids, Known
  <2>4. \A v \in DOMAIN t.rows : t.rows[v].refs \subseteq s.rows[v].refs
    BY <2>1, <2>2
  <2>5. \A x : Known(x) \in o.refs => \A v \in M : v \in DOMAIN t.rows => x \notin t.rows[v].refs
    BY <1>2, <2>1, <2>2, <2>3
  <2> QED
    BY <1>5, <1>6, <2>1, <2>4, <2>5 DEF t
<1>7. CASE o.op = "delete"
  <2>1. /\ DOMAIN t.rows = DOMAIN s.rows \ Matches(s.rows, o.where)
        /\ \A v \in DOMAIN t.rows : t.rows[v] = s.rows[v]
    BY <1>7, Deleted DEF t
  <2>2. /\ DOMAIN t.rows \subseteq DOMAIN s.rows /\ M \cap DOMAIN t.rows = {}
        /\ \A v \in DOMAIN s.rows : v \in DOMAIN t.rows \/ v \in M
    BY <1>2, <2>1
  <2>3. \A v \in DOMAIN t.rows : SameRow(s.rows[v], t.rows[v]) /\ t.rows[v].refs = s.rows[v].refs
    BY <2>1 DEF SameRow
  <2> QED
    BY <1>5, <1>7, <2>2, <2>3 DEF t
<1>8. CASE o.op = "wait"
  <2>1. t.rows = s.rows
    BY <1>8, Waited DEF t
  <2>2. \A v \in DOMAIN t.rows : SameRow(s.rows[v], t.rows[v]) /\ t.rows[v].refs = s.rows[v].refs
    BY <2>1 DEF SameRow
  <2> QED
    BY <1>5, <1>8, <2>1, <2>2 DEF t
<1> QED
  BY <1>6, <1>7, <1>8 DEF Removing, t

LEMMA ShrunkAll ==
    ASSUME NEW r, NEW i, Tree(r, i), NEW q, OpList(q), \A n \in DOMAIN q : Removing(q[n])
    PROVE  LET end == FoldLeft(Do, Start(r, i), q)
           IN  /\ Shrunk(r, q, Len(q), end) /\ Mid(r, i, q, Len(q), end)
<1> DEFINE b == Start(r, i)
           end == FoldLeft(Do, b, q)
<1>1. Linked(q) /\ Numbered(q, 0, 0 + 0)
  BY RemovingBuilt DEF Built
<1>2. PICK E : Runs(E, b, q)
  BY RunExists
<1>3. DOMAIN q = 1 .. Len(q) /\ Len(q) \in Nat
  BY DEF OpList
<1>4. \A n \in 0 .. Len(q) : Mid(r, i, q, n, E[n])
  BY <1>1, <1>2, MidAll
<1> DEFINE D == {n \in Nat : n <= Len(q) => Shrunk(r, q, n, E[n])}
<1>5. 0 \in D
  <2>1. E[0].rows = r
    BY <1>2 DEF Runs, Start
  <2> QED
    BY <2>1 DEF Shrunk, SameRow
<1>6. ASSUME NEW n \in Nat, n \in D PROVE n + 1 \in D
  <2> SUFFICES ASSUME n + 1 <= Len(q) PROVE Shrunk(r, q, n + 1, E[n + 1])
    OBVIOUS
  <2>1. n + 1 \in DOMAIN q /\ Shrunk(r, q, n, E[n]) /\ Mid(r, i, q, n, E[n])
    BY <1>3, <1>4, <1>6
  <2>2. E[n + 1] = Do(E[n], q[n + 1])
    BY <1>2, <2>1 DEF Runs
  <2>3. IsState(E[n]) /\ \A v \in DOMAIN E[n].rows : IsRow(E[n].rows[v])
    BY <2>1 DEF Mid, Layered
  <2> HIDE DEF D
  <2> QED
    BY <2>1, <2>2, <2>3, ShrunkStep
<1> HIDE DEF D
<1>7. Nat \subseteq D
  BY <1>5, <1>6, Doing!NatSetInduction
<1>8. Shrunk(r, q, Len(q), E[Len(q)]) /\ Mid(r, i, q, Len(q), E[Len(q)])
  BY <1>3, <1>4, <1>7 DEF D
<1> QED
  BY <1>2, <1>8 DEF Runs

(* Rows that are left, and refer to none that is gone, are a database.     *)
LEMMA ShrunkAllowed ==
    ASSUME NEW r, Allowed(r), NEW t, Layered(t), DOMAIN t \subseteq DOMAIN r,
           \A v \in DOMAIN t : SameRow(r[v], t[v]) /\ t[v].refs \subseteq DOMAIN t
    PROVE  Allowed(Collect(t))
<1> DEFINE k == Collect(t)
<1>1. DOMAIN k = Reached(t) \cap DOMAIN t /\ \A u \in DOMAIN k : k[u] = t[u]
  BY KeptFacts
<1>2. \A u \in DOMAIN k : k[u].refs \subseteq DOMAIN k
  BY <1>1, ReachedOnwards
<1>3. \A u, v \in DOMAIN k : /\ k[u].table = k[v].table /\ k[u].name = k[v].name
                             /\ k[u].table # "Controller"
                             => u = v
  BY <1>1 DEF Allowed, SameRow
<1> QED
  BY <1>2, <1>3 DEF Allowed

(* Deletions by uuid that are covered leave no reference to what is gone.  *)
LEMMA CoveredSucceed ==
    ASSUME NEW r, NEW i, Tree(r, i), NEW q, OpList(q), Covers(Range(q), r, i),
           NEW o \in Outcomes(r, i, q)
    PROVE  o.ok
<1> DEFINE end == FoldLeft(Do, Start(r, i), q)
           S == Range(q)
<1>1. \A n \in DOMAIN q : q[n] \in S
  BY DEF Range
<1>2. ASSUME NEW a \in S PROVE Removing(a) /\ a.op # "wait"
  <2>1. \/ \E w, x : a = Mutate(w, "delete", {Known(x)}) /\ w.table # "Port"
        \/ \E w : a = Delete(w) /\ w.table # "Open_vSwitch"
    <3>1. /\ All("Open_vSwitch").table = "Open_vSwitch"
          /\ \A u : ByUuid("Bridge", u).table = "Bridge" /\ ByUuid("Port", u).table = "Port"
          /\ \A u : ByUuid("Interface", u).table = "Interface"
      BY DEF All, ByUuid
    <3>2. Covered(S, r, i, a)
      BY DEF Covers
    <3> HIDE DEF S
    <3> QED
      BY <3>1, <3>2 DEF Covered
  <2>2. CASE \E w, x : a = Mutate(w, "delete", {Known(x)}) /\ w.table # "Port"
    BY <2>2, ChangeFacts DEF Removing
  <2>3. CASE \E w : a = Delete(w) /\ w.table # "Open_vSwitch"
    BY <2>3, ChangeFacts DEF Removing
  <2> QED
    BY <2>1, <2>2, <2>3
<1>3. \A n \in DOMAIN q : Removing(q[n]) /\ q[n].op # "wait"
  BY <1>1, <1>2
<1>4. Shrunk(r, q, Len(q), end) /\ Mid(r, i, q, Len(q), end)
  BY <1>3, ShrunkAll
<1>5. DOMAIN q = 1 .. Len(q)
  BY DEF OpList
<1> HIDE DEF end
<1> DEFINE t == end.rows
<1>6. /\ DOMAIN t \subseteq DOMAIN r
      /\ \A v \in DOMAIN t : SameRow(r[v], t[v]) /\ t[v].refs \subseteq r[v].refs
      /\ \A a \in S : a.op = "delete" => Matches(r, a.where) \cap DOMAIN t = {}
      /\ \A a \in S : a.op = "mutate" =>
            \A x : Known(x) \in a.refs =>
               \A v \in Matches(r, a.where) : v \in DOMAIN t => x \notin t[v].refs
      /\ \A v \in DOMAIN r : v \in DOMAIN t \/ \E a \in S : a.op = "delete" /\ v \in Matches(r, a.where)
  BY <1>1, <1>4, <1>5 DEF Shrunk, Range
<1>7. /\ \A u \in DOMAIN r : r[u].refs \subseteq DOMAIN r
      /\ \A u \in DOMAIN r : r[u].table = "Open_vSwitch" <=> u = 0
      /\ \A u \in DOMAIN r : \A y \in DOMAIN r : y \in r[u].refs => Above(r[u].table, r[y].table)
  BY DEF Tree, Layered, Allowed
<1> HIDE DEF t, S
<1>8. ASSUME NEW v \in DOMAIN t, NEW y \in t[v].refs PROVE y \in DOMAIN t
  <2> SUFFICES ASSUME y \notin DOMAIN t PROVE FALSE
    OBVIOUS
  <2>1. v \in DOMAIN r /\ y \in r[v].refs /\ y \in DOMAIN r
    BY <1>6, <1>7, <1>8
  <2>2. PICK a \in S : a.op = "delete" /\ y \in Matches(r, a.where)
    BY <1>6, <2>1
  <2>3. Covered(S, r, i, a) /\ r[y].table = a.where.table /\ (a.where.by = "uuid" => y = a.where.uuid)
    BY <2>2 DEF Covers, S, Matches
  <2>4. Above(r[v].table, r[y].table)
    BY <1>7, <2>1
  <2>5. CASE \E u : /\ a = Delete(ByUuid("Bridge", u))
                    /\ Mutate(All("Open_vSwitch"), "delete", {Known(u)}) \in S
    <3>1. PICK u : a = Delete(ByUuid("Bridge", u)) /\ Mutate(All("Open_vSwitch"), "delete", {Known(u)}) \in S
      BY <2>5
    <3>2. y = u /\ r[y].table = "Bridge"
      BY <2>3, <3>1, ChangeFacts DEF ByUuid
    <3>3. r[v].table = "Open_vSwitch"
      BY <2>4, <3>2 DEF Above
    <3>4. v \in Matches(r, All("Open_vSwitch"))
      BY <2>1, <3>3 DEF Matches, All
    <3>5. PICK m \in S : m = Mutate(All("Open_vSwitch"), "delete", {Known(u)})
      BY <3>1
    <3>6. m.op = "mutate" /\ m.where = All("Open_vSwitch") /\ Known(u) \in m.refs
      BY <3>5, ChangeFacts
    <3> QED
      BY <1>6, <1>8, <3>2, <3>4, <3>6
  <2>6. CASE \E x, u : /\ a = Delete(ByUuid("Port", x)) /\ Only(r, i, x, u)
                       /\ \/ Delete(ByUuid("Bridge", u)) \in S
                          \/ Mutate(ByUuid("Bridge", u), "delete", {Known(x)}) \in S
    <3>1. PICK x, u : /\ a = Delete(ByUuid("Port", x)) /\ Only(r, i, x, u)
                      /\ \/ Delete(ByUuid("Bridge", u)) \in S
                         \/ Mutate(ByUuid("Bridge", u), "delete", {Known(x)}) \in S
      BY <2>6
    <3>2. y = x /\ r[y].table = "Port"
      BY <2>3, <3>1, ChangeFacts DEF ByUuid
    <3>3. v = u /\ r[v].table = "Bridge"
      BY <2>1, <2>4, <3>1, <3>2 DEF Only, Above
    <3>4. v \in Matches(r, ByUuid("Bridge", u))
      BY <2>1, <3>3 DEF Matches, ByUuid
    <3>5. CASE Delete(ByUuid("Bridge", u)) \in S
      <4>1. PICK d \in S : d = Delete(ByUuid("Bridge", u))
        BY <3>5
      <4>2. d.op = "delete" /\ d.where = ByUuid("Bridge", u)
        BY <4>1, ChangeFacts
      <4> QED
        BY <1>6, <1>8, <3>4, <4>2
    <3>6. CASE Mutate(ByUuid("Bridge", u), "delete", {Known(x)}) \in S
      <4>1. PICK m \in S : m = Mutate(ByUuid("Bridge", u), "delete", {Known(x)})
        BY <3>6
      <4>2. m.op = "mutate" /\ m.where = ByUuid("Bridge", u) /\ Known(x) \in m.refs
        BY <4>1, ChangeFacts
      <4> QED
        BY <1>6, <1>8, <3>2, <3>4, <4>2
    <3> QED
      BY <3>1, <3>5, <3>6
  <2>7. CASE \E z, x : /\ a = Delete(ByUuid("Interface", z)) /\ Only(r, i, z, x)
                       /\ Delete(ByUuid("Port", x)) \in S
    <3>1. PICK z, x : /\ a = Delete(ByUuid("Interface", z)) /\ Only(r, i, z, x)
                      /\ Delete(ByUuid("Port", x)) \in S
      BY <2>7
    <3>2. y = z /\ r[y].table = "Interface"
      BY <2>3, <3>1, ChangeFacts DEF ByUuid
    <3>3. v = x /\ r[v].table = "Port"
      BY <2>1, <2>4, <3>1, <3>2 DEF Only, Above
    <3>4. v \in Matches(r, ByUuid("Port", x))
      BY <2>1, <3>3 DEF Matches, ByUuid
    <3>5. PICK d \in S : d = Delete(ByUuid("Port", x))
      BY <3>1
    <3>6. d.op = "delete" /\ d.where = ByUuid("Port", x)
      BY <3>5, ChangeFacts
    <3> QED
      BY <1>6, <1>8, <3>4, <3>6
  <2>8. \A w, how, R : a # Mutate(w, how, R)
    BY <2>2, OpKinds
  <2> QED
    BY <2>3, <2>5, <2>6, <2>7, <2>8 DEF Covered
<1>9. Allowed(Collect(t))
  <2>1. Layered(t)
    BY <1>4 DEF Mid, t
  <2>2. Allowed(r)
    BY DEF Tree
  <2> QED
    BY <1>6, <1>8, <2>1, <2>2, ShrunkAllowed
<1>10. o = Success(end)
  <2>1. Allowed(Collect(end.rows)) /\ ~\E n \in DOMAIN q : q[n].op = "wait"
    BY <1>3, <1>9 DEF t
  <2> QED
    BY <2>1, OutcomeIs DEF end
<1> QED
  BY <1>10 DEF Success

LEMMA BridgeUuidFirst ==
    ASSUME NEW u, NEW P, IsFiniteSet(P), NEW I, IsFiniteSet(I)
    PROVE  LET q == DeleteBridgeUuid(u, P, I) IN q # <<>> /\ q[1].op # "insert"
<1>1. PICK q : q = DeleteBridgeUuid(u, P, I)
  OBVIOUS
<1>2. OpList(q) /\ Range(q) # {}
  <2>1. OpList(q)
    BY <1>1, DeleteBridgeUuidIs
  <2>2. Range(q) = {Mutate(All("Open_vSwitch"), "delete", {Known(u)})}
                       \union {Delete(ByUuid("Interface", y)) : y \in I}
                       \union {Delete(ByUuid("Port", x)) : x \in P}
                       \union {Delete(ByUuid("Bridge", u))}
    BY <1>1, DeleteBridgeUuidIs
  <2>3. Delete(ByUuid("Bridge", u)) \in Range(q)
    BY <2>2
  <2> QED
    BY <2>1, <2>3
<1>3. \A o \in Range(q) : o.op # "insert"
  <2>1. /\ \A w, how, R : Mutate(w, how, R).op # "insert"
        /\ \A w : Delete(w).op # "insert"
    BY OpKinds
  <2>2. Range(q) = {Mutate(All("Open_vSwitch"), "delete", {Known(u)})}
                       \union {Delete(ByUuid("Interface", y)) : y \in I}
                       \union {Delete(ByUuid("Port", x)) : x \in P}
                       \union {Delete(ByUuid("Bridge", u))}
    BY <1>1, DeleteBridgeUuidIs
  <2> QED
    BY <2>1, <2>2
<1>4. 1 \in DOMAIN q
  BY <1>2 DEF OpList, Range
<1>5. q[1] \in Range(q) /\ q # <<>>
  BY <1>4 DEF Range
<1> QED
  BY <1>1, <1>3, <1>5

-----------------------------------------------------------------------------
(* What operations that add make of the rows: they are still there, with   *)
(* their references (to controllers excepted); what was inserted is there, *)
(* and referred to by what was to refer to it.                             *)
Adding(o) == o.op = "insert" \/ (o.op = "mutate" /\ o.how = "insert") \/ o.op = "update"
Given(q, s, m) == s.given[q[m].as]

Stays(x, y, r) == SameRow(x, y) /\ \A z \in x.refs : z \in DOMAIN r /\ r[z].table # "Controller" => z \in y.refs
Kept(r, s) == \A u \in DOMAIN r : u \in DOMAIN s.rows /\ Stays(r[u], s.rows[u], r)
There(q, n, s) ==
    \A m \in 1 .. n : q[m].op = "insert" =>
        /\ q[m].as \in DOMAIN s.given /\ Given(q, s, m) \in DOMAIN s.rows
        /\ SameRow(q[m].row, s.rows[Given(q, s, m)])
Parented(q, n, s) ==
    \A m \in 1 .. n : \A t : q[m].op = "insert" /\ After(q, m, t) /\ t # "Controller" =>
        Given(q, s, m - 1) \in s.rows[Given(q, s, m)].refs
Seen(r, q, m, s, u) == u \in DOMAIN r \/ \E l \in 1 .. m - 1 : q[l].op = "insert" /\ u = Given(q, s, l)
Adopted(r, q, n, s) ==
    \A m \in 1 .. n : \A t : q[m].op = "mutate" /\ After(q, m, t) /\ t # "Controller" =>
        \A u \in Matches(s.rows, q[m].where) :
            Seen(r, q, m, s, u) => Given(q, s, m - 1) \in s.rows[u].refs
NoOthers(r, q, n, s) ==
    \A u \in DOMAIN s.rows : u \in DOMAIN r \/ \E m \in 1 .. n : q[m].op = "insert" /\ u = Given(q, s, m)
Grown(r, q, n, s) ==
    Kept(r, s) /\ There(q, n, s) /\ Parented(q, n, s) /\ Adopted(r, q, n, s) /\ NoOthers(r, q, n, s)

(* The operation before is an insert, and among the first n.               *)
LEMMA AfterIs ==
    ASSUME NEW q, OpList(q), NEW n \in Nat, n \in DOMAIN q, NEW m \in 1 .. n, NEW t, After(q, m, t)
    PROVE  /\ m - 1 \in 1 .. n - 1 /\ q[m - 1].op = "insert" /\ q[m - 1].row.table = t
           /\ q[m].refs = {Named(q[m - 1].as)} /\ \A s : Uuids(s, q[m]) = {Given(q, s, m - 1)}
<1>1. m - 1 \in DOMAIN q /\ DOMAIN q = 1 .. Len(q) /\ Len(q) \in Nat
  BY DEF After, OpList
<1>2. m - 1 \in 1 .. n - 1 /\ q[m - 1].op = "insert" /\ q[m - 1].row.table = t
      /\ q[m].refs = {Named(q[m - 1].as)}
  BY <1>1 DEF After
<1>3. \A s : Uuids(s, q[m]) = {s.given[q[m - 1].as]}
  BY <1>2 DEF Uuids, Named
<1> QED
  BY <1>2, <1>3 DEF Given

LEMMA GrownInsert ==
    ASSUME NEW r, NEW i, NEW q, Linked(q), NEW l, Numbered(q, 0, l), NEW n \in Nat, n + 1 \in DOMAIN q,
           NEW s, Mid(r, i, q, n, s), Grown(r, q, n, s), q[n + 1].op = "insert"
    PROVE  Grown(r, q, n + 1, Do(s, q[n + 1]))
<1> DEFINE o == q[n + 1]
           t == Do(s, o)
<1>1. OpList(q) /\ IsRow(o.row)
  BY DEF Linked, Link
<1>2. s.next \notin DOMAIN s.rows
  BY DEF Mid, Below
<1>3. /\ IsState(t) /\ t.next = s.next + 1
      /\ t.given = Extend(s.given, [k \in {o.as} |-> s.next])
      /\ DOMAIN t.rows = DOMAIN s.rows \union {s.next}
      /\ \A u \in DOMAIN s.rows : t.rows[u] = s.rows[u]
      /\ IsRow(t.rows[s.next]) /\ SameRow(o.row, t.rows[s.next]) /\ t.rows[s.next].refs = Uuids(s, o)
  <2>1. o.op = "insert"
    OBVIOUS
  <2> HIDE DEF o
  <2> QED
    BY <1>1, <1>2, <2>1, Inserted, SMTT(30), ZenonT(30)
<1>4. o.as \notin DOMAIN s.given
  <2> SUFFICES ASSUME NEW m \in 1 .. n, q[m].op = "insert", q[m].as = o.as PROVE FALSE
    BY DEF Mid, NamesGiven
  <2>1. m \in DOMAIN q /\ m < n + 1
    BY <1>1 DEF OpList
  <2> QED
    BY <2>1 DEF Numbered
<1>5. /\ DOMAIN t.given = DOMAIN s.given \union {o.as} /\ t.given[o.as] = s.next
      /\ \A k \in DOMAIN s.given : t.given[k] = s.given[k]
  BY <1>3, <1>4 DEF Extend
<1>6. \A m \in 1 .. n + 1 : m \in 1 .. n \/ m = n + 1
  OBVIOUS
<1>7. o.op = "insert" /\ Given(q, t, n + 1) = s.next
  BY <1>5 DEF Given
<1> HIDE DEF t
<1>8. There(q, n, s) /\ \A m \in 1 .. n : q[m].op = "insert" => Given(q, t, m) = Given(q, s, m)
  BY <1>5 DEF Grown, There, Given
<1>9. Kept(r, t)
  BY <1>3 DEF Grown, Kept
<1>10. There(q, n + 1, t)
  <2>1. ASSUME NEW m \in 1 .. n, q[m].op = "insert"
        PROVE  /\ q[m].as \in DOMAIN t.given /\ Given(q, t, m) \in DOMAIN t.rows
               /\ SameRow(q[m].row, t.rows[Given(q, t, m)])
    BY <1>3, <1>5, <1>8, <2>1 DEF There
  <2>2. /\ o.as \in DOMAIN t.given /\ Given(q, t, n + 1) \in DOMAIN t.rows
        /\ SameRow(o.row, t.rows[Given(q, t, n + 1)])
    BY <1>3, <1>5, <1>7
  <2> QED
    BY <1>6, <2>1, <2>2 DEF There
<1>11. Parented(q, n + 1, t)
  <2> SUFFICES ASSUME NEW m \in 1 .. n + 1, NEW c, q[m].op = "insert", After(q, m, c), c # "Controller"
               PROVE  Given(q, t, m - 1) \in t.rows[Given(q, t, m)].refs
    BY DEF Parented
  <2>1. /\ m - 1 \in 1 .. n /\ q[m - 1].op = "insert"
        /\ Uuids(s, q[m]) = {Given(q, s, m - 1)}
    BY <1>1, AfterIs
  <2>2. Given(q, t, m - 1) = Given(q, s, m - 1)
    BY <1>8, <2>1
  <2>3. CASE m = n + 1
    BY <1>3, <1>7, <2>1, <2>2, <2>3
  <2>4. CASE m \in 1 .. n
    <3>1. Given(q, s, m - 1) \in s.rows[Given(q, s, m)].refs
      BY <2>4 DEF Grown, Parented
    <3>2. Given(q, t, m) = Given(q, s, m) /\ Given(q, s, m) \in DOMAIN s.rows
      BY <1>8, <2>4 DEF There
    <3> QED
      BY <1>3, <2>2, <3>1, <3>2
  <2> QED
    BY <1>6, <2>3, <2>4
<1>12. Adopted(r, q, n + 1, t)
  <2> SUFFICES ASSUME NEW m \in 1 .. n + 1, NEW c, q[m].op = "mutate", After(q, m, c), c # "Controller",
                      NEW u \in Matches(t.rows, q[m].where), Seen(r, q, m, t, u)
               PROVE  Given(q, t, m - 1) \in t.rows[u].refs
    BY DEF Adopted
  <2>1. m \in 1 .. n
    BY <1>6, <1>7
  <2>2. m - 1 \in 1 .. n /\ q[m - 1].op = "insert"
    BY <1>1, AfterIs
  <2>3. Seen(r, q, m, s, u) /\ u \in DOMAIN s.rows
    <3>1. CASE u \in DOMAIN r
      BY <3>1 DEF Seen, Grown, Kept
    <3>2. CASE \E j \in 1 .. m - 1 : q[j].op = "insert" /\ u = Given(q, t, j)
      <4>1. PICK j \in 1 .. m - 1 : q[j].op = "insert" /\ u = Given(q, t, j)
        BY <3>2
      <4>2. j \in 1 .. n
        BY <2>1
      <4>3. u = Given(q, s, j) /\ Given(q, s, j) \in DOMAIN s.rows
        BY <1>8, <4>1, <4>2 DEF There
      <4> QED
        BY <4>1, <4>3 DEF Seen
    <3> QED
      BY <3>1, <3>2 DEF Seen
  <2>4. u \in Matches(s.rows, q[m].where)
    BY <1>3, <2>3 DEF Matches
  <2>5. Given(q, s, m - 1) \in s.rows[u].refs
    BY <2>1, <2>3, <2>4 DEF Grown, Adopted
  <2> QED
    BY <1>3, <1>8, <2>2, <2>3, <2>5
<1>13. NoOthers(r, q, n + 1, t)
  <2> SUFFICES ASSUME NEW u \in DOMAIN t.rows, u \notin DOMAIN r
               PROVE  \E m \in 1 .. n + 1 : q[m].op = "insert" /\ u = Given(q, t, m)
    BY DEF NoOthers
  <2>1. CASE u = s.next
    <3>1. n + 1 \in 1 .. n + 1
      OBVIOUS
    <3> QED
      BY <1>7, <2>1, <3>1
  <2>2. CASE u \in DOMAIN s.rows
    <3>1. PICK m \in 1 .. n : q[m].op = "insert" /\ u = Given(q, s, m)
      BY <2>2 DEF Grown, NoOthers
    <3> QED
      BY <1>8, <3>1
  <2> QED
    BY <1>3, <2>1, <2>2
<1> QED
  BY <1>9, <1>10, <1>11, <1>12, <1>13 DEF Grown, t

LEMMA GrownChange ==
    ASSUME NEW r, NEW i, NEW q, Linked(q), NEW n \in Nat, n + 1 \in DOMAIN q,
           NEW s, Mid(r, i, q, n, s), Grown(r, q, n, s), Adding(q[n + 1]), q[n + 1].op # "insert"
    PROVE  Grown(r, q, n + 1, Do(s, q[n + 1]))
<1> DEFINE o == q[n + 1]
           t == Do(s, o)
<1>1. OpList(q) /\ IsState(s) /\ \A u \in DOMAIN s.rows : IsRow(s.rows[u])
  BY DEF Linked, Mid, Layered
<1>2. /\ t.given = s.given /\ DOMAIN t.rows = DOMAIN s.rows
      /\ \A u \in DOMAIN s.rows : SameRow(s.rows[u], t.rows[u])
      /\ \A u \in DOMAIN s.rows \ Matches(s.rows, o.where) : t.rows[u].refs = s.rows[u].refs
      /\ \A u \in Matches(s.rows, o.where) : t.rows[u].refs = NewRefs(s, o, u)
  <2>1. o.op \in {"mutate", "update"}
    BY DEF Adding
  <2> QED
    BY <1>1, <2>1, Changed
<1>3. /\ \A u \in Matches(s.rows, o.where) : o.op = "mutate" => Uuids(s, o) \subseteq t.rows[u].refs
      /\ \A u \in DOMAIN s.rows : \A y \in s.rows[u].refs : y \notin Controllers(s.rows) => y \in t.rows[u].refs
  BY <1>2 DEF NewRefs, Adding
<1>4. \A m \in 1 .. n + 1 : m \in 1 .. n \/ m = n + 1
  OBVIOUS
<1>5. \A m : Given(q, t, m) = Given(q, s, m)
  BY <1>2 DEF Given
<1>6. o.op # "insert"
  OBVIOUS
<1> HIDE DEF t
<1>7. There(q, n, s) /\ Kept(r, s)
  BY DEF Grown
<1>8. Kept(r, t)
  <2> SUFFICES ASSUME NEW u \in DOMAIN r PROVE u \in DOMAIN t.rows /\ Stays(r[u], t.rows[u], r)
    BY DEF Kept
  <2>1. u \in DOMAIN s.rows /\ Stays(r[u], s.rows[u], r)
    BY <1>7 DEF Kept
  <2>2. SameRow(r[u], t.rows[u])
    BY <1>2, <2>1 DEF Stays, SameRow
  <2>3. \A z \in r[u].refs : z \in DOMAIN r /\ r[z].table # "Controller" => z \in t.rows[u].refs
    <3> SUFFICES ASSUME NEW z \in r[u].refs, z \in DOMAIN r, r[z].table # "Controller"
                 PROVE  z \in t.rows[u].refs
      OBVIOUS
    <3>1. z \in s.rows[u].refs
      BY <2>1 DEF Stays
    <3>2. z \notin Controllers(s.rows)
      BY <1>7 DEF Kept, Stays, SameRow, Controllers
    <3> QED
      BY <1>3, <2>1, <3>1, <3>2
  <2> QED
    BY <1>2, <2>1, <2>2, <2>3 DEF Stays
<1>9. There(q, n + 1, t)
  <2>1. ASSUME NEW m \in 1 .. n, q[m].op = "insert"
        PROVE  /\ q[m].as \in DOMAIN t.given /\ Given(q, t, m) \in DOMAIN t.rows
               /\ SameRow(q[m].row, t.rows[Given(q, t, m)])
    BY <1>2, <1>5, <1>7, <2>1 DEF There, SameRow
  <2> QED
    BY <1>4, <1>6, <2>1 DEF There
(* What was inserted as another row than a controller is still referred to. *)
<1>10. ASSUME NEW m \in 1 .. n + 1, NEW c, After(q, m, c), c # "Controller",
              NEW u \in DOMAIN s.rows, Given(q, s, m - 1) \in s.rows[u].refs
       PROVE  Given(q, t, m - 1) \in t.rows[u].refs
  <2>1. m - 1 \in 1 .. n /\ q[m - 1].op = "insert" /\ q[m - 1].row.table = c
    BY <1>1, <1>10, AfterIs
  <2>2. Given(q, s, m - 1) \notin Controllers(s.rows)
    BY <1>7, <1>10, <2>1 DEF There, SameRow, Controllers
  <2> QED
    BY <1>3, <1>5, <1>10, <2>2
<1>11. Parented(q, n + 1, t)
  <2> SUFFICES ASSUME NEW m \in 1 .. n + 1, NEW c, q[m].op = "insert", After(q, m, c), c # "Controller"
               PROVE  Given(q, t, m - 1) \in t.rows[Given(q, t, m)].refs
    BY DEF Parented
  <2>1. m \in 1 .. n
    BY <1>4, <1>6
  <2>2. Given(q, s, m) \in DOMAIN s.rows /\ Given(q, s, m - 1) \in s.rows[Given(q, s, m)].refs
    BY <1>7, <2>1 DEF Grown, Parented, There
  <2>3. Given(q, t, m - 1) \in t.rows[Given(q, s, m)].refs
    BY <1>10, <2>2
  <2> QED
    BY <1>5, <2>3
<1>12. Adopted(r, q, n + 1, t)
  <2> SUFFICES ASSUME NEW m \in 1 .. n + 1, NEW c, q[m].op = "mutate", After(q, m, c), c # "Controller",
                      NEW u \in Matches(t.rows, q[m].where), Seen(r, q, m, t, u)
               PROVE  Given(q, t, m - 1) \in t.rows[u].refs
    BY DEF Adopted
  <2>1. u \in Matches(s.rows, q[m].where) /\ u \in DOMAIN s.rows
    BY <1>2 DEF Matches, SameRow
  <2>2. CASE m = n + 1
    <3>1. Uuids(s, o) = {Given(q, s, n)} /\ m - 1 = n /\ o.op = "mutate"
      BY <1>1, <2>2, AfterIs
    <3>2. Uuids(s, o) \subseteq t.rows[u].refs
      BY <1>3, <2>1, <2>2, <3>1
    <3> QED
      BY <1>5, <3>1, <3>2
  <2>3. CASE m \in 1 .. n
    <3>1. Seen(r, q, m, s, u)
      BY <1>5 DEF Seen
    <3>2. Given(q, s, m - 1) \in s.rows[u].refs
      BY <2>1, <2>3, <3>1 DEF Grown, Adopted
    <3> QED
      BY <1>10, <2>1, <3>2
  <2> QED
    BY <1>4, <2>2, <2>3
<1>13. NoOthers(r, q, n + 1, t)
  <2> SUFFICES ASSUME NEW u \in DOMAIN t.rows, u \notin DOMAIN r
               PROVE  \E m \in 1 .. n + 1 : q[m].op = "insert" /\ u = Given(q, t, m)
    BY DEF NoOthers
  <2>1. PICK m \in 1 .. n : q[m].op = "insert" /\ u = Given(q, s, m)
    BY <1>2 DEF Grown, NoOthers
  <2> QED
    BY <1>5, <2>1
<1> QED
  BY <1>8, <1>9, <1>11, <1>12, <1>13 DEF Grown, t

LEMMA GrownAll ==
    ASSUME NEW r, NEW i, Tree(r, i), NEW q, Linked(q), NEW l, Numbered(q, 0, l),
           \A n \in DOMAIN q : Adding(q[n])
    PROVE  LET end == FoldLeft(Do, Start(r, i), q)
           IN  Grown(r, q, Len(q), end) /\ Mid(r, i, q, Len(q), end)
<1> DEFINE b == Start(r, i)
<1>1. OpList(q) /\ DOMAIN q = 1 .. Len(q) /\ Len(q) \in Nat
  BY DEF Linked, OpList
<1>2. PICK E : Runs(E, b, q)
  BY <1>1, RunExists
<1>3. \A n \in 0 .. Len(q) : Mid(r, i, q, n, E[n])
  BY <1>2, MidAll
<1> DEFINE D == {n \in Nat : n <= Len(q) => Grown(r, q, n, E[n])}
<1>4. 0 \in D
  <2>1. E[0].rows = r
    BY <1>2 DEF Runs, Start
  <2> QED
    BY <2>1 DEF Grown, Kept, Stays, SameRow, There, Parented, Adopted, NoOthers
<1>5. ASSUME NEW n \in Nat, n \in D PROVE n + 1 \in D
  <2> SUFFICES ASSUME n + 1 <= Len(q) PROVE Grown(r, q, n + 1, E[n + 1])
    OBVIOUS
  <2>1. n + 1 \in DOMAIN q /\ Grown(r, q, n, E[n]) /\ Mid(r, i, q, n, E[n]) /\ Adding(q[n + 1])
    BY <1>1, <1>3, <1>5
  <2>2. E[n + 1] = Do(E[n], q[n + 1])
    BY <1>2, <2>1 DEF Runs
  <2> HIDE DEF D
  <2> QED
    BY <2>1, <2>2, GrownInsert, GrownChange
<1> HIDE DEF D
<1>6. Nat \subseteq D
  BY <1>4, <1>5, Doing!NatSetInduction
<1>7. Grown(r, q, Len(q), E[Len(q)]) /\ Mid(r, i, q, Len(q), E[Len(q)])
  BY <1>1, <1>3, <1>6 DEF D
<1> QED
  BY <1>2, <1>7 DEF Runs

-----------------------------------------------------------------------------
(* The operations of a bridge and of a port, at place m.                   *)
BridgeAt(q, m, b) ==
    /\ m \in DOMAIN q /\ m + 1 \in DOMAIN q /\ m + 2 \in DOMAIN q /\ m + 3 \in DOMAIN q
    /\ q[m].op = "insert" /\ q[m].row.table = "Interface" /\ q[m].row.name = b /\ q[m].row.peer = NoName
    /\ q[m + 1].op = "insert" /\ q[m + 1].row.table = "Port" /\ q[m + 1].row.name = b
    /\ q[m + 2].op = "insert" /\ q[m + 2].row.table = "Bridge" /\ q[m + 2].row.name = b
    /\ q[m + 3].op = "mutate" /\ q[m + 3].where = All("Open_vSwitch")
    /\ After(q, m + 1, "Interface") /\ After(q, m + 2, "Port") /\ After(q, m + 3, "Bridge")
PortAt(q, m, b, p, peer) ==
    /\ m \in DOMAIN q /\ m + 1 \in DOMAIN q /\ m + 2 \in DOMAIN q
    /\ q[m].op = "insert" /\ q[m].row.table = "Interface" /\ q[m].row.name = p /\ q[m].row.peer = peer
    /\ q[m + 1].op = "insert" /\ q[m + 1].row.table = "Port" /\ q[m + 1].row.name = p
    /\ q[m + 2].op = "mutate" /\ q[m + 2].where = ByName("Bridge", b)
    /\ After(q, m + 1, "Interface") /\ After(q, m + 2, "Port")

(* A bridge, registered, that has a port with an interface.                *)
Hung(c, u, b, x, p, i, peer) ==
    /\ u \in c[0].refs /\ c[u].table = "Bridge" /\ c[u].name = b
    /\ x \in c[u].refs /\ c[x].table = "Port" /\ c[x].name = p
    /\ i \in c[x].refs /\ c[i].table = "Interface" /\ c[i].name = p /\ c[i].peer = peer

(* The server has done them all, and commits.                              *)
Landing(r, i, q, s) ==
    /\ Tree(r, i) /\ OpList(q) /\ Mid(r, i, q, Len(q), s) /\ Grown(r, q, Len(q), s)
    /\ Tree(Collect(s.rows), s.next)

LEMMA LandingFacts ==
    ASSUME NEW r, NEW i, NEW q, NEW s, Landing(r, i, q, s)
    PROVE  /\ Len(q) \in Nat /\ DOMAIN q = 1 .. Len(q)
           /\ \A u \in DOMAIN s.rows : u \in Reached(s.rows) =>
                 u \in DOMAIN Collect(s.rows) /\ Collect(s.rows)[u] = s.rows[u]
           /\ 0 \in DOMAIN s.rows /\ 0 \in Reached(s.rows) /\ s.rows[0].table = "Open_vSwitch"
           /\ \A u \in DOMAIN s.rows : u \in Reached(s.rows) => s.rows[u].refs \subseteq Reached(s.rows)
<1>1. OpList(q) /\ Layered(s.rows)
  BY DEF Landing, Mid
<1>2. Len(q) \in Nat /\ DOMAIN q = 1 .. Len(q)
  BY <1>1 DEF OpList
<1>3. 0 \in Reached(s.rows)
  BY ReachedIs, OnwardFacts
<1>4. \A u \in DOMAIN s.rows : u \in Reached(s.rows) => s.rows[u].refs \subseteq Reached(s.rows)
  BY <1>1, ReachedOnwards
<1>5. 0 \in DOMAIN s.rows /\ s.rows[0].table = "Open_vSwitch"
  BY <1>1 DEF Layered
<1> QED
  BY <1>2, <1>3, <1>4, <1>5, KeptFacts

(* An insert's row, and the row that the next insert made refers to it.    *)
LEMMA InsertLands ==
    ASSUME NEW r, NEW i, NEW q, NEW s, Landing(r, i, q, s), NEW m \in DOMAIN q, q[m].op = "insert"
    PROVE  LET g == Given(q, s, m)
           IN  /\ g \in DOMAIN s.rows /\ SameRow(q[m].row, s.rows[g])
               /\ \A t : After(q, m, t) /\ t # "Controller" => Given(q, s, m - 1) \in s.rows[g].refs
<1>1. m \in 1 .. Len(q)
  BY LandingFacts
<1>2. There(q, Len(q), s) /\ Parented(q, Len(q), s)
  BY DEF Landing, Grown
<1> QED
  BY <1>1, <1>2 DEF There, Parented

LEMMA BridgeLands ==
    ASSUME NEW r, NEW i, NEW q, NEW s, Landing(r, i, q, s), NEW m, NEW b, BridgeAt(q, m, b)
    PROVE  Hung(Collect(s.rows), Given(q, s, m + 2), b, Given(q, s, m + 1), b, Given(q, s, m), NoName)
<1> DEFINE k == Collect(s.rows)
           y == Given(q, s, m)
           x == Given(q, s, m + 1)
           u == Given(q, s, m + 2)
<1>1. m \in Nat /\ DOMAIN q = 1 .. Len(q) /\ Len(q) \in Nat /\ (m + 1) - 1 = m /\ (m + 2) - 1 = m + 1 /\ (m + 3) - 1 = m + 2
  BY LandingFacts DEF BridgeAt
<1>2. y \in DOMAIN s.rows /\ SameRow(q[m].row, s.rows[y])
  BY InsertLands DEF BridgeAt
<1>3. x \in DOMAIN s.rows /\ SameRow(q[m + 1].row, s.rows[x]) /\ y \in s.rows[x].refs
  BY <1>1, InsertLands DEF BridgeAt
<1>4. u \in DOMAIN s.rows /\ SameRow(q[m + 2].row, s.rows[u]) /\ x \in s.rows[u].refs
  BY <1>1, InsertLands DEF BridgeAt
<1>5. u \in s.rows[0].refs
  <2>1. m + 3 \in 1 .. Len(q) /\ q[m + 3].op = "mutate" /\ After(q, m + 3, "Bridge")
        /\ q[m + 3].where = All("Open_vSwitch")
    BY <1>1 DEF BridgeAt
  <2>2. 0 \in Matches(s.rows, q[m + 3].where)
    BY <2>1, LandingFacts DEF Matches, All
  <2>3. Seen(r, q, m + 3, s, 0)
    BY DEF Landing, Tree, Layered, Seen
  <2>4. Adopted(r, q, Len(q), s)
    BY DEF Landing, Grown
  <2> QED
    BY <1>1, <2>1, <2>2, <2>3, <2>4 DEF Adopted
<1> HIDE DEF u, x, y
<1>6. /\ 0 \in DOMAIN k /\ k[0] = s.rows[0] /\ u \in DOMAIN k /\ k[u] = s.rows[u]
      /\ x \in DOMAIN k /\ k[x] = s.rows[x] /\ y \in DOMAIN k /\ k[y] = s.rows[y]
  <2>1. u \in Reached(s.rows)
    BY <1>5, LandingFacts
  <2>2. x \in Reached(s.rows)
    BY <1>4, <2>1, LandingFacts
  <2>3. y \in Reached(s.rows)
    BY <1>3, <2>2, LandingFacts
  <2> QED
    BY <1>2, <1>3, <1>4, <2>1, <2>2, <2>3, LandingFacts
<1> HIDE DEF k
<1>7. Hung(k, u, b, x, b, y, NoName)
  BY <1>2, <1>3, <1>4, <1>5, <1>6 DEF Hung, SameRow, BridgeAt
<1> QED
  BY <1>7 DEF k, u, x, y

(* A port lands in a bridge that was there, or was inserted before.        *)
LEMMA PortLands ==
    ASSUME NEW r, NEW i, NEW q, NEW s, Landing(r, i, q, s), NEW m, NEW b, NEW p, NEW peer, PortAt(q, m, b, p, peer),
           NEW u, u \in s.rows[0].refs, u \in Matches(s.rows, ByName("Bridge", b)), Seen(r, q, m + 2, s, u)
    PROVE  Hung(Collect(s.rows), u, b, Given(q, s, m + 1), p, Given(q, s, m), peer)
<1> DEFINE k == Collect(s.rows)
           y == Given(q, s, m)
           x == Given(q, s, m + 1)
<1>1. m \in Nat /\ DOMAIN q = 1 .. Len(q) /\ Len(q) \in Nat /\ (m + 1) - 1 = m /\ (m + 2) - 1 = m + 1
  BY LandingFacts DEF PortAt
<1>2. y \in DOMAIN s.rows /\ SameRow(q[m].row, s.rows[y])
  BY InsertLands DEF PortAt
<1>3. x \in DOMAIN s.rows /\ SameRow(q[m + 1].row, s.rows[x]) /\ y \in s.rows[x].refs
  BY <1>1, InsertLands DEF PortAt
<1>4. x \in s.rows[u].refs
  <2>1. m + 2 \in 1 .. Len(q) /\ q[m + 2].op = "mutate" /\ After(q, m + 2, "Port")
        /\ u \in Matches(s.rows, q[m + 2].where)
    BY <1>1 DEF PortAt
  <2>2. Adopted(r, q, Len(q), s)
    BY DEF Landing, Grown
  <2> QED
    BY <1>1, <2>1, <2>2 DEF Adopted
<1>5. u \in DOMAIN s.rows /\ s.rows[u].table = "Bridge" /\ s.rows[u].name = b
  BY DEF Matches, ByName
<1> HIDE DEF x, y
<1>6. /\ 0 \in DOMAIN k /\ k[0] = s.rows[0] /\ u \in DOMAIN k /\ k[u] = s.rows[u]
      /\ x \in DOMAIN k /\ k[x] = s.rows[x] /\ y \in DOMAIN k /\ k[y] = s.rows[y]
  <2>1. u \in Reached(s.rows)
    BY LandingFacts
  <2>2. x \in Reached(s.rows)
    BY <1>4, <1>5, <2>1, LandingFacts
  <2>3. y \in Reached(s.rows)
    BY <1>3, <2>2, LandingFacts
  <2> QED
    BY <1>2, <1>3, <1>5, <2>1, <2>2, <2>3, LandingFacts
<1> HIDE DEF k
<1>7. Hung(k, u, b, x, p, y, peer)
  BY <1>2, <1>3, <1>4, <1>5, <1>6 DEF Hung, SameRow, PortAt
<1> QED
  BY <1>7 DEF k, x, y

(* A bridge is registered.                                                 *)
LEMMA Registered ==
    ASSUME NEW r, NEW i, Tree(r, i), NEW u \in DOMAIN r, r[u].table = "Bridge"
    PROVE  u \in r[0].refs
<1> DEFINE S1 == Onward(r, {0})
           S2 == Onward(r, S1)
<1>1. u \in Onward(r, S2)
  BY ReachedIs DEF Tree
<1>2. u # 0 /\ \A v \in DOMAIN r : u \in r[v].refs => v = 0
  BY DEF Tree, Layered, Above
<1>3. u \in S2 \/ \E v \in DOMAIN r : u \in r[v].refs
  BY <1>1, OnwardFacts
<1>4. u \in S2 => u \in S1 \/ \E v \in DOMAIN r : u \in r[v].refs
  BY OnwardFacts
<1>5. u \in S1 => \E v \in DOMAIN r : u \in r[v].refs
  BY <1>2, OnwardFacts
<1> QED
  BY <1>2, <1>3, <1>4, <1>5

LEMMA OldBridge ==
    ASSUME NEW r, NEW i, NEW q, NEW s, Landing(r, i, q, s), NEW u \in DOMAIN r, r[u].table = "Bridge"
    PROVE  u \in s.rows[0].refs /\ u \in Matches(s.rows, ByName("Bridge", r[u].name))
<1>1. u \in r[0].refs /\ 0 \in DOMAIN r
  BY Registered DEF Landing, Tree, Layered
<1>2. Kept(r, s)
  BY DEF Landing, Grown
<1>3. u \in s.rows[0].refs
  BY <1>1, <1>2 DEF Kept, Stays
<1>4. u \in DOMAIN s.rows /\ SameRow(r[u], s.rows[u])
  BY <1>2 DEF Kept, Stays
<1> QED
  BY <1>3, <1>4 DEF Matches, ByName, SameRow

LEMMA NewBridge ==
    ASSUME NEW r, NEW i, NEW q, NEW s, Landing(r, i, q, s), NEW f, NEW b, BridgeAt(q, f, b),
           NEW m \in Nat, f + 3 < m
    PROVE  LET u == Given(q, s, f + 2)
           IN  u \in s.rows[0].refs /\ u \in Matches(s.rows, ByName("Bridge", b)) /\ Seen(r, q, m, s, u)
<1> DEFINE u == Given(q, s, f + 2)
<1>1. Hung(Collect(s.rows), u, b, Given(q, s, f + 1), b, Given(q, s, f), NoName)
  BY BridgeLands
<1>2. f \in Nat \ {0}
  BY LandingFacts DEF BridgeAt
<1>3. u \in DOMAIN s.rows /\ SameRow(q[f + 2].row, s.rows[u])
  BY InsertLands DEF BridgeAt
<1>4. f + 2 \in 1 .. m - 1 /\ q[f + 2].op = "insert"
  BY <1>2 DEF BridgeAt
<1>5. Seen(r, q, m, s, u)
  BY <1>4 DEF Seen
<1>6. Collect(s.rows)[0] = s.rows[0]
  BY LandingFacts
<1> HIDE DEF u
<1>7. u \in s.rows[0].refs
  BY <1>1, <1>6 DEF Hung
<1>8. u \in Matches(s.rows, ByName("Bridge", b))
  BY <1>3 DEF Matches, ByName, SameRow, BridgeAt
<1> QED
  BY <1>5, <1>7, <1>8 DEF u

-----------------------------------------------------------------------------
(* Where the helpers put them.                                             *)
LEMMA AtConcat ==
    ASSUME NEW p, NEW q, OpList(p), OpList(q)
    PROVE  /\ \A m, b : BridgeAt(p, m, b) => BridgeAt(p \o q, m, b)
           /\ \A m, b, n, peer : PortAt(p, m, b, n, peer) => PortAt(p \o q, m, b, n, peer)
           /\ \A m, b : BridgeAt(q, m, b) => BridgeAt(p \o q, Len(p) + m, b)
           /\ \A m, b, n, peer : PortAt(q, m, b, n, peer) => PortAt(p \o q, Len(p) + m, b, n, peer)
<1>1. PICK pq : pq = p \o q
  OBVIOUS
<1>2. /\ DOMAIN pq = 1 .. Len(p) + Len(q)
      /\ \A n \in DOMAIN p : pq[n] = p[n]
      /\ \A n \in DOMAIN q : pq[Len(p) + n] = q[n]
  BY <1>1, ConcatIs
<1>3. /\ Len(p) \in Nat /\ DOMAIN p = 1 .. Len(p) /\ Len(q) \in Nat /\ DOMAIN q = 1 .. Len(q)
  BY DEF OpList
<1>4. \A n \in DOMAIN p : n \in DOMAIN pq
  BY <1>2, <1>3
<1>5. \A n \in DOMAIN q : Len(p) + n \in DOMAIN pq
  BY <1>2, <1>3
<1>6. \A m \in DOMAIN p : \A t : After(p, m, t) => After(pq, m, t)
  BY <1>2, <1>4 DEF After
<1>7. \A m \in DOMAIN q : \A t : After(q, m, t) => After(pq, Len(p) + m, t)
  <2> SUFFICES ASSUME NEW m \in DOMAIN q, NEW t, After(q, m, t) PROVE After(pq, Len(p) + m, t)
    OBVIOUS
  <2>1. m - 1 \in DOMAIN q /\ (Len(p) + m) - 1 = Len(p) + (m - 1)
    BY <1>3 DEF After
  <2> QED
    BY <1>2, <1>5, <2>1 DEF After
<1>8. \A m, b : BridgeAt(p, m, b) => BridgeAt(pq, m, b)
  BY <1>2, <1>4, <1>6 DEF BridgeAt
<1>9. \A m, b, n, peer : PortAt(p, m, b, n, peer) => PortAt(pq, m, b, n, peer)
  BY <1>2, <1>4, <1>6 DEF PortAt
<1>10. ASSUME NEW m, NEW b, BridgeAt(q, m, b) PROVE BridgeAt(pq, Len(p) + m, b)
  <2>1. (Len(p) + m) + 1 = Len(p) + (m + 1) /\ (Len(p) + m) + 2 = Len(p) + (m + 2)
        /\ (Len(p) + m) + 3 = Len(p) + (m + 3)
    <3>1. m \in Nat
      BY <1>3, <1>10 DEF BridgeAt
    <3> QED
      BY <1>3, <3>1
  <2> QED
    BY <1>2, <1>5, <1>7, <1>10, <2>1 DEF BridgeAt
<1>11. ASSUME NEW m, NEW b, NEW n, NEW peer, PortAt(q, m, b, n, peer) PROVE PortAt(pq, Len(p) + m, b, n, peer)
  <2>1. (Len(p) + m) + 1 = Len(p) + (m + 1) /\ (Len(p) + m) + 2 = Len(p) + (m + 2)
    <3>1. m \in Nat
      BY <1>3, <1>11 DEF PortAt
    <3> QED
      BY <1>3, <3>1
  <2> QED
    BY <1>2, <1>5, <1>7, <1>11, <2>1 DEF PortAt
<1> QED
  BY <1>1, <1>8, <1>9, <1>10, <1>11

LEMMA CreateBridgeAt == ASSUME NEW k, NEW b PROVE BridgeAt(CreateBridge(k, b), 1, b)
<1>1. PICK x, y, z, w : /\ x = Insert("Interface", b, {}, NoName, k)
                        /\ y = Insert("Port", b, {Named(k)}, NoName, k + 1)
                        /\ z = Insert("Bridge", b, {Named(k + 1)}, NoName, k + 2)
                        /\ w = Mutate(All("Open_vSwitch"), "insert", {Named(k + 2)})
  OBVIOUS
<1>2. PICK q : q = <<x, y, z, w>> /\ q = CreateBridge(k, b)
  BY <1>1 DEF CreateBridge
<1>3. /\ x.op = "insert" /\ x.as = k /\ x.row.table = "Interface" /\ x.row.name = b /\ x.row.peer = NoName
      /\ y.op = "insert" /\ y.as = k + 1 /\ y.row.table = "Port" /\ y.row.name = b /\ y.refs = {Named(k)}
      /\ z.op = "insert" /\ z.as = k + 2 /\ z.row.table = "Bridge" /\ z.row.name = b /\ z.refs = {Named(k + 1)}
      /\ w.op = "mutate" /\ w.where = All("Open_vSwitch") /\ w.refs = {Named(k + 2)}
  BY <1>1, InsertFacts, ChangeFacts
<1>4. DOMAIN q = 1 .. 4 /\ q[1] = x /\ q[2] = y /\ q[3] = z /\ q[4] = w
  BY <1>2
<1>5. After(q, 2, "Interface") /\ After(q, 3, "Port") /\ After(q, 4, "Bridge")
  BY <1>3, <1>4 DEF After
<1>6. BridgeAt(q, 1, b)
  BY <1>3, <1>4, <1>5 DEF BridgeAt
<1> QED
  BY <1>2, <1>6

LEMMA AddPortAt == ASSUME NEW k, NEW b, NEW p, NEW peer PROVE PortAt(AddPort(k, b, p, peer), 1, b, p, peer)
<1>1. PICK x, y, w : /\ x = Insert("Interface", p, {}, peer, k)
                     /\ y = Insert("Port", p, {Named(k)}, NoName, k + 1)
                     /\ w = Mutate(ByName("Bridge", b), "insert", {Named(k + 1)})
  OBVIOUS
<1>2. PICK q : q = <<x, y, w>> /\ q = AddPort(k, b, p, peer)
  BY <1>1 DEF AddPort
<1>3. /\ x.op = "insert" /\ x.as = k /\ x.row.table = "Interface" /\ x.row.name = p /\ x.row.peer = peer
      /\ y.op = "insert" /\ y.as = k + 1 /\ y.row.table = "Port" /\ y.row.name = p /\ y.refs = {Named(k)}
      /\ w.op = "mutate" /\ w.where = ByName("Bridge", b) /\ w.refs = {Named(k + 1)}
  BY <1>1, InsertFacts, ChangeFacts
<1>4. DOMAIN q = 1 .. 3 /\ q[1] = x /\ q[2] = y /\ q[3] = w
  BY <1>2
<1>5. After(q, 2, "Interface") /\ After(q, 3, "Port")
  BY <1>3, <1>4 DEF After
<1>6. PortAt(q, 1, b, p, peer)
  BY <1>3, <1>4, <1>5 DEF PortAt
<1> QED
  BY <1>2, <1>6

(* The helpers that add only do so.                                        *)
OnlyAdds(q) == OpList(q) /\ \A o \in Range(q) : Adding(o)

LEMMA AddsAll == ASSUME NEW q, OnlyAdds(q) PROVE \A n \in DOMAIN q : Adding(q[n])
  BY DEF OnlyAdds, Range

LEMMA AddsTuple ==
    ASSUME NEW x, NEW y, NEW z, NEW w, Adding(x), Adding(y), Adding(z), Adding(w),
           NEW q, q \in {<<x, y, z, w>>, <<x, y, z>>, <<x, y>>}
    PROVE  OnlyAdds(q)
<1>1. x.op \in Kinds /\ y.op \in Kinds /\ z.op \in Kinds /\ w.op \in Kinds
  BY DEF Adding, Kinds
<1>2. OpList(q)
  BY <1>1, FourOps
<1>3. \A n \in DOMAIN q : q[n] \in {x, y, z, w}
  <2>1. CASE q = <<x, y, z, w>>
    BY <2>1
  <2>2. CASE q = <<x, y, z>>
    BY <2>2
  <2>3. CASE q = <<x, y>>
    BY <2>3
  <2> QED
    BY <2>1, <2>2, <2>3
<1>4. \A o \in Range(q) : o \in {x, y, z, w}
  BY <1>3 DEF Range
<1> QED
  BY <1>2, <1>4 DEF OnlyAdds

LEMMA AddsConcat == ASSUME NEW p, NEW q, OnlyAdds(p), OnlyAdds(q) PROVE OnlyAdds(p \o q)
<1>1. PICK pq : pq = p \o q
  OBVIOUS
<1>2. Range(pq) = Range(p) \union Range(q) /\ OpList(pq)
  BY <1>1, ConcatIs, OpListConcat DEF OnlyAdds
<1>3. OnlyAdds(pq)
  BY <1>2 DEF OnlyAdds
<1> QED
  BY <1>1, <1>3

LEMMA HelpersAdd ==
    ASSUME NEW k, NEW b
    PROVE  /\ OnlyAdds(CreateBridge(k, b))
           /\ \A p, peer : OnlyAdds(AddPort(k, b, p, peer))
           /\ \A d : OnlyAdds(AddPatchPorts(k, b, d))
           /\ \A t : OnlyAdds(SetController(k, b, t))
<1>1. /\ \A t, n, rs, peer, as : Adding(Insert(t, n, rs, peer, as))
      /\ \A w, rs : Adding(Mutate(w, "insert", rs))
      /\ \A w, r : Adding(UpdateController(w, r))
  BY InsertFacts, ChangeFacts DEF Adding
<1>2. OnlyAdds(CreateBridge(k, b))
  BY <1>1, AddsTuple DEF CreateBridge
<1>3. \A j, c, p, peer : OnlyAdds(AddPort(j, c, p, peer))
  BY <1>1, AddsTuple DEF AddPort
<1>4. \A d : OnlyAdds(AddPatchPorts(k, b, d))
  BY <1>3, AddsConcat DEF AddPatchPorts
<1>5. \A t : OnlyAdds(SetController(k, b, t))
  BY <1>1, AddsTuple DEF SetController
<1> QED
  BY <1>2, <1>3, <1>4, <1>5

LEMMA AddPatchPortsAt ==
    ASSUME NEW k \in Nat, NEW b, NEW d
    PROVE  LET q == AddPatchPorts(k, b, d)
           IN  PortAt(q, 1, b, b \o d, d \o b) /\ PortAt(q, 4, d, d \o b, b \o d)
<1>1. PICK p : p = AddPort(k, b, b \o d, d \o b)
  OBVIOUS
<1>2. PICK r : r = AddPort(k + 2, d, d \o b, b \o d)
  OBVIOUS
<1>3. OpList(p) /\ OpList(r) /\ Len(p) = 3
  <2>1. Linked(p) /\ Linked(r)
    BY <1>1, <1>2, AddPortBuilt DEF Built
  <2> QED
    BY <1>1, <2>1, AddPortInserts DEF Linked
<1>4. PICK q : q = p \o r
  OBVIOUS
<1>5. PortAt(p, 1, b, b \o d, d \o b) /\ PortAt(r, 1, d, d \o b, b \o d)
  BY <1>1, <1>2, AddPortAt
<1>6. PortAt(q, 1, b, b \o d, d \o b) /\ PortAt(q, Len(p) + 1, d, d \o b, b \o d)
  BY <1>3, <1>4, <1>5, AtConcat
<1>7. q = AddPatchPorts(k, b, d) /\ Len(p) + 1 = 4
  BY <1>1, <1>2, <1>3, <1>4 DEF AddPatchPorts
<1> QED
  BY <1>6, <1>7

(* A database that was just created.                                       *)
LEMMA EmptyTree == Tree(Empty, 1)
<1>1. DOMAIN Empty = {0} /\ Empty[0].refs = {} /\ Empty[0].table = "Open_vSwitch" /\ IsRow(Empty[0])
  BY DEF Empty, IsRow
<1>2. IsFiniteSet({0})
  BY FS_Singleton
<1>3. 0 \in Reached(Empty)
  BY ReachedIs, OnwardFacts
<1>4. Below(Empty, 1) /\ Layered(Empty) /\ OneParent(Empty) /\ Allowed(Empty)
  BY <1>1 DEF Below, Layered, OneParent, Allowed, Leaves
<1> QED
  BY <1>1, <1>2, <1>3, <1>4 DEF Tree
=============================================================================
