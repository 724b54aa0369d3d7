-------------------------- MODULE SmallPartsProofs --------------------------
(***************************************************************************)
(* Theorems about the small parts that keep state of their own: the shared *)
(* OVSDB handle, the port mapper, the reconnect state machine and the      *)
(* scanner of JSON messages.                                               *)
(***************************************************************************)
EXTENDS SmallParts, SequenceTheorems, TLAPS

-----------------------------------------------------------------------------
(* The handle: a guard always has a client, for any number of tasks.       *)

(* The mutex excludes: whoever connects or has a guard is its holder.  The *)
(* order of the queue does not matter.                                     *)
MutexInv ==
    /\ client \in {"None", "up", "lost"}
    /\ pc \in [Tasks -> {"idle", "client", "connecting", "guard", "disconnect"}]
    /\ \A t \in Tasks : holder = t <=> pc[t] \in {"connecting", "guard"}

HandleInv == MutexInv /\ GuardHoldsClient

LEMMA HandleInvInit == Init => HandleInv
  BY TasksAssumption DEF Init, HandleInv, MutexInv, GuardHoldsClient

(* Every step of a task or of the network keeps the invariant.             *)
LEMMA HandleInvNext == HandleInv /\ [Next]_vars => HandleInv'
<1> SUFFICES ASSUME HandleInv, [Next]_vars PROVE HandleInv'
  OBVIOUS
<1> USE TasksAssumption DEF HandleInv, MutexInv, GuardHoldsClient
<1>1. ASSUME NEW t \in Tasks, NEW l \in {"client", "disconnect"}, Call(t, l)
      PROVE  HandleInv'
  BY <1>1 DEF Call, Goto
<1>2. ASSUME NEW t \in Tasks, Check(t)
      PROVE  HandleInv'
  <2>1. \A x \in Tasks : pc[x] \notin {"connecting", "guard"}
    BY <1>2 DEF Check, Lock
  <2>2. CASE IsConnected
    BY <1>2, <2>1, <2>2 DEF Check, Lock, Goto, IsConnected
  <2>3. CASE ~IsConnected
    BY <1>2, <2>1, <2>3 DEF Check, Lock, Goto, IsConnected
  <2> QED
    BY <2>2, <2>3
<1>3. ASSUME NEW t \in Tasks, Connected(t)
      PROVE  HandleInv'
  BY <1>3 DEF Connected, Goto
<1>4. ASSUME NEW t \in Tasks, ConnectFails(t)
      PROVE  HandleInv'
  BY <1>4 DEF ConnectFails, Goto
<1>5. ASSUME NEW t \in Tasks, Release(t)
      PROVE  HandleInv'
  BY <1>5 DEF Release, Goto
<1>6. ASSUME NEW t \in Tasks, Disconnect(t)
      PROVE  HandleInv'
  BY <1>6 DEF Disconnect, Goto
<1>7. ASSUME NEW t \in Tasks, Drop(t)
      PROVE  HandleInv'
  BY <1>7 DEF Drop, Goto
<1>8. CASE Lose
  BY <1>8 DEF Lose
<1>9. CASE UNCHANGED vars
  BY <1>9 DEF vars
<1> QED
  BY <1>1, <1>2, <1>3, <1>4, <1>5, <1>6, <1>7, <1>8, <1>9 DEF Next

(* Whatever tasks call, drop or disconnect, and whenever connections fail  *)
(* or are lost, the task that has a guard finds a Client behind it and is  *)
(* the one holder of the mutex (the expect() in OvsdbGuard cannot fail).   *)
THEOREM GuardsHoldClients == Spec => []GuardHoldsClient
<1>1. HandleInv => GuardHoldsClient
  BY DEF HandleInv
<1> QED
  BY HandleInvInit, HandleInvNext, <1>1, PTL DEF Spec

-----------------------------------------------------------------------------
(* The port mapper: the two maps are each other's inverse as long as       *)
(* nothing moves, for every set of names and ports.                        *)

(* A step of any kind keeps the agreement, which does not need the types.  *)
LEMMA AgreementStep == MapsAgree /\ [MapperNext]_mapper => MapsAgree'
  <1> SUFFICES ASSUME MapsAgree, [MapperNext]_mapper PROVE MapsAgree'
    OBVIOUS
  <1>1. ASSUME NEW n \in Names, NEW p \in OfPorts, Insert(n, p) PROVE MapsAgree'
    <2> SUFFICES ASSUME ~moved, ~Moves(n, p) PROVE MapsAgree'
      BY <1>1 DEF Insert, MapsAgree
    <2>1. /\ DOMAIN name_to_ofport' = DOMAIN name_to_ofport \union {n}
          /\ name_to_ofport'[n] = p
          /\ \A z \in DOMAIN name_to_ofport : z # n => name_to_ofport'[z] = name_to_ofport[z]
      BY <1>1 DEF Insert, Put
    <2>2. /\ DOMAIN ofport_to_name' = DOMAIN ofport_to_name \union {p}
          /\ ofport_to_name'[p] = n
          /\ \A z \in DOMAIN ofport_to_name : z # p => ofport_to_name'[z] = ofport_to_name[z]
      BY <1>1 DEF Insert, Put
    <2>3. ASSUME NEW m \in DOMAIN name_to_ofport, m # n
          PROVE  name_to_ofport[m] # p
      BY <2>3 DEF Moves, MapsAgree
    <2>4. ASSUME NEW q \in DOMAIN ofport_to_name, q # p
          PROVE  ofport_to_name[q] # n
      BY <2>4 DEF Moves, MapsAgree
    <2> QED
      BY <2>1, <2>2, <2>3, <2>4 DEF MapsAgree
  <1>2. ASSUME NEW n \in Names, RemoveByName(n) PROVE MapsAgree'
    <2> SUFFICES ASSUME ~moved PROVE MapsAgree'
      BY <1>2 DEF RemoveByName, MapsAgree
    <2>1. /\ DOMAIN name_to_ofport' = DOMAIN name_to_ofport \ {n}
          /\ \A z \in DOMAIN name_to_ofport : z # n => name_to_ofport'[z] = name_to_ofport[z]
      BY <1>2 DEF RemoveByName, Without
    <2>2. /\ DOMAIN ofport_to_name' = DOMAIN ofport_to_name \ {name_to_ofport[n]}
          /\ \A z \in DOMAIN ofport_to_name :
                 z # name_to_ofport[n] => ofport_to_name'[z] = ofport_to_name[z]
      BY <1>2 DEF RemoveByName, Without
    <2>3. n \in DOMAIN name_to_ofport /\ moved' = moved
      BY <1>2 DEF RemoveByName
    <2> QED
      BY <2>1, <2>2, <2>3 DEF MapsAgree
  <1>3. ASSUME NEW p \in OfPorts, RemoveByOfport(p) PROVE MapsAgree'
    <2> SUFFICES ASSUME ~moved PROVE MapsAgree'
      BY <1>3 DEF RemoveByOfport, MapsAgree
    <2>1. /\ DOMAIN ofport_to_name' = DOMAIN ofport_to_name \ {p}
          /\ \A z \in DOMAIN ofport_to_name : z # p => ofport_to_name'[z] = ofport_to_name[z]
      BY <1>3 DEF RemoveByOfport, Without
    <2>2. /\ DOMAIN name_to_ofport' = DOMAIN name_to_ofport \ {ofport_to_name[p]}
          /\ \A z \in DOMAIN name_to_ofport :
                 z # ofport_to_name[p] => name_to_ofport'[z] = name_to_ofport[z]
      BY <1>3 DEF RemoveByOfport, Without
    <2>3. p \in DOMAIN ofport_to_name /\ moved' = moved
      BY <1>3 DEF RemoveByOfport
    <2> QED
      BY <2>1, <2>2, <2>3 DEF MapsAgree
  <1>4. ASSUME Clear PROVE MapsAgree'
    BY <1>4 DEF Clear, Empty, MapsAgree
  <1>5. ASSUME UNCHANGED mapper PROVE MapsAgree'
    BY <1>5 DEF mapper, MapsAgree
  <1> QED
    BY <1>1, <1>2, <1>3, <1>4, <1>5 DEF MapperNext

(* get_ofport and get_name answer each other as long as no name and no     *)
(* port has been given a second partner.                                   *)
THEOREM Agreement == MapperSpec => []MapsAgree
  <1>1. MapperInit => MapsAgree
    BY DEF MapperInit, Empty, MapsAgree
  <1> QED
    BY <1>1, AgreementStep, PTL DEF MapperSpec

-----------------------------------------------------------------------------
(* The reconnect state machine: attempts to connect are spaced by what the *)
(* backoff promises, for any greatest backoff and any horizon.             *)

(* For its induction over sets of numbers.                                 *)
Facts == INSTANCE FoldFacts WITH Step <- Lesser

(* The recursion has a solution: up to each n, hence up to the horizon.    *)
Doubles(f, n) == f = [k \in 0 .. n |-> IF k = 0 THEN 1 ELSE 2 * f[k - 1]]

LEMMA DoublesExist == \A n \in Nat : \E f : Doubles(f, n)
<1> DEFINE D == {n \in Nat : \E f : Doubles(f, n)}
<1>1. 0 \in D
  <2>1. Doubles([k \in 0 .. 0 |-> 1], 0)
    BY DEF Doubles
  <2> QED
    BY <2>1
<1>2. ASSUME NEW n \in Nat, n \in D PROVE n + 1 \in D
  <2>1. PICK f : Doubles(f, n)
    BY <1>2
  <2> DEFINE g == [k \in 0 .. n + 1 |-> IF k = 0 THEN 1 ELSE 2 * f[k - 1]]
  <2>2. \A k \in 0 .. n : g[k] = f[k]
    BY <2>1 DEF Doubles
  <2>3. \A k \in 0 .. n + 1 : k # 0 => k - 1 \in 0 .. n
    OBVIOUS
  <2>4. \A k \in 0 .. n + 1 : g[k] = IF k = 0 THEN 1 ELSE 2 * g[k - 1]
    <3>1. \A k \in 0 .. n + 1 : g[k] = IF k = 0 THEN 1 ELSE 2 * f[k - 1]
      OBVIOUS
    <3> HIDE DEF g
    <3> QED
      BY <2>2, <2>3, <3>1
  <2>5. g = [k \in 0 .. n + 1 |-> g[k]]
    OBVIOUS
  <2> DEFINE h == [k \in 0 .. n + 1 |-> IF k = 0 THEN 1 ELSE 2 * g[k - 1]]
  <2>6. \A k \in 0 .. n + 1 : g[k] = h[k]
    <3> HIDE DEF g
    <3> QED
      BY <2>4
  <2> HIDE DEF g
  <2>7. g = h
    BY <2>5, <2>6
  <2>8. Doubles(g, n + 1)
    BY <2>7 DEF Doubles
  <2> HIDE DEF h
  <2> QED
    BY <2>8
<1> HIDE DEF D
<1>3. Nat \subseteq D
  BY <1>1, <1>2, Facts!NatSetInduction
<1> QED
  BY <1>3 DEF D

LEMMA DoubledFacts ==
    /\ Doubled[0] = 1
    /\ \A k \in 0 .. Horizon : k # 0 => Doubled[k] = 2 * Doubled[k - 1]
    /\ \A k \in 0 .. Horizon : Doubled[k] \in Nat
<1>1. Doubled = CHOOSE f : Doubles(f, Horizon)
  BY DEF Doubled, Doubles
<1>2. Doubles(Doubled, Horizon)
  BY <1>1, DoublesExist, HorizonAssumption
<1>3. Doubled[0] = 1 /\ \A k \in 0 .. Horizon : k # 0 => Doubled[k] = 2 * Doubled[k - 1]
  BY <1>2, HorizonAssumption DEF Doubles
<1> DEFINE D == {k \in Nat : k <= Horizon => Doubled[k] \in Nat}
<1>4. 0 \in D
  BY <1>3
<1>5. ASSUME NEW k \in Nat, k \in D PROVE k + 1 \in D
  <2> SUFFICES ASSUME k + 1 <= Horizon PROVE Doubled[k + 1] \in Nat
    OBVIOUS
  <2>1. k + 1 \in 0 .. Horizon /\ Doubled[k] \in Nat
    BY <1>5, HorizonAssumption
  <2>2. Doubled[k + 1] = 2 * Doubled[(k + 1) - 1] /\ (k + 1) - 1 = k
    BY <1>3, <2>1
  <2> QED
    BY <2>1, <2>2
<1> HIDE DEF D
<1>6. Nat \subseteq D
  BY <1>4, <1>5, Facts!NatSetInduction
<1> QED
  BY <1>3, <1>6 DEF D

-----------------------------------------------------------------------------
(* The clocks agree while the machine waits, and the backoff has grown     *)
(* with the failures.                                                      *)
ClockType ==
    /\ backoff \in Nat /\ max_backoff \in Nat
    /\ elapsed \in 0 .. Horizon /\ waited \in 0 .. Horizon /\ failures \in 0 .. Horizon

Grown ==
    /\ state = "Void" => failures = 0 /\ backoff = 1
    /\ state = "Backoff" => elapsed = waited
    /\ backoff >= Lesser(Doubled[failures], max_backoff)

SpacedInv == ClockType /\ Grown

LEMMA SpacedInit == ReconnectInit => SpacedInv
  BY DoubledFacts, HorizonAssumption DEF ReconnectInit, SpacedInv, ClockType, Grown, Lesser

LEMMA SpacedNext == SpacedInv /\ [ReconnectNext]_reconnect => SpacedInv'
<1> SUFFICES ASSUME SpacedInv, [ReconnectNext]_reconnect PROVE SpacedInv'
  OBVIOUS
<1>0. /\ Horizon \in Nat /\ Doubled[0] = 1 /\ Doubled[failures] \in Nat
      /\ \A max \in MaxBackoffs : max \in Nat
  BY DoubledFacts, HorizonAssumption DEF SpacedInv, ClockType
<1> USE <1>0 DEF SpacedInv, ClockType, Grown
<1>1. ASSUME NEW max \in MaxBackoffs, SetMaxBackoff(max) PROVE SpacedInv'
  BY <1>1 DEF SetMaxBackoff, Lesser
<1>2. CASE Connecting
  BY <1>2 DEF Connecting
<1>3. CASE AttemptSucceeds
  BY <1>3 DEF AttemptSucceeds, Lesser
<1>4. CASE AttemptFails
  <2>1. /\ state' = "Backoff" /\ elapsed' = 0 /\ waited' = 0 /\ max_backoff' = max_backoff
        /\ backoff' = Lesser(2 * backoff, max_backoff)
        /\ failures' = Lesser(failures + 1, Horizon)
    BY <1>4 DEF AttemptFails, Disconnected, IncreaseBackoff
  <2>2. CASE failures = Horizon
    <3>1. failures' = failures
      BY <2>1, <2>2 DEF Lesser
    <3> QED
      BY <2>1, <3>1 DEF Lesser
  <2>3. CASE failures # Horizon
    <3>1. failures' = failures + 1 /\ failures + 1 \in 0 .. Horizon
      BY <2>1, <2>3 DEF Lesser
    <3>2. Doubled[failures'] = 2 * Doubled[failures]
      <4>1. failures + 1 # 0 /\ (failures + 1) - 1 = failures
        OBVIOUS
      <4> QED
        BY <3>1, <4>1, DoubledFacts
    <3> QED
      BY <2>1, <3>1, <3>2 DEF Lesser
  <2> QED
    BY <2>2, <2>3
<1>5. CASE ConnectionLost
  BY <1>5 DEF ConnectionLost, Disconnected
<1>6. CASE Activity
  BY <1>6 DEF Activity
<1>7. CASE Second
  BY <1>7 DEF Second, Lesser
<1>8. CASE UNCHANGED reconnect
  BY <1>8 DEF reconnect
<1> QED
  BY <1>1, <1>2, <1>3, <1>4, <1>5, <1>6, <1>7, <1>8 DEF ReconnectNext

(* Whatever the outcomes of the attempts, the activity and the greatest    *)
(* backoff, an attempt after k failures in a row is made no sooner than    *)
(* 2^k seconds after the last of them, or the greatest backoff.            *)
THEOREM Spacing == ReconnectSpec => AttemptsSpaced
<1>1. SpacedInv /\ [ReconnectNext]_reconnect =>
         [state = "Backoff" /\ state' = "Connecting" =>
             waited >= Lesser(Doubled[failures], max_backoff)]_reconnect
  <2> SUFFICES ASSUME SpacedInv, [ReconnectNext]_reconnect,
                      state = "Backoff", state' = "Connecting"
               PROVE  waited >= Lesser(Doubled[failures], max_backoff)
    OBVIOUS
  <2>1. Connecting
    BY DEF ReconnectNext, SetMaxBackoff, AttemptSucceeds, AttemptFails, Disconnected,
           ConnectionLost, Activity, Second, reconnect
  <2>2. elapsed >= backoff
    BY <2>1 DEF Connecting, ShouldConnect
  <2>3. Doubled[failures] \in Nat
    BY DoubledFacts DEF SpacedInv, ClockType
  <2> QED
    BY <2>2, <2>3 DEF SpacedInv, ClockType, Grown, Lesser
<1> QED
  BY <1>1, SpacedInit, SpacedNext, PTL DEF ReconnectSpec, AttemptsSpaced

-----------------------------------------------------------------------------
(* The scanner: what is read is cut into the messages that were sent, for  *)
(* any JSON objects, any number of them and any pieces they come in.       *)
Lexing  == INSTANCE FoldFacts WITH Step <- Lexed
Joining == INSTANCE FoldFacts WITH Step <- Joined

LEMMA LexingIs == \A b, q : Lexing!Fold(b, q) = FoldLeft(Lexed, b, q)
  BY DEF Lexing!Fold, FoldLeft, Lexing!FoldLeft, MapThenFoldSet, Lexing!MapThenFoldSet,
         Max, Lexing!Max
LEMMA JoiningIs == \A b, q : Joining!Fold(b, q) = FoldLeft(Joined, b, q)
  BY DEF Joining!Fold, FoldLeft, Joining!FoldLeft, MapThenFoldSet, Joining!MapThenFoldSet,
         Max, Joining!Max

LEMMA Upto == \A k \in Nat : \A n \in 1 .. k : n < k \/ n = k
  OBVIOUS
LEMMA SameEnds == \A k, n \in Nat : 1 .. k = 1 .. n => k = n
<1> SUFFICES ASSUME NEW k \in Nat, NEW n \in Nat, 1 .. k = 1 .. n PROVE k = n
  OBVIOUS
<1>1. k \in 1 .. n \/ k = 0
  OBVIOUS
<1>2. n \in 1 .. k \/ n = 0
  OBVIOUS
<1>3. k = 0 => 1 \notin 1 .. n
  OBVIOUS
<1>4. n = 0 => 1 \notin 1 .. k
  OBVIOUS
<1> QED
  BY <1>1, <1>2, <1>3, <1>4

InTexts    == UNION {Range(t) : t \in Texts}
Characters == InTexts \union {"\n"}

LEMMA TextsAre ==
    ASSUME NEW t \in Texts
    PROVE  /\ t \in Seq(Characters) /\ Len(t) \in Nat \ {0} /\ t[1] = "{"
           /\ Mode(t, 0) = Outset
           /\ \A n \in Nat : n + 1 \in 1 .. Len(t) => Mode(t, n + 1) = Lexed(Mode(t, n), t[n + 1])
           /\ \A n \in 1 .. Len(t) : Mode(t, n).depth > 0 <=> n < Len(t)
<1>1. t \in Seq(Range(t)) /\ t # <<>> /\ t[1] = "{" /\ Mode(t, Len(t)).depth = 0
      /\ \A n \in 1 .. Len(t) - 1 : Mode(t, n).depth > 0
  BY TextsAssumption DEF IsObject
<1>2. t \in Seq(Characters)
  <2>1. Range(t) \subseteq Characters
    BY DEF Characters, InTexts
  <2> QED
    BY <1>1, <2>1, SeqMonotonic
<1>3. Len(t) \in Nat \ {0} /\ DOMAIN t = 1 .. Len(t)
  <2>1. t # <<>>
    BY <1>1
  <2> QED
    BY <1>2, <2>1, EmptySeq, LenProperties
<1>4. /\ Lexing!Fold(Outset, SubSeq(t, 1, 0)) = Outset
      /\ \A n \in Nat : n + 1 \in DOMAIN t =>
            Lexing!Fold(Outset, SubSeq(t, 1, n + 1)) = Lexed(Lexing!Fold(Outset, SubSeq(t, 1, n)), t[n + 1])
  BY <1>2, Lexing!FoldPrefixes
<1>5. \A n : Mode(t, n) = Lexing!Fold(Outset, SubSeq(t, 1, n))
  BY LexingIs DEF Mode
<1>6. ASSUME NEW n \in 1 .. Len(t) PROVE Mode(t, n).depth > 0 <=> n < Len(t)
  <2>1. CASE n < Len(t)
    <3>1. n \in 1 .. Len(t) - 1
      BY <1>3, <2>1
    <3> QED
      BY <1>1, <2>1, <3>1
  <2>2. CASE n = Len(t)
    <3>1. Mode(t, n).depth = 0
      BY <1>1, <2>2
    <3> QED
      BY <1>3, <2>2, <3>1
  <2>3. n < Len(t) \/ n = Len(t)
    <3>1. Len(t) \in Nat
      BY <1>3
    <3> QED
      BY <3>1, Upto, Zenon
  <2> QED
    BY <2>1, <2>2, <2>3, Zenon
<1> QED
  BY <1>1, <1>2, <1>3, <1>4, <1>5, <1>6

LEMMA TextsEnd == ASSUME NEW t \in Texts PROVE Mode(t, Len(t)).depth = 0
  BY TextsAssumption DEF IsObject

(* What has been read of a text: the depth is a number, and so on.         *)
Modes == [depth : Int, quoted : BOOLEAN, escaped : BOOLEAN]

LEMMA LexedIs ==
    ASSUME NEW m \in Modes, NEW c, NEW n, n = Lexed(m, c)
    PROVE  /\ n \in Modes
           /\ m.escaped => /\ n.depth = m.depth /\ n.quoted = m.quoted /\ n.escaped = FALSE
           /\ ~m.escaped =>
                 /\ n.escaped = (m.quoted /\ c = "\\")
                 /\ n.quoted = IF c = "\"" THEN ~m.quoted ELSE m.quoted
                 /\ n.depth = IF ~m.quoted /\ c = "{" THEN m.depth + 1
                              ELSE IF ~m.quoted /\ c = "}" THEN m.depth - 1 ELSE m.depth
<1>1. CASE m.escaped
  <2>1. n = [m EXCEPT !.escaped = FALSE]
    BY <1>1 DEF Lexed
  <2> QED
    BY <1>1, <2>1 DEF Modes
<1>2. CASE ~m.escaped /\ m.quoted /\ c = "\\"
  <2>1. n = [m EXCEPT !.escaped = TRUE]
    BY <1>2 DEF Lexed
  <2> QED
    BY <1>2, <2>1 DEF Modes
<1>3. CASE ~m.escaped /\ c = "\""
  <2>1. n = [m EXCEPT !.quoted = ~ @]
    BY <1>3 DEF Lexed
  <2> QED
    BY <1>3, <2>1 DEF Modes
<1>4. CASE ~m.escaped /\ ~m.quoted /\ c = "{"
  <2>1. n = [m EXCEPT !.depth = @ + 1]
    BY <1>4 DEF Lexed
  <2>2. DOMAIN m = {"depth", "quoted", "escaped"} /\ m.depth \in Int /\ m.quoted \in BOOLEAN
        /\ m.escaped \in BOOLEAN
    BY DEF Modes
  <2>3. n.depth = m.depth + 1 /\ n.quoted = m.quoted /\ n.quoted = FALSE /\ n.escaped = FALSE
    BY <1>4, <2>1, <2>2
  <2>4. n \in Modes
    <3>1. m.depth + 1 \in Int
      BY <2>2
    <3> QED
      BY <2>1, <3>1 DEF Modes
  <2> QED
    BY <1>4, <2>3, <2>4
<1>5. CASE ~m.escaped /\ ~m.quoted /\ c = "}"
  <2>1. n = [m EXCEPT !.depth = @ - 1]
    BY <1>5 DEF Lexed
  <2>2. DOMAIN m = {"depth", "quoted", "escaped"} /\ m.depth \in Int /\ m.quoted \in BOOLEAN
        /\ m.escaped \in BOOLEAN
    BY DEF Modes
  <2>3. n.depth = m.depth - 1 /\ n.quoted = m.quoted /\ n.quoted = FALSE /\ n.escaped = FALSE
    BY <1>5, <2>1, <2>2
  <2>4. n \in Modes
    <3>1. m.depth - 1 \in Int
      BY <2>2
    <3> QED
      BY <2>1, <3>1 DEF Modes
  <2> QED
    BY <1>5, <2>3, <2>4
<1>6. CASE ~m.escaped /\ ~(m.quoted /\ c = "\\") /\ c # "\"" /\ (m.quoted \/ (c # "{" /\ c # "}"))
  <2>1. n = m
    BY <1>6 DEF Lexed
  <2> QED
    BY <1>6, <2>1 DEF Modes
<1> QED
  BY <1>1, <1>2, <1>3, <1>4, <1>5, <1>6

-----------------------------------------------------------------------------
(* The stream, message by message.                                         *)
LEMMA JoinedFrom ==
    ASSUME NEW A, NEW q \in Seq(Seq(A)), NEW b \in Seq(A)
    PROVE  /\ FoldLeft(Joined, b, q) = b \o FoldLeft(Joined, <<>>, q)
           /\ FoldLeft(Joined, b, q) \in Seq(A)
<1> DEFINE L == Seq(A)
           F(c, u) == Joining!Fold(c, u)
           Good(u) == \A c \in L : F(c, u) = c \o F(<<>>, u) /\ F(c, u) \in L
           D == {n \in Nat : \A u \in Seq(L) : Len(u) = n => Good(u)}
<1>1. <<>> \in L
  OBVIOUS
<1>2. 0 \in D
  <2>1. \A u \in Seq(L) : Len(u) = 0 => u = <<>>
    <3> HIDE DEF L
    <3> QED
      BY EmptySeq
  <2>2. \A c : F(c, <<>>) = c
    BY Joining!FoldNone
  <2>3. \A c \in L : c \o <<>> = c
    BY ConcatEmptySeq
  <2> HIDE DEF L, F
  <2> QED
    BY <2>1, <2>2, <2>3
<1>3. ASSUME NEW n \in Nat, n \in D PROVE n + 1 \in D
  <2> SUFFICES ASSUME NEW u \in Seq(L), Len(u) = n + 1, NEW c \in L
               PROVE  F(c, u) = c \o F(<<>>, u) /\ F(c, u) \in L
    <3> HIDE DEF L, F
    <3> QED
      OBVIOUS
  <2>1. u # <<>> /\ Head(u) \in L /\ Tail(u) \in Seq(L) /\ Len(Tail(u)) = n
    <3> HIDE DEF L
    <3>1. u # <<>>
      BY EmptySeq
    <3> QED
      BY <3>1, HeadTailProperties
  <2>2. \A d : F(d, u) = F(d \o Head(u), Tail(u))
    <3> HIDE DEF L
    <3> QED
      BY <2>1, Joining!FoldFirst DEF Joined
  <2>3. \A d \in L : d \o Head(u) \in L
    BY <2>1, ConcatProperties
  <2>4. \A d \in L : F(d, Tail(u)) = d \o F(<<>>, Tail(u)) /\ F(d, Tail(u)) \in L
    <3> HIDE DEF L, F
    <3> QED
      BY <1>3, <2>1
  <2>5. <<>> \o Head(u) = Head(u)
    BY <2>1, ConcatEmptySeq
  <2>6. PICK h, g : h = Head(u) /\ g = F(<<>>, Tail(u))
    OBVIOUS
  <2> HIDE DEF F
  <2>7. F(c, u) = (c \o h) \o g /\ F(c, u) \in L
    BY <2>2, <2>3, <2>4, <2>6
  <2>8. F(<<>>, u) = h \o g /\ g \in L /\ h \in L
    BY <1>1, <2>1, <2>2, <2>4, <2>5, <2>6
  <2>9. (c \o h) \o g = c \o (h \o g)
    <3>1. h \in Seq(A) /\ g \in Seq(A) /\ c \in Seq(A)
      BY <2>8
    <3> HIDE DEF L
    <3> QED
      BY <3>1, ConcatAssociative, SMTT(60)
  <2> QED
    BY <2>7, <2>8, <2>9
<1> HIDE DEF D, Good
<1>4. Nat \subseteq D
  BY <1>2, <1>3, Joining!NatSetInduction
<1>5. Len(q) \in D /\ q \in Seq(L) /\ b \in L
  BY <1>4, LenProperties
<1> HIDE DEF L
<1>6. F(b, q) = b \o F(<<>>, q) /\ F(b, q) \in L
  BY <1>5 DEF D, Good
<1> QED
  BY <1>6, JoiningIs DEF L

LEMMA EndingsAre ==
    ASSUME NEW e \in Endings PROVE e \in Seq(Characters) /\ \A n \in 1 .. Len(e) : e[n] = "\n"
<1>1. "\n" \in Characters
  BY DEF Characters
<1>2. <<"\n">> \in Seq(Characters) /\ <<>> \in Seq(Characters)
  BY <1>1
<1>3. Len(<<>>) = 0 /\ Len(<<"\n">>) = 1 /\ <<"\n">>[1] = "\n"
  OBVIOUS
<1>4. e = <<>> \/ e = <<"\n">>
  BY DEF Endings
<1>5. \A n \in 1 .. 0 : FALSE
  OBVIOUS
<1>6. \A n \in 1 .. 1 : n = 1
  OBVIOUS
<1>7. CASE e = <<>>
  BY <1>2, <1>3, <1>5, <1>7
<1>8. CASE e = <<"\n">>
  BY <1>2, <1>3, <1>6, <1>8
<1> QED
  BY <1>4, <1>7, <1>8

LEMMA StreamIs ==
    ASSUME NEW q \in Seq(Texts), NEW e \in Endings
    PROVE  /\ Stream(q, e) \in Seq(Characters)
           /\ q = <<>> => Stream(q, e) = <<>>
           /\ q # <<>> => Stream(q, e) = (Head(q) \o e) \o Stream(Tail(q), e)
<1> DEFINE L == Seq(Characters)
           lines(u) == [n \in DOMAIN u |-> u[n] \o e]
<1>1. \A t \in Texts : t \in L
  BY TextsAre
<1>2. e \in L
  <2>1. "\n" \in Characters
    BY DEF Characters
  <2>2. <<"\n">> \in L
    BY <2>1
  <2>3. <<>> \in L
    OBVIOUS
  <2> HIDE DEF L
  <2> QED
    BY <2>2, <2>3 DEF Endings
<1>3. \A t \in Texts : t \o e \in L
  BY <1>1, <1>2
<1>4. \A u \in Seq(Texts) : lines(u) \in Seq(L)
  <2> SUFFICES ASSUME NEW u \in Seq(Texts) PROVE lines(u) \in Seq(L)
    OBVIOUS
  <2>1. Len(u) \in Nat /\ DOMAIN u = 1 .. Len(u) /\ \A n \in DOMAIN u : u[n] \in Texts
    BY LenProperties, ElementOfSeq
  <2>2. lines(u) \in [1 .. Len(u) -> L]
    BY <1>3, <2>1
  <2> HIDE DEF L, lines
  <2> QED
    BY <2>1, <2>2, SeqDef
<1>5. \A u : Stream(u, e) = FoldLeft(Joined, <<>>, lines(u))
  BY DEF Stream
<1>6. <<>> \in L
  OBVIOUS
<1>7. \A u \in Seq(Texts) : Stream(u, e) \in L
  BY <1>4, <1>5, <1>6, JoinedFrom
<1>8. q = <<>> => Stream(q, e) = <<>>
  <2>1. lines(<<>>) = <<>>
    OBVIOUS
  <2>2. Joining!Fold(<<>>, <<>>) = <<>>
    BY Joining!FoldNone
  <2> QED
    BY <1>5, <2>1, <2>2, JoiningIs
<1>9. ASSUME q # <<>> PROVE Stream(q, e) = (Head(q) \o e) \o Stream(Tail(q), e)
  <2>1. /\ Head(q) \in Texts /\ Tail(q) \in Seq(Texts) /\ Head(q) = q[1]
        /\ Len(q) \in Nat \ {0} /\ Len(Tail(q)) = Len(q) - 1
        /\ DOMAIN q = 1 .. Len(q) /\ DOMAIN Tail(q) = 1 .. Len(q) - 1
        /\ \A n \in 1 .. Len(q) - 1 : Tail(q)[n] = q[n + 1]
    BY <1>9, EmptySeq, HeadTailProperties, LenProperties
  <2>2. PICK k, m : k = lines(q) /\ m = lines(Tail(q))
    OBVIOUS
  <2>3. /\ k \in Seq(L) /\ DOMAIN k = 1 .. Len(q) /\ k[1] = Head(q) \o e
        /\ m \in Seq(L) /\ DOMAIN m = 1 .. Len(q) - 1
        /\ \A n \in 1 .. Len(q) - 1 : m[n] = k[n + 1]
    <3>1. /\ DOMAIN k = 1 .. Len(q) /\ k[1] = Head(q) \o e
          /\ DOMAIN m = 1 .. Len(q) - 1
          /\ \A n \in 1 .. Len(q) - 1 : m[n] = k[n + 1]
      BY <2>1, <2>2
    <3> QED
      BY <1>4, <2>1, <2>2, <3>1
  <2> HIDE DEF lines, L
  <2>4. Len(k) = Len(q) /\ Len(m) = Len(q) - 1 /\ k # <<>>
    <3>1. Len(k) \in Nat /\ DOMAIN k = 1 .. Len(k) /\ Len(m) \in Nat /\ DOMAIN m = 1 .. Len(m)
      BY <2>3, LenProperties
    <3>2. Len(k) = Len(q)
      BY <2>1, <2>3, <3>1, SameEnds, Zenon
    <3>3. Len(q) - 1 \in Nat
      BY <2>1
    <3>4. Len(m) = Len(q) - 1
      BY <2>3, <3>1, <3>3, SameEnds, Zenon
    <3>5. Len(<<>>) = 0
      BY EmptySeq
    <3>6. k # <<>>
      BY <2>1, <3>2, <3>5
    <3> QED
      BY <3>2, <3>4, <3>6
  <2>5. Head(k) = Head(q) \o e
    BY <2>3
  <2>6. Tail(k) = m
    <3>1. /\ Tail(k) \in Seq(L) /\ Len(Tail(k)) = Len(q) - 1
          /\ \A n \in 1 .. Len(q) - 1 : Tail(k)[n] = k[n + 1]
      BY <2>3, <2>4, HeadTailProperties
    <3> QED
      BY <2>3, <2>4, <3>1, SeqEqual
  <2>7. Joining!Fold(<<>>, k) = Joining!Fold(<<>> \o Head(k), Tail(k))
    BY <2>3, <2>4, Joining!FoldFirst DEF Joined
  <2>8. Head(q) \o e \in L /\ <<>> \o (Head(q) \o e) = Head(q) \o e
    BY <1>3, <2>1, ConcatEmptySeq DEF L
  <2>9. Stream(q, e) = FoldLeft(Joined, Head(q) \o e, m)
    BY <1>5, <2>2, <2>5, <2>6, <2>7, <2>8, JoiningIs
  <2>10. FoldLeft(Joined, Head(q) \o e, m) = (Head(q) \o e) \o FoldLeft(Joined, <<>>, m)
    BY <2>3, <2>8, JoinedFrom DEF L
  <2> QED
    BY <1>5, <2>2, <2>9, <2>10
<1> QED
  BY <1>7, <1>8, <1>9
-----------------------------------------------------------------------------
(* What is left of the messages, and how a scan stands to them: before the *)
(* next one, at most behind what the peer put after the last, or within it *)
(* and reading it as JSON is read.                                         *)
Left == SubSeq(inbound, Len(returned) + 1, Len(inbound))
Scans == [at : Int, json_start : Int, depth : Int, in_string : BOOLEAN, escape_next : BOOLEAN]
View(s) == [depth |-> s.depth, quoted |-> s.in_string, escaped |-> s.escape_next]

BeforeNext(lead) == scan.json_start = 0 /\ View(scan) = Outset /\ scan.at <= Len(lead) + 1
WithinNext(lead) ==
    /\ Left # <<>> /\ scan.json_start = Len(lead) + 1
    /\ LET t == Head(Left)
           n == scan.at - 1 - Len(lead)
       IN  n \in 1 .. Len(t) - 1 /\ View(scan) = Mode(t, n)

InStep(e, lead) ==
    /\ read_buf \o unread = lead \o Stream(Left, e)
    /\ reading => BeforeNext(lead) \/ WithinNext(lead)

ScanInv ==
    /\ inbound \in Seq(Texts) /\ returned \in Seq(Texts) /\ Len(returned) <= Len(inbound)
    /\ read_buf \in Seq(Characters) /\ unread \in Seq(Characters)
    /\ reading \in BOOLEAN
    /\ reading => scan \in Scans /\ scan.at \in 1 .. Len(read_buf) + 1
    /\ \E e \in Endings, lead \in Endings : InStep(e, lead)

LEMMA Cut ==
    ASSUME NEW S, NEW a \in Seq(S), NEW b \in Seq(S), NEW p, p = a \o b
    PROVE  /\ p \in Seq(S) /\ Len(p) = Len(a) + Len(b)
           /\ Len(a) \in Nat /\ Len(b) \in Nat
           /\ \A k \in 1 .. Len(a) : p[k] = a[k]
           /\ \A k \in 1 .. Len(b) : p[Len(a) + k] = b[k]
           /\ SubSeq(p, 1, Len(a)) = a
           /\ SubSeq(p, Len(a) + 1, Len(p)) = b
<1>1. /\ p \in Seq(S) /\ Len(p) = Len(a) + Len(b)
      /\ \A k \in 1 .. Len(a) + Len(b) : p[k] = IF k <= Len(a) THEN a[k] ELSE b[k - Len(a)]
  BY ConcatProperties
<1>2. Len(a) \in Nat /\ Len(b) \in Nat
  BY LenProperties
<1>3. PICK x, y : x = Len(a) /\ y = Len(b)
  OBVIOUS
<1>4. (\A k \in 1 .. x : p[k] = a[k]) /\ (\A k \in 1 .. y : p[x + k] = b[k])
  <2>1. ASSUME NEW k \in 1 .. x PROVE p[k] = a[k]
    <3>1. k \in 1 .. x + y /\ k <= x
      BY <1>2, <1>3
    <3> QED
      BY <1>1, <1>3, <3>1
  <2>2. ASSUME NEW k \in 1 .. y PROVE p[x + k] = b[k]
    <3>1. x + k \in 1 .. x + y /\ ~(x + k <= x) /\ (x + k) - x = k
      BY <1>2, <1>3
    <3> QED
      BY <1>1, <1>3, <3>1
  <2> QED
    BY <2>1, <2>2
<1>5. \A k \in 1 .. x + y : p[k] \in S
  BY <1>1, <1>3, ElementOfSeq
<1>6. SubSeq(p, 1, x) = a
  <2>1. CASE x = 0
    <3>1. a = <<>>
      BY <1>3, <2>1, EmptySeq
    <3>2. SubSeq(p, 1, 0) = <<>>
      BY SubSeqEmpty
    <3> QED
      BY <2>1, <3>1, <3>2
  <2>2. CASE x # 0
    <3>1. 1 \in 1 .. x /\ x \in 1 .. x
      BY <1>2, <1>3, <2>2
    <3>2. SubSeq(a \o b, 1, x) = SubSeq(a, 1, x)
      BY <1>3, <3>1, SubSeqOfConcat1
    <3> QED
      BY <1>3, <3>2, SubSeqFull
  <2> QED
    BY <2>1, <2>2
<1>7. SubSeq(p, x + 1, x + y) = b
  <2>1. CASE y = 0
    <3>1. b = <<>>
      BY <1>3, <2>1, EmptySeq
    <3>2. x + 1 \in Int /\ x + y \in Int /\ x + y < x + 1
      BY <1>2, <1>3, <2>1
    <3>3. SubSeq(p, x + 1, x + y) = <<>>
      BY <3>2, SubSeqEmpty
    <3> QED
      BY <3>1, <3>3
  <2>2. CASE y # 0
    <3>1. x + 1 \in x + 1 .. x + y /\ x + y \in x + 1 .. x + y /\ (x + 1) - x = 1 /\ (x + y) - x = y
      BY <1>2, <1>3, <2>2
    <3>2. SubSeq(a \o b, x + 1, x + y) = SubSeq(b, (x + 1) - x, (x + y) - x)
      BY <1>3, <3>1, SubSeqOfConcat2
    <3>3. SubSeq(b, 1, y) = b
      BY <1>3, SubSeqFull
    <3> QED
      BY <3>1, <3>2, <3>3
  <2> QED
    BY <2>1, <2>2
<1> QED
  BY <1>1, <1>2, <1>3, <1>4, <1>6, <1>7

LEMMA JoinedThree ==
    ASSUME NEW C, NEW a \in Seq(C), NEW b \in Seq(C), NEW c \in Seq(C)
    PROVE  /\ Joined(a, b) \in Seq(C)
           /\ Joined(Joined(a, b), c) = Joined(a, Joined(b, c))
<1>1. a \o b \in Seq(C)
  BY ConcatProperties
<1>2. (a \o b) \o c = a \o (b \o c)
  BY ConcatAssociative
<1> QED
  BY <1>1, <1>2, Zenon DEF Joined

(* A sequence is its first n elements and the rest.                        *)
LEMMA Halves ==
    ASSUME NEW S, NEW p \in Seq(S), NEW n \in 0 .. Len(p)
    PROVE  /\ SubSeq(p, 1, n) \in Seq(S) /\ Len(SubSeq(p, 1, n)) = n
           /\ SubSeq(p, n + 1, Len(p)) \in Seq(S) /\ Len(SubSeq(p, n + 1, Len(p))) = Len(p) - n
           /\ p = SubSeq(p, 1, n) \o SubSeq(p, n + 1, Len(p))
<1>1. Len(p) \in Nat
  BY LenProperties
<1>2. \A k \in 1 .. Len(p) : p[k] \in S
  BY ElementOfSeq
<1>3. SubSeq(p, 1, n) \in Seq(S) /\ Len(SubSeq(p, 1, n)) = n
  <2>1. (\A k \in 1 .. n : p[k] \in S) /\ 1 \in Int /\ n \in Int /\ (IF 1 <= n THEN (n - 1) + 1 ELSE 0) = n
    BY <1>1, <1>2
  <2> QED
    BY <2>1, SubSeqProperties
<1>4. SubSeq(p, n + 1, Len(p)) \in Seq(S) /\ Len(SubSeq(p, n + 1, Len(p))) = Len(p) - n
  <2>1. PICK z : z = Len(p)
    OBVIOUS
  <2>2. /\ \A k \in n + 1 .. z : p[k] \in S
        /\ n + 1 \in Int /\ z \in Int /\ (IF n + 1 <= z THEN (z - (n + 1)) + 1 ELSE 0) = z - n
    BY <1>1, <1>2, <2>1
  <2> QED
    BY <2>1, <2>2, SubSeqProperties
<1>5. SubSeq(p, 1, n) \o SubSeq(p, n + 1, Len(p)) = SubSeq(p, 1, Len(p))
  <2>1. 1 \in 1 .. Len(p) + 1 /\ n \in 1 - 1 .. Len(p) /\ Len(p) \in n .. Len(p)
    BY <1>1
  <2> QED
    BY <2>1, ConcatAdjacentSubSeq
<1> QED
  BY <1>3, <1>4, <1>5, SubSeqFull

(* Reading moves characters from the stream to the buffer.                 *)
LEMMA Regroup ==
    ASSUME NEW S, NEW r \in Seq(S), NEW u \in Seq(S), NEW n \in 0 .. Len(u)
    PROVE  /\ Joined(r, SubSeq(u, 1, n)) \in Seq(S) /\ SubSeq(u, n + 1, Len(u)) \in Seq(S)
           /\ Joined(Joined(r, SubSeq(u, 1, n)), SubSeq(u, n + 1, Len(u))) = Joined(r, u)
<1>1. PICK a, b : a = SubSeq(u, 1, n) /\ b = SubSeq(u, n + 1, Len(u))
  OBVIOUS
<1>2. a \in Seq(S) /\ b \in Seq(S) /\ u = Joined(a, b)
  BY <1>1, Halves DEF Joined
<1>3. Joined(r, a) \in Seq(S) /\ Joined(Joined(r, a), b) = Joined(r, Joined(a, b))
  BY <1>2, JoinedThree
<1> QED
  BY <1>1, <1>2, <1>3, Zenon

(* Draining the buffer drains the stream.                                  *)
LEMMA Drained ==
    ASSUME NEW S, NEW r \in Seq(S), NEW u \in Seq(S), NEW n \in 0 .. Len(r)
    PROVE  /\ SubSeq(r, n + 1, Len(r)) \in Seq(S)
           /\ Joined(SubSeq(r, n + 1, Len(r)), u) = SubSeq(Joined(r, u), n + 1, Len(Joined(r, u)))
<1>1. PICK a, b, c, p : /\ a = SubSeq(r, 1, n) /\ b = SubSeq(r, n + 1, Len(r))
                        /\ c = Joined(b, u) /\ p = Joined(r, u)
  OBVIOUS
<1>2. a \in Seq(S) /\ b \in Seq(S) /\ r = Joined(a, b) /\ Len(a) = n
  BY <1>1, Halves DEF Joined
<1>3. c \in Seq(S) /\ p = Joined(a, c)
  <2>1. c \in Seq(S)
    BY <1>1, <1>2, JoinedThree
  <2>2. Joined(Joined(a, b), u) = Joined(a, Joined(b, u))
    BY <1>2, JoinedThree
  <2> QED
    BY <1>1, <1>2, <2>1, <2>2
<1>4. p = a \o c
  BY <1>3 DEF Joined
<1>5. SubSeq(p, Len(a) + 1, Len(p)) = c
  BY <1>2, <1>3, <1>4, Cut
<1> QED
  BY <1>1, <1>2, <1>5, Zenon

(* What is left when one more is gone.                                     *)
LEMMA OneLess ==
    ASSUME NEW S, NEW q \in Seq(S), NEW k \in 0 .. Len(q), NEW w, w = SubSeq(q, k + 1, Len(q))
    PROVE  /\ w \in Seq(S) /\ (w # <<>> => k < Len(q))
           /\ k < Len(q) => /\ w # <<>> /\ Head(w) = q[k + 1] /\ Head(w) \in S
                            /\ k + 1 \in 0 .. Len(q)
                            /\ SubSeq(q, (k + 1) + 1, Len(q)) = Tail(w)
<1>1. Len(q) \in Nat /\ w \in Seq(S) /\ Len(w) = Len(q) - k
  BY Halves, LenProperties
<1>2. Len(w) = 0 => w = <<>>
  BY <1>1, EmptySeq
<1>3. w = <<>> => Len(w) = 0
  BY EmptySeq
<1>4. ASSUME k < Len(q)
      PROVE  /\ k + 1 \in 1 .. Len(q) /\ Len(q) \in k + 1 .. Len(q) /\ k + 1 \in 0 .. Len(q)
  BY <1>1, <1>4
<1>5. ASSUME k < Len(q)
      PROVE  Head(w) = q[k + 1] /\ SubSeq(q, (k + 1) + 1, Len(q)) = Tail(w) /\ q[k + 1] \in S
  BY <1>4, <1>5, HeadTailOfSubSeq, ElementOfSeq
<1>6. w # <<>> <=> k < Len(q)
  BY <1>1, <1>2, <1>3
<1> QED
  BY <1>1, <1>4, <1>5, <1>6

(* The next message in the stream.                                         *)
LEMMA Fourfold ==
    ASSUME NEW C, NEW a \in Seq(C), NEW t \in Seq(C), NEW e \in Seq(C), NEW z \in Seq(C)
    PROVE  Joined(e, z) \in Seq(C) /\ Joined(a, Joined(Joined(t, e), z)) = Joined(Joined(a, t), Joined(e, z))
<1>1. PICK v : v = Joined(e, z)
  OBVIOUS
<1>2. v \in Seq(C)
  BY <1>1, JoinedThree
<1>3. Joined(Joined(t, e), z) = Joined(t, v)
  BY <1>1, JoinedThree
<1>4. Joined(Joined(a, t), v) = Joined(a, Joined(t, v))
  BY <1>2, JoinedThree
<1> QED
  BY <1>1, <1>2, <1>3, <1>4, Zenon

LEMMA Middle ==
    ASSUME NEW C, NEW u \in Seq(C), NEW t \in Seq(C), NEW v \in Seq(C), t # <<>>,
           NEW p, p = (u \o t) \o v
    PROVE  /\ p \in Seq(C)
           /\ Len(p) \in Nat /\ Len(t) \in Nat /\ Len(u) \in Nat /\ Len(u) + Len(t) <= Len(p)
           /\ \A k \in 1 .. Len(t) : p[Len(u) + k] = t[k]
           /\ SubSeq(p, Len(u) + 1, Len(u) + Len(t)) = t
           /\ SubSeq(p, (Len(u) + Len(t)) + 1, Len(p)) = v
<1>1. PICK a : a = u \o t
  OBVIOUS
<1>2. a \in Seq(C) /\ p = a \o v
  BY <1>1, ConcatProperties
<1>3. /\ p \in Seq(C) /\ Len(p) = Len(a) + Len(v) /\ Len(v) \in Nat
      /\ SubSeq(p, Len(a) + 1, Len(p)) = v
      /\ \A k \in 1 .. Len(a) : p[k] = a[k]
  BY <1>2, Cut
<1>4. /\ Len(a) = Len(u) + Len(t) /\ Len(u) \in Nat /\ Len(t) \in Nat
      /\ \A k \in 1 .. Len(t) : a[Len(u) + k] = t[k]
      /\ SubSeq(a, Len(u) + 1, Len(a)) = t
  BY <1>1, Cut
<1>5. \A k \in 1 .. Len(t) : Len(u) + k \in 1 .. Len(a)
  BY <1>4
<1>6. SubSeq(p, Len(u) + 1, Len(a)) = SubSeq(a, Len(u) + 1, Len(a))
  <2>1. Len(t) \in Nat \ {0}
    BY EmptySeq
  <2>2. Len(u) + 1 \in 1 .. Len(a) /\ Len(a) \in 1 .. Len(a)
    BY <1>4, <2>1
  <2> QED
    BY <1>2, <2>2, SubSeqOfConcat1
<1>7. Len(p) \in Nat /\ Len(u) + Len(t) <= Len(p)
  BY <1>3, <1>4
<1> QED
  BY <1>3, <1>4, <1>5, <1>6, <1>7

Ahead(p, lead, t, v) ==
    /\ t \in Texts /\ p \in Seq(Characters)
    /\ Len(p) \in Nat /\ Len(t) \in Nat /\ Len(lead) \in Nat /\ Len(lead) + Len(t) <= Len(p)
    /\ \A k \in 1 .. Len(t) : p[Len(lead) + k] = t[k]
    /\ SubSeq(p, Len(lead) + 1, Len(lead) + Len(t)) = t
    /\ SubSeq(p, (Len(lead) + Len(t)) + 1, Len(p)) = v

LEMMA NextIn ==
    ASSUME NEW q \in Seq(Texts), q # <<>>, NEW e \in Endings, NEW lead \in Endings
    PROVE  Ahead(lead \o Stream(q, e), lead, Head(q), e \o Stream(Tail(q), e))
<1>1. PICK t, z, p, v : t = Head(q) /\ z = Stream(Tail(q), e) /\ p = lead \o Stream(q, e) /\ v = e \o z
  OBVIOUS
<1>2. t \in Texts /\ Tail(q) \in Seq(Texts)
  BY <1>1, HeadTailProperties
<1>3. /\ t \in Seq(Characters) /\ z \in Seq(Characters) /\ e \in Seq(Characters)
      /\ lead \in Seq(Characters) /\ Len(t) \in Nat \ {0}
  BY <1>1, <1>2, TextsAre, StreamIs, EndingsAre
<1>4. p = Joined(lead, Joined(Joined(t, e), z))
  BY <1>1, StreamIs DEF Joined
<1>5. v \in Seq(Characters) /\ p = (lead \o t) \o v
  <2>1. v = Joined(e, z)
    BY <1>1 DEF Joined
  <2>2. v \in Seq(Characters) /\ p = Joined(Joined(lead, t), v)
    BY <1>3, <1>4, <2>1, Fourfold
  <2> QED
    BY <2>2, Zenon DEF Joined
<1>6. t # <<>>
  BY <1>3, EmptySeq
<1>7. /\ p \in Seq(Characters)
      /\ Len(p) \in Nat /\ Len(t) \in Nat /\ Len(lead) \in Nat /\ Len(lead) + Len(t) <= Len(p)
      /\ \A k \in 1 .. Len(t) : p[Len(lead) + k] = t[k]
      /\ SubSeq(p, Len(lead) + 1, Len(lead) + Len(t)) = t
      /\ SubSeq(p, (Len(lead) + Len(t)) + 1, Len(p)) = v
  BY <1>3, <1>5, <1>6, Middle, SMTT(60)
<1>8. Ahead(p, lead, t, v)
  BY <1>2, <1>7 DEF Ahead
<1> QED
  BY <1>1, <1>8, Zenon

-----------------------------------------------------------------------------
(* How a turn of the loop reads one character.                             *)
LEMMA ViewIs == ASSUME NEW s \in Scans PROVE View(s) \in Modes
  BY DEF Scans, View, Modes

LEMMA CountedIs ==
    ASSUME NEW s \in Scans, s.escape_next = FALSE
    PROVE  /\ Counted(s) \in Scans /\ Counted(s).at = s.at /\ Counted(s).json_start = s.json_start
           /\ View(Counted(s)) = Lexed(View(s), Byte)
<1>1. PICK c, m : c = Byte /\ m = View(s)
  OBVIOUS
<1>2. /\ DOMAIN s = {"at", "json_start", "depth", "in_string", "escape_next"}
      /\ s.at \in Int /\ s.json_start \in Int /\ s.depth \in Int /\ s.in_string \in BOOLEAN
      /\ s = [at |-> s.at, json_start |-> s.json_start, depth |-> s.depth,
              in_string |-> s.in_string, escape_next |-> s.escape_next]
  BY DEF Scans
<1>3. /\ DOMAIN m = {"depth", "quoted", "escaped"} /\ m.escaped = FALSE
      /\ m.depth = s.depth /\ m.quoted = s.in_string
      /\ m = [depth |-> s.depth, quoted |-> s.in_string, escaped |-> FALSE]
  BY <1>1 DEF View
<1>4. CASE c = "\\" /\ s.in_string
  <2>1. Counted(s) = [s EXCEPT !.escape_next = TRUE]
    BY <1>1, <1>4 DEF Counted
  <2>2. Lexed(m, c) = [m EXCEPT !.escaped = TRUE]
    BY <1>3, <1>4 DEF Lexed
  <2>3. [s EXCEPT !.escape_next = TRUE] \in Scans
    BY <1>2 DEF Scans
  <2> QED
    BY <1>1, <1>2, <1>3, <2>1, <2>2, <2>3 DEF View
<1>5. CASE c = "\""
  <2>1. Counted(s) = [s EXCEPT !.in_string = ~ @]
    BY <1>1, <1>5 DEF Counted
  <2>2. Lexed(m, c) = [m EXCEPT !.quoted = ~ @]
    BY <1>3, <1>5 DEF Lexed
  <2>3. [s EXCEPT !.in_string = ~ @] \in Scans
    BY <1>2 DEF Scans
  <2> QED
    BY <1>1, <1>2, <1>3, <2>1, <2>2, <2>3 DEF View
<1>6. CASE c = "{" /\ ~s.in_string
  <2>1. Counted(s) = [s EXCEPT !.depth = @ + 1]
    BY <1>1, <1>6 DEF Counted
  <2>2. Lexed(m, c) = [m EXCEPT !.depth = @ + 1]
    BY <1>3, <1>6 DEF Lexed
  <2>3. [s EXCEPT !.depth = @ + 1] \in Scans
    BY <1>2 DEF Scans
  <2> QED
    BY <1>1, <1>2, <1>3, <2>1, <2>2, <2>3 DEF View
<1>7. CASE c = "}" /\ ~s.in_string
  <2>1. Counted(s) = [s EXCEPT !.depth = @ - 1]
    BY <1>1, <1>7 DEF Counted
  <2>2. Lexed(m, c) = [m EXCEPT !.depth = @ - 1]
    BY <1>3, <1>7 DEF Lexed
  <2>3. [s EXCEPT !.depth = @ - 1] \in Scans
    BY <1>2 DEF Scans
  <2> QED
    BY <1>1, <1>2, <1>3, <2>1, <2>2, <2>3 DEF View
<1>8. CASE ~(c = "\\" /\ s.in_string) /\ c # "\"" /\ (s.in_string \/ (c # "{" /\ c # "}"))
  <2>1. Counted(s) = s
    BY <1>1, <1>8 DEF Counted
  <2>2. Lexed(m, c) = m
    BY <1>3, <1>8 DEF Lexed
  <2> QED
    BY <1>1, <2>1, <2>2
<1> QED
  BY <1>4, <1>5, <1>6, <1>7, <1>8

LEMMA TurnedIs ==
    ASSUME scan \in Scans, InObject
    PROVE  /\ Turned(scan) \in Scans /\ Turned(scan).at = scan.at
           /\ Turned(scan).json_start = scan.json_start
           /\ View(Turned(scan)) = Lexed(View(scan), Byte)
<1>1. CASE scan.escape_next
  <2>1. Turned(scan) = [scan EXCEPT !.escape_next = FALSE]
    BY <1>1 DEF Turned, InObject
  <2>2. Lexed(View(scan), Byte) = [View(scan) EXCEPT !.escaped = FALSE]
    BY <1>1 DEF Lexed, View
  <2> QED
    BY <2>1, <2>2 DEF Scans, View
<1>2. CASE ~scan.escape_next
  <2>1. Turned(scan) = Counted(scan)
    BY <1>2 DEF Turned, InObject
  <2>2. scan.escape_next = FALSE
    BY <1>2 DEF Scans
  <2> QED
    BY <2>1, <2>2, CountedIs
<1> QED
  BY <1>1, <1>2

(* The scan ends a message where the depth of the text comes back to zero. *)
LEMMA ClosesIs ==
    ASSUME scan \in Scans, InObject, scan.depth > 0
    PROVE  Closes <=> Lexed(View(scan), Byte).depth = 0
<1>1. PICK c, m, n : c = Byte /\ m = View(scan) /\ n = Lexed(m, c)
  OBVIOUS
<1>2. m \in Modes /\ m.depth = scan.depth /\ m.quoted = scan.in_string /\ m.escaped = scan.escape_next
  BY <1>1, ViewIs DEF View
<1>3. /\ m.escaped => n.depth = m.depth
      /\ ~m.escaped => n.depth = IF ~m.quoted /\ c = "{" THEN m.depth + 1
                                 ELSE IF ~m.quoted /\ c = "}" THEN m.depth - 1 ELSE m.depth
  <2>1. m \in Modes /\ n = Lexed(m, c)
    BY <1>1, <1>2
  <2>2. m.escaped => n.depth = m.depth
    BY <2>1, LexedIs
  <2>3. ~m.escaped => n.depth = IF ~m.quoted /\ c = "{" THEN m.depth + 1
                                ELSE IF ~m.quoted /\ c = "}" THEN m.depth - 1 ELSE m.depth
    BY <2>1, LexedIs, ZenonT(60)
  <2> QED
    BY <2>2, <2>3, Zenon
<1>4. m.depth \in Int /\ m.depth > 0
  BY <1>2 DEF Modes
<1>5. Closes <=> (~m.escaped /\ ~m.quoted /\ c = "}" /\ m.depth = 1)
  BY <1>1, <1>2 DEF Closes
<1>6. n.depth = 0 <=> (~m.escaped /\ ~m.quoted /\ c = "}" /\ m.depth = 1)
  <2>1. PICK d, k : d = m.depth /\ k = n.depth
    OBVIOUS
  <2>2. d \in Int /\ d > 0
    BY <1>4, <2>1
  <2>3. CASE m.escaped
    BY <1>3, <2>1, <2>2, <2>3
  <2>4. CASE ~m.escaped /\ m.quoted
    BY <1>3, <2>1, <2>2, <2>4
  <2>5. CASE ~m.escaped /\ ~m.quoted /\ c = "}"
    <3>1. k = d - 1
      BY <1>3, <2>1, <2>5
    <3>2. k = 0 <=> d = 1
      BY <2>2, <3>1
    <3> QED
      BY <2>1, <2>5, <3>2, Zenon
  <2>6. CASE ~m.escaped /\ ~m.quoted /\ c # "}"
    <3>1. k = d + 1 \/ k = d
      BY <1>3, <2>1, <2>6
    <3>2. k # 0
      BY <2>2, <3>1
    <3> QED
      BY <2>1, <2>6, <3>2, Zenon
  <2> QED
    BY <2>3, <2>4, <2>5, <2>6
<1> QED
  BY <1>1, <1>5, <1>6

(* The first character of a message begins it.                             *)
LEMMA FirstTurn ==
    ASSUME scan \in Scans, scan.json_start = 0, View(scan) = Outset, Byte = "{"
    PROVE  /\ Turned(scan) \in Scans /\ Turned(scan).at = scan.at /\ Turned(scan).json_start = scan.at
           /\ View(Turned(scan)) = Lexed(Outset, "{")
<1>1. PICK s : s = [scan EXCEPT !.json_start = scan.at]
  OBVIOUS
<1>2. /\ s \in Scans /\ s.at = scan.at /\ s.json_start = scan.at
      /\ s.depth = scan.depth /\ s.in_string = scan.in_string /\ s.escape_next = scan.escape_next
  BY <1>1 DEF Scans
<1>3. View(s) = Outset
  BY <1>2 DEF View
<1>4. s.escape_next = FALSE
  BY <1>3 DEF View, Outset
<1>5. Turned(scan) = Counted(s)
  BY <1>1, Zenon DEF Turned
<1> QED
  BY <1>2, <1>3, <1>4, <1>5, CountedIs

-----------------------------------------------------------------------------
LEMMA LeftIs ==
    ASSUME ScanInv
    PROVE  /\ Left \in Seq(Texts) /\ Len(returned) \in 0 .. Len(inbound)
           /\ Left # <<>> => Len(returned) < Len(inbound)
           /\ Left # <<>> => /\ Head(Left) \in Texts /\ Len(returned) + 1 \in 0 .. Len(inbound)
                             /\ SubSeq(inbound, (Len(returned) + 1) + 1, Len(inbound)) = Tail(Left)
<1>1. inbound \in Seq(Texts) /\ Len(returned) \in Nat /\ Len(inbound) \in Nat /\ Len(returned) <= Len(inbound)
  BY LenProperties DEF ScanInv
<1>2. PICK k, w : k = Len(returned) /\ w = Left
  OBVIOUS
<1>3. k \in 0 .. Len(inbound) /\ w = SubSeq(inbound, k + 1, Len(inbound))
  BY <1>1, <1>2 DEF Left
<1>4. /\ w \in Seq(Texts) /\ (w # <<>> => k < Len(inbound))
      /\ k < Len(inbound) => /\ Head(w) \in Texts /\ k + 1 \in 0 .. Len(inbound)
                             /\ SubSeq(inbound, (k + 1) + 1, Len(inbound)) = Tail(w)
  BY <1>1, <1>3, OneLess, SMTT(60)
<1> QED
  BY <1>2, <1>3, <1>4, Zenon

(* The next character of the buffer is the next one of the stream.         *)
LEMMA ByteIs ==
    ASSUME ScanInv, MoreToScan, NEW p, p = read_buf \o unread
    PROVE  /\ scan \in Scans /\ scan.at \in Nat /\ 1 <= scan.at /\ Len(read_buf) \in Nat
           /\ scan.at <= Len(read_buf) /\ Len(p) \in Nat /\ Len(read_buf) <= Len(p)
           /\ Byte = p[scan.at]
<1>1. /\ scan \in Scans /\ scan.at \in 1 .. Len(read_buf) + 1 /\ scan.at <= Len(read_buf)
      /\ read_buf \in Seq(Characters) /\ unread \in Seq(Characters)
  BY DEF ScanInv, MoreToScan
<1>2. PICK r, u : r = read_buf /\ u = unread
  OBVIOUS
<1>3. r \in Seq(Characters) /\ u \in Seq(Characters) /\ p = r \o u
  BY <1>1, <1>2
<1>4. /\ Len(p) = Len(r) + Len(u) /\ Len(r) \in Nat /\ Len(u) \in Nat
      /\ \A k \in 1 .. Len(r) : p[k] = r[k]
  BY <1>3, Cut
<1>5. scan.at \in 1 .. Len(r) /\ scan.at \in Nat /\ 1 <= scan.at /\ Len(r) <= Len(p) /\ Len(p) \in Nat
  BY <1>1, <1>2, <1>4
<1> QED
  BY <1>1, <1>2, <1>4, <1>5 DEF Byte

(* A turn that does not end a message: the scan gets one character on.     *)
LEMMA ScanByteStep ==
    ASSUME ScanInv, ScanByte PROVE ScanInv'
<1>1. PICK e \in Endings, lead \in Endings : InStep(e, lead)
  BY DEF ScanInv
<1>2. PICK p, q : p = lead \o Stream(Left, e) /\ q = Left
  OBVIOUS
<1>3. /\ scan \in Scans /\ scan.at \in Nat /\ 1 <= scan.at /\ Len(read_buf) \in Nat
      /\ scan.at <= Len(read_buf) /\ Len(p) \in Nat /\ Len(read_buf) <= Len(p)
      /\ Byte = p[scan.at]
  BY <1>1, <1>2, ByteIs DEF ScanByte, InStep
<1>4. /\ ~Closes /\ reading /\ reading' = reading /\ inbound' = inbound /\ unread' = unread
      /\ read_buf' = read_buf /\ returned' = returned
      /\ scan' = [Turned(scan) EXCEPT !.at = @ + 1]
  BY DEF ScanByte, MoreToScan
<1>5. q \in Seq(Texts) /\ Left' = q
  BY <1>2, <1>4, LeftIs DEF Left
<1>6. SUFFICES scan' \in Scans /\ scan'.at = scan.at + 1 /\ (BeforeNext(lead) \/ WithinNext(lead))'
  <2>1. InStep(e, lead)'
    BY <1>1, <1>2, <1>4, <1>5, <1>6 DEF InStep
  <2>2. scan'.at \in 1 .. Len(read_buf') + 1
    BY <1>3, <1>4, <1>6
  <2> QED
    BY <1>4, <1>6, <2>1, <2>2 DEF ScanInv
<1>7. ASSUME Turned(scan) \in Scans, Turned(scan).at = scan.at
      PROVE  /\ scan' \in Scans /\ scan'.at = scan.at + 1 /\ scan'.json_start = Turned(scan).json_start
             /\ View(scan') = View(Turned(scan))
  <2>1. PICK s : s = Turned(scan)
    OBVIOUS
  <2>2. s \in Scans /\ s.at = scan.at /\ scan' = [s EXCEPT !.at = @ + 1]
    BY <1>4, <1>7, <2>1
  <2>3. s.at + 1 \in Int
    BY <1>3, <2>2
  <2> QED
    BY <2>1, <2>2, <2>3 DEF Scans, View
<1>8. Len(lead) \in Nat /\ lead \in Seq(Characters) /\ \A k \in 1 .. Len(lead) : lead[k] = "\n"
  BY EndingsAre, LenProperties
<1>9. Stream(q, e) \in Seq(Characters) /\ (q = <<>> => Stream(q, e) = <<>>)
  BY <1>5, StreamIs
<1>10. /\ Len(p) = Len(lead) + Len(Stream(q, e)) /\ \A k \in 1 .. Len(lead) : p[k] = lead[k]
  BY <1>2, <1>8, <1>9, Cut
<1>11. BeforeNext(lead) \/ WithinNext(lead)
  BY <1>1, <1>4 DEF InStep
<1>12. CASE BeforeNext(lead) /\ scan.at <= Len(lead)
  <2>1. Byte = "\n"
    BY <1>3, <1>8, <1>10, <1>12
  <2>2. Turned(scan) = scan
    BY <1>12, <2>1 DEF Turned, BeforeNext
  <2>3. /\ scan' \in Scans /\ scan'.at = scan.at + 1 /\ scan'.json_start = 0 /\ View(scan') = Outset
    BY <1>3, <1>7, <1>12, <2>2 DEF BeforeNext
  <2>4. scan'.at <= Len(lead) + 1
    BY <1>3, <1>8, <1>12, <2>3
  <2> QED
    BY <2>3, <2>4 DEF BeforeNext
<1>13. ASSUME q # <<>>
       PROVE  /\ Head(q) \in Texts /\ Len(Head(q)) \in Nat \ {0} /\ Head(q)[1] = "{"
              /\ \A k \in 1 .. Len(Head(q)) : p[Len(lead) + k] = Head(q)[k]
              /\ Mode(Head(q), 0) = Outset
              /\ \A n \in Nat : n + 1 \in 1 .. Len(Head(q)) =>
                    Mode(Head(q), n + 1) = Lexed(Mode(Head(q), n), Head(q)[n + 1])
              /\ \A n \in 1 .. Len(Head(q)) : Mode(Head(q), n).depth > 0 <=> n < Len(Head(q))
  <2>1. Head(q) \in Texts
    BY <1>5, <1>13, HeadTailProperties
  <2>2. \A k \in 1 .. Len(Head(q)) : p[Len(lead) + k] = Head(q)[k]
    <3>1. Ahead(lead \o Stream(q, e), lead, Head(q), e \o Stream(Tail(q), e))
      BY <1>5, <1>13, NextIn
    <3>2. p = lead \o Stream(q, e)
      BY <1>2
    <3> QED
      BY <3>1, <3>2 DEF Ahead
  <2> QED
    BY <2>1, <2>2, TextsAre
<1>14. ASSUME q # <<>>, NEW n \in Nat, n + 1 \in 1 .. Len(Head(q)), scan.at = Len(lead) + (n + 1),
              Turned(scan) \in Scans, Turned(scan).at = scan.at, Turned(scan).json_start = Len(lead) + 1,
              View(Turned(scan)) = Mode(Head(q), n + 1), Mode(Head(q), n + 1).depth > 0
       PROVE  scan' \in Scans /\ scan'.at = scan.at + 1 /\ WithinNext(lead)'
  <2>1. scan' \in Scans /\ scan'.at = scan.at + 1 /\ scan'.json_start = Len(lead) + 1
        /\ View(scan') = Mode(Head(q), n + 1)
    BY <1>7, <1>14
  <2>2. PICK m : m = Len(Head(q))
    OBVIOUS
  <2>3. n + 1 < m /\ m \in Nat
    BY <1>13, <1>14, <2>2
  <2>4. (scan'.at - 1) - Len(lead) = n + 1 /\ n + 1 \in 1 .. m - 1
    BY <1>8, <1>14, <2>1, <2>3
  <2> QED
    BY <1>5, <1>14, <2>1, <2>2, <2>4 DEF WithinNext
<1>15. CASE BeforeNext(lead) /\ ~(scan.at <= Len(lead))
  <2>1. scan.at = Len(lead) + 1
    BY <1>3, <1>8, <1>15 DEF BeforeNext
  <2>2. q # <<>>
    <3>1. q = <<>> => Len(Stream(q, e)) = 0
      BY <1>9, EmptySeq
    <3> QED
      BY <1>3, <1>8, <1>10, <2>1, <3>1
  <2>3. PICK t : t = Head(q)
    OBVIOUS
  <2>4. /\ t \in Texts /\ Len(t) \in Nat \ {0} /\ t[1] = "{"
        /\ \A k \in 1 .. Len(t) : p[Len(lead) + k] = t[k]
        /\ Mode(t, 0) = Outset
        /\ \A n \in Nat : n + 1 \in 1 .. Len(t) => Mode(t, n + 1) = Lexed(Mode(t, n), t[n + 1])
    BY <1>13, <2>2, <2>3
  <2>5. 1 \in 1 .. Len(t) /\ 0 \in Nat /\ 0 + 1 = 1
    <3>1. \A m \in Nat \ {0} : 1 \in 1 .. m
      OBVIOUS
    <3>2. Len(t) \in Nat \ {0}
      BY <2>4
    <3> QED
      BY <3>1, <3>2
  <2>6. Byte = "{" /\ Mode(t, 1) = Lexed(Outset, "{")
    BY <1>3, <2>1, <2>4, <2>5
  <2>7. /\ Turned(scan) \in Scans /\ Turned(scan).at = scan.at /\ Turned(scan).json_start = scan.at
        /\ View(Turned(scan)) = Mode(t, 1)
    BY <1>3, <1>15, <2>6, FirstTurn DEF BeforeNext
  <2>8. Mode(t, 1).depth > 0
    <3>1. Outset \in Modes /\ Outset.depth = 0 /\ ~Outset.quoted /\ ~Outset.escaped
      BY DEF Outset, Modes
    <3>2. PICK m, n : m = Outset /\ n = Mode(t, 1)
      OBVIOUS
    <3>3. m \in Modes /\ n = Lexed(m, "{") /\ ~m.escaped /\ ~m.quoted
      BY <2>6, <3>1, <3>2
    <3>4. n.depth = IF ~m.quoted /\ "{" = "{" THEN m.depth + 1
                    ELSE IF ~m.quoted /\ "{" = "}" THEN m.depth - 1 ELSE m.depth
      BY <3>3, LexedIs, Zenon
    <3>5. n.depth = m.depth + 1
      BY <3>3, <3>4
    <3> QED
      BY <3>1, <3>2, <3>5
  <2> QED
    BY <1>14, <2>1, <2>2, <2>3, <2>5, <2>7, <2>8
<1>16. CASE WithinNext(lead)
  <2>1. PICK t, n : t = Head(q) /\ n = (scan.at - 1) - Len(lead)
    OBVIOUS
  <2>2. /\ q # <<>> /\ scan.json_start = Len(lead) + 1
        /\ n \in 1 .. Len(t) - 1 /\ View(scan) = Mode(t, n)
    BY <1>2, <1>16, <2>1 DEF WithinNext
  <2>3. /\ t \in Texts /\ Len(t) \in Nat \ {0}
        /\ \A k \in 1 .. Len(t) : p[Len(lead) + k] = t[k]
        /\ \A k \in Nat : k + 1 \in 1 .. Len(t) => Mode(t, k + 1) = Lexed(Mode(t, k), t[k + 1])
        /\ \A k \in 1 .. Len(t) : Mode(t, k).depth > 0 <=> k < Len(t)
    BY <1>13, <2>1, <2>2
  <2>4. n \in Nat /\ n \in 1 .. Len(t) /\ n < Len(t) /\ n + 1 \in 1 .. Len(t) /\ n + 1 \in 0 .. Len(t)
        /\ scan.at = Len(lead) + (n + 1)
    <3>1. PICK l, m, a : l = Len(lead) /\ m = Len(t) /\ a = scan.at
      OBVIOUS
    <3>2. l \in Nat /\ m \in Nat \ {0} /\ a \in Nat /\ n = (a - 1) - l /\ n \in 1 .. m - 1
      BY <1>3, <1>8, <2>1, <2>2, <2>3, <3>1
    <3>3. n \in Nat /\ n \in 1 .. m /\ n < m /\ n + 1 \in 1 .. m /\ n + 1 \in 0 .. m /\ a = l + (n + 1)
      BY <3>2
    <3> QED
      BY <3>1, <3>3
  <2>5. Byte = t[n + 1] /\ Mode(t, n + 1) = Lexed(Mode(t, n), t[n + 1]) /\ Mode(t, n).depth > 0
    BY <1>3, <2>3, <2>4
  <2>6. scan.depth > 0 /\ InObject
    BY <1>8, <2>2, <2>5 DEF View, InObject
  <2>7. /\ Turned(scan) \in Scans /\ Turned(scan).at = scan.at /\ Turned(scan).json_start = Len(lead) + 1
        /\ View(Turned(scan)) = Mode(t, n + 1)
    BY <1>3, <2>2, <2>5, <2>6, TurnedIs
  <2>8. Mode(t, n + 1).depth # 0
    BY <1>3, <1>4, <2>2, <2>5, <2>6, ClosesIs
  <2>9. Mode(t, n + 1).depth > 0
    <3>1. CASE n + 1 < Len(t)
      BY <2>3, <2>4, <3>1
    <3>2. CASE n + 1 = Len(t)
      BY <2>3, <2>8, <3>2, TextsEnd
    <3> QED
      BY <2>3, <2>4, <3>1, <3>2
  <2> QED
    BY <1>14, <2>1, <2>2, <2>4, <2>7, <2>9
<1> QED
  BY <1>11, <1>12, <1>15, <1>16

(* A turn that ends a message: it is the next one, whole, and what has     *)
(* been read behind it stays.                                              *)
LEMMA ReturnMessageStep ==
    ASSUME ScanInv, ReturnMessage
    PROVE  /\ ScanInv'
           /\ Left # <<>> /\ returned' = Append(returned, Head(Left)) /\ Left' = Tail(Left)
<1>1. PICK e \in Endings, lead \in Endings : InStep(e, lead)
  BY DEF ScanInv
<1>2. PICK p, q, t, n : /\ p = lead \o Stream(Left, e) /\ q = Left /\ t = Head(q)
                        /\ n = (scan.at - 1) - Len(lead)
  OBVIOUS
<1>3. /\ scan \in Scans /\ scan.at \in Nat /\ 1 <= scan.at /\ Len(read_buf) \in Nat
      /\ scan.at <= Len(read_buf) /\ Len(p) \in Nat /\ Len(read_buf) <= Len(p)
      /\ Byte = p[scan.at] /\ p = read_buf \o unread
  BY <1>1, <1>2, ByteIs DEF ReturnMessage, InStep
<1>4. /\ Closes /\ reading /\ reading' = FALSE /\ inbound' = inbound /\ unread' = unread
      /\ returned' = Append(returned, SubSeq(read_buf, scan.json_start, scan.at))
      /\ read_buf' = SubSeq(read_buf, scan.at + 1, Len(read_buf))
  BY DEF ReturnMessage, MoreToScan
<1>5. WithinNext(lead) /\ InObject
  BY <1>1, <1>4 DEF InStep, BeforeNext, Closes, InObject
<1>6. /\ q # <<>> /\ scan.json_start = Len(lead) + 1
      /\ n \in 1 .. Len(t) - 1 /\ View(scan) = Mode(t, n)
  BY <1>2, <1>5 DEF WithinNext
<1>7. q \in Seq(Texts)
  BY <1>2, LeftIs
<1>8. /\ t \in Texts /\ p \in Seq(Characters) /\ Len(lead) \in Nat
      /\ \A k \in 1 .. Len(t) : p[Len(lead) + k] = t[k]
      /\ SubSeq(p, Len(lead) + 1, Len(lead) + Len(t)) = t
      /\ SubSeq(p, (Len(lead) + Len(t)) + 1, Len(p)) = e \o Stream(Tail(q), e)
  <2>1. p = lead \o Stream(q, e)
    BY <1>2
  <2>2. Ahead(lead \o Stream(q, e), lead, Head(q), e \o Stream(Tail(q), e))
    BY <1>6, <1>7, NextIn
  <2>3. Ahead(p, lead, t, e \o Stream(Tail(q), e))
    BY <1>2, <2>1, <2>2, Zenon
  <2> QED
    BY <2>3, Zenon DEF Ahead
<1>9. /\ Len(t) \in Nat \ {0}
      /\ \A k \in Nat : k + 1 \in 1 .. Len(t) => Mode(t, k + 1) = Lexed(Mode(t, k), t[k + 1])
      /\ \A k \in 1 .. Len(t) : Mode(t, k).depth > 0 <=> k < Len(t)
  BY <1>8, TextsAre
<1>10. /\ n \in Nat /\ n \in 1 .. Len(t) /\ n < Len(t) /\ n + 1 \in 1 .. Len(t)
       /\ scan.at = Len(lead) + (n + 1) /\ (n + 1 < Len(t) \/ n + 1 = Len(t))
  <2>1. PICK l, m, a : l = Len(lead) /\ m = Len(t) /\ a = scan.at
    OBVIOUS
  <2>2. l \in Nat /\ m \in Nat \ {0} /\ a \in Nat /\ n = (a - 1) - l /\ n \in 1 .. m - 1
    BY <1>2, <1>3, <1>6, <1>8, <1>9, <2>1
  <2>3. /\ n \in Nat /\ n \in 1 .. m /\ n < m /\ n + 1 \in 1 .. m /\ a = l + (n + 1)
        /\ (n + 1 < m \/ n + 1 = m)
    BY <2>2
  <2> QED
    BY <2>1, <2>3
<1>11. Byte = t[n + 1] /\ Mode(t, n + 1) = Lexed(Mode(t, n), t[n + 1]) /\ Mode(t, n).depth > 0
  BY <1>3, <1>8, <1>9, <1>10
<1>12. scan.depth > 0
  BY <1>6, <1>11 DEF View
<1>13. Mode(t, n + 1).depth = 0
  BY <1>3, <1>4, <1>5, <1>6, <1>11, <1>12, ClosesIs
<1>14. n + 1 = Len(t)
  <2>1. CASE n + 1 < Len(t)
    <3>1. Mode(t, n + 1).depth > 0
      BY <1>9, <1>10, <2>1
    <3> QED
      BY <1>13, <3>1
  <2> QED
    BY <1>10, <2>1
<1>15. scan.at = Len(lead) + Len(t)
  BY <1>10, <1>14
<1>16. PICK r, u, a, l : r = read_buf /\ u = unread /\ a = scan.at /\ l = Len(lead) + 1
  OBVIOUS
<1>17. /\ r \in Seq(Characters) /\ u \in Seq(Characters) /\ p = r \o u
       /\ a \in 1 .. Len(r) /\ l \in 1 .. Len(r) /\ a \in 0 .. Len(r)
  <2>1. r \in Seq(Characters) /\ u \in Seq(Characters) /\ p = r \o u
    BY <1>3, <1>16 DEF ScanInv
  <2>2. /\ a \in Nat /\ 1 <= a /\ a <= Len(r) /\ Len(r) \in Nat /\ l \in Nat /\ 1 <= l /\ l <= a
    BY <1>3, <1>8, <1>9, <1>15, <1>16
  <2> QED
    BY <2>1, <2>2
<1>18. SubSeq(r, l, a) = t
  <2>1. SubSeq(r \o u, l, a) = SubSeq(r, l, a)
    BY <1>17, SubSeqOfConcat1
  <2>2. SubSeq(p, l, a) = t
    BY <1>8, <1>15, <1>16
  <2> QED
    BY <1>17, <2>1, <2>2
<1>19. read_buf' \in Seq(Characters) /\ read_buf' \o unread' = e \o Stream(Tail(q), e)
  <2>1. PICK b : b = SubSeq(r, a + 1, Len(r))
    OBVIOUS
  <2>2. b \in Seq(Characters) /\ b \o u = SubSeq(p, a + 1, Len(p))
    <3>1. /\ SubSeq(r, a + 1, Len(r)) \in Seq(Characters)
          /\ Joined(SubSeq(r, a + 1, Len(r)), u) = SubSeq(Joined(r, u), a + 1, Len(Joined(r, u)))
      BY <1>17, Drained
    <3>2. p = Joined(r, u) /\ b \o u = Joined(b, u)
      BY <1>17 DEF Joined
    <3> QED
      BY <2>1, <3>1, <3>2
  <2>3. SubSeq(p, a + 1, Len(p)) = e \o Stream(Tail(q), e)
    BY <1>8, <1>15, <1>16
  <2>4. read_buf' = b /\ unread' = u
    BY <1>4, <1>16, <2>1
  <2> QED
    BY <2>2, <2>3, <2>4
<1>20. returned' = Append(returned, t)
  BY <1>4, <1>6, <1>16, <1>18
<1>21. returned' \in Seq(Texts) /\ Len(returned') = Len(returned) + 1
  BY <1>8, <1>20, AppendProperties DEF ScanInv
<1>22. Left' = Tail(q) /\ Len(returned') <= Len(inbound')
  <2>1. /\ Len(returned) + 1 \in 0 .. Len(inbound)
        /\ SubSeq(inbound, (Len(returned) + 1) + 1, Len(inbound)) = Tail(q)
    BY <1>2, <1>6, LeftIs
  <2>2. Len(returned') <= Len(inbound')
    BY <1>4, <1>21, <2>1
  <2> QED
    BY <1>4, <1>21, <2>1, <2>2 DEF Left
<1>23. InStep(e, e)'
  BY <1>4, <1>19, <1>22 DEF InStep
<1> QED
  BY <1>2, <1>4, <1>6, <1>19, <1>20, <1>21, <1>22, <1>23 DEF ScanInv

(* The other steps read nothing from the buffer: they start a scan, add    *)
(* characters to it, or stop.                                              *)
LEMMA FreshIs ==
    /\ Fresh \in Scans /\ Fresh.at = 1 /\ Fresh.json_start = 0 /\ View(Fresh) = Outset
    /\ \A n \in Nat : Fresh.at \in 1 .. n + 1
<1>1. Fresh \in Scans /\ Fresh.at = 1 /\ Fresh.json_start = 0 /\ View(Fresh) = Outset
  BY DEF Fresh, Scans, View, Outset
<1>2. \A n \in Nat : 1 \in 1 .. n + 1
  OBVIOUS
<1> QED
  BY <1>1, <1>2

LEMMA ReadStep ==
    ASSUME ScanInv, NEW n \in 1 .. Len(unread), ReadMore(n) PROVE ScanInv'
<1>1. PICK e \in Endings, lead \in Endings : InStep(e, lead)
  BY DEF ScanInv
<1>2. PICK r, u : r = read_buf /\ u = unread
  OBVIOUS
<1>3. r \in Seq(Characters) /\ u \in Seq(Characters)
  BY <1>2 DEF ScanInv
<1>4. n \in 0 .. Len(u)
  <2>1. Len(u) \in Nat
    BY <1>3, LenProperties
  <2> QED
    BY <1>2, <2>1
<1>5. /\ Joined(r, SubSeq(u, 1, n)) \in Seq(Characters) /\ SubSeq(u, n + 1, Len(u)) \in Seq(Characters)
      /\ Joined(Joined(r, SubSeq(u, 1, n)), SubSeq(u, n + 1, Len(u))) = Joined(r, u)
  BY <1>3, <1>4, Regroup
<1>6. PICK v, w : v = Joined(r, SubSeq(u, 1, n)) /\ w = SubSeq(u, n + 1, Len(u))
  OBVIOUS
<1>7. v \in Seq(Characters) /\ w \in Seq(Characters) /\ v \o w = r \o u
  BY <1>5, <1>6 DEF Joined
<1>8. /\ read_buf' = v /\ unread' = w /\ scan' = Fresh
      /\ UNCHANGED <<inbound, reading, returned, ended, dropped>>
  BY <1>2, <1>6 DEF ReadMore, Joined
<1>9. Len(v) \in Nat /\ Len(lead) \in Nat
  BY <1>7, EndingsAre, LenProperties
<1>10. BeforeNext(lead)'
  BY <1>8, <1>9, FreshIs DEF BeforeNext
<1>11. Left' = Left
  BY <1>8 DEF Left
<1>12. InStep(e, lead)'
  BY <1>1, <1>2, <1>7, <1>8, <1>10, <1>11 DEF InStep
<1>13. scan' \in Scans /\ scan'.at \in 1 .. Len(read_buf') + 1
  BY <1>8, <1>9, FreshIs
<1> QED
  BY <1>7, <1>8, <1>12, <1>13 DEF ScanInv

LEMMA BeginStep ==
    ASSUME ScanInv, RecvMessage PROVE ScanInv'
<1>1. PICK e \in Endings, lead \in Endings : InStep(e, lead)
  BY DEF ScanInv
<1>2. /\ reading' = TRUE /\ scan' = Fresh
      /\ UNCHANGED <<inbound, unread, read_buf, returned, ended, dropped>>
  BY DEF RecvMessage
<1>3. Len(read_buf) \in Nat /\ Len(lead) \in Nat
  BY EndingsAre, LenProperties DEF ScanInv
<1>4. BeforeNext(lead)'
  BY <1>2, <1>3, FreshIs DEF BeforeNext
<1>5. Left' = Left
  BY <1>2 DEF Left
<1>6. InStep(e, lead)'
  BY <1>1, <1>2, <1>4, <1>5 DEF InStep
<1>7. scan' \in Scans /\ scan'.at \in 1 .. Len(read_buf') + 1
  BY <1>2, <1>3, FreshIs
<1> QED
  BY <1>2, <1>6, <1>7 DEF ScanInv

LEMMA StopStep ==
    ASSUME ScanInv, reading' = FALSE, UNCHANGED <<inbound, unread, read_buf, returned>> PROVE ScanInv'
<1>1. PICK e \in Endings, lead \in Endings : InStep(e, lead)
  BY DEF ScanInv
<1>2. InStep(e, lead)'
  BY <1>1 DEF InStep, Left
<1> QED
  BY <1>2 DEF ScanInv

(* The stream ends while the scan waits: nothing is left of a message.     *)
LEMMA NothingLeft ==
    ASSUME ScanInv, ReadNothing PROVE Left = <<>>
<1>1. PICK e \in Endings, lead \in Endings : InStep(e, lead)
  BY DEF ScanInv
<1>2. PICK q, t, l, m, a, b : /\ q = Left /\ t = Head(q) /\ l = Len(lead) /\ m = Len(t)
                              /\ a = scan.at /\ b = Len(read_buf)
  OBVIOUS
<1>3. SUFFICES ASSUME q # <<>> PROVE FALSE
  BY <1>2
<1>4. reading /\ unread = <<>> /\ a > b /\ a \in 1 .. b + 1 /\ b \in Nat /\ read_buf \in Seq(Characters)
  BY <1>2, LenProperties DEF ReadNothing, Waiting, ScanInv
<1>5. read_buf = lead \o Stream(q, e)
  <2>1. read_buf \o <<>> = read_buf
    BY <1>4, ConcatEmptySeq
  <2> QED
    BY <1>1, <1>2, <1>4, <2>1 DEF InStep
<1>6. q \in Seq(Texts)
  BY <1>2, LeftIs
<1>7. Ahead(read_buf, lead, t, e \o Stream(Tail(q), e))
  BY <1>2, <1>3, <1>5, <1>6, NextIn
<1>8. t \in Texts /\ l \in Nat /\ m \in Nat /\ l + m <= b
  BY <1>2, <1>7 DEF Ahead
<1>9. m \in Nat \ {0}
  BY <1>2, <1>8, TextsAre
<1>10. a = b + 1
  BY <1>4
<1>11. a <= l + 1 \/ (a - 1) - l \in 1 .. m - 1
  BY <1>1, <1>2, <1>4 DEF InStep, BeforeNext, WithinNext
<1> QED
  BY <1>4, <1>8, <1>9, <1>10, <1>11

LEMMA ScanInvInit == ScannerInit => ScanInv
<1> SUFFICES ASSUME ScannerInit PROVE ScanInv
  OBVIOUS
<1>1. inbound \in Seq(Texts)
  <2>1. PICK m \in 0 .. MaxMessages : inbound \in [1 .. m -> Texts]
    BY DEF ScannerInit, BoundedSeq, SeqOf
  <2>2. m \in Nat
    BY TextsAssumption
  <2> QED
    BY <2>1, <2>2, SeqDef
<1>2. PICK e \in Endings : unread = Stream(inbound, e)
  BY DEF ScannerInit
<1>3. read_buf = <<>> /\ reading = FALSE /\ returned = <<>>
  BY DEF ScannerInit
<1>4. /\ <<>> \in Seq(Texts) /\ <<>> \in Seq(Characters) /\ Len(<<>>) = 0 /\ Len(inbound) \in Nat
      /\ <<>> \in Endings /\ 0 + 1 = 1
  BY <1>1, EmptySeq, LenProperties DEF Endings
<1>5. Left = inbound
  <2>1. SubSeq(inbound, 1, Len(inbound)) = inbound
    BY <1>1, SubSeqFull
  <2>2. Len(returned) + 1 = 1
    BY <1>3, <1>4
  <2> QED
    BY <2>1, <2>2 DEF Left
<1>6. InStep(e, <<>>)
  BY <1>2, <1>3, <1>5 DEF InStep
<1>7. unread \in Seq(Characters)
  BY <1>1, <1>2, StreamIs
<1>8. returned \in Seq(Texts) /\ read_buf \in Seq(Characters) /\ Len(returned) <= Len(inbound)
  BY <1>3, <1>4
<1>9. \E f \in Endings, lead \in Endings : InStep(f, lead)
  BY <1>4, <1>6
<1> QED
  BY <1>1, <1>3, <1>7, <1>8, <1>9 DEF ScanInv

LEMMA ScanInvNext == ScanInv /\ [ScannerNext]_scanner => ScanInv'
<1> SUFFICES ASSUME ScanInv, [ScannerNext]_scanner PROVE ScanInv'
  OBVIOUS
<1>1. CASE RecvMessage
  BY <1>1, BeginStep
<1>2. CASE ScanByte
  BY <1>2, ScanByteStep
<1>3. CASE ReturnMessage
  BY <1>3, ReturnMessageStep
<1>4. CASE ReadSome
  BY <1>4, ReadStep DEF ReadSome
<1>5. CASE ReadNothing
  BY <1>5, StopStep DEF ReadNothing
<1>6. CASE DropReading
  BY <1>6, StopStep DEF DropReading
<1>7. CASE UNCHANGED scanner
  <2>1. UNCHANGED <<inbound, unread, read_buf, reading, scan, returned>>
    BY <1>7 DEF scanner
  <2>2. PICK e \in Endings, lead \in Endings : InStep(e, lead)
    BY DEF ScanInv
  <2>3. InStep(e, lead)'
    BY <2>1, <2>2 DEF InStep, Left, BeforeNext, WithinNext
  <2> QED
    BY <2>1, <2>3 DEF ScanInv
<1> QED
  BY <1>1, <1>2, <1>3, <1>4, <1>5, <1>6, <1>7 DEF ScannerNext

(* Each step of the scanner is one of the reader that was promised, or none. *)
LEMMA ScannerKeepsPromise ==
    ScanInv /\ [ScannerNext]_scanner => [Fifo!Next]_<<Left, returned, ended>>
<1> SUFFICES ASSUME ScanInv, [ScannerNext]_scanner
             PROVE  Fifo!Next \/ UNCHANGED <<Left, returned, ended>>
  OBVIOUS
<1>1. CASE ReturnMessage
  <2>1. Left # <<>> /\ returned' = Append(returned, Head(Left)) /\ Left' = Tail(Left)
    BY <1>1, ReturnMessageStep
  <2>2. ended' = ended
    BY <1>1 DEF ReturnMessage
  <2> QED
    BY <2>1, <2>2 DEF Fifo!Next, Fifo!Take, Left
<1>2. CASE ReadNothing
  <2>1. Left = <<>>
    BY <1>2, NothingLeft
  <2>2. ended' = TRUE /\ UNCHANGED <<Left, returned>>
    BY <1>2 DEF ReadNothing, Left
  <2> QED
    BY <2>1, <2>2 DEF Fifo!Next, Fifo!End, Left
<1>3. CASE RecvMessage \/ ScanByte \/ ReadSome \/ DropReading \/ UNCHANGED scanner
  BY <1>3 DEF RecvMessage, ScanByte, ReadSome, ReadMore, DropReading, scanner, Left
<1> QED
  BY <1>1, <1>2, <1>3 DEF ScannerNext

(* The messages of the peer are returned whole and in the order they were  *)
(* sent, and the end after the last: for any JSON objects, any number of   *)
(* them, and any pieces they come in, futures dropped between them or not. *)
THEOREM InOrder == ScannerSpec => MessagesInOrder
<1>1. ScannerInit => Fifo!Init
  BY DEF ScannerInit, Fifo!Init
<1>2. ScanInv /\ [ScannerNext]_scanner
        => [Fifo!Next]_<<SubSeq(inbound, Len(returned) + 1, Len(inbound)), returned, ended>>
  BY ScannerKeepsPromise DEF Left
<1> QED
  BY <1>1, <1>2, ScanInvInit, ScanInvNext, PTL DEF ScannerSpec, MessagesInOrder, Fifo!Spec
=============================================================================
