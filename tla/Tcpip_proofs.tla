---------------------------- MODULE Tcpip_proofs ----------------------------
(***************************************************************************)
(* Proofs about Tcpip, for any number of messages, connections, partial    *)
(* writes and tries.                                                       *)
(*                                                                         *)
(* Each of them needs to know what anydata's loop over a buffer computes.  *)
(* The loop is a recursive function of the index (PacketsFrom, StopFrom);  *)
(* that there is one is proved by building it from the end of the buffer   *)
(* (Defined), and what holds of all its values by going through the        *)
(* indexes in the same direction (Downward).                               *)
(*                                                                         *)
(* Whole messages: nothing is left over, and the packets are the texts of  *)
(* what was read (AllWhole). Messages cut anywhere: pieces are written in  *)
(* the order Before, the connections carry them in that order, one after   *)
(* the other (WireInTurn, Connecting), so that what was delivered or is    *)
(* left over comes before all that is still to be read (Old).              *)
(*                                                                         *)
(* The refinement of Channel: a write makes one message more whole at most *)
(* (Counts, CountsMore), later than all there are (SentIsLatest), a read   *)
(* of whole messages takes them from the front (CountsBehind).             *)
(***************************************************************************)
EXTENDS Tcpip, WellFoundedInduction, TLAPS

\* A connection waits in the backlog before it is accepted, and _sockfd is set
\* in newNetConnection only.
IInv ==
    /\ pc \in {"start", "accept", "read", "crashed"}
    /\ NoneLeftOpen
    /\ pc = "start" => serverEnd = {}

\* However a read is framed, anydata closes _sockfd or goes on with it.
LEMMA AnydataInv ==
    ASSUME IInv, NEW n \in Nat, Anydata(n)
    PROVE  IInv'
<1>1. sockfd' = sockfd /\ pc = "read"
  BY DEF Anydata
<1>2. \/ pc' = "accept" /\ serverEnd' = serverEnd \ {sockfd}
      \/ pc' = pc /\ serverEnd' = serverEnd
  BY DEF Anydata, CloseNet
<1> QED
  BY <1>1, <1>2 DEF IInv, NoneLeftOpen

LEMMA DaemonInv == IInv /\ Daemon => IInv'
<1> SUFFICES ASSUME IInv, Daemon PROVE IInv'
  OBVIOUS
<1>1. CASE CreateNetServer
  BY <1>1 DEF CreateNetServer, IInv, NoneLeftOpen
<1>2. CASE NewNetConnection
  BY <1>2 DEF NewNetConnection, IInv, NoneLeftOpen
<1>3. CASE \E n \in 1..(4 * MaxMessages + 3 * MaxPartial) : Anydata(n)
  <2>1. PICK n \in 1..(4 * MaxMessages + 3 * MaxPartial) : Anydata(n)
    BY <1>3
  <2>2. n \in Nat
    BY TcpipAssumption
  <2> QED
    BY <2>1, <2>2, AnydataInv
<1>4. CASE AnydataEof
  BY <1>4 DEF AnydataEof, CloseNet, IInv, NoneLeftOpen
<1>5. CASE AnydataCrash
  BY <1>5 DEF AnydataCrash, IInv, NoneLeftOpen
<1> QED
  BY <1>1, <1>2, <1>3, <1>4, <1>5 DEF Daemon

\* No step of the client touches the daemon.
LEMMA ClientInv == Client => UNCHANGED daemonVars
BY DEF Client, CreateNetClient, ConnectRefused, ConnectAgain, WriteNet, WritePart,
       WriteAll, WriteTimeout, WriteError, ClientCloseNet

LEMMA NextInv == IInv /\ [Next]_vars => IInv'
<1> SUFFICES ASSUME IInv, [Next]_vars PROVE IInv'
  OBVIOUS
<1>1. CASE Daemon
  BY <1>1, DaemonInv
<1>2. CASE UNCHANGED daemonVars
  BY <1>2 DEF daemonVars, IInv, NoneLeftOpen
<1>3. CASE UNCHANGED vars
  BY <1>2, <1>3 DEF vars
<1> QED
  BY <1>1, <1>2, <1>3, ClientInv DEF Next

\* However the two ends' steps interleave, the daemon has no connection open
\* behind the one it reads from: newNetConnection, which overwrites _sockfd,
\* runs only after closeNet (anydata, closeNet, newNetConnection).
THEOREM NothingLeaks == Spec => []NoneLeftOpen
<1>1. Init => IInv
  BY DEF Init, IInv, NoneLeftOpen
<1>2. IInv => NoneLeftOpen
  BY DEF IInv
<1> QED
  BY <1>1, <1>2, NextInv, PTL DEF Spec

----------------------------------------------------------------------------
(* Recursion over the indexes of a buffer.                                 *)

LEMMA Smallest ==
    ASSUME NEW S \in SUBSET Nat, S # {}
    PROVE  \E k \in S : \A j \in S : k <= j
<1> DEFINE R == {pair \in Nat \X Nat : pair[1] < pair[2]}
<1>1. IsWellFoundedOn(R, Nat)
  BY NatLessThanWellFounded DEF OpToRel
<1>2. PICK k \in S : \A j \in S : ~ (<<j, k>> \in R)
  <2> HIDE DEF R
  <2> QED
    BY <1>1, WFMin
<1>3. ASSUME NEW j \in S
      PROVE  k <= j
  <2>1. j \in Nat /\ k \in Nat /\ <<j, k>> \notin R
    BY <1>2
  <2>2. ~ (<<j, k>>[1] < <<j, k>>[2])
    BY <2>1
  <2> QED
    BY <2>1, <2>2
<1> QED
  BY <1>3

\* A set of numbers that has 0 and with each number the next has them all.
LEMMA AllOf ==
    ASSUME NEW S \in SUBSET Nat, 0 \in S, \A n \in S : n + 1 \in S
    PROVE  S = Nat
<1> DEFINE T == Nat \ S
<1>1. SUFFICES ASSUME T # {} PROVE FALSE
  OBVIOUS
<1>2. PICK k \in T : \A j \in T : k <= j
  <2>1. T \in SUBSET Nat
    OBVIOUS
  <2> HIDE DEF T
  <2> QED
    BY <1>1, <2>1, Smallest
<1>3. k \in Nat /\ k # 0 /\ k - 1 \in Nat
  BY <1>2
<1>4. k - 1 \in S
  BY <1>2, <1>3
<1>5. (k - 1) + 1 = k
  BY <1>3
<1> QED
  BY <1>2, <1>4, <1>5

\* A definition of a function of the indexes: outside P by base, in P by its
\* value at a larger index, and P has a largest one.
Recursion(last, P, next, V, base, combine) ==
    /\ last \in Nat
    /\ P \in SUBSET Indexes /\ \A k \in P : k <= last
    /\ next \in [Indexes -> Indexes] /\ \A k \in Indexes : next[k] > k
    /\ base \in [Indexes -> V]
    /\ combine \in [Indexes -> [V -> V]]

\* Such a function exists.
LEMMA Defined ==
    ASSUME NEW last, NEW P, NEW next, NEW V, NEW base, NEW combine,
           Recursion(last, P, next, V, base, combine)
    PROVE  \E f \in [Indexes -> V] :
              \A k \in Indexes : f[k] = IF k \in P THEN combine[k][f[next[k]]] ELSE base[k]
<1> USE DEF Indexes, Recursion
<1> DEFINE Right(f, k) == f[k] = IF k \in P THEN combine[k][f[next[k]]] ELSE base[k]
           S == {m \in Nat : \E f \in [Indexes -> V] : \A k \in Indexes : k + m > last => Right(f, k)}
<1>1. 0 \in S
  <2>1. \A k \in Indexes : k + 0 > last => Right(base, k)
    OBVIOUS
  <2> QED
    BY <2>1
<1>2. ASSUME NEW m \in S
      PROVE  m + 1 \in S
  <2>1. PICK f \in [Indexes -> V] : \A k \in Indexes : k + m > last => Right(f, k)
    BY <1>2
  <2> DEFINE g == [k \in Indexes |-> IF k + m > last THEN f[k]
                                 ELSE IF k \in P THEN combine[k][f[next[k]]] ELSE base[k]]
  <2>2. g \in [Indexes -> V]
    <3>1. \A k \in Indexes : combine[k][f[next[k]]] \in V
      <4>1. \A k \in Indexes : f[next[k]] \in V
        OBVIOUS
      <4> QED
        BY <4>1
    <3> QED
      BY <3>1
  <2>3. ASSUME NEW k \in Indexes, k + (m + 1) > last
        PROVE  Right(g, k)
    <3>1. next[k] \in Indexes /\ next[k] > k /\ m \in Nat
      OBVIOUS
    <3>2. next[k] + m > last
      BY <2>3, <3>1
    <3>3. g[next[k]] = f[next[k]]
      BY <3>1, <3>2
    <3>4. CASE k + m > last
      BY <2>1, <3>3, <3>4
    <3>5. CASE ~ (k + m > last)
      BY <3>3, <3>5
    <3> QED
      BY <3>4, <3>5
  <2>4. m + 1 \in Nat
    OBVIOUS
  <2> HIDE DEF g, Right
  <2> QED
    BY <2>2, <2>3, <2>4
<1>3. last + 1 \in S
  <2>1. S \in SUBSET Nat
    OBVIOUS
  <2> HIDE DEF S
  <2>2. S = Nat
    BY <1>1, <1>2, <2>1, AllOf
  <2> QED
    BY <2>2
<1>4. PICK f \in [Indexes -> V] : \A k \in Indexes : k + (last + 1) > last => Right(f, k)
  BY <1>3
<1>5. \A k \in Indexes : Right(f, k)
  BY <1>4
<1> QED
  BY <1>5

\* What holds at an index outside P, and at one in P if it holds at the next,
\* holds at every index.
LEMMA Downward ==
    ASSUME NEW last \in Nat, NEW P \in SUBSET Indexes, \A k \in P : k <= last,
           NEW next \in [Indexes -> Indexes], \A k \in Indexes : next[k] > k,
           NEW G \in SUBSET Indexes,
           \A k \in Indexes \ P : k \in G,
           \A k \in P : next[k] \in G => k \in G
    PROVE  G = Indexes
<1> USE DEF Indexes
<1> DEFINE S == {m \in Nat : \A k \in Indexes : k + m > last => k \in G}
<1>1. 0 \in S
  OBVIOUS
<1>2. ASSUME NEW m \in S
      PROVE  m + 1 \in S
  <2>1. ASSUME NEW k \in Indexes, k + (m + 1) > last
        PROVE  k \in G
    <3>1. next[k] \in Indexes /\ next[k] > k /\ m \in Nat
      OBVIOUS
    <3>2. next[k] + m > last
      BY <2>1, <3>1
    <3>3. next[k] \in G
      BY <3>1, <3>2
    <3> QED
      BY <3>3
  <2>2. m + 1 \in Nat
    OBVIOUS
  <2> QED
    BY <2>1, <2>2
<1>3. last + 1 \in S
  <2>1. S \in SUBSET Nat
    OBVIOUS
  <2> HIDE DEF S
  <2>2. S = Nat
    BY <1>1, <1>2, <2>1, AllOf
  <2> QED
    BY <2>2
<1>4. \A k \in Indexes : k + (last + 1) > last
  OBVIOUS
<1> QED
  BY <1>3, <1>4

----------------------------------------------------------------------------
(* The strings of a buffer.                                                *)

LEMMA StringAtIs ==
    ASSUME NEW buf \in Seq(Pieces), NEW i \in Indexes
    PROVE  LET s == StringAt(buf, i)
           IN /\ s \in Seq(Pieces)
              /\ i > Len(buf) => s = <<>>
              /\ i <= Len(buf) => i + Len(s) <= Len(buf) + 1
              /\ \A k \in 1..Len(s) : s[k] = buf[i + k - 1] /\ ~IsNul(s[k])
              /\ i + Len(s) <= Len(buf) => IsNul(buf[i + Len(s)])
<1> DEFINE rest == IF i > Len(buf) THEN <<>> ELSE SubSeq(buf, i, Len(buf))
           nuls == {k \in 1..Len(rest) : IsNul(rest[k])}
           s == StringAt(buf, i)
<1>1. i \in Nat /\ i >= 1
  BY DEF Indexes
<1>2. s = IF nuls = {} THEN rest ELSE SubSeq(rest, 1, Min(nuls) - 1)
  BY DEF StringAt
<1>3. /\ rest \in Seq(Pieces)
      /\ Len(rest) = IF i > Len(buf) THEN 0 ELSE Len(buf) - i + 1
      /\ i <= Len(buf) => \A k \in 1..Len(rest) : rest[k] = buf[i + k - 1]
  BY <1>1
<1> HIDE DEF rest, s
<1>4. CASE nuls = {}
  <2>1. s = rest
    BY <1>2, <1>4
  <2>2. \A k \in 1..Len(rest) : ~IsNul(rest[k])
    BY <1>4
  <2>3. i > Len(buf) => rest = <<>>
    BY <1>3
  <2>4. i + Len(rest) > Len(buf)
    BY <1>1, <1>3
  <2> QED
    BY <1>1, <1>3, <2>1, <2>2, <2>3, <2>4 DEF s
<1>5. CASE nuls # {}
  <2> DEFINE first == Min(nuls)
  <2>1. first \in nuls /\ \A k \in nuls : first <= k
    <3>1. nuls \in SUBSET Nat
      OBVIOUS
    <3> HIDE DEF nuls
    <3>2. \E k \in nuls : \A j \in nuls : k <= j
      BY <1>5, <3>1, Smallest
    <3> QED
      BY <3>2 DEF Min
  <2> HIDE DEF first
  <2>2. first \in 1..Len(rest) /\ IsNul(rest[first]) /\ i <= Len(buf)
    BY <1>1, <1>3, <2>1
  <2>3. s = SubSeq(rest, 1, first - 1)
    BY <1>2, <1>5 DEF first
  <2>4. /\ s \in Seq(Pieces) /\ Len(s) = first - 1
        /\ \A k \in 1..Len(s) : s[k] = rest[k]
    BY <1>3, <2>2, <2>3
  <2>5. \A k \in 1..Len(s) : ~IsNul(rest[k])
    BY <2>1, <2>2, <2>4
  <2>6. \A k \in 1..Len(s) : s[k] = buf[i + k - 1]
    BY <1>3, <2>2, <2>4
  <2>7. i + Len(s) <= Len(buf) + 1
    BY <1>1, <1>3, <2>2, <2>4
  <2>8. IsNul(buf[i + Len(s)])
    <3>1. rest[first] = buf[i + first - 1]
      BY <1>3, <2>2
    <3>2. i + first - 1 = i + Len(s)
      BY <1>1, <2>2, <2>4
    <3> QED
      BY <2>2, <3>1, <3>2
  <2>9. ~ (i > Len(buf))
    BY <1>1, <2>2
  <2> QED
    BY <2>4, <2>5, <2>6, <2>7, <2>8, <2>9 DEF s
<1> QED
  BY <1>4, <1>5

\* The indexes at which anydata's loop finds a packet, and where it looks next.
PacketAt(buf) == {k \in Indexes : IsPacket(StringAt(buf, k))}
NextAt(buf) == [k \in Indexes |-> k + Len(StringAt(buf, k)) + 1]

LEMMA LoopIndexes ==
    ASSUME NEW buf \in Seq(Pieces)
    PROVE  /\ Len(buf) \in Nat
           /\ PacketAt(buf) \in SUBSET Indexes
           /\ \A k \in PacketAt(buf) : k <= Len(buf)
           /\ NextAt(buf) \in [Indexes -> Indexes]
           /\ \A k \in Indexes : NextAt(buf)[k] > k
<1>1. ASSUME NEW k \in Indexes
      PROVE  /\ Len(StringAt(buf, k)) \in Nat
             /\ k > Len(buf) => StringAt(buf, k) = <<>>
  <2> DEFINE s == StringAt(buf, k)
  <2>1. s \in Seq(Pieces) /\ (k > Len(buf) => s = <<>>)
    BY StringAtIs
  <2> QED
    BY <2>1
<1>2. ASSUME NEW k \in Indexes
      PROVE  k + Len(StringAt(buf, k)) + 1 \in Indexes /\ k + Len(StringAt(buf, k)) + 1 > k
  BY <1>1 DEF Indexes
<1>3. \A k \in PacketAt(buf) : k <= Len(buf)
  <2>1. ASSUME NEW k \in PacketAt(buf), k > Len(buf) PROVE FALSE
    BY <1>1, <2>1 DEF PacketAt, IsPacket
  <2>2. \A k \in PacketAt(buf) : k \in Nat
    BY DEF PacketAt, Indexes
  <2> QED
    BY <2>1, <2>2
<1> QED
  BY <1>2, <1>3 DEF PacketAt, NextAt

\* The packets from an index on: none, or the string there and those behind it.
LEMMA PacketsStep ==
    ASSUME NEW buf \in Seq(Pieces), NEW i \in Indexes
    PROVE  /\ PacketsFrom(buf, i) =
                IF IsPacket(StringAt(buf, i))
                THEN <<StringAt(buf, i)>> \o PacketsFrom(buf, i + Len(StringAt(buf, i)) + 1)
                ELSE <<>>
           /\ PacketsFrom(buf, i) \in Seq(Seq(Pieces))
<1> DEFINE V == Seq(Seq(Pieces))
           P == PacketAt(buf)
           next == NextAt(buf)
           Is(f) == f = [k \in Indexes |-> LET s == StringAt(buf, k) IN
                                    IF IsPacket(s) THEN <<s>> \o f[k + Len(s) + 1] ELSE <<>>]
           from == CHOOSE f : Is(f)
<1>1. /\ Len(buf) \in Nat /\ P \in SUBSET Indexes /\ \A k \in P : k <= Len(buf)
      /\ next \in [Indexes -> Indexes] /\ \A k \in Indexes : next[k] > k
  BY LoopIndexes
<1>2. \A k \in Indexes : next[k] = k + Len(StringAt(buf, k)) + 1
  BY DEF NextAt
<1>3. \A k \in Indexes : IsPacket(StringAt(buf, k)) <=> k \in P
  BY DEF PacketAt
<1>4. ASSUME NEW k \in Indexes
      PROVE  StringAt(buf, k) \in Seq(Pieces)
  BY StringAtIs
<1>5. Is(from)
  <2> DEFINE base == [k \in Indexes |-> <<>>]
             combine == [k \in Indexes |-> [v \in V |-> <<StringAt(buf, k)>> \o v]]
  <2>1. base \in [Indexes -> V]
    OBVIOUS
  <2>2. combine \in [Indexes -> [V -> V]]
    <3>1. ASSUME NEW k \in Indexes, NEW v \in V
          PROVE  <<StringAt(buf, k)>> \o v \in V
      BY <1>4
    <3> QED
      BY <3>1
  <2>3. \E f \in [Indexes -> V] :
           \A k \in Indexes : f[k] = IF k \in P THEN combine[k][f[next[k]]] ELSE base[k]
    <3> DEFINE last == Len(buf)
    <3>1. last \in Nat /\ \A k \in P : k <= last
      BY <1>1
    <3> HIDE DEF P, next, base, combine, V, last
    <3>2. Recursion(last, P, next, V, base, combine)
      BY <1>1, <2>1, <2>2, <3>1 DEF Recursion
    <3> QED
      BY <3>2, Defined
  <2>4. PICK f \in [Indexes -> V] :
           \A k \in Indexes : f[k] = IF k \in P THEN combine[k][f[next[k]]] ELSE base[k]
    BY <2>3
  <2>5. ASSUME NEW k \in Indexes
        PROVE  f[k] = LET s == StringAt(buf, k) IN
                      IF IsPacket(s) THEN <<s>> \o f[k + Len(s) + 1] ELSE <<>>
    <3> HIDE DEF P, next
    <3>1. f[next[k]] \in V
      BY <1>1
    <3>2. combine[k][f[next[k]]] = <<StringAt(buf, k)>> \o f[next[k]]
      BY <3>1
    <3>3. f[k] = IF k \in P THEN combine[k][f[next[k]]] ELSE base[k]
      BY <2>4
    <3> QED
      BY <1>2, <1>3, <3>2, <3>3
  <2>6. Is(f)
    BY <2>4, <2>5
  <2> HIDE DEF Is
  <2> QED
    BY <2>6
<1>6. \A k : PacketsFrom(buf, k) = from[k]
  BY DEF PacketsFrom
<1>7. \A k \in Indexes : from[k] = IF k \in P THEN <<StringAt(buf, k)>> \o from[next[k]] ELSE <<>>
  <2> HIDE DEF from, P, next
  <2> QED
    BY <1>2, <1>3, <1>5
<1>8. \A k \in Indexes : from[k] \in V
  <2> DEFINE G == {k \in Indexes : from[k] \in V}
  <2>5. <<>> \in V /\ \A s \in Seq(Pieces), v \in V : <<s>> \o v \in V
    OBVIOUS
  <2> HIDE DEF from, P, next, V
  <2>1. \A k \in Indexes \ P : k \in G
    BY <1>7, <2>5
  <2>2. ASSUME NEW k \in P, next[k] \in G
        PROVE  k \in G
    <3>1. k \in Indexes /\ StringAt(buf, k) \in Seq(Pieces)
      BY <1>1, <1>4
    <3> QED
      BY <1>7, <2>2, <2>5, <3>1
  <2>3. G \in SUBSET Indexes
    OBVIOUS
  <2> HIDE DEF G
  <2>4. G = Indexes
    BY <1>1, <2>1, <2>2, <2>3, Downward
  <2> QED
    BY <2>4 DEF G
<1> HIDE DEF from, P, next
<1> QED
  BY <1>2, <1>3, <1>6, <1>7, <1>8

\* The loop stops behind the first string that is no packet.
LEMMA StopStep ==
    ASSUME NEW buf \in Seq(Pieces), NEW i \in Indexes
    PROVE  /\ StopFrom(buf, i) =
                IF IsPacket(StringAt(buf, i))
                THEN StopFrom(buf, i + Len(StringAt(buf, i)) + 1)
                ELSE i + Len(StringAt(buf, i)) + 1
           /\ StopFrom(buf, i) \in Indexes
<1> DEFINE P == PacketAt(buf)
           next == NextAt(buf)
           Is(f) == f = [k \in Indexes |-> LET s == StringAt(buf, k) IN
                                    IF IsPacket(s) THEN f[k + Len(s) + 1] ELSE k + Len(s) + 1]
           from == CHOOSE f : Is(f)
<1>1. /\ Len(buf) \in Nat /\ P \in SUBSET Indexes /\ \A k \in P : k <= Len(buf)
      /\ next \in [Indexes -> Indexes] /\ \A k \in Indexes : next[k] > k
  BY LoopIndexes
<1>2. \A k \in Indexes : next[k] = k + Len(StringAt(buf, k)) + 1
  BY DEF NextAt
<1>3. \A k \in Indexes : IsPacket(StringAt(buf, k)) <=> k \in P
  BY DEF PacketAt
<1>4. Is(from)
  <2> DEFINE combine == [k \in Indexes |-> [v \in Indexes |-> v]]
  <2>1. combine \in [Indexes -> [Indexes -> Indexes]]
    OBVIOUS
  <2>2. \E f \in [Indexes -> Indexes] :
           \A k \in Indexes : f[k] = IF k \in P THEN combine[k][f[next[k]]] ELSE next[k]
    <3> DEFINE last == Len(buf)
    <3>1. last \in Nat /\ \A k \in P : k <= last
      BY <1>1
    <3> HIDE DEF P, next, combine, last
    <3>2. Recursion(last, P, next, Indexes, next, combine)
      BY <1>1, <2>1, <3>1 DEF Recursion
    <3> QED
      BY <3>2, Defined
  <2>3. PICK f \in [Indexes -> Indexes] :
           \A k \in Indexes : f[k] = IF k \in P THEN combine[k][f[next[k]]] ELSE next[k]
    BY <2>2
  <2>4. ASSUME NEW k \in Indexes
        PROVE  f[k] = LET s == StringAt(buf, k) IN
                      IF IsPacket(s) THEN f[k + Len(s) + 1] ELSE k + Len(s) + 1
    <3> HIDE DEF P, next
    <3>1. f[next[k]] \in Indexes
      BY <1>1
    <3>2. combine[k][f[next[k]]] = f[next[k]]
      BY <3>1
    <3>3. f[k] = IF k \in P THEN combine[k][f[next[k]]] ELSE next[k]
      BY <2>3
    <3> QED
      BY <1>2, <1>3, <3>2, <3>3
  <2>5. Is(f)
    BY <2>3, <2>4
  <2> HIDE DEF Is
  <2> QED
    BY <2>5
<1>5. \A k : StopFrom(buf, k) = from[k]
  BY DEF StopFrom
<1>6. \A k \in Indexes : from[k] = IF k \in P THEN from[next[k]] ELSE next[k]
  <2> HIDE DEF from, P, next
  <2> QED
    BY <1>2, <1>3, <1>4
<1>7. \A k \in Indexes : from[k] \in Indexes
  <2> DEFINE G == {k \in Indexes : from[k] \in Indexes}
  <2> HIDE DEF from, P, next
  <2>1. \A k \in Indexes \ P : k \in G
    BY <1>1, <1>6
  <2>2. \A k \in P : next[k] \in G => k \in G
    BY <1>1, <1>6
  <2>3. G \in SUBSET Indexes
    OBVIOUS
  <2> HIDE DEF G
  <2>4. G = Indexes
    BY <1>1, <2>1, <2>2, <2>3, Downward
  <2> QED
    BY <2>4 DEF G
<1> HIDE DEF from, P, next
<1> QED
  BY <1>1, <1>2, <1>3, <1>5, <1>6, <1>7

\* A read's pieces become packets and what is left over.
LEMMA FramedType ==
    ASSUME NEW buf \in Seq(Pieces), NEW rest \in Seq(Pieces)
    PROVE  /\ Framed(buf, rest).packets \in Seq(Seq(Pieces))
           /\ Framed(buf, rest).rest \in Seq(Pieces)
<1> DEFINE first == StringAt(buf, 1)
           joined == Glue(rest, first)
           next == Len(first) + 3
<1>1. 1 \in Indexes
  BY DEF Indexes
<1>2. first \in Seq(Pieces)
  BY <1>1, StringAtIs
<1>3. joined \in Seq(Pieces) /\ next \in Indexes
  <2> HIDE DEF first
  <2>1. rest \o first \in Seq(Pieces)
    BY <1>2
  <2>2. Len(first) \in Nat
    BY <1>2
  <2> QED
    BY <2>1, <2>2 DEF Glue, Indexes
<1>4. \A i \in Indexes : /\ StringAt(buf, i) \in Seq(Pieces)
                         /\ PacketsFrom(buf, i) \in Seq(Seq(Pieces))
                         /\ StopFrom(buf, i) \in Indexes
  BY StringAtIs, PacketsStep, StopStep
<1>5. /\ <<first>> \in Seq(Seq(Pieces))
      /\ <<joined>> \o PacketsFrom(buf, next) \in Seq(Seq(Pieces))
      /\ <<>> \in Seq(Seq(Pieces))
  <2> HIDE DEF first, joined, next
  <2> QED
    BY <1>2, <1>3, <1>4
<1>6. /\ StringAt(buf, StopFrom(buf, 1)) \in Seq(Pieces)
      /\ StringAt(buf, StopFrom(buf, next)) \in Seq(Pieces)
      /\ StringAt(buf, next) \in Seq(Pieces)
      /\ PacketsFrom(buf, 1) \in Seq(Seq(Pieces))
  <2> HIDE DEF first, joined, next
  <2> QED
    BY <1>1, <1>3, <1>4
<1>7. \/ Framed(buf, rest) = [packets |-> <<first>>, rest |-> rest]
      \/ Framed(buf, rest) =
            [packets |-> PacketsFrom(buf, 1), rest |-> StringAt(buf, StopFrom(buf, 1))]
      \/ Framed(buf, rest) = [packets |-> <<joined>> \o PacketsFrom(buf, next),
                              rest |-> StringAt(buf, StopFrom(buf, next))]
      \/ Framed(buf, rest) = [packets |-> <<>>, rest |-> StringAt(buf, next)]
  BY DEF Framed
<1>8. ASSUME NEW p, NEW q, Framed(buf, rest) = [packets |-> p, rest |-> q]
      PROVE  Framed(buf, rest).packets = p /\ Framed(buf, rest).rest = q
  BY <1>8
<1> HIDE DEF first, joined, next
<1> QED
  BY <1>5, <1>6, <1>7, <1>8

----------------------------------------------------------------------------
(* Types.                                                                  *)

\* What keeps the client's place in its buffer and its tries within bounds.
Writing ==
    /\ sending.at <= 3 * partial
    /\ sending # Idle => sending.tries >= 1

\* The daemon reads from a connection it has accepted.
Reading == pc = "read" => sockfd \in Connections

TInv == TypeOK /\ Writing /\ Reading

LEMMA BufferType ==
    ASSUME TypeOK, NEW n \in Nat
    PROVE  FromBuffer(n) \in Seq(Pieces)
<1>1. sending.message \in 0..MaxMessages /\ sending.at \in Nat
  BY TcpipAssumption DEF TypeOK
<1>2. 0 \in 0..MaxMessages
  BY TcpipAssumption
<1>3. \A m \in 0..MaxMessages : \A k \in 1..4 : Message(m)[k] \in Pieces
  BY DEF Message, Piece, Pieces
<1>4. Junk \in Pieces
  BY <1>2 DEF Junk, Piece, Pieces
<1>5. ASSUME NEW i \in 1..n
      PROVE  (IF sending.at + i <= 4
              THEN Message(sending.message)[sending.at + i] ELSE Junk) \in Pieces
  <2>1. sending.at + i <= 4 => sending.at + i \in 1..4
    BY <1>1
  <2> QED
    BY <1>1, <1>3, <1>4, <2>1
<1>6. FromBuffer(n) \in [1..n -> Pieces]
  BY <1>5 DEF FromBuffer
<1> QED
  BY <1>6

LEMMA WireGrows ==
    ASSUME TypeOK, Connected, NEW n \in Nat, wire' = [wire EXCEPT ![client] = @ \o FromBuffer(n)]
    PROVE  wire' \in [Connections -> Seq(Pieces)]
<1>1. FromBuffer(n) \in Seq(Pieces)
  BY BufferType
<1>2. client \in Connections
  <2>1. Range(backlog) \subseteq Connections /\ serverEnd \subseteq Connections
    BY DEF TypeOK, Range
  <2> QED
    BY <2>1 DEF Connected
<1>3. wire[client] \o FromBuffer(n) \in Seq(Pieces)
  BY <1>1, <1>2 DEF TypeOK
<1> QED
  BY <1>2, <1>3 DEF TypeOK

LEMMA AnydataType ==
    ASSUME TInv, NEW n \in Nat, Anydata(n)
    PROVE  TInv'
<1> USE DEF clientVars
<1>1. sockfd \in Connections /\ wire[sockfd] \in Seq(Pieces) /\ n \in 1..Len(wire[sockfd])
  BY DEF TInv, TypeOK, Reading, Anydata
<1> DEFINE buf == SubSeq(wire[sockfd], 1, n)
           framed == Framed(buf, leftover)
<1>2. buf \in Seq(Pieces) /\ SubSeq(wire[sockfd], n + 1, Len(wire[sockfd])) \in Seq(Pieces)
  BY <1>1
<1>3. leftover \in Seq(Pieces) /\ received \in Seq(Pieces) /\ delivered \in Seq(Seq(Pieces))
  BY DEF TInv, TypeOK
<1>4. /\ delivered' = delivered \o framed.packets
      /\ leftover' = framed.rest
      /\ received' = received \o buf
      /\ torn' = (torn \/ ~WholeMessages(buf))
      /\ \/ pc' = "accept" /\ serverEnd' = serverEnd \ {sockfd}
         \/ UNCHANGED <<pc, serverEnd>>
      /\ wire' = [wire EXCEPT ![sockfd] = SubSeq(wire[sockfd], n + 1, Len(wire[sockfd]))]
      /\ UNCHANGED <<listening, sockfd, clientVars, backlog>>
  BY DEF Anydata, CloseNet
<1> HIDE DEF buf
<1>5. framed.packets \in Seq(Seq(Pieces)) /\ framed.rest \in Seq(Pieces)
  BY <1>2, <1>3, FramedType
<1> HIDE DEF framed
<1>6. /\ delivered' \in Seq(Seq(Pieces)) /\ leftover' \in Seq(Pieces) /\ received' \in Seq(Pieces)
      /\ wire' \in [Connections -> Seq(Pieces)]
  <2>1. \A S : \A a, b \in Seq(S) : a \o b \in Seq(S)
    OBVIOUS
  <2>2. delivered' \in Seq(Seq(Pieces))
    BY <1>3, <1>4, <1>5, <2>1
  <2>3. received' \in Seq(Pieces)
    BY <1>2, <1>3, <1>4, <2>1
  <2>4. wire' \in [Connections -> Seq(Pieces)]
    BY <1>1, <1>2, <1>4 DEF TInv, TypeOK
  <2> QED
    BY <1>4, <1>5, <2>2, <2>3, <2>4
<1>7. torn' \in BOOLEAN
  BY <1>4
<1>8. TypeOK'
  BY <1>4, <1>6, <1>7 DEF TInv, TypeOK
<1>9. Writing' /\ Reading'
  BY <1>4 DEF TInv, Writing, Reading
<1> QED
  BY <1>8, <1>9 DEF TInv

LEMMA DaemonType ==
    ASSUME TInv, CreateNetServer \/ NewNetConnection \/ AnydataEof \/ AnydataCrash
    PROVE  TInv'
<1> USE DEF TInv, TypeOK, Writing, Reading, clientVars, history
<1>1. CASE CreateNetServer
  BY <1>1 DEF CreateNetServer
<1>2. CASE NewNetConnection
  <2>1. Head(backlog) \in Connections /\ Tail(backlog) \in Seq(Connections)
    BY <1>2 DEF NewNetConnection
  <2>2. /\ sockfd' = Head(backlog) /\ serverEnd' = serverEnd \cup {Head(backlog)}
        /\ backlog' = Tail(backlog) /\ pc' = "read"
        /\ UNCHANGED <<listening, leftover, delivered, clientVars, wire, history>>
    BY <1>2 DEF NewNetConnection
  <2> QED
    BY <2>1, <2>2
<1>3. CASE AnydataEof
  BY <1>3 DEF AnydataEof, CloseNet
<1>4. CASE AnydataCrash
  BY <1>4 DEF AnydataCrash
<1> QED
  BY <1>1, <1>2, <1>3, <1>4

LEMMA ConnectType ==
    ASSUME TInv, CreateNetClient \/ ConnectRefused \/ ConnectAgain \/ ClientCloseNet
    PROVE  TInv'
<1> USE DEF TInv, TypeOK, Writing, Reading, daemonVars, history
<1>1. made < MaxConnections => made + 1 \in Connections /\ made + 1 \in 0..MaxConnections
  BY TcpipAssumption DEF Connections
<1>2. ASSUME NEW c \in Connections
      PROVE  Append(backlog, c) \in Seq(Connections)
  OBVIOUS
<1>3. CASE CreateNetClient
  <2>1. /\ made < MaxConnections /\ made' = made + 1 /\ client' = made'
        /\ clientEnd' = clientEnd \cup {made'} /\ backlog' = Append(backlog, made')
        /\ UNCHANGED <<daemonVars, dialing, sending, messages, partial, wire, history>>
    BY <1>3 DEF CreateNetClient
  <2> QED
    BY <1>1, <1>2, <2>1
<1>4. CASE ConnectRefused
  BY <1>4 DEF ConnectRefused
<1>5. CASE ConnectAgain
  <2>1. /\ dialing' = FALSE
        /\ \/ made < MaxConnections /\ made' = made + 1 /\ backlog' = Append(backlog, made')
           \/ UNCHANGED <<made, backlog>>
        /\ UNCHANGED <<daemonVars, client, clientEnd, sending, messages, partial, wire, history>>
    BY <1>5 DEF ConnectAgain
  <2> QED
    BY <1>1, <1>2, <2>1
<1>6. CASE ClientCloseNet
  BY <1>6 DEF ClientCloseNet
<1> QED
  BY <1>3, <1>4, <1>5, <1>6

LEMMA WriteType ==
    ASSUME TInv,
           WriteNet \/ (\E n \in 1..3 : WritePart(n)) \/ WriteAll \/ WriteTimeout \/ WriteError
    PROVE  TInv'
<1> USE DEF daemonVars, history
<1>1. /\ sending.message \in 0..MaxMessages /\ sending.at \in 0..(3 * MaxPartial)
      /\ sending.tries \in 0..WriteTries /\ partial \in 0..MaxPartial
      /\ messages \in 0..MaxMessages
      /\ MaxPartial \in Nat /\ MaxMessages \in Nat /\ WriteTries \in Nat /\ WriteTries >= 1
      /\ sending \in [message : 0..MaxMessages, at : 0..(3 * MaxPartial), tries : 0..WriteTries]
  BY TcpipAssumption DEF TInv, TypeOK
<1>2. Idle \in [message : 0..MaxMessages, at : 0..(3 * MaxPartial), tries : 0..WriteTries]
      /\ Idle.at = 0
  BY <1>1 DEF Idle, None
\* The type of what the step leaves alone.
<1>3. ASSUME UNCHANGED <<daemonVars, made, dialing, client, clientEnd, backlog, history>>,
             wire' \in [Connections -> Seq(Pieces)],
             sending' \in [message : 0..MaxMessages, at : 0..(3 * MaxPartial),
                           tries : 0..WriteTries],
             messages' \in 0..MaxMessages, partial' \in 0..MaxPartial
      PROVE  TypeOK' /\ Reading'
  BY <1>3 DEF TInv, TypeOK, Reading
<1>4. wire \in [Connections -> Seq(Pieces)]
  BY DEF TInv, TypeOK
<1>5. CASE WriteNet
  <2>1. /\ messages < MaxMessages /\ messages' = messages + 1
        /\ sending' = [message |-> messages + 1, at |-> 0, tries |-> WriteTries]
        /\ UNCHANGED <<daemonVars, made, dialing, client, clientEnd, partial, backlog, wire, history>>
    BY <1>5 DEF WriteNet
  <2>2. Writing'
    BY <1>1, <2>1 DEF Writing
  <2>3. messages' \in 0..MaxMessages /\ sending' \in
           [message : 0..MaxMessages, at : 0..(3 * MaxPartial), tries : 0..WriteTries]
    BY <1>1, <2>1
  <2> QED
    BY <1>1, <1>3, <1>4, <2>1, <2>2, <2>3 DEF TInv
<1>6. CASE \E n \in 1..3 : WritePart(n)
  <2>1. PICK n \in 1..3 : WritePart(n)
    BY <1>6
  <2>2. /\ partial < MaxPartial /\ partial' = partial + 1 /\ Connected /\ sending # Idle
        /\ wire' = [wire EXCEPT ![client] = @ \o FromBuffer(n)]
        /\ sending' = [sending EXCEPT !.at = @ + n]
        /\ UNCHANGED <<daemonVars, made, dialing, client, clientEnd, messages, backlog, history>>
    BY <2>1 DEF WritePart
  <2>3. wire' \in [Connections -> Seq(Pieces)]
    <3>1. n \in Nat
      OBVIOUS
    <3> QED
      BY <2>2, <3>1, WireGrows DEF TInv
  <2>4. sending.at <= 3 * partial /\ sending.tries >= 1
    BY <2>2 DEF TInv, Writing
  <2>5. sending' \in [message : 0..MaxMessages, at : 0..(3 * MaxPartial), tries : 0..WriteTries]
        /\ sending'.at <= 3 * partial' /\ sending'.tries >= 1 /\ partial' \in 0..MaxPartial
    <3>1. partial' \in 0..MaxPartial /\ sending.at + n <= 3 * partial'
          /\ 3 * partial' <= 3 * MaxPartial /\ sending.at + n >= 0
      <4> DEFINE at == sending.at
      <4>1. /\ at \in Int /\ 0 <= at /\ at <= 3 * partial /\ n \in Int /\ 1 <= n /\ n <= 3
            /\ partial \in Int /\ 0 <= partial /\ partial < MaxPartial /\ MaxPartial \in Int
        BY <1>1, <2>2, <2>4
      <4>2. partial' = partial + 1
        BY <2>2
      <4> HIDE DEF at
      <4>3. partial' \in 0..MaxPartial /\ at + n <= 3 * partial'
            /\ 3 * partial' <= 3 * MaxPartial /\ at + n >= 0
        BY <4>1, <4>2
      <4> QED
        BY <4>3 DEF at
    <3>2. sending.at + n \in 0..(3 * MaxPartial)
      BY <1>1, <3>1
    <3>3. sending' = [message |-> sending.message, at |-> sending.at + n,
                      tries |-> sending.tries]
      BY <1>1, <2>2
    <3> QED
      BY <1>1, <2>4, <3>1, <3>2, <3>3
  <2>6. Writing'
    BY <2>5 DEF Writing
  <2> QED
    BY <1>1, <1>3, <2>2, <2>3, <2>5, <2>6 DEF TInv
<1>7. CASE WriteAll
  <2>1. /\ Connected /\ wire' = [wire EXCEPT ![client] = @ \o FromBuffer(4)] /\ sending' = Idle
        /\ UNCHANGED <<daemonVars, made, dialing, client, clientEnd, messages, partial,
                       backlog, history>>
    BY <1>7 DEF WriteAll
  <2>2. wire' \in [Connections -> Seq(Pieces)]
    BY <2>1, WireGrows DEF TInv
  <2>3. Writing'
    BY <1>1, <1>2, <2>1 DEF Writing
  <2> QED
    BY <1>1, <1>2, <1>3, <2>1, <2>2, <2>3 DEF TInv
<1>8. CASE WriteTimeout
  <2>1. /\ sending # Idle
        /\ sending' = IF sending.tries = 1 THEN Idle ELSE [sending EXCEPT !.tries = @ - 1]
        /\ UNCHANGED <<daemonVars, made, dialing, client, clientEnd, messages, partial,
                       backlog, wire, history>>
    BY <1>8 DEF WriteTimeout
  <2>2. sending.at <= 3 * partial /\ sending.tries >= 1
    BY <2>1 DEF TInv, Writing
  <2>3. sending' \in [message : 0..MaxMessages, at : 0..(3 * MaxPartial), tries : 0..WriteTries]
        /\ sending'.at <= 3 * partial' /\ (sending' # Idle => sending'.tries >= 1)
    BY <1>1, <1>2, <2>1, <2>2
  <2>4. Writing'
    BY <2>3 DEF Writing
  <2> QED
    BY <1>1, <1>3, <1>4, <2>1, <2>3, <2>4 DEF TInv
<1>9. CASE WriteError
  <2>1. /\ sending' = Idle
        /\ UNCHANGED <<daemonVars, made, dialing, client, clientEnd, messages, partial,
                       backlog, wire, history>>
    BY <1>9 DEF WriteError
  <2>2. Writing'
    BY <1>1, <1>2, <2>1 DEF Writing
  <2> QED
    BY <1>1, <1>2, <1>3, <1>4, <2>1, <2>2 DEF TInv
<1> QED
  BY <1>5, <1>6, <1>7, <1>8, <1>9

LEMMA TypeNext == TInv /\ [Next]_vars => TInv'
<1> SUFFICES ASSUME TInv, [Next]_vars PROVE TInv'
  OBVIOUS
<1>1. CASE Daemon
  <2>1. ASSUME NEW n \in 1..(4 * MaxMessages + 3 * MaxPartial), Anydata(n)
        PROVE  TInv'
    <3>1. n \in Nat
      BY TcpipAssumption
    <3> QED
      BY <2>1, <3>1, AnydataType
  <2> QED
    BY <1>1, <2>1, DaemonType DEF Daemon
<1>2. CASE Client
  BY <1>2, ConnectType, WriteType DEF Client
<1>3. CASE UNCHANGED vars
  BY <1>3 DEF TInv, TypeOK, Writing, Reading, vars, daemonVars, clientVars, history
<1> QED
  BY <1>1, <1>2, <1>3 DEF Next

LEMMA InitType == Init => TInv
<1> SUFFICES ASSUME Init PROVE TInv
  OBVIOUS
<1>1. /\ <<>> \in Seq(Pieces) /\ <<>> \in Seq(Seq(Pieces)) /\ <<>> \in Seq(Connections)
      /\ 0 \in 0..MaxConnections /\ 0 \in 0..MaxMessages /\ 0 \in 0..MaxPartial
      /\ 0 \in 0..WriteTries /\ 0 \in 0..(3 * MaxPartial)
  BY TcpipAssumption
<1>2. TypeOK
  BY <1>1 DEF Init, TypeOK, Idle, None
<1>3. Writing /\ Reading
  BY DEF Init, Writing, Reading, Idle
<1> QED
  BY <1>2, <1>3 DEF TInv

\* Each variable of the two ends and of the wire keeps its type: anydata finds
\* pieces of messages only, and writeNet's place in its buffer and its tries
\* stay in their bounds.
THEOREM TypeCorrect == Spec => []TypeOK
<1>1. Init => TInv
  BY InitType
<1>2. TInv => TypeOK
  BY DEF TInv
<1> QED
  BY <1>1, <1>2, TypeNext, PTL DEF Spec

----------------------------------------------------------------------------
(* Reads of whole messages.                                                *)

\* A buffer of q messages, each a tag, some text, a tag and a NUL.
Whole(buf, q) ==
    /\ buf \in Seq(Pieces)
    /\ q \in Nat
    /\ Len(buf) = 4 * q
    /\ \A k \in 1..q : /\ IsTag(buf[4 * k - 3])
                       /\ \A i \in {4 * k - 3, 4 * k - 2, 4 * k - 1} : ~IsNul(buf[i])
                       /\ IsNul(buf[4 * k])

\* The messages without their NULs.
Texts(buf, q) == [k \in 1..q |-> SubSeq(buf, 4 * k - 3, 4 * k - 1)]

LEMMA WholeIs ==
    ASSUME NEW buf \in Seq(Pieces), WholeMessages(buf)
    PROVE  Whole(buf, Len(buf) \div 4)
<1> DEFINE q == Len(buf) \div 4
<1>1. q \in Nat /\ Len(buf) = 4 * q
  BY DEF WholeMessages
<1>2. \A k \in 1..q : \E m \in 1..MaxMessages : SubSeq(buf, 4 * k - 3, 4 * k) = Message(m)
  BY DEF WholeMessages
<1> HIDE DEF q
<1>3. ASSUME NEW k \in 1..q
      PROVE  /\ IsTag(buf[4 * k - 3])
             /\ \A i \in {4 * k - 3, 4 * k - 2, 4 * k - 1} : ~IsNul(buf[i])
             /\ IsNul(buf[4 * k])
  <2>1. PICK m \in 1..MaxMessages : SubSeq(buf, 4 * k - 3, 4 * k) = Message(m)
    BY <1>2
  <2> DEFINE a == 4 * k - 3
             b == 4 * k
  <2>2. a \in 1..Len(buf) /\ b \in 1..Len(buf) /\ b = a + 3
    BY <1>1
  <2> HIDE DEF a, b
  <2>3. /\ Message(m)[1] = buf[a] /\ Message(m)[2] = buf[a + 1]
        /\ Message(m)[3] = buf[a + 2] /\ Message(m)[4] = buf[a + 3]
    <3>1. SubSeq(buf, a, b) = Message(m)
      BY <2>1 DEF a, b
    <3>2. \A i \in 1..4 : SubSeq(buf, a, b)[i] = buf[a + i - 1]
      BY <2>2
    <3> QED
      BY <2>2, <3>1, <3>2
  <2>4. /\ IsTag(Message(m)[1]) /\ ~IsNul(Message(m)[1]) /\ ~IsNul(Message(m)[2])
        /\ ~IsNul(Message(m)[3]) /\ IsNul(Message(m)[4])
    BY DEF Message, Piece, IsTag, IsNul
  <2>5. a + 1 = 4 * k - 2 /\ a + 2 = 4 * k - 1 /\ a + 3 = 4 * k
    BY DEF a
  <2> QED
    BY <2>3, <2>4, <2>5 DEF a
<1> QED
  BY <1>1, <1>3 DEF Whole, q

\* The string at the begin of a message is the message without its NUL, and
\* at the end and behind there is none.
LEMMA MessageAt ==
    ASSUME NEW buf, NEW q, Whole(buf, q)
    PROVE  /\ \A k \in 1..q : /\ StringAt(buf, 4 * k - 3) = SubSeq(buf, 4 * k - 3, 4 * k - 1)
                              /\ IsPacket(StringAt(buf, 4 * k - 3))
                              /\ Len(StringAt(buf, 4 * k - 3)) = 3
           /\ \A i \in Indexes : i > 4 * q => StringAt(buf, i) = <<>>
<1>1. buf \in Seq(Pieces) /\ q \in Nat /\ Len(buf) = 4 * q
  BY DEF Whole
<1>2. ASSUME NEW k \in 1..q
      PROVE  /\ StringAt(buf, 4 * k - 3) = SubSeq(buf, 4 * k - 3, 4 * k - 1)
             /\ IsPacket(StringAt(buf, 4 * k - 3))
             /\ Len(StringAt(buf, 4 * k - 3)) = 3
  <2> DEFINE a == 4 * k - 3
             s == StringAt(buf, a)
  <2>1. a \in Indexes /\ a \in Nat /\ 1 <= a /\ a + 3 <= Len(buf)
    BY <1>1 DEF Indexes
  <2>2. IsTag(buf[a]) /\ ~IsNul(buf[a]) /\ ~IsNul(buf[a + 1]) /\ ~IsNul(buf[a + 2]) /\ IsNul(buf[a + 3])
    <3>1. a + 1 = 4 * k - 2 /\ a + 2 = 4 * k - 1 /\ a + 3 = 4 * k
      OBVIOUS
    <3> QED
      BY <3>1 DEF Whole
  <2>3. 4 * k - 1 = a + 2
    OBVIOUS
  <2> HIDE DEF a
  <2>4. /\ s \in Seq(Pieces)
        /\ \A i \in 1..Len(s) : s[i] = buf[a + i - 1] /\ ~IsNul(s[i])
        /\ a + Len(s) <= Len(buf) => IsNul(buf[a + Len(s)])
    BY <1>1, <2>1, StringAtIs
  <2> HIDE DEF s
  <2>5. Len(s) = 3
    <3>1. Len(s) \in Nat
      BY <2>4
    <3>2. Len(s) < 4
      <4>1. SUFFICES ASSUME Len(s) >= 4 PROVE FALSE
        BY <3>1
      <4>2. 4 \in 1..Len(s)
        BY <3>1, <4>1
      <4>3. s[4] = buf[a + 4 - 1] /\ ~IsNul(s[4])
        BY <2>4, <4>2
      <4>4. a + 4 - 1 = a + 3
        BY <2>1
      <4> QED
        BY <2>2, <4>3, <4>4
    <3>3. Len(s) # 0 /\ Len(s) # 1 /\ Len(s) # 2
      <4>1. Len(s) \in {0, 1, 2} => IsNul(buf[a + Len(s)])
        <5>1. Len(s) \in {0, 1, 2} => a + Len(s) <= Len(buf)
          <6>1. \A m \in {0, 1, 2} : a + m <= Len(buf)
            BY <1>1, <2>1
          <6> QED
            BY <6>1
        <5> QED
          BY <2>4, <5>1
      <4>2. a + 0 = a
        BY <2>1
      <4> QED
        BY <2>2, <4>1, <4>2
    <3>4. \A n \in Nat : n < 4 /\ n # 0 /\ n # 1 /\ n # 2 => n = 3
      OBVIOUS
    <3> QED
      BY <3>1, <3>2, <3>3, <3>4
  <2>6. s = SubSeq(buf, a, a + 2)
    <3> DEFINE t == SubSeq(buf, a, a + 2)
    <3>1. t \in Seq(Pieces) /\ Len(t) = 3 /\ \A i \in 1..3 : t[i] = buf[a + i - 1]
      BY <1>1, <2>1
    <3> HIDE DEF t
    <3>2. s = t
      BY <2>4, <2>5, <3>1
    <3> QED
      BY <3>2 DEF t
  <2>7. IsPacket(s)
    <3>1. s # <<>> /\ Head(s) = buf[a]
      <4>1. 1 \in 1..Len(s) /\ Head(s) = s[1] /\ s # <<>>
        <5>1. \A S : \A t \in Seq(S) : Len(t) = 3 => Head(t) = t[1] /\ t # <<>>
          BY SMTT(20)
        <5> QED
          BY <2>4, <2>5, <5>1
      <4>2. s[1] = buf[a + 1 - 1]
        BY <2>4, <4>1
      <4>3. a + 1 - 1 = a
        BY <2>1
      <4> QED
        BY <4>1, <4>2, <4>3
    <3> QED
      BY <2>2, <3>1 DEF IsPacket
  <2> QED
    BY <2>3, <2>5, <2>6, <2>7 DEF a, s
<1>3. ASSUME NEW i \in Indexes, i > 4 * q
      PROVE  StringAt(buf, i) = <<>>
  <2> DEFINE s == StringAt(buf, i)
  <2>1. i > Len(buf) => s = <<>>
    BY <1>1, StringAtIs
  <2> QED
    BY <1>1, <1>3, <2>1
<1> QED
  BY <1>2, <1>3

\* From each message on the loop finds it and those behind it, and stops
\* behind the end of the buffer.
LEMMA LoopOfWhole ==
    ASSUME NEW buf, NEW q, Whole(buf, q)
    PROVE  /\ PacketsFrom(buf, 1) = Texts(buf, q)
           /\ StopFrom(buf, 1) = 4 * q + 2
<1>1. buf \in Seq(Pieces) /\ q \in Nat /\ Len(buf) = 4 * q
  BY DEF Whole
<1> DEFINE Behind(j) == [k \in 1..(q - j) |-> SubSeq(buf, 4 * (k + j) - 3, 4 * (k + j) - 1)]
           Right(j) == /\ PacketsFrom(buf, 4 * j + 1) = Behind(j)
                       /\ StopFrom(buf, 4 * j + 1) = 4 * q + 2
           S == {m \in Nat : m <= q => Right(q - m)}
<1>2. 0 \in S
  <2> DEFINE i == 4 * q + 1
  <2>1. i \in Indexes /\ i > 4 * q
    BY <1>1 DEF Indexes
  <2>2. StringAt(buf, i) = <<>>
    BY <2>1, MessageAt
  <2>3. ~IsPacket(<<>>) /\ Len(<<>>) = 0
    BY DEF IsPacket
  <2>4. PacketsFrom(buf, i) = <<>> /\ StopFrom(buf, i) = i + 0 + 1
    <3> HIDE DEF i
    <3> QED
      BY <1>1, <2>1, <2>2, <2>3, PacketsStep, StopStep
  <2>5. Behind(q) = <<>>
    BY <1>1
  <2>6. Right(q)
    BY <1>1, <2>4, <2>5
  <2>7. q - 0 = q
    BY <1>1
  <2> HIDE DEF Right
  <2> QED
    BY <2>6, <2>7
<1>3. ASSUME NEW m \in S
      PROVE  m + 1 \in S
  <2>1. SUFFICES ASSUME m + 1 <= q PROVE Right(q - (m + 1))
    BY DEF S
  <2> DEFINE j == q - (m + 1)
             i == 4 * j + 1
             k == j + 1
             s == StringAt(buf, i)
  <2>2. m \in Nat /\ j \in Nat /\ k \in 1..q /\ i \in Indexes /\ i = 4 * k - 3 /\ q - m = k
    BY <1>1, <2>1 DEF Indexes
  <2>3. Right(k)
    <3>1. m <= q /\ Right(q - m)
      BY <1>1, <2>1, <2>2
    <3> HIDE DEF Right, k
    <3> QED
      BY <2>2, <3>1
  <2>4. s = SubSeq(buf, 4 * k - 3, 4 * k - 1) /\ IsPacket(s) /\ Len(s) = 3
    <3> HIDE DEF k, i
    <3> QED
      BY <2>2, MessageAt
  <2>5. i + 3 + 1 = 4 * k + 1
    BY <2>2
  <2>6. /\ PacketsFrom(buf, i) = <<s>> \o PacketsFrom(buf, 4 * k + 1)
        /\ StopFrom(buf, i) = StopFrom(buf, 4 * k + 1)
    <3>1. /\ PacketsFrom(buf, i) = <<s>> \o PacketsFrom(buf, i + Len(s) + 1)
          /\ StopFrom(buf, i) = StopFrom(buf, i + Len(s) + 1)
      <4> HIDE DEF i
      <4> QED
        BY <1>1, <2>2, <2>4, PacketsStep, StopStep
    <3> HIDE DEF i, k, s
    <3> QED
      BY <2>4, <2>5, <3>1
  <2>7. <<s>> \o Behind(k) = Behind(j)
    <3> DEFINE T(x) == SubSeq(buf, 4 * x - 3, 4 * x - 1)
               f == [x \in 1..(q - k) |-> T(x + k)]
               g == [x \in 1..(q - j) |-> T(x + j)]
    <3>1. f = Behind(k) /\ g = Behind(j) /\ s = T(k)
      BY <2>4
    <3>2. \A x \in 1..q : T(x) \in Seq(Pieces)
      BY <1>1
    <3> HIDE DEF T, s
    <3>3. f \in Seq(Seq(Pieces)) /\ Len(f) = q - k /\ g \in Seq(Seq(Pieces)) /\ Len(g) = q - j
      <4>1. \A x \in 1..(q - k) : T(x + k) \in Seq(Pieces)
        BY <1>1, <2>2, <3>2
      <4>2. \A x \in 1..(q - j) : T(x + j) \in Seq(Pieces)
        BY <1>1, <2>2, <3>2
      <4>3. q - k \in Nat /\ q - j \in Nat
        BY <1>1, <2>2
      <4> HIDE DEF j, k
      <4>4. f \in [1..(q - k) -> Seq(Pieces)] /\ g \in [1..(q - j) -> Seq(Pieces)]
        BY <4>1, <4>2
      <4>5. \A E : \A c \in Nat : \A h \in [1..c -> E] : h \in Seq(E) /\ Len(h) = c
        OBVIOUS
      <4> HIDE DEF f, g
      <4> QED
        BY <4>3, <4>4, <4>5
    <3>4. T(k) \in Seq(Pieces)
      BY <2>2, <3>2
    <3>5. q - j = (q - k) + 1 /\ q - k \in Nat
      BY <1>1, <2>2
    <3>6. \A x \in 1..(q - j) : g[x] = T(x + j)
      OBVIOUS
    <3>7. \A x \in 1..(q - k) : f[x] = T(x + k)
      OBVIOUS
    <3>8. k = j + 1 /\ j \in Nat
      BY <2>2
    <3> HIDE DEF f, g, k, j
    <3> DEFINE h == <<T(k)>> \o f
    <3>9. h \in Seq(Seq(Pieces)) /\ Len(h) = q - j
      BY <3>3, <3>4, <3>5
    <3>10. ASSUME NEW x \in 1..(q - j)
           PROVE  h[x] = g[x]
      <4>1. CASE x = 1
        <5>1. h[1] = T(k)
          BY <3>3, <3>4
        <5>2. g[1] = T(1 + j) /\ 1 + j = k
          BY <3>6, <3>8, <4>1
        <5> QED
          BY <4>1, <5>1, <5>2
      <4>2. CASE x # 1
        <5>1. x - 1 \in 1..(q - k) /\ x \in Nat
          BY <3>5, <4>2
        <5>2. h[x] = f[x - 1]
          BY <3>3, <3>4, <5>1
        <5>3. f[x - 1] = T((x - 1) + k)
          BY <3>7, <5>1
        <5>4. (x - 1) + k = x + j
          BY <3>8, <5>1
        <5>5. g[x] = T(x + j)
          BY <3>6
        <5> QED
          BY <5>2, <5>3, <5>4, <5>5
      <4> QED
        BY <4>1, <4>2
    <3>11. h = g
      <4> HIDE DEF h
      <4> QED
        BY <3>3, <3>9, <3>10
    <3> QED
      BY <3>1, <3>11
  <2>8. PacketsFrom(buf, i) = Behind(j) /\ StopFrom(buf, i) = 4 * q + 2
    <3> HIDE DEF Behind, i, j, k, s
    <3> QED
      BY <2>3, <2>6, <2>7
  <2> QED
    BY <2>8
<1>4. S = Nat
  <2>1. S \in SUBSET Nat
    OBVIOUS
  <2> HIDE DEF S
  <2> QED
    BY <1>2, <1>3, <2>1, AllOf
<1>5. Right(0)
  <2>1. q - q = 0
    BY <1>1
  <2>2. q \in S
    <3> HIDE DEF S
    <3> QED
      BY <1>1, <1>4
  <2> HIDE DEF Right
  <2>3. Right(q - q)
    BY <1>1, <2>2
  <2> QED
    BY <2>1, <2>3
<1>6. 4 * 0 + 1 = 1 /\ q - 0 = q /\ \A k \in 1..q : k + 0 = k
  BY <1>1
<1>7. Behind(0) = Texts(buf, q)
  BY <1>6 DEF Texts
<1> QED
  BY <1>5, <1>6, <1>7

\* A read of whole messages, with nothing left over before, delivers them and
\* leaves nothing.
LEMMA FramedWhole ==
    ASSUME NEW buf, NEW q, Whole(buf, q), q >= 1
    PROVE  Framed(buf, <<>>).packets = Texts(buf, q) /\ Framed(buf, <<>>).rest = <<>>
<1> DEFINE first == StringAt(buf, 1)
<1>1. buf \in Seq(Pieces) /\ q \in Nat /\ Len(buf) = 4 * q
  BY DEF Whole
<1>2. first = SubSeq(buf, 1, 3) /\ Len(first) = 3
  <2>1. 1 \in 1..q /\ 4 * 1 - 3 = 1 /\ 4 * 1 - 1 = 3
    BY <1>1
  <2> QED
    BY <2>1, MessageAt
<1>3. ASSUME NEW p, NEW r, Framed(buf, <<>>) = [packets |-> p, rest |-> r]
      PROVE  Framed(buf, <<>>).packets = p /\ Framed(buf, <<>>).rest = r
  BY <1>3
<1>4. CASE q = 1
  <2>1. Framed(buf, <<>>) = [packets |-> <<first>>, rest |-> <<>>]
    <3>1. Len(buf) = Len(first) + 1
      <4> HIDE DEF first
      <4> QED
        BY <1>1, <1>2, <1>4
    <3> QED
      BY <3>1 DEF Framed
  <2>2. <<first>> = Texts(buf, 1)
    <3>1. Texts(buf, 1) = [k \in 1..1 |-> SubSeq(buf, 4 * k - 3, 4 * k - 1)]
      BY DEF Texts
    <3>2. Texts(buf, 1)[1] = SubSeq(buf, 1, 3) /\ DOMAIN Texts(buf, 1) = 1..1
      BY <3>1
    <3>3. Texts(buf, 1) = [k \in 1..1 |-> Texts(buf, 1)[1]]
      BY <3>1
    <3> HIDE DEF first
    <3> QED
      BY <1>2, <3>2, <3>3
  <2> HIDE DEF first
  <2> QED
    BY <1>3, <1>4, <2>1, <2>2
<1>5. CASE q > 1
  <2>1. Framed(buf, <<>>) =
           [packets |-> PacketsFrom(buf, 1), rest |-> StringAt(buf, StopFrom(buf, 1))]
    <3>1. Len(buf) # Len(first) + 1
      <4> HIDE DEF first
      <4> QED
        BY <1>1, <1>2, <1>5
    <3> QED
      BY <3>1 DEF Framed
  <2>2. StringAt(buf, StopFrom(buf, 1)) = <<>>
    <3>1. 4 * q + 2 \in Indexes /\ 4 * q + 2 > 4 * q
      BY <1>1 DEF Indexes
    <3> QED
      BY <3>1, LoopOfWhole, MessageAt
  <2> QED
    BY <1>3, <2>1, <2>2, LoopOfWhole
<1> QED
  BY <1>1, <1>4, <1>5

LEMMA TextsJoined ==
    ASSUME NEW p \in Nat, NEW q \in Nat, NEW a \in Seq(Pieces), NEW b \in Seq(Pieces),
           Len(a) = 4 * p, Len(b) = 4 * q
    PROVE  Texts(a \o b, p + q) = Texts(a, p) \o Texts(b, q)
<1> DEFINE T(x, k) == SubSeq(x, 4 * k - 3, 4 * k - 1)
           c == a \o b
<1>1. ASSUME NEW x \in Seq(Pieces), NEW r \in Nat, Len(x) = 4 * r
      PROVE  /\ Texts(x, r) \in Seq(Seq(Pieces)) /\ Len(Texts(x, r)) = r
             /\ \A k \in 1..r : Texts(x, r)[k] = T(x, k)
  <2>1. \A k \in 1..r : T(x, k) \in Seq(Pieces)
    BY <1>1
  <2>2. Texts(x, r) = [k \in 1..r |-> T(x, k)]
    BY DEF Texts
  <2> HIDE DEF T
  <2>3. Texts(x, r) \in [1..r -> Seq(Pieces)]
    BY <2>1, <2>2
  <2>4. \A S : \A m \in Nat : \A h \in [1..m -> S] : h \in Seq(S) /\ Len(h) = m
    OBVIOUS
  <2> QED
    BY <2>2, <2>3, <2>4
<1>2. c \in Seq(Pieces) /\ Len(c) = 4 * (p + q) /\ p + q \in Nat
  OBVIOUS
<1>3. ASSUME NEW k \in 1..p
      PROVE  T(c, k) = T(a, k)
  <2> DEFINE i == 4 * k - 3
             j == 4 * k - 1
  <2>1. i \in 1..Len(a) /\ j \in 1..Len(a) /\ j = i + 2 /\ Len(a) <= Len(c)
    OBVIOUS
  <2> HIDE DEF i, j
  <2>2. \A m \in 1..Len(a) : c[m] = a[m]
    OBVIOUS
  <2> HIDE DEF c
  <2>3. SubSeq(c, i, j) = SubSeq(a, i, j)
    BY <1>2, <2>1, <2>2
  <2> QED
    BY <2>3 DEF i, j
<1>4. ASSUME NEW k \in 1..q
      PROVE  T(c, p + k) = T(b, k)
  <2> DEFINE i == 4 * (p + k) - 3
             j == 4 * (p + k) - 1
             u == 4 * k - 3
             v == 4 * k - 1
  <2>1. /\ i \in 1..Len(c) /\ j \in 1..Len(c) /\ j = i + 2
        /\ u \in 1..Len(b) /\ v \in 1..Len(b) /\ v = u + 2 /\ i = Len(a) + u
    BY <1>2
  <2> HIDE DEF i, j, u, v
  <2>2. \A m \in 1..Len(b) : c[Len(a) + m] = b[m]
    OBVIOUS
  <2> HIDE DEF c
  <2>3. SubSeq(c, i, j) \in Seq(Pieces) /\ Len(SubSeq(c, i, j)) = 3
        /\ \A m \in 1..3 : SubSeq(c, i, j)[m] = c[i + m - 1]
    BY <1>2, <2>1
  <2>4. SubSeq(b, u, v) \in Seq(Pieces) /\ Len(SubSeq(b, u, v)) = 3
        /\ \A m \in 1..3 : SubSeq(b, u, v)[m] = b[u + m - 1]
    BY <2>1
  <2>5. ASSUME NEW m \in 1..3
        PROVE  SubSeq(c, i, j)[m] = SubSeq(b, u, v)[m]
    <3>1. u + m - 1 \in 1..Len(b) /\ i + m - 1 = Len(a) + (u + m - 1)
      BY <2>1
    <3> QED
      BY <2>2, <2>3, <2>4, <3>1
  <2>6. SubSeq(c, i, j) = SubSeq(b, u, v)
    <3> DEFINE x == SubSeq(c, i, j)
               y == SubSeq(b, u, v)
    <3> HIDE DEF x, y
    <3>1. /\ x \in Seq(Pieces) /\ y \in Seq(Pieces) /\ Len(x) = 3 /\ Len(y) = 3
          /\ \A m \in 1..3 : x[m] = y[m]
      BY <2>3, <2>4, <2>5 DEF x, y
    <3>2. x = y
      BY <3>1, SMTT(20)
    <3> QED
      BY <3>2 DEF x, y
  <2> QED
    BY <2>6 DEF i, j, u, v
<1> HIDE DEF c, T
<1> DEFINE whole == Texts(c, p + q)
           left == Texts(a, p)
           right == Texts(b, q)
<1>5. /\ whole \in Seq(Seq(Pieces)) /\ Len(whole) = p + q /\ \A k \in 1..(p + q) : whole[k] = T(c, k)
      /\ left \in Seq(Seq(Pieces)) /\ Len(left) = p /\ \A k \in 1..p : left[k] = T(a, k)
      /\ right \in Seq(Seq(Pieces)) /\ Len(right) = q /\ \A k \in 1..q : right[k] = T(b, k)
  BY <1>1, <1>2
<1> HIDE DEF whole, left, right
<1> DEFINE both == left \o right
<1>6. /\ both \in Seq(Seq(Pieces)) /\ Len(both) = p + q
      /\ \A k \in 1..p : both[k] = left[k]
      /\ \A k \in (p + 1)..(p + q) : both[k] = right[k - p]
  <2>1. ASSUME NEW S, NEW x \in Seq(S), NEW y \in Seq(S)
        PROVE  /\ x \o y \in Seq(S) /\ Len(x \o y) = Len(x) + Len(y)
               /\ \A k \in 1..Len(x) : (x \o y)[k] = x[k]
               /\ \A k \in (Len(x) + 1)..(Len(x) + Len(y)) : (x \o y)[k] = y[k - Len(x)]
    OBVIOUS
  <2> QED
    BY <1>5, <2>1, ZenonT(20)
<1> HIDE DEF both
<1>7. ASSUME NEW k \in 1..(p + q)
      PROVE  whole[k] = both[k]
  <2>1. CASE k \in 1..p
    BY <1>3, <1>5, <1>6, <2>1
  <2>2. CASE k \in (p + 1)..(p + q)
    <3>1. k - p \in 1..q /\ p + (k - p) = k
      BY <2>2
    <3>2. T(c, p + (k - p)) = T(b, k - p)
      BY <1>4, <3>1
    <3> QED
      BY <1>5, <1>6, <2>2, <3>1, <3>2
  <2> QED
    BY <2>1, <2>2
<1>8. whole = both
  <2>1. \A S : \A x, y \in Seq(S) :
           Len(x) = Len(y) /\ (\A k \in 1..Len(x) : x[k] = y[k]) => x = y
    BY SMTT(20)
  <2>2. Len(whole) = p + q /\ Len(both) = p + q
    BY <1>5, <1>6
  <2> QED
    BY <1>5, <1>6, <1>7, <2>1, <2>2
<1> QED
  BY <1>8 DEF whole, both, left, right, c

\* As long as each read returned whole messages nothing is left over, and the
\* packets are the messages read.
AllWhole ==
    ~torn => /\ leftover = <<>>
             /\ \E q \in Nat : Len(received) = 4 * q /\ delivered = Texts(received, q)

LEMMA AnydataWhole ==
    ASSUME TInv, AllWhole, NEW n \in Nat, Anydata(n)
    PROVE  AllWhole'
<1> DEFINE buf == SubSeq(wire[sockfd], 1, n)
           framed == Framed(buf, leftover)
<1>1. /\ delivered' = delivered \o framed.packets
      /\ leftover' = framed.rest
      /\ received' = received \o buf
      /\ torn' = (torn \/ ~WholeMessages(buf))
  BY DEF Anydata
<1>2. /\ wire[sockfd] \in Seq(Pieces) /\ n \in 1..Len(wire[sockfd])
      /\ received \in Seq(Pieces)
  BY DEF TInv, TypeOK, Reading, Anydata
<1>3. buf \in Seq(Pieces) /\ Len(buf) = n /\ n >= 1
  BY <1>2
<1> HIDE DEF buf
<1>4. SUFFICES ASSUME ~torn' PROVE /\ leftover' = <<>>
                                   /\ \E q \in Nat : /\ Len(received') = 4 * q
                                                     /\ delivered' = Texts(received', q)
  BY DEF AllWhole
<1>5. ~torn /\ WholeMessages(buf)
  BY <1>1, <1>4
<1>6. PICK p \in Nat : Len(received) = 4 * p /\ delivered = Texts(received, p)
  BY <1>5 DEF AllWhole
<1>7. leftover = <<>>
  BY <1>5 DEF AllWhole
<1> DEFINE q == Len(buf) \div 4
<1>8. Whole(buf, q)
  BY <1>3, <1>5, WholeIs
<1> HIDE DEF q
<1>9. q \in Nat /\ Len(buf) = 4 * q /\ q >= 1
  BY <1>3, <1>8 DEF Whole
<1>10. framed.packets = Texts(buf, q) /\ framed.rest = <<>>
  BY <1>7, <1>8, <1>9, FramedWhole
<1>11. Texts(received \o buf, p + q) = Texts(received, p) \o Texts(buf, q)
  BY <1>2, <1>3, <1>6, <1>9, TextsJoined, ZenonT(20)
<1>12. p + q \in Nat /\ Len(received \o buf) = 4 * (p + q)
  BY <1>2, <1>3, <1>6, <1>9
<1> HIDE DEF framed
<1> QED
  BY <1>1, <1>6, <1>10, <1>11, <1>12

\* No other step reads, delivers or keeps anything.
LEMMA OthersRead ==
    ASSUME [Next]_vars, ~ \E n \in 1..(4 * MaxMessages + 3 * MaxPartial) : Anydata(n)
    PROVE  UNCHANGED <<torn, leftover, received, delivered>>
<1>1. CASE Daemon
  BY <1>1 DEF Daemon, CreateNetServer, NewNetConnection, AnydataEof, AnydataCrash, history
<1>2. CASE Client
  BY <1>2 DEF Client, CreateNetClient, ConnectRefused, ConnectAgain, WriteNet, WritePart,
              WriteAll, WriteTimeout, WriteError, ClientCloseNet, daemonVars, history
<1>3. CASE UNCHANGED vars
  BY <1>3 DEF vars, daemonVars, history
<1> QED
  BY <1>1, <1>2, <1>3 DEF Next

LEMMA WholeInit == Init => AllWhole
<1> SUFFICES ASSUME Init PROVE AllWhole
  OBVIOUS
<1>1. /\ leftover = <<>> /\ received = <<>> /\ delivered = <<>>
  BY DEF Init
<1>2. Texts(<<>>, 0) = <<>> /\ Len(<<>>) = 4 * 0
  BY DEF Texts
<1> QED
  BY <1>1, <1>2 DEF AllWhole

LEMMA WholeNext == TInv /\ AllWhole /\ [Next]_vars => AllWhole'
<1> SUFFICES ASSUME TInv, AllWhole, [Next]_vars PROVE AllWhole'
  OBVIOUS
<1>1. CASE \E n \in 1..(4 * MaxMessages + 3 * MaxPartial) : Anydata(n)
  <2>1. PICK n \in 1..(4 * MaxMessages + 3 * MaxPartial) : Anydata(n)
    BY <1>1
  <2>2. n \in Nat
    BY TcpipAssumption
  <2> QED
    BY <2>1, <2>2, AnydataWhole
<1>2. CASE ~ \E n \in 1..(4 * MaxMessages + 3 * MaxPartial) : Anydata(n)
  BY <1>2, OthersRead DEF AllWhole
<1> QED
  BY <1>1, <1>2

\* As long as each read returns whole messages, one or several, over any
\* number of connections, the packets are the messages read, each whole and
\* once, in their order, and none missing (anydata's loop over a buffer).
THEOREM ReadsWholeDelivered == Spec => []DeliveredWhole
<1>1. Init => AllWhole
  BY WholeInit
<1>2. TInv /\ AllWhole /\ [Next]_vars => AllWhole'
  BY WholeNext
<1>3. AllWhole => DeliveredWhole
  <2> SUFFICES ASSUME AllWhole, ~torn
               PROVE  delivered = [k \in 1..(Len(received) \div 4) |->
                                     SubSeq(received, 4 * k - 3, 4 * k - 1)]
    BY DEF DeliveredWhole
  <2>1. PICK q \in Nat : Len(received) = 4 * q /\ delivered = Texts(received, q)
    BY DEF AllWhole
  <2>2. Len(received) \div 4 = q
    BY <2>1
  <2> QED
    BY <2>1, <2>2 DEF Texts
<1>4. Init => TInv
  BY InitType
<1> QED
  BY <1>1, <1>2, <1>3, <1>4, TypeNext, PTL DEF Spec

----------------------------------------------------------------------------
(* The order of the pieces.                                                *)

Place(part) == CASE part = "<" -> 1 [] part = "text" -> 2 [] part = "</" -> 3 [] OTHER -> 4

\* x is written before y, unless one of them was never in a message.
Before(x, y) ==
    \/ x.of = 0
    \/ y.of = 0
    \/ x.of < y.of
    \/ x.of = y.of /\ Place(x.part) < Place(y.part)

InTurn(s) == \A i, j \in 1..Len(s) : i < j => Before(s[i], s[j])
AllBefore(s, t) == \A i \in 1..Len(s), j \in 1..Len(t) : Before(s[i], t[j])

\* Nothing of a message is twice in s, its messages are in order, and it is
\* made of pieces in P.
Once(s) == \A i, j \in 1..Len(s) : s[i] = s[j] /\ i # j => s[i].of = 0
Ordered(s) == \A i, j \in 1..Len(s) : i < j /\ s[i].of > 0 /\ s[j].of > 0 => s[i].of <= s[j].of
AllIn(s, P) == \A i \in 1..Len(s) : s[i] \in P
Good(s, P) == Once(s) /\ Ordered(s) /\ AllIn(s, P)

\* Nothing of a message is in both.
Apart(s, t) == \A i \in 1..Len(s), j \in 1..Len(t) : s[i] = t[j] => s[i].of = 0
ApartFrom(s, buf, k) ==
    \A i \in 1..Len(s), j \in 1..Len(buf) : k <= j /\ s[i] = buf[j] => s[i].of = 0

\* The packets d.
Clean(d, P) ==
    /\ d \in Seq(Seq(Pieces))
    /\ \A k \in 1..Len(d) : Good(d[k], P)
    /\ \A k, l \in 1..Len(d) : k # l => Apart(d[k], d[l])

\* The packets d with what is left over.
OnceIn(d, rest, P) ==
    /\ Clean(d, P)
    /\ rest \in Seq(Pieces)
    /\ Good(rest, P)
    /\ \A k \in 1..Len(d) : Apart(d[k], rest)

LEMMA BeforeIs ==
    ASSUME NEW x \in Pieces, NEW y \in Pieces, Before(x, y)
    PROVE  /\ x = y => x.of = 0
           /\ x.of > 0 /\ y.of > 0 => x.of <= y.of
<1>1. Place(x.part) \in Int /\ x.of \in Int /\ y.of \in Int
  BY TcpipAssumption DEF Place, Pieces
<1> QED
  BY <1>1 DEF Before

LEMMA ApartSwapped ==
    ASSUME NEW s, NEW t, Apart(s, t)
    PROVE  Apart(t, s)
BY DEF Apart

LEMMA BeforeApart ==
    ASSUME NEW s \in Seq(Pieces), NEW t \in Seq(Pieces), AllBefore(s, t)
    PROVE  Apart(s, t)
<1>1. ASSUME NEW i \in 1..Len(s), NEW j \in 1..Len(t), s[i] = t[j]
      PROVE  s[i].of = 0
  <2>1. s[i] \in Pieces /\ t[j] \in Pieces /\ Before(s[i], t[j])
    BY DEF AllBefore
  <2> QED
    BY <1>1, <2>1, BeforeIs
<1> QED
  BY <1>1 DEF Apart

\* One more packet.
LEMMA CleanAppend ==
    ASSUME NEW d, NEW P, Clean(d, P), NEW s \in Seq(Pieces), Good(s, P),
           \A k \in 1..Len(d) : Apart(d[k], s)
    PROVE  Clean(Append(d, s), P)
<1> DEFINE e == Append(d, s)
           n == Len(d)
<1>1. d \in Seq(Seq(Pieces))
  BY DEF Clean
<1>2. /\ e \in Seq(Seq(Pieces)) /\ Len(e) = n + 1 /\ n \in Nat
      /\ e[n + 1] = s /\ \A k \in 1..n : e[k] = d[k]
  BY <1>1
<1> HIDE DEF e
<1>3. \A k \in 1..(n + 1) : k \in 1..n \/ k = n + 1
  BY <1>2
<1>4. ASSUME NEW k \in 1..(n + 1)
      PROVE  Good(e[k], P)
  BY <1>2, <1>3 DEF Clean
<1>5. ASSUME NEW k \in 1..(n + 1), NEW l \in 1..(n + 1), k # l
      PROVE  Apart(e[k], e[l])
  <2>1. CASE k \in 1..n /\ l \in 1..n
    BY <1>2, <1>5, <2>1 DEF Clean
  <2>2. CASE k \in 1..n /\ l = n + 1
    BY <1>2, <2>2
  <2>3. CASE k = n + 1 /\ l \in 1..n
    BY <1>2, <2>3, ApartSwapped
  <2> QED
    BY <1>3, <1>5, <2>1, <2>2, <2>3
<1> HIDE DEF n
<1> QED
  BY <1>2, <1>4, <1>5 DEF Clean, e

\* What anydata takes for a string is in order if the buffer is, and is not
\* in the buffer again.
LEMMA StringOnce ==
    ASSUME NEW buf \in Seq(Pieces), InTurn(buf), NEW P, AllIn(buf, P), NEW i \in Indexes
    PROVE  LET s == StringAt(buf, i) IN
           /\ s \in Seq(Pieces)
           /\ Good(s, P)
           /\ \A j \in Indexes : i + Len(s) <= j => ApartFrom(s, buf, j)
           /\ \A a : ApartFrom(a, buf, i) => Apart(a, s)
<1> DEFINE s == StringAt(buf, i)
<1>1. /\ s \in Seq(Pieces)
      /\ i > Len(buf) => s = <<>>
      /\ i <= Len(buf) => i + Len(s) <= Len(buf) + 1
      /\ \A k \in 1..Len(s) : s[k] = buf[i + k - 1]
  BY StringAtIs
<1>2. i \in Nat /\ i >= 1 /\ Len(buf) \in Nat /\ Len(s) \in Nat
  BY <1>1 DEF Indexes
<1> DEFINE n == Len(s)
           at == [k \in 1..n |-> i + k - 1]
<1>3. n \in Nat /\ (i > Len(buf) => n = 0) /\ (i <= Len(buf) => i + n <= Len(buf) + 1)
  BY <1>1, <1>2
<1>4. /\ \A k \in 1..n : at[k] \in 1..Len(buf) /\ i <= at[k] /\ at[k] < i + n
      /\ \A k, l \in 1..n : k < l => at[k] < at[l]
  <2> DEFINE m == Len(buf)
  <2>1. m \in Nat /\ n \in Nat /\ (i > m => n = 0) /\ (i <= m => i + n <= m + 1)
    BY <1>2, <1>3
  <2> HIDE DEF n, m
  <2>2. \A k \in 1..n : i + k - 1 \in 1..m /\ i <= i + k - 1 /\ i + k - 1 < i + n
    BY <1>2, <2>1
  <2>3. \A k, l \in 1..n : k < l => i + k - 1 < i + l - 1
    BY <1>2, <2>1
  <2> QED
    BY <2>2, <2>3 DEF m
<1>5. \A k \in 1..n : s[k] = buf[at[k]] /\ buf[at[k]] \in Pieces
  <2>1. \A k \in 1..n : at[k] \in 1..Len(buf)
    BY <1>4
  <2>2. \A k \in 1..n : s[k] = buf[at[k]]
    BY <1>1
  <2>3. \A k \in 1..Len(buf) : buf[k] \in Pieces
    OBVIOUS
  <2> HIDE DEF s, at
  <2> QED
    BY <2>1, <2>2, <2>3
<1>6. \A k \in 1..Len(buf), l \in 1..Len(buf) : k < l => Before(buf[k], buf[l])
  BY DEF InTurn
<1> HIDE DEF s, at
<1>7. \A k, l \in 1..n : k < l => Before(s[k], s[l])
  BY <1>4, <1>5, <1>6
<1>8. \A k \in 1..n : s[k] \in Pieces
  BY <1>5
<1> HIDE DEF n
<1>9. \A k, l \in 1..n : k < l => /\ s[k] = s[l] => s[k].of = 0
                                  /\ s[k].of > 0 /\ s[l].of > 0 => s[k].of <= s[l].of
  BY <1>7, <1>8, BeforeIs
<1>10. Once(s)
  <2>1. ASSUME NEW k \in 1..n, NEW l \in 1..n, s[k] = s[l], k # l
        PROVE  s[k].of = 0
    <3>1. k < l \/ l < k
      BY <1>3, <2>1
    <3> QED
      BY <1>9, <2>1, <3>1
  <2> QED
    BY <2>1 DEF Once, n
<1>11. Ordered(s)
  BY <1>9 DEF Ordered, n
<1>12. AllIn(s, P)
  BY <1>4, <1>5 DEF AllIn, n
<1>13. ASSUME NEW j \in Indexes, i + n <= j
       PROVE  ApartFrom(s, buf, j)
  <2>1. ASSUME NEW k \in 1..n, NEW l \in 1..Len(buf), j <= l, s[k] = buf[l]
        PROVE  s[k].of = 0
    <3>1. at[k] < l
      <4>1. j \in Nat
        BY DEF Indexes
      <4> QED
        BY <1>2, <1>3, <1>4, <1>13, <2>1, <4>1
    <3>2. Before(buf[at[k]], buf[l]) /\ buf[at[k]] \in Pieces /\ buf[l] \in Pieces
      BY <1>4, <1>5, <1>6, <3>1
    <3> QED
      BY <1>5, <2>1, <3>2, BeforeIs
  <2> QED
    BY <2>1 DEF ApartFrom, n
<1>14. ASSUME NEW a, ApartFrom(a, buf, i)
       PROVE  Apart(a, s)
  <2>1. \A k \in 1..Len(a), l \in 1..Len(buf) : i <= l /\ a[k] = buf[l] => a[k].of = 0
    BY <1>14 DEF ApartFrom
  <2> QED
    BY <1>4, <1>5, <2>1 DEF Apart, n
<1> QED
  BY <1>1, <1>10, <1>11, <1>12, <1>13, <1>14 DEF Good, s, n

LEMMA FromLater ==
    ASSUME NEW s, NEW buf \in Seq(Pieces), NEW i \in Indexes, NEW j \in Indexes, i <= j,
           ApartFrom(s, buf, i)
    PROVE  ApartFrom(s, buf, j)
<1>1. i \in Nat /\ j \in Nat
  BY DEF Indexes
<1>2. \A k \in 1..Len(buf) : j <= k => i <= k
  BY <1>1
<1> QED
  BY <1>2 DEF ApartFrom

\* The packets d are not in the buffer from i on.
Fresh(d, buf, i) == \A k \in 1..Len(d) : ApartFrom(d[k], buf, i)

\* The packets anydata's loop finds from index i on, and the string it leaves
\* over, are nothing of what is there already.
LEMMA LoopOnce ==
    ASSUME NEW buf \in Seq(Pieces), InTurn(buf), NEW P, AllIn(buf, P), NEW i \in Indexes,
           NEW d, Clean(d, P), Fresh(d, buf, i)
    PROVE  OnceIn(d \o PacketsFrom(buf, i), StringAt(buf, StopFrom(buf, i)), P)
<1> DEFINE V == Seq(Seq(Pieces))
           at == PacketAt(buf)
           next == NextAt(buf)
           Right(k) == \A e : Clean(e, P) /\ Fresh(e, buf, k)
                          => OnceIn(e \o PacketsFrom(buf, k), StringAt(buf, StopFrom(buf, k)), P)
           G == {k \in Indexes : Right(k)}
<1>1. /\ Len(buf) \in Nat /\ at \in SUBSET Indexes /\ \A k \in at : k <= Len(buf)
      /\ next \in [Indexes -> Indexes] /\ \A k \in Indexes : next[k] > k
  BY LoopIndexes
<1>2. \A k \in Indexes : next[k] = k + Len(StringAt(buf, k)) + 1
  BY DEF NextAt
<1>3. \A k \in Indexes : IsPacket(StringAt(buf, k)) <=> k \in at
  BY DEF PacketAt
<1> HIDE DEF at, next
<1>4. ASSUME NEW k \in Indexes \ at
      PROVE  Right(k)
  <2> SUFFICES ASSUME NEW e, Clean(e, P), Fresh(e, buf, k)
               PROVE  OnceIn(e \o PacketsFrom(buf, k), StringAt(buf, StopFrom(buf, k)), P)
    OBVIOUS
  <2>1. PacketsFrom(buf, k) = <<>> /\ StopFrom(buf, k) = next[k]
    BY <1>2, <1>3, PacketsStep, StopStep
  <2> DEFINE stop == next[k]
             t == StringAt(buf, stop)
  <2>2. stop \in Indexes /\ k <= stop
    BY <1>1 DEF Indexes
  <2> HIDE DEF stop
  <2>3. t \in Seq(Pieces) /\ Good(t, P) /\ \A a : ApartFrom(a, buf, stop) => Apart(a, t)
    BY <2>2, StringOnce
  <2>4. \A l \in 1..Len(e) : Apart(e[l], t)
    <3>1. \A l \in 1..Len(e) : ApartFrom(e[l], buf, stop)
      BY <2>2, FromLater DEF Fresh
    <3> QED
      BY <2>3, <3>1
  <2>5. e \o <<>> = e
    <3>1. \A x \in V : x \o <<>> = x
      OBVIOUS
    <3> QED
      BY <3>1 DEF Clean
  <2> HIDE DEF t
  <2>6. OnceIn(e, t, P)
    BY <2>3, <2>4 DEF OnceIn
  <2> QED
    BY <2>1, <2>5, <2>6 DEF stop, t
<1>5. ASSUME NEW k \in at, next[k] \in G
      PROVE  Right(k)
  <2> SUFFICES ASSUME NEW e, Clean(e, P), Fresh(e, buf, k)
               PROVE  OnceIn(e \o PacketsFrom(buf, k), StringAt(buf, StopFrom(buf, k)), P)
    OBVIOUS
  <2> DEFINE s == StringAt(buf, k)
             n == next[k]
             rest == PacketsFrom(buf, n)
             e2 == Append(e, s)
  <2>1. k \in Indexes /\ n \in Indexes /\ n > k /\ n = k + Len(s) + 1
    BY <1>1, <1>2
  <2>2. PacketsFrom(buf, k) = <<s>> \o rest /\ StopFrom(buf, k) = StopFrom(buf, n)
        /\ rest \in V
    BY <1>3, <2>1, PacketsStep, StopStep
  <2>3. /\ s \in Seq(Pieces) /\ Good(s, P) /\ \A a : ApartFrom(a, buf, k) => Apart(a, s)
        /\ \A j \in Indexes : k + Len(s) <= j => ApartFrom(s, buf, j)
    BY <2>1, StringOnce
  <2>4. k <= n /\ k + Len(s) <= n
    BY <2>1, <2>3 DEF Indexes
  <2> HIDE DEF s, n, rest
  <2>5. Clean(e2, P)
    <3>1. \A l \in 1..Len(e) : Apart(e[l], s)
      BY <2>3 DEF Fresh
    <3> QED
      BY <2>3, <3>1, CleanAppend
  <2>6. e \in V
    BY DEF Clean
  <2>7. Fresh(e2, buf, n)
    <3>1. \A l \in 1..Len(e) : ApartFrom(e[l], buf, n)
      BY <2>1, <2>4, FromLater DEF Fresh
    <3>2. ApartFrom(s, buf, n)
      BY <2>1, <2>3, <2>4
    <3>3. Len(e2) = Len(e) + 1 /\ Len(e) \in Nat /\ e2[Len(e) + 1] = s
          /\ \A l \in 1..Len(e) : e2[l] = e[l]
      BY <2>3, <2>6
    <3>4. ASSUME NEW l \in 1..Len(e2) PROVE ApartFrom(e2[l], buf, n)
      <4>1. l \in 1..Len(e) \/ l = Len(e) + 1
        BY <3>3
      <4> HIDE DEF e2
      <4> QED
        BY <3>1, <3>2, <3>3, <4>1
    <3> QED
      BY <3>4 DEF Fresh
  <2>8. e \o (<<s>> \o rest) = e2 \o rest
    <3>1. \A S : \A x, y \in Seq(S), z \in S : x \o (<<z>> \o y) = Append(x, z) \o y
      OBVIOUS
    <3> QED
      BY <2>2, <2>3, <2>6, <3>1
  <2> HIDE DEF e2
  <2>9. OnceIn(e2 \o rest, StringAt(buf, StopFrom(buf, n)), P)
    BY <1>5, <2>5, <2>7 DEF n, rest
  <2> QED
    BY <2>2, <2>8, <2>9
<1>6. G = Indexes
  <2>1. G \in SUBSET Indexes
    OBVIOUS
  <2>2. \A k \in Indexes \ at : k \in G
    BY <1>4
  <2>3. \A k \in at : next[k] \in G => k \in G
    BY <1>1, <1>5
  <2> HIDE DEF G
  <2>4. ASSUME NEW k \in at, next[k] \in G
        PROVE  k \in G
    BY <2>3, <2>4
  <2> QED
    BY <1>1, <2>1, <2>2, <2>4, Downward
<1>7. Right(i)
  BY <1>6
<1> QED
  BY <1>7

LEMMA GoodWider ==
    ASSUME NEW s, NEW Q, NEW P, Q \subseteq P, Good(s, Q)
    PROVE  Good(s, P)
BY DEF Good, AllIn

LEMMA OnceWider ==
    ASSUME NEW d, NEW rest, NEW Q, NEW P, Q \subseteq P, OnceIn(d, rest, Q)
    PROVE  OnceIn(d, rest, P)
<1>1. \A s : Good(s, Q) => Good(s, P)
  BY GoodWider
<1>2. Clean(d, P)
  BY <1>1 DEF OnceIn, Clean
<1> QED
  BY <1>1, <1>2 DEF OnceIn

\* What is left over with a string of the buffer behind it.
LEMMA GoodJoined ==
    ASSUME NEW P, NEW r \in Seq(Pieces), NEW s \in Seq(Pieces), Good(r, P), Good(s, P),
           AllBefore(r, s)
    PROVE  /\ Good(r \o s, P)
           /\ \A t : Apart(t, r) /\ Apart(t, s) => Apart(t, r \o s)
           /\ \A buf, i : ApartFrom(r, buf, i) /\ ApartFrom(s, buf, i) => ApartFrom(r \o s, buf, i)
<1> DEFINE j == r \o s
           m == Len(r)
           n == Len(s)
<1>1. /\ m \in Nat /\ n \in Nat /\ Len(j) = m + n
      /\ \A k \in 1..m : j[k] = r[k]
      /\ \A k \in 1..n : j[m + k] = s[k]
  OBVIOUS
<1>2. /\ \A k \in 1..m : r[k] \in Pieces
      /\ \A k \in 1..n : s[k] \in Pieces
  OBVIOUS
<1> HIDE DEF j
<1>3. ASSUME NEW k \in 1..Len(j)
      PROVE  \/ k \in 1..m /\ j[k] = r[k]
             \/ k - m \in 1..n /\ j[k] = s[k - m]
  <2>1. CASE k <= m
    BY <1>1, <2>1
  <2>2. CASE k > m
    <3>1. k - m \in 1..n /\ m + (k - m) = k
      BY <1>1, <2>2
    <3> QED
      BY <1>1, <3>1
  <2> QED
    BY <1>1, <2>1, <2>2
<1>4. \A k \in 1..m, l \in 1..n : /\ r[k] = s[l] => r[k].of = 0
                                  /\ r[k].of > 0 /\ s[l].of > 0 => r[k].of <= s[l].of
  BY <1>2, BeforeIs DEF AllBefore
<1>5. Once(j)
  <2>1. ASSUME NEW k \in 1..Len(j), NEW l \in 1..Len(j), j[k] = j[l], k < l
        PROVE  j[k].of = 0
    <3>1. CASE k \in 1..m /\ l \in 1..m
      <4>1. j[k] = r[k] /\ j[l] = r[l] /\ k # l
        BY <1>1, <2>1, <3>1
      <4> QED
        BY <2>1, <3>1, <4>1 DEF Good, Once
    <3>2. CASE k \in 1..m /\ l - m \in 1..n
      <4>1. j[k] = r[k] /\ j[l] = s[l - m]
        BY <1>1, <1>3, <3>2
      <4> QED
        BY <1>4, <2>1, <3>2, <4>1
    <3>3. CASE k - m \in 1..n /\ l - m \in 1..n
      <4>1. j[k] = s[k - m] /\ j[l] = s[l - m] /\ k - m # l - m
        BY <1>1, <1>3, <2>1, <3>3
      <4> QED
        BY <2>1, <3>3, <4>1 DEF Good, Once
    <3> QED
      BY <1>1, <1>3, <2>1, <3>1, <3>2, <3>3
  <2>2. \A k, l \in 1..Len(j) : k # l => k < l \/ l < k
    BY <1>1
  <2> QED
    BY <2>1, <2>2 DEF Once
<1>6. Ordered(j)
  <2>1. ASSUME NEW k \in 1..Len(j), NEW l \in 1..Len(j), k < l, j[k].of > 0, j[l].of > 0
        PROVE  j[k].of <= j[l].of
    <3>1. CASE k \in 1..m /\ l \in 1..m
      <4>1. j[k] = r[k] /\ j[l] = r[l]
        BY <1>1, <3>1
      <4> QED
        BY <2>1, <3>1, <4>1 DEF Good, Ordered
    <3>2. CASE k \in 1..m /\ l - m \in 1..n
      <4>1. j[k] = r[k] /\ j[l] = s[l - m]
        BY <1>1, <1>3, <3>2
      <4> QED
        BY <1>4, <2>1, <3>2, <4>1
    <3>3. CASE k - m \in 1..n /\ l - m \in 1..n
      <4>1. j[k] = s[k - m] /\ j[l] = s[l - m] /\ k - m < l - m
        BY <1>1, <1>3, <2>1, <3>3
      <4> QED
        BY <2>1, <3>3, <4>1 DEF Good, Ordered
    <3> QED
      BY <1>1, <1>3, <2>1, <3>1, <3>2, <3>3
  <2> QED
    BY <2>1 DEF Ordered
<1>7. AllIn(j, P)
  BY <1>3 DEF Good, AllIn
<1>8. ASSUME NEW t, Apart(t, r), Apart(t, s)
      PROVE  Apart(t, j)
  BY <1>3, <1>8 DEF Apart
<1>9. ASSUME NEW buf, NEW i, ApartFrom(r, buf, i), ApartFrom(s, buf, i)
      PROVE  ApartFrom(j, buf, i)
  <2>1. ASSUME NEW k \in 1..Len(j), NEW l \in 1..Len(buf), i <= l, j[k] = buf[l]
        PROVE  j[k].of = 0
    <3>1. CASE \E h \in 1..Len(r) : j[k] = r[h]
      BY <1>9, <2>1, <3>1 DEF ApartFrom
    <3>2. CASE \E h \in 1..Len(s) : j[k] = s[h]
      BY <1>9, <2>1, <3>2 DEF ApartFrom
    <3> QED
      BY <1>3, <2>1, <3>1, <3>2
  <2> QED
    BY <2>1 DEF ApartFrom
<1> QED
  BY <1>5, <1>6, <1>7, <1>8, <1>9 DEF Good, j

\* However a read is framed, what is delivered and left over then is made of
\* what was there and of the buffer, each piece once.
LEMMA FramedOnce ==
    ASSUME NEW buf \in Seq(Pieces), InTurn(buf), NEW P, AllIn(buf, P), NEW Q, Q \subseteq P,
           NEW d, NEW rest, OnceIn(d, rest, Q),
           \A x \in Q : x \in Pieces /\ \A k \in 1..Len(buf) : Before(x, buf[k])
    PROVE  OnceIn(d \o Framed(buf, rest).packets, Framed(buf, rest).rest, P)
<1> DEFINE first == StringAt(buf, 1)
           next == Len(first) + 3
           joined == rest \o first
           V == Seq(Seq(Pieces))
<1>1. 1 \in Indexes
  BY DEF Indexes
<1>2. /\ first \in Seq(Pieces) /\ Good(first, P) /\ \A a : ApartFrom(a, buf, 1) => Apart(a, first)
      /\ \A j \in Indexes : 1 + Len(first) <= j => ApartFrom(first, buf, j)
  BY <1>1, StringOnce
<1>3. next \in Indexes /\ 1 <= next /\ 1 + Len(first) <= next
  BY <1>2 DEF Indexes
<1>4. OnceIn(d, rest, P)
  BY OnceWider
<1>5. rest \in Seq(Pieces) /\ Good(rest, P) /\ d \in V /\ Clean(d, P)
      /\ \A k \in 1..Len(d) : Apart(d[k], rest)
  BY <1>4 DEF OnceIn, Clean
\* What is there comes before all of the buffer.
<1>6. ASSUME NEW a, AllIn(a, Q)
      PROVE  ApartFrom(a, buf, 1)
  <2>1. ASSUME NEW k \in 1..Len(a), NEW l \in 1..Len(buf), a[k] = buf[l]
        PROVE  a[k].of = 0
    <3>1. a[k] \in Pieces /\ buf[l] \in Pieces /\ Before(a[k], buf[l])
      BY <1>6 DEF AllIn
    <3> QED
      BY <2>1, <3>1, BeforeIs
  <2> QED
    BY <2>1 DEF ApartFrom
<1>7. ApartFrom(rest, buf, 1) /\ Fresh(d, buf, 1)
  <2>1. AllIn(rest, Q) /\ \A k \in 1..Len(d) : AllIn(d[k], Q)
    BY DEF OnceIn, Clean, Good
  <2> QED
    BY <1>6, <2>1 DEF Fresh
<1>8. AllBefore(rest, first)
  <2>1. \A k \in 1..Len(first) : first[k] \in {buf[l] : l \in 1..Len(buf)}
    <3>1. AllIn(buf, {buf[l] : l \in 1..Len(buf)})
      BY DEF AllIn
    <3>2. Good(first, {buf[l] : l \in 1..Len(buf)})
      BY <1>1, <3>1, StringOnce
    <3> QED
      BY <3>2 DEF Good, AllIn
  <2>2. \A k \in 1..Len(rest) : rest[k] \in Q
    BY DEF OnceIn, Good, AllIn
  <2> QED
    BY <2>1, <2>2 DEF AllBefore
<1>9. \A k \in 1..Len(d) : Apart(d[k], first)
  BY <1>2, <1>7 DEF Fresh
<1> HIDE DEF first, next
<1>10. CASE Len(buf) = Len(first) + 1
  <2>1. Framed(buf, rest) = [packets |-> <<first>>, rest |-> rest]
    BY <1>10 DEF Framed, first
  <2>2. Clean(Append(d, first), P)
    BY <1>2, <1>5, <1>9, CleanAppend
  <2>3. \A k \in 1..Len(Append(d, first)) : Apart(Append(d, first)[k], rest)
    <3>1. Apart(first, rest)
      BY <1>2, <1>7, ApartSwapped
    <3>2. Len(Append(d, first)) = Len(d) + 1 /\ Len(d) \in Nat
          /\ Append(d, first)[Len(d) + 1] = first
          /\ \A k \in 1..Len(d) : Append(d, first)[k] = d[k]
      BY <1>2, <1>5
    <3> DEFINE e == Append(d, first)
               n == Len(d)
    <3>3. Len(e) = n + 1 /\ n \in Nat /\ e[n + 1] = first /\ \A k \in 1..n : e[k] = d[k]
      BY <3>2
    <3> HIDE DEF e, n
    <3>4. \A k \in 1..Len(e) : k \in 1..n \/ k = n + 1
      BY <3>3
    <3>5. \A k \in 1..Len(e) : Apart(e[k], rest)
      BY <1>5, <3>1, <3>3, <3>4 DEF n
    <3> QED
      BY <3>5 DEF e
  <2>4. d \o <<first>> = Append(d, first)
    <3>1. \A S : \A x \in Seq(S), z \in S : x \o <<z>> = Append(x, z)
      OBVIOUS
    <3> QED
      BY <1>2, <1>5, <3>1
  <2>5. Framed(buf, rest).packets = <<first>> /\ Framed(buf, rest).rest = rest
    BY <2>1
  <2>6. OnceIn(Append(d, first), rest, P)
    BY <1>5, <2>2, <2>3 DEF OnceIn
  <2> QED
    BY <2>4, <2>5, <2>6
<1>11. CASE Len(buf) # Len(first) + 1 /\ rest = <<>>
  <2>1. Framed(buf, rest) = [packets |-> PacketsFrom(buf, 1), rest |-> StringAt(buf, StopFrom(buf, 1))]
    BY <1>11 DEF Framed, first
  <2>2. OnceIn(d \o PacketsFrom(buf, 1), StringAt(buf, StopFrom(buf, 1)), P)
    BY <1>1, <1>5, <1>7, LoopOnce
  <2> QED
    BY <2>1, <2>2
<1>12. CASE Len(buf) # Len(first) + 1 /\ rest # <<>> /\ IsPacket(joined)
  <2>1. Framed(buf, rest) = [packets |-> <<joined>> \o PacketsFrom(buf, next),
                             rest |-> StringAt(buf, StopFrom(buf, next))]
    BY <1>12 DEF Framed, Glue, first, next
  <2> DEFINE e == Append(d, joined)
  <2>2. joined \in Seq(Pieces)
    BY <1>2, <1>5
  <2>3. /\ Good(joined, P) /\ ApartFrom(joined, buf, next)
        /\ \A k \in 1..Len(d) : Apart(d[k], joined)
    <3>1. ApartFrom(rest, buf, next)
      BY <1>1, <1>3, <1>7, FromLater
    <3>2. ApartFrom(first, buf, next)
      BY <1>2, <1>3
    <3> QED
      BY <1>2, <1>5, <1>8, <1>9, <3>1, <3>2, GoodJoined
  <2> HIDE DEF joined
  <2>4. Clean(e, P)
    BY <1>5, <2>2, <2>3, CleanAppend
  <2>5. Fresh(e, buf, next)
    <3>1. \A k \in 1..Len(d) : ApartFrom(d[k], buf, next)
      BY <1>1, <1>3, <1>7, FromLater DEF Fresh
    <3> DEFINE n == Len(d)
    <3>2. Len(e) = n + 1 /\ n \in Nat /\ e[n + 1] = joined /\ \A k \in 1..n : e[k] = d[k]
      BY <1>5, <2>2
    <3> HIDE DEF e, n
    <3>3. \A k \in 1..Len(e) : k \in 1..n \/ k = n + 1
      BY <3>2
    <3> QED
      BY <2>3, <3>1, <3>2, <3>3 DEF Fresh, n
  <2>6. OnceIn(e \o PacketsFrom(buf, next), StringAt(buf, StopFrom(buf, next)), P)
    <3> HIDE DEF e
    <3> QED
      BY <1>3, <2>4, <2>5, LoopOnce
  <2>7. d \o (<<joined>> \o PacketsFrom(buf, next)) = e \o PacketsFrom(buf, next)
    <3>1. \A S : \A x, y \in Seq(S), z \in S : x \o (<<z>> \o y) = Append(x, z) \o y
      OBVIOUS
    <3>2. PacketsFrom(buf, next) \in V
      BY <1>3, PacketsStep
    <3> QED
      BY <1>5, <2>2, <3>1, <3>2
  <2>8. /\ Framed(buf, rest).packets = <<joined>> \o PacketsFrom(buf, next)
        /\ Framed(buf, rest).rest = StringAt(buf, StopFrom(buf, next))
    BY <2>1
  <2> HIDE DEF e
  <2> QED
    BY <2>6, <2>7, <2>8
<1>13. CASE Len(buf) # Len(first) + 1 /\ rest # <<>> /\ ~IsPacket(joined)
  <2>1. Framed(buf, rest) = [packets |-> <<>>, rest |-> StringAt(buf, next)]
    BY <1>13 DEF Framed, Glue, first, next
  <2> DEFINE t == StringAt(buf, next)
  <2>2. t \in Seq(Pieces) /\ Good(t, P) /\ \A a : ApartFrom(a, buf, next) => Apart(a, t)
    BY <1>3, StringOnce
  <2> HIDE DEF t
  <2>3. \A k \in 1..Len(d) : Apart(d[k], t)
    <3>1. \A k \in 1..Len(d) : ApartFrom(d[k], buf, next)
      BY <1>1, <1>3, <1>7, FromLater DEF Fresh
    <3> QED
      BY <2>2, <3>1
  <2>4. d \o <<>> = d
    BY <1>5
  <2>5. OnceIn(d, t, P)
    BY <1>5, <2>2, <2>3 DEF OnceIn
  <2> QED
    BY <2>1, <2>4, <2>5 DEF t
<1> QED
  BY <1>10, <1>11, <1>12, <1>13

----------------------------------------------------------------------------
(* What TCP carries is in the order it was written.                        *)

\* x is no later than what writeNet has written.
Written(x) ==
    \/ x.of = 0
    \/ x.of < messages
    \/ x.of = messages /\ (sending = Idle \/ Place(x.part) <= sending.at)

\* What the daemon has not read comes behind x.
Ahead(x) == \A c \in Connections : sockfd <= c =>
               \A j \in 1..Len(wire[c]) : Before(x, wire[c][j])

Old == {x \in Pieces : Ahead(x) /\ Written(x)}

WireInTurn ==
    /\ \A c \in Connections : \A j \in 1..Len(wire[c]) : Written(wire[c][j])
    /\ \A c \in Connections : sockfd <= c => InTurn(wire[c])
    /\ \A c, d \in Connections : sockfd <= c /\ c < d => AllBefore(wire[c], wire[d])

\* The daemon takes the connections in the order they are made, and the client
\* writes to the last one only.
Connecting ==
    /\ sockfd <= made
    /\ \A i \in 1..Len(backlog) : sockfd < backlog[i] /\ backlog[i] <= made
    /\ \A i, j \in 1..Len(backlog) : i < j => backlog[i] < backlog[j]
    /\ client \in {None, made}
    /\ dialing => client = None
    /\ sending # Idle => sending.message = messages /\ messages >= 1
    /\ \A c \in Connections : made < c => wire[c] = <<>>

OInv == Connecting /\ WireInTurn /\ OnceIn(delivered, leftover, Old)

\* A step that neither reads nor writes, accepts or not.
LEMMA QuietOrder ==
    ASSUME TypeOK, TypeOK', WireInTurn, OnceIn(delivered, leftover, Old),
           UNCHANGED <<wire, delivered, leftover>>, sockfd <= sockfd',
           \A x \in Pieces : Written(x) => Written(x)'
    PROVE  WireInTurn' /\ OnceIn(delivered, leftover, Old)'
<1>1. sockfd \in Int /\ sockfd' \in Int /\ \A c \in Connections : c \in Int
  BY TcpipAssumption DEF TypeOK, Connections, None
<1>2. \A c \in Connections : sockfd' <= c => sockfd <= c
  BY <1>1
<1>3. wire' = wire
  OBVIOUS
<1>4. ASSUME NEW x \in Pieces, Ahead(x)
      PROVE  Ahead(x)'
  BY <1>2, <1>3, <1>4 DEF Ahead
<1>5. Old \subseteq Old'
  BY <1>4 DEF Old
<1>6. OnceIn(delivered, leftover, Old)'
  <2>1. OnceIn(delivered, leftover, Old')
    BY <1>5, OnceWider
  <2> QED
    BY <2>1
<1>7. \A c \in Connections : \A j \in 1..Len(wire[c]) : wire[c][j] \in Pieces
  <2>1. \A c \in Connections : wire[c] \in Seq(Pieces)
    BY DEF TypeOK
  <2>2. ASSUME NEW t \in Seq(Pieces) PROVE \A j \in 1..Len(t) : t[j] \in Pieces
    OBVIOUS
  <2> QED
    BY <2>1, <2>2
<1>8. (\A c \in Connections : \A j \in 1..Len(wire[c]) : Written(wire[c][j]))'
  <2>1. ASSUME NEW c \in Connections, NEW j \in 1..Len(wire[c])
        PROVE  (Written(wire[c][j]))'
    <3> DEFINE x == wire[c][j]
    <3>1. x \in Pieces /\ Written(x)
      BY <1>7 DEF WireInTurn
    <3>2. x' = x
      BY <1>3
    <3>3. PICK y \in Pieces : y = x /\ y = x'
      BY <3>1, <3>2
    <3>4. Written(y) => Written(y)'
      OBVIOUS
    <3>5. (x = y)' => (Written(x)' <=> Written(y)')
      BY DEF Written
    <3> QED
      BY <3>1, <3>3, <3>4, <3>5
  <2> QED
    BY <1>3, <2>1
<1>9. (\A c \in Connections : sockfd <= c => InTurn(wire[c]))'
  BY <1>2, <1>3 DEF WireInTurn
<1>10. (\A c, d \in Connections : sockfd <= c /\ c < d => AllBefore(wire[c], wire[d]))'
  BY <1>2, <1>3 DEF WireInTurn
<1> QED
  BY <1>6, <1>8, <1>9, <1>10 DEF WireInTurn

\* What writeNet writes next is behind what it has written.
LEMMA BufferInTurn ==
    ASSUME TypeOK, Connecting, sending # Idle, NEW n \in Nat
    PROVE  LET s == FromBuffer(n) IN
           /\ s \in Seq(Pieces) /\ Len(s) = n
           /\ \A i \in 1..n : s[i].of = 0
                 \/ (s[i].of = messages /\ Place(s[i].part) = sending.at + i)
           /\ InTurn(s)
           /\ \A x \in Pieces : Written(x) => \A i \in 1..n : Before(x, s[i])
<1> DEFINE s == FromBuffer(n)
<1>1. s \in Seq(Pieces)
  BY BufferType
<1>2. Len(s) = n /\ \A i \in 1..n : s[i] = IF sending.at + i <= 4
                THEN Message(sending.message)[sending.at + i] ELSE Junk
  BY DEF FromBuffer
<1>3. sending.message = messages /\ sending.at \in Nat /\ messages \in Nat
  BY TcpipAssumption DEF TypeOK, Connecting
<1>4. \A m : \A k \in 1..4 : Message(m)[k].of = m /\ Place(Message(m)[k].part) = k
  BY DEF Message, Piece, Place
<1>5. Junk.of = 0
  BY DEF Junk, Piece
<1>6. \A i \in 1..n : s[i].of = 0 \/ (s[i].of = messages /\ Place(s[i].part) = sending.at + i)
  <2>1. \A i \in 1..n : sending.at + i <= 4 => sending.at + i \in 1..4
    BY <1>3
  <2>2. \A i \in 1..n : s[i] = IF sending.at + i <= 4
                              THEN Message(messages)[sending.at + i] ELSE Junk
    BY <1>2, <1>3
  <2> HIDE DEF s
  <2>3. ASSUME NEW i \in 1..n
        PROVE  s[i].of = 0 \/ (s[i].of = messages /\ Place(s[i].part) = sending.at + i)
    <3>1. CASE sending.at + i <= 4
      BY <1>4, <2>1, <2>2, <3>1
    <3>2. CASE ~ (sending.at + i <= 4)
      <4>1. s[i] = Junk
        BY <2>2, <3>2
      <4> QED
        BY <1>5, <4>1, Zenon
    <3> QED
      BY <3>1, <3>2
  <2> QED
    BY <2>3
<1> HIDE DEF s
<1>7. InTurn(s)
  <2>1. ASSUME NEW i \in 1..n, NEW j \in 1..n, i < j
        PROVE  Before(s[i], s[j])
    <3>1. sending.at + i < sending.at + j
      BY <1>3, <2>1
    <3> QED
      BY <1>6, <3>1 DEF Before
  <2> QED
    BY <1>2, <2>1 DEF InTurn
<1>8. ASSUME NEW x \in Pieces, Written(x), NEW i \in 1..n
      PROVE  Before(x, s[i])
  <2>1. \A k \in 1..n : sending.at < sending.at + k
    BY <1>3
  <2>2. Place(x.part) \in Int
    BY DEF Place
  <2>3. x.of = messages => Place(x.part) < sending.at + i
    <3>1. x.of = messages /\ x.of # 0 => Place(x.part) <= sending.at
      BY <1>3, <1>8, TcpipAssumption DEF Written, Pieces
    <3>2. messages # 0
      BY <1>3 DEF Connecting
    <3> QED
      BY <1>3, <2>1, <2>2, <3>1, <3>2
  <2> QED
    BY <1>6, <1>8, <2>3 DEF Before, Written
<1> QED
  BY <1>1, <1>2, <1>6, <1>7, <1>8 DEF s

\* A sequence and one behind it.
LEMMA InTurnJoined ==
    ASSUME NEW s \in Seq(Pieces), NEW t \in Seq(Pieces), InTurn(s), InTurn(t), AllBefore(s, t)
    PROVE  /\ InTurn(s \o t)
           /\ s \o t \in Seq(Pieces)
           /\ \A k \in 1..Len(s \o t) : \/ k \in 1..Len(s) /\ (s \o t)[k] = s[k]
                                        \/ k - Len(s) \in 1..Len(t) /\ (s \o t)[k] = t[k - Len(s)]
<1> DEFINE j == s \o t
           m == Len(s)
           n == Len(t)
<1>1. /\ m \in Nat /\ n \in Nat /\ Len(j) = m + n
      /\ \A k \in 1..m : j[k] = s[k]
      /\ \A k \in 1..n : j[m + k] = t[k]
      /\ j \in Seq(Pieces)
  OBVIOUS
<1> HIDE DEF j
<1>2. ASSUME NEW k \in 1..Len(j)
      PROVE  \/ k \in 1..m /\ j[k] = s[k]
             \/ k - m \in 1..n /\ j[k] = t[k - m]
  <2>1. CASE k <= m
    BY <1>1, <2>1
  <2>2. CASE k > m
    <3>1. k - m \in 1..n /\ m + (k - m) = k
      BY <1>1, <2>2
    <3> QED
      BY <1>1, <3>1
  <2> QED
    BY <1>1, <2>1, <2>2
<1>3. ASSUME NEW k \in 1..Len(j), NEW l \in 1..Len(j), k < l
      PROVE  Before(j[k], j[l])
  <2>1. CASE k \in 1..m /\ l \in 1..m
    BY <1>1, <1>3, <2>1 DEF InTurn
  <2>2. CASE k \in 1..m /\ l - m \in 1..n
    <3>1. j[k] = s[k] /\ j[l] = t[l - m]
      BY <1>1, <1>2, <2>2
    <3> QED
      BY <2>2, <3>1 DEF AllBefore
  <2>3. CASE k - m \in 1..n /\ l - m \in 1..n
    <3>1. j[k] = t[k - m] /\ j[l] = t[l - m] /\ k - m < l - m
      BY <1>1, <1>2, <1>3, <2>3
    <3> QED
      BY <2>3, <3>1 DEF InTurn
  <2> QED
    BY <1>1, <1>2, <1>3, <2>1, <2>2, <2>3
<1> QED
  BY <1>1, <1>2, <1>3 DEF InTurn, j

\* A write puts its pieces behind all there are.
LEMMA WriteOrder ==
    ASSUME TypeOK, TypeOK', OInv, sending # Idle, Connected, NEW n \in Nat,
           wire' = [wire EXCEPT ![client] = @ \o FromBuffer(n)],
           sending' = Idle \/ sending' = [sending EXCEPT !.at = @ + n],
           UNCHANGED <<sockfd, messages, delivered, leftover>>
    PROVE  /\ client \in Connections /\ client = made
           /\ \A c \in Connections : c # client => wire'[c] = wire[c]
           /\ WireInTurn' /\ OnceIn(delivered, leftover, Old)'
<1> DEFINE s == FromBuffer(n)
           j == wire[client] \o s
<1>1. client \in Connections /\ client = made
  <2>1. Range(backlog) \subseteq Connections /\ serverEnd \subseteq Connections
    <3>1. backlog \in Seq(Connections) /\ serverEnd \subseteq Connections
      BY DEF TypeOK
    <3>2. \A k \in DOMAIN backlog : backlog[k] \in Connections
      BY <3>1
    <3> QED
      BY <3>1, <3>2 DEF Range
  <2>2. client \in Connections
    BY <2>1 DEF Connected
  <2>3. client # None
    BY <2>2, TcpipAssumption DEF Connections, None
  <2> QED
    BY <2>2, <2>3 DEF OInv, Connecting
<1>2. /\ \A c \in Connections : wire[c] \in Seq(Pieces)
      /\ wire'[client] = j
      /\ \A c \in Connections : c # client => wire'[c] = wire[c]
  BY <1>1 DEF TypeOK
<1>3. /\ s \in Seq(Pieces) /\ Len(s) = n
      /\ \A i \in 1..n : s[i].of = 0
            \/ (s[i].of = messages /\ Place(s[i].part) = sending.at + i)
      /\ InTurn(s)
      /\ \A x \in Pieces : Written(x) => \A i \in 1..n : Before(x, s[i])
  BY BufferInTurn DEF OInv
<1>4. /\ \A c \in Connections : \A i \in 1..Len(wire[c]) : Written(wire[c][i]) /\ wire[c][i] \in Pieces
      /\ \A c \in Connections : sockfd <= c => InTurn(wire[c])
      /\ \A c, d \in Connections : sockfd <= c /\ c < d => AllBefore(wire[c], wire[d])
  BY <1>2 DEF OInv, WireInTurn
<1>5. /\ sockfd \in Int /\ client \in Int /\ sockfd <= client
      /\ \A c \in Connections : c \in Int
      /\ \A c \in Connections : client < c => wire[c] = <<>>
  <2>1. \A c \in Connections \cup {None} : c \in Int
    BY TcpipAssumption DEF Connections, None
  <2>2. sockfd \in Connections \cup {None}
    BY DEF TypeOK
  <2>3. sockfd <= made /\ \A c \in Connections : made < c => wire[c] = <<>>
    BY DEF OInv, Connecting
  <2> QED
    BY <1>1, <2>1, <2>2, <2>3
<1> HIDE DEF s
<1>6. AllBefore(wire[client], s)
  BY <1>1, <1>3, <1>4 DEF AllBefore
<1>7. /\ InTurn(j)
      /\ \A k \in 1..Len(j) : \/ k \in 1..Len(wire[client]) /\ j[k] = wire[client][k]
                              \/ k - Len(wire[client]) \in 1..n /\ j[k] = s[k - Len(wire[client])]
  <2>1. InTurn(wire[client]) /\ wire[client] \in Seq(Pieces)
    BY <1>1, <1>2, <1>4, <1>5
  <2> QED
    BY <1>3, <1>6, <2>1, InTurnJoined
<1> HIDE DEF j
<1> DEFINE After(y) == \/ y.of = 0
                       \/ y.of < messages'
                       \/ y.of = messages' /\ (sending' = Idle \/ Place(y.part) <= sending'.at)
<1>8. (sending'.at = sending.at + n /\ sending.at \in Int) \/ sending' = Idle
  BY DEF TypeOK
<1>9. ASSUME NEW y \in Pieces, Written(y)
      PROVE  After(y)
  <2>1. Place(y.part) \in Int
    BY DEF Place
  <2> QED
    BY <1>8, <1>9, <2>1 DEF Written
<1>10. ASSUME NEW i \in 1..n
       PROVE  After(s[i])
  BY <1>3, <1>8
<1> HIDE DEF After
<1>11. ASSUME NEW c \in Connections
       PROVE  \A k \in 1..Len(wire'[c]) : wire'[c][k] \in Pieces /\ After(wire'[c][k])
  <2>1. CASE c # client
    BY <1>2, <1>4, <1>9, <2>1
  <2>2. CASE c = client
    <3>1. \A k \in 1..n : s[k] \in Pieces
      BY <1>3
    <3>2. \A k \in 1..Len(j) : j[k] \in Pieces /\ After(j[k])
      BY <1>1, <1>4, <1>7, <1>9, <1>10, <3>1
    <3> QED
      BY <1>2, <2>2, <3>2
  <2> QED
    BY <2>1, <2>2
<1>12. \A c \in Connections : sockfd <= c => InTurn(wire'[c])
  <2>1. ASSUME NEW c \in Connections, sockfd <= c
        PROVE  InTurn(wire'[c])
    <3>1. CASE c = client
      BY <1>2, <1>7, <3>1
    <3>2. CASE c # client
      BY <1>2, <1>4, <2>1, <3>2
    <3> QED
      BY <3>1, <3>2
  <2> QED
    BY <2>1
<1>13. ASSUME NEW c \in Connections, NEW d \in Connections, sockfd <= c, c < d
       PROVE  AllBefore(wire'[c], wire'[d])
  <2>1. CASE d = client
    <3>1. c # client /\ wire'[c] = wire[c] /\ wire'[d] = j
      BY <1>2, <1>5, <1>13, <2>1
    <3>2. AllBefore(wire[c], wire[client])
      BY <1>4, <1>13, <2>1
    <3>3. ASSUME NEW k \in 1..Len(wire[c]), NEW l \in 1..Len(j)
          PROVE  Before(wire[c][k], j[l])
      <4>1. CASE l \in 1..Len(wire[client]) /\ j[l] = wire[client][l]
        BY <3>2, <4>1 DEF AllBefore
      <4>2. CASE l - Len(wire[client]) \in 1..n /\ j[l] = s[l - Len(wire[client])]
        BY <1>3, <1>4, <4>2
      <4> QED
        BY <1>7, <4>1, <4>2
    <3> QED
      BY <3>1, <3>3 DEF AllBefore
  <2>2. CASE d # client
    <3>1. wire'[d] = wire[d]
      BY <1>2, <2>2
    <3>2. CASE c = client
      <4>1. wire[d] = <<>>
        BY <1>5, <1>13, <3>2
      <4> QED
        BY <3>1, <4>1 DEF AllBefore
    <3>3. CASE c # client
      <4>1. wire'[c] = wire[c]
        BY <1>2, <3>3
      <4> QED
        BY <1>4, <1>13, <3>1, <4>1
    <3> QED
      BY <3>2, <3>3
  <2> QED
    BY <2>1, <2>2
<1>14. ASSUME NEW x \in Pieces, Ahead(x), Written(x), NEW c \in Connections, sockfd <= c
       PROVE  \A k \in 1..Len(wire'[c]) : Before(x, wire'[c][k])
  <2>1. CASE c # client
    BY <1>2, <1>14, <2>1 DEF Ahead
  <2>2. CASE c = client
    <3>1. \A k \in 1..Len(wire[client]) : Before(x, wire[client][k])
      BY <1>1, <1>14, <2>2 DEF Ahead
    <3>2. \A k \in 1..n : Before(x, s[k])
      BY <1>3, <1>14
    <3>3. \A k \in 1..Len(j) : Before(x, j[k])
      BY <1>7, <3>1, <3>2
    <3> QED
      BY <1>2, <2>2, <3>3
  <2> QED
    BY <2>1, <2>2
<1>15. Old \subseteq Old'
  <2>1. ASSUME NEW x \in Pieces, Ahead(x), Written(x)
        PROVE  Ahead(x)' /\ Written(x)'
    <3>1. After(x)
      BY <1>9, <2>1
    <3>2. Written(x)'
      BY <3>1 DEF Written, After
    <3>3. sockfd' = sockfd
      OBVIOUS
    <3>4. \A c \in Connections : sockfd' <= c => \A k \in 1..Len(wire'[c]) : Before(x, wire'[c][k])
      BY <1>14, <2>1, <3>3
    <3> QED
      BY <3>2, <3>4 DEF Ahead
  <2> QED
    BY <2>1 DEF Old
<1>16. OnceIn(delivered, leftover, Old)'
  <2>1. OnceIn(delivered, leftover, Old')
    BY <1>15, OnceWider DEF OInv
  <2> QED
    BY <2>1
<1>17. WireInTurn'
  <2>1. \A c \in Connections : \A k \in 1..Len(wire'[c]) : After(wire'[c][k])
    BY <1>11
  <2>2. (\A c \in Connections : \A k \in 1..Len(wire[c]) : Written(wire[c][k]))'
    BY <2>1 DEF Written, After
  <2>3. sockfd' = sockfd
    OBVIOUS
  <2> QED
    BY <1>12, <1>13, <2>2, <2>3 DEF WireInTurn
<1> QED
  BY <1>1, <1>2, <1>16, <1>17

\* The first n of a sequence, and those behind them.
LEMMA SplitAt ==
    ASSUME NEW S, NEW s \in Seq(S), NEW n \in 1..Len(s)
    PROVE  LET buf == SubSeq(s, 1, n)
               behind == SubSeq(s, n + 1, Len(s))
           IN /\ buf \in Seq(S) /\ behind \in Seq(S)
              /\ Len(s) \in Nat /\ Len(buf) = n /\ Len(behind) = Len(s) - n
              /\ \A k \in 1..n : buf[k] = s[k]
              /\ \A k \in 1..Len(behind) : behind[k] = s[n + k]
<1>1. Len(s) \in Nat /\ n \in 1..Len(s)
  OBVIOUS
<1>2. /\ SubSeq(s, 1, n) \in Seq(S) /\ Len(SubSeq(s, 1, n)) = n
      /\ \A k \in 1..n : SubSeq(s, 1, n)[k] = s[k]
  BY <1>1
<1>3. /\ SubSeq(s, n + 1, Len(s)) \in Seq(S) /\ Len(SubSeq(s, n + 1, Len(s))) = Len(s) - n
      /\ \A k \in 1..(Len(s) - n) : SubSeq(s, n + 1, Len(s))[k] = s[n + k]
  BY <1>1
<1> QED
  BY <1>1, <1>2, <1>3

\* A read takes pieces that come behind all it took before, and before all it
\* has yet to read.
LEMMA ReadOrder ==
    ASSUME TInv, TInv', OInv, NEW n \in Nat, Anydata(n)
    PROVE  WireInTurn' /\ OnceIn(delivered, leftover, Old)'
<1> DEFINE whole == wire[sockfd]
           buf == SubSeq(whole, 1, n)
           behind == SubSeq(whole, n + 1, Len(whole))
           framed == Framed(buf, leftover)
<1>1. /\ sockfd \in Connections /\ whole \in Seq(Pieces) /\ n \in 1..Len(whole)
      /\ delivered' = delivered \o framed.packets
      /\ leftover' = framed.rest
      /\ wire' = [wire EXCEPT ![sockfd] = behind]
      /\ UNCHANGED <<sockfd, messages, sending>>
  BY DEF TInv, TypeOK, Reading, Anydata, clientVars
<1>2. /\ wire'[sockfd] = behind
      /\ \A c \in Connections : c # sockfd => wire'[c] = wire[c]
      /\ \A c \in Connections : wire[c] \in Seq(Pieces)
      /\ \A c \in Connections : c \in Int
  <2>1. wire \in [Connections -> Seq(Pieces)]
    BY DEF TInv, TypeOK
  <2>2. \A c \in Connections : c \in Int
    BY TcpipAssumption DEF Connections
  <2> HIDE DEF behind
  <2> QED
    BY <1>1, <2>1, <2>2
<1> DEFINE m == Len(whole)
<1>3. /\ buf \in Seq(Pieces) /\ behind \in Seq(Pieces)
      /\ m \in Nat /\ n \in 1..m /\ Len(buf) = n /\ Len(behind) = m - n
      /\ \A k \in 1..n : buf[k] = whole[k]
      /\ \A k \in 1..Len(behind) : behind[k] = whole[n + k]
  <2> HIDE DEF whole
  <2> QED
    BY <1>1, SplitAt, SMTT(20)
<1> HIDE DEF whole, buf, behind, m
<1>4. \A k \in 1..Len(behind) : n + k \in 1..m /\ n < n + k
  BY <1>3
<1>5. /\ \A c \in Connections : \A i \in 1..Len(wire[c]) : Written(wire[c][i]) /\ wire[c][i] \in Pieces
      /\ \A c \in Connections : sockfd <= c => InTurn(wire[c])
      /\ \A c, d \in Connections : sockfd <= c /\ c < d => AllBefore(wire[c], wire[d])
  BY <1>2 DEF OInv, WireInTurn
<1>6. InTurn(whole) /\ sockfd <= sockfd
  BY <1>1, <1>2, <1>5 DEF whole
<1>7. InTurn(buf) /\ InTurn(behind)
  <2>1. ASSUME NEW k \in 1..Len(behind), NEW l \in 1..Len(behind), k < l
        PROVE  n + k < n + l
    BY <1>3, <2>1
  <2>2. \A k, l \in 1..m : k < l => Before(whole[k], whole[l])
    BY <1>6 DEF InTurn, m
  <2>3. \A k \in 1..n : k \in 1..m
    BY <1>3
  <2> QED
    BY <1>3, <1>4, <2>1, <2>2, <2>3 DEF InTurn
<1>8. \A k \in 1..n, l \in 1..Len(behind) : Before(buf[k], behind[l])
  <2>1. \A k, l \in 1..m : k < l => Before(whole[k], whole[l])
    BY <1>6 DEF InTurn, m
  <2>2. \A k \in 1..n, l \in 1..Len(behind) : k \in 1..m /\ n + l \in 1..m /\ k < n + l
    BY <1>3
  <2> QED
    BY <1>3, <2>1, <2>2
\* What a sequence of the wire has there it has in turn with the others.
<1>9. ASSUME NEW c \in Connections
      PROVE  \A k \in 1..Len(wire'[c]) : \E l \in 1..Len(wire[c]) : wire'[c][k] = wire[c][l]
  <2>1. CASE c # sockfd
    BY <1>2, <2>1
  <2>2. CASE c = sockfd
    BY <1>2, <1>3, <1>4, <2>2 DEF whole, m
  <2> QED
    BY <2>1, <2>2
<1>10. WireInTurn'
  <2>1. ASSUME NEW c \in Connections, NEW k \in 1..Len(wire'[c])
        PROVE  (Written(wire[c][k]))'
    <3>1. PICK l \in 1..Len(wire[c]) : wire'[c][k] = wire[c][l]
      BY <1>9
    <3>2. Written(wire[c][l])
      BY <1>5
    <3> QED
      BY <1>1, <3>1, <3>2 DEF Written
  <2>2. ASSUME NEW c \in Connections, sockfd <= c
        PROVE  InTurn(wire'[c])
    <3>1. CASE c # sockfd
      BY <1>2, <1>5, <2>2, <3>1
    <3>2. CASE c = sockfd
      BY <1>2, <1>7, <3>2
    <3> QED
      BY <3>1, <3>2
  <2>3. ASSUME NEW c \in Connections, NEW d \in Connections, sockfd <= c, c < d
        PROVE  AllBefore(wire'[c], wire'[d])
    <3>1. AllBefore(wire[c], wire[d])
      BY <1>5, <2>3
    <3>2. \A k \in 1..Len(wire'[c]) : \E l \in 1..Len(wire[c]) : wire'[c][k] = wire[c][l]
      BY <1>9
    <3>3. \A k \in 1..Len(wire'[d]) : \E l \in 1..Len(wire[d]) : wire'[d][k] = wire[d][l]
      BY <1>9
    <3> QED
      BY <3>1, <3>2, <3>3 DEF AllBefore
  <2>4. sockfd' = sockfd
    BY <1>1
  <2>5. (\A c \in Connections : \A k \in 1..Len(wire[c]) : Written(wire[c][k]))'
    BY <2>1
  <2> QED
    BY <2>2, <2>3, <2>4, <2>5 DEF WireInTurn
<1>11. ASSUME NEW x \in Old
       PROVE  x \in Old' /\ x \in Pieces /\ \A k \in 1..n : Before(x, buf[k])
  <2>1. x \in Pieces /\ Ahead(x) /\ Written(x)
    BY DEF Old
  <2>2. \A k \in 1..m : Before(x, whole[k])
    BY <1>1, <1>6, <2>1 DEF Ahead, whole, m
  <2>3. Ahead(x)'
    <3>1. ASSUME NEW c \in Connections, sockfd <= c, NEW k \in 1..Len(wire'[c])
          PROVE  Before(x, wire'[c][k])
      <4>1. PICK l \in 1..Len(wire[c]) : wire'[c][k] = wire[c][l]
        BY <1>9
      <4> QED
        BY <2>1, <3>1, <4>1 DEF Ahead
    <3> QED
      BY <1>1, <3>1 DEF Ahead
  <2>4. Written(x)'
    BY <1>1, <2>1 DEF Written
  <2> QED
    BY <1>3, <2>1, <2>2, <2>3, <2>4 DEF Old
<1>12. AllIn(buf, Old')
  <2>1. ASSUME NEW k \in 1..n
        PROVE  buf[k] \in Old'
    <3> DEFINE y == buf[k]
    <3>1. y \in Pieces /\ Written(y)
      <4>1. k \in 1..m /\ y = whole[k]
        BY <1>3
      <4>2. \A l \in 1..m : whole[l] \in Pieces /\ Written(whole[l])
        BY <1>1, <1>5 DEF whole, m
      <4> HIDE DEF y
      <4> QED
        BY <4>1, <4>2
    <3>2. \A c \in Connections : sockfd <= c => \A l \in 1..Len(wire'[c]) : Before(y, wire'[c][l])
      <4>1. ASSUME NEW c \in Connections, sockfd <= c, NEW l \in 1..Len(wire'[c])
            PROVE  Before(y, wire'[c][l])
        <5>1. CASE c = sockfd
          BY <1>2, <1>8, <4>1, <5>1
        <5>2. CASE c # sockfd
          <6>1. sockfd < c /\ wire'[c] = wire[c]
            BY <1>1, <1>2, <4>1, <5>2
          <6>2. AllBefore(whole, wire[c])
            BY <1>1, <1>5, <1>6, <6>1 DEF whole
          <6>3. k \in 1..m /\ y = whole[k]
            BY <1>3
          <6> QED
            BY <6>1, <6>2, <6>3 DEF AllBefore, m
        <5> QED
          BY <5>1, <5>2
      <4> QED
        BY <4>1
    <3>3. PICK x : x = y
      OBVIOUS
    <3> HIDE DEF y
    <3>4. Ahead(x)' /\ Written(x)'
      BY <1>1, <3>1, <3>2, <3>3 DEF Ahead, Written
    <3> QED
      BY <3>1, <3>3, <3>4 DEF Old, y
  <2> QED
    BY <1>3, <2>1 DEF AllIn
<1>13. OnceIn(delivered \o framed.packets, framed.rest, Old')
  <2>1. Old \subseteq Old' /\ OnceIn(delivered, leftover, Old)
    BY <1>11 DEF OInv
  <2>2. \A x \in Old : x \in Pieces /\ \A k \in 1..Len(buf) : Before(x, buf[k])
    BY <1>3, <1>11
  <2> QED
    BY <1>3, <1>7, <1>12, <2>1, <2>2, FramedOnce
<1> QED
  BY <1>1, <1>10, <1>13

\* The connections stay in the order they are made.
LEMMA ConnectingNext ==
    ASSUME TypeOK, TypeOK', Writing, OInv, Next
    PROVE  Connecting'
<1> USE DEF clientVars, daemonVars, history
<1>1. /\ sockfd \in Int /\ made \in Int /\ messages \in Nat
      /\ backlog \in Seq(Connections) /\ \A c \in Connections : c \in Int /\ c >= 1
  BY TcpipAssumption DEF TypeOK, Connections, None
<1>2. /\ sockfd <= made
      /\ \A i \in 1..Len(backlog) : sockfd < backlog[i] /\ backlog[i] <= made
      /\ \A i, j \in 1..Len(backlog) : i < j => backlog[i] < backlog[j]
      /\ client \in {None, made}
      /\ dialing => client = None
      /\ sending # Idle => sending.message = messages /\ messages >= 1
      /\ \A c \in Connections : made < c => wire[c] = <<>>
  BY DEF OInv, Connecting
<1>3. CASE CreateNetServer
  BY <1>2, <1>3 DEF CreateNetServer, Connecting
<1>4. CASE NewNetConnection
  <2> DEFINE later == Tail(backlog)
  <2>1. /\ backlog # <<>> /\ sockfd' = backlog[1] /\ backlog' = later
        /\ UNCHANGED <<made, client, dialing, sending, messages, wire>>
    BY <1>1, <1>4 DEF NewNetConnection
  <2>2. /\ Len(backlog) \in Nat /\ Len(backlog) >= 1 /\ Len(later) = Len(backlog) - 1
        /\ \A i \in 1..Len(later) : later[i] = backlog[i + 1]
    BY <1>1, <2>1
  <2> HIDE DEF later
  <2>3. /\ 1 \in 1..Len(backlog)
        /\ \A i \in 1..Len(later) : i + 1 \in 1..Len(backlog) /\ 1 < i + 1
        /\ \A i, j \in 1..Len(later) : i < j => i + 1 < j + 1
    BY <2>2
  <2> QED
    BY <1>2, <2>1, <2>2, <2>3 DEF Connecting
<1>5. CASE \E n \in 1..(4 * MaxMessages + 3 * MaxPartial) : Anydata(n)
  <2>1. /\ UNCHANGED <<sockfd, made, client, dialing, sending, messages, backlog>>
        /\ pc = "read"
    BY <1>5 DEF Anydata
  <2>2. \A c \in Connections : made < c => wire'[c] = wire[c]
    <3>1. PICK n : wire' = [wire EXCEPT ![sockfd] = SubSeq(@, n + 1, Len(@))]
      BY <1>5 DEF Anydata
    <3>2. \A c \in Connections : made < c => c # sockfd
      BY <1>1, <1>2
    <3> QED
      BY <3>1, <3>2 DEF TypeOK
  <2> QED
    BY <1>2, <2>1, <2>2 DEF Connecting
<1>6. CASE AnydataEof \/ AnydataCrash
  BY <1>2, <1>6 DEF AnydataEof, AnydataCrash, Connecting
<1>7. CASE \/ CreateNetClient
           \/ ConnectAgain /\ listening /\ made < MaxConnections
  <2> DEFINE longer == Append(backlog, made + 1)
             m == Len(backlog)
  <2>1. /\ made' = made + 1 /\ backlog' = longer
        /\ UNCHANGED <<sockfd, sending, messages, wire>>
        /\ client' \in {None, made'} /\ (dialing' => client' = None)
    BY <1>2, <1>7 DEF CreateNetClient, ConnectAgain
  <2>2. /\ m \in Nat /\ Len(longer) = m + 1 /\ longer[m + 1] = made + 1
        /\ \A i \in 1..m : longer[i] = backlog[i] /\ backlog[i] \in Connections
    <3>1. made + 1 \in Connections
      BY <1>7, TcpipAssumption DEF CreateNetClient, ConnectAgain, TypeOK, Connections
    <3> QED
      BY <1>1, <3>1
  <2> HIDE DEF longer, m
  <2>3. \A i \in 1..Len(longer) : i \in 1..m \/ i = m + 1
    BY <2>2
  <2>4. /\ sockfd < made + 1 /\ \A i \in 1..m : backlog[i] < made + 1 /\ sockfd < backlog[i]
        /\ \A i, j \in 1..m : i < j => backlog[i] < backlog[j]
    BY <1>1, <1>2, <2>2 DEF m
  <2>5. \A i \in 1..Len(longer) : sockfd < longer[i] /\ longer[i] <= made + 1
    BY <1>1, <2>2, <2>3, <2>4
  <2>6. ASSUME NEW i \in 1..Len(longer), NEW j \in 1..Len(longer), i < j
        PROVE  longer[i] < longer[j]
    <3>1. i \in 1..m
      BY <2>2, <2>6
    <3> QED
      BY <2>2, <2>3, <2>4, <2>6, <3>1
  <2>7. \A c \in Connections : made + 1 < c => made < c
    BY <1>1
  <2>8. sockfd <= made + 1
    BY <1>1, <1>2
  <2> QED
    BY <1>2, <2>1, <2>5, <2>6, <2>7, <2>8 DEF Connecting
<1>8. CASE ConnectRefused \/ (ConnectAgain /\ ~ (listening /\ made < MaxConnections))
  BY <1>2, <1>8 DEF ConnectRefused, ConnectAgain, Connecting
<1>9. CASE WriteNet
  BY <1>1, <1>2, <1>9 DEF WriteNet, Connecting
<1>10. ASSUME NEW n \in 1..4, sending # Idle, Connected,
              wire' = [wire EXCEPT ![client] = @ \o FromBuffer(n)],
              sending' = Idle \/ sending'.message = sending.message,
              UNCHANGED <<sockfd, made, client, dialing, messages, backlog>>
       PROVE  Connecting'
  <2>1. client = made \/ client = None
    BY <1>2
  <2>2. \A c \in Connections : made < c => wire'[c] = wire[c]
    <3>1. wire \in [Connections -> Seq(Pieces)]
      BY DEF TypeOK
    <3>2. \A c \in Connections : made < c => c # client
      BY <1>1, <2>1 DEF None
    <3> QED
      BY <1>10, <3>1, <3>2
  <2> QED
    BY <1>2, <1>10, <2>2 DEF Connecting
<1>11. CASE \E n \in 1..3 : WritePart(n)
  <2>1. PICK n \in 1..3 : WritePart(n)
    BY <1>11
  <2>2. sending'.message = sending.message
    BY <2>1 DEF WritePart, TypeOK
  <2>3. /\ n \in 1..4 /\ sending # Idle /\ Connected
        /\ wire' = [wire EXCEPT ![client] = @ \o FromBuffer(n)]
        /\ UNCHANGED <<sockfd, made, client, dialing, messages, backlog>>
    BY <2>1 DEF WritePart
  <2> QED
    BY <1>10, <2>2, <2>3
<1>12. CASE WriteAll
  BY <1>10, <1>12 DEF WriteAll
<1>13. CASE WriteTimeout \/ WriteError
  <2>1. sending' = Idle \/ sending'.message = sending.message
    BY <1>13 DEF WriteTimeout, WriteError, TypeOK
  <2> QED
    BY <1>2, <1>13, <2>1 DEF WriteTimeout, WriteError, Connecting
<1>14. CASE ClientCloseNet
  BY <1>2, <1>14 DEF ClientCloseNet, Connecting
<1> QED
  BY <1>3, <1>4, <1>5, <1>6, <1>7, <1>8, <1>9, <1>11, <1>12, <1>13, <1>14 DEF Next, Daemon, Client

\* The pieces stay in order.
LEMMA PiecesNext ==
    ASSUME TInv, TInv', OInv, Next
    PROVE  WireInTurn' /\ OnceIn(delivered, leftover, Old)'
<1> USE DEF clientVars, daemonVars, history
<1>1. /\ TypeOK /\ TypeOK' /\ Connecting /\ WireInTurn /\ OnceIn(delivered, leftover, Old)
      /\ messages \in Nat /\ sockfd \in Int /\ sending.at \in Int
  <2>1. TypeOK /\ TypeOK' /\ OInv
    BY DEF TInv
  <2>2. messages \in Nat /\ sockfd \in Int /\ sending.at \in Int
    BY <2>1, TcpipAssumption DEF TypeOK, Connections, None
  <2> QED
    BY <2>1, <2>2 DEF OInv
<1>2. ASSUME UNCHANGED <<wire, delivered, leftover>>, sockfd <= sockfd',
             \/ UNCHANGED <<messages, sending>>
             \/ messages' = messages /\ sending' = Idle
             \/ messages' = messages /\ sending # Idle /\ sending' # Idle /\ sending'.at = sending.at
             \/ messages' = messages + 1
      PROVE  WireInTurn' /\ OnceIn(delivered, leftover, Old)'
  <2>1. \A x \in Pieces : Written(x) => Written(x)'
    <3>1. \A x \in Pieces : x.of \in Int
      BY TcpipAssumption DEF Pieces
    <3> QED
      BY <1>1, <1>2, <3>1 DEF Written
  <2> QED
    BY <1>1, <1>2, <2>1, QuietOrder
<1>3. CASE CreateNetServer \/ AnydataEof \/ AnydataCrash
  <2>1. UNCHANGED <<wire, delivered, leftover, sockfd, messages, sending>>
    BY <1>3 DEF CreateNetServer, AnydataEof, AnydataCrash
  <2> QED
    BY <1>1, <1>2, <2>1
<1>4. CASE NewNetConnection
  <2>1. UNCHANGED <<wire, delivered, leftover, messages, sending>> /\ sockfd <= sockfd'
    <3>1. backlog # <<>> /\ sockfd' = backlog[1] /\ backlog \in Seq(Connections)
      BY <1>1, <1>4 DEF NewNetConnection, TypeOK
    <3>2. 1 \in 1..Len(backlog)
      BY <3>1
    <3>3. sockfd < backlog[1] /\ backlog[1] \in Int
      <4>1. sockfd < backlog[1]
        BY <1>1, <3>2 DEF Connecting
      <4>2. backlog[1] \in Connections
        BY <3>1, <3>2
      <4> QED
        BY <4>1, <4>2, TcpipAssumption DEF Connections
    <3> QED
      BY <1>1, <1>4, <3>1, <3>3 DEF NewNetConnection
  <2> QED
    BY <1>2, <2>1
<1>5. CASE \E n \in 1..(4 * MaxMessages + 3 * MaxPartial) : Anydata(n)
  <2>1. PICK n \in 1..(4 * MaxMessages + 3 * MaxPartial) : Anydata(n)
    BY <1>5
  <2>2. n \in Nat
    BY TcpipAssumption
  <2> QED
    BY <2>1, <2>2, ReadOrder
<1>6. CASE CreateNetClient \/ ConnectRefused \/ ConnectAgain \/ ClientCloseNet
  <2>1. UNCHANGED <<wire, delivered, leftover, sockfd, messages, sending>>
    BY <1>6 DEF CreateNetClient, ConnectRefused, ConnectAgain, ClientCloseNet
  <2> QED
    BY <1>1, <1>2, <2>1
<1>7. CASE WriteNet
  <2>1. UNCHANGED <<wire, delivered, leftover, sockfd>> /\ messages' = messages + 1
    BY <1>7 DEF WriteNet
  <2> QED
    BY <1>1, <1>2, <2>1
<1>8. CASE \E n \in 1..3 : WritePart(n)
  <2>1. PICK n \in 1..3 : WritePart(n)
    BY <1>8
  <2>2. /\ sending # Idle /\ Connected /\ n \in Nat
        /\ wire' = [wire EXCEPT ![client] = @ \o FromBuffer(n)]
        /\ sending' = [sending EXCEPT !.at = @ + n]
        /\ UNCHANGED <<sockfd, messages, delivered, leftover>>
    BY <2>1 DEF WritePart
  <2> QED
    BY <1>1, <2>2, WriteOrder
<1>9. CASE WriteAll
  BY <1>1, <1>9, WriteOrder DEF WriteAll
<1>10. CASE WriteTimeout \/ WriteError
  <2>1. /\ UNCHANGED <<wire, delivered, leftover, sockfd, messages>>
        /\ sending # Idle
        /\ sending' = Idle \/ sending'.at = sending.at
    BY <1>10 DEF WriteTimeout, WriteError, TInv, TypeOK
  <2> QED
    BY <1>1, <1>2, <2>1
<1> QED
  BY <1>3, <1>4, <1>5, <1>6, <1>7, <1>8, <1>9, <1>10 DEF Next, Daemon, Client

LEMMA OrderNext ==
    ASSUME TInv, TInv', OInv, [Next]_vars
    PROVE  OInv'
<1>1. CASE Next
  BY <1>1, ConnectingNext, PiecesNext DEF TInv, OInv
<1>2. CASE UNCHANGED vars
  BY <1>2 DEF vars, daemonVars, clientVars, history, OInv, Connecting, WireInTurn, Old,
              Ahead, Written
<1> QED
  BY <1>1, <1>2

LEMMA OrderInit == Init => OInv
<1> SUFFICES ASSUME Init PROVE OInv
  OBVIOUS
<1> USE TcpipAssumption DEF Init, None, Idle
<1>1. Connecting
  BY DEF Connecting, Connections
<1>2. WireInTurn
  BY DEF WireInTurn, InTurn, AllBefore
<1>3. OnceIn(delivered, leftover, Old)
  <2>1. delivered = <<>> /\ leftover = <<>>
    OBVIOUS
  <2>2. <<>> \in Seq(Pieces) /\ <<>> \in Seq(Seq(Pieces)) /\ Len(<<>>) = 0
    OBVIOUS
  <2>3. 1..Len(<<>>) = {}
    OBVIOUS
  <2> QED
    BY <2>1, <2>2, <2>3 DEF OnceIn, Clean, Good, Once, Ordered, AllIn
<1> QED
  BY <1>1, <1>2, <1>3 DEF OInv

LEMMA OrderMeans == OInv => PiecesOnce
<1> SUFFICES ASSUME OInv PROVE PiecesOnce
  OBVIOUS
<1> DEFINE kept == Append(delivered, leftover)
           n == Len(delivered)
<1>1. /\ delivered \in Seq(Seq(Pieces)) /\ leftover \in Seq(Pieces)
      /\ \A k \in 1..n : Good(delivered[k], Old) /\ Apart(delivered[k], leftover)
      /\ \A k, l \in 1..n : k # l => Apart(delivered[k], delivered[l])
      /\ Good(leftover, Old)
  BY DEF OInv, OnceIn, Clean
<1>2. /\ n \in Nat /\ Len(kept) = n + 1 /\ kept[n + 1] = leftover
      /\ \A k \in 1..n : kept[k] = delivered[k]
  BY <1>1
<1> HIDE DEF kept, n
<1>3. \A k \in 1..Len(kept) : k \in 1..n \/ k = n + 1
  BY <1>2
<1>4. \A k \in 1..Len(kept) : Once(kept[k])
  BY <1>1, <1>2, <1>3 DEF Good
<1>5. ASSUME NEW k \in 1..Len(kept), NEW l \in 1..Len(kept), k # l
      PROVE  Apart(kept[k], kept[l])
  BY <1>1, <1>2, <1>3, <1>5, ApartSwapped
<1>6. ASSUME NEW k \in 1..Len(kept), NEW l \in 1..Len(kept),
             NEW i \in 1..Len(kept[k]), NEW j \in 1..Len(kept[l]),
             kept[k][i] = kept[l][j], <<k, i>> # <<l, j>>
      PROVE  kept[k][i].of = 0
  <2>1. CASE k = l
    <3>1. i # j
      BY <1>6, <2>1
    <3> QED
      BY <1>4, <1>6, <2>1, <3>1 DEF Once
  <2>2. CASE k # l
    BY <1>5, <1>6, <2>2 DEF Apart
  <2> QED
    BY <2>1, <2>2
<1>7. \A k \in 1..n : Ordered(delivered[k])
  BY <1>1 DEF Good
<1> QED
  BY <1>6, <1>7 DEF PiecesOnce, kept, n, Ordered

\* However TCP cuts what is sent and whatever writes are partial, time out or
\* fail, over any number of connections, nothing of a message is delivered
\* twice or both delivered and kept for later, and a packet never has pieces of
\* a later message before those of an earlier one (anydata's static leftover).
THEOREM PiecesDeliveredOnce == Spec => []PiecesOnce
<1>1. Init => TInv /\ OInv
  BY InitType, OrderInit
<1>2. TInv /\ OInv /\ [Next]_vars => (TInv /\ OInv)'
  BY TypeNext, OrderNext
<1>3. TInv /\ OInv => PiecesOnce
  BY OrderMeans
<1> QED
  BY <1>1, <1>2, <1>3, PTL DEF Spec

----------------------------------------------------------------------------
(* Whole messages at the front of a connection.                            *)

\* The k-th four pieces are a message, and the first J fours are, and no more.
At(w, k) == \E m \in 1..MaxMessages : \A i \in 1..4 : w[4 * k - 4 + i] = Message(m)[i]

Counts(w, J) ==
    /\ J \in Nat /\ 4 * J <= Len(w)
    /\ \A k \in 1..J : At(w, k)
    /\ 4 * (J + 1) <= Len(w) => ~At(w, J + 1)

LEMMA FrontIs ==
    ASSUME NEW w \in Seq(Pieces), NEW j \in Nat, 4 * j <= Len(w)
    PROVE  WholeMessages(SubSeq(w, 1, 4 * j)) <=> \A k \in 1..j : At(w, k)
<1> DEFINE n == 4 * j
           buf == SubSeq(w, 1, n)
<1>1. /\ Len(w) \in Nat /\ n \in Nat /\ n <= Len(w)
      /\ buf \in Seq(Pieces) /\ Len(buf) = n /\ \A i \in 1..n : buf[i] = w[i]
  OBVIOUS
<1>2. n % 4 = 0 /\ n \div 4 = j
  OBVIOUS
<1>3. ASSUME NEW k \in 1..j
      PROVE  (\E m \in 1..MaxMessages : SubSeq(buf, 4 * k - 3, 4 * k) = Message(m)) <=> At(w, k)
  <2> DEFINE a == 4 * k - 4
             four == SubSeq(buf, 4 * k - 3, 4 * k)
  <2>1. a \in Nat /\ a + 4 <= n /\ 4 * k - 3 = a + 1 /\ 4 * k = a + 4
    OBVIOUS
  <2>2. four \in Seq(Pieces) /\ Len(four) = 4 /\ \A i \in 1..4 : four[i] = w[a + i]
    <3> HIDE DEF buf, n, a
    <3>1. \A i \in 1..4 : a + i \in 1..n
      BY <1>1, <2>1
    <3>2. four = SubSeq(buf, a + 1, a + 4)
      BY <2>1
    <3>3. /\ SubSeq(buf, a + 1, a + 4) \in Seq(Pieces)
          /\ Len(SubSeq(buf, a + 1, a + 4)) = 4
          /\ \A i \in 1..4 : SubSeq(buf, a + 1, a + 4)[i] = buf[a + i]
      BY <1>1, <2>1
    <3> HIDE DEF four
    <3> QED
      BY <1>1, <3>1, <3>2, <3>3
  <2> HIDE DEF four
  <2>3. ASSUME NEW m
        PROVE  four = Message(m) <=> \A i \in 1..4 : four[i] = Message(m)[i]
    <3>1. Message(m) \in [1..4 -> {Piece(m, "<"), Piece(m, "text"), Piece(m, "</"), Piece(m, "nul")}]
      BY DEF Message
    <3>2. four = [i \in 1..4 |-> four[i]]
      BY <2>2
    <3>3. Message(m) = [i \in 1..4 |-> Message(m)[i]]
      BY <3>1
    <3> QED
      BY <3>2, <3>3
  <2> QED
    BY <2>2, <2>3 DEF At, four
<1> HIDE DEF buf, n
<1>4. WholeMessages(buf) <=>
         \A k \in 1..j : \E m \in 1..MaxMessages : SubSeq(buf, 4 * k - 3, 4 * k) = Message(m)
  BY <1>1, <1>2 DEF WholeMessages
<1> QED
  BY <1>3, <1>4 DEF buf, n

LEMMA ArrivingIs ==
    ASSUME NEW w \in Seq(Pieces), NEW J, Counts(w, J)
    PROVE  Arriving(w) = [k \in 1..J |-> w[4 * k - 3].of]
<1> DEFINE whole == {j \in 1..(Len(w) \div 4) : WholeMessages(SubSeq(w, 1, 4 * j))}
<1>1. /\ Len(w) \in Nat /\ J \in Nat /\ 4 * J <= Len(w) /\ \A k \in 1..J : At(w, k)
      /\ 4 * (J + 1) <= Len(w) => ~At(w, J + 1)
  BY DEF Counts
<1>2. \A j : j \in 1..(Len(w) \div 4) <=> j \in Nat \ {0} /\ 4 * j <= Len(w)
  BY <1>1
<1>3. \A j \in Nat \ {0} : 4 * j <= Len(w) =>
         (WholeMessages(SubSeq(w, 1, 4 * j)) <=> \A k \in 1..j : At(w, k))
  BY FrontIs
<1>4. ASSUME NEW j \in whole, j > J
      PROVE  FALSE
  <2>1. j \in Nat /\ 4 * j <= Len(w) /\ \A k \in 1..j : At(w, k)
    BY <1>2, <1>3
  <2>2. J + 1 \in 1..j /\ 4 * (J + 1) <= Len(w)
    BY <1>1, <1>4, <2>1
  <2> QED
    BY <1>1, <2>1, <2>2
<1>5. ASSUME NEW j \in 1..J
      PROVE  j \in whole
  <2>1. 4 * j <= Len(w) /\ j \in Nat \ {0} /\ \A k \in 1..j : k \in 1..J
    BY <1>1
  <2> QED
    BY <1>1, <1>2, <1>3, <2>1
<1>6. whole = 1..J
  <2>1. \A j \in whole : j \in Nat \ {0}
    BY <1>2
  <2> HIDE DEF whole
  <2>2. \A j : j \in whole => j \in 1..J
    BY <1>1, <1>4, <2>1
  <2> QED
    BY <1>5, <2>2
<1> HIDE DEF whole
<1>7. Arriving(w) = [j \in whole |-> w[4 * j - 3].of]
  BY DEF Arriving, whole
<1> QED
  BY <1>6, <1>7

\* There is such a number for each connection.
LEMMA Counted ==
    ASSUME NEW w \in Seq(Pieces)
    PROVE  \E J \in Nat : Counts(w, J)
<1> DEFINE S == {J \in Nat : ~ (4 * (J + 1) <= Len(w) /\ At(w, J + 1))}
<1>1. Len(w) \in Nat /\ S \in SUBSET Nat /\ Len(w) \in S
  <2>1. Len(w) \in Nat
    OBVIOUS
  <2>2. ~ (4 * (Len(w) + 1) <= Len(w))
    BY <2>1
  <2> QED
    BY <2>1, <2>2
<1>2. PICK J \in S : \A k \in S : J <= k
  <2> HIDE DEF S
  <2> QED
    BY <1>1, Smallest
<1>3. J \in Nat
  BY <1>1
<1>4. ASSUME NEW k \in 1..J
      PROVE  4 * k <= Len(w) /\ At(w, k)
  <2>1. k - 1 \in Nat /\ ~ (J <= k - 1) /\ (k - 1) + 1 = k
    BY <1>3
  <2>2. k - 1 \notin S
    BY <1>2, <2>1
  <2> QED
    BY <2>1, <2>2
<1>5. 4 * J <= Len(w)
  <2>1. CASE J = 0
    BY <1>1, <2>1
  <2>2. CASE J # 0
    <3>1. J \in 1..J
      BY <1>3, <2>2
    <3> QED
      BY <1>4, <3>1
  <2> QED
    BY <2>1, <2>2
<1> QED
  BY <1>2, <1>3, <1>4, <1>5 DEF Counts

\* A read of whole messages takes them from the front.
LEMMA CountsBehind ==
    ASSUME NEW w \in Seq(Pieces), NEW J, Counts(w, J), NEW n \in 1..Len(w),
           WholeMessages(SubSeq(w, 1, n))
    PROVE  LET q == n \div 4
               behind == SubSeq(w, n + 1, Len(w))
           IN /\ q \in 1..J /\ n = 4 * q
              /\ Arriving(behind) = SubSeq(Arriving(w), q + 1, Len(Arriving(w)))
<1> DEFINE q == n \div 4
           behind == SubSeq(w, n + 1, Len(w))
           buf == SubSeq(w, 1, n)
<1>1. /\ Len(w) \in Nat /\ n \in Nat /\ n >= 1 /\ n <= Len(w)
      /\ J \in Nat /\ 4 * J <= Len(w) /\ \A k \in 1..J : At(w, k)
      /\ 4 * (J + 1) <= Len(w) => ~At(w, J + 1)
  BY DEF Counts
<1>2. /\ Len(buf) = n
      /\ behind \in Seq(Pieces) /\ Len(behind) = Len(w) - n
      /\ \A k \in 1..Len(behind) : behind[k] = w[n + k]
  BY SplitAt
<1>3. n = 4 * q /\ q \in Nat /\ q >= 1
  <2>1. n % 4 = 0
    BY <1>2 DEF WholeMessages
  <2> QED
    BY <1>1, <2>1
<1> HIDE DEF q, behind, buf
<1>4. \A k \in 1..q : At(w, k)
  BY <1>1, <1>3, FrontIs DEF buf
<1>5. q <= J
  <2>1. SUFFICES ASSUME J < q PROVE FALSE
    BY <1>1, <1>3
  <2>2. J + 1 \in 1..q /\ 4 * (J + 1) <= Len(w)
    BY <1>1, <1>3, <2>1
  <2> QED
    BY <1>1, <1>4, <2>2
<1>6. ASSUME NEW k \in Nat \ {0}, 4 * k <= Len(behind)
      PROVE  /\ At(behind, k) <=> At(w, q + k)
             /\ behind[4 * k - 3] = w[4 * (q + k) - 3]
  <2>1. \A i \in 1..4 : /\ 4 * k - 4 + i \in 1..Len(behind)
                        /\ n + (4 * k - 4 + i) = 4 * (q + k) - 4 + i
    BY <1>2, <1>3, <1>6
  <2>2. \A i \in 1..4 : behind[4 * k - 4 + i] = w[4 * (q + k) - 4 + i]
    BY <1>2, <2>1
  <2>3. 4 * k - 4 + 1 = 4 * k - 3 /\ 4 * (q + k) - 4 + 1 = 4 * (q + k) - 3 /\ 1 \in 1..4
    BY <1>3
  <2> QED
    BY <2>2, <2>3 DEF At
<1>7. Counts(behind, J - q)
  <2>1. J - q \in Nat /\ 4 * (J - q) <= Len(behind)
    BY <1>1, <1>2, <1>3, <1>5
  <2>2. \A k \in 1..(J - q) : k \in Nat \ {0} /\ 4 * k <= Len(behind) /\ q + k \in 1..J
    BY <1>1, <1>2, <1>3, <1>5
  <2>3. \A k \in 1..(J - q) : At(behind, k)
    BY <1>1, <1>6, <2>2
  <2>4. 4 * ((J - q) + 1) <= Len(behind) => ~At(behind, (J - q) + 1)
    <3>1. q + ((J - q) + 1) = J + 1 /\ (J - q) + 1 \in Nat \ {0}
      BY <1>1, <1>3, <2>1
    <3>2. 4 * ((J - q) + 1) <= Len(behind) => 4 * (J + 1) <= Len(w)
      BY <1>1, <1>2, <1>3, <2>1
    <3> QED
      BY <1>1, <1>6, <3>1, <3>2
  <2> QED
    BY <2>1, <2>3, <2>4 DEF Counts
<1>8. Arriving(behind) = [k \in 1..(J - q) |-> behind[4 * k - 3].of]
  BY <1>2, <1>7, ArrivingIs
<1>9. \A k \in 1..(J - q) : behind[4 * k - 3] = w[4 * (q + k) - 3]
  <2>1. \A k \in 1..(J - q) : k \in Nat \ {0} /\ 4 * k <= Len(behind)
    BY <1>1, <1>2, <1>3, <1>5
  <2> QED
    BY <1>6, <2>1
<1>10. SubSeq(Arriving(w), q + 1, Len(Arriving(w))) = [k \in 1..(J - q) |-> w[4 * (q + k) - 3].of]
  <2> DEFINE f == [k \in 1..J |-> w[4 * k - 3].of]
             rest == SubSeq(f, q + 1, J)
  <2>1. Arriving(w) = f
    BY ArrivingIs
  <2>2. f \in Seq(Int) /\ Len(f) = J
    <3>1. ASSUME NEW k \in 1..J PROVE w[4 * k - 3].of \in Int
      <4>1. 4 * k - 3 \in 1..Len(w)
        BY <1>1
      <4>2. w[4 * k - 3] \in Pieces
        BY <4>1
      <4> QED
        BY <4>2, TcpipAssumption DEF Pieces
    <3> QED
      BY <1>1, <3>1
  <2>3. \A k \in 1..(J - q) : q + k \in 1..J /\ f[q + k] = w[4 * (q + k) - 3].of
    BY <1>1, <1>3, <1>5
  <2> HIDE DEF f
  <2>4. /\ rest \in Seq(Int) /\ Len(rest) = J - q
        /\ \A k \in 1..(J - q) : rest[k] = f[q + k]
    BY <1>1, <1>3, <1>5, <2>2
  <2> HIDE DEF rest
  <2>5. rest = [k \in 1..(J - q) |-> rest[k]]
    BY <2>4
  <2>6. rest = [k \in 1..(J - q) |-> w[4 * (q + k) - 3].of]
    BY <2>3, <2>4, <2>5
  <2> QED
    BY <2>1, <2>2, <2>6 DEF rest
<1>11. Arriving(behind) = SubSeq(Arriving(w), q + 1, Len(Arriving(w)))
  <2>1. [k \in 1..(J - q) |-> behind[4 * k - 3].of] = [k \in 1..(J - q) |-> w[4 * (q + k) - 3].of]
    BY <1>9
  <2> QED
    BY <1>8, <1>10, <2>1
<1>12. q \in 1..J
  BY <1>1, <1>3, <1>5
<1> QED
  BY <1>3, <1>11, <1>12 DEF q, behind

\* A write completes one message at most, the one writeNet is called with, and
\* then what is before it is whole.
LEMMA CountsMore ==
    ASSUME TypeOK, Connecting, sending # Idle, NEW n \in 1..4,
           NEW w \in Seq(Pieces), NEW J, Counts(w, J)
    PROVE  LET joined == w \o FromBuffer(n)
           IN \/ Arriving(joined) = Arriving(w)
              \/ /\ Arriving(joined) = Append(Arriving(w), messages)
                 /\ sending.at = Len(w) - 4 * J /\ sending.at <= 3
                 /\ sending.at > 0 => w[4 * J + 1] = Piece(messages, "<")
<1> DEFINE s == FromBuffer(n)
           joined == w \o s
<1>1. /\ Len(w) \in Nat /\ J \in Nat /\ 4 * J <= Len(w) /\ \A k \in 1..J : At(w, k)
      /\ 4 * (J + 1) <= Len(w) => ~At(w, J + 1)
  BY DEF Counts
<1>2. /\ s \in Seq(Pieces) /\ Len(s) = n /\ n \in Nat /\ n <= 4
      /\ \A i \in 1..n : s[i].of = 0 \/ (s[i].of = messages /\ Place(s[i].part) = sending.at + i)
  <2>1. n \in Nat /\ n <= 4
    OBVIOUS
  <2> HIDE DEF s
  <2> QED
    BY <2>1, BufferInTurn DEF s
<1>3. sending.at \in Nat /\ messages \in Nat
  BY TcpipAssumption DEF TypeOK
<1> HIDE DEF s
<1>4. /\ joined \in Seq(Pieces) /\ Len(joined) = Len(w) + n
      /\ \A k \in 1..Len(w) : joined[k] = w[k]
      /\ \A i \in 1..n : joined[Len(w) + i] = s[i]
  BY <1>2
<1> HIDE DEF joined
<1>5. ASSUME NEW k \in Nat \ {0}, 4 * k <= Len(w)
      PROVE  /\ At(joined, k) <=> At(w, k)
             /\ joined[4 * k - 3] = w[4 * k - 3]
  <2>1. \A i \in 1..4 : 4 * k - 4 + i \in 1..Len(w)
    BY <1>1, <1>5
  <2>2. \A i \in 1..4 : joined[4 * k - 4 + i] = w[4 * k - 4 + i]
    BY <1>4, <2>1
  <2>3. 4 * k - 4 + 1 = 4 * k - 3 /\ 1 \in 1..4
    OBVIOUS
  <2> QED
    BY <2>2, <2>3 DEF At
<1>6. \A k \in 1..J : k \in Nat \ {0} /\ 4 * k <= Len(w)
  BY <1>1
<1>7. Arriving(w) = [k \in 1..J |-> w[4 * k - 3].of]
  BY ArrivingIs
<1>8. CASE ~ (4 * (J + 1) <= Len(joined) /\ At(joined, J + 1))
  <2>1. Counts(joined, J)
    <3>1. 4 * J <= Len(joined)
      BY <1>1, <1>2, <1>4
    <3> QED
      BY <1>1, <1>5, <1>6, <1>8, <3>1 DEF Counts
  <2>2. Arriving(joined) = [k \in 1..J |-> joined[4 * k - 3].of]
    BY <1>4, <2>1, ArrivingIs
  <2>3. \A k \in 1..J : joined[4 * k - 3].of = w[4 * k - 3].of
    BY <1>5, <1>6
  <2> QED
    BY <1>7, <2>2, <2>3 DEF joined, s
<1>9. CASE 4 * (J + 1) <= Len(joined) /\ At(joined, J + 1)
  <2> DEFINE l == Len(w) - 4 * J
  <2>1. l \in Nat /\ l <= 3 /\ l + n >= 4 /\ l + n <= 7 /\ Len(w) = 4 * J + l
    <3>1. ~ (4 * (J + 1) <= Len(w))
      <4>1. J + 1 \in Nat \ {0}
        BY <1>1
      <4> QED
        BY <1>1, <1>5, <1>9, <4>1
    <3> QED
      BY <1>1, <1>2, <1>4, <1>9, <3>1
  <2> HIDE DEF l
  <2>2. PICK m \in 1..MaxMessages : \A i \in 1..4 : joined[4 * J + i] = Message(m)[i]
    <3>1. 4 * (J + 1) - 4 = 4 * J
      BY <1>1
    <3> QED
      BY <1>9, <3>1 DEF At
  <2>3. m # 0 /\ \A i \in 1..4 : Message(m)[i].of = m /\ Place(Message(m)[i].part) = i
    BY TcpipAssumption DEF Message, Piece, Place
  <2>4. ASSUME NEW i \in 1..4, i > l
        PROVE  m = messages /\ sending.at = l
    <3>1. i - l \in 1..n /\ 4 * J + i = Len(w) + (i - l)
      BY <1>1, <1>2, <2>1, <2>4
    <3>2. s[i - l] = Message(m)[i]
      BY <1>4, <2>2, <3>1
    <3>3. s[i - l].of = m /\ Place(s[i - l].part) = i
      BY <2>3, <3>2
    <3>4. m = messages /\ i = sending.at + (i - l)
      BY <1>2, <2>3, <3>1, <3>3
    <3> QED
      BY <1>3, <2>1, <3>4
  <2>5. m = messages /\ sending.at = l
    BY <2>1, <2>4
  <2>6. Counts(joined, J + 1)
    <3>1. \A k \in 1..(J + 1) : At(joined, k)
      <4>1. \A k \in 1..(J + 1) : k \in 1..J \/ k = J + 1
        BY <1>1
      <4> QED
        BY <1>1, <1>5, <1>6, <1>9, <4>1
    <3>2. ~ (4 * ((J + 1) + 1) <= Len(joined)) /\ J + 1 \in Nat
      BY <1>1, <1>4, <2>1
    <3> QED
      BY <1>9, <3>1, <3>2 DEF Counts
  <2>7. joined[4 * J + 1] = Piece(messages, "<")
    BY <2>2, <2>5 DEF Message
  <2>8. Arriving(joined) = Append(Arriving(w), messages)
    <3> DEFINE f == [k \in 1..J |-> w[4 * k - 3].of]
               g == [k \in 1..(J + 1) |-> joined[4 * k - 3].of]
    <3>1. Arriving(joined) = g
      BY <1>4, <2>6, ArrivingIs
    <3>2. \A k \in 1..J : joined[4 * k - 3].of = f[k]
      BY <1>5, <1>6
    <3>3. joined[4 * (J + 1) - 3].of = messages
      <4>1. 4 * (J + 1) - 3 = 4 * J + 1
        BY <1>1
      <4> QED
        BY <2>7, <4>1 DEF Piece
    <3>4. f \in Seq(Int) /\ Len(f) = J
      <4>1. ASSUME NEW k \in 1..J PROVE w[4 * k - 3].of \in Int
        <5>1. 4 * k - 3 \in 1..Len(w)
          BY <1>1
        <5>2. w[4 * k - 3] \in Pieces
          BY <5>1
        <5> QED
          BY <5>2, TcpipAssumption DEF Pieces
      <4> QED
        BY <1>1, <4>1
    <3>5. \A k \in 1..(J + 1) : g[k] = IF k = J + 1 THEN messages ELSE f[k]
      <4>1. \A k \in 1..(J + 1) : k = J + 1 \/ k \in 1..J
        BY <1>1
      <4>2. \A k \in 1..(J + 1) : g[k] = joined[4 * k - 3].of
        OBVIOUS
      <4>3. \A k \in 1..J : k # J + 1
        BY <1>1
      <4> HIDE DEF f, g
      <4> QED
        BY <3>2, <3>3, <4>1, <4>2, <4>3
    <3>6. g = [k \in 1..(J + 1) |-> g[k]]
      OBVIOUS
    <3> HIDE DEF f, g
    <3>7. Append(f, messages) = [k \in 1..(J + 1) |-> IF k = J + 1 THEN messages ELSE f[k]]
      <4> DEFINE a == Append(f, messages)
      <4>1. /\ a \in Seq(Int) /\ Len(a) = J + 1
            /\ \A k \in 1..(J + 1) : a[k] = IF k = J + 1 THEN messages ELSE f[k]
        BY <1>1, <1>3, <3>4
      <4>2. a = [k \in 1..(J + 1) |-> a[k]]
        <5> HIDE DEF a
        <5> QED
          BY <4>1
      <4> HIDE DEF a
      <4> QED
        BY <4>1, <4>2 DEF a
    <3> QED
      BY <1>7, <3>1, <3>5, <3>6, <3>7 DEF f
  <2>9. sending.at > 0 => w[4 * J + 1] = Piece(messages, "<")
    <3>1. sending.at > 0 => 4 * J + 1 \in 1..Len(w)
      BY <1>1, <2>1, <2>5
    <3> QED
      BY <1>4, <2>7, <3>1
  <2> QED
    BY <2>1, <2>5, <2>8, <2>9 DEF joined, s, l
<1> QED
  BY <1>8, <1>9

\* That message is later than all that are on their way or delivered.
LEMMA SentIsLatest ==
    ASSUME TypeOK, OInv, sending # Idle, client \in Connections, client = made,
           NEW J, Counts(wire[client], J),
           sending.at = Len(wire[client]) - 4 * J, sending.at <= 3,
           sending.at > 0 => wire[client][4 * J + 1] = Piece(messages, "<")
    PROVE  /\ \A c \in Connections : \A k \in 1..Len(Arriving(wire[c])) :
                 Arriving(wire[c])[k] < messages
           /\ \A k \in 1..Len(delivered) : \A i \in 1..Len(delivered[k]) :
                 delivered[k][i].of < messages
<1>1. /\ Connecting /\ WireInTurn /\ OnceIn(delivered, leftover, Old)
      /\ sending.message = messages /\ messages >= 1 /\ messages \in Nat /\ sending.at \in Nat
      /\ \A c \in Connections : wire[c] \in Seq(Pieces)
  BY TcpipAssumption DEF OInv, Connecting, TypeOK
<1>2. \A x \in Pieces : x.of \in Nat /\ Place(x.part) \in 1..4
  BY TcpipAssumption DEF Pieces, Place
<1>3. ASSUME NEW x \in Pieces, Written(x), x.of = messages
      PROVE  Place(x.part) <= sending.at
  BY <1>1, <1>3 DEF Written
<1>4. ASSUME NEW x \in Pieces, Written(x)
      PROVE  x.of <= messages
  BY <1>1, <1>2, <1>4 DEF Written
<1>5. ASSUME NEW c \in Connections, NEW k \in 1..Len(Arriving(wire[c]))
      PROVE  Arriving(wire[c])[k] < messages
  <2> DEFINE w == wire[c]
  <2>1. w \in Seq(Pieces) /\ \A i \in 1..Len(w) : w[i] \in Pieces /\ Written(w[i])
    BY <1>1 DEF WireInTurn
  <2> HIDE DEF w
  <2>2. PICK j \in Nat : Counts(w, j)
    BY <2>1, Counted
  <2>3. Arriving(w) = [i \in 1..j |-> w[4 * i - 3].of]
    BY <2>1, <2>2, ArrivingIs
  <2>4. k \in 1..j /\ Arriving(w)[k] = w[4 * k - 3].of
    <3>1. Len([i \in 1..j |-> w[4 * i - 3].of]) = j
      BY <2>2
    <3> QED
      BY <2>3, <3>1 DEF w
  <2>5. PICK m \in 1..MaxMessages : \A i \in 1..4 : w[4 * k - 4 + i] = Message(m)[i]
    BY <2>2, <2>4 DEF Counts, At
  <2>6. 4 * k - 4 + 1 = 4 * k - 3 /\ 4 * k - 4 + 4 = 4 * k /\ 1 \in 1..4 /\ 4 \in 1..4
    BY <2>4
  <2>7. w[4 * k - 3] = Message(m)[1] /\ w[4 * k] = Message(m)[4]
    BY <2>5, <2>6
  <2>8. 4 * k \in 1..Len(w)
    BY <2>1, <2>2, <2>4 DEF Counts
  <2>9. w[4 * k - 3].of = m /\ w[4 * k].of = m /\ Place(w[4 * k].part) = 4
    BY <2>7 DEF Message, Piece, Place
  <2>10. w[4 * k] \in Pieces /\ Written(w[4 * k])
    BY <2>1, <2>8
  <2>11. m <= messages
    BY <1>4, <2>9, <2>10
  <2>12. m # messages
    BY <1>1, <1>3, <2>9, <2>10
  <2> QED
    BY <1>1, <2>4, <2>9, <2>11, <2>12 DEF w
<1>6. ASSUME NEW x \in Old
      PROVE  x.of < messages
  <2>1. x \in Pieces /\ Ahead(x) /\ Written(x)
    BY DEF Old
  <2>2. SUFFICES ASSUME x.of = messages PROVE FALSE
    BY <1>1, <1>2, <1>4, <2>1
  <2>3. Place(x.part) <= sending.at /\ Place(x.part) >= 1
    BY <1>2, <1>3, <2>1, <2>2
  <2>4. sending.at > 0
    BY <1>1, <1>2, <2>1, <2>3
  <2>5. 4 * J + 1 \in 1..Len(wire[client])
    <3>1. J \in Nat /\ Len(wire[client]) \in Nat
      <4>1. wire[client] \in Seq(Pieces)
        BY <1>1
      <4> QED
        BY <4>1 DEF Counts
    <3> QED
      BY <2>4, <3>1
  <2>6. sockfd <= client
    BY <1>1 DEF Connecting
  <2>7. Before(x, Piece(messages, "<"))
    BY <2>1, <2>4, <2>5, <2>6 DEF Ahead
  <2>8. Piece(messages, "<").of = messages /\ Place(Piece(messages, "<").part) = 1
    BY DEF Piece, Place
  <2> QED
    BY <1>1, <1>2, <2>1, <2>2, <2>3, <2>7, <2>8 DEF Before
<1>7. ASSUME NEW k \in 1..Len(delivered), NEW i \in 1..Len(delivered[k])
      PROVE  delivered[k][i].of < messages
  <2>1. delivered[k][i] \in Old
    BY <1>1 DEF OnceIn, Clean, Good, AllIn
  <2> QED
    BY <1>6, <2>1
<1> QED
  BY <1>5, <1>7

----------------------------------------------------------------------------
(* Tcpip carries messages.                                                 *)

\* The backlog has the connections behind the one accepted last, in turn, and
\* the client writes to a connection it has open.
InBacklog ==
    /\ backlog = [i \in 1..(made - sockfd) |-> sockfd + i]
    /\ client # None => client \in clientEnd

LEMMA JoinedIs ==
    ASSUME NEW S, NEW s \in Seq(S), NEW t \in Seq(S)
    PROVE  /\ s \o t \in Seq(S) /\ Len(s \o t) = Len(s) + Len(t)
           /\ \A k \in 1..Len(s) : (s \o t)[k] = s[k]
           /\ \A k \in 1..Len(t) : (s \o t)[Len(s) + k] = t[k]
OBVIOUS

LEMMA BacklogNext ==
    ASSUME TypeOK, Connecting, InBacklog, [Next]_vars
    PROVE  InBacklog'
<1> USE DEF daemonVars, clientVars, history
<1>1. /\ made \in Int /\ sockfd \in Int /\ sockfd <= made
      /\ backlog = [i \in 1..(made - sockfd) |-> sockfd + i]
      /\ client # None => client \in clientEnd
  BY TcpipAssumption DEF TypeOK, Connecting, InBacklog, Connections, None
<1>2. CASE NewNetConnection
  <2>1. /\ backlog # <<>> /\ sockfd' = Head(backlog) /\ backlog' = Tail(backlog)
        /\ UNCHANGED <<made, client, clientEnd>>
    BY <1>2 DEF NewNetConnection
  <2>2. backlog \in Seq(Int) /\ Len(backlog) = made - sockfd
    BY <1>1
  <2>3. made - sockfd >= 1
    BY <1>1, <2>1, <2>2
  <2>4. sockfd' = sockfd + 1
    <3>1. Head(backlog) = backlog[1] /\ 1 \in 1..(made - sockfd)
      BY <1>1, <2>1, <2>2, <2>3
    <3> QED
      BY <1>1, <2>1, <3>1
  <2>5. Tail(backlog) = [i \in 1..(made - (sockfd + 1)) |-> (sockfd + 1) + i]
    <3> DEFINE t == Tail(backlog)
    <3>1. /\ t \in Seq(Int) /\ Len(t) = made - (sockfd + 1)
          /\ \A i \in 1..(made - (sockfd + 1)) : t[i] = backlog[i + 1]
      <4>1. ASSUME NEW s \in Seq(Int), s # <<>>
            PROVE  /\ Tail(s) \in Seq(Int) /\ Len(Tail(s)) = Len(s) - 1
                   /\ \A i \in 1..(Len(s) - 1) : Tail(s)[i] = s[i + 1]
        BY <4>1
      <4>2. (made - sockfd) - 1 = made - (sockfd + 1)
        BY <1>1
      <4> QED
        BY <2>1, <2>2, <4>1, <4>2
    <3>2. \A i \in 1..(made - (sockfd + 1)) :
             i + 1 \in 1..(made - sockfd) /\ sockfd + (i + 1) = (sockfd + 1) + i
      BY <1>1
    <3>3. \A i \in 1..(made - (sockfd + 1)) : backlog[i + 1] = (sockfd + 1) + i
      BY <1>1, <3>2
    <3> HIDE DEF t
    <3>4. t = [i \in 1..(made - (sockfd + 1)) |-> t[i]]
      BY <3>1
    <3> QED
      BY <3>1, <3>3, <3>4 DEF t
  <2> QED
    BY <1>1, <2>1, <2>4, <2>5 DEF InBacklog
<1>3. ASSUME made' = made + 1, backlog' = Append(backlog, made'), sockfd' = sockfd,
             client' # None => client' \in clientEnd'
      PROVE  InBacklog'
  <2> DEFINE longer == Append(backlog, made + 1)
  <2>1. backlog \in Seq(Int) /\ Len(backlog) = made - sockfd /\ made - sockfd \in Nat
    BY <1>1
  <2>2. /\ longer \in Seq(Int) /\ Len(longer) = (made + 1) - sockfd
        /\ \A i \in 1..(made - sockfd) : longer[i] = backlog[i]
        /\ longer[(made + 1) - sockfd] = made + 1
    BY <1>1, <2>1
  <2>3. \A i \in 1..((made + 1) - sockfd) :
           i \in 1..(made - sockfd) \/ (i = (made + 1) - sockfd /\ sockfd + i = made + 1)
    BY <1>1
  <2> HIDE DEF longer
  <2>4. \A i \in 1..((made + 1) - sockfd) : longer[i] = sockfd + i
    BY <1>1, <2>2, <2>3
  <2>5. longer = [i \in 1..((made + 1) - sockfd) |-> longer[i]]
    BY <2>2
  <2>6. longer = [i \in 1..((made + 1) - sockfd) |-> sockfd + i]
    BY <2>4, <2>5
  <2> QED
    BY <1>3, <2>6 DEF InBacklog, longer
<1>4. CASE CreateNetClient
  BY <1>3, <1>4 DEF CreateNetClient
<1>5. CASE ConnectAgain
  <2>1. CASE listening /\ made < MaxConnections
    BY <1>1, <1>3, <1>5, <2>1 DEF ConnectAgain
  <2>2. CASE ~ (listening /\ made < MaxConnections)
    BY <1>1, <1>5, <2>2 DEF ConnectAgain, InBacklog
  <2> QED
    BY <2>1, <2>2
<1>6. CASE ClientCloseNet
  BY <1>1, <1>6 DEF ClientCloseNet, InBacklog
<1>7. CASE \/ CreateNetServer \/ AnydataEof \/ AnydataCrash
           \/ \E n \in 1..(4 * MaxMessages + 3 * MaxPartial) : Anydata(n)
  BY <1>1, <1>7 DEF CreateNetServer, AnydataEof, AnydataCrash, Anydata, InBacklog
<1>8. CASE \/ ConnectRefused \/ WriteNet \/ (\E n \in 1..3 : WritePart(n))
           \/ WriteAll \/ WriteTimeout \/ WriteError
  BY <1>1, <1>8 DEF ConnectRefused, WriteNet, WritePart, WriteAll, WriteTimeout, WriteError,
                    InBacklog
<1>9. CASE UNCHANGED vars
  BY <1>1, <1>9 DEF vars, InBacklog
<1> QED
  BY <1>2, <1>4, <1>5, <1>6, <1>7, <1>8, <1>9 DEF Next, Daemon, Client

\* What a read of whole messages delivers is what was at the front.
LEMMA ReadIsTake ==
    ASSUME TInv, AllWhole, NEW n \in Nat, Anydata(n), ~torn'
    PROVE  Line!Take
<1> DEFINE w == wire[sockfd]
           buf == SubSeq(w, 1, n)
           behind == SubSeq(w, n + 1, Len(w))
           q == n \div 4
           front == SubSeq(Arriving(w), 1, q)
           framed == Framed(buf, leftover)
<1>1. /\ pc = "read" /\ sockfd \in Connections /\ w \in Seq(Pieces) /\ n \in 1..Len(w)
      /\ wire \in [Connections -> Seq(Pieces)] /\ delivered \in Seq(Seq(Pieces))
  BY DEF TInv, TypeOK, Reading, Anydata
<1>2. /\ delivered' = delivered \o framed.packets
      /\ wire' = [wire EXCEPT ![sockfd] = behind]
      /\ torn' = (torn \/ ~WholeMessages(buf))
      /\ IF framed.packets = <<>> THEN CloseNet ELSE UNCHANGED <<pc, serverEnd>>
      /\ UNCHANGED <<sockfd, made, client>>
  BY DEF Anydata, clientVars
<1>3. ~torn /\ WholeMessages(buf) /\ leftover = <<>>
  BY <1>2 DEF AllWhole
<1> HIDE DEF w, buf, behind, q, front, framed
<1>4. PICK J \in Nat : Counts(w, J)
  BY <1>1, Counted
<1>5. /\ q \in 1..J /\ n = 4 * q
      /\ Arriving(behind) = SubSeq(Arriving(w), q + 1, Len(Arriving(w)))
  BY <1>1, <1>3, <1>4, CountsBehind DEF buf, behind, q
<1>6. buf \in Seq(Pieces) /\ Len(buf) = n /\ \A k \in 1..n : buf[k] = w[k]
  BY <1>1, SplitAt DEF buf
<1>7. framed.packets = Texts(buf, q)
  <2>1. Whole(buf, q)
    BY <1>3, <1>6, WholeIs DEF q
  <2> QED
    BY <1>3, <1>5, <2>1, FramedWhole DEF framed
<1>8. Arriving(w) = [k \in 1..J |-> w[4 * k - 3].of]
  BY <1>1, <1>4, ArrivingIs
<1>9. q \in Nat /\ q >= 1 /\ q <= J /\ J \in Nat /\ 4 * J <= Len(w) /\ Len(w) \in Nat
  BY <1>1, <1>4, <1>5 DEF Counts
<1>10. Arriving(w) \in Seq(Int) /\ Len(Arriving(w)) = J
  <2>1. ASSUME NEW k \in 1..J PROVE w[4 * k - 3].of \in Int
    <3>1. 4 * k - 3 \in 1..Len(w)
      BY <1>9
    <3>2. w[4 * k - 3] \in Pieces
      BY <1>1, <3>1
    <3> QED
      BY <3>2, TcpipAssumption DEF Pieces
  <2> QED
    BY <1>8, <1>9, <2>1
<1>11. /\ front \in Seq(Int) /\ Len(front) = q
       /\ \A k \in 1..q : front[k] = w[4 * k - 3].of
  <2>1. /\ front \in Seq(Int) /\ Len(front) = q
        /\ \A k \in 1..q : front[k] = Arriving(w)[k]
    BY <1>9, <1>10 DEF front
  <2>2. \A k \in 1..q : k \in 1..J
    BY <1>9
  <2> QED
    BY <1>8, <2>1, <2>2
<1>12. /\ Texts(buf, q) \in Seq(Seq(Pieces)) /\ Len(Texts(buf, q)) = q
       /\ \A k \in 1..q : Texts(buf, q)[k][1] = w[4 * k - 3]
  <2>1. ASSUME NEW k \in 1..q
        PROVE  /\ SubSeq(buf, 4 * k - 3, 4 * k - 1) \in Seq(Pieces)
               /\ SubSeq(buf, 4 * k - 3, 4 * k - 1)[1] = w[4 * k - 3]
    <3> DEFINE a == 4 * k - 3
    <3>1. a \in 1..n /\ a + 2 \in 1..n /\ 4 * k - 1 = a + 2
      BY <1>5, <1>9
    <3> HIDE DEF a
    <3>2. SubSeq(buf, a, a + 2) \in Seq(Pieces) /\ SubSeq(buf, a, a + 2)[1] = buf[a]
      BY <1>6, <3>1
    <3> QED
      BY <1>6, <3>1, <3>2 DEF a
  <2> QED
    BY <1>9, <2>1 DEF Texts
<1>13. [k \in 1..Len(delivered') |-> delivered'[k][1].of]
          = [k \in 1..Len(delivered) |-> delivered[k][1].of] \o front
  <2> DEFINE before == [k \in 1..Len(delivered) |-> delivered[k][1].of]
             texts == Texts(buf, q)
             m == Len(delivered)
             both == before \o front
  <2>1. m \in Nat /\ delivered' = delivered \o texts
    BY <1>1, <1>2, <1>7
  <2>2. /\ Len(delivered') = m + q
        /\ \A k \in 1..m : delivered'[k] = delivered[k]
        /\ \A k \in 1..q : delivered'[m + k] = texts[k]
    <3> DEFINE joined == delivered \o texts
    <3>1. texts \in Seq(Seq(Pieces)) /\ Len(texts) = q
      BY <1>12
    <3> HIDE DEF texts
    <3>2. /\ Len(joined) = m + Len(texts)
          /\ \A k \in 1..m : joined[k] = delivered[k]
          /\ \A k \in 1..Len(texts) : joined[m + k] = texts[k]
      <4> DEFINE S == Seq(Pieces)
      <4>1. delivered \in Seq(S) /\ texts \in Seq(S)
        BY <1>1, <3>1
      <4> HIDE DEF S
      <4> QED
        BY <4>1, JoinedIs
    <3> QED
      BY <2>1, <3>1, <3>2
  <2>3. before \in Seq({x.of : x \in {delivered[k][1] : k \in 1..m}}) /\ Len(before) = m
    BY <2>1
  <2> HIDE DEF before, texts
  <2>4. /\ DOMAIN both = 1..(m + q) /\ both = [k \in 1..(m + q) |-> both[k]]
        /\ \A k \in 1..m : both[k] = before[k]
        /\ \A k \in 1..q : both[m + k] = front[k]
    <3> DEFINE S == Int \cup {x.of : x \in {delivered[k][1] : k \in 1..m}}
    <3>1. before \in Seq(S) /\ front \in Seq(S)
      <4> DEFINE T == {x.of : x \in {delivered[k][1] : k \in 1..m}}
      <4>1. \A A : \A z \in Seq(A) : \A B : A \subseteq B => z \in Seq(B)
        OBVIOUS
      <4>2. before \in Seq(T) /\ front \in Seq(Int)
        BY <1>11, <2>3
      <4>3. T \subseteq S /\ Int \subseteq S
        BY Zenon
      <4> HIDE DEF S, T
      <4> QED
        BY <4>1, <4>2, <4>3, Zenon
    <3> HIDE DEF S
    <3>2. /\ both \in Seq(S) /\ Len(both) = m + q
          /\ \A k \in 1..m : both[k] = before[k]
          /\ \A k \in 1..q : both[m + k] = front[k]
      <4>1. /\ both \in Seq(S) /\ Len(both) = Len(before) + Len(front)
            /\ \A k \in 1..Len(before) : both[k] = before[k]
            /\ \A k \in 1..Len(front) : both[Len(before) + k] = front[k]
        BY <3>1, JoinedIs
      <4> HIDE DEF both, m
      <4> QED
        BY <1>11, <2>3, <4>1
    <3> HIDE DEF both
    <3>3. DOMAIN both = 1..(m + q) /\ both = [k \in DOMAIN both |-> both[k]]
      BY <1>9, <2>1, <3>2
    <3> QED
      BY <3>2, <3>3
  <2> HIDE DEF both
  <2>5. \A k \in 1..m : before[k] = delivered[k][1].of
    BY DEF before
  <2>6. ASSUME NEW k \in 1..(m + q)
        PROVE  both[k] = delivered'[k][1].of
    <3>1. CASE k \in 1..m
      BY <2>2, <2>4, <2>5, <3>1
    <3>2. CASE k > m
      <4>1. k - m \in 1..q /\ m + (k - m) = k
        BY <1>9, <2>1, <3>2
      <4>2. both[k] = front[k - m] /\ delivered'[k] = texts[k - m]
        BY <2>2, <2>4, <4>1
      <4> QED
        BY <1>11, <1>12, <4>1, <4>2 DEF texts
    <3>3. k \in 1..m \/ k > m
      BY <1>9, <2>1
    <3> QED
      BY <3>1, <3>2, <3>3
  <2> QED
    BY <2>2, <2>4, <2>6 DEF before, both
<1>14. pc' = pc
  <2>1. Texts(buf, q) # <<>>
    BY <1>9, <1>12
  <2> QED
    BY <1>2, <1>7, <2>1
<1>15. [c \in Connections |-> Arriving(wire[c])]'
          = [[c \in Connections |-> Arriving(wire[c])]
               EXCEPT ![sockfd] = SubSeq(@, q + 1, Len(@))]
  <2>1. wire'[sockfd] = behind /\ \A c \in Connections : c # sockfd => wire'[c] = wire[c]
    BY <1>1, <1>2
  <2> QED
    BY <1>1, <1>5, <2>1 DEF w
<1> QED
  BY <1>1, <1>2, <1>5, <1>10, <1>13, <1>14, <1>15 DEF Line!Take, w, front

\* A write ends the message of the running writeNet, which is then sent, or
\* does not.
LEMMA WriteIsSend ==
    ASSUME TypeOK, OInv, AllWhole, ~torn, sending # Idle, Connected, NEW n \in 1..4,
           wire' = [wire EXCEPT ![client] = @ \o FromBuffer(n)],
           UNCHANGED <<pc, sockfd, made, client, delivered, torn>>
    PROVE  (\E m \in 1..MaxMessages : Line!Send(m)) \/ UNCHANGED Line!vars
<1> DEFINE w == wire[client]
           joined == w \o FromBuffer(n)
<1>1. Connecting /\ messages \in 1..MaxMessages
  BY TcpipAssumption DEF OInv, Connecting, TypeOK
<1>2. client \in Connections /\ client = made /\ client # None
  <2>1. client \in Connections
    <3>1. \A i \in DOMAIN backlog : backlog[i] \in Connections
      BY DEF TypeOK
    <3> QED
      BY <3>1 DEF Connected, Range, TypeOK
  <2>2. client # None
    BY <2>1, TcpipAssumption DEF Connections, None
  <2> QED
    BY <1>1, <2>1, <2>2 DEF Connecting
<1>3. wire \in [Connections -> Seq(Pieces)] /\ w \in Seq(Pieces)
  BY <1>2 DEF TypeOK
<1>4. wire' = [wire EXCEPT ![client] = joined]
  OBVIOUS
<1> HIDE DEF w, joined
<1>5. PICK J \in Nat : Counts(w, J)
  BY <1>3, Counted
<1>6. \/ Arriving(joined) = Arriving(w)
      \/ /\ Arriving(joined) = Append(Arriving(w), messages)
         /\ sending.at = Len(w) - 4 * J /\ sending.at <= 3
         /\ sending.at > 0 => w[4 * J + 1] = Piece(messages, "<")
  BY <1>1, <1>3, <1>5, CountsMore DEF joined
<1>7. [c \in Connections |-> Arriving(wire[c])]'
         = [[c \in Connections |-> Arriving(wire[c])] EXCEPT ![client] = Arriving(joined)]
  <2>1. wire'[client] = joined /\ \A c \in Connections : c # client => wire'[c] = wire[c]
    BY <1>2, <1>3, <1>4
  <2>2. ASSUME NEW c \in Connections
        PROVE  Arriving(wire'[c]) = IF c = client THEN Arriving(joined) ELSE Arriving(wire[c])
    <3>1. CASE c = client
      <4>1. wire'[c] = joined
        BY <2>1, <3>1
      <4>2. Arriving(wire'[c]) = Arriving(joined)
        BY <4>1, Zenon
      <4> QED
        BY <3>1, <4>2, Zenon
    <3>2. CASE c # client
      <4>1. wire'[c] = wire[c]
        BY <2>1, <3>2
      <4> QED
        BY <3>2, <4>1
    <3> QED
      BY <3>1, <3>2
  <2> QED
    BY <1>2, <2>2
<1>8. CASE Arriving(joined) = Arriving(w)
  <2>1. [c \in Connections |-> Arriving(wire[c])]' = [c \in Connections |-> Arriving(wire[c])]
    BY <1>7, <1>8 DEF w
  <2> QED
    BY <2>1 DEF Line!vars
<1>9. CASE /\ Arriving(joined) = Append(Arriving(w), messages)
           /\ sending.at = Len(w) - 4 * J /\ sending.at <= 3
           /\ sending.at > 0 => w[4 * J + 1] = Piece(messages, "<")
  <2>1. /\ \A c \in Connections : \A k \in 1..Len(Arriving(wire[c])) :
              Arriving(wire[c])[k] < messages
        /\ \A k \in 1..Len(delivered) : \A i \in 1..Len(delivered[k]) :
              delivered[k][i].of < messages
    BY <1>2, <1>5, <1>9, SentIsLatest DEF w
  <2>2. [c \in Connections |-> Arriving(wire[c])]'
           = [[c \in Connections |-> Arriving(wire[c])] EXCEPT ![client] = Append(@, messages)]
    BY <1>2, <1>7, <1>9 DEF w
  <2>3. \A k \in 1..Len(delivered) : 1 \in 1..Len(delivered[k])
    <3>1. PICK q \in Nat : Len(received) = 4 * q /\ delivered = Texts(received, q)
      BY DEF AllWhole
    <3>2. ASSUME NEW k \in 1..q
          PROVE  Len(SubSeq(received, 4 * k - 3, 4 * k - 1)) = 3
      <4>1. received \in Seq(Pieces) /\ 4 * k - 3 \in 1..Len(received)
            /\ 4 * k - 1 \in 1..Len(received) /\ 4 * k - 1 = (4 * k - 3) + 2
        BY <3>1 DEF TypeOK
      <4> QED
        BY <4>1
    <3>3. Len(delivered) = q /\ \A k \in 1..q : Len(delivered[k]) = 3
      BY <3>1, <3>2 DEF Texts
    <3>4. 1 \in 1..3
      OBVIOUS
    <3> QED
      BY <3>3, <3>4, Zenon
  <2>4. \A k \in 1..Len([i \in 1..Len(delivered) |-> delivered[i][1].of]) :
           [i \in 1..Len(delivered) |-> delivered[i][1].of][k] < messages
    <3>1. Len(delivered) \in Nat
      BY DEF TypeOK
    <3>2. Len([i \in 1..Len(delivered) |-> delivered[i][1].of]) = Len(delivered)
      BY <3>1
    <3> QED
      BY <2>1, <2>3, <3>2
  <2> QED
    BY <1>1, <1>2, <2>1, <2>2, <2>4 DEF Line!Send
<1> QED
  BY <1>6, <1>8, <1>9

\* The daemon's steps but reads.
LEMMA DaemonCarries ==
    ASSUME TypeOK, Reading, Connecting, InBacklog,
           CreateNetServer \/ NewNetConnection \/ AnydataEof \/ AnydataCrash
    PROVE  Line!Accept \/ Line!Close \/ Line!Crash \/ UNCHANGED Line!vars
<1> USE DEF clientVars, history
<1>1. CASE CreateNetServer
  BY <1>1 DEF CreateNetServer, Line!vars
<1>2. CASE NewNetConnection
  <2>1. /\ pc = "accept" /\ pc' = "read"
        /\ backlog # <<>> /\ sockfd' = Head(backlog)
        /\ UNCHANGED <<delivered, wire, made, client, torn>>
    BY <1>2 DEF NewNetConnection
  <2>2. /\ made \in Int /\ sockfd \in Int /\ sockfd <= made
        /\ backlog = [i \in 1..(made - sockfd) |-> sockfd + i]
    BY TcpipAssumption DEF TypeOK, Connecting, InBacklog, Connections, None
  <2>3. backlog \in Seq(Int) /\ Len(backlog) = made - sockfd
    BY <2>2
  <2>4. made - sockfd >= 1
    BY <2>1, <2>2, <2>3
  <2>5. sockfd' = sockfd + 1 /\ sockfd < made
    <3>1. Head(backlog) = backlog[1] /\ 1 \in 1..(made - sockfd)
      BY <2>1, <2>2, <2>3, <2>4
    <3> QED
      BY <2>1, <2>2, <2>4, <3>1
  <2> QED
    BY <2>1, <2>5 DEF Line!Accept
<1>3. CASE AnydataEof
  <2>1. /\ pc = "read" /\ pc' = "accept" /\ wire[sockfd] = <<>> /\ sockfd \notin clientEnd
        /\ UNCHANGED <<sockfd, delivered, wire, made, client, torn>>
    BY <1>3 DEF AnydataEof, CloseNet
  <2>2. client # sockfd
    <3>1. sockfd # None
      BY <2>1, TcpipAssumption DEF Reading, Connections, None
    <3> QED
      BY <2>1, <3>1 DEF InBacklog
  <2>3. Arriving(wire[sockfd]) = <<>>
    <3>1. Counts(<<>>, 0) /\ <<>> \in Seq(Pieces)
      BY DEF Counts
    <3>2. Arriving(<<>>) = [k \in 1..0 |-> <<>>[4 * k - 3].of]
      BY <3>1, ArrivingIs
    <3>3. Arriving(<<>>) = <<>>
      BY <3>2
    <3> QED
      BY <2>1, <3>3
  <2>4. sockfd \in Connections
    BY <2>1 DEF Reading
  <2> QED
    BY <2>1, <2>2, <2>3, <2>4 DEF Line!Close
<1>4. CASE AnydataCrash
  BY <1>4 DEF AnydataCrash, Line!Crash
<1> QED
  BY <1>1, <1>2, <1>3, <1>4

\* The client's steps but writes.
LEMMA ClientCarries ==
    ASSUME TypeOK, Connecting,
           \/ CreateNetClient \/ ConnectRefused \/ ConnectAgain \/ WriteNet
           \/ WriteTimeout \/ WriteError \/ ClientCloseNet
    PROVE  Line!Connect \/ Line!HangUp \/ UNCHANGED Line!vars
<1> USE DEF daemonVars, history
<1>1. CASE CreateNetClient
  <2>1. made + 1 \in Connections
    BY <1>1, TcpipAssumption DEF CreateNetClient, TypeOK, Connections
  <2> QED
    BY <1>1, <2>1 DEF CreateNetClient, Line!Connect
<1>2. CASE ConnectAgain
  <2>1. client = None
    BY <1>2 DEF ConnectAgain, Connecting
  <2>2. CASE listening /\ made < MaxConnections
    <3>1. made + 1 \in Connections
      BY <2>2, TcpipAssumption DEF TypeOK, Connections
    <3> QED
      BY <1>2, <2>1, <2>2, <3>1 DEF ConnectAgain, Line!Connect
  <2>3. CASE ~ (listening /\ made < MaxConnections)
    BY <1>2, <2>3 DEF ConnectAgain, Line!vars
  <2> QED
    BY <2>2, <2>3
<1>3. CASE ClientCloseNet
  BY <1>3 DEF ClientCloseNet, Line!HangUp
<1>4. CASE ConnectRefused \/ WriteNet \/ WriteTimeout \/ WriteError
  BY <1>4 DEF ConnectRefused, WriteNet, WriteTimeout, WriteError, Line!vars
<1> QED
  BY <1>1, <1>2, <1>3, <1>4

LEMMA StepCarries ==
    ASSUME TInv, AllWhole, OInv, InBacklog, [Next]_vars
    PROVE  [Line!Next]_(Line!vars)
<1>1. TypeOK /\ Reading /\ Connecting
  BY DEF TInv, OInv
<1>2. torn' \in BOOLEAN /\ (torn => torn')
  <2>1. CASE \E n \in 1..(4 * MaxMessages + 3 * MaxPartial) : Anydata(n)
    BY <1>1, <2>1 DEF Anydata, TypeOK
  <2>2. CASE ~ \E n \in 1..(4 * MaxMessages + 3 * MaxPartial) : Anydata(n)
    BY <1>1, <2>2, OthersRead DEF TypeOK
  <2> QED
    BY <2>1, <2>2
<1>3. SUFFICES ASSUME ~torn, ~torn'
               PROVE  Line!Carry \/ UNCHANGED Line!vars
  BY <1>2 DEF Line!Next
<1>4. CASE CreateNetServer \/ NewNetConnection \/ AnydataEof \/ AnydataCrash
  BY <1>1, <1>4, DaemonCarries DEF Line!Carry
<1>5. CASE \E n \in 1..(4 * MaxMessages + 3 * MaxPartial) : Anydata(n)
  <2>1. PICK n \in 1..(4 * MaxMessages + 3 * MaxPartial) : Anydata(n)
    BY <1>5
  <2>2. n \in Nat
    BY TcpipAssumption
  <2> QED
    BY <1>3, <2>1, <2>2, ReadIsTake DEF Line!Carry
<1>6. CASE \/ CreateNetClient \/ ConnectRefused \/ ConnectAgain \/ WriteNet
           \/ WriteTimeout \/ WriteError \/ ClientCloseNet
  BY <1>1, <1>6, ClientCarries DEF Line!Carry
<1>7. CASE (\E n \in 1..3 : WritePart(n)) \/ WriteAll
  <2>1. PICK n \in 1..4 : wire' = [wire EXCEPT ![client] = @ \o FromBuffer(n)]
    <3>1. CASE WriteAll
      <4>1. 4 \in 1..4 /\ wire' = [wire EXCEPT ![client] = @ \o FromBuffer(4)]
        BY <3>1 DEF WriteAll
      <4> QED
        BY <4>1, Zenon
    <3>2. CASE \E n \in 1..3 : WritePart(n)
      <4>1. PICK n \in 1..3 : WritePart(n)
        BY <3>2
      <4>2. n \in 1..4 /\ wire' = [wire EXCEPT ![client] = @ \o FromBuffer(n)]
        BY <4>1 DEF WritePart
      <4> QED
        BY <4>2, Zenon
    <3> QED
      BY <1>7, <3>1, <3>2
  <2>2. /\ sending # Idle /\ Connected
        /\ UNCHANGED <<pc, sockfd, made, client, delivered, torn>>
    BY <1>7 DEF WritePart, WriteAll, daemonVars, history
  <2> QED
    BY <1>1, <1>3, <2>1, <2>2, WriteIsSend DEF Line!Carry
<1>8. CASE UNCHANGED vars
  BY <1>8 DEF vars, daemonVars, clientVars, history, Line!vars
<1> QED
  BY <1>4, <1>5, <1>6, <1>7, <1>8 DEF Next, Daemon, Client

\* However the steps of both ends interleave, whatever writes are partial, time
\* out or fail, and for any numbers of messages, connections and tries: as long
\* as each read returns whole messages, Tcpip implements Channel. Messages
\* arrive once and in order, and none is lost to a connection closed too early
\* (writeNet, anydata, closeNet, newNetConnection).
THEOREM MessagesAreCarried == Spec => MessagesArrive
<1>1. Init => TInv /\ AllWhole /\ OInv /\ InBacklog /\ Line!Init
  <2> SUFFICES ASSUME Init PROVE TInv /\ AllWhole /\ OInv /\ InBacklog /\ Line!Init
    OBVIOUS
  <2>2. InBacklog
    BY DEF Init, InBacklog, None
  <2>3. Arriving(<<>>) = <<>>
    <3>1. Counts(<<>>, 0) /\ <<>> \in Seq(Pieces)
      BY DEF Counts
    <3>2. Arriving(<<>>) = [k \in 1..0 |-> <<>>[4 * k - 3].of]
      BY <3>1, ArrivingIs
    <3> QED
      BY <3>2
  <2>4. Line!Init
    <3>1. \A c \in Connections : Arriving(wire[c]) = <<>>
      BY <2>3 DEF Init
    <3>2. [k \in 1..Len(delivered) |-> delivered[k][1].of] = <<>>
      BY DEF Init
    <3> QED
      BY <3>1, <3>2 DEF Init, Line!Init, None
  <2> QED
    BY <2>2, <2>4, WholeInit, InitType, OrderInit
<1>2. TInv /\ AllWhole /\ [Next]_vars => AllWhole'
  BY WholeNext
<1>3. TInv /\ OInv /\ InBacklog /\ [Next]_vars => (TInv /\ OInv /\ InBacklog)'
  BY TypeNext, OrderNext, BacklogNext DEF TInv, OInv
<1>4. TInv /\ AllWhole /\ OInv /\ InBacklog /\ [Next]_vars => [Line!Next]_(Line!vars)
  BY StepCarries
<1> QED
  BY <1>1, <1>2, <1>3, <1>4, PTL DEF Spec, MessagesArrive, Line!Spec
=============================================================================
