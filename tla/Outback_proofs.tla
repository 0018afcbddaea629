--------------------------- MODULE Outback_proofs ---------------------------
(***************************************************************************)
(* Proofs about Outback and MariaDB: the order and the number of the rows  *)
(* stored, the types, and whose readings a row has, for any packets, reads *)
(* of any size, any bytes lost and any number of failures of the database. *)
(* The lemmas in between say what the recursive functions of the model     *)
(* come to: Number for up to three digits, Filtered, and FlattenSeq of the *)
(* parts of a packet, so that each field has its place in Body.            *)
(***************************************************************************)
EXTENDS Outback, SequenceTheorems, WellFoundedInduction, TLAPS

\* The counters, and the table as a sequence of rows of some set: what the
\* conversions make of the fields does not matter here.
Counted ==
    /\ exported \in Nat
    /\ breaks \in Nat
    /\ \E S : table \in Seq(S)

\* The row queryInsert is running for is the last one exported, and the first has the number 1.
QueryIsLast ==
    query # <<>> => \E row : query = <<row>> /\ row.n = exported /\ row.n >= 1

\* No stored row is one that was not exported yet.
TableIsPast == \A i \in 1..Len(table) : table[i].n \in 1..exported

InOrder == \A i, j \in 1..Len(table) : i <= j => table[i].n <= table[j].n

\* A row is stored once for each export and once more for each failure; the
\* row that is still being inserted has not had its turn.
Accounted == Len(table) + (IF query = <<>> THEN 0 ELSE 1) <= exported + breaks

IInv == Counted /\ QueryIsLast /\ TableIsPast /\ InOrder /\ Accounted

LEMMA InitInv == Init => IInv
<1> SUFFICES ASSUME Init PROVE IInv
  OBVIOUS
<1>1. table \in Seq({0}) /\ Len(table) = 0
  BY DEF Init, DatabaseInit
<1>2. exported = 0 /\ breaks = 0 /\ query = <<>>
  BY DEF Init, DatabaseInit
<1> QED
  BY <1>1, <1>2 DEF IInv, Counted, QueryIsLast, TableIsPast, InOrder, Accounted

\* What becomes of the table when the last exported row is appended.
LEMMA AppendLast ==
    ASSUME IInv, query # <<>>, table' = Append(table, Head(query)), exported' = exported
    PROVE  /\ \E S : table' \in Seq(S)
           /\ Len(table') = Len(table) + 1
           /\ TableIsPast' /\ InOrder'
<1>1. PICK row : query = <<row>> /\ row.n = exported /\ row.n >= 1
  BY DEF IInv, QueryIsLast
<1>2. PICK S : table \in Seq(S)
  BY DEF IInv, Counted
<1> DEFINE T == S \cup {row}
<1>3. table \in Seq(T)
  <2>1. S \subseteq T
    OBVIOUS
  <2> QED
    BY <1>2, <2>1, SeqMonotonic
<1>4. row \in T /\ Head(query) = row
  BY <1>1
<1> HIDE DEF T
<1>5. /\ table' \in Seq(T)
      /\ Len(table') = Len(table) + 1
      /\ Len(table) \in Nat
      /\ \A i \in 1..Len(table) : table'[i] = table[i]
      /\ table'[Len(table) + 1] = row
  BY <1>3, <1>4
<1>6. exported \in Nat /\ exported >= 1
  BY <1>1 DEF IInv, Counted
<1>7. TableIsPast'
  BY <1>1, <1>5, <1>6 DEF IInv, TableIsPast
<1>8. InOrder'
  <2> SUFFICES ASSUME NEW i \in 1..Len(table'), NEW j \in 1..Len(table'), i <= j
               PROVE  table'[i].n <= table'[j].n
    BY DEF InOrder
  <2>1. CASE j \in 1..Len(table)
    BY <1>5, <2>1 DEF IInv, InOrder
  <2>2. CASE j = Len(table) + 1
    BY <1>1, <1>5, <1>7, <2>2 DEF TableIsPast
  <2> QED
    BY <1>5, <2>1, <2>2
<1> QED
  BY <1>5, <1>7, <1>8

LEMMA DatabaseInv ==
    ASSUME IInv, InsertStep PROVE IInv'
<1> USE DEF IInv
<1>1. exported' = exported
  BY DEF InsertStep
<1>2. CASE Execute
  <2>1. query # <<>> /\ query' = <<>> /\ table' = Append(table, Head(query)) /\ breaks' = breaks
    BY <1>2 DEF Execute
  <2> QED
    BY <1>1, <2>1, AppendLast DEF Counted, QueryIsLast, Accounted
<1>3. CASE Fail
  <2>1. query # <<>> /\ breaks' = breaks + 1 /\ (query' = query \/ query' = <<>>)
    BY <1>3 DEF Fail, AfterError
  <2>2. CASE table' = table
    BY <1>1, <2>1, <2>2 DEF Counted, QueryIsLast, TableIsPast, InOrder, Accounted
  <2>3. CASE table' = Append(table, Head(query))
    BY <1>1, <2>1, <2>3, AppendLast DEF Counted, QueryIsLast, Accounted
  <2> QED
    BY <1>3, <2>2, <2>3 DEF Fail
<1>4. CASE FailUnconnected
  <2>1. /\ query' = query \/ query' = <<>>
        /\ table' = table /\ breaks' = breaks
    BY <1>4 DEF FailUnconnected, AfterError
  <2> QED
    BY <1>1, <2>1 DEF Counted, QueryIsLast, TableIsPast, InOrder, Accounted
<1> QED
  BY <1>2, <1>3, <1>4 DEF InsertStep, DatabaseStep

\* A packet's row has the next number.
LEMMA ReadPacketInv ==
    ASSUME IInv, NEW n \in ReadSizes, ReadPacket(n) PROVE IInv'
<1>1. /\ query = <<>>
      /\ exported' = exported + 1
      /\ table' = table /\ breaks' = breaks
      /\ \E row : query' = <<row>> /\ row.n = exported + 1
  <2>1. query' = <<ExportMeterData(address', type', values')>>
    BY DEF ReadPacket, QueryInsert
  <2>2. ExportMeterData(address', type', values').n = exported + 1
    BY DEF ExportMeterData
  <2> QED
    BY <2>1, <2>2 DEF ReadPacket, QueryInsert
<1>2. Counted' /\ QueryIsLast' /\ InOrder'
  BY <1>1 DEF IInv, Counted, QueryIsLast, InOrder
<1>3. TableIsPast'
  BY <1>1 DEF IInv, Counted, TableIsPast
<1>4. Accounted'
  <2>1. Len(table) \in Nat
    BY DEF IInv, Counted
  <2> QED
    BY <1>1, <2>1 DEF IInv, Counted, Accounted
<1> QED
  BY <1>2, <1>3, <1>4 DEF IInv

\* All other steps leave the rows alone.
LEMMA OthersInv ==
    ASSUME IInv, exported' = exported, query' = query, table' = table,
           breaks' = breaks \/ breaks' = breaks + 1
    PROVE  IInv'
<1>1. Len(table) \in Nat
  BY DEF IInv, Counted
<1> QED
  BY <1>1 DEF IInv, Counted, QueryIsLast, TableIsPast, InOrder, Accounted

LEMMA NextInv == IInv /\ [Next]_vars => IInv'
<1> SUFFICES ASSUME IInv, [Next]_vars PROVE IInv'
  OBVIOUS
<1>1. CASE \E key \in {"none", "d", "D", "q"} : Getc(key)
  BY <1>1, OthersInv DEF Getc, database
<1>2. CASE Read
  <2>1. CASE ReadTimeout
    BY <2>1, OthersInv DEF ReadTimeout, database
  <2>2. CASE \E n \in ReadSizes : ReadNothing(n)
    BY <2>2, OthersInv DEF ReadNothing, database
  <2>3. CASE \E n \in ReadSizes : ReadPacket(n)
    BY <2>3, ReadPacketInv
  <2>4. CASE \E n \in ReadSizes : ReadShort(n)
    BY <2>4, OthersInv DEF ReadShort, database
  <2> QED
    BY <1>2, <2>1, <2>2, <2>3, <2>4 DEF Read
<1>3. CASE InsertStep
  BY <1>3, DatabaseInv
<1>4. CASE Inserted
  BY <1>4, OthersInv DEF Inserted, database
<1>5. CASE \E p \in Packets : Send(p)
  BY <1>5, OthersInv DEF Send, database
<1>6. CASE \E i \in LossPositions : LoseByte(i)
  BY <1>6, OthersInv DEF LoseByte, database
<1>7. CASE Break /\ UNCHANGED <<driver, device, exported>>
  BY <1>7, OthersInv DEF Break
<1>8. CASE UNCHANGED vars
  BY <1>8, OthersInv DEF vars, database
<1> QED
  BY <1>1, <1>2, <1>3, <1>4, <1>5, <1>6, <1>7, <1>8 DEF Next, HostStep

\* Rows are stored in the order of the packets, and a row is there twice only
\* if the connection broke: the retry of queryInsert, whatever is read.
THEOREM RowsStoredInOrder == Spec => []RowsInOrder
<1>1. IInv => RowsInOrder
  <2> SUFFICES ASSUME IInv PROVE RowsInOrder
    OBVIOUS
  <2>1. Len(table) \in Nat
    BY DEF IInv, Counted
  <2> QED
    BY <2>1 DEF IInv, Counted, InOrder, Accounted, RowsInOrder
<1> QED
  BY <1>1, InitInv, NextInv, PTL DEF Spec

----------------------------------------------------------------------------
(* Recursion along a sequence.                                             *)

LEMMA Smallest ==
    ASSUME NEW S \in SUBSET Nat, S # {}
    PROVE  \E k \in S : \A j \in S : k <= j
<1> DEFINE R == {pair \in Nat \X Nat : pair[1] < pair[2]}
<1>1. IsWellFoundedOn(R, Nat)
  BY NatLessThanWellFounded DEF OpToRel
<1>2. PICK k \in S : \A j \in S : ~ (<<j, k>> \in R)
  <2> HIDE DEF R
  <2> QED
    BY <1>1, WFMin
<1>3. ASSUME NEW j \in S
      PROVE  k <= j
  <2>1. j \in Nat /\ k \in Nat /\ <<j, k>> \notin R
    BY <1>2
  <2>2. ~ (<<j, k>>[1] < <<j, k>>[2])
    BY <2>1
  <2> QED
    BY <2>1, <2>2
<1> QED
  BY <1>3

\* A set of numbers that has 0 and with each number the next has them all.
LEMMA AllOf ==
    ASSUME NEW S \in SUBSET Nat, 0 \in S, \A n \in S : n + 1 \in S
    PROVE  S = Nat
<1> DEFINE T == Nat \ S
<1>1. SUFFICES ASSUME T # {} PROVE FALSE
  OBVIOUS
<1>2. PICK k \in T : \A j \in T : k <= j
  <2>1. T \in SUBSET Nat
    OBVIOUS
  <2> HIDE DEF T
  <2> QED
    BY <1>1, <2>1, Smallest
<1>3. k \in Nat /\ k # 0 /\ k - 1 \in Nat
  BY <1>2
<1>4. k - 1 \in S
  BY <1>2, <1>3
<1>5. (k - 1) + 1 = k
  BY <1>3
<1> QED
  BY <1>2, <1>4, <1>5

\* A definition of a function whose first value is given, and whose others are
\* made each of the one before.
Recursion(last, V, base, combine) ==
    /\ last \in Nat
    /\ base \in V
    /\ combine \in [1..last -> [V -> V]]

\* Such a function exists.
LEMMA Defined ==
    ASSUME NEW last, NEW V, NEW base, NEW combine, Recursion(last, V, base, combine)
    PROVE  \E f \in [0..last -> V] :
              \A i \in 0..last : f[i] = IF i = 0 THEN base ELSE combine[i][f[i - 1]]
<1> USE DEF Recursion
<1> DEFINE Right(f, m) ==
             \A i \in 0..m : f[i] = IF i = 0 THEN base ELSE combine[i][f[i - 1]]
           S == {m \in Nat : m <= last => \E f \in [0..m -> V] : Right(f, m)}
<1>1. 0 \in S
  <2> DEFINE f == [i \in 0..0 |-> base]
  <2>1. f \in [0..0 -> V] /\ Right(f, 0)
    OBVIOUS
  <2> HIDE DEF f, Right
  <2> QED
    BY <2>1
<1>2. ASSUME NEW m \in S
      PROVE  m + 1 \in S
  <2>1. SUFFICES ASSUME m + 1 <= last PROVE \E f \in [0..(m + 1) -> V] : Right(f, m + 1)
    BY SMTT(20)
  <2>2. PICK f \in [0..m -> V] : Right(f, m)
    BY <1>2, <2>1
  <2> DEFINE g == [i \in 0..(m + 1) |-> IF i <= m THEN f[i] ELSE combine[m + 1][f[m]]]
  <2>3. m \in Nat /\ m + 1 \in 1..last /\ m \in 0..m
    BY <2>1
  <2>4. combine[m + 1][f[m]] \in V
    BY <2>3
  <2>5. g \in [0..(m + 1) -> V]
    BY <2>3, <2>4
  <2>6. ASSUME NEW i \in 0..(m + 1)
        PROVE  g[i] = IF i = 0 THEN base ELSE combine[i][g[i - 1]]
    <3>1. CASE i \in 0..m
      <4>1. g[i] = f[i] /\ (i # 0 => i - 1 \in 0..m /\ g[i - 1] = f[i - 1])
        BY <2>3, <3>1
      <4> QED
        BY <2>2, <3>1, <4>1
    <3>2. CASE i = m + 1
      <4>1. i # 0 /\ i - 1 = m /\ ~ (i <= m) /\ m \in 0..(m + 1) /\ g[m] = f[m]
        BY <2>3, <3>2
      <4> QED
        BY <3>2, <4>1
    <3> QED
      BY <2>3, <3>1, <3>2
  <2> HIDE DEF g
  <2> QED
    BY <2>5, <2>6
<1>3. last \in S
  <2>1. S \in SUBSET Nat
    OBVIOUS
  <2> HIDE DEF S
  <2>2. S = Nat
    BY <1>1, <1>2, <2>1, AllOf
  <2> QED
    BY <2>2
<1> QED
  BY <1>3

----------------------------------------------------------------------------
(* Conversions.                                                            *)

LEMMA NumberSteps ==
    ASSUME NEW digits \in Seq(Int), NEW base \in Int
    PROVE  \E number \in [0..Len(digits) -> Int] :
              /\ number[0] = 0
              /\ \A i \in 1..Len(digits) : number[i] = number[i - 1] * base + (digits[i] - Zero)
              /\ Number(digits, base) = number[Len(digits)]
<1> DEFINE last == Len(digits)
           Is(f) == f = [i \in 0..last |-> IF i = 0 THEN 0
                                           ELSE f[i - 1] * base + (digits[i] - Zero)]
           number == CHOOSE f : Is(f)
<1>1. last \in Nat
  OBVIOUS
<1>2. \E f \in [0..last -> Int] : Is(f)
  <2> DEFINE combine == [i \in 1..last |-> [v \in Int |-> v * base + (digits[i] - Zero)]]
  <2>1. combine \in [1..last -> [Int -> Int]]
    <3>1. ASSUME NEW i \in 1..last, NEW v \in Int
          PROVE  v * base + (digits[i] - Zero) \in Int
      BY DEF Zero
    <3> QED
      BY <3>1
  <2>2. \E f \in [0..last -> Int] :
           \A i \in 0..last : f[i] = IF i = 0 THEN 0 ELSE combine[i][f[i - 1]]
    <3> HIDE DEF last, combine
    <3>1. Recursion(last, Int, 0, combine)
      BY <1>1, <2>1 DEF Recursion
    <3> QED
      BY <3>1, Defined
  <2>3. PICK f \in [0..last -> Int] :
           \A i \in 0..last : f[i] = IF i = 0 THEN 0 ELSE combine[i][f[i - 1]]
    BY <2>2
  <2>4. ASSUME NEW i \in 0..last
        PROVE  f[i] = IF i = 0 THEN 0 ELSE f[i - 1] * base + (digits[i] - Zero)
    <3>1. i # 0 => i \in 1..last /\ i - 1 \in 0..last
      BY <1>1
    <3>2. i # 0 => combine[i][f[i - 1]] = f[i - 1] * base + (digits[i] - Zero)
      <4> HIDE DEF last
      <4> QED
        BY <3>1
    <3> QED
      BY <2>3, <3>2
  <2>5. Is(f)
    BY <2>4
  <2> HIDE DEF Is
  <2> QED
    BY <2>5
<1>3. Is(number)
  <2> HIDE DEF Is
  <2> QED
    BY <1>2
<1>4. PICK f \in [0..last -> Int] : Is(f)
  BY <1>2
<1>5. Number(digits, base) = number[last]
  BY DEF Number
<1>6. \A i \in 0..last : number[i] = IF i = 0 THEN 0
                                     ELSE number[i - 1] * base + (digits[i] - Zero)
  <2> HIDE DEF number
  <2> QED
    BY <1>3
<1>7. number \in [0..last -> Int]
  <2> DEFINE G == {m \in Nat : m <= last => number[m] \in Int}
  <2> HIDE DEF number, last
  <2>1. 0 \in G
    BY <1>1, <1>6
  <2>2. ASSUME NEW m \in G
        PROVE  m + 1 \in G
    <3>1. SUFFICES ASSUME m + 1 <= last PROVE number[m + 1] \in Int
      OBVIOUS
    <3>2. m + 1 \in 0..last /\ m + 1 # 0 /\ (m + 1) - 1 = m /\ number[m] \in Int
      BY <1>1, <3>1
    <3>3. digits[m + 1] \in Int
      BY <3>1 DEF last
    <3>4. number[m + 1] = number[m] * base + (digits[m + 1] - Zero)
      BY <1>6, <3>2
    <3> QED
      BY <3>2, <3>3, <3>4, SMTT(20) DEF Zero
  <2>3. G \in SUBSET Nat
    OBVIOUS
  <2> HIDE DEF G
  <2>4. G = Nat
    BY <2>1, <2>2, <2>3, AllOf
  <2>5. \A i \in 0..last : number[i] \in Int
    BY <1>1, <2>4 DEF G
  <2> QED
    BY <1>3, <2>5 DEF number
<1> HIDE DEF number
<1>8. number[0] = 0 /\ \A i \in 1..last : number[i] = number[i - 1] * base + (digits[i] - Zero)
  BY <1>1, <1>6
<1> QED
  BY <1>5, <1>7, <1>8

\* The numbers of up to three digits.
LEMMA NumberIs ==
    ASSUME NEW digits \in Seq(Int), NEW base \in Int
    PROVE  LET d(i) == digits[i] - Zero IN
           /\ Len(digits) = 0 => Number(digits, base) = 0
           /\ Len(digits) = 1 => Number(digits, base) = d(1)
           /\ Len(digits) = 2 => Number(digits, base) = d(1) * base + d(2)
           /\ Len(digits) = 3 => Number(digits, base) = (d(1) * base + d(2)) * base + d(3)
<1> DEFINE d(i) == digits[i] - Zero
<1>1. PICK number \in [0..Len(digits) -> Int] :
              /\ number[0] = 0
              /\ \A i \in 1..Len(digits) : number[i] = number[i - 1] * base + d(i)
              /\ Number(digits, base) = number[Len(digits)]
  BY NumberSteps
<1>2. Len(digits) \in Nat /\ \A i \in 1..Len(digits) : d(i) \in Int
  BY DEF Zero
<1> HIDE DEF d
<1>3. Len(digits) >= 1 => number[1] = d(1)
  BY <1>1, <1>2
<1>4. Len(digits) >= 2 => number[2] = d(1) * base + d(2)
  BY <1>1, <1>2, <1>3
<1>5. Len(digits) >= 3 => number[3] = (d(1) * base + d(2)) * base + d(3)
  BY <1>1, <1>2, <1>4
<1>6. /\ Len(digits) = 0 => Number(digits, base) = 0
      /\ Len(digits) = 1 => Number(digits, base) = d(1)
      /\ Len(digits) = 2 => Number(digits, base) = d(1) * base + d(2)
      /\ Len(digits) = 3 => Number(digits, base) = (d(1) * base + d(2)) * base + d(3)
  <2>1. CASE Len(digits) = 0
    BY <1>1, <2>1
  <2>2. CASE Len(digits) = 1
    BY <1>1, <1>3, <2>2
  <2>3. CASE Len(digits) = 2
    BY <1>1, <1>4, <2>3
  <2>4. CASE Len(digits) = 3
    BY <1>1, <1>5, <2>4
  <2> QED
    BY <2>1, <2>2, <2>3, <2>4
<1> QED
  BY <1>6 DEF d

LEMMA LeadingIs ==
    ASSUME NEW s \in Seq(Int), NEW set
    PROVE  LET t == Leading(s, set) IN
           /\ t \in Seq(Int)
           /\ Len(t) <= Len(s)
           /\ \A i \in 1..Len(t) : t[i] = s[i] /\ s[i] \in set
           /\ Len(t) < Len(s) => s[Len(t) + 1] \notin set
<1> DEFINE Stops(n) == /\ \A i \in 1..n : s[i] \in set
                       /\ n < Len(s) => s[n + 1] \notin set
           m == CHOOSE n \in 0..Len(s) : Stops(n)
<1>1. \E n \in 0..Len(s) : Stops(n)
  <2> DEFINE T == {n \in 0..Len(s) : n < Len(s) => s[n + 1] \notin set}
  <2>1. T \in SUBSET Nat /\ Len(s) \in T
    OBVIOUS
  <2>2. PICK n \in T : \A j \in T : n <= j
    <3> HIDE DEF T
    <3> QED
      BY <2>1, Smallest
  <2>3. ASSUME NEW i \in 1..n
        PROVE  s[i] \in set
    <3>1. n \in Nat /\ n <= Len(s) /\ i \in Nat /\ i >= 1 /\ i <= n
      BY <2>2
    <3>2. i - 1 \in 0..Len(s) /\ i - 1 < n /\ (i - 1) + 1 = i
      BY <3>1
    <3>3. i - 1 \notin T
      <4> HIDE DEF T
      <4> QED
        BY <2>2, <3>1, <3>2
    <3> QED
      BY <3>2, <3>3
  <2> QED
    BY <2>3
<1>2. m \in 0..Len(s) /\ Stops(m)
  <2> HIDE DEF Stops
  <2> QED
    BY <1>1
<1>3. Leading(s, set) = SubSeq(s, 1, m)
  BY DEF Leading
<1> HIDE DEF m
<1>4. SubSeq(s, 1, m) \in Seq(Int) /\ Len(SubSeq(s, 1, m)) = m
      /\ \A i \in 1..m : SubSeq(s, 1, m)[i] = s[i]
  BY <1>2
<1> QED
  BY <1>2, <1>3, <1>4

\* The number x made of the n digits d, for up to three of them.
Made(x, n, base, d) ==
    /\ \A i \in 1..n : d[i] \in 0..(base - 1)
    /\ n = 0 => x = 0
    /\ n = 1 => x = d[1]
    /\ n = 2 => x = d[1] * base + d[2]
    /\ n = 3 => x = (d[1] * base + d[2]) * base + d[3]

\* A number no larger than n digits can make it.
Fits(x, n) == (n <= 2 => x \in 0..99) /\ (n <= 3 => x \in 0..999)

LEMMA MadeFits ==
    ASSUME NEW x, NEW n \in Nat, NEW base \in {8, 10}, NEW d, Made(x, n, base, d)
    PROVE  Fits(x, n)
<1> USE DEF Made, Fits
<1>1. n \in {0, 1, 2, 3} \/ n > 3
  OBVIOUS
<1>2. CASE n = 0
  BY <1>2
<1>3. CASE n = 1
  BY <1>3
<1>4. CASE n = 2
  <2>1. d[1] \in 0..(base - 1) /\ d[2] \in 0..(base - 1) /\ x = d[1] * base + d[2]
    BY <1>4
  <2>2. CASE base = 8
    BY <1>4, <2>1, <2>2
  <2>3. CASE base = 10
    BY <1>4, <2>1, <2>3
  <2> QED
    BY <2>2, <2>3
<1>5. CASE n = 3
  <2>1. /\ d[1] \in 0..(base - 1) /\ d[2] \in 0..(base - 1) /\ d[3] \in 0..(base - 1)
        /\ x = (d[1] * base + d[2]) * base + d[3]
    BY <1>5
  <2>2. CASE base = 8
    BY <1>5, <2>1, <2>2
  <2>3. CASE base = 10
    BY <1>5, <2>1, <2>3
  <2> QED
    BY <2>2, <2>3
<1> QED
  BY <1>1, <1>2, <1>3, <1>4, <1>5

LEMMA FitsWider ==
    ASSUME NEW x, NEW n \in Nat, NEW m \in Nat, n <= m, Fits(x, n)
    PROVE  Fits(x, m)
BY DEF Fits

\* The first n of the digits d.
First(e, d, n) == \A i \in 1..n : e[i] = d[i]

\* Digits in front of others make less, the more so as an octal number.
LEMMA OctalBelow ==
    ASSUME NEW x, NEW y, NEW n \in Nat, NEW m \in {2, 3}, n <= m, NEW d, NEW e,
           Made(x, n, 8, e), Made(y, m, 10, d), First(e, d, n)
    PROVE  x <= y
<1>1. CASE m = 2
  <2>1. d[1] \in 0..9 /\ d[2] \in 0..9 /\ y = d[1] * 10 + d[2]
    BY <1>1 DEF Made
  <2>2. n = 0 \/ n = 1 \/ n = 2
    BY <1>1
  <2>3. x = 0 \/ x = d[1] \/ x = d[1] * 8 + d[2]
    BY <2>2 DEF Made, First
  <2> QED
    BY <2>1, <2>3
<1>2. CASE m = 3
  <2>1. d[1] \in 0..9 /\ d[2] \in 0..9 /\ d[3] \in 0..9 /\ y = (d[1] * 10 + d[2]) * 10 + d[3]
    BY <1>2 DEF Made
  <2>2. n = 0 \/ n = 1 \/ n = 2 \/ n = 3
    BY <1>2
  <2>3. x = 0 \/ x = d[1] \/ x = d[1] * 8 + d[2] \/ x = (d[1] * 8 + d[2]) * 8 + d[3]
    BY <2>2 DEF Made, First
  <2>4. \A a, b, c \in 0..9 : /\ 0 <= (a * 10 + b) * 10 + c
                             /\ a <= (a * 10 + b) * 10 + c
                             /\ a * 8 + b <= (a * 10 + b) * 10 + c
                             /\ (a * 8 + b) * 8 + c <= (a * 10 + b) * 10 + c
    OBVIOUS
  <2>5. /\ 0 <= y /\ d[1] <= y /\ d[1] * 8 + d[2] <= y
        /\ (d[1] * 8 + d[2]) * 8 + d[3] <= y
    BY <2>1, <2>4
  <2> QED
    BY <2>3, <2>5
<1> QED
  BY <1>1, <1>2

\* The digits of a number of a base.
LEMMA NumberMade ==
    ASSUME NEW digits \in Seq(Int), NEW base \in {8, 10},
           \A i \in 1..Len(digits) : digits[i] \in Zero..(Zero + base - 1)
    PROVE  Made(Number(digits, base), Len(digits), base,
                [i \in 1..Len(digits) |-> digits[i] - Zero])
<1> DEFINE d == [i \in 1..Len(digits) |-> digits[i] - Zero]
<1>1. \A i \in 1..Len(digits) : d[i] \in 0..(base - 1)
  BY DEF Zero
<1>2. /\ Len(digits) = 0 => Number(digits, base) = 0
      /\ Len(digits) = 1 => Number(digits, base) = d[1]
      /\ Len(digits) = 2 => Number(digits, base) = d[1] * base + d[2]
      /\ Len(digits) = 3 => Number(digits, base) = (d[1] * base + d[2]) * base + d[3]
  BY NumberIs
<1> HIDE DEF d
<1>3. Made(Number(digits, base), Len(digits), base, d)
  BY <1>1, <1>2 DEF Made
<1> QED
  BY <1>3 DEF d

\* What strtol reads, octal digits or decimal ones.
LEMMA LeadingOctal ==
    ASSUME NEW s \in Seq(Int)
    PROVE  LET t == Leading(s, Zero..(Zero + 7)) IN
           /\ t \in Seq(Int)
           /\ Len(t) <= Len(s)
           /\ \A i \in 1..Len(t) : t[i] = s[i] /\ s[i] \in Digit
           /\ \A i \in 1..Len(t) : t[i] \in Zero..(Zero + 8 - 1)
<1> DEFINE set == Zero..(Zero + 7)
           t == Leading(s, set)
<1>1. \A x \in set : x \in Zero..(Zero + 8 - 1) /\ x \in Digit
  BY DEF Zero, Digit
<1> HIDE DEF set
<1>2. /\ t \in Seq(Int) /\ Len(t) <= Len(s)
      /\ \A i \in 1..Len(t) : t[i] = s[i] /\ s[i] \in set
  BY LeadingIs
<1> HIDE DEF t
<1>3. /\ \A i \in 1..Len(t) : t[i] = s[i] /\ s[i] \in Digit
      /\ \A i \in 1..Len(t) : t[i] \in Zero..(Zero + 8 - 1)
  BY <1>1, <1>2
<1> QED
  BY <1>2, <1>3 DEF t, set

LEMMA LeadingDecimal ==
    ASSUME NEW s \in Seq(Int)
    PROVE  LET t == Leading(s, Digit) IN
           /\ t \in Seq(Int)
           /\ Len(t) <= Len(s)
           /\ \A i \in 1..Len(t) : t[i] \in Zero..(Zero + 10 - 1)
<1> DEFINE t == Leading(s, Digit)
<1>1. \A x \in Digit : x \in Zero..(Zero + 10 - 1)
  BY DEF Zero, Digit
<1>2. /\ t \in Seq(Int) /\ Len(t) <= Len(s)
      /\ \A i \in 1..Len(t) : t[i] = s[i] /\ s[i] \in Digit
  BY LeadingIs
<1> HIDE DEF t
<1>3. \A i \in 1..Len(t) : t[i] \in Zero..(Zero + 10 - 1)
  BY <1>1, <1>2
<1> QED
  BY <1>2, <1>3 DEF t

\* Whatever bytes strtol is given, the number has their width.
LEMMA StrtolRange ==
    ASSUME NEW s \in Seq(Int)
    PROVE  Fits(Strtol(s), Len(s))
<1> DEFINE octal == Leading(s, Zero..(Zero + 7))
           decimal == Leading(s, Digit)
<1>1. octal \in Seq(Int) /\ Len(octal) <= Len(s)
      /\ \A i \in 1..Len(octal) : octal[i] \in Zero..(Zero + 8 - 1)
  BY LeadingOctal
<1>2. decimal \in Seq(Int) /\ Len(decimal) <= Len(s)
      /\ \A i \in 1..Len(decimal) : decimal[i] \in Zero..(Zero + 10 - 1)
  BY LeadingDecimal
<1>3. Strtol(s) = Number(octal, 8) \/ Strtol(s) = Number(decimal, 10)
  BY DEF Strtol
<1> HIDE DEF octal, decimal
<1>4. Len(octal) \in Nat /\ Len(decimal) \in Nat /\ Len(s) \in Nat
  BY <1>1, <1>2
<1>5. Fits(Number(octal, 8), Len(octal))
  BY <1>1, <1>4, NumberMade, MadeFits
<1>6. Fits(Number(decimal, 10), Len(decimal))
  BY <1>2, <1>4, NumberMade, MadeFits
<1> QED
  BY <1>1, <1>2, <1>3, <1>4, <1>5, <1>6, FitsWider

\* A field of digits is read as its own number, or, with a zero in front, as
\* at most that; what is behind the digits is not read.
LEMMA StrtolOwn ==
    ASSUME NEW s \in Seq(Int), NEW digits \in Seq(Int),
           Len(digits) \in {2, 3}, Len(digits) <= Len(s),
           \A i \in 1..Len(digits) : s[i] = digits[i] /\ digits[i] \in Digit,
           Len(digits) < Len(s) => s[Len(digits) + 1] \notin Digit
    PROVE  OwnValue(Strtol(s), digits)
<1>1. s # <<>> /\ Head(s) = digits[1] /\ Len(s) \in Nat
  OBVIOUS
<1>2. CASE digits[1] = Zero
  <2> DEFINE t == Leading(s, Zero..(Zero + 7))
             x == Number(t, 8)
             y == Number(digits, 10)
             d == [i \in 1..Len(digits) |-> digits[i] - Zero]
             e == [i \in 1..Len(t) |-> t[i] - Zero]
  <2>1. /\ t \in Seq(Int) /\ Len(t) <= Len(s)
        /\ \A i \in 1..Len(t) : t[i] = s[i] /\ s[i] \in Digit
        /\ \A i \in 1..Len(t) : t[i] \in Zero..(Zero + 8 - 1)
    BY LeadingOctal
  <2>2. Strtol(s) = x
    BY <1>1, <1>2 DEF Strtol
  <2> HIDE DEF t
  <2>3. Len(t) \in Nat /\ Len(t) <= Len(digits)
    <3>1. SUFFICES ASSUME Len(t) > Len(digits) PROVE FALSE
      BY <2>1
    <3>2. Len(digits) + 1 \in 1..Len(t)
      BY <2>1, <3>1
    <3>3. s[Len(digits) + 1] \in Digit
      BY <2>1, <3>2
    <3>4. Len(digits) < Len(s)
      BY <1>1, <2>1, <3>1
    <3> QED
      BY <3>3, <3>4
  <2>4. ASSUME NEW i \in 1..Len(t)
        PROVE  e[i] = d[i]
    <3>1. i \in 1..Len(digits)
      BY <2>1, <2>3
    <3>2. t[i] = digits[i]
      BY <2>1, <3>1
    <3> QED
      BY <3>1, <3>2
  <2>5. Made(x, Len(t), 8, e)
    BY <2>1, NumberMade
  <2>6. Made(y, Len(digits), 10, d)
    <3>1. \A i \in 1..Len(digits) : digits[i] \in Zero..(Zero + 10 - 1)
      BY DEF Digit, Zero
    <3> QED
      BY <3>1, NumberMade
  <2> HIDE DEF x, y, d, e
  <2>7. x <= y
    <3> DEFINE n == Len(t)
               m == Len(digits)
    <3>1. n \in Nat /\ m \in {2, 3} /\ n <= m /\ First(e, d, n)
      BY <2>3, <2>4 DEF First
    <3>2. Made(x, n, 8, e) /\ Made(y, m, 10, d)
      BY <2>5, <2>6
    <3> HIDE DEF n, m
    <3> QED
      BY <3>1, <3>2, OctalBelow
  <2> QED
    BY <1>2, <2>2, <2>7 DEF OwnValue, x, y
<1>3. CASE digits[1] # Zero
  <2> DEFINE t == Leading(s, Digit)
  <2>1. /\ t \in Seq(Int) /\ Len(t) <= Len(s)
        /\ \A i \in 1..Len(t) : t[i] = s[i] /\ s[i] \in Digit
        /\ Len(t) < Len(s) => s[Len(t) + 1] \notin Digit
    BY LeadingIs
  <2>2. Strtol(s) = Number(t, 10)
    BY <1>1, <1>3 DEF Strtol
  <2> HIDE DEF t
  <2>3. Len(t) \in Nat /\ Len(digits) \in Nat
    BY <2>1
  <2>4. ~ (Len(t) < Len(digits))
    <3>1. SUFFICES ASSUME Len(t) < Len(digits) PROVE FALSE
      OBVIOUS
    <3>2. Len(t) + 1 \in 1..Len(digits) /\ Len(t) < Len(s)
      BY <1>1, <2>3, <3>1
    <3> QED
      BY <2>1, <3>2
  <2>5. ~ (Len(t) > Len(digits))
    <3>1. SUFFICES ASSUME Len(t) > Len(digits) PROVE FALSE
      OBVIOUS
    <3>2. Len(digits) + 1 \in 1..Len(t) /\ Len(digits) < Len(s)
      BY <1>1, <2>1, <2>3, <3>1
    <3> QED
      BY <2>1, <3>2
  <2>6. t = digits
    <3>1. Len(t) = Len(digits) /\ \A i \in 1..Len(digits) : t[i] = digits[i]
      BY <2>1, <2>3, <2>4, <2>5
    <3>2. \A S : \A x, y \in Seq(S) :
             Len(x) = Len(y) /\ (\A i \in 1..Len(y) : x[i] = y[i]) => x = y
      OBVIOUS
    <3> QED
      BY <2>1, <3>1, <3>2
  <2> QED
    BY <1>3, <2>2, <2>6 DEF OwnValue
<1> QED
  BY <1>2, <1>3

----------------------------------------------------------------------------
(* Sequences put together.                                                 *)

LEMMA Joined ==
    ASSUME NEW S, NEW a \in Seq(S), NEW b \in Seq(S)
    PROVE  /\ a \o b \in Seq(S)
           /\ Len(a \o b) = Len(a) + Len(b)
           /\ \A i \in 1..Len(a) : (a \o b)[i] = a[i]
           /\ \A i \in 1..Len(b) : (a \o b)[Len(a) + i] = b[i]
OBVIOUS

\* Sequences of which each is the one before with another behind it.
Growing(flat, seqs, S) ==
    /\ seqs \in Seq(Seq(S))
    /\ \A i \in 0..Len(seqs) : flat[i] \in Seq(S)
    /\ flat[0] = <<>>
    /\ \A i \in 1..Len(seqs) : flat[i] = flat[i - 1] \o seqs[i]

LEMMA GrowingKeeps ==
    ASSUME NEW flat, NEW seqs, NEW S, Growing(flat, seqs, S)
    PROVE  \A i \in 0..Len(seqs), j \in 0..Len(seqs) : i <= j =>
              /\ Len(flat[i]) <= Len(flat[j])
              /\ \A k \in 1..Len(flat[i]) : flat[j][k] = flat[i][k]
<1> DEFINE n == Len(seqs)
           Kept(i, j) == /\ Len(flat[i]) <= Len(flat[j])
                         /\ \A k \in 1..Len(flat[i]) : flat[j][k] = flat[i][k]
           G == {m \in Nat : \A i \in 0..n : i + m <= n => Kept(i, i + m)}
<1>1. n \in Nat
  BY DEF Growing
<1> HIDE DEF n
<1>2. \A i \in 0..n : flat[i] \in Seq(S) /\ Len(flat[i]) \in Nat
  BY DEF Growing, n
<1>3. 0 \in G
  <2>1. ASSUME NEW i \in 0..n PROVE Kept(i, i + 0)
    <3>1. i + 0 = i
      BY <1>1
    <3> QED
      BY <1>2, <3>1
  <2> QED
    BY <2>1
<1>4. ASSUME NEW m \in G
      PROVE  m + 1 \in G
  <2>1. SUFFICES ASSUME NEW i \in 0..n, i + (m + 1) <= n PROVE Kept(i, i + (m + 1))
    OBVIOUS
  <2> DEFINE j == i + m
  <2>2. j \in 0..n /\ j + 1 \in 1..n /\ (j + 1) - 1 = j /\ i + (m + 1) = j + 1 /\ m \in Nat
    BY <1>1, <2>1
  <2>3. Kept(i, j)
    BY <1>1, <2>1, <2>2
  <2> HIDE DEF j
  <2> DEFINE a == flat[j]
             b == seqs[j + 1]
             c == flat[j + 1]
             f == flat[i]
  <2>4. c = a \o b
    <3>1. \A k \in 1..n : flat[k] = flat[k - 1] \o seqs[k]
      BY DEF Growing, n
    <3>2. flat[j + 1] = flat[(j + 1) - 1] \o seqs[j + 1]
      BY <2>2, <3>1
    <3> QED
      BY <2>2, <3>2
  <2>5. a \in Seq(S) /\ b \in Seq(S)
    <3>1. \A k \in 1..n : seqs[k] \in Seq(S)
      BY DEF Growing, n
    <3> QED
      BY <1>2, <2>2, <3>1
  <2>6. Len(f) \in Nat /\ Len(f) <= Len(a) /\ \A k \in 1..Len(f) : a[k] = f[k]
    BY <1>2, <2>3
  <2> HIDE DEF a, b, c, f
  <2>7. Len(c) = Len(a) + Len(b) /\ Len(a) \in Nat /\ Len(b) \in Nat
        /\ \A k \in 1..Len(a) : c[k] = a[k]
    BY <2>4, <2>5
  <2>8. Kept(i, j + 1)
    <3>1. Len(f) <= Len(c)
      BY <2>6, <2>7
    <3>2. ASSUME NEW k \in 1..Len(f) PROVE c[k] = f[k]
      <4>1. k \in 1..Len(a)
        BY <2>6, <2>7
      <4> QED
        BY <2>6, <2>7, <4>1
    <3> QED
      BY <3>1, <3>2 DEF c, f
  <2> QED
    BY <2>2, <2>8
<1>5. G = Nat
  <2>1. G \in SUBSET Nat
    OBVIOUS
  <2> HIDE DEF G
  <2> QED
    BY <1>3, <1>4, <2>1, AllOf
<1>6. ASSUME NEW i \in 0..n, NEW j \in 0..n, i <= j
      PROVE  Kept(i, j)
  <2>1. j - i \in Nat /\ i + (j - i) = j
    BY <1>1, <1>6
  <2>2. j - i \in G
    BY <1>5, <2>1
  <2> HIDE DEF Kept
  <2> QED
    BY <1>1, <2>1, <2>2
<1> QED
  BY <1>6 DEF n

LEMMA FlattenGrows ==
    ASSUME NEW S, NEW seqs \in Seq(Seq(S)), Len(seqs) >= 1
    PROVE  \E flat : Growing(flat, seqs, S) /\ FlattenSeq(seqs) = flat[Len(seqs)]
<1> DEFINE n == Len(seqs)
           V == Seq(S)
           Is(f) == f = [i \in 1..n |-> IF i = 1 THEN seqs[i] ELSE f[i - 1] \o seqs[i]]
           flatten == CHOOSE f : Is(f)
           flat == [i \in 0..n |-> IF i = 0 THEN <<>> ELSE flatten[i]]
<1>1. n \in Nat /\ n >= 1 /\ \A i \in 1..n : seqs[i] \in V
  OBVIOUS
<1>2. <<>> \in V /\ \A a \in V : <<>> \o a = a
  OBVIOUS
<1>3. \A a, b \in V : a \o b \in V
  OBVIOUS
<1>4. FlattenSeq(seqs) = flatten[n]
  BY DEF FlattenSeq
<1> HIDE DEF n, V
<1>5. Is(flatten)
  <2> DEFINE combine == [i \in 1..n |-> [v \in V |-> IF i = 1 THEN seqs[i] ELSE v \o seqs[i]]]
  <2>1. combine \in [1..n -> [V -> V]]
    BY <1>1, <1>3
  <2>2. Recursion(n, V, <<>>, combine)
    <3> HIDE DEF combine
    <3> QED
      BY <1>1, <1>2, <2>1 DEF Recursion
  <2>3. PICK g \in [0..n -> V] :
           \A i \in 0..n : g[i] = IF i = 0 THEN <<>> ELSE combine[i][g[i - 1]]
    <3> HIDE DEF combine
    <3> QED
      BY <2>2, Defined
  <2> DEFINE f == [i \in 1..n |-> g[i]]
  <2>4. ASSUME NEW i \in 1..n
        PROVE  f[i] = IF i = 1 THEN seqs[i] ELSE f[i - 1] \o seqs[i]
    <3>1. i \in 0..n /\ i # 0 /\ i - 1 \in 0..n /\ (i # 1 => i - 1 \in 1..n)
      BY <1>1
    <3>2. g[i] = combine[i][g[i - 1]]
      BY <2>3, <3>1
    <3>3. combine[i][g[i - 1]] = IF i = 1 THEN seqs[i] ELSE g[i - 1] \o seqs[i]
      BY <3>1
    <3> QED
      BY <3>1, <3>2, <3>3
  <2>5. Is(f)
    BY <2>4
  <2> HIDE DEF Is
  <2> QED
    BY <2>5
<1> HIDE DEF flatten
<1>6. \A i \in 1..n : flatten[i] = IF i = 1 THEN seqs[i] ELSE flatten[i - 1] \o seqs[i]
  BY <1>5
<1>7. flat[0] = <<>> /\ \A i \in 1..n : flat[i] = flatten[i]
  BY <1>1
<1> HIDE DEF flat
<1>8. ASSUME NEW i \in 1..n
      PROVE  flat[i] = flat[i - 1] \o seqs[i]
  <2>1. CASE i = 1
    <3>1. flat[i] = seqs[i] /\ flat[i - 1] = <<>> /\ seqs[i] \in V
      BY <1>1, <1>6, <1>7, <2>1
    <3> QED
      BY <1>2, <3>1
  <2>2. CASE i # 1
    <3>1. i - 1 \in 1..n
      BY <1>1, <2>2
    <3> QED
      BY <1>6, <1>7, <2>2, <3>1
  <2> QED
    BY <2>1, <2>2
<1>9. \A i \in 0..n : flat[i] \in V
  <2> DEFINE G == {m \in Nat : m <= n => flat[m] \in V}
  <2>1. 0 \in G
    BY <1>2, <1>7
  <2>2. ASSUME NEW m \in G
        PROVE  m + 1 \in G
    <3>1. SUFFICES ASSUME m + 1 <= n PROVE flat[m + 1] \in V
      OBVIOUS
    <3>2. m + 1 \in 1..n /\ (m + 1) - 1 = m /\ flat[m] \in V
      BY <1>1, <3>1
    <3> QED
      BY <1>1, <1>3, <1>8, <3>2
  <2>3. G \in SUBSET Nat
    OBVIOUS
  <2> HIDE DEF G
  <2>4. G = Nat
    BY <2>1, <2>2, <2>3, AllOf
  <2> QED
    BY <1>1, <2>4 DEF G
<1>10. Growing(flat, seqs, S)
  BY <1>1, <1>7, <1>8, <1>9 DEF Growing, n, V
<1>11. FlattenSeq(seqs) = flat[n]
  BY <1>1, <1>4, <1>7
<1> QED
  BY <1>10, <1>11 DEF n

\* Where the i-th sequence is in the whole.
Behind(flat, seqs, i) ==
    /\ Len(flat[i]) = Len(flat[i - 1]) + Len(seqs[i])
    /\ \A k \in 1..Len(seqs[i]) : flat[Len(seqs)][Len(flat[i - 1]) + k] = seqs[i][k]

LEMMA GrowingAt ==
    ASSUME NEW flat, NEW seqs, NEW S, Growing(flat, seqs, S), NEW i \in 1..Len(seqs)
    PROVE  Behind(flat, seqs, i)
<1> DEFINE n == Len(seqs)
           a == flat[i - 1]
           b == seqs[i]
           c == flat[i]
           d == flat[n]
<1>1. n \in Nat /\ i \in 0..n /\ i - 1 \in 0..n /\ n \in 0..n /\ i <= n
  BY DEF Growing
<1>2. a \in Seq(S) /\ b \in Seq(S) /\ c = a \o b
  <2>1. /\ \A k \in 0..n : flat[k] \in Seq(S)
        /\ \A k \in 1..n : seqs[k] \in Seq(S)
        /\ \A k \in 1..n : flat[k] = flat[k - 1] \o seqs[k]
    <3>1. seqs \in Seq(Seq(S))
      BY DEF Growing
    <3>2. \A k \in 1..n : seqs[k] \in Seq(S)
      BY <3>1
    <3> QED
      BY <3>2, Zenon DEF Growing
  <2> HIDE DEF n
  <2> QED
    BY <1>1, <2>1 DEF n
<1>3. \A k \in 1..Len(c) : d[k] = c[k]
  BY <1>1, GrowingKeeps
<1> HIDE DEF a, b, c, d
<1>4. /\ Len(c) = Len(a) + Len(b) /\ Len(a) \in Nat /\ Len(b) \in Nat
      /\ \A k \in 1..Len(b) : c[Len(a) + k] = b[k]
  BY <1>2, Joined
<1>5. ASSUME NEW k \in 1..Len(b)
      PROVE  d[Len(a) + k] = b[k]
  <2>1. Len(a) + k \in 1..Len(c)
    BY <1>4
  <2> QED
    BY <1>3, <1>4, <2>1
<1> QED
  BY <1>4, <1>5 DEF Behind, a, b, c, d, n

Byte == 0..127

\* A field of n bytes behind a comma, and where both are in the whole.
Placed(flat, i, f, n, a) ==
    /\ Len(flat[i]) = a + n + 1
    /\ flat[13][a + 1] = Comma
    /\ \A k \in 1..n : flat[13][a + (k + 1)] = f[k]

LEMMA FieldPlaced ==
    ASSUME NEW flat, NEW parts, NEW i \in 1..13, Behind(flat, parts, i), Len(parts) = 13,
           NEW f \in Seq(Byte), NEW n \in Nat, Len(f) = n,
           parts[i] = <<Comma>> \o f, NEW a \in Nat, Len(flat[i - 1]) = a
    PROVE  Placed(flat, i, f, n, a)
<1> DEFINE part == parts[i]
<1>1. Comma \in Byte
  BY DEF Comma, Byte
<1>2. Len(part) = n + 1 /\ part[1] = Comma /\ \A k \in 1..n : part[k + 1] = f[k]
  BY <1>1
<1>3. /\ Len(flat[i]) = a + Len(part)
      /\ \A k \in 1..Len(part) : flat[13][a + k] = part[k]
  BY DEF Behind
<1> HIDE DEF part
<1>4. 1 \in 1..Len(part) /\ \A k \in 1..n : k + 1 \in 1..Len(part)
  BY <1>2
<1>5. Len(flat[i]) = a + n + 1
  BY <1>2, <1>3
<1>6. flat[13][a + 1] = Comma
  BY <1>2, <1>3, <1>4
<1>7. ASSUME NEW k \in 1..n
      PROVE  flat[13][a + (k + 1)] = f[k]
  BY <1>2, <1>3, <1>4
<1> QED
  BY <1>5, <1>6, <1>7 DEF Placed

\* Where the fields of a packet are.
LEMMA BodyIs ==
    ASSUME NEW p \in PacketType
    PROVE  /\ Body(p) \in Seq(Byte) /\ Len(Body(p)) = 47
           /\ Body(p)[1] = p.address
           /\ Body(p)[3] = Zero /\ Body(p)[4] = Zero
           /\ \A i \in 1..2 : Body(p)[5 + i] = p.charge[i]
           /\ \A i \in 1..2 : Body(p)[8 + i] = p.pv_amps[i]
           /\ \A i \in 1..3 : Body(p)[11 + i] = p.pv_volts[i]
           /\ Body(p)[15] = Comma
           /\ \A i \in 1..3 : Body(p)[15 + i] = p.kwh[i]
           /\ \A i \in 1..3 : Body(p)[32 + i] = p.battery[i]
<1> DEFINE fields == <<Zeros(2), p.charge, p.pv_amps, p.pv_volts, p.kwh, Zeros(2), Zeros(2),
                       Zeros(3), Zeros(2), p.battery, Zeros(3), Zeros(3), p.checksum>>
           parts == [i \in 1..Len(fields) |-> <<Comma>> \o fields[i]]
<1>1. /\ p.address \in Byte
      /\ p.charge \in Seq(Byte) /\ Len(p.charge) = 2
      /\ p.pv_amps \in Seq(Byte) /\ Len(p.pv_amps) = 2
      /\ p.pv_volts \in Seq(Byte) /\ Len(p.pv_volts) = 3
      /\ p.kwh \in Seq(Byte) /\ Len(p.kwh) = 3
      /\ p.battery \in Seq(Byte) /\ Len(p.battery) = 3
      /\ p.checksum \in Seq(Byte) /\ Len(p.checksum) = 3
  <2>1. \A n \in Nat : \A f \in [1..n -> Digit] : f \in Seq(Digit) /\ Len(f) = n
    OBVIOUS
  <2>2. Digit \subseteq Byte /\ Address \subseteq Byte
    BY DEF Digit, Address, Byte, Zero
  <2>3. /\ p.address \in Address
        /\ p.charge \in [1..2 -> Digit] /\ p.pv_amps \in [1..2 -> Digit]
        /\ p.pv_volts \in [1..3 -> Digit] /\ p.kwh \in [1..3 -> Digit]
        /\ p.battery \in [1..3 -> Digit] /\ p.checksum \in [1..3 -> Digit]
    BY DEF PacketType
  <2>4. Seq(Digit) \subseteq Seq(Byte)
    BY <2>2, SeqMonotonic
  <2> QED
    BY <2>1, <2>2, <2>3, <2>4
<1>2. /\ Zeros(2) \in Seq(Byte) /\ Len(Zeros(2)) = 2 /\ Zeros(2)[1] = Zero /\ Zeros(2)[2] = Zero
      /\ Zeros(3) \in Seq(Byte) /\ Len(Zeros(3)) = 3
  BY DEF Zeros, Zero, Byte
<1>3. Len(fields) = 13
  OBVIOUS
<1>4. Body(p) = <<p.address>> \o FlattenSeq(parts)
  BY DEF Body, Commas
<1>5. /\ fields[1] = Zeros(2) /\ fields[2] = p.charge /\ fields[3] = p.pv_amps
      /\ fields[4] = p.pv_volts /\ fields[5] = p.kwh /\ fields[6] = Zeros(2)
      /\ fields[7] = Zeros(2) /\ fields[8] = Zeros(3) /\ fields[9] = Zeros(2)
      /\ fields[10] = p.battery /\ fields[11] = Zeros(3) /\ fields[12] = Zeros(3)
      /\ fields[13] = p.checksum
  OBVIOUS
<1> HIDE DEF fields
<1>6. \A i \in 1..13 : parts[i] = <<Comma>> \o fields[i]
  BY <1>3
<1>7. \A i \in 1..13 : fields[i] \in Seq(Byte)
  <2>1. ASSUME NEW i \in 1..13
        PROVE  i = 1 \/ i = 2 \/ i = 3 \/ i = 4 \/ i = 5 \/ i = 6 \/ i = 7 \/ i = 8 \/ i = 9
               \/ i = 10 \/ i = 11 \/ i = 12 \/ i = 13
    OBVIOUS
  <2> QED
    BY <1>1, <1>2, <1>5, <2>1, Zenon
<1>8. parts \in Seq(Seq(Byte)) /\ Len(parts) = 13
  <2>1. \A S : \A n \in Nat : \A f \in [1..n -> S] : f \in Seq(S) /\ Len(f) = n
    OBVIOUS
  <2>2. Comma \in Byte
    BY DEF Comma, Byte
  <2>3. \A f \in Seq(Byte) : <<Comma>> \o f \in Seq(Byte)
    BY <2>2
  <2>4. parts \in [1..13 -> Seq(Byte)]
    BY <1>3, <1>7, <2>3
  <2> HIDE DEF parts
  <2> QED
    BY <2>1, <2>4
<1> HIDE DEF parts
<1>9. PICK flat : Growing(flat, parts, Byte) /\ FlattenSeq(parts) = flat[13]
  <2>1. Len(parts) >= 1
    BY <1>8
  <2>2. \E flat : Growing(flat, parts, Byte) /\ FlattenSeq(parts) = flat[Len(parts)]
    BY <1>8, <2>1, FlattenGrows
  <2> QED
    BY <1>8, <2>2
<1>0. \A i \in 1..13 : Behind(flat, parts, i)
  <2>1. \A i \in 1..Len(parts) : Behind(flat, parts, i)
    BY <1>9, GrowingAt
  <2> QED
    BY <1>8, <2>1
<1>10. Len(flat[0]) = 0
  BY <1>9 DEF Growing
<1>11. Placed(flat, 1, Zeros(2), 2, 0) /\ Len(flat[1]) = 3
  <2>1. Placed(flat, 1, Zeros(2), 2, 0)
    <3>1. 1 \in 1..13 /\ 1 - 1 = 0 /\ 2 \in Nat /\ 0 \in Nat
      OBVIOUS
    <3>2. /\ parts[1] = <<Comma>> \o Zeros(2)
          /\ Zeros(2) \in Seq(Byte) /\ Len(Zeros(2)) = 2
      BY <1>1, <1>2, <1>5, <1>6, <3>1
    <3>3. Behind(flat, parts, 1) /\ Len(parts) = 13 /\ Len(flat[1 - 1]) = 0
      BY <1>8, <1>0, <1>10, <3>1
    <3> QED
      BY <3>1, <3>2, <3>3, FieldPlaced
  <2> QED
    BY <2>1 DEF Placed
<1>12. Placed(flat, 2, p.charge, 2, 3) /\ Len(flat[2]) = 6
  <2>1. Placed(flat, 2, p.charge, 2, 3)
    <3>1. 2 \in 1..13 /\ 2 - 1 = 1 /\ 2 \in Nat /\ 3 \in Nat
      OBVIOUS
    <3>2. /\ parts[2] = <<Comma>> \o p.charge
          /\ p.charge \in Seq(Byte) /\ Len(p.charge) = 2
      BY <1>1, <1>2, <1>5, <1>6, <3>1
    <3>3. Behind(flat, parts, 2) /\ Len(parts) = 13 /\ Len(flat[2 - 1]) = 3
      BY <1>8, <1>0, <1>11, <3>1
    <3> QED
      BY <3>1, <3>2, <3>3, FieldPlaced
  <2> QED
    BY <2>1 DEF Placed
<1>13. Placed(flat, 3, p.pv_amps, 2, 6) /\ Len(flat[3]) = 9
  <2>1. Placed(flat, 3, p.pv_amps, 2, 6)
    <3>1. 3 \in 1..13 /\ 3 - 1 = 2 /\ 2 \in Nat /\ 6 \in Nat
      OBVIOUS
    <3>2. /\ parts[3] = <<Comma>> \o p.pv_amps
          /\ p.pv_amps \in Seq(Byte) /\ Len(p.pv_amps) = 2
      BY <1>1, <1>2, <1>5, <1>6, <3>1
    <3>3. Behind(flat, parts, 3) /\ Len(parts) = 13 /\ Len(flat[3 - 1]) = 6
      BY <1>8, <1>0, <1>12, <3>1
    <3> QED
      BY <3>1, <3>2, <3>3, FieldPlaced
  <2> QED
    BY <2>1 DEF Placed
<1>14. Placed(flat, 4, p.pv_volts, 3, 9) /\ Len(flat[4]) = 13
  <2>1. Placed(flat, 4, p.pv_volts, 3, 9)
    <3>1. 4 \in 1..13 /\ 4 - 1 = 3 /\ 3 \in Nat /\ 9 \in Nat
      OBVIOUS
    <3>2. /\ parts[4] = <<Comma>> \o p.pv_volts
          /\ p.pv_volts \in Seq(Byte) /\ Len(p.pv_volts) = 3
      BY <1>1, <1>2, <1>5, <1>6, <3>1
    <3>3. Behind(flat, parts, 4) /\ Len(parts) = 13 /\ Len(flat[4 - 1]) = 9
      BY <1>8, <1>0, <1>13, <3>1
    <3> QED
      BY <3>1, <3>2, <3>3, FieldPlaced
  <2> QED
    BY <2>1 DEF Placed
<1>15. Placed(flat, 5, p.kwh, 3, 13) /\ Len(flat[5]) = 17
  <2>1. Placed(flat, 5, p.kwh, 3, 13)
    <3>1. 5 \in 1..13 /\ 5 - 1 = 4 /\ 3 \in Nat /\ 13 \in Nat
      OBVIOUS
    <3>2. /\ parts[5] = <<Comma>> \o p.kwh
          /\ p.kwh \in Seq(Byte) /\ Len(p.kwh) = 3
      BY <1>1, <1>2, <1>5, <1>6, <3>1
    <3>3. Behind(flat, parts, 5) /\ Len(parts) = 13 /\ Len(flat[5 - 1]) = 13
      BY <1>8, <1>0, <1>14, <3>1
    <3> QED
      BY <3>1, <3>2, <3>3, FieldPlaced
  <2> QED
    BY <2>1 DEF Placed
<1>16. Placed(flat, 6, Zeros(2), 2, 17) /\ Len(flat[6]) = 20
  <2>1. Placed(flat, 6, Zeros(2), 2, 17)
    <3>1. 6 \in 1..13 /\ 6 - 1 = 5 /\ 2 \in Nat /\ 17 \in Nat
      OBVIOUS
    <3>2. /\ parts[6] = <<Comma>> \o Zeros(2)
          /\ Zeros(2) \in Seq(Byte) /\ Len(Zeros(2)) = 2
      BY <1>1, <1>2, <1>5, <1>6, <3>1
    <3>3. Behind(flat, parts, 6) /\ Len(parts) = 13 /\ Len(flat[6 - 1]) = 17
      BY <1>8, <1>0, <1>15, <3>1
    <3> QED
      BY <3>1, <3>2, <3>3, FieldPlaced
  <2> QED
    BY <2>1 DEF Placed
<1>17. Placed(flat, 7, Zeros(2), 2, 20) /\ Len(flat[7]) = 23
  <2>1. Placed(flat, 7, Zeros(2), 2, 20)
    <3>1. 7 \in 1..13 /\ 7 - 1 = 6 /\ 2 \in Nat /\ 20 \in Nat
      OBVIOUS
    <3>2. /\ parts[7] = <<Comma>> \o Zeros(2)
          /\ Zeros(2) \in Seq(Byte) /\ Len(Zeros(2)) = 2
      BY <1>1, <1>2, <1>5, <1>6, <3>1
    <3>3. Behind(flat, parts, 7) /\ Len(parts) = 13 /\ Len(flat[7 - 1]) = 20
      BY <1>8, <1>0, <1>16, <3>1
    <3> QED
      BY <3>1, <3>2, <3>3, FieldPlaced
  <2> QED
    BY <2>1 DEF Placed
<1>18. Placed(flat, 8, Zeros(3), 3, 23) /\ Len(flat[8]) = 27
  <2>1. Placed(flat, 8, Zeros(3), 3, 23)
    <3>1. 8 \in 1..13 /\ 8 - 1 = 7 /\ 3 \in Nat /\ 23 \in Nat
      OBVIOUS
    <3>2. /\ parts[8] = <<Comma>> \o Zeros(3)
          /\ Zeros(3) \in Seq(Byte) /\ Len(Zeros(3)) = 3
      BY <1>1, <1>2, <1>5, <1>6, <3>1
    <3>3. Behind(flat, parts, 8) /\ Len(parts) = 13 /\ Len(flat[8 - 1]) = 23
      BY <1>8, <1>0, <1>17, <3>1
    <3> QED
      BY <3>1, <3>2, <3>3, FieldPlaced
  <2> QED
    BY <2>1 DEF Placed
<1>19. Placed(flat, 9, Zeros(2), 2, 27) /\ Len(flat[9]) = 30
  <2>1. Placed(flat, 9, Zeros(2), 2, 27)
    <3>1. 9 \in 1..13 /\ 9 - 1 = 8 /\ 2 \in Nat /\ 27 \in Nat
      OBVIOUS
    <3>2. /\ parts[9] = <<Comma>> \o Zeros(2)
          /\ Zeros(2) \in Seq(Byte) /\ Len(Zeros(2)) = 2
      BY <1>1, <1>2, <1>5, <1>6, <3>1
    <3>3. Behind(flat, parts, 9) /\ Len(parts) = 13 /\ Len(flat[9 - 1]) = 27
      BY <1>8, <1>0, <1>18, <3>1
    <3> QED
      BY <3>1, <3>2, <3>3, FieldPlaced
  <2> QED
    BY <2>1 DEF Placed
<1>20. Placed(flat, 10, p.battery, 3, 30) /\ Len(flat[10]) = 34
  <2>1. Placed(flat, 10, p.battery, 3, 30)
    <3>1. 10 \in 1..13 /\ 10 - 1 = 9 /\ 3 \in Nat /\ 30 \in Nat
      OBVIOUS
    <3>2. /\ parts[10] = <<Comma>> \o p.battery
          /\ p.battery \in Seq(Byte) /\ Len(p.battery) = 3
      BY <1>1, <1>2, <1>5, <1>6, <3>1
    <3>3. Behind(flat, parts, 10) /\ Len(parts) = 13 /\ Len(flat[10 - 1]) = 30
      BY <1>8, <1>0, <1>19, <3>1
    <3> QED
      BY <3>1, <3>2, <3>3, FieldPlaced
  <2> QED
    BY <2>1 DEF Placed
<1>21. Placed(flat, 11, Zeros(3), 3, 34) /\ Len(flat[11]) = 38
  <2>1. Placed(flat, 11, Zeros(3), 3, 34)
    <3>1. 11 \in 1..13 /\ 11 - 1 = 10 /\ 3 \in Nat /\ 34 \in Nat
      OBVIOUS
    <3>2. /\ parts[11] = <<Comma>> \o Zeros(3)
          /\ Zeros(3) \in Seq(Byte) /\ Len(Zeros(3)) = 3
      BY <1>1, <1>2, <1>5, <1>6, <3>1
    <3>3. Behind(flat, parts, 11) /\ Len(parts) = 13 /\ Len(flat[11 - 1]) = 34
      BY <1>8, <1>0, <1>20, <3>1
    <3> QED
      BY <3>1, <3>2, <3>3, FieldPlaced
  <2> QED
    BY <2>1 DEF Placed
<1>22. Placed(flat, 12, Zeros(3), 3, 38) /\ Len(flat[12]) = 42
  <2>1. Placed(flat, 12, Zeros(3), 3, 38)
    <3>1. 12 \in 1..13 /\ 12 - 1 = 11 /\ 3 \in Nat /\ 38 \in Nat
      OBVIOUS
    <3>2. /\ parts[12] = <<Comma>> \o Zeros(3)
          /\ Zeros(3) \in Seq(Byte) /\ Len(Zeros(3)) = 3
      BY <1>1, <1>2, <1>5, <1>6, <3>1
    <3>3. Behind(flat, parts, 12) /\ Len(parts) = 13 /\ Len(flat[12 - 1]) = 38
      BY <1>8, <1>0, <1>21, <3>1
    <3> QED
      BY <3>1, <3>2, <3>3, FieldPlaced
  <2> QED
    BY <2>1 DEF Placed
<1>23. Placed(flat, 13, p.checksum, 3, 42) /\ Len(flat[13]) = 46
  <2>1. Placed(flat, 13, p.checksum, 3, 42)
    <3>1. 13 \in 1..13 /\ 13 - 1 = 12 /\ 3 \in Nat /\ 42 \in Nat
      OBVIOUS
    <3>2. /\ parts[13] = <<Comma>> \o p.checksum
          /\ p.checksum \in Seq(Byte) /\ Len(p.checksum) = 3
      BY <1>1, <1>2, <1>5, <1>6, <3>1
    <3>3. Behind(flat, parts, 13) /\ Len(parts) = 13 /\ Len(flat[13 - 1]) = 42
      BY <1>8, <1>0, <1>22, <3>1
    <3> QED
      BY <3>1, <3>2, <3>3, FieldPlaced
  <2> QED
    BY <2>1 DEF Placed
<1> DEFINE whole == flat[13]
<1>24. whole \in Seq(Byte) /\ Len(whole) = 46
  <2>1. \A i \in 0..13 : flat[i] \in Seq(Byte)
    BY <1>8, <1>9 DEF Growing
  <2> QED
    BY <1>23, <2>1
<1>25. /\ whole[0 + (1 + 1)] = Zero /\ whole[0 + (2 + 1)] = Zero
       /\ \A k \in 1..2 : whole[3 + (k + 1)] = p.charge[k]
       /\ \A k \in 1..2 : whole[6 + (k + 1)] = p.pv_amps[k]
       /\ \A k \in 1..3 : whole[9 + (k + 1)] = p.pv_volts[k]
       /\ whole[13 + 1] = Comma
       /\ \A k \in 1..3 : whole[13 + (k + 1)] = p.kwh[k]
       /\ \A k \in 1..3 : whole[30 + (k + 1)] = p.battery[k]
  <2>1. 1 \in 1..2 /\ 2 \in 1..2
    OBVIOUS
  <2> QED
    BY <1>2, <1>11, <1>12, <1>13, <1>14, <1>15, <1>20, <2>1, Zenon DEF Placed
<1> HIDE DEF whole
<1>26. /\ Body(p) \in Seq(Byte) /\ Len(Body(p)) = 47 /\ Body(p)[1] = p.address
       /\ \A i \in 1..46 : Body(p)[i + 1] = whole[i]
  <2>1. Body(p) = <<p.address>> \o whole
    BY <1>4, <1>9 DEF whole
  <2>2. ASSUME NEW a \in Byte, NEW b \in Seq(Byte)
        PROVE  /\ <<a>> \o b \in Seq(Byte) /\ Len(<<a>> \o b) = Len(b) + 1
               /\ (<<a>> \o b)[1] = a
               /\ \A i \in 1..Len(b) : (<<a>> \o b)[i + 1] = b[i]
    OBVIOUS
  <2>3. whole \in Seq(Byte) /\ p.address \in Byte
    BY <1>1, <1>24
  <2> DEFINE a == p.address
             b == <<a>> \o whole
  <2> HIDE DEF a
  <2>4. /\ b \in Seq(Byte) /\ Len(b) = Len(whole) + 1
        /\ b[1] = a /\ \A i \in 1..Len(whole) : b[i + 1] = whole[i]
    BY <2>2, <2>3, Zenon DEF a
  <2>5. Body(p) = b
    BY <2>1 DEF a
  <2> HIDE DEF b
  <2> QED
    BY <1>24, <2>4, <2>5 DEF a
<1> DEFINE body == Body(p)
<1> HIDE DEF body
<1>27. \A i \in 1..46 : body[i + 1] = whole[i]
  BY <1>26 DEF body
<1>28. body[3] = Zero /\ body[4] = Zero /\ body[15] = Comma
  <2>1. body[2 + 1] = whole[2] /\ body[3 + 1] = whole[3] /\ body[14 + 1] = whole[14]
    BY <1>27
  <2> QED
    BY <1>25, <2>1
<1>29. ASSUME NEW i \in 1..3
       PROVE  /\ i \in 1..2 => body[5 + i] = p.charge[i] /\ body[8 + i] = p.pv_amps[i]
              /\ body[11 + i] = p.pv_volts[i] /\ body[15 + i] = p.kwh[i]
              /\ body[32 + i] = p.battery[i]
  <2>1. /\ (3 + (i + 1)) + 1 = 5 + i /\ (6 + (i + 1)) + 1 = 8 + i /\ (9 + (i + 1)) + 1 = 11 + i
        /\ (13 + (i + 1)) + 1 = 15 + i /\ (30 + (i + 1)) + 1 = 32 + i
    OBVIOUS
  <2>2. /\ body[(3 + (i + 1)) + 1] = whole[3 + (i + 1)]
        /\ body[(6 + (i + 1)) + 1] = whole[6 + (i + 1)]
        /\ body[(9 + (i + 1)) + 1] = whole[9 + (i + 1)]
        /\ body[(13 + (i + 1)) + 1] = whole[13 + (i + 1)]
        /\ body[(30 + (i + 1)) + 1] = whole[30 + (i + 1)]
    BY <1>27
  <2> QED
    BY <1>25, <2>1, <2>2
<1> QED
  BY <1>26, <1>28, <1>29 DEF body

LEMMA FrameIs ==
    ASSUME NEW p \in PacketType
    PROVE  Frame(p) \in Seq(Byte)
<1> DEFINE body == Body(p)
<1>1. body \in Seq(Byte)
  BY BodyIs
<1>2. LF \in Byte /\ CR \in Byte
  BY DEF LF, CR, Byte
<1> HIDE DEF body
<1>3. <<LF>> \o body \o <<CR>> \in Seq(Byte)
  BY <1>1, <1>2
<1> QED
  BY <1>3 DEF Frame, body

----------------------------------------------------------------------------
(* Types, and what a row is made of.                                       *)

\* A function made as Recursion says.
Recursive(f, last, V, base, combine) ==
    /\ f \in [0..last -> V]
    /\ \A i \in 0..last : f[i] = IF i = 0 THEN base ELSE combine[i][f[i - 1]]

LEMMA RecursiveExists ==
    ASSUME NEW last, NEW V, NEW base, NEW combine, Recursion(last, V, base, combine)
    PROVE  \E f : Recursive(f, last, V, base, combine)
BY Defined DEF Recursive

\* Serial::Read leaves bytes out and changes none.
LEMMA KeptIs ==
    ASSUME NEW n \in Nat, NEW bytes, \A i \in 1..n : bytes[i] \in Byte
    PROVE  LET kept[i \in 0..n] ==
                 IF i = 0 THEN <<>>
                 ELSE IF bytes[i] \in {LF, CR} THEN kept[i - 1]
                      ELSE Append(kept[i - 1], bytes[i])
           IN kept[n] \in Seq(Byte)
<1> DEFINE V == Seq(Byte)
           Is(f) == f = [i \in 0..n |->
                           IF i = 0 THEN <<>>
                           ELSE IF bytes[i] \in {LF, CR} THEN f[i - 1]
                                ELSE Append(f[i - 1], bytes[i])]
           kept == CHOOSE f : Is(f)
<1>1. n \in Nat /\ \A i \in 1..n : bytes[i] \in Byte
  OBVIOUS
<1>2. <<>> \in V /\ \A v \in V, b \in Byte : Append(v, b) \in V
  OBVIOUS
<1> HIDE DEF V
<1>4. Is(kept)
  <2> DEFINE combine == [i \in 1..n |-> [v \in V |->
                           IF bytes[i] \in {LF, CR} THEN v ELSE Append(v, bytes[i])]]
  <2>1. combine \in [1..n -> [V -> V]]
    BY <1>1, <1>2
  <2>2. Recursion(n, V, <<>>, combine)
    <3> HIDE DEF combine
    <3> QED
      BY <1>1, <1>2, <2>1 DEF Recursion
  <2>3. PICK g \in [0..n -> V] :
           \A i \in 0..n : g[i] = IF i = 0 THEN <<>> ELSE combine[i][g[i - 1]]
    <3> HIDE DEF combine
    <3>1. \E g : Recursive(g, n, V, <<>>, combine)
      BY <2>2, RecursiveExists
    <3> QED
      BY <3>1 DEF Recursive
  <2>4. ASSUME NEW i \in 0..n
        PROVE  g[i] = IF i = 0 THEN <<>>
                      ELSE IF bytes[i] \in {LF, CR} THEN g[i - 1] ELSE Append(g[i - 1], bytes[i])
    <3>1. i # 0 => i \in 1..n /\ i - 1 \in 0..n
      BY <1>1
    <3>2. i # 0 => combine[i][g[i - 1]] =
             IF bytes[i] \in {LF, CR} THEN g[i - 1] ELSE Append(g[i - 1], bytes[i])
      BY <3>1
    <3> QED
      BY <2>3, <3>2
  <2>5. Is(g)
    BY <2>3, <2>4
  <2> HIDE DEF Is
  <2> QED
    BY <2>5
<1> HIDE DEF kept
<1>5. \A i \in 0..n : kept[i] = IF i = 0 THEN <<>>
                                ELSE IF bytes[i] \in {LF, CR} THEN kept[i - 1]
                                     ELSE Append(kept[i - 1], bytes[i])
  BY <1>4
<1> DEFINE G == {m \in Nat : m <= n => kept[m] \in V}
<1>6. 0 \in G
  BY <1>1, <1>2, <1>5
<1>7. ASSUME NEW m \in G
      PROVE  m + 1 \in G
  <2>1. SUFFICES ASSUME m + 1 <= n PROVE kept[m + 1] \in V
    OBVIOUS
  <2>2. m + 1 \in 1..n /\ m + 1 \in 0..n /\ m + 1 # 0 /\ (m + 1) - 1 = m /\ kept[m] \in V
    BY <1>1, <2>1
  <2>3. kept[m + 1] = IF bytes[m + 1] \in {LF, CR} THEN kept[m] ELSE Append(kept[m], bytes[m + 1])
    BY <1>5, <2>2
  <2>4. bytes[m + 1] \in Byte
    BY <1>1, <2>2
  <2> QED
    BY <1>2, <2>2, <2>3, <2>4
<1>8. G = Nat
  <2>1. G \in SUBSET Nat
    OBVIOUS
  <2> HIDE DEF G
  <2> QED
    BY <1>6, <1>7, <2>1, AllOf
<1>9. kept[n] \in V
  BY <1>1, <1>8
<1> QED
  BY <1>9 DEF V, kept

LEMMA FilteredIs ==
    ASSUME line \in Seq(Byte), NEW n \in 0..Len(line)
    PROVE  Filtered(n) \in Seq(Byte)
<1>1. n \in Nat /\ \A i \in 1..n : line[i] \in Byte
  OBVIOUS
<1> QED
  BY <1>1, KeptIs DEF Filtered

LEMMA SubstrIs ==
    ASSUME NEW s \in Seq(Byte), NEW at \in Nat, NEW n \in Nat
    PROVE  /\ Substr(s, at, n) \in Seq(Int)
           /\ at <= Len(s) => Len(Substr(s, at, n)) <= n
           /\ at + n <= Len(s) => /\ Len(Substr(s, at, n)) = n
                                  /\ \A i \in 1..n : Substr(s, at, n)[i] = s[at + i]
<1> DEFINE last == IF at + n < Len(s) THEN at + n ELSE Len(s)
           t == SubSeq(s, at + 1, last)
<1>1. t \in Seq(Byte)
  OBVIOUS
<1>2. Seq(Byte) \subseteq Seq(Int)
  <2>1. Byte \subseteq Int
    BY DEF Byte
  <2> QED
    BY <2>1, SeqMonotonic
<1>3. at <= Len(s) => Len(t) <= n
  OBVIOUS
<1>4. at + n <= Len(s) => Len(t) = n /\ \A i \in 1..n : t[i] = s[at + i]
  OBVIOUS
<1> QED
  BY <1>1, <1>2, <1>3, <1>4 DEF Substr

LEMMA SubstrAt ==
    ASSUME NEW s \in Seq(Byte), NEW at \in Nat, NEW n \in Nat, at + n <= Len(s)
    PROVE  /\ Substr(s, at, n) \in Seq(Int)
           /\ Len(Substr(s, at, n)) = n
           /\ \A i \in 1..n : Substr(s, at, n)[i] = s[at + i]
<1> DEFINE t == SubSeq(s, at + 1, at + n)
<1>1. Substr(s, at, n) = t
  <2>1. (IF at + n < Len(s) THEN at + n ELSE Len(s)) = at + n
    OBVIOUS
  <2> QED
    BY <2>1 DEF Substr
<1>2. t \in Seq(Byte) /\ Len(t) = n /\ \A i \in 1..n : t[i] = s[at + i]
  BY SMTT(20)
<1>3. Seq(Byte) \subseteq Seq(Int)
  <2>1. Byte \subseteq Int
    BY DEF Byte
  <2> QED
    BY <2>1, SeqMonotonic
<1> HIDE DEF t
<1> QED
  BY <1>1, <1>2, <1>3

\* What parse can set.
Readings == [inverter_current : 0..99, charge_current : 0..99, pv_current : 0..99,
             pv_input_voltage : 0..999, daily_kwh : 0..999, battery_voltage : 0..999]

LEMMA ParseType ==
    ASSUME NEW s \in Seq(Byte), Len(s) >= ChecksumAt
    PROVE  Parse(s) \in Readings
<1>1. ASSUME NEW at \in 0..45, NEW n \in {2, 3}
      PROVE  Fits(Strtol(Substr(s, at, n)), n)
  <2> DEFINE t == Substr(s, at, n)
             x == Strtol(t)
  <2>1. at \in Nat /\ n \in Nat /\ at <= Len(s)
    BY DEF ChecksumAt
  <2>2. t \in Seq(Int) /\ Len(t) <= n
    BY <2>1, SubstrIs
  <2> HIDE DEF t
  <2>3. Fits(x, Len(t)) /\ Len(t) \in Nat
    BY <2>2, StrtolRange
  <2> HIDE DEF x
  <2>4. Fits(x, n)
    BY <2>1, <2>2, <2>3, FitsWider
  <2> QED
    BY <2>4 DEF x, t
<1>2. /\ Strtol(Substr(s, 3, 2)) \in 0..99 /\ Strtol(Substr(s, 6, 2)) \in 0..99
      /\ Strtol(Substr(s, 9, 2)) \in 0..99 /\ Strtol(Substr(s, 13, 3)) \in 0..999
      /\ Strtol(Substr(s, 16, 3)) \in 0..999 /\ Strtol(Substr(s, 33, 3)) \in 0..999
  <2>1. /\ 3 \in 0..45 /\ 6 \in 0..45 /\ 9 \in 0..45 /\ 13 \in 0..45 /\ 16 \in 0..45 /\ 33 \in 0..45
        /\ 2 \in {2, 3} /\ 3 \in {2, 3}
    OBVIOUS
  <2>2. \A x : (Fits(x, 2) => x \in 0..99) /\ (Fits(x, 3) => x \in 0..999)
    BY DEF Fits
  <2>3. /\ \A at \in 0..45 : Fits(Strtol(Substr(s, at, 2)), 2)
        /\ \A at \in 0..45 : Fits(Strtol(Substr(s, at, 3)), 3)
    BY <1>1, <2>1, Zenon
  <2>4. /\ Fits(Strtol(Substr(s, 3, 2)), 2) /\ Fits(Strtol(Substr(s, 6, 2)), 2)
        /\ Fits(Strtol(Substr(s, 9, 2)), 2) /\ Fits(Strtol(Substr(s, 13, 3)), 3)
        /\ Fits(Strtol(Substr(s, 16, 3)), 3) /\ Fits(Strtol(Substr(s, 33, 3)), 3)
    BY <2>1, <2>3
  <2> QED
    BY <2>2, <2>4
<1> QED
  BY <1>2 DEF Parse, Readings

\* A row whose text parse accepts has that text's readings.
OfText(row, s) ==
    AddressOf(s) \in Address /\ Len(s) >= ChecksumAt =>
        /\ row.charge_amps = Parse(s).charge_current
        /\ row.ac_load_amps = Parse(s).inverter_current
        /\ row.battery = Parse(s).battery_voltage
        /\ row.daily_kwh = Parse(s).daily_kwh
        /\ row.pv_amps = Parse(s).pv_current
        /\ row.pv_volts = Parse(s).pv_input_voltage

\* While queryInsert runs the caller waits, its text is still there, and there
\* is a try left.
Inserting ==
    query # <<>> => /\ pc = "insert"
                    /\ retries >= 1
                    /\ \E row : query = <<row>> /\ OfText(row, text)

TInv == TypeOK /\ Inserting

LEMMA InitType == Init => TInv
<1> SUFFICES ASSUME Init PROVE TInv
  OBVIOUS
<1>1. NoValues \in Readings
  BY DEF NoValues, Readings
<1>2. <<>> \in Seq(0..127) /\ Len(<<>>) = 0
  OBVIOUS
<1> QED
  BY <1>1, <1>2, DatabaseAssumption
     DEF Init, DatabaseInit, TInv, TypeOK, Inserting, Readings

\* The type of what is read from the line.
LEMMA TakeType ==
    ASSUME TInv, NEW n \in ReadSizes, Take(n)
    PROVE  /\ line' \in Seq(0..127) /\ Filtered(n) \in Seq(Byte)
           /\ query = <<>>
<1>1. line \in Seq(Byte) /\ n \in Nat /\ n <= Len(line) /\ n >= 1
  BY OutbackAssumption DEF TInv, TypeOK, Take, Byte, PacketSize
<1>2. SubSeq(line, n + 1, Len(line)) \in Seq(Byte)
  BY <1>1
<1>3. n \in 0..Len(line)
  BY <1>1
<1>4. query = <<>>
  BY DEF Take, TInv, Inserting
<1>5. line' = SubSeq(line, n + 1, Len(line))
  BY DEF Take
<1> QED
  BY <1>1, <1>2, <1>3, <1>4, <1>5, FilteredIs DEF Byte

LEMMA AddressType ==
    ASSUME NEW s \in Seq(Byte)
    PROVE  AddressOf(s) \in 0..127
<1>1. CASE Len(s) > 1
  <2>1. 2 \in 1..Len(s)
    BY <1>1
  <2>2. s[2] \in Byte
    BY <2>1
  <2> QED
    BY <1>1, <2>2 DEF AddressOf, Byte
<1>2. CASE ~ (Len(s) > 1)
  BY <1>2 DEF AddressOf
<1> QED
  BY <1>1, <1>2

LEMMA ReadPacketType ==
    ASSUME TInv, NEW n \in ReadSizes, ReadPacket(n)
    PROVE  TInv'
<1> DEFINE s == Filtered(n)
<1>1. line' \in Seq(0..127) /\ s \in Seq(Byte)
  BY TakeType DEF ReadPacket
<1> HIDE DEF s
<1>2. /\ text' = s /\ address' = AddressOf(s) /\ pc' = "insert"
      /\ query' = <<ExportMeterData(address', type', values')>> /\ retries' = QueryTries
      /\ exported' = exported + 1
      /\ UNCHANGED <<connected, table, breaks, dtr, sent, lost>>
      /\ Refused(s) \/ Accepted(s)
  BY DEF ReadPacket, QueryInsert, Take, s
<1>3. address' \in 0..127
  BY <1>1, <1>2, AddressType
<1>4. type' \in {"none", "MX"} /\ values' \in Readings
  <2>1. CASE Refused(s)
    BY <2>1 DEF Refused, TInv, TypeOK, Readings
  <2>2. CASE Accepted(s)
    BY <1>1, <2>2, ParseType DEF Accepted
  <2> QED
    BY <1>2, <2>1, <2>2
<1>5. OfText(ExportMeterData(address', type', values'), s)
  <2>1. SUFFICES ASSUME AddressOf(s) \in Address, Len(s) >= ChecksumAt
                 PROVE  OfText(ExportMeterData(address', type', values'), s)
    BY DEF OfText
  <2>2. type' = "MX" /\ values' = Parse(s)
    BY <1>2, <2>1 DEF Refused, Accepted
  <2> QED
    BY <1>2, <2>2 DEF OfText, ExportMeterData
<1>6. Inserting'
  <2>1. QueryTries >= 1
    BY DatabaseAssumption
  <2> QED
    BY <1>2, <1>5, <2>1 DEF Inserting
<1>7. Len(query') <= 1 /\ retries' \in 0..QueryTries /\ exported' \in Nat
  <2>1. QueryTries \in Nat
    BY DatabaseAssumption
  <2> QED
    BY <1>2, <2>1 DEF TInv, TypeOK
<1>8. text' \in Seq(0..127)
  BY <1>1, <1>2 DEF Byte
<1>9. TypeOK'
  BY <1>1, <1>2, <1>3, <1>4, <1>7, <1>8, SMTT(20) DEF TInv, TypeOK, Readings
<1> QED
  BY <1>6, <1>9 DEF TInv

LEMMA ReadType ==
    ASSUME TInv, Read
    PROVE  TInv'
<1>1. CASE ReadTimeout
  BY <1>1 DEF ReadTimeout, TInv, TypeOK, Inserting, device, database
<1>2. ASSUME NEW n \in ReadSizes, ReadNothing(n)
      PROVE  TInv'
  <2>1. line' \in Seq(0..127) /\ query = <<>>
    BY <1>2, TakeType DEF ReadNothing
  <2> QED
    BY <1>2, <2>1 DEF ReadNothing, Take, TInv, TypeOK, Inserting, database
<1>3. ASSUME NEW n \in ReadSizes, ReadShort(n)
      PROVE  TInv'
  <2> DEFINE s == Filtered(n)
  <2>1. line' \in Seq(0..127) /\ s \in Seq(Byte) /\ query = <<>>
    BY <1>3, TakeType DEF ReadShort
  <2> HIDE DEF s
  <2>2. /\ text' = s /\ address' = AddressOf(s) /\ pc' = "crashed"
        /\ UNCHANGED <<type, values, exported, database, dtr, sent, lost>>
    BY <1>3 DEF ReadShort, Take, s
  <2>3. address' \in 0..127 /\ text' \in Seq(0..127)
    BY <2>1, <2>2, AddressType DEF Byte
  <2> QED
    BY <2>1, <2>2, <2>3 DEF TInv, TypeOK, Inserting, database
<1> QED
  BY <1>1, <1>2, <1>3, ReadPacketType DEF Read

LEMMA InsertType ==
    ASSUME TInv, InsertStep
    PROVE  TInv'
<1>1. /\ query # <<>> /\ UNCHANGED <<driver, device, exported>>
      /\ breaks' \in Nat
      /\ connected' \in BOOLEAN
      /\ \/ query' = <<>> /\ (retries' = retries \/ retries' = retries - 1)
         \/ query' = query /\ retries' = retries - 1 /\ retries # 1
         \/ query' = query /\ retries' = retries
  <2>1. query # <<>> /\ UNCHANGED <<driver, device, exported>>
    BY DEF InsertStep, DatabaseStep, Execute, Fail, FailUnconnected
  <2>2. breaks' = breaks \/ breaks' = breaks + 1
    BY DEF InsertStep, DatabaseStep, Execute, Fail, FailUnconnected
  <2>3. breaks \in Nat /\ connected \in BOOLEAN
    BY DEF TInv, TypeOK
  <2>4. CASE Execute
    BY <2>1, <2>2, <2>3, <2>4 DEF Execute
  <2>5. CASE \E code \in ErrorCodes : AfterError(code)
    BY <2>1, <2>2, <2>3, <2>5 DEF AfterError, Reconnect
  <2> QED
    BY <2>4, <2>5 DEF InsertStep, DatabaseStep, Fail, FailUnconnected
<1>2. /\ pc = "insert" /\ retries >= 1 /\ retries \in 0..QueryTries /\ QueryTries \in Nat
      /\ \E row : query = <<row>> /\ OfText(row, text)
  BY <1>1, DatabaseAssumption DEF TInv, TypeOK, Inserting
<1>3. Len(<<>>) = 0 /\ Len(query) <= 1
  BY DEF TInv, TypeOK
<1>4. Len(query') <= 1 /\ retries' \in 0..QueryTries
  <2>1. retries' = retries \/ retries' = retries - 1
    BY <1>1
  <2>2. retries' \in 0..QueryTries
    BY <1>2, <2>1
  <2>3. query' = <<>> \/ query' = query
    BY <1>1
  <2>4. Len(query') <= 1
    BY <1>3, <2>3
  <2> QED
    BY <2>2, <2>4
<1>5. Inserting'
  BY <1>1, <1>2 DEF Inserting, driver
<1> QED
  BY <1>1, <1>4, <1>5 DEF TInv, TypeOK, driver, device

LEMMA LineType ==
    ASSUME TInv, (\E p \in Packets : Send(p)) \/ (\E i \in LossPositions : LoseByte(i))
    PROVE  TInv'
<1>1. line \in Seq(Byte)
  BY DEF TInv, TypeOK, Byte
<1>2. /\ line' \in Seq(Byte) /\ sent' \in Nat /\ lost' \in Nat
      /\ UNCHANGED <<driver, dtr, exported, database>>
  <2>1. CASE \E p \in Packets : Send(p)
    <3>1. PICK p \in Packets : Send(p)
      BY <2>1
    <3>2. p \in PacketType
      BY OutbackAssumption
    <3>3. Frame(p) \in Seq(Byte)
      BY <3>2, FrameIs
    <3> DEFINE frame == Frame(p)
    <3> HIDE DEF frame
    <3>4. line' = line \o frame /\ sent' = sent + 1
          /\ UNCHANGED <<driver, dtr, lost, exported, database>>
      BY <3>1 DEF Send, frame
    <3>5. line \o frame \in Seq(Byte)
      BY <1>1, <3>3 DEF frame
    <3> QED
      BY <3>4, <3>5 DEF TInv, TypeOK
  <2>2. CASE \E i \in LossPositions : LoseByte(i)
    <3>1. PICK i \in LossPositions : LoseByte(i)
      BY <2>2
    <3>2. i \in 1..Len(line) /\ lost' = lost + 1 /\ line' = RemoveAt(line, i)
          /\ UNCHANGED <<driver, dtr, sent, exported, database>>
      BY <3>1 DEF LoseByte
    <3>3. RemoveAt(line, i) \in Seq(Byte)
      BY <1>1, <3>2 DEF RemoveAt
    <3> QED
      BY <3>2, <3>3 DEF TInv, TypeOK
  <2> QED
    BY <2>1, <2>2
<1> QED
  BY <1>2 DEF TInv, TypeOK, Inserting, driver, database, Byte

LEMMA TypeNext == TInv /\ [Next]_vars => TInv'
<1> SUFFICES ASSUME TInv, [Next]_vars PROVE TInv'
  OBVIOUS
<1>1. CASE \E key \in {"none", "d", "D", "q"} : Getc(key)
  <2>1. PICK key \in {"none", "d", "D", "q"} : Getc(key)
    BY <1>1
  <2>2. /\ pc = "getc" /\ pc' \in {"ended", "read"}
        /\ UNCHANGED <<address, type, values, line, sent, lost, text, exported, database>>
    BY <2>1 DEF Getc
  <2>3. dtr' \in BOOLEAN
    <3>1. dtr \in BOOLEAN
      BY DEF TInv, TypeOK
    <3>2. CASE key = "d"
      BY <2>1, <3>2 DEF Getc, SetDTR
    <3>3. CASE key = "D"
      BY <2>1, <3>3 DEF Getc, SetDTR
    <3>4. CASE key \in {"none", "q"}
      <4>1. dtr' = dtr
        BY <2>1, <3>4 DEF Getc, SetDTR
      <4> QED
        BY <3>1, <4>1, Zenon
    <3> QED
      BY <3>2, <3>3, <3>4
  <2>4. query = <<>>
    BY <2>2 DEF TInv, Inserting
  <2> QED
    BY <2>2, <2>3, <2>4 DEF TInv, TypeOK, Inserting, database
<1>2. CASE Read
  BY <1>2, ReadType
<1>3. CASE InsertStep
  BY <1>3, InsertType
<1>4. CASE Inserted
  <2>1. <<>> \in Seq(0..127)
    OBVIOUS
  <2> QED
    BY <1>4, <2>1 DEF Inserted, TInv, TypeOK, Inserting, device, database
<1>5. CASE (\E p \in Packets : Send(p)) \/ (\E i \in LossPositions : LoseByte(i))
  BY <1>5, LineType
<1>6. CASE Break /\ UNCHANGED <<driver, device, exported>>
  <2>1. /\ breaks' = breaks + 1 /\ connected' = FALSE
        /\ UNCHANGED <<pc, address, type, values, text, dtr, line, sent, lost, exported,
                       query, retries>>
    BY <1>6 DEF Break, driver, device
  <2>2. breaks' \in Nat /\ connected' \in BOOLEAN
    <3>1. breaks' \in Nat
      BY <2>1 DEF TInv, TypeOK
    <3>2. connected' \in BOOLEAN
      BY <2>1
    <3> QED
      BY <3>1, <3>2
  <2>3. TypeOK'
    BY <2>1, <2>2 DEF TInv, TypeOK
  <2>4. Inserting'
    BY <2>1 DEF TInv, Inserting
  <2> QED
    BY <2>3, <2>4 DEF TInv
<1>7. CASE UNCHANGED vars
  BY <1>7 DEF vars, driver, device, database, TInv, TypeOK, Inserting
<1> QED
  BY <1>1, <1>2, <1>3, <1>4, <1>5, <1>6, <1>7 DEF Next, HostStep

\* However badly a packet is cut, each reading has the two or three digits of
\* its substr, and queryInsert's tries stay in their bounds.
THEOREM TypeCorrect == Spec => []TypeOK
<1>1. TInv => TypeOK
  BY DEF TInv
<1> QED
  BY <1>1, InitType, TypeNext, PTL DEF Spec

----------------------------------------------------------------------------
(* A row of bytes that line up.                                            *)

LEMMA AlignedIs ==
    ASSUME NEW s \in Seq(Byte), NEW p \in PacketType, AlignedWith(s, p)
    PROVE  Len(s) >= 45 /\ \A k \in 1..44 : s[k + 1] = Body(p)[k]
<1> DEFINE body == Body(p)
           n == Len(s) - 1
<1>1. body \in Seq(Byte) /\ Len(body) = 47
  BY BodyIs
<1>2. Len(s) >= 45 /\ Len(s) \in Nat
  BY DEF AlignedWith, ChecksumAt
<1>3. /\ Len(Tail(s)) = n
      /\ SubSeq(Tail(s), 1, Len(Tail(s))) = SubSeq(body, 1, Len(Tail(s)))
      /\ Len(Tail(s)) <= Len(body)
  BY <1>2 DEF AlignedWith, IsPrefix
<1> HIDE DEF body
<1>4. ASSUME NEW k \in 1..44
      PROVE  s[k + 1] = body[k]
  <2>1. \A k1 \in 1..n : SubSeq(Tail(s), 1, n)[k1] = s[k1 + 1]
    BY <1>2
  <2>2. \A k1 \in 1..n : SubSeq(body, 1, n)[k1] = body[k1]
    BY <1>1, <1>2, <1>3
  <2>3. k \in 1..n
    BY <1>2
  <2> HIDE DEF n
  <2> QED
    BY <1>3, <2>1, <2>2, <2>3
<1> QED
  BY <1>2, <1>4 DEF body

\* The n bytes f behind the first a of s, and n digits.
Holds(s, a, f, n) == \A i \in 1..n : s[a + i] = f[i]

Digits(f, n) == f \in Seq(Int) /\ Len(f) = n /\ \A i \in 1..n : f[i] \in Digit

\* The bytes that parse looks at, from the second on.
OneBehind(s, body) == \A k \in 1..44 : s[k + 1] = body[k]

\* The n bytes behind a are the n bytes behind b in s.
Moved(a, n, b) == a \in Nat /\ n \in Nat /\ a + n <= 44 /\ b = a + 1

LEMMA Shifted ==
    ASSUME NEW s, NEW body, OneBehind(s, body), NEW a, NEW n, NEW b, Moved(a, n, b),
           NEW f, Holds(body, a, f, n)
    PROVE  Holds(s, b, f, n)
<1> USE DEF Moved
<1>1. ASSUME NEW i \in 1..n
      PROVE  s[b + i] = f[i]
  <2>1. a + i \in 1..44 /\ b + i = (a + i) + 1
    OBVIOUS
  <2>2. s[(a + i) + 1] = body[a + i] /\ body[a + i] = f[i]
    BY <2>1 DEF Holds, OneBehind
  <2> QED
    BY <2>1, <2>2
<1> QED
  BY <1>1 DEF Holds

LEMMA DigitsAre ==
    ASSUME NEW n \in Nat, NEW f \in [1..n -> Digit]
    PROVE  Digits(f, n)
<1>1. \A S : \A g \in [1..n -> S] : g \in Seq(S) /\ Len(g) = n
  OBVIOUS
<1>2. Digit \subseteq Int
  BY DEF Digit, Zero
<1>3. f \in [1..n -> Int] /\ \A i \in 1..n : f[i] \in Digit
  BY <1>2
<1> QED
  BY <1>1, <1>3 DEF Digits

LEMMA TailOfThree ==
    ASSUME NEW f, Digits(f, 3), NEW s, NEW a \in Nat, Holds(s, a, f, 3)
    PROVE  Digits(Tail(f), 2) /\ Holds(s, a + 1, Tail(f), 2)
<1>1. \A v \in Seq(Int) : Len(v) = 3 => /\ Tail(v) \in Seq(Int) /\ Len(Tail(v)) = 2
                                        /\ \A i \in 1..2 : Tail(v)[i] = v[i + 1]
  <2> SUFFICES ASSUME NEW v \in Seq(Int), Len(v) = 3
               PROVE  /\ Tail(v) \in Seq(Int) /\ Len(Tail(v)) = 2
                      /\ \A i \in 1..2 : Tail(v)[i] = v[i + 1]
    OBVIOUS
  <2>1. Len(Tail(v)) = 2 /\ Tail(v) \in Seq(Int)
    OBVIOUS
  <2>2. \A i \in 1..Len(Tail(v)) : Tail(v)[i] = v[i + 1]
    OBVIOUS
  <2> QED
    BY <2>1, <2>2
<1>2. Tail(f) \in Seq(Int) /\ Len(Tail(f)) = 2 /\ \A i \in 1..2 : Tail(f)[i] = f[i + 1]
  BY <1>1 DEF Digits
<1>3. \A i \in 1..2 : i + 1 \in 1..3 /\ a + (i + 1) = (a + 1) + i
  OBVIOUS
<1> DEFINE t == Tail(f)
<1>4. \A i \in 1..2 : t[i] = f[i + 1]
  BY <1>2
<1> HIDE DEF t
<1>5. \A i \in 1..2 : t[i] \in Digit
  BY <1>3, <1>4 DEF Digits
<1>6. \A i \in 1..2 : s[(a + 1) + i] = t[i]
  BY <1>3, <1>4 DEF Holds
<1> QED
  BY <1>2, <1>5, <1>6 DEF Digits, Holds, t

\* A substr of n bytes of which m are digits.
FieldAt(s, a, n, m) ==
    /\ s \in Seq(Byte)
    /\ a \in Nat
    /\ n \in {2, 3}
    /\ a + n <= Len(s)
    /\ m \in {2, 3}
    /\ m <= n
    /\ m < n => s[a + (m + 1)] \notin Digit

\* A field at its offset is read as its own number.
LEMMA FieldOwn ==
    ASSUME NEW s, NEW a, NEW n, NEW m, FieldAt(s, a, n, m),
           NEW f, Digits(f, m), Holds(s, a, f, m)
    PROVE  OwnValue(Strtol(Substr(s, a, n)), f)
<1> DEFINE t == Substr(s, a, n)
<1>1. /\ s \in Seq(Byte) /\ a \in Nat /\ n \in {2, 3} /\ n \in Nat /\ a + n <= Len(s)
      /\ m \in {2, 3} /\ m <= n
  BY DEF FieldAt
<1>12. f \in Seq(Int) /\ Len(f) = m
  BY DEF Digits
<1>2. t \in Seq(Int) /\ Len(t) = n /\ \A i \in 1..n : t[i] = s[a + i]
  BY <1>1, SubstrAt
<1> HIDE DEF t
<1>3. \A i \in 1..m : i \in 1..n
  BY <1>1
<1>4. \A i \in 1..m : t[i] = f[i] /\ f[i] \in Digit
  BY <1>2, <1>3 DEF Digits, Holds
<1>5. m < n => t[m + 1] \notin Digit
  <2> SUFFICES ASSUME m < n PROVE t[m + 1] \notin Digit
    OBVIOUS
  <2>1. m + 1 \in 1..n
    BY <1>1
  <2> QED
    BY <1>2, <2>1 DEF FieldAt
<1> QED
  BY <1>1, <1>12, <1>2, <1>4, <1>5, StrtolOwn DEF t

\* Zeros are nothing, read as octal as they are.
LEMMA NothingOwn ==
    ASSUME NEW x, OwnValue(x, Zeros(2)), Fits(x, 2)
    PROVE  x = 0
<1> DEFINE f == Zeros(2)
<1>1. f \in Seq(Int) /\ Len(f) = 2 /\ f[1] = Zero /\ f[2] = Zero
  BY DEF Zeros, Zero
<1> HIDE DEF f
<1>2. Number(f, 10) = (f[1] - Zero) * 10 + (f[2] - Zero)
  BY <1>1, NumberIs
<1>3. Number(f, 10) = 0
  BY <1>1, <1>2 DEF Zero
<1>4. x <= Number(f, 10)
  BY <1>1 DEF OwnValue, f
<1>5. x \in 0..99
  BY DEF Fits
<1> QED
  BY <1>3, <1>4, <1>5

\* All of parse's readings, from bytes that line up.
LEMMA ParseOwn ==
    ASSUME NEW s \in Seq(Byte), NEW p \in PacketType, AlignedWith(s, p)
    PROVE  /\ AddressOf(s) = p.address /\ AddressOf(s) \in Address /\ Len(s) >= ChecksumAt
           /\ Parse(s).inverter_current = 0
           /\ OwnValue(Parse(s).charge_current, p.charge)
           /\ OwnValue(Parse(s).pv_input_voltage, Tail(p.pv_volts))
           /\ OwnValue(Parse(s).pv_current, p.pv_amps)
           /\ OwnValue(Parse(s).daily_kwh, p.kwh)
           /\ OwnValue(Parse(s).battery_voltage, p.battery)
<1> DEFINE body == Body(p)
<1>1. Len(s) >= 45 /\ Len(s) \in Nat /\ \A k \in 1..44 : s[k + 1] = body[k]
  BY AlignedIs
<1>2. /\ body[1] = p.address /\ body[15] = Comma
      /\ Holds(body, 2, Zeros(2), 2)
      /\ Holds(body, 5, p.charge, 2) /\ Holds(body, 8, p.pv_amps, 2)
      /\ Holds(body, 11, p.pv_volts, 3) /\ Holds(body, 15, p.kwh, 3)
      /\ Holds(body, 32, p.battery, 3)
  <2>1. /\ body[1] = p.address /\ body[3] = Zero /\ body[4] = Zero /\ body[15] = Comma
        /\ \A i \in 1..2 : body[5 + i] = p.charge[i]
        /\ \A i \in 1..2 : body[8 + i] = p.pv_amps[i]
        /\ \A i \in 1..3 : body[11 + i] = p.pv_volts[i]
        /\ \A i \in 1..3 : body[15 + i] = p.kwh[i]
        /\ \A i \in 1..3 : body[32 + i] = p.battery[i]
    BY BodyIs
  <2> HIDE DEF body
  <2>2. Holds(body, 2, Zeros(2), 2)
    BY <2>1 DEF Holds, Zeros
  <2> QED
    BY <2>1, <2>2, Zenon DEF Holds
<1> HIDE DEF body
<1>3. /\ Holds(s, 3, Zeros(2), 2)
      /\ Holds(s, 6, p.charge, 2) /\ Holds(s, 9, p.pv_amps, 2)
      /\ Holds(s, 12, p.pv_volts, 3) /\ Holds(s, 16, p.kwh, 3)
      /\ Holds(s, 33, p.battery, 3)
  <2>1. OneBehind(s, body)
    BY <1>1 DEF OneBehind
  <2>2. /\ Moved(2, 2, 3) /\ Moved(5, 2, 6) /\ Moved(8, 2, 9) /\ Moved(11, 3, 12)
        /\ Moved(15, 3, 16) /\ Moved(32, 3, 33)
    BY DEF Moved
  <2> QED
    BY <1>2, <2>1, <2>2, Shifted
<1>4. /\ p.address \in Address /\ Digits(Zeros(2), 2)
      /\ Digits(p.charge, 2) /\ Digits(p.pv_amps, 2) /\ Digits(p.pv_volts, 3)
      /\ Digits(p.kwh, 3) /\ Digits(p.battery, 3)
  <2>1. Zeros(2) \in [1..2 -> Digit]
    BY DEF Zeros, Digit, Zero
  <2>2. /\ p.address \in Address
        /\ p.charge \in [1..2 -> Digit] /\ p.pv_amps \in [1..2 -> Digit]
        /\ p.pv_volts \in [1..3 -> Digit] /\ p.kwh \in [1..3 -> Digit]
        /\ p.battery \in [1..3 -> Digit]
    BY DEF PacketType
  <2> QED
    BY <2>1, <2>2, DigitsAre
<1>5. s[2] = p.address /\ s[16] = Comma
  <2>1. 1 \in 1..44 /\ 15 \in 1..44 /\ 1 + 1 = 2 /\ 15 + 1 = 16
    OBVIOUS
  <2>2. \A k \in 1..44 : s[k + 1] = body[k]
    BY <1>1
  <2>3. s[1 + 1] = body[1] /\ s[15 + 1] = body[15]
    BY <2>1, <2>2
  <2> QED
    BY <1>2, <2>1, <2>3
<1>6. /\ FieldAt(s, 3, 2, 2) /\ FieldAt(s, 6, 2, 2) /\ FieldAt(s, 9, 2, 2)
      /\ FieldAt(s, 13, 3, 2) /\ FieldAt(s, 16, 3, 3) /\ FieldAt(s, 33, 3, 3)
  <2>1. s[13 + (2 + 1)] \notin Digit
    BY <1>5 DEF Comma, Digit, Zero
  <2>2. 13 + 3 <= Len(s)
    BY <1>1
  <2>3. FieldAt(s, 13, 3, 2)
    BY <2>1, <2>2 DEF FieldAt
  <2>4. 3 + 2 <= Len(s) /\ 6 + 2 <= Len(s) /\ 9 + 2 <= Len(s) /\ 16 + 3 <= Len(s) /\ 33 + 3 <= Len(s)
    <3> DEFINE n == Len(s)
    <3>1. n \in Nat /\ n >= 45
      BY <1>1
    <3> HIDE DEF n
    <3>2. 3 + 2 <= n /\ 6 + 2 <= n /\ 9 + 2 <= n /\ 16 + 3 <= n /\ 33 + 3 <= n
      BY <3>1
    <3> QED
      BY <3>2 DEF n
  <2>5. /\ \A a \in Nat : a + 2 <= Len(s) => FieldAt(s, a, 2, 2)
        /\ \A a \in Nat : a + 3 <= Len(s) => FieldAt(s, a, 3, 3)
    BY DEF FieldAt
  <2> QED
    BY <2>3, <2>4, <2>5
<1>7. /\ OwnValue(Strtol(Substr(s, 6, 2)), p.charge)
      /\ OwnValue(Strtol(Substr(s, 9, 2)), p.pv_amps)
      /\ OwnValue(Strtol(Substr(s, 16, 3)), p.kwh)
      /\ OwnValue(Strtol(Substr(s, 33, 3)), p.battery)
  BY <1>3, <1>4, <1>6, FieldOwn
<1>8. OwnValue(Strtol(Substr(s, 13, 3)), Tail(p.pv_volts))
  <2>1. Digits(Tail(p.pv_volts), 2) /\ Holds(s, 13, Tail(p.pv_volts), 2)
    BY <1>3, <1>4, TailOfThree
  <2> QED
    BY <1>6, <2>1, FieldOwn
<1>9. Strtol(Substr(s, 3, 2)) = 0
  <2> DEFINE x == Strtol(Substr(s, 3, 2))
  <2>1. OwnValue(x, Zeros(2))
    BY <1>3, <1>4, <1>6, FieldOwn
  <2>2. Fits(x, 2)
    <3> DEFINE t == Substr(s, 3, 2)
    <3>1. t \in Seq(Int) /\ Len(t) = 2
      <4>1. 3 + 2 <= Len(s) /\ 3 \in Nat /\ 2 \in Nat
        BY <1>1
      <4> QED
        BY <4>1, SubstrAt
    <3> HIDE DEF t
    <3>2. Fits(Strtol(t), Len(t))
      BY <3>1, StrtolRange
    <3> QED
      BY <3>1, <3>2 DEF t
  <2> HIDE DEF x
  <2>3. x = 0
    BY <2>1, <2>2, NothingOwn
  <2> QED
    BY <2>3 DEF x
<1>10. AddressOf(s) = p.address /\ AddressOf(s) \in Address /\ Len(s) >= ChecksumAt
  <2>1. Len(s) > 1 /\ Len(s) >= ChecksumAt
    BY <1>1 DEF ChecksumAt
  <2>2. AddressOf(s) = s[2]
    BY <2>1 DEF AddressOf
  <2> QED
    BY <1>4, <1>5, <2>1, <2>2
<1>11. /\ Parse(s).inverter_current = Strtol(Substr(s, 3, 2))
       /\ Parse(s).charge_current = Strtol(Substr(s, 6, 2))
       /\ Parse(s).pv_current = Strtol(Substr(s, 9, 2))
       /\ Parse(s).pv_input_voltage = Strtol(Substr(s, 13, 3))
       /\ Parse(s).daily_kwh = Strtol(Substr(s, 16, 3))
       /\ Parse(s).battery_voltage = Strtol(Substr(s, 33, 3))
  BY DEF Parse
<1> QED
  BY <1>7, <1>8, <1>9, <1>10, <1>11

\* When the bytes that were read line up with a packet of the device, the row
\* that is inserted has that packet's readings, each from its own field (parse
\* and exportMeterData), whatever became of the readings and the connection
\* since.
THEOREM AlignedRowsAreOwn == Spec => []AlignedRowIsOwn
<1>1. TInv => AlignedRowIsOwn
  <2> SUFFICES ASSUME TInv, query # <<>>, NEW p \in Packets, AlignedWith(text, p)
               PROVE  LET row == Head(query) IN
                      /\ row.ac_load_amps = 0
                      /\ OwnValue(row.charge_amps, p.charge)
                      /\ OwnValue(row.pv_volts, Tail(p.pv_volts))
                      /\ OwnValue(row.pv_amps, p.pv_amps)
                      /\ OwnValue(row.daily_kwh, p.kwh)
                      /\ OwnValue(row.battery, p.battery)
    BY DEF AlignedRowIsOwn
  <2>1. PICK row : query = <<row>> /\ OfText(row, text)
    BY DEF TInv, Inserting
  <2>2. Head(query) = row
    BY <2>1
  <2>3. p \in PacketType /\ text \in Seq(Byte)
    BY OutbackAssumption DEF TInv, TypeOK, Byte
  <2>4. /\ AddressOf(text) = p.address /\ AddressOf(text) \in Address /\ Len(text) >= ChecksumAt
        /\ Parse(text).inverter_current = 0
        /\ OwnValue(Parse(text).charge_current, p.charge)
        /\ OwnValue(Parse(text).pv_input_voltage, Tail(p.pv_volts))
        /\ OwnValue(Parse(text).pv_current, p.pv_amps)
        /\ OwnValue(Parse(text).daily_kwh, p.kwh)
        /\ OwnValue(Parse(text).battery_voltage, p.battery)
    BY <2>3, ParseOwn
  <2> QED
    BY <2>1, <2>2, <2>4, Zenon DEF OfText
<1> QED
  BY <1>1, InitType, TypeNext, PTL DEF Spec
=============================================================================
