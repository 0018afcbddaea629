--------------------------- MODULE Onewire_proofs ---------------------------
(***************************************************************************)
(* Proofs about Onewire and PostgreSQL, for any directory of devices of    *)
(* any families, any temperatures and any number of reads: IInv is         *)
(* inductive by itself, TurnInv together with it.                          *)
(***************************************************************************)
EXTENDS Onewire, FiniteSetTheorems, TLAPS

\* Nothing is stored before openDB, and nothing read before the first sweep.
NothingBefore ==
    /\ pc \in {"scan", "open"} => read = <<>> /\ at = 1
    /\ connection = "none" => table = <<>> /\ read = <<>>
    /\ pc \in {"poll", "sleep"} => connection # "none"

IInv == TypeOK /\ NothingBefore /\ RowsAreReadings

\* What getTemperature makes of a file's text is a text.
LEMMA FromPositionType ==
    ASSUME NEW content \in Contents, content.text # <<>>
    PROVE  /\ content.text \in Seq(Digits)
           /\ FromPosition69(content) \in Seq(Digits)
<1>1. content.crc \in BOOLEAN /\ content.text \in Seq(Digits)
  BY OnewireAssumption DEF Contents
<1>2. Tail(content.text) \in Seq(Digits)
  BY <1>1
<1> QED
  BY <1>1, <1>2 DEF FromPosition69

LEMMA InitInv == Init => IInv
<1> SUFFICES ASSUME Init PROVE IInv
  OBVIOUS
<1>1. /\ sensors \in Seq(Entries)
      /\ read \in Seq(Readings)
      /\ table \in Seq(Rows)
      /\ from \in Seq(Nat)
      /\ Len(sensors) = 0 /\ Len(read) = 0 /\ Len(table) = 0 /\ Len(from) = 0
  BY DEF Init, DatabaseInit
<1>2. TypeOK
  <2>1. at \in 1..(Len(sensors) + 1)
    BY <1>1 DEF Init
  <2> QED
    BY <1>1, <2>1 DEF Init, DatabaseInit, TypeOK
<1>3. NothingBefore /\ RowsAreReadings
  BY <1>1 DEF Init, DatabaseInit, NothingBefore, RowsAreReadings
<1> QED
  BY <1>2, <1>3 DEF IInv

\* A row that is stored is the reading just made.
LEMMA PollTemperatureInv ==
    ASSUME IInv, NEW content \in Contents, PollTemperature(content)
    PROVE  IInv'
<1> DEFINE reading == [device |-> sensors[at], crc |-> content.crc, text |-> content.text]
           row == Row(sensors[at], content)
<1>1. /\ pc = "poll"
      /\ at \in 1..Len(sensors)
      /\ content.text # <<>>
      /\ read' = Append(read, reading)
      /\ table' = Append(table, row) \/ table' = table
      /\ from' = IF table' = table THEN from ELSE Append(from, Len(read'))
      /\ at' = at + 1
      /\ UNCHANGED <<mounted, sensors, pc, connection>>
  BY DEF PollTemperature, Polls, QueryInsert, NextSensor, IInv, TypeOK
<1>2. /\ sensors[at] \in Entries
      /\ content.crc \in BOOLEAN
      /\ content.text \in Seq(Digits)
      /\ FromPosition69(content) \in Seq(Digits)
  BY <1>1, FromPositionType DEF IInv, TypeOK, Contents
<1>3. reading \in Readings /\ row \in Rows
  BY <1>2 DEF Row, Readings, Rows
<1>4. row.id = reading.device /\ (reading.crc => row.temp = reading.text)
  BY DEF Row, FromPosition69
<1> HIDE DEF reading, row
<1>5. TypeOK'
  <2>1. read' \in Seq(Readings)
    BY <1>1, <1>3 DEF IInv, TypeOK
  <2>2. table' \in Seq(Rows)
    <3>1. table \in Seq(Rows)
      BY DEF IInv, TypeOK
    <3>2. Append(table, row) \in Seq(Rows)
      BY <1>3, <3>1
    <3> QED
      BY <1>1, <3>1, <3>2
  <2>3. at' \in 1..(Len(sensors') + 1)
    BY <1>1 DEF IInv, TypeOK
  <2>4. from' \in Seq(Nat)
    <3>1. Len(read') \in Nat
      BY <2>1
    <3> QED
      BY <1>1, <3>1 DEF IInv, TypeOK
  <2> QED
    BY <1>1, <2>1, <2>2, <2>3, <2>4 DEF IInv, TypeOK
<1>6. NothingBefore'
  BY <1>1 DEF IInv, NothingBefore
<1>7. RowsAreReadings'
  <2>1. /\ Len(read) \in Nat
        /\ Len(read') = Len(read) + 1
        /\ read'[Len(read) + 1] = reading
        /\ \A i \in 1..Len(read) : read'[i] = read[i]
    BY <1>1, <1>3 DEF IInv, TypeOK
  <2>2. \A i \in 1..Len(table) : from[i] \in 1..Len(read)
    BY DEF IInv, RowsAreReadings
  <2>3. CASE table' = table
    <3>1. from' = from
      BY <1>1, <2>3
    <3> QED
      BY <2>1, <2>2, <2>3, <3>1 DEF IInv, RowsAreReadings
  <2>4. CASE table' # table
    <3>1. table' = Append(table, row) /\ from' = Append(from, Len(read) + 1)
      BY <1>1, <2>1, <2>4
    <3>2. /\ Len(table) \in Nat
          /\ Len(table') = Len(table) + 1
          /\ Len(from') = Len(table) + 1
          /\ table'[Len(table) + 1] = row
          /\ from'[Len(table) + 1] = Len(read) + 1
          /\ \A i \in 1..Len(table) : table'[i] = table[i] /\ from'[i] = from[i]
      <4>1. table \in Seq(Rows) /\ from \in Seq(Nat) /\ Len(from) = Len(table)
        BY DEF IInv, TypeOK, RowsAreReadings
      <4>2. /\ Len(table') = Len(table) + 1
            /\ table'[Len(table) + 1] = row
            /\ \A i \in 1..Len(table) : table'[i] = table[i]
        BY <1>3, <3>1, <4>1
      <4>3. /\ Len(from') = Len(from) + 1
            /\ from'[Len(from) + 1] = Len(read) + 1
            /\ \A i \in 1..Len(from) : from'[i] = from[i]
        BY <2>1, <3>1, <4>1
      <4> QED
        BY <4>1, <4>2, <4>3
    <3>3. ASSUME NEW i \in 1..Len(table')
          PROVE  /\ from'[i] \in 1..Len(read')
                 /\ \A k \in 1..(i - 1) : from'[k] < from'[i]
                 /\ table'[i].id = read'[from'[i]].device
                 /\ read'[from'[i]].crc => table'[i].temp = read'[from'[i]].text
      <4>1. CASE i \in 1..Len(table)
        BY <2>1, <2>2, <3>2, <4>1 DEF IInv, RowsAreReadings
      <4>2. CASE i = Len(table) + 1
        <5>1. \A k \in 1..(i - 1) : k \in 1..Len(table)
          BY <3>2, <4>2
        <5> QED
          BY <1>4, <2>1, <2>2, <3>2, <4>2, <5>1
      <4> QED
        BY <3>2, <4>1, <4>2
    <3> QED
      BY <3>2, <3>3 DEF RowsAreReadings
  <2> QED
    BY <2>3, <2>4
<1> QED
  BY <1>5, <1>6, <1>7 DEF IInv

LEMMA NextInv == IInv /\ [Next]_vars => IInv'
<1> SUFFICES ASSUME IInv, [Next]_vars PROVE IInv'
  OBVIOUS
<1> USE DEF IInv, TypeOK, NothingBefore, RowsAreReadings, databaseVars
<1>1. CASE Scan
  <2>1. sensors' \in Seq(Entries) /\ mounted' \in BOOLEAN
    BY <1>1, OnewireAssumption DEF Scan
  <2>2. /\ pc' = "open"
        /\ at' = at /\ read' = read /\ from' = from /\ connection' = connection /\ table' = table
    BY <1>1 DEF Scan
  <2>3. at' \in 1..(Len(sensors') + 1)
    BY <1>1, <2>1, <2>2 DEF Scan
  <2>5. TypeOK'
    BY <2>1, <2>2, <2>3
  <2>4. NothingBefore' /\ RowsAreReadings'
    BY <1>1, <2>2 DEF Scan
  <2> QED
    BY <2>4, <2>5
<1>2. CASE HandlerStarts
  BY <1>2 DEF HandlerStarts, OpenDB
<1>3. CASE \E content \in Contents : PollTemperature(content)
  BY <1>3, PollTemperatureInv
<1>4. CASE \E content \in Contents \cup {Missing} : TemperatureThrows(content)
  BY <1>4 DEF TemperatureThrows
<1>5. CASE PollBattery
  BY <1>5 DEF PollBattery
<1>6. CASE SkipSensor
  <2>1. /\ pc = "poll" /\ at \in 1..Len(sensors) /\ at' = at + 1
        /\ UNCHANGED <<mounted, sensors, pc, read, from, connection, table>>
    BY <1>6 DEF SkipSensor, Polls, NextSensor
  <2>2. RowsAreReadings'
    BY <2>1
  <2>3. at' \in 1..(Len(sensors') + 1)
    BY <2>1
  <2>4. TypeOK' /\ NothingBefore'
    BY <2>1, <2>3
  <2> QED
    BY <2>2, <2>4
<1>7. CASE Sleep
  BY <1>7 DEF Sleep
<1>8. CASE Wake
  BY <1>8 DEF Wake, FirstSensor
<1>9. CASE ServerGoes
  BY <1>9 DEF ServerGoes, LoseConnection, daemonVars
<1>10. CASE UNCHANGED vars
  BY <1>10 DEF vars, daemonVars
<1> QED
  BY <1>1, <1>2, <1>3, <1>4, <1>5, <1>6, <1>7, <1>8, <1>9, <1>10 DEF Next, Handler

\* Each variable of the driver, its handler and the database keeps its type.
THEOREM TypeCorrect == Spec => []TypeOK
<1>1. IInv => TypeOK
  BY DEF IInv
<1> QED
  BY <1>1, InitInv, NextInv, PTL DEF Spec

\* Whatever the server refuses, the table has temperatures that were read, in
\* the order of the readings and none twice, each under its own sensor
\* (queryInsert, getTemperature).
THEOREM RowsStored == Spec => []RowsAreReadings
<1>1. IInv => RowsAreReadings
  BY DEF IInv
<1> QED
  BY <1>1, InitInv, NextInv, PTL DEF Spec

----------------------------------------------------------------------------
(* The sweeps.                                                             *)

\* Whole sweeps, and the thermometers before the iterator, have been read.
SweepsBefore ==
    \E sweeps \in 0..Len(read) :
        Len(read) = sweeps * Cardinality(Thermometers) + ThermometersTo(at - 1)

\* A sweep ends behind the last sensor.
Swept == pc = "sleep" => at = Len(sensors) + 1

TurnInv == SweepsBefore /\ Swept /\ InTurn

LEMMA ThermometersFinite ==
    ASSUME TypeOK, NEW k \in Nat
    PROVE  /\ IsFiniteSet({i \in Thermometers : i <= k})
           /\ ThermometersTo(k) \in Nat
           /\ Cardinality(Thermometers) \in Nat
<1>1. Len(sensors) \in Nat
  BY DEF TypeOK
<1>2. IsFiniteSet(1..Len(sensors))
  BY <1>1, FS_Interval
<1>3. Thermometers \in SUBSET (1..Len(sensors))
  BY DEF Thermometers
<1>4. {i \in Thermometers : i <= k} \in SUBSET (1..Len(sensors))
  BY <1>3
<1>5. IsFiniteSet({i \in Thermometers : i <= k}) /\ IsFiniteSet(Thermometers)
  BY <1>2, <1>3, <1>4, FS_Subset
<1> QED
  BY <1>5, FS_CardinalityType DEF ThermometersTo

LEMMA ThermometersStep ==
    ASSUME TypeOK, NEW k \in 1..Len(sensors)
    PROVE  ThermometersTo(k) = IF k \in Thermometers THEN ThermometersTo(k - 1) + 1
                               ELSE ThermometersTo(k - 1)
<1> DEFINE S == {i \in Thermometers : i <= k - 1}
           T == {i \in Thermometers : i <= k}
<1>1. k - 1 \in Nat /\ \A i \in Thermometers : i \in Nat
  BY DEF TypeOK, Thermometers
<1>2. IsFiniteSet(S)
  BY <1>1, ThermometersFinite
<1>3. CASE k \in Thermometers
  <2>1. T = S \cup {k}
    <3>1. \A i \in Thermometers : i <= k <=> (i <= k - 1 \/ i = k)
      BY <1>1
    <3>2. k <= k
      OBVIOUS
    <3> QED
      BY <1>3, <3>1, <3>2
  <2>2. k \notin S
    BY <1>1
  <2>3. Cardinality(S \cup {k}) = Cardinality(S) + 1
    <3> HIDE DEF S
    <3> QED
      BY <1>2, <2>2, FS_AddElement
  <2> QED
    BY <1>3, <2>1, <2>3 DEF ThermometersTo
<1>4. CASE k \notin Thermometers
  <2>1. T = S
    BY <1>1, <1>4
  <2> QED
    BY <1>4, <2>1 DEF ThermometersTo
<1> QED
  BY <1>3, <1>4

LEMMA ThermometersEnds ==
    ASSUME TypeOK
    PROVE  /\ ThermometersTo(0) = 0
           /\ ThermometersTo(Len(sensors)) = Cardinality(Thermometers)
<1>1. {i \in Thermometers : i <= 0} = {}
  BY DEF TypeOK, Thermometers
<1>2. {i \in Thermometers : i <= Len(sensors)} = Thermometers
  BY DEF TypeOK, Thermometers
<1> QED
  BY <1>1, <1>2, FS_EmptySet DEF ThermometersTo

LEMMA NoneBefore ==
    ASSUME NEW m \in Nat, NEW T \in SUBSET (1..m)
    PROVE  /\ Cardinality(T) \in Nat
           /\ Cardinality({i \in T : i <= 0}) = 0
<1>1. IsFiniteSet(1..m)
  BY FS_Interval
<1>2. IsFiniteSet(T)
  BY <1>1, FS_Subset
<1>3. {i \in T : i <= 0} = {}
  <2>1. \A i \in T : ~ (i <= 0)
    OBVIOUS
  <2> QED
    BY <2>1
<1> QED
  BY <1>2, <1>3, FS_CardinalityType, FS_EmptySet

\* One sweep more.
LEMMA SweepMore ==
    ASSUME NEW n \in Nat, NEW sweeps \in Nat, NEW all \in Nat, all = sweeps * n + n, sweeps <= all
    PROVE  \E more \in 0..all : all = more * n + 0
<1>1. CASE n = 0
  <2>1. all = sweeps * n + 0
    BY <1>1
  <2> QED
    BY <2>1
<1>2. CASE n > 0
  <2>1. (sweeps + 1) * n = sweeps * n + n
    OBVIOUS
  <2>2. sweeps <= sweeps * n
    BY <1>2
  <2>3. sweeps * n \in Nat
    OBVIOUS
  <2>4. sweeps + 1 \in 0..all
    BY <1>2, <2>2, <2>3
  <2>5. all = (sweeps + 1) * n + 0
    BY <2>1, <2>3
  <2> QED
    BY <2>4, <2>5
<1> QED
  BY <1>1, <1>2


\* A sensor passed, and read if it is a thermometer.
LEMMA PassInv ==
    ASSUME TypeOK, TurnInv, UNCHANGED sensors, at \in 1..Len(sensors), at' = at + 1,
           pc' # "sleep", NEW reading, Len(read) \in Nat,
           read' = IF at \in Thermometers THEN Append(read, reading) ELSE read,
           reading.device = sensors[at]
    PROVE  TurnInv'
<1>1. PICK sweeps \in 0..Len(read) :
         Len(read) = sweeps * Cardinality(Thermometers) + ThermometersTo(at - 1)
  BY DEF TurnInv, SweepsBefore
<1> DEFINE n == Cardinality(Thermometers)
<1>2. /\ n \in Nat /\ ThermometersTo(at - 1) \in Nat /\ at \in Nat
      /\ ThermometersTo(at) = IF at \in Thermometers THEN ThermometersTo(at - 1) + 1
                              ELSE ThermometersTo(at - 1)
  <2>1. at - 1 \in Nat /\ at \in Nat
    OBVIOUS
  <2> QED
    BY <2>1, ThermometersFinite, ThermometersStep
<1>3. /\ Thermometers' = Thermometers
      /\ \A k : ThermometersTo(k)' = ThermometersTo(k)
  BY DEF Thermometers, ThermometersTo
<1>4. Swept'
  BY DEF Swept
<1>5. at' - 1 = at
  BY <1>2
<1>6. sweeps * n \in Nat
  BY <1>1, <1>2
<1>7. CASE at \notin Thermometers
  <2>1. read' = read /\ ThermometersTo(at) = ThermometersTo(at - 1)
    BY <1>2, <1>7
  <2>2. SweepsBefore'
    BY <1>1, <1>3, <1>5, <2>1 DEF SweepsBefore
  <2>3. InTurn'
    BY <1>3, <2>1 DEF TurnInv, InTurn
  <2> QED
    BY <1>4, <2>2, <2>3 DEF TurnInv
<1>8. CASE at \in Thermometers
  <2>1. /\ read' = Append(read, reading)
        /\ Len(read') = Len(read) + 1
        /\ read'[Len(read) + 1] = reading
        /\ \A k \in 1..Len(read) : read'[k] = read[k]
    BY <1>8 DEF TypeOK
  <2>2. Len(read') = sweeps * n + ThermometersTo(at)
    BY <1>1, <1>2, <1>6, <1>8, <2>1
  <2>3. sweeps \in 0..Len(read')
    BY <2>1
  <2>4. SweepsBefore'
    BY <1>3, <1>5, <2>2, <2>3 DEF SweepsBefore
  <2>5. InTurn'
    <3> SUFFICES ASSUME NEW k \in 1..Len(read')
                 PROVE  \E i \in Thermometers, s \in 0..k :
                           read'[k].device = sensors[i] /\ k = s * n + ThermometersTo(i)
      BY <1>3 DEF InTurn
    <3>1. CASE k \in 1..Len(read)
      BY <2>1, <3>1 DEF TurnInv, InTurn
    <3>2. CASE k = Len(read) + 1
      BY <1>8, <2>1, <2>2, <2>3, <3>2
    <3> QED
      BY <2>1, <3>1, <3>2
  <2> QED
    BY <1>4, <2>4, <2>5 DEF TurnInv
<1> QED
  BY <1>7, <1>8

\* Steps that move no iterator and read nothing.
LEMMA StillInv ==
    ASSUME TurnInv, UNCHANGED <<sensors, at, read>>, pc' = "sleep" => pc = "sleep" \/ at > Len(sensors),
           TypeOK
    PROVE  TurnInv'
<1>1. /\ Thermometers' = Thermometers
      /\ \A k : ThermometersTo(k)' = ThermometersTo(k)
  BY DEF Thermometers, ThermometersTo
<1>2. SweepsBefore' /\ InTurn'
  BY <1>1 DEF TurnInv, SweepsBefore, InTurn
<1>3. Swept'
  <2>1. at \in 1..(Len(sensors) + 1) /\ Len(sensors) \in Nat
    BY DEF TypeOK
  <2> QED
    BY <2>1 DEF TurnInv, Swept
<1> QED
  BY <1>2, <1>3 DEF TurnInv

LEMMA TurnNext == IInv /\ TurnInv /\ [Next]_vars => TurnInv'
<1> SUFFICES ASSUME IInv, TurnInv, [Next]_vars PROVE TurnInv'
  OBVIOUS
<1> USE DEF databaseVars
<1>1. TypeOK /\ Len(sensors) \in Nat /\ Len(read) \in Nat
  BY DEF IInv, TypeOK
<1>2. CASE Scan
  <2>1. read' = <<>> /\ at' = 1 /\ pc' = "open" /\ sensors' \in Seq(Entries)
    BY <1>2, OnewireAssumption DEF Scan, IInv, NothingBefore
  <2>2. ThermometersTo(0)' = 0 /\ Cardinality(Thermometers)' \in Nat
    <3>1. Len(sensors') \in Nat
      BY <2>1
    <3>2. Thermometers' \in SUBSET (1..Len(sensors'))
      BY DEF Thermometers
    <3>3. /\ Cardinality(Thermometers') \in Nat
          /\ Cardinality({i \in Thermometers' : i <= 0}) = 0
      BY <3>1, <3>2, NoneBefore
    <3> QED
      BY <3>3 DEF ThermometersTo
  <2> QED
    BY <2>1, <2>2 DEF TurnInv, SweepsBefore, Swept, InTurn
<1>3. CASE HandlerStarts
  BY <1>1, <1>3, StillInv DEF HandlerStarts
<1>4. CASE \E content \in Contents : PollTemperature(content)
  <2>1. PICK content \in Contents : PollTemperature(content)
    BY <1>4
  <2> DEFINE reading == [device |-> sensors[at], crc |-> content.crc, text |-> content.text]
  <2>2. /\ at \in Thermometers /\ at \in 1..Len(sensors)
        /\ read' = Append(read, reading)
        /\ at' = at + 1 /\ pc' = "poll" /\ UNCHANGED sensors
    BY <1>1, <2>1 DEF PollTemperature, Polls, NextSensor, Thermometers, TypeOK
  <2>3. reading.device = sensors[at]
    OBVIOUS
  <2> HIDE DEF reading
  <2> QED
    BY <1>1, <2>2, <2>3, PassInv
<1>5. CASE \E content \in Contents \cup {Missing} : TemperatureThrows(content)
  BY <1>1, <1>5, StillInv DEF TemperatureThrows
<1>6. CASE PollBattery
  BY <1>1, <1>6, StillInv DEF PollBattery
<1>7. CASE SkipSensor
  <2> DEFINE reading == [device |-> sensors[at]]
  <2>1. /\ at \notin Thermometers /\ at \in 1..Len(sensors)
        /\ read' = read
        /\ at' = at + 1 /\ pc' = "poll" /\ UNCHANGED sensors
    BY <1>1, <1>7 DEF SkipSensor, Polls, NextSensor, Thermometers, TypeOK
  <2>2. reading.device = sensors[at]
    OBVIOUS
  <2> HIDE DEF reading
  <2> QED
    BY <1>1, <2>1, <2>2, PassInv
<1>8. CASE Sleep
  BY <1>1, <1>8, StillInv DEF Sleep
<1>9. CASE Wake
  <2>1. /\ at = Len(sensors) + 1 /\ at' = 1 /\ pc' = "poll" /\ UNCHANGED <<sensors, read>>
    BY <1>9 DEF Wake, FirstSensor, TurnInv, Swept
  <2>2. /\ ThermometersTo(0) = 0
        /\ ThermometersTo(Len(sensors)) = Cardinality(Thermometers)
        /\ Cardinality(Thermometers) \in Nat
    BY <1>1, ThermometersFinite, ThermometersEnds
  <2>3. PICK sweeps \in 0..Len(read) :
           Len(read) = sweeps * Cardinality(Thermometers) + Cardinality(Thermometers)
    <3>1. at - 1 = Len(sensors)
      BY <1>1, <2>1
    <3> QED
      BY <2>2, <3>1 DEF TurnInv, SweepsBefore
  <2>4. \E more \in 0..Len(read) : Len(read) = more * Cardinality(Thermometers) + 0
    <3> DEFINE n == Cardinality(Thermometers)
               all == Len(read)
    <3>1. n \in Nat /\ sweeps \in Nat /\ all \in Nat /\ all = sweeps * n + n /\ sweeps <= all
      BY <1>1, <2>2, <2>3
    <3> HIDE DEF n, all
    <3>2. \E more \in 0..all : all = more * n + 0
      BY <3>1, SweepMore
    <3> QED
      BY <3>2 DEF n, all
  <2>5. /\ Thermometers' = Thermometers
        /\ \A k : ThermometersTo(k)' = ThermometersTo(k)
    BY <2>1 DEF Thermometers, ThermometersTo
  <2>6. at' - 1 = 0
    BY <2>1
  <2>7. SweepsBefore'
    BY <2>1, <2>2, <2>4, <2>5, <2>6 DEF SweepsBefore
  <2>8. InTurn' /\ Swept'
    BY <2>1, <2>5 DEF TurnInv, InTurn, Swept
  <2> QED
    BY <2>7, <2>8 DEF TurnInv
<1>10. CASE ServerGoes
  BY <1>1, <1>10, StillInv DEF ServerGoes, daemonVars
<1>11. CASE UNCHANGED vars
  BY <1>1, <1>11, StillInv DEF vars, daemonVars
<1> QED
  BY <1>2, <1>3, <1>4, <1>5, <1>6, <1>7, <1>8, <1>9, <1>10, <1>11 DEF Next, Handler

\* Over all sweeps of onewire_handler each thermometer is read in its turn,
\* whatever devices of other families are among them and however often the
\* handler sleeps (onewire_handler's two loops).
THEOREM ReadInTurn == Spec => []InTurn
<1>1. Init => TurnInv
  <2> SUFFICES ASSUME Init PROVE TurnInv
    OBVIOUS
  <2>1. TypeOK
    BY InitInv DEF IInv
  <2>2. ThermometersTo(0) = 0 /\ Cardinality(Thermometers) \in Nat
    BY <2>1, ThermometersFinite, ThermometersEnds
  <2> QED
    BY <2>2 DEF Init, TurnInv, SweepsBefore, Swept, InTurn
<1>2. TurnInv => InTurn
  BY DEF TurnInv
<1> QED
  BY <1>1, <1>2, InitInv, NextInv, TurnNext, PTL DEF Spec

=============================================================================
