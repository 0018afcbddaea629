---------------------------- MODULE Ownet_proofs ----------------------------
(***************************************************************************)
(* Proofs about Ownet, for any set of devices of any families and any      *)
(* number of attempts to connect.                                          *)
(***************************************************************************)
EXTENDS Ownet, TLAPS

\* The sensor being read was found by the scan.
DeviceKnown ==
    /\ pc \in {"family", "id", "probe", "read"} => device \in Devices
    /\ pc \in {"probe", "read"} => device \in DOMAIN sensors
    /\ pc \in {"poll", "read"} => todo \subseteq DOMAIN sensors

\* The text getValue may repeat is of the device being visited.
ResultOwn == result # Empty => result[1] = device

\* The record being filled: the values read so far, in order and of this
\* device, or a thermometer's record zeroed as a whole.
FieldsOwn ==
    Reading =>
        \/ /\ fields \in Seq(Value)
           /\ Len(fields) = file
           /\ file <= Len(Wanted)
           /\ \A k \in DOMAIN fields : fields[k][1] = device
        \/ /\ sensors[device] = "TEMPERATURE"
           /\ fields = <<Zero, Zero, Zero>>
           /\ file = 3

IInv == TypeOK /\ DeviceKnown /\ ResultOwn /\ FieldsOwn

\* The values of a sensor can be told from the marks for no text and for zero.
LEMMA MarksAreNoValues ==
    ASSUME NEW v \in Value
    PROVE  v # Empty /\ v # Zero
BY DEF Value, Empty, Zero

\* The files of each type.
LEMMA FilesType ==
    ASSUME NEW type \in Types
    PROVE  /\ Files(type) \in Seq(FileNames)
           /\ Len(Files(type)) \in 0..3
           /\ type = "TEMPERATURE" => Len(Files(type)) = 3
           /\ type = "UNSUPPORTED" => Len(Files(type)) = 0
<1>1. CASE type = "TEMPERATURE"
  BY <1>1 DEF Files, FileNames
<1>2. CASE type = "BATTERY"
  BY <1>2 DEF Files, FileNames
<1>3. CASE type = "UNSUPPORTED"
  BY <1>3 DEF Files, FileNames
<1> QED
  BY <1>1, <1>2, <1>3 DEF Types

LEMMA InitInv == Init => IInv
<1> SUFFICES ASSUME Init PROVE IInv
  OBVIOUS
<1>1. DOMAIN sensors = {}
  BY DEF Init
<1>2. row \in [device : Devices \cup {Empty}, values : Seq(Value \cup {Zero})]
  BY DEF Init, NoRow
<1>3. fields \in Seq(Value \cup {Zero})
  BY DEF Init
<1>4. retries \in -1..MaxRetries
  BY OwnetAssumption DEF Init
<1>5. /\ pc = "connect"
      /\ owserver \in BOOLEAN
      /\ todo = {}
      /\ device = Empty
      /\ file = 0
      /\ result = Empty
  BY DEF Init
<1>6. TypeOK
  BY <1>1, <1>2, <1>3, <1>4, <1>5 DEF TypeOK
<1> QED
  BY <1>5, <1>6 DEF IInv, DeviceKnown, ResultOwn, FieldsOwn, Reading

\* getValue's answer is of the device being visited, whatever happens.
LEMMA GetValueOwn ==
    ASSUME IInv, device \in Devices, NEW name \in FileNames, GetValue(name)
    PROVE  /\ result' \in Value \cup {Empty}
           /\ result' # Empty => result'[1] = device
BY DEF IInv, TypeOK, ResultOwn, GetValue, Value

\* The connection loop and the scan of the devices.
LEMMA ScanStep ==
    ASSUME IInv,
           \/ Connect \/ ConnectFails \/ GiveUp \/ ListRoot
           \/ \E d \in Devices : ScanDevice(d)
           \/ ScanDone \/ ReadFamily \/ ReadIdAndAlias
    PROVE  IInv'
<1> USE OwnetAssumption DEF IInv
<1>1. CASE Connect \/ ConnectFails \/ GiveUp \/ ListRoot \/ ScanDone
  <2>1. /\ UNCHANGED <<sensors, device, file, result, fields, row>>
        /\ todo' \subseteq Devices
        /\ retries' \in -1..MaxRetries
        /\ pc' \in {"connect", "connected", "scan", "handler"}
    <3>1. CASE Connect \/ ConnectFails
      BY <3>1 DEF Connect, ConnectFails, TypeOK, bus
    <3>2. CASE GiveUp \/ ScanDone
      BY <3>2 DEF GiveUp, ScanDone, TypeOK, bus
    <3>3. CASE ListRoot
      BY <3>3 DEF ListRoot, TypeOK
    <3> QED
      BY <1>1, <3>1, <3>2, <3>3
  <2>2. owserver' \in BOOLEAN
    BY <1>1, Zenon DEF Connect, ConnectFails, GiveUp, ListRoot, ScanDone, TypeOK
  <2>3. TypeOK'
    BY <2>1, <2>2 DEF TypeOK
  <2> QED
    BY <2>1, <2>3 DEF DeviceKnown, ResultOwn, FieldsOwn, Reading
<1>2. ASSUME NEW d \in Devices, ScanDevice(d)
      PROVE  IInv'
  BY <1>2 DEF ScanDevice, TypeOK, DeviceKnown, ResultOwn, FieldsOwn, Reading
<1>3. CASE ReadFamily
  <2>1. device \in Devices /\ GetValue("family")
    BY <1>3 DEF ReadFamily, DeviceKnown
  <2>2. /\ result' \in Value \cup {Empty}
        /\ result' # Empty => result'[1] = device
    BY <2>1, GetValueOwn DEF FileNames
  <2> QED
    BY <1>3, <2>1, <2>2 DEF ReadFamily, TypeOK, DeviceKnown, ResultOwn, FieldsOwn, Reading
<1>4. CASE ReadIdAndAlias
  <2>1. device \in Devices
    BY <1>4 DEF ReadIdAndAlias, DeviceKnown
  <2>2. Len(Files(Family[device])) >= 0
    BY <2>1, FilesType
  <2>3. pc' = "probe" => Wanted' = Files(Family[device])
    BY <1>4, <2>1 DEF ReadIdAndAlias, Wanted
  <2>4. TypeOK' /\ DeviceKnown' /\ ResultOwn'
    BY <1>4, <2>1 DEF ReadIdAndAlias, TypeOK, DeviceKnown, ResultOwn
  <2>5. FieldsOwn'
    BY <1>4, <2>2, <2>3 DEF ReadIdAndAlias, FieldsOwn, Reading
  <2> QED
    BY <2>4, <2>5
<1> QED
  BY <1>1, <1>2, <1>3, <1>4

\* getTemperature and getBattery.
LEMMA ReadFieldStep ==
    ASSUME IInv, ReadField
    PROVE  IInv'
<1> USE OwnetAssumption DEF IInv
<1>1. /\ device \in Devices
      /\ device \in DOMAIN sensors
      /\ sensors[device] = Family[device]
      /\ sensors[device] \in Types
  BY DEF ReadField, Reading, DeviceKnown, TypeOK
<1>2. /\ Wanted \in Seq(FileNames)
      /\ Len(Wanted) \in 0..3
      /\ sensors[device] = "TEMPERATURE" => Len(Wanted) = 3
  BY <1>1, FilesType DEF Wanted
<1>3. file \in Nat /\ file < Len(Wanted) /\ UNCHANGED Wanted
  BY DEF ReadField, Wanted, TypeOK
<1>4. Wanted[file + 1] \in FileNames
  BY <1>2, <1>3
<1>5. /\ result' \in Value \cup {Empty}
      /\ result' # Empty => result'[1] = device
  BY <1>1, <1>4, GetValueOwn DEF ReadField
<1>6. /\ fields \in Seq(Value)
      /\ Len(fields) = file
      /\ \A k \in DOMAIN fields : fields[k][1] = device
  BY <1>2, <1>3 DEF ReadField, FieldsOwn
<1>7. CASE result' # Empty /\ fields' = Append(fields, result')
                           /\ file' = file + 1 /\ pc' = pc
  <2>1. /\ fields' \in Seq(Value)
        /\ Len(fields') = file'
        /\ \A k \in DOMAIN fields' : fields'[k][1] = device
    BY <1>5, <1>6, <1>7
  <2>2. fields' \in Seq(Value \cup {Zero})
    BY <2>1
  <2>3. TypeOK'
    BY <1>2, <1>3, <1>5, <1>7, <2>2 DEF ReadField, TypeOK
  <2> QED
    BY <1>2, <1>3, <1>5, <1>7, <2>1, <2>3
       DEF ReadField, DeviceKnown, ResultOwn, FieldsOwn, Reading
<1>8. CASE /\ sensors[device] = "TEMPERATURE"
           /\ fields' = <<Zero, Zero, Zero>>
           /\ file' = Len(Wanted)
           /\ pc' = pc
  <2>1. fields' \in Seq(Value \cup {Zero})
    BY <1>8
  <2>2. TypeOK'
    BY <1>2, <1>5, <1>8, <2>1 DEF ReadField, TypeOK
  <2> QED
    BY <1>2, <1>5, <1>8, <2>2 DEF ReadField, DeviceKnown, ResultOwn, FieldsOwn, Reading
<1>9. CASE pc' = "crashed" /\ UNCHANGED <<fields, file>>
  BY <1>5, <1>9 DEF ReadField, TypeOK, DeviceKnown, ResultOwn, FieldsOwn, Reading
<1> QED
  BY <1>7, <1>8, <1>9 DEF ReadField

\* The rest of the readings, and the passes of ownet_handler.
LEMMA PollStep ==
    ASSUME IInv,
           \/ ReadScaleFails \/ Probed \/ Insert \/ HandlerStarts \/ StartPass
           \/ \E d \in Devices : PollDevice(d)
           \/ EndPass
    PROVE  IInv'
<1> USE OwnetAssumption DEF IInv
<1>1. CASE ReadScaleFails \/ Probed \/ HandlerStarts \/ StartPass \/ EndPass
  BY <1>1 DEF ReadScaleFails, Probed, HandlerStarts, StartPass, EndPass, TypeOK,
     DeviceKnown, ResultOwn, FieldsOwn, Reading, bus
<1>2. CASE Insert
  <2>1. row' \in [device : Devices \cup {Empty}, values : Seq(Value \cup {Zero})]
    BY <1>2 DEF Insert, TypeOK
  <2>2. TypeOK'
    BY <1>2, <2>1 DEF Insert, TypeOK, bus
  <2> QED
    BY <1>2, <2>2 DEF Insert, DeviceKnown, ResultOwn, FieldsOwn, Reading, bus
<1>3. ASSUME NEW d \in Devices, PollDevice(d)
      PROVE  IInv'
  <2>1. d \in DOMAIN sensors /\ sensors[d] = Family[d]
    BY <1>3 DEF PollDevice, DeviceKnown, TypeOK
  <2>2. Len(Files(Family[d])) >= 0
    BY <1>3, FilesType
  <2>3. Wanted' = Files(Family[d])
    BY <1>3, <2>1 DEF PollDevice, Wanted
  <2>4. TypeOK' /\ DeviceKnown' /\ ResultOwn'
    BY <1>3, <2>1 DEF PollDevice, TypeOK, DeviceKnown, ResultOwn
  <2>5. FieldsOwn'
    BY <1>3, <2>2, <2>3 DEF PollDevice, FieldsOwn, Reading
  <2> QED
    BY <2>4, <2>5
<1> QED
  BY <1>1, <1>2, <1>3

\* Every step of the constructor and of ownet_handler preserves the invariant.
LEMMA NextInv == IInv /\ [Next]_vars => IInv'
<1> SUFFICES ASSUME IInv, [Next]_vars PROVE IInv'
  OBVIOUS
<1>1. CASE UNCHANGED vars
  BY <1>1 DEF vars, bus, IInv, TypeOK, DeviceKnown, ResultOwn, FieldsOwn, Reading, Wanted
<1> QED
  BY <1>1, ScanStep, ReadFieldStep, PollStep DEF Next

LEMMA InvHolds == Spec => []IInv
BY InitInv, NextInv, PTL DEF Spec

----------------------------------------------------------------------------
\* Every variable keeps its type (Ownet::Ownet, getTemperature, getBattery,
\* ownet_handler).
THEOREM TypeCorrect == Spec => []TypeOK
BY InvHolds, PTL DEF IInv

\* What Insert may use: a complete record, its values this device's own.
LEMMA RecordDone ==
    ASSUME IInv, Insert
    PROVE  /\ row' = [device |-> device, values |-> fields]
           /\ device \in Devices
           /\ Len(fields) = Len(Files(Family[device]))
           /\ \/ \A k \in DOMAIN fields : fields[k] # Zero /\ fields[k][1] = device
              \/ \A k \in DOMAIN fields : fields[k] = Zero
<1>1. /\ row' = [device |-> device, values |-> fields]
      /\ device \in Devices
      /\ Wanted = Files(Family[device])
      /\ file = Len(Wanted)
      /\ sensors[device] = Family[device]
  BY DEF Insert, IInv, DeviceKnown, TypeOK, Wanted
<1>2. CASE /\ fields \in Seq(Value)
           /\ Len(fields) = file
           /\ \A k \in DOMAIN fields : fields[k][1] = device
  <2>1. ASSUME NEW k \in DOMAIN fields
        PROVE  fields[k] # Zero
    BY <1>2, <2>1, MarksAreNoValues
  <2> QED
    BY <1>1, <1>2, <2>1
<1>3. CASE fields = <<Zero, Zero, Zero>> /\ file = 3
  <2>1. Len(fields) = 3 /\ \A k \in DOMAIN fields : fields[k] = Zero
    BY <1>3
  <2> QED
    BY <1>1, <1>3, <2>1
<1> QED
  BY <1>2, <1>3 DEF Insert, Reading, IInv, FieldsOwn

\* Only Insert writes a row.
LEMMA OnlyInsertWritesRows ==
    ASSUME [Next]_vars, ~Insert
    PROVE  row' = row
BY DEF Next, vars, Connect, ConnectFails, GiveUp, ListRoot, ScanDevice, ScanDone,
   ReadFamily, ReadIdAndAlias, ReadField, ReadScaleFails, Probed, HandlerStarts,
   StartPass, PollDevice, EndPass

\* A row never holds another sensor's value, however many reads fail: the stale
\* text getValue hands out was cleared when the device changed.
THEOREM RowsAreOwn == Spec => []RowOfOneDevice
<1>1. Init => RowOfOneDevice
  BY DEF Init, NoRow, RowOfOneDevice
<1>2. ASSUME IInv, RowOfOneDevice, [Next]_vars
      PROVE  RowOfOneDevice'
  <2>1. CASE Insert
    BY <1>2, <2>1, RecordDone DEF RowOfOneDevice
  <2>2. CASE ~Insert
    BY <1>2, <2>2, OnlyInsertWritesRows DEF RowOfOneDevice
  <2> QED
    BY <2>1, <2>2
<1> QED
  BY <1>1, <1>2, InvHolds, PTL DEF Spec

\* A row has every column of its sensor's type, and zeros in all of them or in
\* none (getTemperature's catch, getBattery's lack of one).
THEOREM RowsAreComplete == Spec => []RowComplete
<1>1. Init => RowComplete
  BY DEF Init, RowComplete
<1>2. ASSUME IInv, RowComplete, [Next]_vars
      PROVE  RowComplete'
  <2>1. CASE Insert
    BY <1>2, <2>1, RecordDone DEF RowComplete
  <2>2. CASE ~Insert
    BY <1>2, <2>2, OnlyInsertWritesRows DEF RowComplete
  <2> QED
    BY <2>1, <2>2
<1> QED
  BY <1>1, <1>2, InvHolds, PTL DEF Spec
=============================================================================
