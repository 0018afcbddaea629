------------------------------ MODULE Outback ------------------------------
(***************************************************************************)
(* The Outback driver, class outback in devices/outbackpower.cc: its main  *)
(* loop reads a packet from Serial (devices/serial.cc), parses it and      *)
(* hands a row to Database.                                                *)
(*                                                                         *)
(* A packet is 49 bytes, LF first and CR last.  Nothing in the driver      *)
(* looks for either: a read takes up to 49 bytes of whatever has arrived,  *)
(* Serial::Read drops LF and CR from it, and parse takes the fields from   *)
(* fixed offsets of what is left.  A read that starts or ends inside a     *)
(* packet, or a byte lost on the line, moves every field; this module is   *)
(* about what can then be stored.  Bytes are their ASCII codes.  The       *)
(* device is external, and is what doc/C/outback.xml says of it.           *)
(***************************************************************************)
EXTENDS MariaDB, SequencesExt

CONSTANTS
    Packets,        \* the packets the device may send, see PacketType
    ReadSizes,      \* the sizes a read() may have, up to PacketSize
    LossPositions,  \* where on the line a byte may be lost
    MaxLost,        \* bound on the bytes lost
    MaxPackets,     \* bound on the packets sent
    MaxLine,        \* bound on the bytes waiting in the tty's buffer
    MaxRows         \* bound on the rows made: the loop is followed no further

PacketSize == 49

LF == 10
CR == 13
Comma == 44
Zero == 48

Digit == Zero..(Zero + 9)
Address == Digit \cup 65..75     \* '0' to '9' and 'A' to 'K'

PacketType == [address : Address, charge : [1..2 -> Digit], pv_amps : [1..2 -> Digit],
               pv_volts : [1..3 -> Digit], kwh : [1..3 -> Digit],
               battery : [1..3 -> Digit], checksum : [1..3 -> Digit]]

ASSUME OutbackAssumption ==
    /\ Packets \subseteq PacketType
    /\ ReadSizes \subseteq 1..PacketSize
    /\ LossPositions \subseteq Nat
    /\ MaxLost \in Nat
    /\ MaxPackets \in Nat
    /\ MaxLine \in Nat
    /\ MaxRows \in Nat

VARIABLES
    pc,        \* "getc" | "read" | "again" (a second read) | "insert" | "ended" | "crashed"
    address,   \* _address
    type,      \* _type, "none" or "MX"
    values,    \* the readings parse has set
    dtr,       \* the DTR pin is high
    line,      \* bytes that have arrived and are not read yet
    sent,      \* packets sent so far
    lost,      \* bytes lost so far
    text,      \* `str': what readSerial returned
    exported   \* history: rows handed to queryInsert so far

driver == <<pc, address, type, values, text>>
device == <<dtr, line, sent, lost>>
vars == <<driver, device, exported, database>>

----------------------------------------------------------------------------
(* The packet.                                                             *)

Commas(fields) == FlattenSeq([i \in 1..Len(fields) |-> <<Comma>> \o fields[i]])
Zeros(n) == [i \in 1..n |-> Zero]

\* struct outback_mx: the address and the fields of a packet, in their order.
Body(p) ==
    <<p.address>> \o Commas(<<Zeros(2), p.charge, p.pv_amps, p.pv_volts, p.kwh, Zeros(2),
                              Zeros(2), Zeros(3), Zeros(2), p.battery, Zeros(3), Zeros(3),
                              p.checksum>>)

Frame(p) == <<LF>> \o Body(p) \o <<CR>>

----------------------------------------------------------------------------
(* Conversions.                                                            *)

\* The number that digits (of a base up to ten) stand for.
Number(digits, base) ==
    LET number[i \in 0..Len(digits)] ==
          IF i = 0 THEN 0 ELSE number[i - 1] * base + (digits[i] - Zero)
    IN number[Len(digits)]

\* The part of s before its first byte outside of a set.
Leading(s, set) ==
    LET n == CHOOSE n \in 0..Len(s) :
                /\ \A i \in 1..n : s[i] \in set
                /\ n < Len(s) => s[n + 1] \notin set
    IN SubSeq(s, 1, n)

\* strtol(s, NULL, 0): a zero in front makes it octal.
Strtol(s) ==
    IF s # <<>> /\ Head(s) = Zero
    THEN Number(Leading(s, Zero..(Zero + 7)), 8)
    ELSE Number(Leading(s, Digit), 10)

\* Mutant: the first byte is byte 1.
SubstrFromOne(s, at, n) == SubSeq(s, at, IF at + n <= Len(s) THEN at + n - 1 ELSE Len(s))

\* packet.substr(at, n), for a packet that is long enough
Substr(s, at, n) == SubSeq(s, at + 1, IF at + n < Len(s) THEN at + n ELSE Len(s))

\* What parse sets from a packet of an accepted address: the fields of an MX
\* charge controller, for _type is set to OUTBACK_MX whatever the address says.
Parse(s) ==
    [inverter_current |-> Strtol(Substr(s, 3, 2)),
     charge_current   |-> Strtol(Substr(s, 6, 2)),
     pv_current       |-> Strtol(Substr(s, 9, 2)),
     pv_input_voltage |-> Strtol(Substr(s, 13, 3)),
     daily_kwh        |-> Strtol(Substr(s, 16, 3)),
     battery_voltage  |-> Strtol(Substr(s, 33, 3))]

\* The last offset parse takes a substr from: it throws for a shorter string.
ChecksumAt == 45

\* packet[1], which is 0 for a string of one byte.
AddressOf(s) == IF Len(s) > 1 THEN s[2] ELSE 0

----------------------------------------------------------------------------
(* The main loop.                                                          *)

\* exportMeterData: the row of what the object holds now.  The fields of an
\* inverter are never set, so they stay at the 0 of the constructor.
ExportMeterData(a, t, v) ==
    [n            |-> exported + 1,
     unit         |-> IF t = "MX" THEN a - Zero ELSE a,
     charge_amps  |-> v.charge_current,
     ac_load_amps |-> v.inverter_current,
     battery      |-> v.battery_voltage,
     daily_kwh    |-> v.daily_kwh,
     pv_amps      |-> v.pv_current,
     pv_volts     |-> v.pv_input_voltage]

\* Serial::SetDTR, for the keys that call it.
SetDTR(key) == dtr' = CASE key = "d" -> FALSE [] key = "D" -> TRUE [] OTHER -> dtr

\* con.Getc(): 'q' ends the loop, 'd' and 'D' lower and raise DTR, and any
\* other key, or none, goes on to the read.
Getc(key) ==
    /\ pc = "getc"
    /\ exported < MaxRows
    /\ pc' = IF key = "q" THEN "ended" ELSE "read"
    /\ SetDTR(key)
    /\ UNCHANGED <<address, type, values, line, sent, lost, text, exported, database>>

\* select() finds nothing to read for two seconds.
ReadTimeout ==
    /\ pc \in {"read", "again"}
    /\ line = <<>>
    /\ pc' = "getc"
    /\ UNCHANGED <<address, type, values, text, device, exported, database>>

\* What is left of n bytes when LF and CR are filtered out.
Filtered(n) ==
    LET kept[i \in 0..n] ==
          IF i = 0 THEN <<>>
          ELSE IF line[i] \in {LF, CR} THEN kept[i - 1] ELSE Append(kept[i - 1], line[i])
    IN kept[n]

Take(n) ==
    /\ pc \in {"read", "again"}
    /\ n <= Len(line)
    /\ line' = SubSeq(line, n + 1, Len(line))
    /\ UNCHANGED <<dtr, sent, lost>>

\* Nothing but LF and CR was read: Serial::Read tries once more.
ReadNothing(n) ==
    /\ Take(n)
    /\ Filtered(n) = <<>>
    /\ pc' = IF pc = "read" THEN "again" ELSE "getc"
    /\ UNCHANGED <<address, type, values, text, exported, database>>

\* parse refuses the address: _address is set, the readings are not.
Refused(s) ==
    /\ AddressOf(s) \notin Address
    /\ UNCHANGED <<type, values>>

\* parse accepts the address of a packet that is long enough for it.
Accepted(s) ==
    /\ AddressOf(s) \in Address
    /\ Len(s) >= ChecksumAt
    /\ type' = "MX"
    /\ values' = Parse(s)

\* readSerial, calcChecksum, parse, exportMeterData, queryInsert: the verdict
\* of the checksum and the result of parse are dropped.
ReadPacket(n) ==
    /\ Take(n)
    /\ Filtered(n) # <<>>
    /\ text' = Filtered(n)
    /\ address' = AddressOf(text')
    /\ Refused(text') \/ Accepted(text')
    /\ QueryInsert(ExportMeterData(address', type', values'))
    /\ exported' = exported + 1
    /\ pc' = "insert"
    /\ UNCHANGED <<connected, table, breaks>>

\* substr throws for a packet that is too short, and nobody catches it.
ReadShort(n) ==
    /\ Take(n)
    /\ AddressOf(Filtered(n)) \in Address
    /\ Len(Filtered(n)) < ChecksumAt
    /\ text' = Filtered(n)
    /\ address' = AddressOf(text')
    /\ pc' = "crashed"
    /\ UNCHANGED <<type, values, exported, database>>

\* queryInsert has returned; what it returned is not looked at, and `str' is erased.
Inserted ==
    /\ pc = "insert"
    /\ query = <<>>
    /\ pc' = "getc"
    /\ text' = <<>>
    /\ UNCHANGED <<address, type, values, device, exported, database>>

----------------------------------------------------------------------------
(* The device and the line.                                                *)

\* "For data to flow, the DTR pin must be held HIGH"
Send(p) ==
    /\ dtr
    /\ sent < MaxPackets
    /\ Len(line) + PacketSize <= MaxLine
    /\ sent' = sent + 1
    /\ line' = line \o Frame(p)
    /\ UNCHANGED <<driver, dtr, lost, exported, database>>

LoseByte(i) ==
    /\ lost < MaxLost
    /\ i \in 1..Len(line)
    /\ lost' = lost + 1
    /\ line' = RemoveAt(line, i)
    /\ UNCHANGED <<driver, dtr, sent, exported, database>>

----------------------------------------------------------------------------
NoValues ==
    [inverter_current |-> 0, charge_current |-> 0, pv_current |-> 0,
     pv_input_voltage |-> 0, daily_kwh |-> 0, battery_voltage |-> 0]

\* The constructor and commInit, which raises DTR.
Init ==
    /\ pc = "getc"
    /\ address = 120    \* 'x'
    /\ type = "none"
    /\ values = NoValues
    /\ dtr = TRUE
    /\ line = <<>>
    /\ sent = 0
    /\ lost = 0
    /\ text = <<>>
    /\ exported = 0
    /\ DatabaseInit

Read ==
    \/ ReadTimeout
    \/ \E n \in ReadSizes : ReadNothing(n) \/ ReadPacket(n) \/ ReadShort(n)

InsertStep == DatabaseStep /\ UNCHANGED <<driver, device, exported>>

HostStep ==
    \/ \E key \in {"none", "d", "D", "q"} : Getc(key)
    \/ Read
    \/ InsertStep
    \/ Inserted

Next ==
    \/ HostStep
    \/ \E p \in Packets : Send(p)
    \/ \E i \in LossPositions : LoseByte(i)
    \/ Break /\ UNCHANGED <<driver, device, exported>>

Spec == Init /\ [][Next]_vars

\* The loop runs; select() has a timeout, and the client library returns.
FairSpec == Spec /\ WF_vars(HostStep)

----------------------------------------------------------------------------
\* The ranges are those of two and three digits, which no text however badly
\* cut may exceed (the substr calls of parse).
TypeOK ==
    /\ pc \in {"getc", "read", "again", "insert", "ended", "crashed"}
    /\ address \in 0..127
    /\ type \in {"none", "MX"}
    /\ values \in [inverter_current : 0..99, charge_current : 0..99, pv_current : 0..99,
                   pv_input_voltage : 0..999, daily_kwh : 0..999, battery_voltage : 0..999]
    /\ dtr \in BOOLEAN
    /\ line \in Seq(0..127)
    /\ sent \in Nat
    /\ lost \in Nat
    /\ text \in Seq(0..127)
    /\ exported \in Nat
    /\ Len(query) <= 1
    /\ retries \in 0..QueryTries
    /\ connected \in BOOLEAN
    /\ breaks \in Nat

\* The text has one byte in front of the packet p and all of p's fields where
\* parse looks for them.
AlignedWith(s, p) ==
    /\ Len(s) >= ChecksumAt
    /\ IsPrefix(Tail(s), Body(p))

\* A converted value is the field's own number, or, for a field that starts
\* with a zero and is read as octal, at most that.
OwnValue(value, digits) ==
    IF digits[1] = Zero THEN value <= Number(digits, 10) ELSE value = Number(digits, 10)

\* When the bytes line up with a packet, the row that is inserted has that
\* packet's readings, each from its own field (parse and exportMeterData).
\* The photovoltaic voltage is read one byte late: its last two digits are its
\* own.  Nothing is said of the unit: exportMeterData takes '0' from the address
\* of an MX, and doc/C/outback.xml:152 numbers the units from 'A'.
AlignedRowIsOwn ==
    query # <<>> =>
        \A p \in Packets :
            AlignedWith(text, p) =>
                LET row == Head(query) IN
                /\ row.ac_load_amps = 0
                /\ OwnValue(row.charge_amps, p.charge)
                /\ OwnValue(row.pv_volts, Tail(p.pv_volts))
                /\ OwnValue(row.pv_amps, p.pv_amps)
                /\ OwnValue(row.daily_kwh, p.kwh)
                /\ OwnValue(row.battery, p.battery)

\* Rows are stored in the order of the packets, and a row is there twice only
\* if the connection broke (queryInsert's retry).
RowsInOrder ==
    /\ \A i, j \in 1..Len(table) : i <= j => table[i].n <= table[j].n
    /\ Len(table) <= exported + breaks

\* Whatever arrives and however the database fares, the loop comes back to
\* the user's keys, until it ends (Serial::Read, Database::queryInsert).
LoopGoesOn == []<>(pc \in {"getc", "ended", "crashed"})

\* A whole packet that is read in one piece is accepted (readSerial, parse).
WholePacketAccepted ==
    query # <<>> /\ (\E p \in Packets : text = Body(p)) => address \in Address
=============================================================================
