------------------------------- MODULE Ownet -------------------------------
(***************************************************************************)
(* The 1-Wire sensors behind an owserver: the class Ownet                  *)
(* (devices/ownet.cc), whose constructor connects to the server and scans  *)
(* its devices, and the thread ownet_handler (daemon/threads.cc) that then *)
(* polls them and inserts what it reads into the database.                 *)
(*                                                                         *)
(* The owserver is external.  It may refuse a connection, and any single   *)
(* OW_get may fail: a sensor is unplugged, the bus is noisy.  getValue     *)
(* answers a failure with whatever its result string held before, so what  *)
(* the model keeps of a value is the file it was read from.                *)
(***************************************************************************)
EXTENDS Integers, Sequences

CONSTANTS
    Devices,        \* the device directories of the owserver
    Family,         \* device -> type its family code stands for
    MaxRetries      \* attempts to connect (3)

Types == {"TEMPERATURE", "BATTERY", "UNSUPPORTED"}

ASSUME OwnetAssumption ==
    /\ Family \in [Devices -> Types]
    /\ MaxRetries \in Nat \ {0}

\* The files read of a sensor, in order.
Files(type) ==
    CASE type = "TEMPERATURE" -> <<"temperature", "templow", "temphigh">>
      [] type = "BATTERY" -> <<"current", "volts">>
      [] type = "UNSUPPORTED" -> <<>>

FileNames == {"family", "id", "alias", "temperature", "templow", "temphigh",
              "current", "volts"}

\* A value is known by the file it came from.
Value == Devices \X FileNames
Empty == <<>>
Zero == <<"zero">>

VARIABLES
    pc,        \* where the constructor or the handler is
    retries,   \* the counter of the connection loop
    owserver,  \* _owserver
    sensors,   \* _sensors: the devices found by the scan, with their type
    todo,      \* the devices this pass has still to visit
    device,    \* the device being visited
    file,      \* how many of its files have been read
    result,    \* the string getValue leaves its answer in
    fields,    \* the values read for the record being filled
    row        \* the last row given to queryInsert, which loses it without a word
               \* when the database is gone

bus == <<todo, device, file, result, fields>>
vars == <<pc, retries, owserver, sensors, bus, row>>

NoRow == [device |-> Empty, values |-> <<>>]

----------------------------------------------------------------------------
(* The constructor: connecting.                                            *)

\* Mutant: the loop does not look at its counter.
ConnectForEver ==
    /\ pc = "connect"
    /\ retries' = retries - 1
    /\ \/ owserver' = TRUE /\ pc' = "connected"
       \/ owserver' = owserver /\ pc' = "connect"
    /\ UNCHANGED <<sensors, bus, row>>

\* while (retries-- > 0): an attempt to connect.
Connect ==
    /\ pc = "connect"
    /\ retries > 0
    /\ retries' = retries - 1
    /\ \/ owserver' = TRUE /\ pc' = "connected"
       \/ owserver' = owserver /\ pc' = "connect"
    /\ UNCHANGED <<sensors, bus, row>>

\* The loop condition decrements the counter once more when it ends the loop.
ConnectFails ==
    /\ pc = "connect"
    /\ retries = 0
    /\ retries' = retries - 1
    /\ pc' = "connected"
    /\ UNCHANGED <<owserver, sensors, bus, row>>

\* if (retries <= 0): give up, before anything is scanned.
GiveUp ==
    /\ pc = "connected"
    /\ retries <= 0
    /\ pc' = "handler"
    /\ UNCHANGED <<retries, owserver, sensors, bus, row>>

\* The listing of the root directory, which may fail like any other OW_get.
ListRoot ==
    /\ pc = "connected"
    /\ retries > 0
    /\ todo' \in {Devices, {}}
    /\ pc' = "scan"
    /\ UNCHANGED <<retries, owserver, sensors, device, file, result, fields, row>>

----------------------------------------------------------------------------
(* getValue, and the scan of the devices.                                  *)

\* getValue(device, name, result)
GetValue(name) == result' \in {<<device, name>>, result}

\* The next directory of the listing; result is a new, empty string.
ScanDevice(d) ==
    /\ pc = "scan"
    /\ d \in todo
    /\ todo' = todo \ {d}
    /\ device' = d
    /\ result' = Empty
    /\ pc' = "family"
    /\ UNCHANGED <<retries, owserver, sensors, file, fields, row>>

ScanDone ==
    /\ pc = "scan"
    /\ todo = {}
    /\ pc' = "handler"
    /\ UNCHANGED <<retries, owserver, sensors, bus, row>>

\* A directory without a family is not a sensor.
ReadFamily ==
    /\ pc = "family"
    /\ GetValue("family")
    /\ pc' = IF result' = Empty THEN "scan" ELSE "id"
    /\ UNCHANGED <<retries, owserver, sensors, todo, device, file, fields, row>>

\* id and alias (either may repeat what was read before), then the sensor is
\* entered and read once through getTemperature or getBattery, which use a
\* result string of their own.
ReadIdAndAlias ==
    /\ pc = "id"
    /\ sensors' = [d \in DOMAIN sensors \cup {device} |-> Family[d]]
    /\ result' = Empty
    /\ fields' = <<>>
    /\ file' = 0
    /\ pc' = IF Family[device] = "UNSUPPORTED" THEN "scan" ELSE "probe"
    /\ UNCHANGED <<retries, owserver, todo, device, row>>

----------------------------------------------------------------------------
(* getTemperature and getBattery: in the scan ("probe") and when polling   *)
(* ("read").                                                               *)

Reading == pc \in {"probe", "read"}
Wanted == Files(sensors[device])

\* Mutant: a field that cannot be read is zeroed, and the others are kept.
ReadFieldAlone ==
    /\ Reading
    /\ file < Len(Wanted)
    /\ GetValue(Wanted[file + 1])
    /\ fields' = Append(fields, IF result' = Empty THEN Zero ELSE result')
    /\ file' = file + 1
    /\ UNCHANGED <<pc, retries, owserver, sensors, todo, device, row>>

\* One field: getValue and std::stof, which throws when there is no text.  The
\* thermometer's record is then zeroed; nobody catches it for a battery.
ReadField ==
    /\ Reading
    /\ file < Len(Wanted)
    /\ GetValue(Wanted[file + 1])
    /\ \/ /\ result' # Empty
          /\ fields' = Append(fields, result')
          /\ file' = file + 1
          /\ pc' = pc
       \/ /\ result' = Empty
          /\ sensors[device] = "TEMPERATURE"
          /\ fields' = <<Zero, Zero, Zero>>
          /\ file' = Len(Wanted)
          /\ pc' = pc
       \/ /\ result' = Empty
          /\ sensors[device] = "BATTERY"
          /\ pc' = "crashed"
          /\ UNCHANGED <<fields, file>>
    /\ UNCHANGED <<retries, owserver, sensors, todo, device, row>>

\* The scale, read for a thermometer into a pointer nobody initialised: when
\* that fails, what the pointer leads to is read, if it can be.
ReadScaleFails ==
    /\ Reading
    /\ file = Len(Wanted)
    /\ sensors[device] = "TEMPERATURE"
    /\ pc' = "crashed"
    /\ UNCHANGED <<retries, owserver, sensors, bus, row>>

\* The constructor drops the record; the handler inserts it.
Probed ==
    /\ pc = "probe"
    /\ file = Len(Wanted)
    /\ pc' = "scan"
    /\ UNCHANGED <<retries, owserver, sensors, bus, row>>

Insert ==
    /\ pc = "read"
    /\ file = Len(Wanted)
    /\ row' = [device |-> device, values |-> fields]
    /\ pc' = "poll"
    /\ UNCHANGED <<retries, owserver, sensors, bus>>

----------------------------------------------------------------------------
(* ownet_handler.                                                          *)

\* Without a connection the thread ends.  (It would without a database too, but
\* openDB of lib/postgresql.cc reports success whether it has one or not.)
HandlerStarts ==
    /\ pc = "handler"
    /\ pc' = IF owserver THEN "sleep" ELSE "ended"
    /\ UNCHANGED <<retries, owserver, sensors, bus, row>>

\* Mutant: the iterator is not set back to the first sensor.
StartPassUnset ==
    /\ pc = "sleep"
    /\ todo' = todo
    /\ pc' = "poll"
    /\ UNCHANGED <<retries, owserver, sensors, device, file, result, fields, row>>

\* A pass over the sensors found by the scan.
StartPass ==
    /\ pc = "sleep"
    /\ todo' = DOMAIN sensors
    /\ pc' = "poll"
    /\ UNCHANGED <<retries, owserver, sensors, device, file, result, fields, row>>

\* Mutant: one result string serves all sensors.
PollDeviceSharedResult(d) ==
    /\ pc = "poll"
    /\ d \in todo
    /\ todo' = todo \ {d}
    /\ device' = d
    /\ file' = 0
    /\ fields' = <<>>
    /\ pc' = IF sensors[d] = "UNSUPPORTED" THEN "poll" ELSE "read"
    /\ UNCHANGED <<retries, owserver, sensors, result, row>>

PollDevice(d) ==
    /\ pc = "poll"
    /\ d \in todo
    /\ todo' = todo \ {d}
    /\ device' = d
    /\ file' = 0
    /\ fields' = <<>>
    /\ result' = Empty
    /\ pc' = IF sensors[d] = "UNSUPPORTED" THEN "poll" ELSE "read"
    /\ UNCHANGED <<retries, owserver, sensors, row>>

EndPass ==
    /\ pc = "poll"
    /\ todo = {}
    /\ pc' = "sleep"
    /\ UNCHANGED <<retries, owserver, sensors, bus, row>>

----------------------------------------------------------------------------
Init ==
    /\ pc = "connect"
    /\ retries = MaxRetries
    /\ owserver = FALSE
    /\ sensors = <<>>
    /\ todo = {}
    /\ device = Empty
    /\ file = 0
    /\ result = Empty
    /\ fields = <<>>
    /\ row = NoRow

Next ==
    \/ Connect \/ ConnectFails \/ GiveUp \/ ListRoot
    \/ \E d \in Devices : ScanDevice(d)
    \/ ScanDone \/ ReadFamily \/ ReadIdAndAlias
    \/ ReadField \/ ReadScaleFails \/ Probed \/ Insert
    \/ HandlerStarts \/ StartPass
    \/ \E d \in Devices : PollDevice(d)
    \/ EndPass

Spec == Init /\ [][Next]_vars

\* The thread runs; OW_init and OW_get always return.
FairSpec == Spec /\ WF_vars(Next)

----------------------------------------------------------------------------
TypeOK ==
    /\ pc \in {"connect", "connected", "scan", "family", "id", "probe", "handler",
               "sleep", "poll", "read", "ended", "crashed"}
    /\ retries \in -1..MaxRetries
    /\ owserver \in BOOLEAN
    /\ DOMAIN sensors \subseteq Devices
    /\ \A d \in DOMAIN sensors : sensors[d] = Family[d]
    /\ todo \subseteq Devices
    /\ device \in Devices \cup {Empty}
    /\ file \in 0..3
    /\ result \in Value \cup {Empty}
    /\ fields \in Seq(Value \cup {Zero})
    /\ row \in [device : Devices \cup {Empty}, values : Seq(Value \cup {Zero})]

\* However many reads fail, a row holds values of its own device only: the
\* stale text getValue hands out is never another sensor's (getTemperature,
\* getBattery, ownet_handler).
RowOfOneDevice ==
    \A k \in DOMAIN row.values :
        row.values[k] = Zero \/ row.values[k][1] = row.device

\* A row is complete, and all zeros or none: a failing read never leaves a
\* record half filled in.
RowComplete ==
    row # NoRow =>
        /\ Len(row.values) = Len(Files(Family[row.device]))
        /\ (\E k \in DOMAIN row.values : row.values[k] = Zero)
              => \A k \in DOMAIN row.values : row.values[k] = Zero

\* As long as pgd lives and polls, it comes back to every sensor it found.
EverySensorPolled ==
    \A d \in Devices :
        []<>(pc \in {"poll", "sleep", "read"} /\ d \in DOMAIN sensors
                => device = d)

=============================================================================
