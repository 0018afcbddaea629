------------------------------ MODULE Onewire -------------------------------
(***************************************************************************)
(* Class Onewire of devices/onewire.cc, which reads the kernel's 1-Wire    *)
(* files, and onewire_handler of daemon/threads.cc, which stores what they *)
(* say with PostgreSQL.                                                    *)
(*                                                                         *)
(* A thermometer's file has two lines: the bytes read from the sensor and  *)
(* YES or NO for their checksum, then the bytes and the temperature.       *)
(* getTemperature takes the text from index 69 on, where the temperature   *)
(* begins if the first line ends with YES; with NO everything is one       *)
(* character further to the front.  A file that cannot be read gives an    *)
(* empty text, for which substr throws; nothing catches it, and pgd ends.  *)
(***************************************************************************)
EXTENDS PostgreSQL, Integers, FiniteSets

CONSTANTS
    Entries,      \* names of devices, such as 28-0316a4d6aaff
    Directories,  \* what /sys/bus/w1/devices may hold at start, in the map's order
    Family,       \* device -> its family, the first two characters of its name
    Texts,        \* the temperatures a file may show, as sequences of characters
    MaxReads      \* bound: temperatures read

Digits == {"-", "0", "1", "2"}

ASSUME OnewireAssumption ==
    /\ Directories \subseteq Seq(Entries)
    /\ Family \in [Entries -> STRING]
    /\ Texts \subseteq Seq(Digits)
    /\ MaxReads \in Nat

\* The type initTable gives a family; the kernel's names are in lower case and
\* the table's in upper case, so a family with a letter is none of them.
TypeOf(device) ==
    CASE Family[device] \in {"10", "22", "28"} -> "TEMPERATURE"
      [] Family[device] \in {"30", "32", "35", "31", "26", "51"} -> "BATTERY"
      [] OTHER -> "OTHER"

\* What a thermometer's file holds, and what a read that fails returns.
Contents == [crc : BOOLEAN, text : Texts]
Missing == [crc |-> TRUE, text |-> <<>>]

VARIABLES
    mounted,   \* _mounted
    sensors,   \* _sensors, in order
    pc,        \* "scan" | "open" | "poll" | "sleep" | "returned" | "ended"
    at,        \* the handler's iterator: index of the next sensor
    read,      \* history: the temperatures read, [device, crc, text]
    from       \* history: the reading each row of the table was stored for

daemonVars == <<mounted, sensors, pc, at, read, from>>
databaseVars == <<connection, table>>
vars == <<daemonVars, databaseVars>>

----------------------------------------------------------------------------
\* The constructor.  As long as _mounted is false getValue returns its empty
\* argument, so none of the entries of /mnt/1wire has a family; of the kernel's
\* directory every entry becomes a sensor.  setValue then writes to a path
\* that does not exist.
Scan ==
    /\ pc = "scan"
    /\ sensors' \in Directories
    /\ mounted' = (sensors' # <<>>)
    /\ pc' = "open"
    /\ UNCHANGED <<at, read, from, databaseVars>>

\* onewire_handler starts, or returns for good.
HandlerStarts ==
    /\ pc = "open"
    /\ IF mounted THEN OpenDB /\ pc' = "poll" ELSE pc' = "returned" /\ UNCHANGED databaseVars
    /\ UNCHANGED <<mounted, sensors, at, read, from>>

\* What std::stof makes of the rest of the file's text: it throws without a
\* digit.
StofThrows(text) == \A i \in 1..Len(text) : text[i] = "-"

\* Mutant: one character more to the back.
FromPosition70(content) == SubSeq(content.text, 2, Len(content.text))

\* result.substr(69, ...): after NO the first character is missing.
FromPosition69(content) == IF content.crc THEN content.text ELSE Tail(content.text)

Row(device, content) == [id |-> device, temp |-> FromPosition69(content)]

Polls(type) == pc = "poll" /\ at <= Len(sensors) /\ TypeOf(sensors[at]) = type

\* Mutant: the loop's `++' and one before its continue.
NextSensorTwice == at' = at + 2

NextSensor == at' = at + 1

\* getTemperature, formatQuery and queryInsert.
PollTemperature(content) ==
    /\ Polls("TEMPERATURE")
    /\ Len(read) < MaxReads
    /\ content.text # <<>>
    /\ ~StofThrows(FromPosition69(content))
    /\ read' = Append(read, [device |-> sensors[at], crc |-> content.crc, text |-> content.text])
    /\ QueryInsert(Row(sensors[at], content))
    /\ from' = IF table' = table THEN from ELSE Append(from, Len(read'))
    /\ NextSensor
    /\ UNCHANGED <<mounted, sensors, pc>>

\* The file is gone, empty or cut short: substr or stof throws.
TemperatureThrows(content) ==
    /\ Polls("TEMPERATURE")
    /\ content.text = <<>> \/ StofThrows(FromPosition69(content))
    /\ pc' = "ended"
    /\ UNCHANGED <<mounted, sensors, at, read, from, databaseVars>>

\* getBattery reads files only owfs has: stof of an empty text throws.
PollBattery ==
    /\ Polls("BATTERY")
    /\ pc' = "ended"
    /\ UNCHANGED <<mounted, sensors, at, read, from, databaseVars>>

SkipSensor ==
    /\ Polls("OTHER")
    /\ NextSensor
    /\ UNCHANGED <<mounted, sensors, pc, read, from, databaseVars>>

Sleep ==
    /\ pc = "poll"
    /\ at > Len(sensors)
    /\ pc' = "sleep"
    /\ UNCHANGED <<mounted, sensors, at, read, from, databaseVars>>

\* Mutant: the next sweep starts with the second sensor.
WakeAtSecond == 2

\* Where a sweep starts.
FirstSensor == 1

Wake ==
    /\ pc = "sleep"
    /\ at' = FirstSensor
    /\ pc' = "poll"
    /\ UNCHANGED <<mounted, sensors, read, from, databaseVars>>

\* The database's server goes away.
ServerGoes == LoseConnection /\ UNCHANGED daemonVars

----------------------------------------------------------------------------
Init ==
    /\ mounted = FALSE
    /\ sensors = <<>>
    /\ pc = "scan"
    /\ at = 1
    /\ read = <<>>
    /\ from = <<>>
    /\ DatabaseInit

Handler ==
    \/ Scan \/ HandlerStarts
    \/ \E content \in Contents : PollTemperature(content)
    \/ \E content \in Contents \cup {Missing} : TemperatureThrows(content)
    \/ PollBattery \/ SkipSensor \/ Sleep \/ Wake

Next == Handler \/ ServerGoes

Spec == Init /\ [][Next]_vars

----------------------------------------------------------------------------
Readings == [device : Entries, crc : BOOLEAN, text : Seq(Digits)]
Rows == [id : Entries, temp : Seq(Digits)]

TypeOK ==
    /\ mounted \in BOOLEAN
    /\ sensors \in Seq(Entries)
    /\ pc \in {"scan", "open", "poll", "sleep", "returned", "ended"}
    /\ at \in 1..(Len(sensors) + 1)
    /\ read \in Seq(Readings)
    /\ from \in Seq(Nat)
    /\ connection \in {"none", "ok", "bad"}
    /\ table \in Seq(Rows)

\* Whatever rows the server refuses and whatever becomes of the connection, the
\* table has temperatures that were read, in the order they were read in and
\* none twice, each as its own sensor's file showed it when the checksum held
\* (getTemperature, formatQuery, queryInsert). Some may be missing anywhere.
RowsAreReadings ==
    /\ Len(table) = Len(from)
    /\ \A i \in 1..Len(table) :
          /\ from[i] \in 1..Len(read)
          /\ \A k \in 1..(i - 1) : from[k] < from[i]
          /\ table[i].id = read[from[i]].device
          /\ read[from[i]].crc => table[i].temp = read[from[i]].text

Thermometers == {i \in 1..Len(sensors) : TypeOf(sensors[i]) = "TEMPERATURE"}

\* How many of the thermometers are among the first k sensors.
ThermometersTo(k) == Cardinality({i \in Thermometers : i <= k})

\* The thermometers are read in turn: over all sweeps none is left out, and
\* none read again before the others were (onewire_handler's two loops).
InTurn ==
    \A k \in 1..Len(read) : \E i \in Thermometers, sweeps \in 0..k :
        /\ read[k].device = sensors[i]
        /\ k = sweeps * Cardinality(Thermometers) + ThermometersTo(i)
=============================================================================
