# Models of PowerGuru

PowerGuru watches and drives the devices of an off-grid power system: inverters
and charge controllers on serial lines, 1-Wire sensors behind an owserver or a
mounted file system. The daemon `pgd` polls them, stores rows in a database and
answers clients; `pguru` is its command line client.

This directory holds TLA+ modules of the program's own logic, TLC configurations
that check them on small instances, and TLAPS proofs of some of the properties
for every value of the constants. `PROJECT.json` lists the runs, the definition
behind each modelled line of source, the hazards and the theorems.

    tlc -workers 2 -config MCXantrexUI_reliable.cfg MCXantrexUI     # a run
    tlapm XantrexDrift_proofs.tla                                   # a proof

## 1. The system

Paths are relative to `src/`.

| component | state it keeps | operations | talks to |
|---|---|---|---|
| Xantrex menu driver `devices/xantrex-trace.cc` | cursor `menuheading`, `menuitem`; the table of menus; meter values | one method per button, `GotoMenuStart`, `GotoMenuItem`, `PollMeters` | Serial; a console that calls the methods |
| Menu table `lib/menuitem.cc`, `SetDefaultValues` | headings, items, labels | `SetItem`, `GetItem`, `GetLabel` | the driver |
| Serial port `devices/serial.cc` | file descriptor, tty modes | `Open`, `Read` (select with a timeout, one `read()`), `Write` | the device |
| Outback driver `devices/outbackpower.cc` | current packet, last values | `poll`, `parse`, `calcChecksum`, `exportMeterData` | Serial or a file; the daemon's main |
| Xanbus driver `devices/xanbus.cc` | as the Xantrex driver | a near copy of it | Serial |
| Ownet `devices/ownet.cc` | `_owserver`, map `_sensors` | constructor (connect, scan), `getValue`, `getTemperature`, `getBattery` | owserver through `OW_get` |
| 1-Wire files `devices/onewire.cc` | map of sensors, scale | scan, poll of mounted files | the file system |
| Daemon `daemon/main.cc`, `daemon/threads.cc` | threads, `tqueue` | `client_handler`, `ownet_handler`, `onewire_handler`, stubs for the inverters | all of the above |
| pguru `client/main.cc`, `client/threads.cc` | one socket shared by two threads | `console_handler`, `daemon_handler` | the daemon |
| Commands `lib/commands.cc`, XML `lib/xml.cc` | the document tree of one message | `createCommand`, `execCommand`, `parseMem` | both ends of a session |
| Tcpip `lib/tcpip.cc`, Msgs `lib/msgs.cc` | sockets, console, a static buffer; method table, cache | connections, `readNet`, `writeNet`, `anydata`; dispatch, cache | the older client and daemon code |
| Database `lib/postgresql.cc`, `lib/mariadb.cc` | connection, query text | `openDB`, `queryInsert`, `queryResults` | PostgreSQL, MariaDB |
| SNMP, rc, console, log, plug-ins, simulators, Python tools, web pages | little | set-up and I/O | - |

At this commit the main thread of `pgd` starts `client_handler`, the 1-Wire
threads and the Outback, then waits on a queue that nothing fills. The handlers
for Xantrex and Outback in `daemon/threads.cc` are stubs. The Xantrex driver's
own main program and console loop are disabled in the source (`#if 0`,
`BUILD_XANTREX`) and stray text at the end of the file keeps it from building;
its methods are complete, and they are modelled for any caller.

**What is hard in it**

- *Menu driver.* The inverter cannot be asked where it is. Every position is
  inferred from keys, which `doc/C/xantrex.xml` says are often ignored, and
  from screens that come late, in halves or unasked. To be right: the program's
  cursor must stay near the inverter's over any sequence of operations, R at the
  end of the menus included, where the one counts on and the other stays; a
  meter's value must be stored under its own name; a set point key must change
  the setting it was meant for; each operation must end.
- *Session.* Messages are not delimited: each side takes what one read returns
  for one message. Two threads of pguru write to one socket, buffers are reused,
  and a refused parse leaves an XML object without a tree. The user's arguments are
  put between the tags as typed, so that an `&` is enough for a refusal. To be
  right: nothing else brings a program down, what is parsed is what was received,
  requests are answered once and in order, and each that is XML is.
- *Ownet.* Every single read may fail and `getValue` then answers with the text
  it was handed. To be right: a row holds the values of one device, all read or
  all zeroed, each in its column, and one bad sensor does not stop the others.
- *Outback.* A packet is 49 bytes of a stream without resynchronisation; the
  verdict of the checksum is dropped; a refused packet leaves old values to be
  exported again. To be right: bytes that do line up with a packet give that
  packet's values; rows are stored in order; a database that is down does not
  stop the loop.
- *1-Wire files.* A sensor's file is cut at a fixed offset and may be short, gone
  or marked as failing its checksum, and rows are lost silently, with the database
  gone or with a server that refuses them. To be right: a stored row has its own
  sensor's reading, and sensors are read in turn.
- *Tcpip.* A static buffer shared by all descriptors; a write loop whose pointer
  moves and whose count does not. To be right: nothing is delivered twice, whole
  messages arrive as sent, no connection stays open behind.
- *Msgs.* Both ends run the same methods, and some answer answers; the method
  table lacks names the messages use, and what is then called is undefined. To be
  right: answers come in order, an end that has nothing to do owes none, messages do not
  multiply, and nothing undefined is called for a known name.

## 2. The modules

| module | models |
|---|---|
| `MenuTable` | the table `SetDefaultValues` builds, as far as positions, labels that cannot be told apart and what `GetItem` finds |
| `XantrexUI` | the Xantrex menu driver key by key, the serial line and the inverter |
| `XanbusTable`, `XanbusUI` | the table of the sister driver of `xanbus.cc`, and the driver with each method as one step |
| `XantrexRefines` | the mapping under which `XantrexUI` implements `XanbusUI` |
| `MCXantrexUI` | `XantrexUI` over `MenuTable`, and over a small menu |
| `XantrexUI_proofs` | type correctness of `XantrexUI`; a meter whose label was seen is that meter |
| `XantrexDrift_proofs` | how far the two cursors can be apart, with ignored keys and without |
| `Console` | abstract: what pgd and pguru promise a user who waits, a series of calls |
| `Session`, `MCSession` | pgd's client session with pguru, Commands and XML at both ends |
| `Session_proofs` | type correctness of `Session`; requests are answered once and in order; users who wait crash pgd by a line that is not XML only, and see every result before it; `Session` implements `Console` |
| `Ownet`, `MCOwnet` | connecting, scanning and polling of 1-Wire sensors through owserver |
| `Ownet_proofs` | type correctness of `Ownet`; rows are of one device and complete |
| `MariaDB` | `queryInsert` of `lib/mariadb.cc` with its retries; used by `Outback` |
| `Outback`, `MCOutback` | the Outback loop from the serial line to the database |
| `Outback_proofs` | type correctness of `Outback`; rows are stored in order; rows of bytes that line up are right |
| `PostgreSQL` | `openDB` and `queryInsert` of `lib/postgresql.cc`; used by `Onewire` |
| `Onewire`, `MCOnewire` | scanning and polling of the kernel's 1-Wire files |
| `Onewire_proofs` | type correctness of `Onewire`; what the table holds are readings, read in turn |
| `Channel` | abstract: connections that carry messages, which is what `Msgs` counts on |
| `Tcpip`, `MCTcpip` | both ends of `Tcpip`'s connections, `anydata` and `writeNet` |
| `Tcpip_proofs` | type correctness of `Tcpip`; what `anydata` computes, and what it delivers of whole and of cut messages; `Tcpip` implements `Channel` as long as reads return whole messages |
| `Msgs`, `MCMsgs` | requests, answers, method table and cache of `Msgs` at both ends |
| `Msgs_proofs` | type correctness of `Msgs`; the methods called, the cache, the number of messages, the order of answers and that none is missing |

### XantrexUI

| variable | code |
|---|---|
| `menuheading`, `menuitem` | the members of the same name; uninitialised by the constructor, so `Init` takes several values |
| `script`, `phase`, `left` | the control state: calls the running method has still to make, whether a key is out, tries left in the loop |
| `line` | the tty's input buffer, in screens |
| `dev`, `keys` | the inverter (external) |
| `tracked`, `ignored`, `overrun`, `reading`, `setting` | history, which no action's guard looks at (`ignored` and `overrun` only for their bounds): whether the cursor can be vouched for, the heading keys ignored and the R taken at END USER MENU since `GotoMenuStart`, the last value stored and the last setting changed, with `overrun` as it was then |

`Write` and the actions named after methods split each method where the code
waits: `Serial::Write` of a key, then `Serial::Read` and everything the method
does until it writes again or returns. A method that calls others (`PollMeters`,
`GotoMenuItem`) is the sequence of its calls, put in `script` by `Invoke`. What
a method only logs is left out; `MenuHeadingMinus` and `Plus` look their label
up and only log whether it was there, but the look-up matters: `GetItem` returns
the end of a vector for a position that is not in the table, and reading that
is undefined, so `LabelFound` may then be either and `GetItemCrash` may happen.

The inverter is external, and is assumed of it what the driver and its document
rely on: L and R go to the neighbouring heading's own line and stop at the first
heading and at the end markers, D and U go to the neighbouring item and stop at
the ends, the setup key goes to the first setup heading, no other button moves
the menus (so one, "+", stands for them all). `MayIgnore`, `MayLag` and `Chatty`
switch on ignored keys, answers later than the timeout of `Serial::Read` or cut
in half, and screens that come unasked.

A value stored by `PollMeters` is modelled by the screen its digits came from,
not by its digits. `Listen` is a caller that reads the line between operations,
as the console's loop does.

### Session

| variable | code |
|---|---|
| `daemon`, `conn` | where `client_handler` is, and the one connection it ever accepts |
| `handshake`, `answered` | what its first read returned; the requests `execCommand` was called for |
| `client`, `typed`, `greeted`, `results` | `daemon_handler` and `console_handler` of each run of pguru; what the user can see |
| `buffer` | `daemon_handler`'s buffer, which is zeroed once |
| `sent`, `received` | history |
| `up`, `down` | the two byte streams of each connection |

A stream is a sequence of cells, two to a message and one to a result, so that
a read may end inside a message. A line becomes one of `LineKinds`: a command; a
HELO, which pgd takes a name from and does not answer; or `malformed`, a command with an
argument such as `a&b`, which `createCommand` does not escape. `Text` is what a C
string made of the buffer holds; `Parses` is what `XML::parseMem` accepts: one
message, and not a malformed one. With a refused text both
programs go on with a tree that was never set: the model lets them crash or take
either branch. `Accept` takes connections in any order. The daemon is assumed to
be listening when pguru connects, unless its thread has ended.

`Console` has no streams, buffers or reads: a client is served, asks when the last
result is shown, is answered, sees the result. `CommandsAreCalls` is
`Console!Spec` with `conn` for the client served, `typed` for what was asked,
`results` for what was shown, and the numbers of the requests in `answered` for the
answers. Connecting, the handshake, and all reads but those that execute a
command or show a result are stutters. Both `Ask` and `Answer` ask that everything
before is done, so a command executed twice, early or for another client, or a
result shown for a command not yet executed, is no step of `Console`.

Whether *every* result is shown is another matter, and one of numbers:
`daemon_handler` looks at the first character of what it read for the `R` of a
result, so a result must begin a read. It does because pgd writes 4096
bytes before it and pguru reads 1024 at a time (`QuietMeansShown`).

### Ownet

| variable | code |
|---|---|
| `pc` | the constructor (`connect`, `connected`, `scan`, `family`, `id`, `probe`), then `ownet_handler` (`handler`, `sleep`, `poll`, `read`), or the end of the thread (`ended`) or of pgd (`crashed`) |
| `retries`, `owserver`, `sensors` | the counter of the connection loop, `_owserver`, `_sensors` |
| `todo`, `device`, `file` | the iterators |
| `result` | the string `getValue` writes to |
| `fields`, `row` | the record being filled; the last row handed to `queryInsert` |

A value is modelled by the file it was read from. Every `OW_get` may fail;
`ReadField` then takes `getValue`'s unchanged string, and the exception of
`std::stof` on an empty one, caught for a thermometer and not for a battery.
`ReadScaleFails` is the read through a pointer that a failed `OW_get` never
set. The order of the values of a row is the order they are read in. That the
scan's `id` and `alias` strings may be stale is not tracked.

### XanbusUI and XantrexRefines

`xanbus.cc` is a copy of `xantrex-trace.cc` with another way to fill its table.
`XanbusTable` is that table, from the `SetItem` overloads each entry is passed
to: a string literal given for a `std::string` is taken for a `bool`, and an
INFO entry is stored at item 0, where `GetItem` does not find it. `XanbusUI` has
the cursor (`menuheading`, `menuitem`), the inverter's (`position`) and whether
they are `known`; a method moves them in one step. It is at once a model of the
sister and the abstract specification of such a driver. Once a method has looked
up a label that is not there, nothing is promised until `GotoMenuStart`.

`XantrexRefines` shows the cursor of `XantrexUI` as it will be when the running
call returns, from the call's first `Write` on. `MethodsAreAtomic` is then
`Atomic!Spec`: all the keys, screens and tries of a call are one step of
`XanbusUI` and stutters. It holds over the real menus only if both tables have
the same labels where a method looks, so it compares the two tables, too. It is
proved in `XantrexDrift_proofs`.
`SistersPollAlike` is checked by TLC: both `PollMeters` make the same calls.

### Outback and MariaDB

| variable | code |
|---|---|
| `pc` | the main loop: `con.Getc`, `Serial::Read` and its second try, `queryInsert`; or the end |
| `address`, `type`, `values` | `_address`, `_type` and the readings, which outlive a packet |
| `text` | `str`, the packet as `readSerial` returns it |
| `dtr`, `line`, `sent`, `lost` | the DTR pin and the tty (external) |
| `query`, `retries`, `connected`, `table`, `breaks` | the running `queryInsert`, and the server (external) |
| `exported` | history: numbers the rows |

Bytes are numbers, because fields are cut out at offsets and converted with
`strtol(s, NULL, 0)`. Three facts of the code decide what comes out: `Serial::Read`
drops LF and CR, so `packet[1]` of a packet read in one piece is a comma; the
verdict of `calcChecksum` is not looked at; the photovoltaic voltage is read one
byte late. `queryInsert` is in the loop only when both databases are configured,
as `#if defined(HAVE_MARIADB) && defined(HAVE_POSTGRESQL)` has it; the model
follows `mariadb.cc`, the only one of the two that retries. A query that fails
may have been carried out, which is how a row gets in twice.

### Onewire and PostgreSQL

| variable | code |
|---|---|
| `pc`, `at` | constructor, `onewire_handler`, its iterator |
| `mounted`, `sensors` | `_mounted`, `_sensors` |
| `connection`, `table` | `_connection`, the server's table |
| `read`, `from` | history: the files read, and which of them each row of `table` was stored for |

What the scan finds is odd: while `_mounted` is false `getValue` returns its empty
argument, so nothing below `/mnt/1wire` has a family and only the kernel's
directory yields sensors; and the kernel's names are in lower case where the
family table is in upper case. A file holds a checksum verdict and a
temperature: after NO everything is one character further to the front, and
`substr(69)` loses the first digit. An unreadable file or any battery ends pgd
with an exception nobody catches (`TemperatureThrows`, `PollBattery`).
`queryInsert` neither reports a lost connection nor makes a new one, and it tests
`PQexec`'s result for NULL only, so that a row the server refuses is lost like one
that was never sent. `QueryInsert` therefore may store a row or lose it on a
connection that works, and always loses it on one that does not.

### Tcpip

| variable | code |
|---|---|
| `pc`, `sockfd`, `serverEnd` | the daemon's loop over `newNetConnection`, `anydata` and `closeNet`; open descriptors |
| `leftover` | the static pointer of `anydata` |
| `delivered` | what `anydata` has returned |
| `client`, `dialing`, `clientEnd`, `sending` | `createNetClient` and its second try, `writeNet` |
| `backlog`, `wire` | the connections (external) |
| `received`, `torn` | history |

A message is four pieces: its first tag, text, its last tag, its NUL. A read
returns any number of pieces, so it may cut a message at each kind of place
`anydata` tells apart (`Framed`). After a partial write `writeNet` moves its
pointer and not its count, so `WritePart` leads to pieces from behind the
message.

`Channel` has messages in the place of pieces: connections made and accepted in
turn, messages in flight on each, those taken. `MessagesArrive` is its
specification under the mapping `Line`: in flight are the messages at
the front of a connection's pieces, as many as are whole (`Arriving`); taken
are those `anydata` delivered. A partial write may or may not leave a whole message in
flight; what it leaves behind it is never taken for one. From the first torn
read on nothing is promised, and `PiecesOnce` is what remains.

### Msgs

| variable | code |
|---|---|
| `listening`, `mode`, `accepted` | `init` at both ends, `_net_mode` |
| `cache` | `_cache` |
| `inbox`, `todo` | messages under way; nodes `process` has still to visit |
| `undefined` | an end called what `methodGet` made up |
| `asked`, `answers`, `swallowed` | history |

A message is the sequence of its nodes. `methodGet` has no return statement for
a name that is not in `_methods`; an end that calls the result takes no further
step in the model. The names are compared as text, which is what the table is
for; the code's map compares pointers, which happens to work as long as the same
literals are used.

`Outback`, `Tcpip` and `Msgs` model code that does not run in pgd at this commit:
`tcpip.cc` and `tcputil.cc` are in no Makefile, `outback_handler` names variables
that `threads.cc` does not declare, and `outback::main` is called only
from stray text at the end of its file. The models follow the callers the sources show: `outback_handler`'s
loop for `Tcpip`, `outback::main` for the driver. Nothing in the sources calls
`Msgs::process`; in the model an end may hand it each message it has received, and
never has to.

## 3. What the runs show

Passing runs:

| run | environment | properties |
|---|---|---|
| `xantrex_reliable` | every key taken, every answer in time; the real menus | `CursorInStep`, `ReadingIsOwn`, `SettingIsNear`, `OperationEnds`, `MethodsAreAtomic` |
| `xantrex_ignored` | keys ignored; the real menus; polls and walks along the headings | `HeadingDrift`, `MatchedMeansThere`, `OperationEnds` |
| `xantrex_lag` | ignored keys, late, torn and unasked screens, the setup key; a small menu | `TypeOK`, `OperationEnds` |
| `session_lockstep` | two runs of pguru, whole messages, users who wait; lines that are HELOs or not XML | `OnlyMalformedCrashes`, `TextIsReceived`, `QuietMeansShown`, `CommandsAreCalls`, `EveryCommandAnswered` |
| `session_torn` | a user who types ahead, reads of any size | `TypeOK`, `AnsweredOnceInOrder` |
| `ownet_poll` | four devices of three kinds, every read may fail | `TypeOK`, `RowOfOneDevice`, `RowComplete`, `EverySensorPolled` |
| `outback_store` | two packets, reads of any of four lengths, a lost byte, a database that fails once | `TypeOK`, `AlignedRowIsOwn`, `RowsInOrder`, `LoopGoesOn` |
| `onewire_poll` | files that vanish or fail their checksum; a database that goes away, or refuses any row | `TypeOK`, `RowsAreReadings`, `InTurn` |
| `tcpip_stream` | messages joined and cut anywhere, a partial write, two connections | `TypeOK`, `DeliveredWhole`, `PiecesOnce`, `NoneLeftOpen`, `MessagesArrive` |
| `msgs_exchange` | any three of nine requests, understood or not | `TypeOK`, `UndefinedOnlyUnknown`, `AnsweredInOrder`, `IdleMeansAnswered`, `NoneMultiply`, `CacheIsDaemons` |

The reliable run is not obvious: `MenuItemPlus` never counts below item 1 while
the inverter goes up to the heading, and `GotoMenuItem` presses D once too few;
the run shows that the slack is one item at item 1 and that no sequence of
operations adds to it. What does part the cursors, with no key lost, is R at END
USER MENU: `MenuHeadingPlus` counts on to a heading of the setup menus, which is in
the table, while the inverter stays. After L, L, D a set point key then changes a
setting of another heading. `CursorInStep` and `SettingIsNear` say how far this
goes, by no more headings than R was pressed there (`overrun`), and that without it
the cursors agree and the setting is the one meant; `GotoMenuStart` makes
up for it, and with it `PollMeters`, whose readings are right whatever was pressed before
(`ReadingIsOwn`). With keys ignored a matched label is still proof of
where the inverter is, and the headings are no further apart than the keys that were
ignored or pressed at the end.

`MethodsAreAtomic` says the same of whole sequences: whatever is called after
what, the driver that retries is the driver that does not need to.

`outback_store` shows the good half of the Outback's framing: the rows from reads
that line up, by luck or by a lost byte, are right up to octal conversion.
`onewire_poll` says what is right of the rows that are stored; whether any is,
nobody looks at.

`session_lockstep` lets a user type anything. A line whose argument is not XML leaves
pgd with a tree that was never set, a HELO is not answered; either way the user waits
for ever, and the properties say that nothing before is hurt by it and nothing but
it does harm: the last line written is the only one without a result, and is one of these.

`msgs_exchange` shows that a config request is sent back and forth for ever
(`unimplementedProcess` answers the answer, on both ends), and that this does not
flood the connection and costs no other request its answer: when the daemon has
nothing to do none is missing.

Runs that end in a counterexample, each a disagreement between the code and
something the repository says of it (`findings` in `PROJECT.json` quotes both):

| run | what happens |
|---|---|
| `xantrex_goto` | after `GotoMenuItem` a set point key changes the item above the one asked for |
| `outback_framing` | a packet that arrives whole is refused: its address is byte 0 of what `Serial::Read` leaves, and `parse` looks at byte 1 |

Other things the models have in them, and which no run needs to show:
`GotoMenuStart`, coming from the setup menus, stops at "Inverter Setup"; R at END
USER MENU parts the cursors; `list a&b` brings pgd down; the table `weather` of
`powerguru.sql` (lines 134-142) has seven columns, with a float where `formatQuery`
puts the letter of the scale, and a unique time stamp, so that as it stands the
server refuses every row; `exportMeterData` takes `'0'` off an MX's address and
`'A'` off an FX's (`devices/outbackpower.cc:670-677`), where
`doc/C/outback.xml:152` has 'A' for the first MX: the row keeps the address and the
properties do not speak of the unit made of it; when all
tries of a key are ignored `PollMeters` stores a value under the next label;
a command typed before `daemon_handler` sent its HELO is taken for the handshake;
a short message read over a long one is parsed with the long one's end; a failed
read of `templow` stores the temperature in its place; `createNetClient` takes
the success of its second `connect()` for a failure.

### Bounds

- *Menus.* The Xantrex runs but one use the real table and the real 22 and 5
  tries. `MaxOverrun` and `MaxItem` stop a caller who presses R or D for ever. R may
  be pressed twice at the end of the menus, so that the cursors part by one heading and
  by two, which add up and which L brings along; beyond the last heading of the user menus the
  table goes on with the setup menus, and the program with it. `xantrex_reliable`, which walks
  everywhere, has six items: past the end of the headings that have five or fewer, so
  that the caller runs off a menu there. Off the end of the items `GetItem` finds nothing,
  `tracked` ends, and more of the same key adds nothing. `xantrex_goto` has fifteen.
- *Ignored keys.* `MaxIgnored` bounds heading keys only (item keys may be
  ignored without limit): two make drifts that add up and that cancel. The
  theorem `HeadingsNear` has no bound.
- *Line.* `MaxLine` screens and keys in flight: two is one more than a read may
  take for its own answer, so a stale screen can be before the right one or
  alone. `ReadMax` is the code's 100 bytes in screens of 38.
- *Small menu.* Late and torn screens multiply the states; the small menu keeps
  a heading without items, a position `GetItem` misses, a meter line with the
  word "Inverter" in it, an end marker and a setup heading that has the word.
- *Session.* Buffers of 8 and 4 cells: a request fits several times, a reply
  takes more than one read of the client, which is what 4096 and 1024 bytes do
  to real messages. Three lines with two clients show a second client in
  the backlog; two lines suffice to join, cut and reorder.
- *Ownet.* Two thermometers (a value of one could turn up in the other's row), a
  battery (its failure is fatal) and an unsupported device. Three attempts as in
  the code, so that success at the last one is reached.
- *Outback.* Two packets, one with zeros in front and a letter for its address.
  Reads of 49 bytes (a packet), 47 (its text without LF and CR), 3 and 1, so that
  all offsets between a read and a packet come up by combining them; one byte lost,
  at the front of the line or near the packet's end. `MaxLine` is two packets.
  Three rows suffice for one from each packet and one repeated. One failure of
  the database, at any moment; both tries of `queryInsert` are used, since
  a connection may stay down.
- *Onewire.* A directory with two thermometers among devices of a family nobody
  knows and one in letters, one with a battery, an empty one. Five readings are more than
  two sweeps.
- *Tcpip.* Three messages (two in one read and one cut), two connections (the
  second finds the first one's leftover), one partial write, two tries.
- *Msgs.* One request of each kind that is treated differently; three at a time, so
  that a bouncing config request meets two others.

### Deadlock

Deadlock is not an error in these runs: the driver, both programs of a session
and the daemon may crash, a thread of pgd may end, users may leave and type no
more, an end of `Msgs` may call something undefined, and the bounds stop a caller.

### Fairness

- *XantrexUI.* `WF_vars(HostStep)`: `Serial::Read` waits in a `select()` with a
  timeout, so a method always goes on. `WF_vars(DeviceStep)`: a key on the line
  is taken or ignored some time. Nothing obliges the caller to call or the
  inverter to repeat a screen.
- *Session.* The threads of both programs are scheduled. Connecting, typing and
  quitting are up to the user. `EveryCommandAnswered` needs no more than that
  from users who wait for an answer, of every line but a last one that is a HELO or
  not XML.
- *Ownet.* One thread after another, in one sequence of steps: the constructor
  runs before the handler it is constructed for. `OW_init` and `OW_get` return.
- *Outback.* `WF_vars(HostStep)`: `Serial::Read` has a timeout, and the MySQL
  client library returns from its calls with a result or an error. Neither the
  device nor the server has to do anything.
- *Onewire*, *Tcpip*, *Msgs*: none; their properties are about safety. Of `Msgs`
  none could be justified: no line of the sources calls `process`, so nothing obliges
  an end to go on.

## 4. What is proved

Each invariant that a passing run checks, and each of the three refinements, is a
theorem, for every value of the constants:

| theorem | assumes, beyond the constants' types |
|---|---|
| `XantrexUI_proofs!TypeCorrect`: `Spec => []TypeOK` | nothing |
| `XantrexUI_proofs!MatchedReadings`: `Spec => []MatchedMeansThere` | `LineInTime`, `MetersListed`, `MetersDistinct` |
| `XantrexDrift_proofs!HeadingsNear`: `Spec => []HeadingDrift` | `UserMenusOnly`, `LineInTime`, `StartWorks` |
| `XantrexDrift_proofs!CursorsAgree`: `Spec => []CursorInStep` | `Reliable`, `UserMenusOnly`, `StartWorks`, `NearTargets`, `ItemsWork` |
| `XantrexDrift_proofs!SettingsAreNear`: `Spec => []SettingIsNear` | the same |
| `XantrexDrift_proofs!ReadingsAreOwn`: `Spec => []ReadingIsOwn` | the same, `MetersListed`, `WayListed` |
| `XantrexDrift_proofs!StepsAreMethods`: `Spec => MethodsAreAtomic` | `Reliable`, `UserMenusOnly`, `StartWorks`, `NearTargets`, `ItemsWork`, `SameMenus`, `AnchorsListed` |
| `Session_proofs!TypeCorrect`: `Spec => []TypeOK` | nothing |
| `Session_proofs!AnswersInOrder`: `Spec => []AnsweredOnceInOrder` | nothing |
| `Session_proofs!WaitingCrashesOnMalformed`: `Spec => []OnlyMalformedCrashes` | `LockStep = TRUE`, `Tearing = FALSE`, `DBuf > CBuf` |
| `Session_proofs!WaitingReadsItsOwn`: `Spec => []TextIsReceived` | the same |
| `Session_proofs!SessionIsCalls`: `Spec => CommandsAreCalls` | the same |
| `Session_proofs!WaitingSeesResults`: `Spec => []QuietMeansShown` | the same, `\E k \in Nat : DBuf = k * CBuf` |
| `Ownet_proofs!TypeCorrect`: `Spec => []TypeOK` | nothing |
| `Ownet_proofs!RowsAreOwn`: `Spec => []RowOfOneDevice` | nothing |
| `Ownet_proofs!RowsAreComplete`: `Spec => []RowComplete` | nothing |
| `Outback_proofs!TypeCorrect`: `Spec => []TypeOK` | nothing |
| `Outback_proofs!RowsStoredInOrder`: `Spec => []RowsInOrder` | nothing |
| `Outback_proofs!AlignedRowsAreOwn`: `Spec => []AlignedRowIsOwn` | nothing |
| `Onewire_proofs!TypeCorrect`: `Spec => []TypeOK` | nothing |
| `Onewire_proofs!RowsStored`: `Spec => []RowsAreReadings` | nothing |
| `Onewire_proofs!ReadInTurn`: `Spec => []InTurn` | nothing |
| `Tcpip_proofs!TypeCorrect`: `Spec => []TypeOK` | nothing |
| `Tcpip_proofs!NothingLeaks`: `Spec => []NoneLeftOpen` | nothing |
| `Tcpip_proofs!ReadsWholeDelivered`: `Spec => []DeliveredWhole` | nothing |
| `Tcpip_proofs!PiecesDeliveredOnce`: `Spec => []PiecesOnce` | nothing |
| `Tcpip_proofs!MessagesAreCarried`: `Spec => MessagesArrive` | nothing |
| `Msgs_proofs!TypeCorrect`: `Spec => []TypeOK` | nothing |
| `Msgs_proofs!MethodsAreDefined`: `Spec => []UndefinedOnlyUnknown` | nothing |
| `Msgs_proofs!CacheFromDaemon`: `Spec => []CacheIsDaemons` | nothing |
| `Msgs_proofs!MessagesNeverMultiply`: `Spec => []NoneMultiply` | nothing |
| `Msgs_proofs!AnswersKeepOrder`: `Spec => []AnsweredInOrder` | nothing |
| `Msgs_proofs!IdleHasAnswered`: `Spec => []IdleMeansAnswered` | nothing |

**HeadingsNear.** For any menus, any caller and any number of ignored keys. Its
assumptions are what the driver relies on: the caller does not press the setup key
and asks for positions in the user menus (`UserMenusOnly`; R may be pressed anywhere and
any number of times, `MaxOverrun` being any number), an answer comes in time and only
when asked for (`LineInTime`), and `GotoMenuStart` has at least a key for each
user heading and no other user heading's line has the word it looks for
(`StartWorks`). The real table satisfies `StartWorks`; a caller who has
been in the setup menus breaks the first, and `GotoMenuStart` then stops at a
setup heading. `HeadingDrift` speaks of the moments between operations and is
not inductive. The invariant is `IInv == TypeOK /\ Planned /\ InLockStep /\ Drift`:

- `Planned`: the calls still in `script` lead the program from cursor to cursor (`Leads`),
  and every "set the cursor" is reached at the heading it sets, by a way from
  `GotoMenuStart` on that does not pass the last user heading, where the inverter would
  stop and the program count on. This is a statement about sequences; `PlanConcat`,
  `PlanTail`, `PlanRight` and `PlanStay` build and take apart the plans of the
  operations.
- `InLockStep`: there is one key out, or its answer, or neither; a read takes
  the answer to its own key.
- `Drift`: counting the move of an answered key, the program is behind by `ignored`
  at most and ahead by `ignored` and `overrun`. While `GotoMenuStart` is pressing they may be anything, and what
  holds is that the inverter comes one heading nearer to the first with each key
  that was not ignored.

**MatchedReadings.** Any number of keys may be ignored, but an answer comes in
time (`LineInTime`), `GetItem` finds the meters (`MetersListed`), and no other
position has a meter's label (`MetersDistinct`), which is what makes a label worth
looking for; the real table has both. `Planned` carries the argument: it says
of the calls in `script` that a value is stored for a meter only, however the
poll got there, and `InLockStep` that what is matched is the answer to the key
just pressed, from where the inverter still is.

**CursorsAgree, SettingsAreNear, ReadingsAreOwn.** On a line that loses nothing
(`Reliable`) the program is ahead by the R pressed at the end of the menus and no more, and
where the headings agree the items do, for any menus where the first two items below
a user heading have different labels, `GetItem` finds nothing the inverter lacks
and an item is tried twice at least (`ItemsWork`). The caller does not press the setup key and
does not ask `GotoMenuItem` for a second item (`NearTargets`): for a later one the
run `xantrex_goto` shows the cursor set where the inverter is not.
`ReadingIsOwn` also needs the headings on the way to the meters in the table
(`WayListed`). The real table meets all of this. The invariant is
`SInv == IInv /\ Planned(TRUE) /\ Answered /\ InStep`: `Planned(TRUE)`, that a plan which
has not passed the end of the menus since `GotoMenuStart` ("straight", and "sure" when
besides `GetItem` finds each position on it) goes with `overrun = 0`, which is why a reading is
from its own heading after any R before; `Answered`, that a call that
waits has its key or its answer on the line and that no try outlives its call;
`InStep`, where the inverter is at each step of each call. The delicate part is
the slack of one item at item 1: the program's U stops there and the inverter's goes on to
the heading; from there D shows the first item where the second is
expected, and it is the unequal label that makes the loop press again. Equal
labels further down do no harm.

**StepsAreMethods.** For any menus as above, any number of tries and any calls in
the user menus, whatever the driver presses, waits for and tries again is a step of
`XanbusUI!Spec` or a stutter. Both tables must give the same labels to the same
positions and list the same positions (`SameMenus`), and what the methods end
at must be listed (`AnchorsListed`). The mapping shows each cursor where the keys
still to be pressed will take it, so only two kinds of step are steps of the
atomic driver: the first `Write` of a call, and the call that sets the cursor at the
end of `GotoMenuItem`. All other steps stutter because of `PressedStep`: a key that is
taken leaves the place where the rest will lead as it was. `Pressed` is a
recursive function of the number of tries; that one with its equation exists is
proved (`Iterated`, `PressesExist`). The invariant is
`RInv == SInv /\ EndsAtTargets(script) /\ ListedBetween`: the calls in `script` set
the cursor at a target only, and between calls it is at a listed position,
which is what the atomic driver, which forgets an unlisted one, starts from.

The hypotheses on the menus are not left to the reader: `TheoremsApply` in
`MCXantrexUI` is an assumption that TLC evaluates when a run has the real menus,
and it says that these meet all of them, and the run's line and caller those of
the theorems whose properties it checks.

**AnswersInOrder.** For any number of clients, lines and buffer cells, and however
reads cut the streams. `AnsweredOnceInOrder` compares what was answered with what
was written, and neither tells where pgd has got to. The invariant adds it:
`UpIsRest` says that what is under way is the end of what the client wrote, so
that `Consumed`, the difference of their lengths, is how far pgd has read;
`AnsweredWasRead` places each answered cell, and each pair of them in order,
within that part; `Connected` keeps `conn` from changing under them.

**WaitingCrashesOnMalformed, WaitingReadsItsOwn.** The conditions are those of the run
`session_lockstep`: each user types only when the last answer is out, no read
cuts or joins messages, and the daemon's buffer (4096 bytes) is larger than the
client's (1024). `TurnsInv` follows the one message of a connection from
`console_handler` to `client_handler` and back: at each point of the exchange it
says what both streams hold, so that a read finds one whole message or one
buffer of a longer reply, and how much of `buffer` has been overwritten, so that what
is parsed ends with the zeros that came with it. A last line that was not
answered, a HELO or a malformed one, leaves the connection `Stuck`: nothing is under way,
the user waits, and nothing is typed any more. pgd's crash is one of these places, and
`OnlyMalformedCrashes` part of the invariant. (pgd may also survive what it reads in a tree
that was not set and go on to an answer, or not.)

**SessionIsCalls.** The same conditions, and a mapping that hides where each command
is. `TurnsInv` places the one message that is out; what it lacks is how many
went before. `Counted` adds it: results shown are all lines typed or all but
the last, and the answered cells are two for each line but a last one that is still
on its way up or stuck, and for all of them when all results are shown. A step is then one
of five (`Opens`, `Asks`, `Answers`, `Leaves`, `Reads`) or none. From the two, each read that executes a command executes the next
one (`AnsweredOneMore`), and each that shows a result finds it answered.

**WaitingSeesResults.** `ShownInv` says of a reply on its way down that its length is
a multiple of the client's buffer and the one cell of the result, so that each
read takes a whole buffer until the result is left, alone and first; and with nothing
under way, that the only line without a result is a last one that was a HELO or malformed
(`Shown`). This is
where the daemon's buffer being a multiple of the client's is used, and nothing else
in the session needs it.

**Ownet.** `IInv == TypeOK /\ DeviceKnown /\ ResultOwn /\ FieldsOwn`: the
text `getValue` may repeat is of the device being visited, because the code
starts each device with an empty string; the record being filled holds as many
values of this device as files were read, or is a thermometer's and all zeros.
A row is such a record once all files are read; no other action writes `row`.

**RowsStoredInOrder.** The bound on repeated rows is not inductive while a
query is running. `Accounted` counts the running query as a row to come, so
that its last try cannot store one more than exports and failures allow;
`QueryIsLast` and `TableIsPast` say that it is the newest row.

**Outback's TypeCorrect and AlignedRowsAreOwn.** Both rest on lemmas about the
text functions: `Number` and `Strtol`, which are recursive functions
over digits, are bounded by the number of digits, read digits up to the first
other character, and read as octal a field that starts with a zero never
more than its decimal value; and the bytes of a packet that lines up with the
text are at the offsets `parse` cuts at, but for the voltage (`BodyIs`, from lemmas about
what flattening the packet's fields puts where). `Inserting` says that a running query
has a try left and that its row, if `parse` accepts `text`, has the readings of `text`
(`OfText`), whatever was read before.

**RowsStored.** `RowsAreReadings` names the reading of each row (`from`): the names
increase, and a row is of the sensor read and, if the checksum held, its temperature. Rows may be missing
anywhere. `NothingBefore`: nothing is read or stored before `openDB`.

**ReadInTurn.** `InTurn` compares each reading with those before. `SweepsBefore`
counts them instead: what was read is a number of whole sweeps and the
thermometers before the iterator, so that the next reading is that of the next
thermometer; `Swept` says where a sweep ends.

**NothingLeaks.** `NoneLeftOpen` is nearly inductive; what it lacks is that
nothing is open before the daemon's first `accept()`.

**Tcpip's other theorems** need to know what `anydata`'s loop over a buffer
computes. `PacketsFrom` and `StopFrom` are recursive functions of the index;
`Defined` proves that there are such functions, by building them from the end of
the buffer, and `Downward` is the induction over the indexes. `PacketsStep`,
`StopStep` and `StringAtIs` then are the facts about the loop the proofs cite.

- `ReadsWholeDelivered`: nothing is ever left over while reads return whole messages, and
  the packets are the texts of what was read (`AllWhole`, `LoopOfWhole`).
- `PiecesDeliveredOnce`: pieces are written in an order (`Before`); what is unread is in that
  order within a connection and from one connection to the next (`WireInTurn`), because the client
  writes to its last connection only and the daemon takes them in the order they were
  made (`Connecting`). What was delivered or is left over is `Old`: written, and
  before all that is unread. A read takes from the front and so adds pieces that are
  not there yet, and `FramedOnce` shows that each of `anydata`'s ways to frame them,
  the joined packet and the skipped character included, uses no piece twice.

**MessagesAreCarried.** How many messages are whole at the front of a connection is
a greatest number, and `Counts` characterises it without computing it: so many
positions hold a message, and the next does not. What a write adds is four
pieces at most, each of the message being sent or of none, so that it completes that message
or no other (`CountsMore`); that this one is later than all in flight and
all taken is `SentIsLatest`, from `Before` above. A read of whole messages leaves the count
less what it took (`CountsBehind`), and what it delivered are those
messages by `ReadsWholeDelivered`'s invariant. `InBacklog` says that the
backlog is the connections made and not accepted, in order, which makes `accept()` the
abstract one, and that the end of the client that may write is open, so that a read of
nothing with that end closed is an end of the connection. No hypotheses: partial
writes, timeouts and failed writes are all in it.

**MethodsAreDefined.** As long as every request made is understood, every
node that is under way to an end is `Good` there: it has a method, and its text
makes that method write nodes that are good at the other end. `Good` is what
closes the circle of answers to answers. `TypeCorrect` is the same argument with the
messages methods are made for, whoever asked (`Fit`): a set of messages that is
closed under the methods of both ends (`Carries`) is never left.

**CacheFromDaemon, MessagesNeverMultiply, AnswersKeepOrder.** The cache needs only
that what reaches the client is `Fit`. `Bounded` counts the messages under way, a
running `process` included: each method replaces its message by one at most.
For the order of the answers each end's messages are numbered by a sum over
a sequence (`Num`): `InOrder` says that the answers on their way, the message the
daemon has at hand and the requests on their way to it are, in this order,
those of the requests with an answer that come after the last one answered.
`IdleHasAnswered` follows from the same numbering: with nothing at the daemon, the answers on their way
are all that is left of it.

Three properties are stated in a form that can be reasoned about: `InTurn` counts
thermometers, `PiecesOnce` compares places instead of flattening the packets, and
`AnsweredInOrder` names the request of each answer.

What recursive *functions* compute is provable here for every input: the prover
takes them for a choice among all functions with that equation, and existence
and induction are then theorems about numbers. `RECURSIVE` operators and folds,
which take an operator as a parameter, are not.

Model-checked only: liveness (`OperationEnds`, `EveryCommandAnswered`,
`EverySensorPolled`, `LoopGoesOn`), which is out of the prover's
reach, as is `ENABLED`.

## 5. What is not modelled

- *Outback*: reading a recorded file in place of the port, and the sum
  `calcChecksum` forms, whose verdict has no effect.
- *Xanbus*: faults of its line, which are those of `XantrexUI`; its two tables' values,
  ranges and types beyond what `GetItem` looks at.
- *Tcpip, Msgs*: `readNet`, whose result no caller keeps; `tcputil`'s look-ups of
  host and service names; `statusCreate` and the dumps. `Msgs` is over whole messages
  and one connection, as `Channel` has them: `Tcpip` is proved to implement that up to the
  first torn read, and what it does to cut messages is shown there and not composed
  with `Msgs`.
- *Database*: `queryResults` and the insert of several rows, which no program
  calls.
- *Daemon main*: the wait on `tqueue`, for which the sources have no push.
- *Serial*: opening, speed and terminal modes.
- *Configuration* (`rc.cc` reads a file once, at start), console modes, logging,
  processes, plug-in loading: set-up and I/O with no state that lasts.
- The SNMP agent is generated handlers around net-snmp. The simulators, the
  Python tools, the web pages and the tests are scripts and aids beside the
  programs; the tests were read for what they expect.

Worth doing next: `Msgs` over a `Channel` that tears, for what is left of its
answers after a torn read; `rc.cc`'s parser as a function over lines.
