--------------------------- MODULE XantrexRefines ---------------------------
(***************************************************************************)
(* On a line that loses nothing, the driver that presses keys, waits for   *)
(* screens and retries (XantrexUI) is the driver whose methods are single  *)
(* steps (XanbusUI), with the menus of xanbus.cc.                          *)
(*                                                                         *)
(* A method takes effect at its first Write: from there on the mapping     *)
(* shows the cursors as they will be when it returns.  It can, because     *)
(* the keys still to be pressed depend on nothing but the labels.          *)
(***************************************************************************)
EXTENDS XantrexUI, XanbusTable

\* PollMeters of the sister: down to the first INFO item, eight items at most,
\* and seven up.
XanbusPollMeters ==
    LET mh == 4
        mi == 1
        items == 7
        downs == CHOOSE n \in 1..(items + 1) :
                    /\ n = items + 1 \/ Types[mh][mi + n] = "info"
                    /\ \A k \in 1..(n - 1) : Types[mh][mi + k] # "info"
    IN GotoMenuItem(mh, mi) \o Times(downs, "Dread") \o Times(items, "Uread")
                            \o <<Call("R"), Call("L")>>

\* With the menu heading and the number of meters of both, both make one and
\* the same sequence of calls.
ASSUME SistersPollAlike ==
    MeterHeading = 4 /\ MeterItems = 7 => PollMeters = XanbusPollMeters

\* XanbusUI at the inverter's own cursor, for its operators.
Keys == INSTANCE XanbusUI WITH
            position <- dev, known <- tracked, Items <- XanbusItems,
            Listed <- XanbusListed, InverterScreens <- XanbusInverter

InCall == phase # "ready" \/ left > 0

Running == Head(script).op

\* The keys of the running call that the inverter has not taken yet, if the
\* label does not show before.
KeysLeft == IF keys = <<>> THEN left ELSE left + 1

\* Where the inverter will be when the running call returns.
Final(key, stop) ==
    IF phase # "ready" /\ keys = <<>> /\ (left = 0 \/ dev \in stop)
    THEN dev
    ELSE Keys!Pressed(key, dev, KeysLeft, stop)

CursorThen ==
    CASE ~InCall -> Cursor
      [] InCall /\ Running \in HeadingCalls -> CursorAfter(Running)
      [] InCall /\ Running = "start" -> <<1, 0>>
      [] InCall /\ Running = "S" -> <<LastUser, 0>>
      [] OTHER -> Cursor

PositionThen ==
    CASE ~InCall -> dev
      [] InCall /\ KeyOf(Running) = "D" -> Final(Keys!Down, Keys!Labelled(Cursor))
      [] InCall /\ KeyOf(Running) = "U" -> Final(Keys!Up, Keys!Labelled(Cursor))
      [] InCall /\ Running = "start" -> Final(Keys!Left, XanbusInverter)
      [] InCall /\ Running = "L" -> Final(Keys!Left, Position)
      [] InCall /\ Running = "R" -> Final(Keys!Right, Position)
      [] InCall /\ Running = "S" -> <<LastUser + 1, 0>>
      [] OTHER -> dev

KnownThen ==
    /\ phase # "crashed"
    /\ CursorThen \in XanbusListed
    /\ tracked \/ (InCall /\ Running = "start")

Atomic == INSTANCE XanbusUI WITH
            menuheading <- IF KnownThen THEN CursorThen[1] ELSE 0,
            menuitem <- IF KnownThen THEN CursorThen[2] ELSE 0,
            position <- IF KnownThen THEN PositionThen ELSE <<1, 0>>,
            known <- KnownThen, Items <- XanbusItems,
            Listed <- XanbusListed, InverterScreens <- XanbusInverter

\* Every behaviour of the driver is one of a driver with atomic methods: the
\* two cursors move together, whatever the order of the calls, and however
\* many keys, screens and tries a call takes (MenuHeadingMinus to PollMeters
\* of xantrex-trace.cc and xanbus.cc, and the tables of both).
MethodsAreAtomic == Atomic!Spec
=============================================================================
