----------------------------- MODULE XantrexUI -----------------------------
(***************************************************************************)
(* The menu driver of the Xantrex (Trace) SW inverter, XantrexUI in        *)
(* devices/xantrex-trace.cc, talking through Serial (devices/serial.cc) to *)
(* an inverter that offers nothing but its two-line display and its        *)
(* buttons.  The program keeps a cursor of its own, <<menuheading,         *)
(* menuitem>>, and never asks the inverter where it is: it presses a key,  *)
(* reads what is on the line and moves its cursor.  The inverter's cursor  *)
(* is `dev'.  Everything here is about how far the two can drift apart.    *)
(*                                                                         *)
(* A running operation is a `script' of calls still to be made: the public *)
(* methods call one another in a fixed order (PollMeters calls             *)
(* GotoMenuItem, which calls GotoMenuStart, MenuHeadingPlus, ...), and     *)
(* only the leaf calls touch the serial line.  A leaf call is a Write of   *)
(* one key followed by a Read, repeated where the code repeats it.         *)
(*                                                                         *)
(* The inverter and the line are external: they are what the code and      *)
(* doc/C/xantrex.xml say of them (keys may be ignored, settings are        *)
(* displayed continuously, an answer may take longer than the select()     *)
(* timeout), each switched on by a constant.                               *)
(***************************************************************************)
EXTENDS Integers, Sequences

CONSTANTS
    LastUser,        \* heading of END USER MENU (8)
    LastHeading,     \* heading of END SETUP MENU (20)
    Items,           \* heading -> number of items below it on the inverter
    Listed,          \* the <<heading, item>> that GetItem() finds
    Label,           \* position -> label; equal labels cannot be told apart
    InverterScreens, \* positions whose screen contains the word "Inverter"
    StartTries,      \* tries of GotoMenuStart (22)
    ItemTries,       \* tries of MenuItemMinus and MenuItemPlus (5)
    MeterHeading,    \* `mh' of PollMeters (4)
    MeterItems,      \* `items' of PollMeters (7)
    Operations,      \* the operations the caller uses
    Targets,         \* the positions the caller asks GotoMenuItem for
    MayIgnore,       \* the inverter may ignore a key
    MayLag,          \* an answer may come after the 2 s timeout of Read
    Chatty,          \* the inverter repeats the screen of an item unasked
    MaxOverrun,      \* bound on the caller's R at the end of the menus
    MaxItem,         \* bound: the caller presses D only above this item
    MaxIgnored,      \* bound on the heading keys ignored
    MaxLine          \* bound on the screens and keys in flight

\* ReadSerial reads at most 100 bytes, and a screen takes 38 of them.
ReadMax == 2

Headings == 1..LastHeading

\* The positions of the inverter's cursor; item 0 is the heading itself.
Position == UNION {{h} \X (0..Items[h]) : h \in Headings}

\* Half a screen, as it arrives when read() cuts one in two.
Torn == <<0, 0>>

AllOperations ==
    {"MenuHeadingMinus", "MenuHeadingPlus", "MenuItemMinus", "MenuItemPlus",
     "SetPoint", "SetupMenu", "GotoMenuStart", "GotoMenuItem", "PollMeters"}

ASSUME MenuAssumption ==
    /\ LastUser \in Nat \ {0}
    /\ LastHeading \in Nat \ {0}
    /\ LastUser <= LastHeading
    /\ Items \in [Headings -> Nat]
    /\ DOMAIN Label = Position \cup {Torn}
    /\ \A p \in Position : Label[p] # Label[Torn]
    /\ InverterScreens \subseteq Position

ASSUME TriesAssumption ==
    /\ StartTries \in Nat \ {0}
    /\ ItemTries \in Nat \ {0}

ASSUME PollAssumption ==
    /\ MeterHeading \in 1..LastUser
    /\ MeterItems \in Nat

ASSUME CallerAssumption ==
    /\ Operations \subseteq AllOperations
    /\ Targets \subseteq (Position \cap Listed)

ASSUME LinkAssumption ==
    /\ MayIgnore \in BOOLEAN
    /\ MayLag \in BOOLEAN
    /\ Chatty \in BOOLEAN
    /\ MaxOverrun \in Nat
    /\ MaxItem \in Nat
    /\ MaxIgnored \in Nat
    /\ MaxLine \in Nat

VARIABLES
    menuheading,  \* the program's cursor
    menuitem,
    script,       \* the calls the running operation has still to make
    phase,        \* "ready" | "wait" (a key is written) | "crashed"
    left,         \* tries left of the call at the head of the script
    dev,          \* the inverter's cursor
    keys,         \* keys on their way to the inverter
    line,         \* screens in the serial port's input buffer
    tracked,      \* GotoMenuStart has run, and GetItem found every item since
    ignored,      \* heading keys ignored since GotoMenuStart last matched
    overrun,      \* R taken at the end of the menus, where it moves nothing, since
                  \* GotoMenuStart returned
    reading,      \* the last meter value the operation stored
    setting       \* the setting it changed on the inverter while tracked

host == <<menuheading, menuitem, script, phase, left>>
inverter == <<dev, keys, line>>
history == <<tracked, ignored, overrun, reading, setting>>
vars == <<host, inverter, history>>

Cursor == <<menuheading, menuitem>>

\* The calls that use the serial line: MenuHeadingMinus and MenuHeadingPlus,
\* MenuItemMinus and MenuItemPlus (whose result PollMeters stores or not), the
\* one-key buttons, SetupMenu and GotoMenuStart.
HeadingCalls == {"L", "R"}
ItemCalls == {"D", "U", "Dread", "Uread"}
LeafCalls == HeadingCalls \cup ItemCalls \cup {"+", "S", "start"}

\* A call of the script; `to' matters to the call that sets the cursor only.
Call(op) == [op |-> op, to |-> Torn]
SetCursor(p) == [op |-> "at", to |-> p]
Times(n, op) == [k \in 1..n |-> Call(op)]

NoReading == [want |-> Torn, from |-> Torn, at |-> Torn, matched |-> FALSE]
NoSetting == [want |-> Torn, at |-> Torn, over |-> 0]

----------------------------------------------------------------------------
(* The operations as sequences of calls.                                   *)

\* GotoMenuItem: start, mh-1 headings right, mi-1 items down, set the cursor.
GotoMenuItem(mh, mi) ==
    <<Call("start")>> \o Times(mh - 1, "R") \o Times(mi - 1, "D")
                      \o <<SetCursor(<<mh, mi>>)>>

\* PollMeters(1): down through the meters and back up, reading each, then
\* a heading right and a heading left to land on the heading's own line.
PollMeters ==
    GotoMenuItem(MeterHeading, 1) \o Times(MeterItems + 1, "Dread")
                      \o Times(MeterItems, "Uread") \o <<Call("R"), Call("L")>>

\* What the caller may ask for when no operation is running; MaxOverrun and
\* MaxItem bound how often.
Scripts(op) ==
    CASE op = "MenuHeadingMinus" -> {Times(1, "L")}
      [] op = "MenuHeadingPlus"  -> {s \in {Times(1, "R")} : overrun < MaxOverrun}
      [] op = "MenuItemMinus"    -> {s \in {Times(1, "D")} : menuitem < MaxItem}
      [] op = "MenuItemPlus"     -> {Times(1, "U")}
      [] op = "SetPoint"         -> {Times(1, "+")}
      [] op = "SetupMenu"        -> {Times(1, "S")}
      [] op = "GotoMenuStart"    -> {Times(1, "start")}
      [] op = "GotoMenuItem"     -> {GotoMenuItem(p[1], p[2]) : p \in Targets}
      [] op = "PollMeters"       -> {PollMeters}

Invoke(op) ==
    /\ script = <<>>
    /\ phase = "ready"
    /\ script' \in Scripts(op)
    /\ reading' = NoReading
    /\ setting' = NoSetting
    /\ UNCHANGED <<menuheading, menuitem, phase, left, inverter, tracked, ignored, overrun>>

----------------------------------------------------------------------------
(* Serial::Write and Serial::Read as the leaf calls use them.              *)

KeyOf(op) ==
    CASE op \in {"L", "start"} -> "L"
      [] op \in {"D", "Dread"} -> "D"
      [] op \in {"U", "Uread"} -> "U"
      [] OTHER -> op

\* Mutant: the item keys are pressed once and never again.
TriesOfPressedOnce(op) == IF op = "start" THEN StartTries ELSE 1

TriesOf(op) ==
    CASE op = "start" -> StartTries
      [] op \in {"D", "Dread", "U", "Uread"} -> ItemTries
      [] OTHER -> 1

\* The item the program moves to before the first key of MenuItemMinus
\* (menuitem++) and of MenuItemPlus (if (menuitem > 1) menuitem--).
ItemBefore(op) ==
    CASE op \in {"D", "Dread"} -> menuitem + 1
      [] op \in {"U", "Uread"} /\ menuitem > 1 -> menuitem - 1
      [] OTHER -> menuitem

\* Mutants: the tries are not counted down; the count is not set beforehand.
WriteUncounted ==
    /\ script # <<>>
    /\ phase = "ready"
    /\ Head(script).op \in LeafCalls
    /\ Len(keys) < MaxLine
    /\ LET op == Head(script).op
           item == IF left = 0 THEN ItemBefore(op) ELSE menuitem
       IN /\ menuitem' = item
          /\ left' = IF left = 0 THEN TriesOf(op) - 1 ELSE left
          /\ keys' = Append(keys, [key |-> KeyOf(op), for |-> <<menuheading, item>>])
    /\ phase' = "wait"
    /\ UNCHANGED <<menuheading, script, dev, line, history>>

WriteUnset ==
    /\ script # <<>>
    /\ phase = "ready"
    /\ Head(script).op \in LeafCalls
    /\ Len(keys) < MaxLine
    /\ menuitem' = ItemBefore(Head(script).op)
    /\ left' = left - 1
    /\ keys' = Append(keys, [key |-> KeyOf(Head(script).op),
                             for |-> <<menuheading, menuitem'>>])
    /\ phase' = "wait"
    /\ UNCHANGED <<menuheading, script, dev, line, history>>

\* One Write of a leaf call: the key goes out with the cursor it was meant for.
Write ==
    /\ script # <<>>
    /\ phase = "ready"
    /\ Head(script).op \in LeafCalls
    /\ Len(keys) < MaxLine
    /\ LET op == Head(script).op
           item == IF left = 0 THEN ItemBefore(op) ELSE menuitem
       IN /\ menuitem' = item
          /\ left' = IF left = 0 THEN TriesOf(op) - 1 ELSE left - 1
          /\ keys' = Append(keys, [key |-> KeyOf(op), for |-> <<menuheading, item>>])
    /\ phase' = "wait"
    /\ UNCHANGED <<menuheading, script, dev, line, history>>

\* What Read returns: everything that has arrived, up to the buffer's size;
\* nothing if the line is still silent when select() times out.
Display == SubSeq(line, 1, IF Len(line) < ReadMax THEN Len(line) ELSE ReadMax)

\* menudisp.find(label) and menudisp.find("Inverter")
Finds(p) == \E k \in 1..Len(Display) : Label[Display[k]] = Label[p]
FindsInverter == \E k \in 1..Len(Display) : Display[k] \in InverterScreens

\* Mutant: Read does not wait for an answer.
ReadSerialAtOnce(op) ==
    /\ script # <<>>
    /\ phase = "wait"
    /\ Head(script).op = op
    /\ line' = SubSeq(line, Len(Display) + 1, Len(line))
    /\ UNCHANGED <<dev, keys>>

ReadSerial(op) ==
    /\ script # <<>>
    /\ phase = "wait"
    /\ Head(script).op = op
    /\ line # <<>> \/ keys = <<>> \/ MayLag
    /\ line' = SubSeq(line, Len(Display) + 1, Len(line))
    /\ UNCHANGED <<dev, keys>>

\* The call at the head of the script has returned.
Return == script' = Tail(script) /\ phase' = "ready" /\ left' = 0

\* The loop of the call goes round once more.
Retry == script' = script /\ phase' = "ready" /\ left' = left

\* Whether menudisp.find(GetLabel()) succeeds for the cursor c.  Where the
\* table has no such item GetItem returns the end of a vector, and what its
\* label is then is anybody's guess.
LabelFound(c) == IF c \in Listed THEN {Finds(c)} ELSE BOOLEAN

----------------------------------------------------------------------------
(* The leaf calls, from the Read to the end of their loop body.            *)

\* Mutants: a heading key leaves the item as it was; L counts below 1.
CursorAfterKeepsItem(op) ==
    CASE op = "L" -> <<IF menuheading > 1 THEN menuheading - 1 ELSE menuheading, menuitem>>
      [] op = "R" -> <<menuheading + 1, menuitem>>
      [] OTHER -> Cursor

CursorAfterUnclamped(op) ==
    CASE op = "L" -> <<menuheading - 1, 0>>
      [] op = "R" -> <<menuheading + 1, 0>>
      [] OTHER -> Cursor

\* The cursor for which the call looks up a label: that of MenuHeadingMinus and
\* MenuHeadingPlus moves after the Read, clamped at one end only.
CursorAfter(op) ==
    CASE op = "L" -> <<IF menuheading > 1 THEN menuheading - 1 ELSE menuheading, 0>>
      [] op = "R" -> <<menuheading + 1, 0>>
      [] OTHER -> Cursor

\* MenuHeadingMinus and MenuHeadingPlus: whether the label shows is only logged.
MenuHeading(op) ==
    /\ ReadSerial(op)
    /\ menuheading' = CursorAfter(op)[1]
    /\ menuitem' = CursorAfter(op)[2]
    /\ Return
    /\ tracked' = (tracked /\ CursorAfter(op) \in Listed)
    /\ UNCHANGED <<ignored, overrun, reading, setting>>

\* The value stored for the item: GetValue takes the first number it finds in
\* the display, so it may be that of any screen the read returned.
Store(op, matched) ==
    IF op \in {"Dread", "Uread"} /\ Display # <<>>
    THEN \E k \in 1..Len(Display) :
            reading' = [want |-> Cursor, from |-> Display[k],
                        at |-> dev, matched |-> matched]
    ELSE reading' = reading

\* Mutant: the label does not stop the tries.
MenuItemPressesOn(op) ==
    /\ ReadSerial(op)
    /\ \E matched \in LabelFound(Cursor) :
          IF left = 0
          THEN Return /\ Store(op, matched)
          ELSE Retry /\ reading' = reading
    /\ tracked' = (tracked /\ Cursor \in Listed)
    /\ UNCHANGED <<menuheading, menuitem, ignored, overrun, setting>>

\* MenuItemMinus and MenuItemPlus: press until the label shows or the tries
\* are used up; PollMeters then stores what was read last, matched or not.
MenuItem(op) ==
    /\ ReadSerial(op)
    /\ \E matched \in LabelFound(Cursor) :
          IF matched \/ left = 0
          THEN Return /\ Store(op, matched)
          ELSE Retry /\ reading' = reading
    /\ tracked' = (tracked /\ Cursor \in Listed)
    /\ UNCHANGED <<menuheading, menuitem, ignored, overrun, setting>>

\* The other thing that reading past the end of a vector can do.
GetItemCrash ==
    /\ \E op \in HeadingCalls \cup ItemCalls :
          ReadSerial(op) /\ CursorAfter(op) \notin Listed
    /\ phase' = "crashed"
    /\ UNCHANGED <<menuheading, menuitem, script, left, history>>

\* SetPointPlus, SetPointMinus and the other one-key buttons.
SetPoint ==
    /\ ReadSerial("+")
    /\ Return
    /\ UNCHANGED <<menuheading, menuitem, history>>

SetupMenu ==
    /\ ReadSerial("S")
    /\ menuheading' = LastUser
    /\ menuitem' = 0
    /\ Return
    /\ UNCHANGED history

\* GotoMenuStart: L until the display mentions the inverter, 22 times at most;
\* the cursor is set to the first heading either way.
GotoMenuStart ==
    /\ ReadSerial("start")
    /\ IF FindsInverter \/ left = 0
       THEN /\ menuheading' = 1
            /\ menuitem' = 0
            /\ tracked' = TRUE
            /\ ignored' = IF FindsInverter THEN 0 ELSE ignored
            /\ overrun' = 0
            /\ Return
       ELSE Retry /\ UNCHANGED <<menuheading, menuitem, tracked, ignored, overrun>>
    /\ UNCHANGED <<reading, setting>>

\* The last assignments of GotoMenuItem.
GotoMenuItemEnd ==
    /\ script # <<>>
    /\ phase = "ready"
    /\ Head(script).op = "at"
    /\ menuheading' = Head(script).to[1]
    /\ menuitem' = Head(script).to[2]
    /\ Return
    /\ UNCHANGED <<inverter, history>>

\* Between operations the caller may read the line, as the console's loop does.
Listen ==
    /\ script = <<>>
    /\ phase = "ready"
    /\ line # <<>>
    /\ line' = SubSeq(line, Len(Display) + 1, Len(line))
    /\ UNCHANGED <<host, dev, keys, history>>

----------------------------------------------------------------------------
(* The inverter.                                                           *)

\* Where a key takes the inverter's cursor.  The user menus end at LastUser:
\* only the setup key leads beyond.
Moved(p, key) ==
    CASE key = "L" -> <<IF p[1] > 1 THEN p[1] - 1 ELSE 1, 0>>
      [] key = "R" -> <<IF p[1] \in {LastUser, LastHeading} THEN p[1] ELSE p[1] + 1, 0>>
      [] key = "D" -> <<p[1], IF p[2] < Items[p[1]] THEN p[2] + 1 ELSE p[2]>>
      [] key = "U" -> <<p[1], IF p[2] > 0 THEN p[2] - 1 ELSE 0>>
      [] key = "S" -> <<IF LastUser < LastHeading THEN LastUser + 1 ELSE LastUser, 0>>
      [] OTHER -> p

\* A screen reaches the input buffer: whole, or cut in two by a read() that
\* came while it was being sent; it is lost when the buffer is full.
Send(p) ==
    IF Len(line) < MaxLine
    THEN \E s \in {p} \cup IF MayLag THEN {Torn} ELSE {} : line' = Append(line, s)
    ELSE line' = line

\* The inverter acts on a key and displays where it is now.
TakeKey ==
    /\ keys # <<>>
    /\ keys' = Tail(keys)
    /\ dev' = Moved(dev, Head(keys).key)
    /\ Send(dev')
    /\ setting' = IF Head(keys).key = "+" /\ dev[2] > 0 /\ tracked
                  THEN [want |-> Head(keys).for, at |-> dev, over |-> overrun]
                  ELSE setting
    /\ overrun' = IF Head(keys).key = "R" /\ dev'[1] = dev[1] THEN overrun + 1 ELSE overrun
    /\ UNCHANGED <<host, tracked, ignored, reading>>

\* "when you send a character it often gets ignored"
IgnoreKey ==
    /\ MayIgnore
    /\ keys # <<>>
    /\ keys' = Tail(keys)
    /\ IF Head(keys).key \in {"L", "R"}
       THEN ignored < MaxIgnored /\ ignored' = ignored + 1
       ELSE ignored' = ignored
    /\ UNCHANGED <<host, dev, line, tracked, overrun, reading, setting>>

\* "All the settings are continuously displayed while you are at that menu item"
Refresh ==
    /\ Chatty
    /\ dev[2] > 0
    /\ Len(line) < MaxLine
    /\ Send(dev)
    /\ UNCHANGED <<host, dev, keys, history>>

----------------------------------------------------------------------------
\* The cursor members are not initialised by the constructor; the inverter is
\* wherever its buttons were last used, in the user menus.
Init ==
    /\ menuheading \in {0, 1, LastHeading + 2}
    /\ menuitem \in 0..1
    /\ script = <<>>
    /\ phase = "ready"
    /\ left = 0
    /\ dev \in {p \in Position : p[1] <= LastUser}
    /\ keys = <<>>
    /\ line = <<>>
    /\ tracked = FALSE
    /\ ignored = 0
    /\ overrun = 0
    /\ reading = NoReading
    /\ setting = NoSetting

HostStep ==
    \/ Write
    \/ \E op \in HeadingCalls : MenuHeading(op)
    \/ \E op \in ItemCalls : MenuItem(op)
    \/ GetItemCrash
    \/ SetPoint
    \/ SetupMenu
    \/ GotoMenuStart
    \/ GotoMenuItemEnd

DeviceStep == TakeKey \/ IgnoreKey

Next ==
    \/ \E op \in Operations : Invoke(op)
    \/ Listen
    \/ HostStep
    \/ DeviceStep
    \/ Refresh

Spec == Init /\ [][Next]_vars

\* Serial::Read always comes back (its select() has a timeout) and the host
\* goes on; the inverter deals with the keys it has been sent.
FairSpec == Spec /\ WF_vars(HostStep) /\ WF_vars(DeviceStep)

----------------------------------------------------------------------------
TypeOK ==
    /\ menuheading \in Nat
    /\ menuitem \in Nat
    /\ script \in Seq([op : LeafCalls \cup {"at"}, to : Nat \X Nat])
    /\ phase \in {"ready", "wait", "crashed"}
    /\ left \in Nat
    /\ dev \in Position
    /\ keys \in Seq([key : {"L", "R", "D", "U", "+", "S"}, for : Nat \X Nat])
    /\ line \in Seq(Position \cup {Torn})
    /\ tracked \in BOOLEAN
    /\ ignored \in Nat
    /\ overrun \in Nat
    /\ reading \in [want : Nat \X Nat, from : Position \cup {Torn},
                    at : Position \cup {Torn}, matched : BOOLEAN]
    /\ setting \in [want : Nat \X Nat, at : Position \cup {Torn}, over : Nat]

Idle == script = <<>> /\ phase = "ready"

\* Between operations the program's heading is ahead of the inverter's by no
\* more than the R the inverter could not follow, since MenuHeadingPlus counts on
\* at END USER MENU; and where the headings agree the items do.  The one slack:
\* at item 1 the inverter may still show the heading, since MenuItemPlus never
\* counts below 1 and GotoMenuItem presses D one time less than it counts.
\* (MenuItemMinus, MenuItemPlus, MenuHeadingMinus, MenuHeadingPlus, PollMeters)
CursorInStep ==
    Idle /\ tracked =>
        /\ menuheading - dev[1] \in 0..overrun
        /\ dev[1] = menuheading =>
              dev[2] = menuitem \/ (menuitem = 1 /\ dev[2] = 0)

\* A meter value is stored under the label of the item it was displayed for
\* (PollMeters, by way of MenuItemMinus and MenuItemPlus).
ReadingIsOwn == reading.from = reading.want

\* When the label was seen, the value is the item's own and the inverter still
\* is at that item: the retries of MenuItemMinus and MenuItemPlus neither take
\* one item's screen for another's nor press once too often.
MatchedMeansThere ==
    reading.matched => reading.from = reading.want /\ reading.at = reading.want

\* A set point key changes the setting the program believes it is at
\* (SetPointPlus and SetPointMinus after any navigation).
SettingIsOwn == setting.at = setting.want

\* A set point key changes the setting the program believes it is at, or one
\* below an earlier heading: earlier by no more than the R that ran past the
\* end of the menus since GotoMenuStart, so that without any it is the own one.
\* (SetPointPlus and SetPointMinus after any walk with the six menu keys.)
SettingIsNear ==
    /\ setting.want[1] - setting.at[1] \in 0..setting.over
    /\ setting.want[1] = setting.at[1] => setting.at = setting.want

\* The heading is off by no more than the heading keys the inverter has ignored
\* since GotoMenuStart last saw the first heading, and ahead by the R it has
\* taken at the end of the menus: no sequence of operations adds up to more
\* (MenuHeadingMinus, MenuHeadingPlus, GotoMenuStart).
HeadingDrift ==
    Idle /\ tracked =>
        /\ menuheading - dev[1] <= ignored + overrun
        /\ dev[1] - menuheading <= ignored

\* Every operation ends, whatever the line does: all loops of the driver count
\* their tries (GotoMenuStart, MenuItemMinus, MenuItemPlus, PollMeters).
OperationEnds == []<>(script = <<>> \/ phase = "crashed")
=============================================================================
