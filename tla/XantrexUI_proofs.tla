-------------------------- MODULE XantrexUI_proofs --------------------------
(***************************************************************************)
(* Proofs about XantrexUI, for every menu, every number of tries and every *)
(* table of labels.                                                        *)
(***************************************************************************)
EXTENDS XantrexUI, TLAPS

Calls == [op : LeafCalls \cup {"at"}, to : Nat \X Nat]
Screens == Position \cup {Torn}

----------------------------------------------------------------------------
(* The operators the actions are built from.                               *)

LEMMA PositionParts ==
    ASSUME NEW p \in Position
    PROVE  p = <<p[1], p[2]>> /\ p[1] \in Headings /\ p[2] \in 0..Items[p[1]]
BY DEF Position

LEMMA PositionOf ==
    ASSUME NEW h \in Headings, NEW i \in 0..Items[h]
    PROVE  <<h, i>> \in Position
BY DEF Position

LEMMA PositionPair ==
    ASSUME NEW p \in Position
    PROVE  p \in Nat \X Nat
<1>1. p = <<p[1], p[2]>> /\ p[1] \in Headings /\ p[2] \in 0..Items[p[1]]
  BY PositionParts
<1>2. p[1] \in Nat /\ p[2] \in Nat
  BY <1>1, MenuAssumption DEF Headings
<1> QED
  BY <1>1, <1>2

\* A key takes the inverter's cursor to a position of its menus.
LEMMA MovedType ==
    ASSUME NEW p \in Position, NEW key
    PROVE  Moved(p, key) \in Position
<1>h. PICK h \in Headings : p[1] = h
  BY PositionParts
<1>i. PICK i \in 0..Items[h] : p = <<h, i>>
  BY <1>h, PositionParts
<1>1. p = <<h, i>> /\ p[1] = h /\ p[2] = i /\ Items[h] \in Nat
  BY <1>i, MenuAssumption
<1>2. \A g \in Headings : Items[g] \in Nat /\ <<g, 0>> \in Position
  BY MenuAssumption, PositionOf DEF Headings
<1>3. h \in Nat /\ h >= 1 /\ h <= LastHeading /\ LastUser <= LastHeading
      /\ LastUser \in Nat \ {0} /\ LastHeading \in Nat
  BY MenuAssumption DEF Headings
<1>4. CASE key = "L"
  <2>1. (IF h > 1 THEN h - 1 ELSE 1) \in Headings
    BY <1>3 DEF Headings
  <2> QED
    BY <1>1, <1>2, <1>4, <2>1 DEF Moved
<1>5. CASE key = "R"
  <2>1. (IF h \in {LastUser, LastHeading} THEN h ELSE h + 1) \in Headings
    BY <1>3 DEF Headings
  <2> QED
    BY <1>1, <1>2, <1>5, <2>1 DEF Moved
<1>6. CASE key = "D"
  <2>1. (IF i < Items[h] THEN i + 1 ELSE i) \in 0..Items[h]
    BY <1>1
  <2>2. <<h, IF i < Items[h] THEN i + 1 ELSE i>> \in Position
    BY <2>1, PositionOf
  <2> QED
    BY <1>1, <1>6, <2>2 DEF Moved
<1>7. CASE key = "U"
  <2>1. (IF i > 0 THEN i - 1 ELSE 0) \in 0..Items[h]
    BY <1>1
  <2>2. <<h, IF i > 0 THEN i - 1 ELSE 0>> \in Position
    BY <2>1, PositionOf
  <2> QED
    BY <1>1, <1>7, <2>2 DEF Moved
<1>8. CASE key = "S"
  <2>1. (IF LastUser < LastHeading THEN LastUser + 1 ELSE LastUser) \in Headings
    BY <1>3 DEF Headings
  <2> QED
    BY <1>2, <1>8, <2>1 DEF Moved
<1>9. CASE key \notin {"L", "R", "D", "U", "S"}
  BY <1>9 DEF Moved
<1> QED
  BY <1>4, <1>5, <1>6, <1>7, <1>8, <1>9

\* What a read takes off the line, and what it leaves.
LEMMA DisplayType ==
    ASSUME line \in Seq(Screens)
    PROVE  /\ Display \in Seq(Screens)
           /\ \A k \in 1..Len(Display) : Display[k] \in Screens
           /\ SubSeq(line, Len(Display) + 1, Len(line)) \in Seq(Screens)
<1> DEFINE n == IF Len(line) < ReadMax THEN Len(line) ELSE ReadMax
<1>1. n \in 0..Len(line)
  BY DEF ReadMax
<1>2. Display \in Seq(Screens) /\ Len(Display) = n
  BY <1>1 DEF Display
<1> QED
  BY <1>1, <1>2

LEMMA TimesType ==
    ASSUME NEW n \in Int, NEW op \in LeafCalls
    PROVE  Times(n, op) \in Seq(Calls)
<1>1. Call(op) \in Calls
  BY DEF Call, Calls, Torn
<1> QED
  BY <1>1 DEF Times

LEMMA GotoType ==
    ASSUME NEW mh \in Nat, NEW mi \in Nat
    PROVE  GotoMenuItem(mh, mi) \in Seq(Calls)
<1>1. /\ Times(mh - 1, "R") \in Seq(Calls)
      /\ Times(mi - 1, "D") \in Seq(Calls)
  BY TimesType DEF LeafCalls, HeadingCalls, ItemCalls
<1>2. Call("start") \in Calls /\ SetCursor(<<mh, mi>>) \in Calls
  BY DEF Call, SetCursor, Calls, LeafCalls, Torn
<1> HIDE DEF SetCursor
<1> QED
  BY <1>1, <1>2 DEF GotoMenuItem

\* Whatever the caller asks for is a sequence of calls.
LEMMA ScriptsType ==
    ASSUME menuheading \in Nat, NEW op \in Operations, NEW s \in Scripts(op)
    PROVE  s \in Seq(Calls)
<1>1. ASSUME NEW c \in LeafCalls, NEW n \in Int
      PROVE  Times(n, c) \in Seq(Calls)
  BY TimesType
<1>2. ASSUME NEW p \in Nat \X Nat
      PROVE  GotoMenuItem(p[1], p[2]) \in Seq(Calls)
  BY <1>2, GotoType
<1>3. \A p \in Targets : GotoMenuItem(p[1], p[2]) \in Seq(Calls)
  BY <1>2, PositionPair, CallerAssumption
<1>4. PollMeters \in Seq(Calls)
  <2>1. MeterHeading \in Nat /\ MeterItems \in Nat
    BY PollAssumption, MenuAssumption
  <2>2. GotoMenuItem(MeterHeading, 1) \in Seq(Calls)
    BY <2>1, GotoType
  <2>3. /\ Times(MeterItems + 1, "Dread") \in Seq(Calls)
        /\ Times(MeterItems, "Uread") \in Seq(Calls)
    <3>1. "Dread" \in LeafCalls /\ "Uread" \in LeafCalls /\ MeterItems + 1 \in Int
      BY <2>1 DEF LeafCalls, ItemCalls
    <3> QED
      BY <2>1, <3>1, <1>1
  <2>4. Call("R") \in Calls /\ Call("L") \in Calls
    BY DEF Call, Calls, LeafCalls, HeadingCalls, Torn
  <2> QED
    BY <2>2, <2>3, <2>4 DEF PollMeters
<1>5. ASSUME NEW c \in LeafCalls, s = Times(1, c)
      PROVE  s \in Seq(Calls)
  BY <1>1, <1>5
<1>6. ASSUME op \notin {"GotoMenuItem", "PollMeters"}
      PROVE  \E c \in LeafCalls : s = Times(1, c)
  <2>1. op = "MenuHeadingMinus" => s = Times(1, "L")
    BY DEF Scripts
  <2>2. op = "MenuHeadingPlus" => s = Times(1, "R")
    BY DEF Scripts
  <2>3. op = "MenuItemMinus" => s = Times(1, "D")
    BY DEF Scripts
  <2>4. op = "MenuItemPlus" => s = Times(1, "U")
    BY DEF Scripts
  <2>5. op = "SetPoint" => s = Times(1, "+")
    BY DEF Scripts
  <2>6. op = "SetupMenu" => s = Times(1, "S")
    BY DEF Scripts
  <2>7. op = "GotoMenuStart" => s = Times(1, "start")
    BY DEF Scripts
  <2>8. op \in {"MenuHeadingMinus", "MenuHeadingPlus", "MenuItemMinus", "MenuItemPlus",
                "SetPoint", "SetupMenu", "GotoMenuStart"}
    BY <1>6, CallerAssumption DEF AllOperations
  <2>9. {"L", "R", "D", "U", "+", "S", "start"} \subseteq LeafCalls
    BY DEF LeafCalls, HeadingCalls, ItemCalls
  <2> QED
    BY <2>1, <2>2, <2>3, <2>4, <2>5, <2>6, <2>7, <2>8, <2>9
<1>7. CASE op = "GotoMenuItem"
  BY <1>3, <1>7 DEF Scripts
<1>8. CASE op = "PollMeters"
  BY <1>4, <1>8 DEF Scripts
<1> QED
  BY <1>5, <1>6, <1>7, <1>8

----------------------------------------------------------------------------
(* Type correctness.                                                       *)

Pressed == [key : {"L", "R", "D", "U", "+", "S"}, for : Nat \X Nat]
Readings == [want : Nat \X Nat, from : Screens, at : Screens, matched : BOOLEAN]
Settings == [want : Nat \X Nat, at : Screens, over : Nat]

LEMMA InitType == Init => TypeOK
<1> SUFFICES ASSUME Init PROVE TypeOK
  OBVIOUS
<1>1. LastHeading + 2 \in Nat
  BY MenuAssumption
<1>2. /\ menuheading \in Nat
      /\ menuitem \in Nat
      /\ dev \in Position
      /\ phase = "ready"
      /\ left = 0
      /\ ignored = 0
      /\ overrun = 0
  BY <1>1 DEF Init
<1>3. /\ script \in Seq(Calls)
      /\ keys \in Seq(Pressed)
      /\ line \in Seq(Screens)
  BY DEF Init
<1>4. tracked \in BOOLEAN
  BY DEF Init
<1>5. NoReading \in Readings /\ NoSetting \in Settings
  BY DEF NoReading, NoSetting, Readings, Settings, Screens, Torn
<1>6. reading \in Readings /\ setting \in Settings
  BY <1>5 DEF Init
<1> QED
  BY <1>2, <1>3, <1>4, <1>6 DEF TypeOK, Calls, Pressed, Screens, Readings, Settings

\* The call at the head of the script.
LEMMA HeadType ==
    ASSUME TypeOK, script # <<>>
    PROVE  /\ Head(script) \in Calls
           /\ Tail(script) \in Seq(Calls)
<1>1. script \in Seq(Calls)
  BY DEF TypeOK, Calls
<1> QED
  BY <1>1

LEMMA WriteType ==
    ASSUME TypeOK, Write
    PROVE  TypeOK'
<1> DEFINE op == Head(script).op
           item == IF left = 0 THEN ItemBefore(op) ELSE menuitem
           press == [key |-> KeyOf(op), for |-> <<menuheading, item>>]
<1>1. op \in LeafCalls
  BY DEF Write
<1>2. item \in Nat
  BY SMTT(20) DEF TypeOK, ItemBefore
<1>3. KeyOf(op) \in {"L", "R", "D", "U", "+", "S"}
  BY <1>1 DEF KeyOf, LeafCalls, HeadingCalls, ItemCalls
<1>4. press \in Pressed
  BY <1>2, <1>3 DEF TypeOK, Pressed
<1>5. keys' \in Seq(Pressed)
  BY <1>4 DEF Write, TypeOK, Pressed
<1>6. (IF left = 0 THEN TriesOf(op) - 1 ELSE left - 1) \in Nat
  <2>1. TriesOf(op) \in Nat \ {0}
    BY TriesAssumption DEF TriesOf
  <2>2. left \in Nat
    BY DEF TypeOK
  <2> QED
    BY <2>1, <2>2
<1>7. left' \in Nat /\ menuitem' \in Nat
  BY <1>2, <1>6 DEF Write
<1> QED
  BY <1>5, <1>7 DEF Write, TypeOK, Pressed, history

\* What every return from Read leaves to the line and the script.
LEMMA ReadType ==
    ASSUME TypeOK, NEW op, ReadSerial(op)
    PROVE  /\ line' \in Seq(Screens)
           /\ dev' = dev /\ keys' = keys
           /\ Return \/ Retry =>
                /\ script' \in Seq(Calls)
                /\ phase' = "ready"
                /\ left' \in Nat
<1>1. line \in Seq(Screens)
  BY DEF TypeOK, Screens
<1>2. line' \in Seq(Screens)
  BY <1>1, DisplayType DEF ReadSerial
<1>3. script \in Seq(Calls)
  BY DEF TypeOK, Calls
<1>4. Tail(script) \in Seq(Calls)
  BY HeadType DEF ReadSerial
<1>5. dev' = dev /\ keys' = keys
  BY DEF ReadSerial
<1>6. Return => script' \in Seq(Calls) /\ phase' = "ready" /\ left' \in Nat
  BY <1>4 DEF Return
<1>7. Retry => script' \in Seq(Calls) /\ phase' = "ready" /\ left' \in Nat
  BY <1>3 DEF Retry, TypeOK
<1> QED
  BY <1>2, <1>5, <1>6, <1>7

LEMMA CursorAfterType ==
    ASSUME TypeOK, NEW op
    PROVE  /\ CursorAfter(op)[1] \in Nat
           /\ CursorAfter(op)[2] \in Nat
           /\ Cursor \in Nat \X Nat
BY SMTT(20) DEF TypeOK, CursorAfter, Cursor

LEMMA StoreType ==
    ASSUME TypeOK, NEW op, NEW matched \in BOOLEAN, Store(op, matched)
    PROVE  reading' \in Readings
<1>1. CASE reading' = reading
  BY <1>1 DEF TypeOK, Readings, Screens
<1>2. ASSUME NEW k \in 1..Len(Display),
             reading' = [want |-> Cursor, from |-> Display[k],
                         at |-> dev, matched |-> matched]
      PROVE  reading' \in Readings
  <2>1. line \in Seq(Screens)
    BY DEF TypeOK, Screens
  <2>2. Display[k] \in Screens
    BY <1>2, <2>1, DisplayType
  <2>3. Cursor \in Nat \X Nat /\ dev \in Screens
    BY CursorAfterType DEF TypeOK, Screens
  <2> QED
    BY <1>2, <2>2, <2>3 DEF Readings
<1> QED
  BY <1>1, <1>2 DEF Store

LEMMA MenuItemType ==
    ASSUME TypeOK, NEW op, MenuItem(op)
    PROVE  TypeOK'
<1>1. PICK matched \in LabelFound(Cursor) :
         IF matched \/ left = 0
         THEN Return /\ Store(op, matched)
         ELSE Retry /\ reading' = reading
  BY DEF MenuItem
<1>2. matched \in BOOLEAN
  BY <1>1 DEF LabelFound, Finds
<1>3. reading' \in Readings
  BY <1>1, <1>2, StoreType DEF TypeOK, Readings, Screens
<1>4. /\ line' \in Seq(Screens)
      /\ dev' = dev /\ keys' = keys
      /\ script' \in Seq(Calls)
      /\ phase' = "ready"
      /\ left' \in Nat
  BY <1>1, ReadType DEF MenuItem
<1>5. tracked' \in BOOLEAN
  BY Zenon DEF MenuItem, TypeOK
<1> QED
  BY <1>3, <1>4, <1>5 DEF MenuItem, TypeOK, Calls, Screens, Readings

LEMMA MenuHeadingType ==
    ASSUME TypeOK, NEW op, MenuHeading(op)
    PROVE  TypeOK'
<1>1. /\ line' \in Seq(Screens)
      /\ dev' = dev /\ keys' = keys
      /\ script' \in Seq(Calls)
      /\ phase' = "ready"
      /\ left' \in Nat
  BY ReadType DEF MenuHeading
<1>2. menuheading' \in Nat /\ menuitem' \in Nat
  BY CursorAfterType DEF MenuHeading
<1>3. tracked' \in BOOLEAN
  BY Zenon DEF MenuHeading, TypeOK
<1> QED
  BY <1>1, <1>2, <1>3 DEF MenuHeading, TypeOK, Calls, Screens

\* The leaf calls that do not look for a label.
LEMMA OtherCallType ==
    ASSUME TypeOK, SetPoint \/ SetupMenu \/ GotoMenuStart
    PROVE  TypeOK'
<1>1. /\ line' \in Seq(Screens)
      /\ dev' = dev /\ keys' = keys
      /\ script' \in Seq(Calls)
      /\ phase' = "ready"
      /\ left' \in Nat
  <2>1. CASE SetPoint
    BY <2>1, ReadType DEF SetPoint
  <2>2. CASE SetupMenu
    BY <2>2, ReadType DEF SetupMenu
  <2>3. CASE GotoMenuStart
    BY <2>3, ReadType DEF GotoMenuStart
  <2> QED
    BY <2>1, <2>2, <2>3
<1>2. menuheading' \in Nat /\ menuitem' \in Nat /\ ignored' \in Nat /\ overrun' \in Nat
  BY MenuAssumption, SMTT(20) DEF SetPoint, SetupMenu, GotoMenuStart, TypeOK, history
<1>3. tracked' \in BOOLEAN
  BY Zenon DEF SetPoint, SetupMenu, GotoMenuStart, TypeOK, history
<1>4. reading' = reading /\ setting' = setting
  BY DEF SetPoint, SetupMenu, GotoMenuStart, history
<1> QED
  BY <1>1, <1>2, <1>3, <1>4 DEF TypeOK, Calls, Screens

LEMMA CrashType ==
    ASSUME TypeOK, GetItemCrash
    PROVE  TypeOK'
<1>1. PICK op \in HeadingCalls \cup ItemCalls : ReadSerial(op)
  BY DEF GetItemCrash
<1>2. line' \in Seq(Screens) /\ dev' = dev /\ keys' = keys
  BY <1>1, ReadType
<1> QED
  BY <1>2 DEF GetItemCrash, TypeOK, Screens, history

LEMMA EndType ==
    ASSUME TypeOK, GotoMenuItemEnd
    PROVE  TypeOK'
<1>1. Head(script) \in Calls /\ Tail(script) \in Seq(Calls)
  BY HeadType DEF GotoMenuItemEnd
<1>2. menuheading' \in Nat /\ menuitem' \in Nat
  BY <1>1 DEF GotoMenuItemEnd, Calls
<1> QED
  BY <1>1, <1>2 DEF GotoMenuItemEnd, Return, TypeOK, Calls, inverter, history

LEMMA InvokeType ==
    ASSUME TypeOK, NEW op \in Operations, Invoke(op)
    PROVE  TypeOK'
<1>1. script' \in Seq(Calls)
  BY ScriptsType DEF Invoke, TypeOK
<1>2. reading' \in Readings /\ setting' \in Settings
  BY DEF Invoke, NoReading, NoSetting, Readings, Settings, Screens, Torn
<1> QED
  BY <1>1, <1>2 DEF Invoke, TypeOK, Calls, Screens, Readings, Settings, inverter

LEMMA ListenType ==
    ASSUME TypeOK, Listen
    PROVE  TypeOK'
<1>1. line \in Seq(Screens)
  BY DEF TypeOK, Screens
<1>2. line' \in Seq(Screens)
  BY <1>1, DisplayType DEF Listen
<1> QED
  BY <1>2 DEF Listen, TypeOK, Screens, host, history

LEMMA SendType ==
    ASSUME TypeOK, NEW p \in Position, Send(p)
    PROVE  line' \in Seq(Screens)
<1>1. line \in Seq(Screens)
  BY DEF TypeOK, Screens
<1>2. \A t \in {p} \cup (IF MayLag THEN {Torn} ELSE {}) : t \in Screens
  BY DEF Screens
<1> QED
  BY <1>1, <1>2 DEF Send

LEMMA KeyType ==
    ASSUME TypeOK, keys # <<>>
    PROVE  Head(keys) \in Pressed /\ Tail(keys) \in Seq(Pressed)
<1>1. keys \in Seq(Pressed)
  BY DEF TypeOK, Pressed
<1> QED
  BY <1>1

LEMMA DeviceType ==
    ASSUME TypeOK, TakeKey \/ IgnoreKey \/ Refresh
    PROVE  TypeOK'
<1>1. CASE TakeKey
  <2>1. Head(keys) \in Pressed /\ Tail(keys) \in Seq(Pressed)
    BY <1>1, KeyType DEF TakeKey
  <2>2. dev' \in Position
    BY <1>1, MovedType DEF TakeKey, TypeOK
  <2>3. line' \in Seq(Screens)
    BY <1>1, <2>2, SendType DEF TakeKey
  <2>4. setting' \in Settings
    BY <1>1, <2>1 DEF TakeKey, TypeOK, Settings, Screens, Pressed
  <2>5. overrun' \in Nat
    BY <1>1 DEF TakeKey, TypeOK
  <2> QED
    BY <1>1, <2>1, <2>2, <2>3, <2>4, <2>5
       DEF TakeKey, TypeOK, Pressed, Screens, Settings, host
<1>2. CASE IgnoreKey
  <2>1. keys' \in Seq(Pressed)
    BY <1>2, KeyType DEF IgnoreKey
  <2>2. ignored' \in Nat
    BY <1>2, SMTT(20) DEF IgnoreKey, TypeOK
  <2> QED
    BY <1>2, <2>1, <2>2 DEF IgnoreKey, TypeOK, Pressed, host
<1>3. CASE Refresh
  <2>1. line' \in Seq(Screens)
    BY <1>3, SendType DEF Refresh, TypeOK
  <2> QED
    BY <1>3, <2>1 DEF Refresh, TypeOK, Screens, host, history
<1> QED
  BY <1>1, <1>2, <1>3

LEMMA NextType == TypeOK /\ [Next]_vars => TypeOK'
<1> SUFFICES ASSUME TypeOK, [Next]_vars PROVE TypeOK'
  OBVIOUS
<1>1. CASE \E op \in Operations : Invoke(op)
  BY <1>1, InvokeType
<1>2. CASE HostStep
  BY <1>2, WriteType, MenuHeadingType, MenuItemType, CrashType, OtherCallType, EndType
     DEF HostStep
<1>3. CASE DeviceStep \/ Refresh
  BY <1>3, DeviceType DEF DeviceStep
<1>4. CASE Listen
  BY <1>4, ListenType
<1>5. CASE UNCHANGED vars
  BY <1>5 DEF vars, host, inverter, history, TypeOK
<1> QED
  BY <1>1, <1>2, <1>3, <1>4, <1>5 DEF Next

\* Every variable keeps its type, whatever the caller asks for and whatever the
\* line does; above all the inverter's cursor stays in its menus and the
\* program's never goes negative (every operation of XantrexUI).
THEOREM TypeCorrect == Spec => []TypeOK
BY InitType, NextType, PTL DEF Spec

----------------------------------------------------------------------------
(* What the caller and the line may do, as far as the theorems need it.    *)

\* The caller does not take the inverter to the setup menus nor asks for them.
UserMenusOnly ==
    /\ "SetupMenu" \notin Operations
    /\ \A p \in Targets : p[1] <= LastUser

\* GotoMenuItem is asked for headings and first items: further down it presses
\* D one time less than it counts.
NearTargets == "GotoMenuItem" \in Operations => \A p \in Targets : p[2] <= 1

\* The line answers in time and only when asked.
LineInTime == ~MayLag /\ ~Chatty

\* The items PollMeters reads.
Meters == {<<MeterHeading, i>> : i \in 2..(MeterItems + 2)}

\* GetItem finds them, and the headings on the way to them.
MetersListed == Meters \subseteq Listed
WayListed == \A h \in 2..MeterHeading : <<h, 0>> \in Listed

----------------------------------------------------------------------------
(* Where the calls still to be made take the program's cursor.  Beside the *)
(* cursor a state of the plan says how it got there: "straight" when no    *)
(* heading key since GotoMenuStart led past the last user heading, "sure"  *)
(* when besides GetItem is to find every item on the way, "lost" otherwise.*)

Flags == {"sure", "straight", "lost"}
Knowledge == Nat \X Nat \X Flags
At(c) == <<c[1], c[2]>>
Reads == {"Dread", "Uread"}

\* A call made at c leaves the program at d.
Leads(call, c, d) ==
    /\ \/ call.op = "L" /\ At(d) = <<IF c[1] > 1 THEN c[1] - 1 ELSE c[1], 0>>
       \/ call.op = "R" /\ At(d) = <<c[1] + 1, 0>>
       \/ call.op \in {"D", "Dread"} /\ At(d) = <<c[1], c[2] + 1>>
       \/ call.op \in {"U", "Uread"} /\ At(d) = <<c[1], IF c[2] > 1 THEN c[2] - 1 ELSE c[2]>>
       \/ call.op = "+" /\ At(d) = At(c)
       \/ call.op = "S" /\ At(d) = <<LastUser, 0>> /\ ~UserMenusOnly
       \/ call.op = "start" /\ At(d) = <<1, 0>>
       \/ /\ call.op = "at" /\ At(d) = call.to
          /\ At(c) = <<d[1], IF d[2] > 0 THEN d[2] - 1 ELSE 0>>
          /\ NearTargets => d[2] <= 1
          /\ UserMenusOnly => c[3] # "lost"
    /\ call.op \in Reads =>
          At(d) \in Meters /\ (MetersListed /\ WayListed => d[3] = "sure")
    /\ d[3] = "sure" /\ call.op # "start" =>
          c[3] = "sure" /\ (call.op \in HeadingCalls \cup ItemCalls => At(d) \in Listed)
    /\ d[3] # "lost" /\ call.op # "start" =>
          c[3] # "lost" /\ call.op # "S" /\ (call.op = "R" => c[1] < LastUser)

\* The calls of s made one after the other, by way of the states f.
Route(s, f) == \A k \in 1..Len(s) : Leads(s[k], f[k - 1], f[k])
Plan(s, c, d) ==
    \E f \in [0..Len(s) -> Knowledge] : f[0] = c /\ f[Len(s)] = d /\ Route(s, f)

LEMMA PlanOne ==
    ASSUME NEW call, NEW c \in Knowledge, NEW d \in Knowledge, Leads(call, c, d)
    PROVE  Plan(<<call>>, c, d)
<1> DEFINE f == [k \in 0..1 |-> IF k = 0 THEN c ELSE d]
<1>1. f \in [0..Len(<<call>>) -> Knowledge] /\ f[0] = c /\ f[1] = d /\ Len(<<call>>) = 1
  OBVIOUS
<1>2. Route(<<call>>, f)
  BY <1>1 DEF Route
<1> QED
  BY <1>1, <1>2 DEF Plan

LEMMA PlanTail ==
    ASSUME NEW s \in Seq(Calls), s # <<>>,
           NEW c \in Knowledge, NEW e \in Knowledge, Plan(s, c, e)
    PROVE  \E d \in Knowledge : Leads(Head(s), c, d) /\ Plan(Tail(s), d, e)
<1>1. PICK f \in [0..Len(s) -> Knowledge] : f[0] = c /\ f[Len(s)] = e /\ Route(s, f)
  BY DEF Plan
<1>2. Len(s) \in Nat \ {0} /\ Len(Tail(s)) = Len(s) - 1 /\ Head(s) = s[1]
  OBVIOUS
<1>3. Leads(Head(s), c, f[1]) /\ f[1] \in Knowledge
  BY <1>1, <1>2 DEF Route
<1> DEFINE t == [k \in 0..(Len(s) - 1) |-> f[k + 1]]
<1>4. t \in [0..Len(Tail(s)) -> Knowledge] /\ t[0] = f[1] /\ t[Len(Tail(s))] = e
  BY <1>1, <1>2
<1>5. ASSUME NEW k \in 1..Len(Tail(s))
      PROVE  Leads(Tail(s)[k], t[k - 1], t[k])
  <2>1. Tail(s)[k] = s[k + 1] /\ t[k - 1] = f[k] /\ t[k] = f[k + 1]
    BY <1>2, <1>5
  <2>2. k + 1 \in 1..Len(s) /\ (k + 1) - 1 = k
    BY <1>2, <1>5
  <2> QED
    BY <1>1, <2>1, <2>2 DEF Route
<1>6. Plan(Tail(s), f[1], e)
  BY <1>4, <1>5 DEF Plan, Route
<1> QED
  BY <1>3, <1>6

LEMMA PlanConcat ==
    ASSUME NEW s \in Seq(Calls), NEW t \in Seq(Calls),
           NEW b \in Knowledge, NEW c \in Knowledge, NEW a \in Knowledge,
           Plan(s, b, c), Plan(t, c, a)
    PROVE  Plan(s \o t, b, a)
<1>1. PICK f \in [0..Len(s) -> Knowledge] : f[0] = b /\ f[Len(s)] = c /\ Route(s, f)
  BY DEF Plan
<1>2. PICK e \in [0..Len(t) -> Knowledge] : e[0] = c /\ e[Len(t)] = a /\ Route(t, e)
  BY DEF Plan
<1>3. Len(s) \in Nat /\ Len(t) \in Nat /\ Len(s \o t) = Len(s) + Len(t)
  OBVIOUS
<1> DEFINE n == Len(s)
           d == [i \in 0..(n + Len(t)) |-> IF i <= n THEN f[i] ELSE e[i - n]]
<1>4. d \in [0..Len(s \o t) -> Knowledge] /\ d[0] = b /\ d[Len(s \o t)] = a
  <2>1. ASSUME NEW i \in 0..(n + Len(t))
        PROVE  (IF i <= n THEN f[i] ELSE e[i - n]) \in Knowledge
    <3>1. CASE i <= n
      BY <1>3, <2>1, <3>1, SMTT(20)
    <3>2. CASE ~(i <= n)
      <4>1. i - n \in 0..Len(t)
        BY <1>3, <2>1, <3>2
      <4> QED
        BY <3>2, <4>1
    <3> QED
      BY <3>1, <3>2
  <2>2. d \in [0..Len(s \o t) -> Knowledge]
    BY <1>3, <2>1
  <2>3. d[0] = b
    BY <1>1, <1>3
  <2>4. d[n + Len(t)] = a
    <3>1. CASE Len(t) = 0
      BY <1>1, <1>2, <1>3, <3>1
    <3>2. CASE Len(t) > 0
      BY <1>2, <1>3, <3>2
    <3> QED
      BY <1>3, <3>1, <3>2
  <2> QED
    BY <1>3, <2>2, <2>3, <2>4
<1>5. ASSUME NEW i \in 1..Len(s \o t)
      PROVE  Leads((s \o t)[i], d[i - 1], d[i])
  <2>1. CASE i <= n
    <3>1. (s \o t)[i] = s[i] /\ d[i - 1] = f[i - 1] /\ d[i] = f[i] /\ i \in 1..Len(s)
      BY <1>3, <1>5, <2>1
    <3> QED
      BY <1>1, <3>1 DEF Route
  <2>2. CASE i > n
    <3>1. (s \o t)[i] = t[i - n] /\ i - n \in 1..Len(t)
      BY <1>3, <1>5, <2>2
    <3>2. d[i] = e[i - n] /\ d[i - 1] = e[(i - n) - 1]
      BY <1>1, <1>2, <1>3, <1>5, <2>2
    <3> QED
      BY <1>2, <3>1, <3>2 DEF Route
  <2> QED
    BY <1>3, <1>5, <2>1, <2>2
<1> QED
  BY <1>4, <1>5 DEF Plan, Route

\* n presses of one key, by way of the states f.
LEMMA PlanTimes ==
    ASSUME NEW n \in Nat, NEW op, NEW f \in [0..n -> Knowledge],
           \A k \in 1..n : Leads(Call(op), f[k - 1], f[k])
    PROVE  Plan(Times(n, op), f[0], f[n])
<1>1. Len(Times(n, op)) = n /\ \A k \in 1..n : Times(n, op)[k] = Call(op)
  BY DEF Times
<1>2. Route(Times(n, op), f)
  BY <1>1 DEF Route
<1> QED
  BY <1>1, <1>2 DEF Plan

LEMMA CallOp ==
    /\ \A op : Call(op).op = op
    /\ \A p : SetCursor(p).op = "at" /\ SetCursor(p).to = p
BY DEF Call, SetCursor

\* n presses of R from the first heading.
LEMMA PlanRight ==
    ASSUME NEW n \in Nat, NEW m \in Flags, m # "lost" => n < LastUser,
           m = "sure" => \A h \in 2..(n + 1) : <<h, 0>> \in Listed
    PROVE  Plan(Times(n, "R"), <<1, 0, m>>, <<n + 1, 0, m>>)
<1> DEFINE f == [k \in 0..n |-> <<k + 1, 0, m>>]
<1>1. f \in [0..n -> Knowledge] /\ f[0] = <<1, 0, m>> /\ f[n] = <<n + 1, 0, m>>
  BY DEF Knowledge
<1>2. ASSUME NEW k \in 1..n
      PROVE  Leads(Call("R"), f[k - 1], f[k])
  <2>1. f[k - 1] = <<k, 0, m>> /\ f[k] = <<k + 1, 0, m>>
        /\ (m # "lost" => k < LastUser)
    BY MenuAssumption
  <2>2. m = "sure" => <<k + 1, 0>> \in Listed
    OBVIOUS
  <2> HIDE DEF f
  <2> QED
    BY <2>1, <2>2, CallOp DEF Leads, At, Reads
<1> HIDE DEF f
<1> QED
  BY <1>1, <1>2, PlanTimes

\* n presses of D, none of which is to read a meter.
LEMMA PlanDown ==
    ASSUME NEW n \in Nat, NEW h \in Nat, NEW m \in Flags,
           m = "sure" => n = 0
    PROVE  Plan(Times(n, "D"), <<h, 0, m>>, <<h, n, m>>)
<1> DEFINE f == [k \in 0..n |-> <<h, k, m>>]
<1>1. f \in [0..n -> Knowledge] /\ f[0] = <<h, 0, m>> /\ f[n] = <<h, n, m>>
  BY DEF Knowledge
<1>2. ASSUME NEW k \in 1..n
      PROVE  Leads(Call("D"), f[k - 1], f[k])
  <2>1. f[k - 1] = <<h, k - 1, m>> /\ f[k] = <<h, k, m>> /\ (k - 1) + 1 = k /\ m # "sure"
    OBVIOUS
  <2> HIDE DEF f
  <2> QED
    BY <2>1, CallOp DEF Leads, At, Reads
<1> HIDE DEF f
<1> QED
  BY <1>1, <1>2, PlanTimes

\* One call that is no meter's, and of which nothing is known to be found.
LEMMA PlanCall ==
    ASSUME NEW op \in {"L", "D", "U", "+", "S", "start"}, NEW c \in Knowledge,
           op = "S" => ~UserMenusOnly
    PROVE  \E d \in Knowledge : Plan(Times(1, op), c, d)
<1> DEFINE h == CASE op = "L" -> (IF c[1] > 1 THEN c[1] - 1 ELSE c[1])
                  [] op = "S" -> LastUser
                  [] op = "start" -> 1
                  [] OTHER -> c[1]
           i == CASE op = "D" -> c[2] + 1
                  [] op = "U" -> (IF c[2] > 1 THEN c[2] - 1 ELSE c[2])
                  [] op = "+" -> c[2]
                  [] OTHER -> 0
           d == <<h, i, "lost">>
<1>0. c[1] \in Nat /\ c[2] \in Nat /\ LastUser \in Nat
  BY MenuAssumption DEF Knowledge
<1>1. h \in Nat
  BY <1>0
<1>2. i \in Nat
  BY <1>0
<1>3. d \in Knowledge /\ d[1] = h /\ d[2] = i /\ d[3] = "lost"
  BY <1>1, <1>2 DEF Knowledge, Flags
<1>4. Leads(Call(op), c, d)
  BY <1>3, CallOp DEF Leads, At, Reads
<1>5. Times(1, op) = <<Call(op)>>
  BY DEF Times
<1> QED
  BY <1>3, <1>4, <1>5, PlanOne

LEMMA CallType ==
    /\ \A op \in LeafCalls : Call(op) \in Calls
    /\ \A p \in Nat \X Nat : SetCursor(p) \in Calls
BY DEF Call, SetCursor, Calls, Torn

\* GotoMenuItem leads to its target from wherever it is called.
LEMMA PlanGoto ==
    ASSUME NEW mh \in Nat \ {0}, NEW mi \in Nat, NEW c \in Knowledge, NEW m \in Flags,
           m # "lost" => mh <= LastUser, UserMenusOnly => m # "lost",
           m = "sure" => mi <= 1 /\ \A h \in 2..mh : <<h, 0>> \in Listed,
           NearTargets => mi <= 1
    PROVE  Plan(GotoMenuItem(mh, mi), c, <<mh, mi, m>>)
<1> DEFINE n == IF mi > 0 THEN mi - 1 ELSE 0
           start == <<Call("start")>>
           right == Times(mh - 1, "R")
           down == Times(n, "D")
           at == <<SetCursor(<<mh, mi>>)>>
<1>1. mh \in Nat /\ mh - 1 \in Nat /\ (m # "lost" => mh - 1 < LastUser) /\ (mh - 1) + 1 = mh /\ n \in Nat
  BY MenuAssumption
<1>2. /\ <<1, 0, m>> \in Knowledge /\ <<mh, 0, m>> \in Knowledge
      /\ <<mh, n, m>> \in Knowledge /\ <<mh, mi, m>> \in Knowledge
  BY <1>1 DEF Knowledge
<1>3. Plan(start, c, <<1, 0, m>>)
  <2>1. Leads(Call("start"), c, <<1, 0, m>>)
    BY CallOp DEF Leads, At, Reads
  <2> QED
    BY <1>2, <2>1, PlanOne
<1>4. Plan(right, <<1, 0, m>>, <<mh, 0, m>>)
  <2>1. m = "sure" => \A h \in 2..((mh - 1) + 1) : <<h, 0>> \in Listed
    BY <1>1
  <2>2. Plan(Times(mh - 1, "R"), <<1, 0, m>>, <<(mh - 1) + 1, 0, m>>)
    BY <1>1, <2>1, PlanRight
  <2> QED
    BY <1>1, <2>2
<1>5. Plan(down, <<mh, 0, m>>, <<mh, n, m>>)
  BY <1>1, PlanDown
<1>6. Plan(at, <<mh, n, m>>, <<mh, mi, m>>)
  <2>1. Leads(SetCursor(<<mh, mi>>), <<mh, n, m>>, <<mh, mi, m>>)
    BY CallOp DEF Leads, At, Reads, HeadingCalls, ItemCalls
  <2> QED
    BY <1>2, <2>1, PlanOne
<1>7. start \in Seq(Calls) /\ right \in Seq(Calls) /\ down \in Seq(Calls) /\ at \in Seq(Calls)
  <2>1. "start" \in LeafCalls /\ "R" \in LeafCalls /\ "D" \in LeafCalls
    BY DEF LeafCalls, HeadingCalls, ItemCalls
  <2>2. Call("start") \in Calls /\ SetCursor(<<mh, mi>>) \in Calls
    BY <1>1, <2>1, CallType
  <2> QED
    BY <1>1, <2>1, <2>2, TimesType
<1>8. GotoMenuItem(mh, mi) = ((start \o right) \o down) \o at
  <2>1. Times(mi - 1, "D") = Times(n, "D")
    <3>1. 1..(mi - 1) = 1..n
      OBVIOUS
    <3> QED
      BY <3>1 DEF Times
  <2> QED
    BY <2>1 DEF GotoMenuItem
<1> HIDE DEF start, right, down, at
<1>c. \A s, t \in Seq(Calls) : s \o t \in Seq(Calls)
  OBVIOUS
<1>9. Plan(start \o right, c, <<mh, 0, m>>)
  BY <1>2, <1>3, <1>4, <1>7, PlanConcat
<1>10. Plan((start \o right) \o down, c, <<mh, n, m>>)
  BY <1>2, <1>5, <1>7, <1>9, <1>c, PlanConcat
<1>11. Plan(((start \o right) \o down) \o at, c, <<mh, mi, m>>)
  BY <1>2, <1>6, <1>7, <1>10, <1>c, PlanConcat
<1> QED
  BY <1>8, <1>11

\* PollMeters reads the meters and nothing else, and ends at their heading.
LEMMA PlanPoll ==
    ASSUME NEW c \in Knowledge
    PROVE  Plan(PollMeters, c, <<MeterHeading, 0, "lost">>)
<1> DEFINE mh == MeterHeading
           items == MeterItems
           m == IF MetersListed /\ WayListed THEN "sure" ELSE "straight"
           goto == GotoMenuItem(mh, 1)
           down == Times(items + 1, "Dread")
           back == Times(items, "Uread")
           round == <<Call("R"), Call("L")>>
<1>1. mh \in 1..LastUser /\ mh \in Nat /\ mh + 1 \in Nat /\ mh + 1 > 1 /\ (mh + 1) - 1 = mh
      /\ items \in Nat /\ items + 1 \in Nat /\ items + 2 \in Nat /\ m \in Flags
  BY PollAssumption, MenuAssumption DEF Flags
<1>m. \A i \in 2..(items + 2) : <<mh, i>> \in Meters /\ (m = "sure" => <<mh, i>> \in Listed)
  BY DEF Meters, MetersListed
<1>s. (MetersListed /\ WayListed <=> m = "sure") /\ m # "lost"
  OBVIOUS
<1>2. Plan(goto, c, <<mh, 1, m>>)
  <2>1. m = "sure" => \A h \in 2..mh : <<h, 0>> \in Listed
    BY DEF WayListed
  <2>2. mh \in Nat \ {0} /\ mh <= LastUser /\ m # "lost"
    BY <1>1, MenuAssumption
  <2> HIDE DEF m, mh
  <2> QED
    BY <1>1, <2>1, <2>2, PlanGoto
<1> HIDE DEF m, mh, items
<1>3. Plan(down, <<mh, 1, m>>, <<mh, items + 2, m>>)
  <2> DEFINE f == [k \in 0..(items + 1) |-> <<mh, k + 1, m>>]
  <2>1. f \in [0..(items + 1) -> Knowledge] /\ f[0] = <<mh, 1, m>>
        /\ f[items + 1] = <<mh, items + 2, m>>
    BY <1>1 DEF Knowledge
  <2>2. ASSUME NEW k \in 1..(items + 1)
        PROVE  Leads(Call("Dread"), f[k - 1], f[k])
    <3>1. f[k - 1] = <<mh, k, m>> /\ f[k] = <<mh, k + 1, m>> /\ k + 1 \in 2..(items + 2)
      BY <1>1
    <3>2. <<mh, k + 1>> \in Meters /\ (m = "sure" => <<mh, k + 1>> \in Listed)
      BY <1>m, <3>1
    <3> HIDE DEF f
    <3> QED
      BY <1>1, <1>s, <3>1, <3>2, CallOp DEF Leads, At, Reads
  <2> HIDE DEF f
  <2> QED
    BY <1>1, <2>1, <2>2, PlanTimes
<1>4. Plan(back, <<mh, items + 2, m>>, <<mh, 2, m>>)
  <2> DEFINE f == [k \in 0..items |-> <<mh, items + 2 - k, m>>]
  <2>1. f \in [0..items -> Knowledge] /\ f[0] = <<mh, items + 2, m>> /\ f[items] = <<mh, 2, m>>
    BY <1>1 DEF Knowledge
  <2>2. ASSUME NEW k \in 1..items
        PROVE  Leads(Call("Uread"), f[k - 1], f[k])
    <3> DEFINE i == items + 2 - k
    <3>1. f[k - 1] = <<mh, i + 1, m>> /\ f[k] = <<mh, i, m>> /\ i \in 2..(items + 2)
          /\ i + 1 > 1 /\ (i + 1) - 1 = i
      BY <1>1
    <3>2. <<mh, i>> \in Meters /\ (m = "sure" => <<mh, i>> \in Listed)
      BY <1>m, <3>1
    <3> HIDE DEF f, i
    <3> QED
      BY <1>1, <1>s, <3>1, <3>2, CallOp DEF Leads, At, Reads
  <2> HIDE DEF f
  <2> QED
    BY <1>1, <2>1, <2>2, PlanTimes
<1>5. Plan(round, <<mh, 2, m>>, <<mh, 0, "lost">>)
  <2> DEFINE f == [k \in 0..2 |-> CASE k = 0 -> <<mh, 2, m>>
                                    [] k = 1 -> <<mh + 1, 0, "lost">>
                                    [] OTHER -> <<mh, 0, "lost">>]
  <2>1. f[0] = <<mh, 2, m>> /\ f[1] = <<mh + 1, 0, "lost">> /\ f[2] = <<mh, 0, "lost">>
    OBVIOUS
  <2>2. f \in [0..2 -> Knowledge]
    BY <1>1 DEF Knowledge, Flags
  <2>3. Len(round) = 2 /\ round[1] = Call("R") /\ round[2] = Call("L")
    OBVIOUS
  <2> HIDE DEF f, round
  <2>4. Leads(round[1], f[0], f[1])
    BY <1>1, <2>1, <2>3, CallOp DEF Leads, At, Reads, mh
  <2>5. Leads(round[2], f[1], f[2])
    BY <1>1, <2>1, <2>3, CallOp DEF Leads, At, Reads
  <2>6. Route(round, f)
    <3>1. \A k \in 1..2 : k = 1 \/ k = 2
      OBVIOUS
    <3> QED
      BY <2>3, <2>4, <2>5, <3>1 DEF Route
  <2> QED
    BY <2>1, <2>2, <2>3, <2>6 DEF Plan
<1>6. down \in Seq(Calls) /\ back \in Seq(Calls)
  BY <1>1, TimesType DEF LeafCalls, ItemCalls
<1>7. goto \in Seq(Calls)
  BY <1>1, GotoType
<1>8. round \in Seq(Calls)
  <2>1. Call("R") \in Calls /\ Call("L") \in Calls
    BY CallType DEF LeafCalls, HeadingCalls
  <2> QED
    BY <2>1
<1>c. \A s, t \in Seq(Calls) : s \o t \in Seq(Calls)
  OBVIOUS
<1>k. /\ <<mh, 1, m>> \in Knowledge /\ <<mh, items + 2, m>> \in Knowledge
      /\ <<mh, 2, m>> \in Knowledge /\ <<mh, 0, "lost">> \in Knowledge
  BY <1>1 DEF Knowledge, Flags
<1> HIDE DEF goto, down, back, round
<1>9. Plan(goto \o down, c, <<mh, items + 2, m>>)
  BY <1>2, <1>3, <1>6, <1>7, <1>k, PlanConcat
<1>10. Plan((goto \o down) \o back, c, <<mh, 2, m>>)
  BY <1>4, <1>6, <1>7, <1>9, <1>c, <1>k, PlanConcat
<1>11. Plan(((goto \o down) \o back) \o round, c, <<mh, 0, "lost">>)
  BY <1>5, <1>6, <1>7, <1>8, <1>10, <1>c, <1>k, PlanConcat
<1> QED
  BY <1>11 DEF PollMeters, mh, items, goto, down, back, round

----------------------------------------------------------------------------
(* The running operation keeps to a plan.                                  *)

\* A leaf call is running: its first key is written.
Inside ==
    script # <<>> /\ Head(script).op # "at" /\ (phase = "wait" \/ left > 0)

\* How the program got to where it is. Where `exact', no R on a straight way has
\* been lost at the end of the menus.
Way(c, exact) ==
    /\ c[3] = "sure" => tracked
    /\ exact /\ tracked /\ c[3] # "lost" => overrun = 0

\* The plan's state when it is the program's own.
Knows(c, exact) == At(c) = Cursor /\ Way(c, exact)

\* The call at the head of the script will have led to d.
Arrives(d, exact) ==
    /\ Head(script).op \notin {"start", "S"} => At(d) = CursorAfter(Head(script).op)
    /\ Head(script).op # "start" => Way(d, exact)

Planned(exact) ==
    /\ script = <<>> => left = 0
    /\ phase # "crashed" /\ ~Inside =>
          \E c, e \in Knowledge : Knows(c, exact) /\ Plan(script, c, e)
    /\ phase # "crashed" /\ Inside =>
          \E c, d, e \in Knowledge :
             /\ c[1] = menuheading /\ Leads(Head(script), c, d)
             /\ Arrives(d, exact) /\ Plan(Tail(script), d, e)

\* The only R that the end of the menus may swallow is one the program has counted
\* to the last user heading or beyond.
RunsOverAtEnd ==
    TakeKey /\ tracked /\ overrun' # overrun =>
        Inside /\ Head(script).op = "R" /\ menuheading >= LastUser

\* What the plan says of the call at its head.
LEMMA HeadPlanned ==
    ASSUME NEW exact \in BOOLEAN, TypeOK, Planned(exact), script # <<>>, phase # "crashed"
    PROVE  /\ UserMenusOnly => Head(script).op # "S"
           /\ Head(script).op = "at" =>
                 /\ menuheading = Head(script).to[1]
                 /\ menuitem = IF Head(script).to[2] > 0 THEN Head(script).to[2] - 1 ELSE 0
                 /\ NearTargets => Head(script).to[2] <= 1
                 /\ UserMenusOnly /\ exact /\ tracked => overrun = 0
           /\ phase = "wait" /\ Head(script).op \in Reads =>
                 /\ Cursor \in Meters
                 /\ MetersListed /\ WayListed => tracked /\ (exact => overrun = 0)
<1>1. script \in Seq(Calls) /\ Head(script) \in Calls
  BY HeadType DEF TypeOK, Calls
<1>2. \E c, d \in Knowledge :
         /\ c[1] = menuheading /\ Leads(Head(script), c, d)
         /\ ~Inside => Knows(c, exact)
         /\ Inside => Arrives(d, exact)
  <2>1. CASE Inside
    BY <2>1 DEF Planned
  <2>2. CASE ~Inside
    <3>1. PICK c \in Knowledge, e \in Knowledge : Knows(c, exact) /\ Plan(script, c, e)
      BY <2>2 DEF Planned
    <3>2. PICK d \in Knowledge : Leads(Head(script), c, d)
      BY <1>1, <3>1, PlanTail
    <3>3. c[1] = menuheading
      BY <3>1 DEF Knows, At, Cursor
    <3> QED
      BY <2>2, <3>1, <3>2, <3>3
  <2> QED
    BY <2>1, <2>2
<1>3. PICK c \in Knowledge, d \in Knowledge :
         /\ c[1] = menuheading /\ Leads(Head(script), c, d)
         /\ ~Inside => Knows(c, exact)
         /\ Inside => Arrives(d, exact)
  BY <1>2
<1>4. UserMenusOnly => Head(script).op # "S"
  BY <1>3 DEF Leads
<1>5. ASSUME Head(script).op = "at", UserMenusOnly, exact, tracked
      PROVE  overrun = 0
  <2>1. c[3] # "lost" /\ Knows(c, exact)
    BY <1>3, <1>5 DEF Leads, Inside
  <2> QED
    BY <1>5, <2>1 DEF Knows, Way
<1>6. ASSUME Head(script).op = "at"
      PROVE  /\ menuheading = Head(script).to[1]
             /\ menuitem = IF Head(script).to[2] > 0 THEN Head(script).to[2] - 1 ELSE 0
             /\ NearTargets => Head(script).to[2] <= 1
  <2>1. c[1] = menuheading /\ c[2] = menuitem
    BY <1>3, <1>6 DEF Inside, Knows, At, Cursor
  <2>2. At(d) = Head(script).to /\ c[1] = d[1] /\ c[2] = (IF d[2] > 0 THEN d[2] - 1 ELSE 0)
        /\ (NearTargets => d[2] <= 1)
    BY <1>3, <1>6 DEF Leads, At
  <2>3. Head(script).to[1] = d[1] /\ Head(script).to[2] = d[2]
    BY <2>2 DEF At
  <2> QED
    BY <2>1, <2>2, <2>3
<1>7. ASSUME phase = "wait", Head(script).op \in Reads
      PROVE  /\ Cursor \in Meters
             /\ MetersListed /\ WayListed => tracked /\ (exact => overrun = 0)
  <2>1. Inside
    BY <1>7 DEF Inside, Reads
  <2>2. At(d) = Cursor /\ Way(d, exact)
    BY <1>3, <1>7, <2>1 DEF Arrives, CursorAfter, Reads
  <2>3. Cursor \in Meters /\ (MetersListed /\ WayListed => d[3] = "sure")
    BY <1>3, <1>7, <2>2 DEF Leads
  <2> QED
    BY <2>2, <2>3 DEF Way
<1> QED
  BY <1>4, <1>5, <1>6, <1>7

\* Whatever the caller asks for is a plan.
LEMMA InvokePlanned ==
    ASSUME NEW exact \in BOOLEAN, TypeOK, Planned(exact), NEW op \in Operations, Invoke(op)
    PROVE  Planned(exact)'
<1>0. PICK c \in Knowledge : c = <<menuheading, menuitem, "lost">>
  BY DEF TypeOK, Knowledge, Flags
<1>1. /\ Knows(c, exact)' /\ script' \in Scripts(op)
      /\ left = 0 /\ left' = 0 /\ phase' = "ready"
  BY <1>0 DEF Invoke, Planned, Knows, Way, At, Cursor
<1>2. ASSUME NEW e \in Knowledge, Plan(script', c, e)
      PROVE  Planned(exact)'
  <2>1. ~Inside'
    BY <1>1 DEF Inside
  <2>2. \E b, a \in Knowledge : Knows(b, exact)' /\ Plan(script', b, a)
    BY <1>1, <1>2
  <2> QED
    BY <1>1, <2>1, <2>2 DEF Planned
<1> SUFFICES \E e \in Knowledge : Plan(script', c, e)
  BY <1>2
<1>3. ASSUME NEW k \in {"L", "D", "U", "+", "S", "start"}, script' = Times(1, k),
             k = "S" => ~UserMenusOnly
      PROVE  \E e \in Knowledge : Plan(script', c, e)
  BY <1>3, PlanCall
<1>4. CASE op \in {"MenuHeadingMinus", "MenuItemMinus", "MenuItemPlus", "SetPoint", "GotoMenuStart"}
  <2>1. op = "MenuHeadingMinus" => script' = Times(1, "L")
    BY <1>1 DEF Scripts
  <2>2. op = "MenuItemMinus" => script' = Times(1, "D")
    BY <1>1 DEF Scripts
  <2>3. op = "MenuItemPlus" => script' = Times(1, "U")
    BY <1>1 DEF Scripts
  <2>4. op = "SetPoint" => script' = Times(1, "+")
    BY <1>1 DEF Scripts
  <2>5. op = "GotoMenuStart" => script' = Times(1, "start")
    BY <1>1 DEF Scripts
  <2> QED
    BY <1>3, <1>4, <2>1, <2>2, <2>3, <2>4, <2>5
<1>5. CASE op = "MenuHeadingPlus"
  <2>1. script' = <<Call("R")>>
    BY <1>1, <1>5 DEF Scripts, Times
  <2> DEFINE d == <<menuheading + 1, 0, "lost">>
  <2>2. d \in Knowledge
    BY DEF TypeOK, Knowledge, Flags
  <2>3. Leads(Call("R"), c, d)
    BY <1>0, <2>1, CallOp DEF Leads, At, Reads
  <2> QED
    BY <1>1, <2>1, <2>2, <2>3, PlanOne
<1>6. CASE op = "SetupMenu"
  <2>1. script' = Times(1, "S") /\ ~UserMenusOnly
    BY <1>1, <1>6 DEF Scripts, UserMenusOnly
  <2> QED
    BY <1>3, <2>1
<1>7. CASE op = "GotoMenuItem"
  <2>1. PICK p \in Targets : script' = GotoMenuItem(p[1], p[2])
    BY <1>1, <1>7 DEF Scripts
  <2>2. p[1] \in Nat \ {0} /\ p[2] \in Nat
    <3>1. p[1] \in Headings /\ p \in Nat \X Nat
      BY CallerAssumption, PositionParts, PositionPair
    <3> QED
      BY <3>1, MenuAssumption DEF Headings
  <2>3. (NearTargets => p[2] <= 1) /\ (UserMenusOnly => p[1] <= LastUser)
    BY <1>7 DEF NearTargets, UserMenusOnly
  <2> DEFINE m == IF p[1] <= LastUser THEN "straight" ELSE "lost"
             d == <<p[1], p[2], m>>
  <2>4. m \in Flags /\ m # "sure" /\ (m # "lost" => p[1] <= LastUser)
        /\ (UserMenusOnly => m # "lost")
    BY <2>3 DEF Flags
  <2> HIDE DEF m
  <2>6. d \in Knowledge
    BY <2>2, <2>4 DEF Knowledge
  <2>5. Plan(GotoMenuItem(p[1], p[2]), c, d)
    BY <1>0, <2>2, <2>3, <2>4, PlanGoto
  <2> QED
    BY <2>1, <2>5, <2>6
<1>8. CASE op = "PollMeters"
  <2>1. script' = PollMeters
    BY <1>1, <1>8 DEF Scripts
  <2>2. <<MeterHeading, 0, "lost">> \in Knowledge
    BY PollAssumption, MenuAssumption DEF Knowledge, Flags
  <2> QED
    BY <1>1, <2>1, <2>2, PlanPoll
<1> QED
  BY <1>4, <1>5, <1>6, <1>7, <1>8, CallerAssumption DEF AllOperations

LEMMA WritePlanned ==
    ASSUME NEW exact \in BOOLEAN, TypeOK, Planned(exact), Write
    PROVE  Planned(exact)'
<1> DEFINE op == Head(script).op
<1>1. /\ script # <<>> /\ script' = script /\ phase = "ready" /\ phase' = "wait"
      /\ op \in LeafCalls /\ op # "at"
      /\ UNCHANGED <<menuheading, tracked, overrun>>
  BY DEF Write, history, LeafCalls, HeadingCalls, ItemCalls
<1>2. Inside'
  BY <1>1 DEF Inside
<1>3. SUFFICES \E c, d, e \in Knowledge :
                  /\ c[1] = menuheading /\ Leads(Head(script), c, d)
                  /\ Arrives(d, exact)' /\ Plan(Tail(script), d, e)
  BY <1>1, <1>2 DEF Planned
<1>4. CASE left = 0
  <2>1. ~Inside /\ menuitem' = ItemBefore(op)
    BY <1>1, <1>4 DEF Write, Inside
  <2>2. PICK c \in Knowledge, e \in Knowledge : Knows(c, exact) /\ Plan(script, c, e)
    BY <1>1, <2>1 DEF Planned
  <2>3. PICK d \in Knowledge : Leads(Head(script), c, d) /\ Plan(Tail(script), d, e)
    BY <1>1, <2>2, PlanTail DEF TypeOK, Calls
  <2>4. c[1] = menuheading /\ c[2] = menuitem /\ Way(c, exact)
    BY <2>2 DEF Knows, At, Cursor
  <2>5. op # "start" => Way(d, exact)'
    BY <1>1, <2>3, <2>4 DEF Leads, Way
  <2>6. op \notin {"start", "S"} => At(d) = CursorAfter(op)'
    <3>1. CASE op \in {"L", "R", "+"}
      BY <1>1, <2>1, <2>3, <2>4, <3>1 DEF Leads, At, CursorAfter, Cursor, ItemBefore
    <3>2. CASE op \in {"D", "Dread"}
      <4>1. At(d) = <<menuheading, menuitem + 1>>
        BY <2>3, <2>4, <3>2 DEF Leads
      <4>2. menuitem' = menuitem + 1
        BY <2>1, <3>2 DEF ItemBefore
      <4> QED
        BY <1>1, <3>2, <4>1, <4>2 DEF CursorAfter, Cursor
    <3>3. CASE op \in {"U", "Uread"}
      <4>1. At(d) = <<menuheading, IF menuitem > 1 THEN menuitem - 1 ELSE menuitem>>
        BY <2>3, <2>4, <3>3 DEF Leads
      <4>2. menuitem' = IF menuitem > 1 THEN menuitem - 1 ELSE menuitem
        BY <2>1, <3>3 DEF ItemBefore
      <4> QED
        BY <1>1, <3>3, <4>1, <4>2 DEF CursorAfter, Cursor
    <3> QED
      BY <1>1, <3>1, <3>2, <3>3 DEF LeafCalls, HeadingCalls, ItemCalls
  <2>7. Arrives(d, exact)'
    BY <1>1, <2>5, <2>6 DEF Arrives
  <2> QED
    BY <2>3, <2>4, <2>7
<1>5. CASE left # 0
  <2>1. Inside /\ menuitem' = menuitem
    BY <1>1, <1>5 DEF Write, Inside, TypeOK
  <2>2. PICK c \in Knowledge, d \in Knowledge, e \in Knowledge :
           /\ c[1] = menuheading /\ Leads(Head(script), c, d)
           /\ Arrives(d, exact) /\ Plan(Tail(script), d, e)
    BY <1>1, <2>1 DEF Planned
  <2>3. CursorAfter(op)' = CursorAfter(op)
    BY <1>1, <2>1 DEF CursorAfter, Cursor
  <2>4. Arrives(d, exact)'
    BY <1>1, <2>2, <2>3 DEF Arrives, Way
  <2> QED
    BY <2>2, <2>4
<1> QED
  BY <1>4, <1>5

\* A call that returns leaves the rest of the plan.
LEMMA ReturnPlanned ==
    ASSUME NEW exact \in BOOLEAN, TypeOK, Planned(exact), Inside, phase # "crashed", Return,
           \A c, d \in Knowledge : Leads(Head(script), c, d) /\ Arrives(d, exact) => Knows(d, exact)'
    PROVE  Planned(exact)'
<1>1. PICK c \in Knowledge, d \in Knowledge, e \in Knowledge :
         /\ Leads(Head(script), c, d) /\ Arrives(d, exact) /\ Plan(Tail(script), d, e)
  BY DEF Planned
<1>2. Knows(d, exact)' /\ script' = Tail(script) /\ left' = 0 /\ phase' = "ready"
  BY <1>1 DEF Return
<1>3. ~Inside'
  BY <1>2 DEF Inside
<1> QED
  BY <1>1, <1>2, <1>3 DEF Planned

\* One more try changes nothing in the plan.
LEMMA RetryPlanned ==
    ASSUME NEW exact \in BOOLEAN, Planned(exact), Inside, phase # "crashed", Retry, left # 0, TypeOK,
           \A c, d \in Knowledge : Leads(Head(script), c, d) /\ Arrives(d, exact) => Arrives(d, exact)',
           menuheading' = menuheading
    PROVE  Planned(exact)'
<1>1. PICK c \in Knowledge, d \in Knowledge, e \in Knowledge :
         /\ c[1] = menuheading /\ Leads(Head(script), c, d)
         /\ Arrives(d, exact) /\ Plan(Tail(script), d, e)
  BY DEF Planned
<1>2. Arrives(d, exact)' /\ script' = script /\ left' = left /\ phase' = "ready" /\ script # <<>>
  BY <1>1 DEF Retry, Inside
<1>3. Inside'
  BY <1>2 DEF Inside, TypeOK
<1> QED
  BY <1>1, <1>2, <1>3 DEF Planned

\* A Read belongs to the call at the head of the script.
LEMMA ReadInside ==
    ASSUME NEW op \in LeafCalls, ReadSerial(op)
    PROVE  Inside /\ Head(script).op = op /\ script # <<>> /\ phase = "wait"
BY DEF ReadSerial, Inside, LeafCalls, HeadingCalls, ItemCalls

LEMMA MenuHeadingPlanned ==
    ASSUME NEW exact \in BOOLEAN, TypeOK, Planned(exact), NEW op \in HeadingCalls, MenuHeading(op)
    PROVE  Planned(exact)'
<1>1. Inside /\ phase = "wait" /\ Head(script).op = op /\ Return
      /\ Cursor' = CursorAfter(op) /\ tracked' = (tracked /\ CursorAfter(op) \in Listed)
      /\ overrun' = overrun
  BY ReadInside DEF MenuHeading, LeafCalls, CursorAfter, Cursor, HeadingCalls
<1>2. ASSUME NEW c \in Knowledge, NEW d \in Knowledge,
             Leads(Head(script), c, d), Arrives(d, exact)
      PROVE  Knows(d, exact)'
  <2>1. At(d) = CursorAfter(op) /\ Way(d, exact)
    BY <1>1, <1>2 DEF Arrives, HeadingCalls
  <2>2. d[3] = "sure" => At(d) \in Listed
    BY <1>1, <1>2 DEF Leads, HeadingCalls
  <2> QED
    BY <1>1, <2>1, <2>2 DEF Knows, Way
<1> QED
  BY <1>1, <1>2, ReturnPlanned

LEMMA MenuItemPlanned ==
    ASSUME NEW exact \in BOOLEAN, TypeOK, Planned(exact), NEW op \in ItemCalls, MenuItem(op)
    PROVE  Planned(exact)'
<1>1. Inside /\ phase = "wait" /\ Head(script).op = op /\ CursorAfter(op) = Cursor
      /\ op \notin {"start", "S"}
      /\ Cursor' = Cursor /\ menuheading' = menuheading
  BY ReadInside DEF MenuItem, LeafCalls, CursorAfter, Cursor, ItemCalls
<1>t. overrun' = overrun /\ (tracked' <=> tracked /\ Cursor \in Listed)
  BY DEF MenuItem
<1>r. Return \/ (Retry /\ left # 0 /\ script' = script)
  BY DEF MenuItem, Retry
<1>2. ASSUME NEW c \in Knowledge, NEW d \in Knowledge,
             Leads(Head(script), c, d), Arrives(d, exact)
      PROVE  At(d) = Cursor' /\ Way(d, exact)'
  <2>1. At(d) = Cursor /\ Way(d, exact)
    BY <1>1, <1>2 DEF Arrives
  <2>2. d[3] = "sure" => At(d) \in Listed
    BY <1>1, <1>2 DEF Leads
  <2> QED
    BY <1>1, <1>t, <2>1, <2>2 DEF Way
<1>3. CASE Return
  BY <1>1, <1>2, <1>3, ReturnPlanned DEF Knows
<1>4. CASE Retry /\ left # 0 /\ script' = script
  <2>1. CursorAfter(op)' = Cursor'
    BY <1>1 DEF CursorAfter, Cursor, ItemCalls
  <2> QED
    BY <1>1, <1>2, <1>4, <2>1, RetryPlanned DEF Arrives
<1> QED
  BY <1>r, <1>3, <1>4

LEMMA OtherCallPlanned ==
    ASSUME NEW exact \in BOOLEAN, TypeOK, Planned(exact), SetPoint \/ SetupMenu \/ GotoMenuStart
    PROVE  Planned(exact)'
<1>t. "+" \in LeafCalls /\ "S" \in LeafCalls /\ "start" \in LeafCalls
  BY DEF LeafCalls
<1>1. CASE SetPoint
  <2>1. Inside /\ phase = "wait" /\ Head(script).op = "+" /\ CursorAfter("+") = Cursor
        /\ Cursor' = Cursor /\ tracked' = tracked /\ overrun' = overrun /\ Return
    BY <1>1, <1>t, ReadInside DEF SetPoint, CursorAfter, Cursor, history
  <2> QED
    BY <2>1, ReturnPlanned DEF Arrives, Knows, Way
<1>2. CASE SetupMenu
  <2>1. Inside /\ phase = "wait" /\ Head(script).op = "S"
        /\ Cursor' = <<LastUser, 0>> /\ tracked' = tracked /\ Return
    BY <1>2, <1>t, ReadInside DEF SetupMenu, Cursor, history
  <2> QED
    BY <2>1, ReturnPlanned DEF Knows, Way, Leads, ItemCalls
<1>3. CASE GotoMenuStart
  <2>1. Inside /\ phase = "wait" /\ Head(script).op = "start"
    BY <1>3, <1>t, ReadInside DEF GotoMenuStart
  <2>2. CASE FindsInverter \/ left = 0
    <3>1. Cursor' = <<1, 0>> /\ tracked' /\ overrun' = 0 /\ Return
      BY <1>3, <2>2 DEF GotoMenuStart, Cursor
    <3> QED
      BY <2>1, <3>1, ReturnPlanned DEF Knows, Way, Leads, ItemCalls
  <2>3. CASE ~(FindsInverter \/ left = 0)
    <3>1. Retry /\ left # 0 /\ menuheading' = menuheading /\ script' = script
      BY <1>3, <2>3 DEF GotoMenuStart, Retry
    <3> QED
      BY <2>1, <3>1, RetryPlanned DEF Arrives
  <2> QED
    BY <2>2, <2>3
<1> QED
  BY <1>1, <1>2, <1>3

LEMMA EndPlanned ==
    ASSUME NEW exact \in BOOLEAN, TypeOK, Planned(exact), GotoMenuItemEnd
    PROVE  Planned(exact)'
<1>1. /\ script # <<>> /\ phase = "ready" /\ Head(script).op = "at" /\ ~Inside
      /\ script' = Tail(script) /\ phase' = "ready" /\ left' = 0
      /\ menuheading' = Head(script).to[1] /\ menuitem' = Head(script).to[2]
      /\ tracked' = tracked /\ overrun' = overrun
  BY DEF GotoMenuItemEnd, Return, Inside, history
<1>2. PICK c \in Knowledge, e \in Knowledge : Knows(c, exact) /\ Plan(script, c, e)
  BY <1>1 DEF Planned
<1>3. PICK d \in Knowledge : Leads(Head(script), c, d) /\ Plan(Tail(script), d, e)
  BY <1>1, <1>2, PlanTail DEF TypeOK, Calls
<1>4. At(d) = Head(script).to /\ Way(d, exact)'
  BY <1>1, <1>2, <1>3 DEF Leads, Knows, Way
<1>5. At(d) = Cursor'
  BY <1>1, <1>4 DEF At, Cursor
<1>6. ~Inside' /\ Knows(d, exact)'
  BY <1>1, <1>4, <1>5 DEF Inside, Knows
<1> QED
  BY <1>1, <1>3, <1>6 DEF Planned

\* Every step keeps to the plan.
LEMMA NextPlanned ==
    ASSUME NEW exact \in BOOLEAN, TypeOK, Planned(exact), [Next]_vars,
           exact => RunsOverAtEnd
    PROVE  Planned(exact)'
<1>1. ASSUME UNCHANGED <<script, menuheading, menuitem, phase, left, tracked>>,
             exact /\ tracked => overrun' = overrun
      PROVE  Planned(exact)'
  <2>1. Inside' <=> Inside
    BY <1>1 DEF Inside
  <2>2. \A c : Knows(c, exact)' <=> Knows(c, exact)
    BY <1>1 DEF Knows, Way, Cursor
  <2>3. CursorAfter(Head(script).op)' = CursorAfter(Head(script).op)
    BY <1>1 DEF CursorAfter, Cursor
  <2>4. \A d : Arrives(d, exact)' <=> Arrives(d, exact)
    BY <1>1, <2>3 DEF Arrives, Way
  <2> QED
    BY <1>1, <2>1, <2>2, <2>4 DEF Planned
<1>2. CASE \/ Listen \/ IgnoreKey \/ Refresh \/ UNCHANGED vars
           \/ TakeKey /\ (exact /\ tracked => overrun' = overrun)
  BY <1>1, <1>2 DEF Listen, TakeKey, IgnoreKey, Refresh, vars, host, history
<1>3. CASE GetItemCrash
  <2>1. script' = script /\ left' = left /\ phase' = "crashed"
    BY <1>3 DEF GetItemCrash
  <2> QED
    BY <2>1 DEF Planned
<1>4. CASE TakeKey /\ exact /\ tracked /\ overrun' # overrun
  <2>1. /\ Inside /\ Head(script).op = "R" /\ menuheading >= LastUser
        /\ UNCHANGED <<script, menuheading, menuitem, phase, left, tracked>>
    BY <1>4 DEF RunsOverAtEnd, TakeKey, host
  <2>2. CASE phase # "crashed"
    <3>1. PICK c \in Knowledge, d \in Knowledge, e \in Knowledge :
             /\ c[1] = menuheading /\ Leads(Head(script), c, d)
             /\ Arrives(d, exact) /\ Plan(Tail(script), d, e)
      BY <2>1, <2>2 DEF Planned
    <3>2. d[3] = "lost"
      <4>1. menuheading \in Nat /\ LastUser \in Nat
        BY MenuAssumption DEF TypeOK
      <4> QED
        BY <2>1, <3>1, <4>1 DEF Leads
    <3>3. Inside' /\ CursorAfter(Head(script).op)' = CursorAfter(Head(script).op)
      BY <2>1 DEF Inside, CursorAfter, Cursor
    <3>4. Arrives(d, exact)'
      BY <2>1, <3>1, <3>2, <3>3 DEF Arrives, Way
    <3> QED
      BY <2>1, <3>1, <3>3, <3>4 DEF Planned, Inside
  <2>3. CASE phase = "crashed"
    BY <2>1, <2>3 DEF Planned, Inside
  <2> QED
    BY <2>2, <2>3
<1> QED
  BY <1>2, <1>3, <1>4, InvokePlanned, WritePlanned, MenuHeadingPlanned, MenuItemPlanned,
     OtherCallPlanned, EndPlanned DEF Next, HostStep, DeviceStep

LEMMA InitPlanned ==
    ASSUME NEW exact \in BOOLEAN, Init
    PROVE  Planned(exact)
<1>1. script = <<>> /\ left = 0 /\ ~Inside
  BY DEF Init, Inside
<1>2. PICK c \in Knowledge : c = <<menuheading, menuitem, "lost">>
  BY InitType DEF TypeOK, Knowledge, Flags
<1> DEFINE f == [k \in 0..0 |-> c]
<1>3. f \in [0..Len(script) -> Knowledge] /\ f[0] = c /\ f[Len(script)] = c
  BY <1>1
<1>4. Route(script, f)
  BY <1>1 DEF Route
<1>5. Plan(script, c, c)
  BY <1>3, <1>4 DEF Plan
<1>6. Knows(c, exact)
  BY <1>2 DEF Knows, Way, At, Cursor
<1> QED
  BY <1>1, <1>5, <1>6 DEF Planned

----------------------------------------------------------------------------
(* The line.                                                               *)

\* The line carries one key or its answer.
InLockStep ==
    /\ script = <<>> => left = 0 /\ phase = "ready"
    /\ phase # "wait" => keys = <<>> /\ line = <<>>
    /\ phase = "wait" =>
         /\ Head(script).op \in LeafCalls
         /\ \/ line = <<>> /\ Len(keys) = 1 /\ keys[1].key = KeyOf(Head(script).op)
            \/ keys = <<>> /\ line = <<>>
            \/ keys = <<>> /\ line = <<dev>>

\* A line in lock step is silent between operations.
LEMMA NothingToListenTo == InLockStep => ~Listen
BY DEF InLockStep, Listen

\* A read takes the one answer there is.
LEMMA ReadEmpties ==
    ASSUME TypeOK, LineInTime, InLockStep, NEW op, ReadSerial(op)
    PROVE  /\ keys = <<>> /\ keys' = <<>> /\ line' = <<>>
           /\ line = <<>> \/ line = <<dev>>
<1>1. line # <<>> \/ keys = <<>>
  BY DEF ReadSerial, LineInTime
<1>2. keys = <<>> /\ (line = <<>> \/ line = <<dev>>)
  BY <1>1 DEF ReadSerial, InLockStep
<1>3. Len(Display) = Len(line)
  <2>1. CASE line = <<>>
    BY <2>1 DEF Display, ReadMax
  <2>2. CASE line = <<dev>>
    BY <2>2 DEF Display, ReadMax
  <2> QED
    BY <1>2, <2>1, <2>2
<1>4. line' = <<>>
  <2>1. line' = SubSeq(line, Len(line) + 1, Len(line))
    BY <1>3 DEF ReadSerial
  <2>2. line \in Seq(Screens)
    BY DEF TypeOK, Screens
  <2> QED
    BY <2>1, <2>2
<1> QED
  BY <1>2, <1>4 DEF ReadSerial

LEMMA NextInLockStep ==
    ASSUME TypeOK, LineInTime, InLockStep, [Next]_vars
    PROVE  InLockStep'
<1>1. ASSUME NEW op \in Operations, Invoke(op)
      PROVE  InLockStep'
  BY <1>1 DEF Invoke, InLockStep, inverter
<1>2. CASE Write
  <2>1. keys = <<>> /\ line = <<>> /\ phase' = "wait" /\ line' = <<>> /\ script' = script
    BY <1>2 DEF Write, InLockStep
  <2>2. Len(keys') = 1 /\ keys'[1].key = KeyOf(Head(script).op)
    BY <1>2, <2>1 DEF Write
  <2> QED
    BY <1>2, <2>1, <2>2 DEF Write, InLockStep
<1>3. ASSUME NEW op, ReadSerial(op), Return \/ Retry \/ (phase' = "crashed" /\ script' = script)
      PROVE  InLockStep'
  <2>1. keys' = <<>> /\ line' = <<>> /\ script # <<>>
    BY <1>3, ReadEmpties DEF ReadSerial
  <2> QED
    BY <1>3, <2>1 DEF InLockStep, Return, Retry
<1>4. CASE \/ \E op \in HeadingCalls : MenuHeading(op)
           \/ \E op \in ItemCalls : MenuItem(op)
           \/ SetPoint \/ SetupMenu \/ GotoMenuStart
  BY <1>3, <1>4 DEF MenuHeading, MenuItem, SetPoint, SetupMenu, GotoMenuStart
<1>5. CASE GetItemCrash
  BY <1>3, <1>5 DEF GetItemCrash
<1>6. CASE GotoMenuItemEnd
  BY <1>6 DEF GotoMenuItemEnd, Return, InLockStep, inverter
<1>7. CASE TakeKey
  <2>1. phase = "wait" /\ line = <<>> /\ Len(keys) = 1
    BY <1>7 DEF TakeKey, InLockStep
  <2>2. keys' = <<>>
    <3>1. keys \in Seq(Pressed)
      BY DEF TypeOK, Pressed
    <3> QED
      BY <1>7, <2>1, <3>1 DEF TakeKey
  <2>3. line' = <<>> \/ line' = <<dev'>>
    BY <1>7, <2>1 DEF TakeKey, Send, LineInTime
  <2> QED
    BY <1>7, <2>1, <2>2, <2>3 DEF TakeKey, InLockStep, host
<1>8. CASE IgnoreKey
  <2>1. phase = "wait" /\ line = <<>> /\ Len(keys) = 1
    BY <1>8 DEF IgnoreKey, InLockStep
  <2>2. keys' = <<>>
    <3>1. keys \in Seq(Pressed)
      BY DEF TypeOK, Pressed
    <3> QED
      BY <1>8, <2>1, <3>1 DEF IgnoreKey
  <2> QED
    BY <1>8, <2>1, <2>2 DEF IgnoreKey, InLockStep, host
<1>9. CASE Refresh
  BY <1>9 DEF Refresh, LineInTime
<1>10. CASE UNCHANGED vars
  BY <1>10 DEF vars, host, inverter, InLockStep
<1>11. CASE Listen
  BY <1>11, NothingToListenTo
<1> QED
  BY <1>1, <1>2, <1>4, <1>5, <1>6, <1>7, <1>8, <1>9, <1>10, <1>11
     DEF Next, HostStep, DeviceStep

\* What a read returns when there is one answer on the line.
LEMMA DisplayIsAnswer ==
    ASSUME line = <<>> \/ line = <<dev>>
    PROVE  /\ line = <<>> => Len(Display) = 0
           /\ line = <<dev>> => Len(Display) = 1 /\ Display[1] = dev
           /\ \A k \in 1..Len(Display) : line = <<dev>> /\ k = 1
<1>1. line = <<>> => Len(Display) = 0
  BY DEF Display, ReadMax
<1>2. line = <<dev>> => Len(Display) = 1 /\ Display[1] = dev
  BY DEF Display, ReadMax
<1>3. CASE line = <<>>
  BY <1>1, <1>2, <1>3
<1>4. CASE line = <<dev>>
  <2>1. \A k \in 1..1 : k = 1
    OBVIOUS
  <2> QED
    BY <1>1, <1>2, <1>4, <2>1
<1> QED
  BY <1>3, <1>4

LEMMA InitInLockStep == Init => InLockStep
BY DEF Init, InLockStep

----------------------------------------------------------------------------
(* A meter's label is seen at the meter only.                              *)

\* No other position has the label of a meter.
MetersDistinct ==
    \A m \in Meters, p \in Position : Label[p] = Label[m] => p = m

\* The value a meter call stores is that of the position it was answered at.
LEMMA StoreIsAnswer ==
    ASSUME NEW op, NEW matched, Store(op, matched), line = <<>> \/ line = <<dev>>
    PROVE  \/ reading' = reading
           \/ /\ op \in Reads /\ line = <<dev>>
              /\ reading' = [want |-> Cursor, from |-> dev, at |-> dev, matched |-> matched]
<1>1. CASE op \in {"Dread", "Uread"} /\ Display # <<>>
  <2>1. PICK k \in 1..Len(Display) :
           reading' = [want |-> Cursor, from |-> Display[k], at |-> dev, matched |-> matched]
    BY <1>1 DEF Store
  <2>2. line = <<dev>> /\ Display[k] = dev
    BY <2>1, DisplayIsAnswer
  <2> QED
    BY <1>1, <2>1, <2>2 DEF Reads
<1>2. CASE ~(op \in {"Dread", "Uread"} /\ Display # <<>>)
  BY <1>2 DEF Store
<1> QED
  BY <1>1, <1>2

\* A label that is found is that of the position the inverter answered from.
LEMMA FoundIsAnswer ==
    ASSUME NEW c, Finds(c), line = <<>> \/ line = <<dev>>
    PROVE  line = <<dev>> /\ Label[dev] = Label[c]
<1>1. PICK k \in 1..Len(Display) : Label[Display[k]] = Label[c]
  BY DEF Finds
<1> QED
  BY <1>1, DisplayIsAnswer

LEMMA MenuItemMatched ==
    ASSUME TypeOK, Planned(FALSE), InLockStep, MatchedMeansThere,
           LineInTime, MetersListed, MetersDistinct,
           NEW op \in ItemCalls, MenuItem(op)
    PROVE  MatchedMeansThere'
<1>1. PICK matched \in LabelFound(Cursor) :
         reading' = reading \/ Store(op, matched)
  BY DEF MenuItem
<1>2. line = <<>> \/ line = <<dev>>
  BY ReadEmpties DEF MenuItem
<1>3. CASE reading' = reading
  BY <1>3 DEF MatchedMeansThere
<1>4. CASE /\ op \in Reads
           /\ reading' = [want |-> Cursor, from |-> dev, at |-> dev, matched |-> matched]
  <2>1. Cursor \in Meters
    <3>1. script # <<>> /\ phase = "wait" /\ Head(script).op = op
      BY DEF MenuItem, ReadSerial
    <3> QED
      BY <1>4, <3>1, HeadPlanned
  <2>2. matched => Label[dev] = Label[Cursor]
    BY <1>1, <1>2, <2>1, FoundIsAnswer DEF LabelFound, MetersListed
  <2>3. matched => dev = Cursor
    BY <2>1, <2>2 DEF MetersDistinct, TypeOK
  <2> QED
    BY <1>4, <2>3 DEF MatchedMeansThere
<1> QED
  BY <1>1, <1>2, <1>3, <1>4, StoreIsAnswer

\* A meter value stored after its label was seen is that meter's own, and the
\* inverter is still there: the retries of MenuItemMinus and MenuItemPlus do not
\* press once too often, however many keys the inverter ignores and wherever the
\* driver is called from, as long as the line answers in time and no other label
\* is a meter's.
THEOREM MatchedReadings ==
    ASSUME LineInTime, MetersListed, MetersDistinct
    PROVE  Spec => []MatchedMeansThere
<1> DEFINE Inv == TypeOK /\ Planned(FALSE) /\ InLockStep /\ MatchedMeansThere
<1>1. Init => Inv
  <2> SUFFICES ASSUME Init PROVE Inv
    OBVIOUS
  <2>1. TypeOK /\ Planned(FALSE) /\ InLockStep
    BY InitType, InitPlanned, InitInLockStep
  <2>2. MatchedMeansThere
    BY DEF Init, NoReading, MatchedMeansThere
  <2> QED
    BY <2>1, <2>2
<1>2. Inv /\ [Next]_vars => Inv'
  <2> SUFFICES ASSUME Inv, [Next]_vars PROVE Inv'
    OBVIOUS
  <2>1. TypeOK' /\ Planned(FALSE)' /\ InLockStep'
    BY NextType, NextPlanned, NextInLockStep
  <2>2. ASSUME NEW op \in Operations, Invoke(op)
        PROVE  MatchedMeansThere'
    BY <2>2 DEF Invoke, NoReading, MatchedMeansThere
  <2>3. ASSUME NEW op \in ItemCalls, MenuItem(op)
        PROVE  MatchedMeansThere'
    BY <2>3, MenuItemMatched
  <2>4. ASSUME reading' = reading
        PROVE  MatchedMeansThere'
    <3>1. MatchedMeansThere
      OBVIOUS
    <3> QED
      BY <2>4, <3>1 DEF MatchedMeansThere
  <2>5. CASE \/ Listen \/ Write \/ GetItemCrash \/ SetPoint \/ SetupMenu \/ GotoMenuStart
             \/ GotoMenuItemEnd \/ DeviceStep \/ Refresh \/ UNCHANGED vars
             \/ \E op \in HeadingCalls : MenuHeading(op)
    <3>1. reading' = reading
      BY <2>5 DEF Listen, Write, GetItemCrash, SetPoint, SetupMenu, GotoMenuStart,
                  GotoMenuItemEnd, DeviceStep, TakeKey, IgnoreKey, Refresh, MenuHeading,
                  vars, history
    <3> QED
      BY <2>1, <2>4, <3>1
  <2> QED
    BY <2>1, <2>2, <2>3, <2>5 DEF Next, HostStep
<1>3. Inv => MatchedMeansThere
  OBVIOUS
<1> QED
  BY <1>1, <1>2, <1>3, PTL DEF Spec
=============================================================================
