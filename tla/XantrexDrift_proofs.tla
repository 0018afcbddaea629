------------------------ MODULE XantrexDrift_proofs ------------------------
(***************************************************************************)
(* How far the program's cursor can be from the inverter's, for every menu *)
(* and every caller, as long as an answer never comes late and no screen   *)
(* comes unasked: the headings with any number of ignored keys, and with   *)
(* none the items, the values PollMeters stores and the settings a key     *)
(* changes.                                                                *)
(*                                                                         *)
(* Planned and InLockStep, from XantrexUI_proofs, say where the calls still *)
(* to be made take the program's cursor, and that the line carries one key *)
(* or its answer. Drift adds that the headings are as near as the ignored  *)
(* keys, and the R lost at the end of the menus, allow at every step of a  *)
(* call, or, while GotoMenuStart is pressing, the inverter is that much    *)
(* nearer to the first heading.                                            *)
(*                                                                         *)
(* When no key is ignored, Answered says that a call that waits has its    *)
(* key or its answer on the line, and InStep where below its heading the   *)
(* inverter is at each step of a call, as long as the heading is the       *)
(* program's: at the cursor, but for the first item, where it may be at    *)
(* the heading, and for a D that showed the first item for the second and  *)
(* is about to be pressed again.                                           *)
(*                                                                         *)
(* The last part proves the refinement of XantrexRefines. The mapping      *)
(* shows where the keys still to be pressed will take the inverter; that   *)
(* each key taken leaves this place as it is (PressedStep) is the          *)
(* recursion of XanbusUI's Pressed, which is shown to define a function.   *)
(***************************************************************************)
EXTENDS XantrexUI_proofs, XantrexRefines, WellFoundedInduction

\* GotoMenuStart has a key for each heading, and takes no other heading's line
\* for the first one's.
StartWorks ==
    /\ StartTries >= LastUser
    /\ \A h \in 2..LastUser : <<h, 0>> \notin InverterScreens

Near(h, d) == h - d <= ignored + overrun /\ d - h <= ignored

\* GotoMenuStart is pressing L.
Starting == script # <<>> /\ Head(script).op = "start" /\ (phase = "wait" \/ left > 0)

\* The heading the program will be at once it has read the answer.
HeadingNow ==
    IF phase = "wait" /\ keys = <<>> THEN CursorAfter(Head(script).op)[1] ELSE menuheading

Drift ==
    /\ dev[1] <= LastUser
    /\ tracked => menuheading >= 1
    /\ phase # "crashed" /\ tracked /\ ~Starting => Near(HeadingNow, dev[1])
    /\ Starting => dev[1] = 1 \/ dev[1] + StartTries - left <= LastUser + ignored + Len(keys)
    /\ Starting /\ line # <<>> => dev[2] = 0

IInv == TypeOK /\ Planned(FALSE) /\ InLockStep /\ Drift

----------------------------------------------------------------------------
(* The headings.                                                           *)

\* A key moves the inverter one heading at most, and only L and R do.
LEMMA MovedHeading ==
    ASSUME NEW p \in Position, p[1] <= LastUser, NEW key, key # "S"
    PROVE  /\ Moved(p, key)[1] =
                 CASE key = "L" -> IF p[1] > 1 THEN p[1] - 1 ELSE 1
                   [] key = "R" -> IF p[1] = LastUser THEN p[1] ELSE p[1] + 1
                   [] OTHER -> p[1]
           /\ key = "L" => Moved(p, key)[2] = 0
           /\ Moved(p, key)[1] <= LastUser
<1>1. p[1] \in Nat /\ p[1] >= 1 /\ LastUser \in Nat /\ LastUser >= 1
      /\ LastUser <= LastHeading /\ LastHeading \in Nat
  BY PositionParts, MenuAssumption DEF Headings
<1>2. p[1] \in {LastUser, LastHeading} <=> p[1] = LastUser
  BY <1>1
<1> QED
  BY <1>1, <1>2 DEF Moved

LEMMA InvokeDrift ==
    ASSUME IInv, NEW op \in Operations, Invoke(op)
    PROVE  Drift'
<1>1. /\ left' = 0 /\ phase' = "ready" /\ phase = "ready" /\ ~Starting
      /\ UNCHANGED <<menuheading, dev, keys, line, tracked, ignored, overrun>>
  BY DEF IInv, InLockStep, Invoke, Starting, inverter
<1>2. ~Starting'
  BY <1>1 DEF Starting
<1>3. HeadingNow' = HeadingNow
  BY <1>1 DEF HeadingNow
<1> QED
  BY <1>1, <1>2, <1>3 DEF IInv, Drift, Near

LEMMA WriteDrift ==
    ASSUME IInv, Write
    PROVE  Drift'
<1>1. /\ script # <<>> /\ script' = script
      /\ phase = "ready" /\ phase' = "wait"
      /\ keys = <<>> /\ Len(keys') = 1 /\ keys' # <<>> /\ line' = <<>>
      /\ UNCHANGED <<menuheading, dev, tracked, ignored, overrun>>
  <2>1. keys = <<>> /\ line = <<>> /\ line' = line
    BY DEF IInv, InLockStep, Write
  <2>2. Len(keys') = 1
    BY <2>1 DEF Write
  <2>3. keys' # <<>>
    BY <2>2
  <2> QED
    BY <2>1, <2>2, <2>3 DEF Write, history
<1>2. HeadingNow' = menuheading /\ HeadingNow = menuheading
  BY <1>1 DEF HeadingNow
<1>3. /\ dev[1] \in Nat /\ LastUser \in Nat /\ ignored \in Nat
      /\ left \in Nat /\ StartTries \in Nat
  <2>1. dev \in Nat \X Nat
    BY PositionPair DEF IInv, TypeOK
  <2> QED
    BY <2>1, MenuAssumption, TriesAssumption DEF IInv, TypeOK
<1>4. CASE Head(script).op = "start"
  <2>1. left' = IF left = 0 THEN StartTries - 1 ELSE left - 1
    BY <1>4 DEF Write, TriesOf
  <2>2. dev[1] <= LastUser /\ (left > 0 =>
          dev[1] = 1 \/ dev[1] + StartTries - left <= LastUser + ignored + Len(keys))
    BY <1>1, <1>4 DEF IInv, Drift, Starting
  <2>3. Len(keys) = 0
    BY <1>1
  <2>4. dev[1] = 1 \/ dev[1] + StartTries - left' <= LastUser + ignored + 1
    BY <1>3, <2>1, <2>2, <2>3
  <2> QED
    BY <1>1, <1>4, <2>4 DEF IInv, Drift, Starting
<1>5. CASE Head(script).op # "start"
  BY <1>1, <1>2, <1>5 DEF IInv, Drift, Starting, Near
<1> QED
  BY <1>4, <1>5

LEMMA MenuHeadingDrift ==
    ASSUME IInv, LineInTime, NEW op \in HeadingCalls, MenuHeading(op)
    PROVE  Drift'
<1>1. /\ phase = "wait" /\ keys = <<>> /\ script # <<>> /\ Head(script).op = op
      /\ phase' = "ready" /\ left' = 0 /\ keys' = <<>> /\ line' = <<>>
      /\ menuheading' = CursorAfter(op)[1] /\ (tracked' => tracked)
      /\ UNCHANGED <<dev, ignored, overrun>>
  BY ReadEmpties DEF IInv, MenuHeading, ReadSerial, Return
<1>2. ~Starting /\ ~Starting'
  BY <1>1 DEF Starting, HeadingCalls
<1>3. HeadingNow' = menuheading' /\ HeadingNow = menuheading'
  BY <1>1 DEF HeadingNow
<1>4. tracked => menuheading' >= 1
  <2>1. menuheading \in Nat /\ (tracked => menuheading >= 1)
    BY DEF IInv, TypeOK, Drift
  <2> QED
    BY <1>1, <2>1 DEF CursorAfter, HeadingCalls
<1> QED
  BY <1>1, <1>2, <1>3, <1>4 DEF IInv, Drift, Near

\* Any other call that leaves the heading alone.
LEMMA OtherReadDrift ==
    ASSUME IInv, LineInTime, NEW op \in ItemCalls \cup {"+"}, ReadSerial(op),
           (Return \/ Retry) /\ UNCHANGED <<menuheading, ignored, overrun>>,
           tracked' => tracked
    PROVE  Drift'
<1>1. /\ phase = "wait" /\ keys = <<>> /\ script # <<>> /\ Head(script).op = op
      /\ op \notin {"L", "R", "start"}
      /\ phase' = "ready" /\ keys' = <<>> /\ line' = <<>>
      /\ UNCHANGED dev
  BY ReadEmpties DEF IInv, ReadSerial, Return, Retry, ItemCalls
<1>2. ~Starting /\ ~Starting'
  <2>1. (Return => left' = 0) /\ (Retry => script' = script)
    BY DEF Return, Retry
  <2> QED
    BY <1>1, <2>1 DEF Starting
<1>3. HeadingNow' = menuheading /\ HeadingNow = menuheading
  BY <1>1 DEF HeadingNow, CursorAfter, Cursor
<1> QED
  BY <1>1, <1>2, <1>3 DEF IInv, Drift, Near

\* GotoMenuStart stops where the first heading shows, or after so many keys that
\* the inverter is no further from it than the number of them it ignored; the R that
\* were lost before do not matter any more.
LEMMA GotoMenuStartDrift ==
    ASSUME IInv, LineInTime, StartWorks, GotoMenuStart
    PROVE  Drift'
<1>1. /\ phase = "wait" /\ keys = <<>> /\ script # <<>> /\ Head(script).op = "start"
      /\ line = <<>> \/ line = <<dev>>
      /\ phase' = "ready" /\ keys' = <<>> /\ line' = <<>>
      /\ UNCHANGED dev
  BY ReadEmpties DEF IInv, GotoMenuStart, ReadSerial, Return, Retry
<1>2. /\ dev[1] \in Nat /\ dev[1] >= 1 /\ dev[1] <= LastUser /\ dev = <<dev[1], dev[2]>>
      /\ LastUser \in Nat /\ ignored \in Nat /\ left \in Nat /\ StartTries \in Nat
      /\ StartTries >= LastUser
  <2>1. dev[1] \in Headings /\ dev = <<dev[1], dev[2]>>
    BY PositionParts DEF IInv, TypeOK
  <2> QED
    BY <2>1, MenuAssumption, TriesAssumption, SMTT(20) DEF IInv, TypeOK, Drift, StartWorks, Headings
<1>3. Starting /\ Len(keys) = 0
  BY <1>1 DEF Starting
<1>4. dev[1] = 1 \/ dev[1] + StartTries - left <= LastUser + ignored
  BY <1>2, <1>3 DEF IInv, Drift
<1>5. CASE FindsInverter
  <2>1. line = <<dev>> /\ dev \in InverterScreens
    <3>1. CASE line = <<>>
      <4>1. Len(Display) = 0
        BY <3>1 DEF Display, ReadMax
      <4> QED
        BY <1>5, <4>1 DEF FindsInverter
    <3>2. CASE line = <<dev>>
      <4>1. Len(Display) = 1 /\ Display[1] = dev
        BY <3>2 DEF Display, ReadMax
      <4>2. \A k \in 1..Len(Display) : k = 1
        BY <4>1
      <4> QED
        BY <1>5, <3>2, <4>1, <4>2 DEF FindsInverter
    <3> QED
      BY <1>1, <3>1, <3>2
  <2>2. line # <<>>
    BY <2>1
  <2>3. dev[2] = 0
    BY <1>3, <2>2 DEF IInv, Drift
  <2>4. dev[1] = 1
    <3>1. dev[1] \notin 2..LastUser
      BY <1>2, <2>1, <2>3 DEF StartWorks
    <3> QED
      BY <1>2, <3>1
  <2>5. menuheading' = 1 /\ left' = 0 /\ ignored' = 0 /\ overrun' = 0
    BY <1>5 DEF GotoMenuStart, Return
  <2>6. ~Starting' /\ HeadingNow' = 1
    BY <1>1, <2>5 DEF Starting, HeadingNow
  <2> QED
    BY <1>1, <1>2, <2>4, <2>5, <2>6 DEF Drift, Near
<1>6. CASE ~FindsInverter /\ left = 0
  <2>1. menuheading' = 1 /\ left' = 0 /\ ignored' = ignored /\ overrun' = 0
    BY <1>6 DEF GotoMenuStart, Return
  <2>2. ~Starting' /\ HeadingNow' = 1
    BY <1>1, <2>1 DEF Starting, HeadingNow
  <2>3. 1 - dev[1] <= ignored + 0 /\ dev[1] - 1 <= ignored
    BY <1>2, <1>4, <1>6
  <2> QED
    BY <1>1, <1>2, <2>1, <2>2, <2>3 DEF Drift, Near
<1>7. CASE ~FindsInverter /\ left # 0
  <2>1. /\ script' = script /\ left' = left
        /\ UNCHANGED <<menuheading, tracked, ignored, overrun>>
    BY <1>7 DEF GotoMenuStart, Retry
  <2>2. Starting' /\ Len(keys') = 0
    BY <1>1, <1>2, <1>7, <2>1 DEF Starting
  <2> QED
    BY <1>1, <1>2, <1>4, <2>1, <2>2 DEF IInv, Drift
<1> QED
  BY <1>5, <1>6, <1>7

LEMMA EndDrift ==
    ASSUME IInv, UserMenusOnly, GotoMenuItemEnd
    PROVE  Drift'
<1>1. /\ script # <<>> /\ Head(script).op = "at" /\ phase = "ready" /\ phase' = "ready"
      /\ left' = 0 /\ menuheading' = Head(script).to[1]
      /\ UNCHANGED <<dev, keys, line, tracked, ignored, overrun>>
  BY DEF GotoMenuItemEnd, Return, inverter, history
<1>2. menuheading' = menuheading
  BY <1>1, HeadPlanned DEF IInv
<1>3. ~Starting /\ ~Starting' /\ HeadingNow = menuheading /\ HeadingNow' = menuheading
  BY <1>1, <1>2 DEF Starting, HeadingNow
<1> QED
  BY <1>1, <1>2, <1>3 DEF IInv, Drift, Near

LEMMA CrashDrift ==
    ASSUME IInv, LineInTime, GetItemCrash
    PROVE  Drift'
<1>1. PICK op \in HeadingCalls \cup ItemCalls : ReadSerial(op)
  BY DEF GetItemCrash
<1>2. /\ script # <<>> /\ Head(script).op # "start" /\ script' = script
      /\ phase' = "crashed" /\ line' = <<>>
      /\ UNCHANGED <<menuheading, dev, tracked>>
  BY <1>1, ReadEmpties DEF IInv, GetItemCrash, ReadSerial, HeadingCalls, ItemCalls, history
<1>3. ~Starting'
  BY <1>2 DEF Starting
<1> QED
  BY <1>2, <1>3 DEF IInv, Drift

\* The one key on its way to the inverter.
LEMMA KeyOnItsWay ==
    ASSUME IInv, UserMenusOnly, keys # <<>>
    PROVE  /\ phase = "wait" /\ script # <<>> /\ Len(keys) = 1 /\ line = <<>>
           /\ Tail(keys) = <<>>
           /\ Head(keys).key = KeyOf(Head(script).op)
           /\ Head(keys).key # "S"
           /\ Head(keys).key \in {"L", "R"} <=> Head(script).op \in {"L", "R", "start"}
           /\ Head(script).op = "start" => Head(keys).key = "L"
           /\ Head(script).op \in {"L", "R"} => Head(keys).key = Head(script).op
           /\ HeadingNow = menuheading
<1>1. phase = "wait" /\ script # <<>> /\ Len(keys) = 1 /\ line = <<>>
      /\ keys[1].key = KeyOf(Head(script).op)
  BY DEF IInv, InLockStep
<1>2. keys \in Seq(Pressed)
  BY DEF IInv, TypeOK, Pressed
<1>3. Tail(keys) = <<>> /\ Head(keys) = keys[1]
  <2>1. Head(keys) = keys[1]
    BY <1>1, <1>2
  <2>2. ASSUME NEW rest, rest = Tail(keys)
        PROVE  rest = <<>>
    BY <1>1, <1>2, <2>2
  <2> QED
    BY <2>1, <2>2
<1>4. Head(script).op \in {"L", "R", "start"} \cup ItemCalls \cup {"+"}
  <2>1. Head(script).op \in LeafCalls
    BY <1>1 DEF IInv, InLockStep
  <2>2. Head(script).op # "S"
    BY <1>1, HeadPlanned DEF IInv
  <2> QED
    BY <2>1, <2>2 DEF LeafCalls, HeadingCalls
<1>5. Head(keys).key = KeyOf(Head(script).op) /\ HeadingNow = menuheading
  BY <1>1, <1>3 DEF HeadingNow
<1> HIDE DEF HeadingNow
<1>6. /\ KeyOf(Head(script).op) # "S"
      /\ KeyOf(Head(script).op) \in {"L", "R"} <=> Head(script).op \in {"L", "R", "start"}
      /\ Head(script).op = "start" => KeyOf(Head(script).op) = "L"
      /\ Head(script).op \in {"L", "R"} => KeyOf(Head(script).op) = Head(script).op
  BY <1>4 DEF KeyOf, ItemCalls
<1> QED
  BY <1>1, <1>3, <1>5, <1>6

LEMMA TakeKeyDrift ==
    ASSUME IInv, UserMenusOnly, TakeKey
    PROVE  Drift'
<1>1. keys # <<>>
  BY DEF TakeKey
<1> DEFINE op == Head(script).op
<1>2. /\ phase = "wait" /\ phase' = "wait" /\ script # <<>> /\ script' = script
      /\ keys' = <<>> /\ Len(keys) = 1 /\ Len(keys') = 0
      /\ dev' = Moved(dev, Head(keys).key)
      /\ overrun' = IF Head(keys).key = "R" /\ dev'[1] = dev[1] THEN overrun + 1 ELSE overrun
      /\ UNCHANGED <<menuheading, menuitem, left, tracked, ignored>>
  BY <1>1, KeyOnItsWay DEF TakeKey, host
<1>3. dev \in Position /\ dev[1] <= LastUser
  BY DEF IInv, TypeOK, Drift
<1>4. /\ dev'[1] = CASE Head(keys).key = "L" -> IF dev[1] > 1 THEN dev[1] - 1 ELSE 1
                     [] Head(keys).key = "R" -> IF dev[1] = LastUser THEN dev[1] ELSE dev[1] + 1
                     [] OTHER -> dev[1]
      /\ Head(keys).key = "L" => dev'[2] = 0
      /\ dev'[1] <= LastUser
  BY <1>1, <1>2, <1>3, KeyOnItsWay, MovedHeading
<1>5. /\ dev[1] \in Nat /\ dev[1] >= 1 /\ LastUser \in Nat /\ ignored \in Nat
      /\ overrun \in Nat /\ left \in Nat /\ StartTries \in Nat /\ menuheading \in Nat
  <2>1. dev[1] \in Headings
    BY <1>3, PositionParts
  <2> QED
    BY <2>1, MenuAssumption, TriesAssumption DEF IInv, TypeOK, Headings
<1>6. Starting' <=> Starting
  BY <1>2 DEF Starting
<1>7. CASE op = "start"
  <2>1. Starting /\ Head(keys).key = "L"
    BY <1>1, <1>2, <1>7, KeyOnItsWay DEF Starting
  <2>2. dev[1] = 1 \/ dev[1] + StartTries - left <= LastUser + ignored + 1
    BY <1>2, <2>1 DEF IInv, Drift
  <2>3. dev'[1] = 1 \/ dev'[1] + StartTries - left <= LastUser + ignored
    BY <1>4, <1>5, <2>1, <2>2
  <2>4. Starting' /\ dev'[2] = 0
    BY <1>4, <1>6, <2>1
  <2> QED
    BY <1>2, <1>4, <1>5, <2>3, <2>4 DEF IInv, Drift
<1>8. CASE op # "start"
  <2>1. ~Starting /\ ~Starting'
    BY <1>6, <1>8 DEF Starting
  <2>2. tracked => /\ menuheading >= 1
                   /\ menuheading - dev[1] <= ignored + overrun
                   /\ dev[1] - menuheading <= ignored
    BY <1>1, <1>2, <2>1, KeyOnItsWay DEF IInv, Drift, Near
  <2>3. HeadingNow' = CursorAfter(op)[1]'
    BY <1>2 DEF HeadingNow
  <2>4. CASE op = "L"
    <3>1. HeadingNow' = IF menuheading > 1 THEN menuheading - 1 ELSE menuheading
      BY <1>2, <2>3, <2>4 DEF CursorAfter
    <3>2. dev'[1] = (IF dev[1] > 1 THEN dev[1] - 1 ELSE 1) /\ overrun' = overrun
      BY <1>1, <1>2, <1>4, <2>4, KeyOnItsWay
    <3>3. tracked => /\ HeadingNow' - dev'[1] <= ignored + overrun'
                     /\ dev'[1] - HeadingNow' <= ignored
      BY <1>5, <2>2, <3>1, <3>2
    <3> QED
      BY <1>2, <1>4, <2>1, <2>2, <3>3 DEF Drift, Near
  <2>5. CASE op = "R"
    <3>1. HeadingNow' = menuheading + 1
      BY <1>2, <2>3, <2>5 DEF CursorAfter
    <3>2. dev'[1] = IF dev[1] = LastUser THEN dev[1] ELSE dev[1] + 1
      BY <1>1, <1>4, <2>5, KeyOnItsWay
    <3>3. overrun' = IF dev'[1] = dev[1] THEN overrun + 1 ELSE overrun
      BY <1>1, <1>2, <2>5, KeyOnItsWay
    <3>4. tracked => /\ HeadingNow' - dev'[1] <= ignored + overrun'
                     /\ dev'[1] - HeadingNow' <= ignored
      BY <1>5, <2>2, <3>1, <3>2, <3>3
    <3> QED
      BY <1>2, <1>4, <2>1, <2>2, <3>4 DEF Drift, Near
  <2>6. CASE op \notin {"L", "R"}
    <3>1. HeadingNow' = menuheading
      BY <1>2, <2>3, <2>6 DEF CursorAfter, Cursor
    <3>2. dev'[1] = dev[1] /\ overrun' = overrun
      BY <1>1, <1>2, <1>4, <1>8, <2>6, KeyOnItsWay
    <3> QED
      BY <1>2, <1>4, <2>1, <2>2, <3>1, <3>2 DEF Drift, Near
  <2> QED
    BY <2>4, <2>5, <2>6
<1> QED
  BY <1>7, <1>8

LEMMA IgnoreKeyDrift ==
    ASSUME IInv, UserMenusOnly, IgnoreKey
    PROVE  Drift'
<1>1. keys # <<>>
  BY DEF IgnoreKey
<1> DEFINE op == Head(script).op
<1>2. /\ phase = "wait" /\ phase' = "wait" /\ script # <<>> /\ script' = script
      /\ keys' = <<>> /\ Len(keys) = 1 /\ Len(keys') = 0 /\ line' = <<>>
      /\ UNCHANGED <<menuheading, menuitem, left, dev, tracked, overrun>>
  BY <1>1, KeyOnItsWay DEF IgnoreKey, host
<1>3. ignored' = IF op \in {"L", "R", "start"} THEN ignored + 1 ELSE ignored
  BY <1>1, KeyOnItsWay DEF IgnoreKey
<1>4. /\ dev[1] \in Nat /\ LastUser \in Nat /\ ignored \in Nat
      /\ overrun \in Nat /\ left \in Nat /\ StartTries \in Nat /\ menuheading \in Nat
  <2>1. dev \in Nat \X Nat
    BY PositionPair DEF IInv, TypeOK
  <2> QED
    BY <2>1, MenuAssumption, TriesAssumption DEF IInv, TypeOK
<1>5. (Starting' <=> Starting) /\ dev[1] <= LastUser
  BY <1>2 DEF Starting, IInv, Drift
<1>6. CASE op = "start"
  <2>1. Starting /\ Starting'
    BY <1>2, <1>6 DEF Starting
  <2>2. dev'[1] = 1 \/ dev'[1] + StartTries - left' <= LastUser + ignored' + Len(keys')
    BY <1>2, <1>3, <1>4, <1>6, <2>1 DEF IInv, Drift
  <2> QED
    BY <1>2, <1>5, <2>1, <2>2 DEF IInv, Drift
<1>7. CASE op # "start"
  <2>1. ~Starting /\ ~Starting'
    BY <1>5, <1>7 DEF Starting
  <2>2. tracked => /\ menuheading >= 1
                   /\ menuheading - dev[1] <= ignored + overrun
                   /\ dev[1] - menuheading <= ignored
    BY <1>1, <1>2, <2>1, KeyOnItsWay DEF IInv, Drift, Near
  <2>3. HeadingNow' = CursorAfter(op)[1]
    BY <1>2 DEF HeadingNow, CursorAfter, Cursor
  <2>4. tracked => /\ HeadingNow' - dev[1] <= ignored' + overrun
                   /\ dev[1] - HeadingNow' <= ignored'
    <3>1. CASE op = "L"
      BY <1>3, <1>4, <2>2, <2>3, <3>1 DEF CursorAfter
    <3>2. CASE op = "R"
      BY <1>3, <1>4, <2>2, <2>3, <3>2 DEF CursorAfter
    <3>3. CASE op \notin {"L", "R"}
      BY <1>3, <1>4, <1>7, <2>2, <2>3, <3>3 DEF CursorAfter, Cursor
    <3> QED
      BY <3>1, <3>2, <3>3
  <2> QED
    BY <1>2, <1>5, <2>1, <2>2, <2>4 DEF Drift, Near
<1> QED
  BY <1>6, <1>7

----------------------------------------------------------------------------
LEMMA InitInv == Init => IInv
<1> SUFFICES ASSUME Init PROVE IInv
  OBVIOUS
<1>1. TypeOK
  BY InitType
<1>2. Planned(FALSE) /\ InLockStep
  BY InitPlanned, InitInLockStep
<1>5. Drift
  BY DEF Init, Drift, Starting
<1> QED
  BY <1>1, <1>2, <1>5 DEF IInv

LEMMA NextInv ==
    ASSUME UserMenusOnly, LineInTime, StartWorks, IInv, [Next]_vars
    PROVE  IInv'
<1>1. TypeOK' /\ Planned(FALSE)' /\ InLockStep'
  BY NextType, NextPlanned, NextInLockStep DEF IInv
<1>2. ASSUME NEW op \in ItemCalls, MenuItem(op)
      PROVE  Drift'
  <2>1. ReadSerial(op) /\ (Return \/ Retry)
        /\ UNCHANGED <<menuheading, ignored, overrun>> /\ (tracked' => tracked)
    BY <1>2 DEF MenuItem
  <2> QED
    BY <1>2, <2>1, OtherReadDrift
<1>3. CASE SetPoint
  <2>1. ReadSerial("+") /\ (Return \/ Retry)
        /\ UNCHANGED <<menuheading, ignored, overrun>> /\ (tracked' => tracked)
    BY <1>3 DEF SetPoint, history
  <2> QED
    BY <1>1, <2>1, OtherReadDrift DEF IInv
<1>4. ~SetupMenu
  <2>1. SetupMenu => script # <<>> /\ Head(script).op = "S" /\ phase = "wait"
    BY DEF SetupMenu, ReadSerial
  <2> QED
    BY <2>1, HeadPlanned DEF IInv
<1>5. CASE UNCHANGED vars
  <2>1. Starting' <=> Starting
    BY <1>5 DEF vars, host, Starting
  <2>2. HeadingNow' = HeadingNow
    BY <1>5 DEF vars, host, inverter, HeadingNow, CursorAfter, Cursor
  <2> QED
    BY <1>1, <1>5, <2>1, <2>2 DEF IInv, Drift, Near, vars, host, inverter, history
<1>6. ~Refresh /\ ~Listen
  BY NothingToListenTo DEF Refresh, LineInTime, IInv
<1> QED
  BY <1>1, <1>2, <1>3, <1>4, <1>5, <1>6, InvokeDrift, WriteDrift, MenuHeadingDrift,
     GotoMenuStartDrift, EndDrift, CrashDrift, TakeKeyDrift, IgnoreKeyDrift
     DEF IInv, Next, HostStep, DeviceStep

\* Between operations the program's heading and the inverter's differ by no more
\* than the heading keys ignored since GotoMenuStart last matched and, ahead, the R
\* taken since then at the end of the menus, where MenuHeadingPlus counts on: no
\* sequence of MenuHeadingMinus, MenuHeadingPlus, MenuItemMinus, MenuItemPlus,
\* GotoMenuStart, GotoMenuItem and PollMeters adds up to more, whatever the menus.
THEOREM HeadingsNear ==
    ASSUME UserMenusOnly, LineInTime, StartWorks
    PROVE  Spec => []HeadingDrift
<1>1. ASSUME IInv
      PROVE  HeadingDrift
  <2>1. CASE Idle /\ tracked
    <3>1. ~Starting /\ phase # "crashed" /\ HeadingNow = menuheading
      BY <2>1 DEF Idle, Starting, HeadingNow
    <3> QED
      BY <1>1, <2>1, <3>1 DEF IInv, Drift, Near, HeadingDrift
  <2>2. CASE ~(Idle /\ tracked)
    BY <2>2 DEF HeadingDrift
  <2> QED
    BY <2>1, <2>2
<1>2. IInv /\ [Next]_vars => IInv'
  BY NextInv
<1> QED
  BY <1>1, <1>2, InitInv, PTL DEF Spec

----------------------------------------------------------------------------
(* On a line that ignores nothing the items agree where the headings do.   *)

\* Every key is taken and answered in time.
Reliable == ~MayIgnore /\ LineInTime

\* GetItem finds only what the inverter has, an item missed once is tried again,
\* and the first item's line is not taken for the second's.
ItemsWork ==
    /\ Listed \subseteq Position \cup {Torn}
    /\ ItemTries >= 2
    /\ \A h \in 1..LastUser : <<h, 2>> \in Listed => Label[<<h, 1>>] # Label[<<h, 2>>]

\* At the heading of the cursor c the inverter is at its item, but for the slack at
\* the first.
Settled(c, d) == d[1] = c[1] => d[2] = c[2] \/ (c[2] = 1 /\ d[2] = 0)

\* Where the inverter will be once it has taken the key on its way.
PosThen == IF keys = <<>> THEN dev ELSE Moved(dev, Head(keys).key)

Answered ==
    /\ ignored = 0
    /\ phase = "wait" => keys # <<>> \/ line = <<dev>>
    /\ keys # <<>> => Head(keys).for = Cursor /\ MaxLine > 0
    /\ script # <<>> /\ Head(script).op \notin ItemCalls \cup {"start"} => left = 0

\* Below the program's heading a waiting D may still show the first item for the
\* second, with a try left; only then, and for a U pressed at a heading, is a call
\* tried again.
StepsWith(op) ==
    /\ phase = "ready" /\ left = 0 => Settled(Cursor, dev)
    /\ phase = "wait" /\ op \in HeadingCalls \cup {"U", "Uread", "+"} =>
          Settled(CursorAfter(op), PosThen)
    /\ phase = "wait" /\ op \in {"D", "Dread"} /\ Cursor \in Listed
          /\ PosThen[1] = menuheading =>
          PosThen[2] = menuitem \/ (menuitem = 2 /\ PosThen[2] = 1 /\ left > 0)
    /\ phase = "ready" /\ left > 0 /\ op \in {"D", "Dread"} /\ dev[1] = menuheading =>
          menuitem = 2 /\ dev[2] = 1
    /\ phase = "ready" /\ left > 0 /\ op \in {"U", "Uread"} /\ dev[1] = menuheading =>
          menuitem = 1 /\ dev[2] = 0

InStep == tracked /\ phase # "crashed" /\ ~Starting => StepsWith(Head(script).op)

SInv == IInv /\ Planned(TRUE) /\ Answered /\ InStep

\* A read finds the inverter's answer on the line.
LEMMA AnswerRead ==
    ASSUME SInv, LineInTime, NEW op, ReadSerial(op)
    PROVE  /\ script # <<>> /\ phase = "wait" /\ Head(script).op = op
           /\ keys = <<>> /\ keys' = <<>> /\ line = <<dev>> /\ line' = <<>>
           /\ PosThen = dev /\ dev' = dev
<1>1. script # <<>> /\ phase = "wait" /\ Head(script).op = op /\ dev' = dev
  BY DEF ReadSerial
<1>2. keys = <<>> /\ keys' = <<>> /\ line' = <<>>
  BY ReadEmpties DEF SInv, IInv
<1> QED
  BY <1>1, <1>2 DEF SInv, Answered, PosThen

LEMMA FoundAtAnswer ==
    ASSUME NEW c, line = <<dev>>
    PROVE  Finds(c) <=> Label[dev] = Label[c]
<1>1. Len(Display) = 1 /\ Display[1] = dev /\ \A k \in 1..Len(Display) : k = 1
  BY DisplayIsAnswer
<1>2. 1 \in 1..Len(Display)
  BY <1>1
<1> QED
  BY <1>1, <1>2 DEF Finds


LEMMA NextAnswered ==
    ASSUME SInv, Reliable, UserMenusOnly, [Next]_vars
    PROVE  Answered'
<1>t. TypeOK /\ InLockStep /\ Answered /\ LineInTime
  BY DEF SInv, IInv, Reliable
<1>1. ASSUME NEW op \in Operations, Invoke(op)
      PROVE  Answered'
  BY <1>1, <1>t DEF Invoke, Answered, InLockStep, Cursor, inverter
<1>2. CASE Write
  <2> DEFINE op == Head(script).op
             item == IF left = 0 THEN ItemBefore(op) ELSE menuitem
             press == [key |-> KeyOf(op), for |-> <<menuheading, item>>]
  <2>1. /\ script' = script /\ phase = "ready" /\ phase' = "wait" /\ keys = <<>>
        /\ ignored' = ignored /\ menuheading' = menuheading /\ op \in LeafCalls
        /\ menuitem' = item /\ keys' = Append(keys, press) /\ Len(keys) < MaxLine
    BY <1>2, <1>t DEF Write, history, InLockStep
  <2>2. keys' = <<press>> /\ Head(keys') = press /\ keys' # <<>> /\ MaxLine > 0
    <3>1. keys' = <<press>> /\ Len(keys) = 0
      BY <2>1
    <3> HIDE DEF press
    <3> QED
      BY <2>1, <3>1, LinkAssumption
  <2>3. Head(keys').for = Cursor'
    BY <2>1, <2>2 DEF Cursor
  <2>4. script # <<>> /\ op \notin ItemCalls \cup {"start"} => left' = 0
    <3>1. ASSUME script # <<>>, op \notin ItemCalls \cup {"start"}
          PROVE  left' = 0
      <4>1. left = 0 /\ TriesOf(op) = 1
        BY <1>t, <3>1 DEF Answered, TriesOf, ItemCalls
      <4> QED
        BY <1>2, <4>1 DEF Write
    <3> QED
      BY <3>1
  <2> QED
    BY <1>t, <2>1, <2>2, <2>3, <2>4 DEF Answered
<1>3. ASSUME NEW op, ReadSerial(op), phase' # "wait", ignored' = 0 \/ ignored' = ignored,
             \/ left' = 0
             \/ script' = script /\ left' = left
      PROVE  Answered'
  <2>1. keys' = <<>>
    BY <1>3, <1>t, AnswerRead
  <2> QED
    BY <1>3, <1>t, <2>1 DEF Answered
<1>4. CASE \/ \E op \in HeadingCalls : MenuHeading(op)
           \/ \E op \in ItemCalls : MenuItem(op)
           \/ SetPoint \/ SetupMenu \/ GotoMenuStart
  BY <1>3, <1>4 DEF MenuHeading, MenuItem, SetPoint, SetupMenu, GotoMenuStart, Return, Retry,
                    history
<1>5. CASE GetItemCrash
  BY <1>3, <1>5 DEF GetItemCrash, history
<1>6. CASE GotoMenuItemEnd
  BY <1>6, <1>t DEF GotoMenuItemEnd, Return, Answered, InLockStep, inverter, history
<1>7. CASE TakeKey
  <2>1. /\ phase = "wait" /\ line = <<>> /\ Tail(keys) = <<>> /\ MaxLine > 0
        /\ UNCHANGED <<script, left, menuheading, menuitem, phase, ignored>>
    BY <1>7, <1>t, KeyOnItsWay DEF TakeKey, host, Answered, SInv
  <2>2. keys' = <<>> /\ line' = <<dev'>>
    <3>1. Len(line) = 0
      BY <2>1
    <3>2. line' = Append(line, dev')
      BY <1>7, <1>t, <2>1, <3>1 DEF TakeKey, Send, LineInTime
    <3> QED
      BY <1>7, <2>1, <3>2 DEF TakeKey
  <2> QED
    BY <1>t, <2>1, <2>2 DEF Answered
<1>8. CASE UNCHANGED vars
  BY <1>8, <1>t DEF vars, host, inverter, history, Answered, Cursor
<1>9. ~IgnoreKey /\ ~Refresh /\ ~Listen
  BY <1>t, NothingToListenTo DEF IgnoreKey, Refresh, Reliable, LineInTime
<1> QED
  BY <1>1, <1>2, <1>4, <1>5, <1>6, <1>7, <1>8, <1>9 DEF Next, HostStep, DeviceStep

\* The numbers a step compares, and what the inverter's cursor is made of.
LEMMA DevParts ==
    ASSUME TypeOK
    PROVE  /\ dev = <<dev[1], dev[2]>> /\ dev[1] \in Nat /\ dev[2] \in Nat
           /\ dev[1] >= 1 /\ dev[1] \in Headings
           /\ Items[dev[1]] \in Nat /\ dev[2] <= Items[dev[1]]
           /\ menuheading \in Nat /\ menuitem \in Nat /\ left \in Nat
           /\ Cursor[1] = menuheading /\ Cursor[2] = menuitem
<1>1. dev = <<dev[1], dev[2]>> /\ dev[1] \in Headings /\ dev[2] \in 0..Items[dev[1]]
  BY PositionParts DEF TypeOK
<1>2. Items[dev[1]] \in Nat /\ dev[1] \in Nat /\ dev[1] >= 1
  BY <1>1, MenuAssumption DEF Headings
<1> QED
  BY <1>1, <1>2, SMTT(20) DEF TypeOK, Cursor

\* An item GetItem finds below a heading is one the inverter has.
LEMMA ListedItem ==
    ASSUME ItemsWork, NEW h \in Nat, h >= 1, NEW i \in Nat, <<h, i>> \in Listed
    PROVE  i <= Items[h] /\ h \in Headings
<1>1. <<h, i>> # Torn
  BY DEF Torn
<1>2. <<h, i>> \in Position
  BY <1>1 DEF ItemsWork
<1> QED
  BY <1>2, PositionParts, MenuAssumption DEF Headings

\* Between calls, with no operation left or with one to come.
LEMMA RestInStep ==
    ASSUME phase' = "ready", left' = 0, tracked' => Settled(Cursor, dev)'
    PROVE  InStep'
BY DEF InStep, StepsWith

LEMMA WriteInStep ==
    ASSUME SInv, UserMenusOnly, ItemsWork, Write
    PROVE  InStep'
<1> DEFINE op == Head(script).op
<1>1. /\ script # <<>> /\ script' = script /\ phase = "ready" /\ phase' = "wait"
      /\ op \in LeafCalls /\ menuheading' = menuheading /\ dev' = dev
      /\ tracked' = tracked /\ keys = <<>>
      /\ menuitem' = IF left = 0 THEN ItemBefore(op) ELSE menuitem
      /\ left' = IF left = 0 THEN TriesOf(op) - 1 ELSE left - 1
  BY DEF SInv, IInv, Write, history, InLockStep
<1>2. Head(keys').key = KeyOf(op) /\ keys' # <<>>
  BY <1>1 DEF Write
<1>3. PosThen' = Moved(dev, KeyOf(op))
  BY <1>1, <1>2 DEF PosThen
<1>4. SUFFICES ASSUME tracked, op # "start"
               PROVE  StepsWith(op)'
  BY <1>1 DEF InStep, Starting
<1>5. ~Starting /\ op # "S" /\ op \in {"L", "R", "+", "D", "Dread", "U", "Uread"}
      /\ menuheading >= 1
  <2>1. op # "S"
    BY <1>1, HeadPlanned DEF SInv, IInv
  <2> QED
    BY <1>1, <1>4, <2>1 DEF Starting, SInv, IInv, Drift, LeafCalls, HeadingCalls, ItemCalls
<1>6. StepsWith(op)
  BY <1>1, <1>4, <1>5 DEF SInv, InStep
<1>7. /\ dev = <<dev[1], dev[2]>> /\ dev[1] \in Nat /\ dev[2] \in Nat /\ dev[1] >= 1
      /\ Items[dev[1]] \in Nat /\ dev[2] <= Items[dev[1]]
      /\ menuheading \in Nat /\ menuitem \in Nat /\ left \in Nat
      /\ Cursor[1] = menuheading /\ Cursor[2] = menuitem
      /\ LastUser \in Nat /\ LastHeading \in Nat /\ LastUser <= LastHeading
  BY DevParts, MenuAssumption DEF SInv, IInv
<1>8. left = 0 /\ dev[1] = menuheading => dev[2] = menuitem \/ (menuitem = 1 /\ dev[2] = 0)
  BY <1>1, <1>6, <1>7 DEF StepsWith, Settled
<1>9. CASE op \in {"L", "R", "+"}
  <2>1. left = 0
    BY <1>1, <1>9 DEF SInv, Answered, ItemCalls
  <2>2. menuitem' = menuitem
    BY <1>1, <1>9, <2>1 DEF ItemBefore
  <2>3. CursorAfter(op)' = CursorAfter(op)
    BY <1>1, <2>2 DEF CursorAfter, Cursor
  <2>4. Settled(CursorAfter(op), Moved(dev, KeyOf(op)))
    <3>1. CASE op = "L"
      BY <1>5, <1>7, <1>8, <2>1, <3>1 DEF Settled, CursorAfter, Moved, KeyOf
    <3>2. CASE op = "R"
      BY <1>5, <1>7, <1>8, <2>1, <3>2 DEF Settled, CursorAfter, Moved, KeyOf
    <3>3. CASE op = "+"
      BY <1>7, <1>8, <2>1, <3>3 DEF Settled, CursorAfter, Moved, KeyOf
    <3> QED
      BY <1>9, <3>1, <3>2, <3>3
  <2> QED
    BY <1>1, <1>3, <1>9, <2>3, <2>4 DEF StepsWith
<1>10. CASE op \in {"U", "Uread"}
  <2>1. Moved(dev, KeyOf(op)) = <<dev[1], IF dev[2] > 0 THEN dev[2] - 1 ELSE 0>>
    BY <1>10 DEF Moved, KeyOf
  <2>2. CursorAfter(op)' = <<menuheading, menuitem'>>
    BY <1>1, <1>10 DEF CursorAfter, Cursor
  <2>3. left = 0 => menuitem' = IF menuitem > 1 THEN menuitem - 1 ELSE menuitem
    BY <1>1, <1>10 DEF ItemBefore
  <2>4. left # 0 /\ dev[1] = menuheading => menuitem' = menuitem /\ menuitem = 1 /\ dev[2] = 0
    BY <1>1, <1>6, <1>7, <1>10 DEF StepsWith
  <2>5. Settled(<<menuheading, menuitem'>>, <<dev[1], IF dev[2] > 0 THEN dev[2] - 1 ELSE 0>>)
    BY <1>7, <1>8, <2>3, <2>4 DEF Settled
  <2> QED
    BY <1>1, <1>3, <1>10, <2>1, <2>2, <2>5 DEF StepsWith
<1>11. CASE op \in {"D", "Dread"}
  <2>1. Moved(dev, KeyOf(op)) =
            <<dev[1], IF dev[2] < Items[dev[1]] THEN dev[2] + 1 ELSE dev[2]>>
    BY <1>11 DEF Moved, KeyOf
  <2>2. left = 0 => menuitem' = menuitem + 1 /\ left' >= 1 /\ left' \in Nat
    <3>1. TriesOf(op) = ItemTries
      BY <1>11 DEF TriesOf
    <3> QED
      BY <1>1, <1>11, <3>1, TriesAssumption DEF ItemBefore, ItemsWork
  <2>3. left # 0 => menuitem' = menuitem /\ (dev[1] = menuheading => menuitem = 2 /\ dev[2] = 1)
    BY <1>1, <1>6, <1>7, <1>11 DEF StepsWith
  <2>4. ASSUME Cursor' \in Listed, PosThen'[1] = menuheading
        PROVE  PosThen'[2] = menuitem' \/ (menuitem' = 2 /\ PosThen'[2] = 1 /\ left' > 0)
    <3>1. dev[1] = menuheading
      BY <1>3, <2>1, <2>4
    <3>2. menuitem' <= Items[menuheading] /\ menuitem' \in Nat
      <4>1. <<menuheading, menuitem'>> \in Listed /\ menuitem' \in Nat
        BY <1>1, <1>7, <2>2, <2>3, <2>4 DEF Cursor
      <4> QED
        BY <1>5, <1>7, <4>1, ListedItem
    <3>3. PosThen'[1] = dev[1]
          /\ PosThen'[2] = IF dev[2] < Items[dev[1]] THEN dev[2] + 1 ELSE dev[2]
      BY <1>3, <2>1
    <3> QED
      BY <1>7, <1>8, <2>2, <2>3, <3>1, <3>2, <3>3
  <2> QED
    BY <1>1, <1>11, <2>4 DEF StepsWith, HeadingCalls
<1> QED
  BY <1>5, <1>9, <1>10, <1>11

\* Where the headings agree, a D that returns with its label seen, or that has no try
\* left, is at its item; one that is tried again still shows the first item for the
\* second.
LEMMA DownAnswered ==
    ASSUME SInv, ItemsWork, LineInTime, tracked, Cursor \in Listed, dev[1] = menuheading,
           NEW op \in {"D", "Dread"}, ReadSerial(op)
    PROVE  /\ Finds(Cursor) \/ left = 0 => dev = Cursor
           /\ ~(Finds(Cursor) \/ left = 0) =>
                 menuitem = 2 /\ dev[2] = 1
<1>1. Head(script).op = op /\ phase = "wait" /\ PosThen = dev /\ line = <<dev>>
  BY AnswerRead
<1>2. ~Starting
  BY <1>1 DEF Starting
<1>3. dev[1] = menuheading /\ (dev[2] = menuitem \/ (menuitem = 2 /\ dev[2] = 1 /\ left > 0))
  BY <1>1, <1>2 DEF SInv, InStep, StepsWith
<1>4. dev = <<dev[1], dev[2]>> /\ dev[1] \in Nat /\ dev[1] >= 1 /\ dev[1] <= LastUser
  BY DevParts DEF SInv, IInv, Drift
<1>5. Finds(Cursor) <=> Label[dev] = Label[Cursor]
  BY <1>1, FoundAtAnswer
<1>6. CASE dev[2] = menuitem
  <2>1. dev = Cursor
    BY <1>3, <1>4, <1>6 DEF Cursor
  <2> QED
    BY <1>5, <2>1
<1>7. CASE menuitem = 2 /\ dev[2] = 1 /\ left > 0
  <2>1. dev = <<menuheading, 1>> /\ Cursor = <<menuheading, 2>> /\ menuheading \in 1..LastUser
    BY <1>3, <1>4, <1>7, MenuAssumption DEF Cursor
  <2>2. ~Finds(Cursor)
    BY <1>5, <2>1 DEF ItemsWork
  <2> QED
    BY <1>3, <1>7, <2>2
<1> QED
  BY <1>3, <1>6, <1>7

\* A U that is tried again was pressed at a heading.
LEMMA UpAnswered ==
    ASSUME SInv, LineInTime, tracked, NEW op \in {"U", "Uread"}, ReadSerial(op)
    PROVE  /\ Settled(Cursor, dev)
           /\ ~Finds(Cursor) /\ dev[1] = menuheading => menuitem = 1 /\ dev[2] = 0
<1>1. Head(script).op = op /\ phase = "wait" /\ PosThen = dev /\ line = <<dev>>
  BY AnswerRead
<1>2. ~Starting
  BY <1>1 DEF Starting
<1>3. Settled(Cursor, dev)
  <2>1. CursorAfter(op) = Cursor
    BY DEF CursorAfter
  <2> QED
    BY <1>1, <1>2, <2>1 DEF SInv, InStep, StepsWith
<1>4. dev = <<dev[1], dev[2]>> /\ Cursor[1] = menuheading /\ Cursor[2] = menuitem
  BY DevParts DEF SInv, IInv
<1>5. dev = Cursor => Finds(Cursor)
  BY <1>1, FoundAtAnswer
<1> QED
  BY <1>3, <1>4, <1>5 DEF Settled, Cursor

LEMMA MenuItemInStep ==
    ASSUME SInv, LineInTime, ItemsWork, NEW op \in ItemCalls, MenuItem(op)
    PROVE  InStep'
<1>1. /\ ReadSerial(op) /\ dev' = dev /\ Cursor' = Cursor
      /\ menuheading' = menuheading /\ menuitem' = menuitem
  BY DEF MenuItem, ReadSerial, Cursor
<1>2. PICK matched \in LabelFound(Cursor) : IF matched \/ left = 0 THEN Return ELSE Retry
  BY DEF MenuItem
<1>3. tracked' => tracked /\ Cursor \in Listed /\ (matched <=> Finds(Cursor))
  <2>1. tracked' => tracked /\ Cursor \in Listed
    BY DEF MenuItem
  <2>2. Cursor \in Listed => (matched <=> Finds(Cursor))
    BY <1>2 DEF LabelFound
  <2> QED
    BY <2>1, <2>2
<1>4. CASE matched \/ left = 0
  <2>1. phase' = "ready" /\ left' = 0
    BY <1>2, <1>4 DEF Return
  <2>2. ASSUME tracked' PROVE Settled(Cursor, dev)
    <3>1. CASE op \in {"D", "Dread"}
      <4>1. dev[1] = menuheading => dev = Cursor
        BY <1>1, <1>3, <1>4, <2>2, <3>1, DownAnswered
      <4> QED
        BY <4>1 DEF Settled, Cursor
    <3>2. CASE op \in {"U", "Uread"}
      BY <1>1, <1>3, <2>2, <3>2, UpAnswered
    <3> QED
      BY <3>1, <3>2 DEF ItemCalls
  <2>3. Settled(Cursor, dev)' <=> Settled(Cursor, dev)
    BY <1>1 DEF Settled
  <2> QED
    BY <2>1, <2>2, <2>3, RestInStep
<1>5. CASE ~(matched \/ left = 0)
  <2>1. phase' = "ready" /\ script' = script /\ left' = left /\ left # 0
        /\ Head(script).op = op
    BY <1>1, <1>2, <1>5, AnswerRead DEF Retry
  <2>2. ASSUME tracked' PROVE StepsWith(op)'
    <3>1. CASE op \in {"D", "Dread"}
      <4>1. dev[1] = menuheading => menuitem = 2 /\ dev[2] = 1
        BY <1>1, <1>3, <1>5, <2>2, <3>1, DownAnswered
      <4> QED
        BY <1>1, <2>1, <3>1, <4>1 DEF StepsWith
    <3>2. CASE op \in {"U", "Uread"}
      <4>1. dev[1] = menuheading => menuitem = 1 /\ dev[2] = 0
        BY <1>1, <1>3, <1>5, <2>2, <3>2, UpAnswered
      <4> QED
        BY <1>1, <2>1, <3>2, <4>1 DEF StepsWith
    <3> QED
      BY <3>1, <3>2 DEF ItemCalls
  <2> QED
    BY <2>1, <2>2 DEF InStep
<1> QED
  BY <1>4, <1>5

LEMMA HeadingInStep ==
    ASSUME SInv, LineInTime, NEW op \in HeadingCalls, MenuHeading(op)
    PROVE  InStep'
<1>1. /\ Head(script).op = op /\ phase = "wait" /\ PosThen = dev /\ dev' = dev
      /\ Cursor' = CursorAfter(op) /\ phase' = "ready" /\ left' = 0
      /\ (tracked' => tracked)
  BY AnswerRead DEF MenuHeading, Return, Cursor, CursorAfter, HeadingCalls
<1>2. ~Starting
  BY <1>1 DEF Starting, HeadingCalls
<1>3. tracked => Settled(CursorAfter(op), dev)
  BY <1>1, <1>2 DEF SInv, InStep, StepsWith
<1>4. tracked' => Settled(Cursor, dev)'
  BY <1>1, <1>3 DEF Settled
<1> QED
  BY <1>1, <1>4, RestInStep

LEMMA SetPointInStep ==
    ASSUME SInv, LineInTime, SetPoint
    PROVE  InStep'
<1>1. /\ Head(script).op = "+" /\ phase = "wait" /\ PosThen = dev /\ dev' = dev
      /\ Cursor' = Cursor /\ phase' = "ready" /\ left' = 0 /\ tracked' = tracked
  BY AnswerRead DEF SetPoint, Return, Cursor, history
<1>2. ~Starting /\ CursorAfter("+") = Cursor
  BY <1>1 DEF Starting, CursorAfter
<1>3. tracked => Settled(Cursor, dev)
  BY <1>1, <1>2 DEF SInv, InStep, StepsWith
<1>4. tracked' => Settled(Cursor, dev)'
  BY <1>1, <1>3 DEF Settled
<1> QED
  BY <1>1, <1>4, RestInStep

\* GotoMenuStart ends at the first heading's own line.
LEMMA StartInStep ==
    ASSUME SInv, LineInTime, GotoMenuStart
    PROVE  InStep'
<1>1. /\ script # <<>> /\ Head(script).op = "start" /\ phase = "wait"
      /\ line = <<dev>> /\ dev' = dev /\ keys' = <<>>
  BY AnswerRead DEF GotoMenuStart
<1>2. dev[2] = 0
  <2>1. Starting /\ line # <<>>
    BY <1>1 DEF Starting
  <2> QED
    BY <2>1 DEF SInv, IInv, Drift
<1>3. CASE FindsInverter \/ left = 0
  <2>1. Cursor' = <<1, 0>> /\ left' = 0 /\ phase' = "ready"
    BY <1>3 DEF GotoMenuStart, Return, Cursor
  <2>2. Settled(Cursor, dev)'
    BY <1>1, <1>2, <2>1 DEF Settled
  <2> QED
    BY <2>1, <2>2, RestInStep
<1>4. CASE ~(FindsInverter \/ left = 0)
  <2>1. script' = script /\ left' = left /\ left # 0
    BY <1>4 DEF GotoMenuStart, Retry
  <2>2. Starting'
    BY <1>1, <2>1 DEF Starting, SInv, IInv, TypeOK
  <2> QED
    BY <2>2 DEF InStep
<1> QED
  BY <1>3, <1>4

\* GotoMenuItem's assignment moves to the heading the program is at or to its
\* first item.
LEMMA EndInStep ==
    ASSUME SInv, NearTargets, GotoMenuItemEnd
    PROVE  InStep'
<1>1. /\ script # <<>> /\ Head(script).op = "at" /\ phase = "ready"
      /\ phase' = "ready" /\ left' = 0 /\ dev' = dev /\ tracked' = tracked
      /\ menuheading' = Head(script).to[1] /\ menuitem' = Head(script).to[2]
  BY DEF GotoMenuItemEnd, Return, inverter, history
<1>2. left = 0 /\ ~Starting
  BY <1>1 DEF SInv, Answered, Starting, ItemCalls
<1>3. /\ menuheading = Head(script).to[1] /\ Head(script).to[2] <= 1
      /\ menuitem = IF Head(script).to[2] > 0 THEN Head(script).to[2] - 1 ELSE 0
  BY <1>1, HeadPlanned DEF SInv, IInv
<1>4. Head(script).to[2] \in Nat
  BY <1>1, HeadType DEF SInv, IInv, Calls
<1>5. tracked => Settled(Cursor, dev)
  BY <1>1, <1>2 DEF SInv, InStep, StepsWith
<1>6. tracked' => Settled(Cursor, dev)'
  <2>1. menuheading' = menuheading /\ (menuitem' = 0 \/ menuitem' = 1) /\ menuitem = 0
    BY <1>1, <1>3, <1>4
  <2>2. tracked /\ dev[1] = menuheading => dev[2] = 0
    BY <1>5, <2>1 DEF Settled, Cursor
  <2> QED
    BY <1>1, <2>1, <2>2 DEF Settled, Cursor
<1> QED
  BY <1>1, <1>6, RestInStep

LEMMA TakeKeyInStep ==
    ASSUME SInv, UserMenusOnly, TakeKey
    PROVE  InStep'
<1>1. /\ phase = "wait" /\ keys # <<>> /\ keys' = <<>>
      /\ dev' = Moved(dev, Head(keys).key)
      /\ UNCHANGED <<menuheading, menuitem, script, phase, left, tracked>>
  BY KeyOnItsWay DEF SInv, TakeKey, host
<1>2. PosThen' = PosThen
  BY <1>1 DEF PosThen
<1>3. CursorAfter(Head(script).op)' = CursorAfter(Head(script).op) /\ Cursor' = Cursor
  BY <1>1 DEF CursorAfter, Cursor
<1>4. Starting' <=> Starting
  BY <1>1 DEF Starting
<1>5. StepsWith(Head(script).op) => StepsWith(Head(script).op)'
  BY <1>1, <1>2, <1>3 DEF StepsWith
<1> QED
  BY <1>1, <1>4, <1>5 DEF SInv, InStep

\* An R is lost at the end of the menus only where the program has counted as far.
LEMMA RunsOverThere ==
    ASSUME SInv, UserMenusOnly
    PROVE  RunsOverAtEnd
<1> SUFFICES ASSUME TakeKey, tracked, overrun' # overrun
             PROVE  Inside /\ Head(script).op = "R" /\ menuheading >= LastUser
  BY DEF RunsOverAtEnd
<1>1. /\ phase = "wait" /\ script # <<>> /\ keys # <<>> /\ HeadingNow = menuheading
      /\ Head(keys).key = "R" /\ Moved(dev, "R")[1] = dev[1]
      /\ KeyOf(Head(script).op) = "R" /\ Head(script).op \in LeafCalls
  BY KeyOnItsWay DEF TakeKey, SInv, IInv, InLockStep
<1>2. Head(script).op = "R"
  BY <1>1 DEF KeyOf, LeafCalls, HeadingCalls, ItemCalls
<1>3. /\ dev[1] \in Nat /\ dev[1] <= LastUser /\ menuheading \in Nat /\ LastUser \in Nat
      /\ dev \in Position
  BY DevParts, MenuAssumption DEF SInv, IInv, Drift, TypeOK
<1>4. dev[1] = LastUser
  BY <1>1, <1>3, MovedHeading
<1>5. dev[1] - menuheading <= 0
  BY <1>1, <1>2 DEF SInv, IInv, Drift, Near, Starting, Answered
<1> QED
  BY <1>1, <1>2, <1>3, <1>4, <1>5 DEF Inside

LEMMA NextSInv ==
    ASSUME SInv, Reliable, UserMenusOnly, StartWorks, NearTargets, ItemsWork, [Next]_vars
    PROVE  SInv'
<1>1. IInv' /\ Planned(TRUE)' /\ Answered' /\ LineInTime
  <2>1. LineInTime /\ TypeOK /\ Planned(TRUE)
    BY DEF SInv, IInv, Reliable
  <2>2. Planned(TRUE)'
    BY <2>1, NextPlanned, RunsOverThere
  <2> QED
    BY <2>1, <2>2, NextInv, NextAnswered DEF SInv
<1>2. ASSUME NEW op \in Operations, Invoke(op)
      PROVE  InStep'
  <2>1. /\ script = <<>> /\ left = 0 /\ phase = "ready" /\ phase' = "ready" /\ left' = 0
        /\ UNCHANGED <<menuheading, menuitem, dev, tracked>>
    BY <1>2 DEF Invoke, inverter, SInv, IInv, InLockStep
  <2>2. ~Starting
    BY <2>1 DEF Starting
  <2>3. tracked => Settled(Cursor, dev)
    BY <2>1, <2>2 DEF SInv, InStep, StepsWith
  <2>4. tracked' => Settled(Cursor, dev)'
    BY <2>1, <2>3 DEF Settled, Cursor
  <2> QED
    BY <2>1, <2>4, RestInStep
<1>3. CASE GetItemCrash
  BY <1>1, <1>3 DEF GetItemCrash, InStep, SInv
<1>4. CASE UNCHANGED vars
  <2>1. Starting' <=> Starting
    BY <1>4 DEF vars, host, Starting
  <2>2. CursorAfter(Head(script).op)' = CursorAfter(Head(script).op) /\ PosThen' = PosThen
        /\ Cursor' = Cursor
    BY <1>4 DEF vars, host, inverter, CursorAfter, Cursor, PosThen
  <2>3. StepsWith(Head(script).op) => StepsWith(Head(script).op)'
    BY <1>4, <2>2 DEF vars, host, inverter, StepsWith
  <2> QED
    BY <1>1, <1>4, <2>1, <2>3 DEF SInv, InStep, vars, host, history
<1>5. ~SetupMenu
  <2>1. SetupMenu => script # <<>> /\ Head(script).op = "S" /\ phase = "wait"
    BY DEF SetupMenu, ReadSerial
  <2> QED
    BY <2>1, HeadPlanned DEF SInv, IInv
<1>6. ~IgnoreKey /\ ~Refresh /\ ~Listen
  BY NothingToListenTo DEF IgnoreKey, Refresh, Reliable, LineInTime, SInv, IInv
<1> QED
  BY <1>1, <1>2, <1>3, <1>4, <1>5, <1>6, WriteInStep, HeadingInStep, MenuItemInStep,
     SetPointInStep, StartInStep, EndInStep, TakeKeyInStep DEF SInv, Next, HostStep, DeviceStep

LEMMA InitSInv == Init => SInv
<1>1. Init => IInv
  BY InitInv
<1>2. Init => Answered
  BY DEF Init, Answered
<1>3. Init => InStep
  BY DEF Init, InStep
<1>4. Init => Planned(TRUE)
  BY InitPlanned
<1> QED
  BY <1>1, <1>2, <1>3, <1>4 DEF SInv

\* Without ignored keys the program is ahead by the R lost, and never behind.
LEMMA HeadingAhead ==
    ASSUME SInv, tracked, phase # "crashed", ~Starting, HeadingNow = menuheading
    PROVE  menuheading - dev[1] \in 0..overrun
<1>1. menuheading - dev[1] <= overrun /\ dev[1] - menuheading <= 0
  BY DEF SInv, IInv, Drift, Near, Answered, TypeOK
<1>2. menuheading \in Nat /\ dev[1] \in Nat /\ overrun \in Nat
  BY DevParts DEF SInv, IInv, TypeOK
<1> QED
  BY <1>1, <1>2

\* Between operations the program's heading is ahead of the inverter's by no more than
\* the R taken at the end of the menus since GotoMenuStart, and where the headings are
\* the same so are the items, but for the heading shown at item 1: nothing else in a
\* sequence of MenuHeadingMinus, MenuHeadingPlus, MenuItemMinus, MenuItemPlus,
\* SetPointPlus, GotoMenuStart and PollMeters leaves the two apart, whatever the menus,
\* when the line loses nothing and GotoMenuItem is not asked for a second item.
THEOREM CursorsAgree ==
    ASSUME Reliable, UserMenusOnly, StartWorks, NearTargets, ItemsWork
    PROVE  Spec => []CursorInStep
<1>1. ASSUME SInv
      PROVE  CursorInStep
  <2>1. ASSUME Idle, tracked
        PROVE  Settled(Cursor, dev) /\ menuheading - dev[1] \in 0..overrun
    <3>1. ~Starting /\ phase = "ready" /\ left = 0 /\ HeadingNow = menuheading
      BY <2>1, <1>1 DEF Idle, Starting, SInv, IInv, InLockStep, HeadingNow
    <3>2. Settled(Cursor, dev)
      BY <1>1, <2>1, <3>1 DEF SInv, InStep, StepsWith
    <3> QED
      BY <1>1, <2>1, <3>1, <3>2, HeadingAhead
  <2> QED
    BY <2>1 DEF CursorInStep, Settled, Cursor
<1>2. SInv /\ [Next]_vars => SInv'
  BY NextSInv
<1> QED
  BY <1>1, <1>2, InitSInv, PTL DEF Spec

\* A set point key reaches the setting the program believes it is at, or one below an
\* earlier heading, earlier by the R taken at the end of the menus since GotoMenuStart:
\* the step that changes one finds the inverter that near to the cursor the key was
\* pressed for (SetPointPlus, SetPointMinus after any navigation but GotoMenuItem to a
\* second item).
THEOREM SettingsAreNear ==
    ASSUME Reliable, UserMenusOnly, StartWorks, NearTargets, ItemsWork
    PROVE  Spec => []SettingIsNear
<1> DEFINE Inv == SInv /\ SettingIsNear
<1>1. Init => Inv
  BY InitSInv DEF Init, NoSetting, Torn, SettingIsNear
<1>2. Inv /\ [Next]_vars => Inv'
  <2> SUFFICES ASSUME Inv, [Next]_vars PROVE Inv'
    OBVIOUS
  <2>1. SInv'
    BY NextSInv
  <2>2. CASE setting' = setting
    BY <2>1, <2>2 DEF SettingIsNear
  <2>3. CASE setting' = NoSetting
    BY <2>1, <2>3 DEF NoSetting, Torn, SettingIsNear
  <2>4. CASE TakeKey
    <3>1. CASE Head(keys).key = "+" /\ dev[2] > 0 /\ tracked
      <4>1. /\ phase = "wait" /\ keys # <<>> /\ Head(keys).key = KeyOf(Head(script).op)
            /\ script # <<>> /\ Head(script).op \in LeafCalls /\ HeadingNow = menuheading
        BY <2>4, KeyOnItsWay DEF TakeKey, SInv, IInv, InLockStep
      <4>2. Head(script).op = "+"
        BY <3>1, <4>1 DEF KeyOf, LeafCalls, HeadingCalls, ItemCalls
      <4>3. Settled(Cursor, Moved(dev, "+"))
        BY <3>1, <4>1, <4>2 DEF SInv, InStep, StepsWith, Starting, CursorAfter, PosThen
      <4>4. dev[1] = menuheading => dev = Cursor
        <5>1. Moved(dev, "+") = dev
          BY DEF Moved
        <5>2. dev = <<dev[1], dev[2]>> /\ dev[2] \in Nat
          BY DevParts DEF SInv, IInv
        <5> QED
          BY <3>1, <4>3, <5>1, <5>2 DEF Settled, Cursor
      <4>5. /\ setting' = [want |-> Head(keys).for, at |-> dev, over |-> overrun]
            /\ Head(keys).for = Cursor
        BY <2>4, <3>1, <4>1 DEF TakeKey, SInv, Answered
      <4>6. menuheading - dev[1] \in 0..overrun
        BY <3>1, <4>1, <4>2, HeadingAhead DEF Starting
      <4> QED
        BY <2>1, <4>4, <4>5, <4>6 DEF SettingIsNear, Cursor
    <3>2. CASE ~(Head(keys).key = "+" /\ dev[2] > 0 /\ tracked)
      <4>1. setting' = setting
        BY <2>4, <3>2 DEF TakeKey
      <4> QED
        BY <2>2, <4>1
    <3> QED
      BY <3>1, <3>2
  <2>5. CASE \E op \in Operations : Invoke(op)
    BY <2>3, <2>5 DEF Invoke
  <2>6. CASE Listen \/ HostStep \/ IgnoreKey \/ Refresh \/ UNCHANGED vars
    <3>1. setting' = setting
      BY <2>6 DEF Listen, HostStep, Write, MenuHeading, MenuItem, GetItemCrash, SetPoint,
                  SetupMenu, GotoMenuStart, GotoMenuItemEnd, IgnoreKey, Refresh, vars, history
    <3> QED
      BY <2>2, <3>1
  <2> QED
    BY <2>4, <2>5, <2>6 DEF Next, DeviceStep
<1>3. Inv => SettingIsNear
  OBVIOUS
<1> QED
  BY <1>1, <1>2, <1>3, PTL DEF Spec

\* Every meter value PollMeters stores is that of the item it is stored for, label
\* seen or not: on such a line the poller never reads one meter for another.
THEOREM ReadingsAreOwn ==
    ASSUME Reliable, UserMenusOnly, StartWorks, NearTargets, ItemsWork,
           MetersListed, WayListed
    PROVE  Spec => []ReadingIsOwn
<1> DEFINE Inv == SInv /\ ReadingIsOwn
<1>1. Init => Inv
  BY InitSInv DEF Init, NoReading, ReadingIsOwn
<1>2. Inv /\ [Next]_vars => Inv'
  <2> SUFFICES ASSUME Inv, [Next]_vars PROVE Inv'
    OBVIOUS
  <2>1. SInv'
    BY NextSInv
  <2>2. CASE reading' = reading
    BY <2>1, <2>2 DEF ReadingIsOwn
  <2>3. CASE reading' = NoReading
    BY <2>1, <2>3 DEF NoReading, ReadingIsOwn
  <2>4. ASSUME NEW op \in ItemCalls, MenuItem(op)
        PROVE  Inv'
    <3>1. PICK matched \in LabelFound(Cursor) :
             IF matched \/ left = 0 THEN Store(op, matched) ELSE reading' = reading
      BY <2>4 DEF MenuItem
    <3>2. /\ ReadSerial(op) /\ script # <<>> /\ phase = "wait"
          /\ Head(script).op = op /\ line = <<dev>> /\ LineInTime
      BY <2>4, AnswerRead DEF MenuItem, Reliable
    <3>3. CASE reading' # reading
      <4>1. /\ matched \/ left = 0
            /\ op \in Reads /\ reading'.want = Cursor /\ reading'.from = dev
        BY <3>1, <3>2, <3>3, StoreIsAnswer
      <4>2. Cursor \in Meters /\ tracked /\ Cursor \in Listed /\ overrun = 0
        BY <3>2, <4>1, HeadPlanned DEF SInv, IInv, MetersListed
      <4>5. dev[1] = menuheading
        <5>1. ~Starting /\ HeadingNow = menuheading
          BY <3>2, <4>1, AnswerRead DEF Starting, HeadingNow, CursorAfter, Cursor, Reads
        <5>2. menuheading - dev[1] \in 0..0
          BY <3>2, <4>2, <5>1, HeadingAhead
        <5> QED
          BY <5>2, DevParts DEF SInv, IInv
      <4>3. matched <=> Finds(Cursor)
        BY <3>1, <4>2 DEF LabelFound
      <4>4. dev = Cursor
        <5>1. CASE op = "Dread"
          BY <3>2, <4>1, <4>2, <4>3, <4>5, <5>1, DownAnswered
        <5>2. CASE op = "Uread"
          <6>1. Settled(Cursor, dev)
            BY <3>2, <4>2, <5>2, UpAnswered
          <6>2. menuitem # 1
            BY <4>2 DEF Meters, Cursor
          <6>3. dev = <<dev[1], dev[2]>>
            BY DevParts DEF SInv, IInv
          <6> QED
            BY <4>5, <6>1, <6>2, <6>3 DEF Settled, Cursor
        <5> QED
          BY <4>1, <5>1, <5>2 DEF Reads
      <4> QED
        BY <2>1, <4>1, <4>4 DEF ReadingIsOwn
    <3> QED
      BY <2>2, <3>3
  <2>5. CASE \E op \in Operations : Invoke(op)
    BY <2>3, <2>5 DEF Invoke
  <2>6. CASE \/ Listen \/ Write \/ GetItemCrash \/ SetPoint \/ SetupMenu \/ GotoMenuStart
             \/ GotoMenuItemEnd \/ DeviceStep \/ Refresh \/ UNCHANGED vars
             \/ \E op \in HeadingCalls : MenuHeading(op)
    <3>1. reading' = reading
      BY <2>6 DEF Listen, Write, GetItemCrash, SetPoint, SetupMenu, GotoMenuStart,
                  GotoMenuItemEnd, DeviceStep, TakeKey, IgnoreKey, Refresh, MenuHeading,
                  vars, history
    <3> QED
      BY <2>2, <3>1
  <2> QED
    BY <2>4, <2>5, <2>6 DEF Next, HostStep
<1>3. Inv => ReadingIsOwn
  OBVIOUS
<1> QED
  BY <1>1, <1>2, <1>3, PTL DEF Spec

----------------------------------------------------------------------------
(* Pressing a key until a line shows: the recursion of XanbusUI's Pressed.  *)

\* Of a nonempty set of numbers one is the smallest.
LEMMA Smallest ==
    ASSUME NEW S \in SUBSET Nat, S # {}
    PROVE  \E k \in S : \A j \in S : k <= j
<1> DEFINE R == {pair \in Nat \X Nat : pair[1] < pair[2]}
<1>1. IsWellFoundedOn(R, Nat)
  BY NatLessThanWellFounded DEF OpToRel
<1>2. PICK k \in S : \A j \in S : ~ (<<j, k>> \in R)
  <2> HIDE DEF R
  <2> QED
    BY <1>1, WFMin
<1>3. ASSUME NEW j \in S
      PROVE  k <= j
  <2>1. j \in Nat /\ k \in Nat /\ <<j, k>> \notin R
    BY <1>2
  <2>2. ~ (<<j, k>>[1] < <<j, k>>[2])
    BY <2>1
  <2> QED
    BY <2>1, <2>2
<1> QED
  BY <1>3

\* A sequence defined by recursion, as that of functions in Pressed, exists.
Iterates(f, V, first, step) ==
    /\ f \in [Nat -> V]
    /\ \A n \in Nat : f[n] = IF n <= 1 THEN first ELSE step[f[n - 1]]

LEMMA Iterated ==
    ASSUME NEW V, NEW first \in V, NEW step \in [V -> V]
    PROVE  \E f : Iterates(f, V, first, step)
<1> DEFINE Right(f, m) ==
               \A n \in Nat : n <= m => f[n] = IF n <= 1 THEN first ELSE step[f[n - 1]]
           Bad == {m \in Nat : ~ \E f \in [Nat -> V] : Right(f, m)}
           Apart(f, g) == {n \in Nat : f[n] # g[n]}
<1>1. Bad = {}
  <2>1. SUFFICES ASSUME Bad # {} PROVE FALSE
    OBVIOUS
  <2>2. PICK m \in Bad : \A j \in Bad : m <= j
    <3>1. Bad \in SUBSET Nat
      OBVIOUS
    <3> HIDE DEF Bad
    <3> QED
      BY <2>1, <3>1, Smallest
  <2>3. m # 0
    <3> DEFINE f == [n \in Nat |-> first]
    <3>1. f \in [Nat -> V] /\ Right(f, 0)
      OBVIOUS
    <3> HIDE DEF f, Right
    <3> QED
      BY <2>2, <3>1
  <2>4. m \in Nat /\ m - 1 \in Nat /\ m - 1 < m
    BY <2>2, <2>3
  <2>5. m - 1 \notin Bad
    BY <2>2, <2>4
  <2>6. PICK f \in [Nat -> V] : Right(f, m - 1)
    BY <2>4, <2>5
  <2> DEFINE g == [n \in Nat |-> IF n < m THEN f[n]
                               ELSE IF n <= 1 THEN first ELSE step[f[n - 1]]]
  <2>7. g \in [Nat -> V]
    <3>1. \A n \in Nat : ~(n <= 1) => step[f[n - 1]] \in V
      <4>1. \A n \in Nat : ~(n <= 1) => f[n - 1] \in V
        OBVIOUS
      <4> QED
        BY <4>1
    <3> QED
      BY <3>1
  <2>8. Right(g, m)
    <3>1. ASSUME NEW n \in Nat, n <= m
          PROVE  g[n] = IF n <= 1 THEN first ELSE step[g[n - 1]]
      <4>1. ~(n <= 1) => n - 1 \in Nat /\ g[n - 1] = f[n - 1]
        BY <2>4, <3>1
      <4>2. CASE n < m
        <5>1. n <= m - 1
          BY <2>4, <4>2
        <5>2. f[n] = IF n <= 1 THEN first ELSE step[f[n - 1]]
          BY <2>6, <5>1
        <5> QED
          BY <4>1, <4>2, <5>2
      <4>3. CASE ~(n < m)
        BY <4>1, <4>3
      <4> QED
        BY <4>2, <4>3
    <3> HIDE DEF g
    <3> QED
      BY <3>1
  <2> HIDE DEF g, Right
  <2> QED
    BY <2>2, <2>7, <2>8
<1>2. ASSUME NEW f \in [Nat -> V], NEW g \in [Nat -> V], NEW m \in Nat,
             Right(f, m), Right(g, m), NEW n \in Nat, n <= m
      PROVE  f[n] = g[n]
  <2>1. SUFFICES ASSUME n \in Apart(f, g) PROVE FALSE
    OBVIOUS
  <2>2. PICK k \in Apart(f, g) : \A j \in Apart(f, g) : k <= j
    <3>1. Apart(f, g) \in SUBSET Nat /\ Apart(f, g) # {}
      BY <2>1
    <3> HIDE DEF Apart
    <3> QED
      BY <3>1, Smallest
  <2>3. k \in Nat /\ k <= n /\ f[k] # g[k] /\ k <= m
    BY <1>2, <2>1, <2>2
  <2>4. /\ f[k] = IF k <= 1 THEN first ELSE step[f[k - 1]]
        /\ g[k] = IF k <= 1 THEN first ELSE step[g[k - 1]]
    BY <1>2, <2>3
  <2>5. ~(k <= 1)
    BY <2>3, <2>4
  <2>6. k - 1 \in Nat /\ k - 1 < k
    BY <2>3, <2>5
  <2>7. f[k - 1] = g[k - 1]
    BY <2>2, <2>3, <2>6
  <2> QED
    BY <2>3, <2>4, <2>7
<1> DEFINE upto == [m \in Nat |-> CHOOSE f \in [Nat -> V] : Right(f, m)]
           whole == [n \in Nat |-> upto[n][n]]
<1>3. ASSUME NEW m \in Nat
      PROVE  upto[m] \in [Nat -> V] /\ Right(upto[m], m)
  <2>1. \E f \in [Nat -> V] : Right(f, m)
    BY <1>1
  <2> HIDE DEF Right
  <2> QED
    BY <2>1
<1>4. whole \in [Nat -> V]
  <2> HIDE DEF upto
  <2>1. \A m \in Nat : upto[m][m] \in V
    BY <1>3
  <2> QED
    BY <2>1
<1>5. ASSUME NEW n \in Nat
      PROVE  whole[n] = IF n <= 1 THEN first ELSE step[whole[n - 1]]
  <2>1. whole[n] = upto[n][n]
    OBVIOUS
  <2> HIDE DEF upto
  <2>2. upto[n][n] = IF n <= 1 THEN first ELSE step[upto[n][n - 1]]
    BY <1>3
  <2>3. CASE ~(n <= 1)
    <3>1. n - 1 \in Nat /\ n - 1 <= n /\ n - 1 <= n - 1
      BY <2>3
    <3>2. whole[n - 1] = upto[n - 1][n - 1]
      BY <3>1
    <3> HIDE DEF whole, Right
    <3>3. /\ upto[n] \in [Nat -> V] /\ Right(upto[n], n)
          /\ upto[n - 1] \in [Nat -> V] /\ Right(upto[n - 1], n - 1)
      BY <1>3, <3>1
    <3>4. Right(upto[n], n - 1)
      BY <3>1, <3>3 DEF Right
    <3>5. upto[n - 1][n - 1] = upto[n][n - 1]
      BY <1>2, <3>1, <3>3, <3>4
    <3> QED
      BY <2>1, <2>2, <3>2, <3>5
  <2>4. CASE n <= 1
    BY <2>1, <2>2, <2>4
  <2> QED
    BY <2>3, <2>4
<1> HIDE DEF whole
<1> QED
  BY <1>4, <1>5 DEF Iterates

\* What Pressed takes to be the positions after n presses.
Presses(f, P, key, stop) ==
    f = [n \in Nat |-> [q \in P |->
            IF n <= 1 \/ key[q] \in stop THEN key[q] ELSE f[n - 1][key[q]]]]

LEMMA PressesExist ==
    ASSUME NEW P, NEW key \in [P -> P], NEW stop
    PROVE  \E f : Presses(f, P, key, stop)
<1> DEFINE F == [P -> P]
           step == [g \in F |-> [q \in P |-> IF key[q] \in stop THEN key[q] ELSE g[key[q]]]]
<1>1. key \in F /\ step \in [F -> F]
  OBVIOUS
<1>2. PICK f : Iterates(f, F, key, step)
  <2> HIDE DEF F, step
  <2> QED
    BY <1>1, Iterated
<1>3. ASSUME NEW k \in Nat
      PROVE  f[k] = [q \in P |->
                        IF k <= 1 \/ key[q] \in stop THEN key[q] ELSE f[k - 1][key[q]]]
  <2>1. CASE k <= 1
    BY <1>2, <2>1 DEF Iterates
  <2>2. CASE ~(k <= 1)
    <3>1. f[k] = step[f[k - 1]] /\ f[k - 1] \in F
      <4> HIDE DEF step, F
      <4>1. k - 1 \in Nat
        BY <2>2
      <4> QED
        BY <1>2, <2>2, <4>1 DEF Iterates
    <3> QED
      BY <2>2, <3>1
  <2> QED
    BY <2>1, <2>2
<1>4. f = [n \in Nat |-> f[n]]
  <2> HIDE DEF F, step
  <2> QED
    BY <1>2 DEF Iterates
<1>5. Presses(f, P, key, stop)
  BY <1>3, <1>4 DEF Presses
<1> QED
  BY <1>5

\* The first of the key presses that may be left, and the others.
LEMMA PressedStep ==
    ASSUME NEW key \in [Position -> Position], NEW p \in Position,
           Keys!Position = Position, NEW n \in Nat, n # 0, NEW stop
    PROVE  Keys!Pressed(key, p, n, stop) =
              IF n = 1 \/ key[p] \in stop THEN key[p]
              ELSE Keys!Pressed(key, key[p], n - 1, stop)
<1> DEFINE on == CHOOSE f : Presses(f, Position, key, stop)
<1>1. \A q \in Position, k \in Nat : Keys!Pressed(key, q, k, stop) = on[k][q]
  BY DEF Keys!Pressed, Presses
<1>2. Presses(on, Position, key, stop)
  BY PressesExist
<1> HIDE DEF on
<1>3. key[p] \in Position /\ (n # 1 => n - 1 \in Nat /\ ~(n <= 1))
  OBVIOUS
<1>4. on[n][p] = IF n = 1 \/ key[p] \in stop THEN key[p] ELSE on[n - 1][key[p]]
  BY <1>2, <1>3 DEF Presses
<1> QED
  BY <1>1, <1>3, <1>4

----------------------------------------------------------------------------
(* The driver with its keys and tries is the one with atomic methods.      *)

\* The menus of the two drivers are the same, equal labels included.
SameMenus ==
    /\ Items = XanbusItems /\ Listed = XanbusListed /\ InverterScreens = XanbusInverter
    /\ \A p, q \in Position : Label[p] = Label[q] <=> p \in Keys!Labelled(q)

\* GetItem finds the cursors GotoMenuStart and PollMeters set.
AnchorsListed == {<<1, 0>>, <<MeterHeading, 1>>} \subseteq Listed

\* The calls of s set the cursor to where somebody asked GotoMenuItem to go.
EndsAtTargets(s) ==
    \A k \in 1..Len(s) : s[k].op = "at" => s[k].to \in Targets \cup {<<MeterHeading, 1>>}

\* GetItem finds the cursor but for the tries of a call that may move it away.
ListedBetween ==
    tracked /\ phase # "crashed" /\ ~(InCall /\ Running \in ItemCalls \cup {"start"})
        => Cursor \in Listed

RInv == SInv /\ EndsAtTargets(script) /\ ListedBetween

\* Both instances of XanbusUI have the same menus and keys, those of XantrexUI.
LEMMA SameKeys ==
    ASSUME SameMenus
    PROVE  /\ Keys!Position = Position /\ Atomic!Position = Position
           /\ Keys!Left = [p \in Position |-> Moved(p, "L")]
           /\ Keys!Right = [p \in Position |-> Moved(p, "R")]
           /\ Keys!Down = [p \in Position |-> Moved(p, "D")]
           /\ Keys!Up = [p \in Position |-> Moved(p, "U")]
           /\ Atomic!Left = Keys!Left /\ Atomic!Right = Keys!Right
           /\ Atomic!Down = Keys!Down /\ Atomic!Up = Keys!Up
<1>1. Keys!Position = Position /\ Atomic!Position = Position
  BY DEF Keys!Position, Atomic!Position, Position, SameMenus, Headings
<1>2. /\ Keys!Left = [p \in Position |-> Moved(p, "L")]
      /\ Keys!Right = [p \in Position |-> Moved(p, "R")]
      /\ Keys!Down = [p \in Position |-> Moved(p, "D")]
      /\ Keys!Up = [p \in Position |-> Moved(p, "U")]
  BY <1>1 DEF Keys!Left, Keys!Right, Keys!Down, Keys!Up, Moved, SameMenus
<1>3. /\ Atomic!Left = Keys!Left /\ Atomic!Right = Keys!Right
      /\ Atomic!Down = Keys!Down /\ Atomic!Up = Keys!Up
  BY <1>1 DEF Keys!Left, Keys!Right, Keys!Down, Keys!Up,
              Atomic!Left, Atomic!Right, Atomic!Down, Atomic!Up
<1> QED
  BY <1>1, <1>2, <1>3

LEMMA KeyTypes ==
    ASSUME SameMenus
    PROVE  /\ Keys!Left \in [Position -> Position] /\ Keys!Right \in [Position -> Position]
           /\ Keys!Down \in [Position -> Position] /\ Keys!Up \in [Position -> Position]
BY SameKeys, MovedType

LEMMA SamePressed ==
    ASSUME SameMenus, NEW key, NEW p, NEW n, NEW stop
    PROVE  Atomic!Pressed(key, p, n, stop) = Keys!Pressed(key, p, n, stop)
BY SameKeys DEF Atomic!Pressed, Keys!Pressed

LEMMA SameLabelled ==
    ASSUME SameMenus, NEW p
    PROVE  Atomic!Labelled(p) = Keys!Labelled(p)
BY SameKeys DEF Atomic!Labelled, Keys!Labelled

\* What the atomic driver becomes and when it stays as it is.
LEMMA Becomes ==
    ASSUME NEW c \in Nat \X Nat, NEW p, Listed = XanbusListed,
           KnownThen' <=> c \in Listed,
           KnownThen' => CursorThen' = c /\ PositionThen' = p
    PROVE  Atomic!Become(c, p)
BY DEF Atomic!Become

LEMMA Stays ==
    ASSUME KnownThen' <=> KnownThen,
           KnownThen => CursorThen' = CursorThen /\ PositionThen' = PositionThen
    PROVE  UNCHANGED Atomic!vars
BY DEF Atomic!vars, KnownThen

\* A method's first Write is the atomic driver's step; the others are none.
LEMMA WriteRefines ==
    ASSUME RInv, SameMenus, AnchorsListed, UserMenusOnly, Write
    PROVE  Atomic!Next \/ UNCHANGED Atomic!vars
<1> DEFINE op == Head(script).op
<1>t. TypeOK /\ Answered /\ Listed = XanbusListed
  BY DEF RInv, SInv, IInv, SameMenus
<1>1. /\ script # <<>> /\ script' = script /\ phase = "ready" /\ phase' = "wait"
      /\ op \in LeafCalls /\ menuheading' = menuheading /\ dev' = dev
      /\ tracked' = tracked /\ keys = <<>> /\ keys' # <<>>
      /\ menuitem' = IF left = 0 THEN ItemBefore(op) ELSE menuitem
      /\ left' = IF left = 0 THEN TriesOf(op) - 1 ELSE left - 1
  BY DEF RInv, SInv, IInv, Write, history, InLockStep
<1>2. op \in {"L", "R", "+", "start"} \cup ItemCalls
  <2>1. op # "S"
    BY <1>1, HeadPlanned DEF RInv, SInv, IInv
  <2> QED
    BY <1>1, <2>1 DEF LeafCalls, HeadingCalls
<1>3. /\ dev \in Position /\ left \in Nat /\ menuheading \in Nat /\ menuitem \in Nat
      /\ StartTries \in Nat \ {0} /\ ItemTries \in Nat \ {0}
  BY <1>t, TriesAssumption DEF TypeOK
<1>4. left' \in Nat /\ menuitem' \in Nat
  BY <1>1, <1>3 DEF ItemBefore, TriesOf
<1>5. InCall' /\ Running' = op /\ KeysLeft' = left' + 1
  BY <1>1 DEF InCall, Running, KeysLeft
<1>6. CASE left # 0
  <2>1. op \in ItemCalls \cup {"start"} /\ InCall /\ Running = op /\ KeysLeft = left
    BY <1>1, <1>3, <1>6, <1>t DEF Answered, InCall, Running, KeysLeft
  <2>2. KeysLeft' = KeysLeft /\ Cursor' = Cursor
    BY <1>1, <1>3, <1>5, <1>6, <2>1 DEF Cursor
  <2>3. CursorThen' = CursorThen
    BY <1>5, <2>1, <2>2 DEF CursorThen, ItemCalls, HeadingCalls
  <2>4. \A key, stop : Final(key, stop)' = Final(key, stop)
    BY <1>1, <2>2 DEF Final
  <2>5. PositionThen' = PositionThen
    BY <1>5, <2>1, <2>2, <2>4 DEF PositionThen, ItemCalls, KeyOf
  <2>6. KnownThen' <=> KnownThen
    BY <1>1, <1>5, <2>1, <2>3 DEF KnownThen
  <2> QED
    BY <2>3, <2>5, <2>6, Stays
<1>7. CASE left = 0
  <2>1. ~InCall /\ CursorThen = Cursor /\ PositionThen = dev
    BY <1>1, <1>7 DEF InCall, CursorThen, PositionThen
  <2>2. KnownThen <=> tracked
    BY <1>1, <2>1, <1>t DEF KnownThen, RInv, ListedBetween
  <2>3. \A key, stop : Final(key, stop)' = Keys!Pressed(key, dev, TriesOf(op), stop)
    <3>1. KeysLeft' = TriesOf(op)
      BY <1>1, <1>3, <1>5, <1>7 DEF TriesOf
    <3> QED
      BY <1>1, <3>1 DEF Final
  <2>4. CASE op = "+"
    <3>1. menuitem' = menuitem
      BY <1>1, <1>7, <2>4 DEF ItemBefore
    <3>2. Cursor' = Cursor /\ CursorThen' = Cursor /\ PositionThen' = dev
      BY <1>1, <1>5, <2>4, <3>1 DEF CursorThen, PositionThen, KeyOf, Cursor, HeadingCalls
    <3>3. KnownThen' <=> KnownThen
      BY <1>1, <1>5, <2>1, <2>4, <3>2 DEF KnownThen
    <3> QED
      BY <2>1, <3>2, <3>3, Stays
  <2>5. CASE op = "start"
    <3>1. CursorThen' = <<1, 0>>
      BY <1>5, <2>5 DEF CursorThen, HeadingCalls
    <3>2. KnownThen'
      BY <1>1, <1>5, <1>t, <2>5, <3>1 DEF KnownThen, AnchorsListed
    <3>3. PositionThen' = Keys!Pressed(Keys!Left, dev, StartTries, XanbusInverter)
      BY <1>5, <2>3, <2>5 DEF PositionThen, KeyOf, TriesOf
    <3>4. Atomic!Become(<<1, 0>>, Atomic!Pressed(Atomic!Left, dev, StartTries, XanbusInverter))
      BY <1>t, <3>1, <3>2, <3>3, SamePressed, SameKeys, Becomes DEF AnchorsListed
    <3>5. dev \in IF KnownThen THEN {IF KnownThen THEN PositionThen ELSE <<1, 0>>}
                  ELSE Atomic!Position
      BY <1>3, <2>1, SameKeys
    <3> QED
      BY <3>4, <3>5 DEF Atomic!Next, Atomic!GotoMenuStart
  <2>6. CASE op \in {"L", "R"} \cup ItemCalls /\ ~tracked
    <3>1. ~KnownThen /\ ~KnownThen'
      BY <1>1, <1>5, <2>2, <2>6 DEF KnownThen, ItemCalls
    <3> QED
      BY <3>1, Stays
  <2>7. CASE op \in {"L", "R"} /\ tracked
    <3>1. menuitem' = menuitem
      BY <1>1, <1>7, <2>7 DEF ItemBefore
    <3>2. CursorThen' = CursorAfter(op)
      BY <1>1, <1>5, <2>7, <3>1 DEF CursorThen, CursorAfter, HeadingCalls, Cursor
    <3>3. KnownThen' <=> CursorAfter(op) \in Listed
      BY <1>1, <1>5, <1>t, <2>7, <3>2 DEF KnownThen
    <3>4. CASE op = "L"
      <4>1. PositionThen' = Keys!Pressed(Keys!Left, dev, 1, Position)
        BY <1>5, <2>3, <3>4 DEF PositionThen, KeyOf, TriesOf
      <4>2. PositionThen' = Keys!Left[dev]
        BY <1>3, <4>1, PressedStep, KeyTypes, SameKeys
      <4>3. CursorAfter(op) = <<IF menuheading > 1 THEN menuheading - 1 ELSE menuheading, 0>>
            /\ CursorAfter(op) \in Nat \X Nat
        BY <1>3, <3>4 DEF CursorAfter
      <4>4. Atomic!Become(CursorAfter(op), Atomic!Left[dev])
        BY <1>t, <3>2, <3>3, <4>2, <4>3, SameKeys, Becomes
      <4> QED
        BY <2>1, <2>2, <2>7, <4>3, <4>4 DEF Atomic!Next, Atomic!MenuHeadingMinus, Cursor
    <3>5. CASE op = "R"
      <4>1. PositionThen' = Keys!Pressed(Keys!Right, dev, 1, Position)
        BY <1>5, <2>3, <3>5 DEF PositionThen, KeyOf, TriesOf
      <4>2. PositionThen' = Keys!Right[dev]
        BY <1>3, <4>1, PressedStep, KeyTypes, SameKeys
      <4>3. CursorAfter(op) = <<menuheading + 1, 0>> /\ CursorAfter(op) \in Nat \X Nat
        BY <1>3, <3>5 DEF CursorAfter
      <4>4. Atomic!Become(CursorAfter(op), Atomic!Right[dev])
        BY <1>t, <3>2, <3>3, <4>2, <4>3, SameKeys, Becomes
      <4> QED
        BY <2>1, <2>2, <2>7, <4>3, <4>4 DEF Atomic!Next, Atomic!MenuHeadingPlus, Cursor
    <3> QED
      BY <2>7, <3>4, <3>5
  <2>8. CASE op \in ItemCalls /\ tracked
    <3> DEFINE c == <<menuheading, ItemBefore(op)>>
    <3>1. CursorThen' = c /\ Cursor' = c /\ c \in Nat \X Nat /\ TriesOf(op) = ItemTries
      BY <1>1, <1>3, <1>4, <1>5, <1>7, <2>8 DEF CursorThen, HeadingCalls, ItemCalls, Cursor, TriesOf
    <3>2. KnownThen' <=> c \in Listed
      BY <1>1, <1>5, <1>t, <2>8, <3>1 DEF KnownThen
    <3>3. CASE op \in {"D", "Dread"}
      <4>1. PositionThen' = Keys!Pressed(Keys!Down, dev, ItemTries, Keys!Labelled(c))
        BY <1>5, <2>3, <3>1, <3>3 DEF PositionThen, KeyOf
      <4>2. c = <<menuheading, menuitem + 1>>
        BY <3>3 DEF ItemBefore
      <4>3. Atomic!Become(c, Atomic!Pressed(Atomic!Down, dev, ItemTries, Atomic!Labelled(c)))
        BY <1>t, <3>1, <3>2, <4>1, SamePressed, SameKeys, SameLabelled, Becomes
      <4> QED
        BY <2>1, <2>2, <2>8, <4>2, <4>3 DEF Atomic!Next, Atomic!MenuItemMinus, Cursor
    <3>4. CASE op \in {"U", "Uread"}
      <4>1. PositionThen' = Keys!Pressed(Keys!Up, dev, ItemTries, Keys!Labelled(c))
        BY <1>5, <2>3, <3>1, <3>4 DEF PositionThen, KeyOf
      <4>2. c = <<menuheading, IF menuitem > 1 THEN menuitem - 1 ELSE menuitem>>
        BY <3>4 DEF ItemBefore
      <4>3. Atomic!Become(c, Atomic!Pressed(Atomic!Up, dev, ItemTries, Atomic!Labelled(c)))
        BY <1>t, <3>1, <3>2, <4>1, SamePressed, SameKeys, SameLabelled, Becomes
      <4> QED
        BY <2>1, <2>2, <2>8, <4>2, <4>3 DEF Atomic!Next, Atomic!MenuItemPlus, Cursor
    <3> QED
      BY <2>8, <3>3, <3>4 DEF ItemCalls
  <2> QED
    BY <1>2, <2>4, <2>5, <2>6, <2>7, <2>8
<1> QED
  BY <1>6, <1>7

\* The position a call will end at does not change when the inverter takes a key.
LEMMA TakeKeyRefines ==
    ASSUME RInv, SameMenus, UserMenusOnly, TakeKey
    PROVE  UNCHANGED Atomic!vars
<1> DEFINE op == Head(script).op
<1>1. /\ phase = "wait" /\ keys # <<>> /\ keys' = <<>> /\ script # <<>> /\ op \in LeafCalls
      /\ op # "S" /\ dev' = Moved(dev, KeyOf(op))
      /\ UNCHANGED <<menuheading, menuitem, script, phase, left, tracked>>
  <2>1. phase = "wait" /\ script # <<>> /\ op \in LeafCalls /\ op # "S"
    BY KeyOnItsWay, HeadPlanned DEF TakeKey, RInv, SInv, IInv, InLockStep
  <2> QED
    BY <2>1, KeyOnItsWay DEF TakeKey, RInv, SInv, host
<1>2. dev \in Position /\ left \in Nat
  BY DEF RInv, SInv, IInv, TypeOK
<1>3. InCall /\ InCall' /\ Running = op /\ Running' = op /\ KeysLeft = left + 1 /\ KeysLeft' = left
  BY <1>1 DEF InCall, Running, KeysLeft
<1>4. Cursor' = Cursor /\ CursorAfter(op)' = CursorAfter(op)
  BY <1>1 DEF Cursor, CursorAfter
<1>5. CursorThen' = CursorThen
  BY <1>3, <1>4 DEF CursorThen
<1>6. KnownThen' <=> KnownThen
  BY <1>1, <1>3, <1>5 DEF KnownThen
<1>7. ASSUME NEW key \in [Position -> Position], NEW stop, key[dev] = dev'
      PROVE  Final(key, stop)' = Final(key, stop)
  <2>1. Final(key, stop) = Keys!Pressed(key, dev, left + 1, stop)
    BY <1>1, <1>3 DEF Final
  <2>2. Final(key, stop)' = IF left = 0 \/ dev' \in stop THEN dev'
                            ELSE Keys!Pressed(key, dev', left, stop)
    BY <1>1, <1>3 DEF Final
  <2>3. left + 1 \in Nat /\ left + 1 # 0 /\ (left + 1) - 1 = left /\ (left + 1 = 1 <=> left = 0)
    BY <1>2
  <2>4. Keys!Pressed(key, dev, left + 1, stop) =
              IF left + 1 = 1 \/ key[dev] \in stop THEN key[dev]
              ELSE Keys!Pressed(key, key[dev], (left + 1) - 1, stop)
    BY <1>2, <2>3, PressedStep, SameKeys
  <2> QED
    BY <1>7, <2>1, <2>2, <2>3, <2>4
<1>8. PositionThen' = PositionThen
  <2>1. CASE op \in {"D", "Dread"}
    <3>1. Keys!Down[dev] = dev'
      BY <1>1, <1>2, <2>1, SameKeys DEF KeyOf
    <3>2. Final(Keys!Down, Keys!Labelled(Cursor))' = Final(Keys!Down, Keys!Labelled(Cursor))
      BY <1>4, <1>7, <3>1, KeyTypes
    <3> QED
      BY <1>3, <2>1, <3>2 DEF PositionThen, KeyOf
  <2>2. CASE op \in {"U", "Uread"}
    <3>1. Keys!Up[dev] = dev'
      BY <1>1, <1>2, <2>2, SameKeys DEF KeyOf
    <3>2. Final(Keys!Up, Keys!Labelled(Cursor))' = Final(Keys!Up, Keys!Labelled(Cursor))
      BY <1>4, <1>7, <3>1, KeyTypes
    <3> QED
      BY <1>3, <2>2, <3>2 DEF PositionThen, KeyOf
  <2>3. CASE op \in {"L", "start"}
    <3>1. Keys!Left[dev] = dev'
      BY <1>1, <1>2, <2>3, SameKeys DEF KeyOf
    <3>2. \A stop : Final(Keys!Left, stop)' = Final(Keys!Left, stop)
      BY <1>7, <3>1, KeyTypes
    <3> QED
      BY <1>3, <2>3, <3>2 DEF PositionThen, KeyOf
  <2>4. CASE op = "R"
    <3>1. Keys!Right[dev] = dev'
      BY <1>1, <1>2, <2>4, SameKeys DEF KeyOf
    <3>2. \A stop : Final(Keys!Right, stop)' = Final(Keys!Right, stop)
      BY <1>7, <3>1, KeyTypes
    <3> QED
      BY <1>3, <2>4, <3>2 DEF PositionThen, KeyOf
  <2>5. CASE op = "+"
    <3>1. dev' = dev
      BY <1>1, <2>5 DEF KeyOf, Moved
    <3> QED
      BY <1>3, <2>5, <3>1 DEF PositionThen, KeyOf
  <2> QED
    BY <1>1, <2>1, <2>2, <2>3, <2>4, <2>5 DEF LeafCalls, HeadingCalls, ItemCalls
<1> QED
  BY <1>5, <1>6, <1>8, Stays

\* What a read finds at the end of a try, and what it leaves for the next.
LEMMA ReadShows ==
    ASSUME RInv, LineInTime, NEW op, ReadSerial(op), phase' = "ready"
    PROVE  /\ script # <<>> /\ Head(script).op = op /\ phase = "wait" /\ phase' = "ready"
           /\ InCall /\ Running = op /\ line = <<dev>> /\ dev' = dev /\ dev \in Position
           /\ left \in Nat /\ KeysLeft = left
           /\ \A key, stop : Final(key, stop) = IF left = 0 \/ dev \in stop THEN dev
                                                ELSE Keys!Pressed(key, dev, left, stop)
           /\ left' = 0 => ~InCall' /\ CursorThen' = Cursor' /\ PositionThen' = dev
           /\ left' # 0 /\ left' = left /\ script' = script =>
                 /\ InCall' /\ Running' = op
                 /\ \A key, stop : Final(key, stop)' = Keys!Pressed(key, dev, left, stop)
<1>1. /\ script # <<>> /\ Head(script).op = op /\ phase = "wait" /\ keys = <<>> /\ keys' = <<>>
      /\ line = <<dev>> /\ dev' = dev
  BY AnswerRead DEF RInv
<1>2. dev \in Position /\ left \in Nat
  BY DEF RInv, SInv, IInv, TypeOK
<1>3. InCall /\ Running = op /\ KeysLeft = left
  BY <1>1 DEF InCall, Running, KeysLeft
<1>4. \A key, stop : Final(key, stop) = IF left = 0 \/ dev \in stop THEN dev
                                        ELSE Keys!Pressed(key, dev, left, stop)
  BY <1>1, <1>3 DEF Final
<1>5. left' = 0 => ~InCall' /\ CursorThen' = Cursor' /\ PositionThen' = dev
  BY <1>1, <1>2 DEF InCall, CursorThen, PositionThen
<1>6. ASSUME left' # 0, left' = left, script' = script
      PROVE  /\ InCall' /\ Running' = op
             /\ \A key, stop : Final(key, stop)' = Keys!Pressed(key, dev, left, stop)
  <2>1. InCall' /\ Running' = op /\ KeysLeft' = left
    BY <1>1, <1>2, <1>6 DEF InCall, Running, KeysLeft
  <2> QED
    BY <1>1, <2>1 DEF Final
<1> QED
  BY <1>1, <1>2, <1>3, <1>4, <1>5, <1>6

LEMMA MenuHeadingRefines ==
    ASSUME RInv, SameMenus, LineInTime, NEW op \in HeadingCalls, MenuHeading(op)
    PROVE  UNCHANGED Atomic!vars
<1>1. /\ ReadSerial(op) /\ phase' = "ready" /\ left' = 0 /\ Cursor' = CursorAfter(op)
      /\ (tracked' <=> tracked /\ CursorAfter(op) \in Listed)
  BY DEF MenuHeading, Return, Cursor, CursorAfter, HeadingCalls
<1>2. /\ InCall /\ Running = op /\ phase = "wait" /\ dev \in Position
      /\ \A key : Final(key, Position) = dev
      /\ ~InCall' /\ CursorThen' = Cursor' /\ PositionThen' = dev
  BY <1>1, ReadShows
<1>3. CursorThen = CursorAfter(op) /\ PositionThen = dev
  BY <1>2 DEF CursorThen, PositionThen, HeadingCalls, KeyOf
<1>4. KnownThen <=> tracked'
  BY <1>1, <1>2, <1>3 DEF KnownThen, SameMenus, HeadingCalls
<1>5. KnownThen' <=> tracked'
  BY <1>1, <1>2 DEF KnownThen, SameMenus
<1> QED
  BY <1>1, <1>2, <1>3, <1>4, <1>5, Stays

LEMMA MenuItemRefines ==
    ASSUME RInv, SameMenus, ItemsWork, LineInTime, NEW op \in ItemCalls, MenuItem(op)
    PROVE  UNCHANGED Atomic!vars
<1>1. /\ ReadSerial(op) /\ Cursor' = Cursor /\ (tracked' <=> tracked /\ Cursor \in Listed)
  BY DEF MenuItem, Cursor
<1>2. PICK matched \in LabelFound(Cursor) : IF matched \/ left = 0 THEN Return ELSE Retry
  BY DEF MenuItem
<1>3. phase' = "ready"
  BY <1>2 DEF Return, Retry
<1>4. /\ Head(script).op = op /\ InCall /\ Running = op /\ phase = "wait" /\ dev \in Position
      /\ left \in Nat /\ line = <<dev>>
  BY <1>1, <1>3, ReadShows
<1>5. CursorThen = Cursor /\ CursorThen' = CursorThen /\ (InCall' => Running' = op)
  <2>1. CursorThen = Cursor
    BY <1>4 DEF CursorThen, ItemCalls, HeadingCalls
  <2>2. CASE matched \/ left = 0
    BY <1>1, <1>2, <1>3, <2>1, <2>2, ReadShows DEF Return
  <2>3. CASE ~(matched \/ left = 0)
    <3>1. InCall' /\ Running' = op
      BY <1>1, <1>2, <1>3, <2>3, ReadShows DEF Retry
    <3>2. CursorThen' = Cursor'
      BY <3>1 DEF CursorThen, ItemCalls, HeadingCalls
    <3> QED
      BY <1>1, <2>1, <3>1, <3>2
  <2> QED
    BY <2>1, <2>2, <2>3
<1>6. /\ KnownThen <=> tracked /\ Cursor \in Listed
      /\ KnownThen' <=> tracked /\ Cursor \in Listed
  BY <1>1, <1>3, <1>4, <1>5 DEF KnownThen, SameMenus, ItemCalls
<1>7. ASSUME tracked, Cursor \in Listed
      PROVE  PositionThen' = PositionThen
  <2>1. matched <=> dev \in Keys!Labelled(Cursor)
    <3>1. matched <=> Label[dev] = Label[Cursor]
      BY <1>2, <1>4, <1>7, FoundAtAnswer DEF LabelFound
    <3>2. Cursor \in Position
      <4>1. menuheading >= 1 /\ menuheading \in Nat
        BY <1>7 DEF RInv, SInv, IInv, Drift, TypeOK
      <4>2. Cursor # Torn
        BY <4>1 DEF Cursor, Torn
      <4> QED
        BY <1>7, <4>2 DEF ItemsWork
    <3> QED
      BY <1>4, <3>1, <3>2 DEF SameMenus
  <2>2. ASSUME NEW key,
               PositionThen = Final(key, Keys!Labelled(Cursor)),
               InCall' /\ Running' = op => PositionThen' = Final(key, Keys!Labelled(Cursor))'
        PROVE  PositionThen' = PositionThen
    <3>1. CASE matched \/ left = 0
      <4>1. left' = 0
        BY <1>2, <3>1 DEF Return
      <4>2. PositionThen' = dev /\ Final(key, Keys!Labelled(Cursor)) = dev
        BY <1>1, <1>3, <2>1, <3>1, <4>1, ReadShows
      <4> QED
        BY <2>2, <4>2
    <3>2. CASE ~(matched \/ left = 0)
      <4>1. left' = left /\ left' # 0 /\ script' = script
        BY <1>2, <3>2 DEF Retry
      <4>2. /\ InCall' /\ Running' = op
            /\ \A stop : Final(key, stop)' = Keys!Pressed(key, dev, left, stop)
        BY <1>1, <1>3, <4>1, ReadShows
      <4>3. \A stop : ~(left = 0 \/ dev \in stop)
                          => Final(key, stop) = Keys!Pressed(key, dev, left, stop)
        BY <1>1, <1>3, ReadShows
      <4>4. Final(key, Keys!Labelled(Cursor))' = Keys!Pressed(key, dev, left, Keys!Labelled(Cursor))
        BY <1>1, <4>2
      <4> QED
        BY <2>1, <2>2, <3>2, <4>2, <4>3, <4>4
    <3> QED
      BY <3>1, <3>2
  <2>3. CASE op \in {"D", "Dread"}
    <3>1. PositionThen = Final(Keys!Down, Keys!Labelled(Cursor))
      BY <1>4, <2>3 DEF PositionThen, KeyOf
    <3>2. InCall' /\ Running' = op => PositionThen' = Final(Keys!Down, Keys!Labelled(Cursor))'
      BY <2>3 DEF PositionThen, KeyOf
    <3> QED
      BY <2>2, <3>1, <3>2
  <2>4. CASE op \in {"U", "Uread"}
    <3>1. PositionThen = Final(Keys!Up, Keys!Labelled(Cursor))
      BY <1>4, <2>4 DEF PositionThen, KeyOf
    <3>2. InCall' /\ Running' = op => PositionThen' = Final(Keys!Up, Keys!Labelled(Cursor))'
      BY <2>4 DEF PositionThen, KeyOf
    <3> QED
      BY <2>2, <3>1, <3>2
  <2> QED
    BY <2>3, <2>4 DEF ItemCalls
<1> QED
  BY <1>5, <1>6, <1>7, Stays

LEMMA SetPointRefines ==
    ASSUME RInv, LineInTime, SetPoint
    PROVE  UNCHANGED Atomic!vars
<1>1. ReadSerial("+") /\ phase' = "ready" /\ left' = 0 /\ Cursor' = Cursor /\ tracked' = tracked
  BY DEF SetPoint, Return, Cursor, history
<1>2. /\ InCall /\ Running = "+" /\ phase = "wait"
      /\ ~InCall' /\ CursorThen' = Cursor' /\ PositionThen' = dev
  BY <1>1, ReadShows
<1>3. CursorThen = Cursor /\ PositionThen = dev
  BY <1>2 DEF CursorThen, PositionThen, KeyOf, HeadingCalls
<1>4. KnownThen' <=> KnownThen
  BY <1>1, <1>2, <1>3 DEF KnownThen
<1> QED
  BY <1>1, <1>2, <1>3, <1>4, Stays

LEMMA GotoMenuStartRefines ==
    ASSUME RInv, SameMenus, AnchorsListed, LineInTime, GotoMenuStart
    PROVE  UNCHANGED Atomic!vars
<1>1. ReadSerial("start") /\ phase' = "ready"
  BY DEF GotoMenuStart, Return, Retry
<1>2. /\ Head(script).op = "start" /\ InCall /\ Running = "start" /\ phase = "wait"
      /\ dev \in Position /\ left \in Nat /\ line = <<dev>>
  BY <1>1, ReadShows
<1>3. FindsInverter <=> dev \in XanbusInverter
  <2>1. Len(Display) = 1 /\ Display[1] = dev /\ \A k \in 1..Len(Display) : k = 1
    BY <1>2, DisplayIsAnswer
  <2>2. 1 \in 1..Len(Display)
    BY <2>1
  <2> QED
    BY <2>1, <2>2 DEF FindsInverter, SameMenus
<1>4. CursorThen = <<1, 0>> /\ PositionThen = Final(Keys!Left, XanbusInverter)
  BY <1>2 DEF CursorThen, PositionThen, HeadingCalls, KeyOf
<1>5. <<1, 0>> \in XanbusListed
  BY DEF SameMenus, AnchorsListed
<1>6. KnownThen
  BY <1>2, <1>4, <1>5 DEF KnownThen
<1>7. CASE FindsInverter \/ left = 0
  <2>1. left' = 0 /\ Cursor' = <<1, 0>> /\ tracked'
    BY <1>7 DEF GotoMenuStart, Return, Cursor
  <2>2. ~InCall' /\ CursorThen' = Cursor' /\ PositionThen' = dev
    BY <1>1, <2>1, ReadShows
  <2>3. PositionThen = dev
    BY <1>1, <1>3, <1>4, <1>7, ReadShows
  <2>4. KnownThen'
    BY <1>1, <1>5, <2>1, <2>2 DEF KnownThen
  <2> QED
    BY <1>4, <1>6, <2>1, <2>2, <2>3, <2>4, Stays
<1>8. CASE ~(FindsInverter \/ left = 0)
  <2>1. left' = left /\ left' # 0 /\ script' = script
    BY <1>8 DEF GotoMenuStart, Retry
  <2>2. /\ InCall' /\ Running' = "start"
        /\ \A key, stop : Final(key, stop)' = Keys!Pressed(key, dev, left, stop)
    BY <1>1, <2>1, ReadShows
  <2>3. PositionThen = Keys!Pressed(Keys!Left, dev, left, XanbusInverter)
    BY <1>1, <1>3, <1>4, <1>8, ReadShows
  <2>4. CursorThen' = <<1, 0>> /\ PositionThen' = Keys!Pressed(Keys!Left, dev, left, XanbusInverter)
    BY <2>2 DEF CursorThen, PositionThen, HeadingCalls, KeyOf
  <2>5. KnownThen'
    BY <1>1, <1>5, <2>2, <2>4 DEF KnownThen
  <2> QED
    BY <1>4, <1>6, <2>3, <2>4, <2>5, Stays
<1> QED
  BY <1>7, <1>8

\* GetItem reads past its vector only for a cursor it does not find.
LEMMA CrashRefines ==
    ASSUME SameMenus, GetItemCrash
    PROVE  UNCHANGED Atomic!vars
<1>1. PICK op \in HeadingCalls \cup ItemCalls :
         /\ script # <<>> /\ phase = "wait" /\ Head(script).op = op
         /\ CursorAfter(op) \notin Listed
  BY DEF GetItemCrash, ReadSerial
<1>2. InCall /\ Running = op
  BY <1>1 DEF InCall, Running
<1>3. CursorThen = CursorAfter(op)
  BY <1>2 DEF CursorThen, CursorAfter, ItemCalls, HeadingCalls
<1>4. ~KnownThen
  BY <1>1, <1>3 DEF KnownThen, SameMenus
<1>5. ~KnownThen'
  BY DEF KnownThen, GetItemCrash
<1> QED
  BY <1>4, <1>5, Stays

\* The last assignments of GotoMenuItem are a step of the atomic driver: the
\* inverter is where the keys before have taken it.
LEMMA EndRefines ==
    ASSUME RInv, SameMenus, UserMenusOnly, NearTargets, GotoMenuItemEnd
    PROVE  Atomic!Next \/ UNCHANGED Atomic!vars
<1> DEFINE to == Head(script).to
<1>t. TypeOK /\ Listed = XanbusListed
  BY DEF RInv, SInv, IInv, SameMenus
<1>1. /\ script # <<>> /\ Head(script).op = "at" /\ phase = "ready"
      /\ phase' = "ready" /\ left' = 0 /\ dev' = dev /\ tracked' = tracked
      /\ menuheading' = to[1] /\ menuitem' = to[2]
  BY DEF GotoMenuItemEnd, Return, inverter, history
<1>2. left = 0 /\ ~Starting /\ to \in Nat \X Nat
  <2>1. left = 0 /\ ~Starting
    BY <1>1 DEF RInv, SInv, Answered, Starting, ItemCalls
  <2> QED
    BY <1>1, <1>t, <2>1, HeadType DEF Calls
<1>3. /\ menuheading = to[1] /\ to[2] <= 1
      /\ menuitem = IF to[2] > 0 THEN to[2] - 1 ELSE 0
  BY <1>1, HeadPlanned DEF RInv, SInv, IInv
<1>4. to \in Targets \cup {<<MeterHeading, 1>>}
  <2>1. script \in Seq(Calls)
    BY <1>t DEF TypeOK, Calls
  <2>2. 1 \in 1..Len(script) /\ Head(script) = script[1]
    BY <1>1, <2>1
  <2> QED
    BY <1>1, <2>2 DEF RInv, EndsAtTargets
<1>5. ~InCall /\ ~InCall' /\ CursorThen = Cursor /\ PositionThen = dev
      /\ CursorThen' = Cursor' /\ PositionThen' = dev /\ Cursor' = to
  BY <1>1, <1>2 DEF InCall, CursorThen, PositionThen, Cursor
<1>6. KnownThen <=> tracked
  BY <1>1, <1>5, <1>t DEF KnownThen, RInv, ListedBetween
<1>7. KnownThen' <=> tracked /\ to \in Listed
  BY <1>1, <1>5, <1>t DEF KnownThen
<1>8. CASE ~tracked
  BY <1>6, <1>7, <1>8, Stays
<1>9. CASE tracked
  <2>1. Atomic!Become(to, dev)
    BY <1>2, <1>5, <1>7, <1>9, <1>t, Becomes
  <2>2. dev = <<to[1], IF to[2] > 0 THEN to[2] - 1 ELSE 0>>
    <3>1. Settled(Cursor, dev)
      BY <1>1, <1>2, <1>9 DEF RInv, SInv, InStep, StepsWith
    <3>2. menuitem = 0 /\ Cursor[1] = menuheading /\ Cursor[2] = menuitem
      BY <1>2, <1>3 DEF Cursor
    <3>3. dev = <<dev[1], dev[2]>>
      BY <1>t, DevParts
    <3>4. overrun = 0
      BY <1>1, <1>9, HeadPlanned DEF RInv, SInv, IInv
    <3>5. dev[1] = menuheading
      <4>1. HeadingNow = menuheading
        BY <1>1 DEF HeadingNow
      <4>2. menuheading - dev[1] \in 0..0
        BY <1>1, <1>2, <1>9, <3>4, <4>1, HeadingAhead DEF RInv
      <4> QED
        BY <1>t, <4>2, DevParts
    <3> QED
      BY <1>3, <3>1, <3>2, <3>3, <3>5 DEF Settled
  <2> QED
    BY <1>4, <1>5, <1>6, <1>9, <2>1, <2>2 DEF Atomic!Next, Atomic!GotoMenuItemEnd
<1> QED
  BY <1>8, <1>9

\* Between operations nothing is promised beyond where the cursors are.
LEMMA InvokeRefines ==
    ASSUME RInv, NEW op \in Operations, Invoke(op)
    PROVE  UNCHANGED Atomic!vars
<1>1. /\ script = <<>> /\ phase = "ready" /\ left = 0 /\ phase' = "ready" /\ left' = 0
      /\ UNCHANGED <<menuheading, menuitem, dev, tracked>>
  BY DEF Invoke, inverter, RInv, SInv, IInv, InLockStep
<1>2. ~InCall /\ ~InCall'
  BY <1>1 DEF InCall
<1>3. CursorThen = Cursor /\ CursorThen' = Cursor /\ PositionThen = dev /\ PositionThen' = dev
  BY <1>1, <1>2 DEF CursorThen, PositionThen, Cursor
<1>4. KnownThen' <=> KnownThen
  BY <1>1, <1>2, <1>3 DEF KnownThen
<1> QED
  BY <1>3, <1>4, Stays

LEMMA EndsConcat ==
    ASSUME NEW s \in Seq(Calls), NEW t \in Seq(Calls), EndsAtTargets(s), EndsAtTargets(t)
    PROVE  s \o t \in Seq(Calls) /\ EndsAtTargets(s \o t)
<1>1. Len(s \o t) = Len(s) + Len(t) /\ Len(s) \in Nat /\ Len(t) \in Nat
  OBVIOUS
<1>2. ASSUME NEW k \in 1..Len(s \o t)
      PROVE  \/ \E i \in 1..Len(s) : (s \o t)[k] = s[i]
             \/ \E i \in 1..Len(t) : (s \o t)[k] = t[i]
  <2>1. CASE k <= Len(s)
    BY <1>1, <2>1
  <2>2. CASE ~(k <= Len(s))
    <3>1. k - Len(s) \in 1..Len(t) /\ (s \o t)[k] = t[k - Len(s)]
      BY <1>1, <2>2
    <3> QED
      BY <3>1
  <2> QED
    BY <2>1, <2>2
<1> QED
  BY <1>2 DEF EndsAtTargets

\* The operations set the cursor at the end of GotoMenuItem only.
LEMMA ScriptsEnd ==
    ASSUME menuheading \in Nat, NEW op \in Operations, NEW s \in Scripts(op)
    PROVE  EndsAtTargets(s)
<1>1. ASSUME NEW n \in Int, NEW c \in LeafCalls
      PROVE  Times(n, c) \in Seq(Calls) /\ EndsAtTargets(Times(n, c))
  <2>1. c # "at"
    BY DEF LeafCalls, HeadingCalls, ItemCalls
  <2>2. Times(n, c) \in Seq(Calls)
    BY TimesType
  <2>3. \A k \in 1..Len(Times(n, c)) : Times(n, c)[k] = Call(c)
    <3>1. 1..Len(Times(n, c)) = DOMAIN Times(n, c)
      BY <2>2
    <3>2. \A k \in DOMAIN Times(n, c) : Times(n, c)[k] = Call(c)
      BY DEF Times
    <3> QED
      BY <3>1, <3>2
  <2> QED
    BY <2>1, <2>2, <2>3 DEF EndsAtTargets, Call
<1>2. ASSUME NEW c \in LeafCalls
      PROVE  <<Call(c)>> \in Seq(Calls) /\ EndsAtTargets(<<Call(c)>>)
  <2>1. c # "at" /\ Call(c) \in Calls /\ Call(c).op = c
    BY DEF LeafCalls, HeadingCalls, ItemCalls, Call, Calls, Torn
  <2> HIDE DEF Call
  <2> QED
    BY <2>1 DEF EndsAtTargets
<1>l. {"L", "R", "D", "U", "+", "S", "start", "Dread", "Uread"} \subseteq LeafCalls
  BY DEF LeafCalls, HeadingCalls, ItemCalls
<1>3. ASSUME NEW mh \in Nat, NEW mi \in Nat, <<mh, mi>> \in Targets \cup {<<MeterHeading, 1>>}
      PROVE  GotoMenuItem(mh, mi) \in Seq(Calls) /\ EndsAtTargets(GotoMenuItem(mh, mi))
  <2> DEFINE start == <<Call("start")>>
             right == Times(mh - 1, "R")
             down == Times(mi - 1, "D")
             at == <<SetCursor(<<mh, mi>>)>>
  <2>1. start \in Seq(Calls) /\ EndsAtTargets(start)
    BY <1>2, <1>l
  <2>2. right \in Seq(Calls) /\ EndsAtTargets(right)
    BY <1>1, <1>l
  <2>3. down \in Seq(Calls) /\ EndsAtTargets(down)
    BY <1>1, <1>l
  <2>4. at \in Seq(Calls) /\ EndsAtTargets(at)
    <3>1. SetCursor(<<mh, mi>>) \in Calls /\ SetCursor(<<mh, mi>>).to = <<mh, mi>>
      BY DEF SetCursor, Calls
    <3> HIDE DEF SetCursor
    <3> QED
      BY <1>3, <3>1 DEF EndsAtTargets
  <2>5. GotoMenuItem(mh, mi) = ((start \o right) \o down) \o at
    BY DEF GotoMenuItem
  <2> HIDE DEF start, right, down, at
  <2>6. start \o right \in Seq(Calls) /\ EndsAtTargets(start \o right)
    BY <2>1, <2>2, EndsConcat
  <2>7. (start \o right) \o down \in Seq(Calls) /\ EndsAtTargets((start \o right) \o down)
    BY <2>3, <2>6, EndsConcat
  <2> QED
    BY <2>4, <2>5, <2>7, EndsConcat
<1>4. PollMeters \in Seq(Calls) /\ EndsAtTargets(PollMeters)
  <2> DEFINE goto == GotoMenuItem(MeterHeading, 1)
             down == Times(MeterItems + 1, "Dread")
             up == Times(MeterItems, "Uread")
             round == <<Call("R"), Call("L")>>
  <2>1. goto \in Seq(Calls) /\ EndsAtTargets(goto)
    <3>1. MeterHeading \in Nat /\ 1 \in Nat
      BY PollAssumption, MenuAssumption
    <3>2. <<MeterHeading, 1>> \in Targets \cup {<<MeterHeading, 1>>}
      OBVIOUS
    <3> QED
      BY <1>3, <3>1, <3>2
  <2>2. down \in Seq(Calls) /\ EndsAtTargets(down)
    BY <1>1, <1>l, PollAssumption
  <2>3. up \in Seq(Calls) /\ EndsAtTargets(up)
    BY <1>1, <1>l, PollAssumption
  <2>4. round \in Seq(Calls) /\ EndsAtTargets(round)
    <3>1. round = <<Call("R")>> \o <<Call("L")>>
      OBVIOUS
    <3>2. /\ <<Call("R")>> \in Seq(Calls) /\ EndsAtTargets(<<Call("R")>>)
          /\ <<Call("L")>> \in Seq(Calls) /\ EndsAtTargets(<<Call("L")>>)
      BY <1>2, <1>l
    <3> QED
      BY <3>1, <3>2, EndsConcat
  <2>5. PollMeters = ((goto \o down) \o up) \o round
    BY DEF PollMeters
  <2> HIDE DEF goto, down, up, round
  <2>6. goto \o down \in Seq(Calls) /\ EndsAtTargets(goto \o down)
    BY <2>1, <2>2, EndsConcat
  <2>7. (goto \o down) \o up \in Seq(Calls) /\ EndsAtTargets((goto \o down) \o up)
    BY <2>3, <2>6, EndsConcat
  <2> QED
    BY <2>4, <2>5, <2>7, EndsConcat
<1>5. CASE op = "GotoMenuItem"
  <2>1. PICK p \in Targets : s = GotoMenuItem(p[1], p[2])
    BY <1>5 DEF Scripts
  <2>2. p[1] \in Nat /\ p[2] \in Nat /\ p = <<p[1], p[2]>>
    BY PositionPair, CallerAssumption
  <2> QED
    BY <1>3, <2>1, <2>2
<1>6. CASE op = "PollMeters"
  BY <1>4, <1>6 DEF Scripts
<1>7. CASE op \notin {"GotoMenuItem", "PollMeters"}
  <2>1. \E c \in {"L", "R", "D", "U", "+", "S", "start"} : s = Times(1, c)
    BY <1>7, CallerAssumption DEF Scripts, AllOperations
  <2> QED
    BY <1>1, <1>l, <2>1
<1> QED
  BY <1>5, <1>6, <1>7

LEMMA NextEnds ==
    ASSUME RInv, [Next]_vars
    PROVE  EndsAtTargets(script)'
<1>1. script \in Seq(Calls)
  BY DEF RInv, SInv, IInv, TypeOK, Calls
<1>2. CASE script' = script
  BY <1>2 DEF RInv, EndsAtTargets
<1>3. CASE script' = Tail(script) /\ script # <<>>
  <2>1. \A k \in 1..Len(script') : k + 1 \in 1..Len(script) /\ script'[k] = script[k + 1]
    BY <1>1, <1>3
  <2> QED
    BY <2>1 DEF RInv, EndsAtTargets
<1>4. ASSUME NEW op \in Operations, Invoke(op)
      PROVE  EndsAtTargets(script)'
  <2>1. EndsAtTargets(script')
    BY <1>4, ScriptsEnd DEF Invoke, RInv, SInv, IInv, TypeOK
  <2> QED
    BY <2>1 DEF EndsAtTargets
<1>5. CASE HostStep
  <2>1. script' = script \/ (script' = Tail(script) /\ script # <<>>)
    BY <1>5 DEF HostStep, Write, MenuHeading, MenuItem, GetItemCrash, SetPoint, SetupMenu,
                GotoMenuStart, GotoMenuItemEnd, ReadSerial, Return, Retry
  <2> QED
    BY <1>2, <1>3, <2>1
<1>6. CASE Listen \/ DeviceStep \/ Refresh \/ UNCHANGED vars
  BY <1>2, <1>6 DEF Listen, DeviceStep, TakeKey, IgnoreKey, Refresh, vars, host
<1> QED
  BY <1>4, <1>5, <1>6 DEF Next

LEMMA NextListedBetween ==
    ASSUME RInv, Reliable, UserMenusOnly, NearTargets, AnchorsListed, [Next]_vars
    PROVE  ListedBetween'
<1>t. /\ TypeOK /\ InLockStep /\ Answered /\ LineInTime
  BY DEF RInv, SInv, IInv, Reliable
<1>1. ASSUME NEW op \in Operations, Invoke(op)
      PROVE  ListedBetween'
  BY <1>1, <1>t DEF Invoke, InLockStep, RInv, ListedBetween, InCall, Cursor, inverter
<1>2. CASE Write
  <2> DEFINE op == Head(script).op
  <2>1. /\ phase = "ready" /\ phase' = "wait" /\ script' = script /\ script # <<>>
        /\ menuheading' = menuheading /\ tracked' = tracked
        /\ menuitem' = IF left = 0 THEN ItemBefore(op) ELSE menuitem
    BY <1>2 DEF Write, history
  <2>2. InCall' /\ Running' = op
    BY <2>1 DEF InCall, Running
  <2>3. ASSUME op \notin ItemCalls \cup {"start"}
        PROVE  left = 0 /\ Cursor' = Cursor
    BY <1>t, <2>1, <2>3 DEF Answered, ItemBefore, ItemCalls, Cursor
  <2>4. left = 0 => ~InCall
    BY <2>1 DEF InCall
  <2> QED
    BY <2>1, <2>2, <2>3, <2>4 DEF RInv, ListedBetween
<1>3. ASSUME NEW op \in HeadingCalls, MenuHeading(op)
      PROVE  ListedBetween'
  <2>1. Cursor' = CursorAfter(op) /\ (tracked' => CursorAfter(op) \in Listed)
    BY <1>3 DEF MenuHeading, Cursor, CursorAfter, HeadingCalls
  <2> QED
    BY <2>1 DEF ListedBetween
<1>4. ASSUME NEW op \in ItemCalls, MenuItem(op)
      PROVE  ListedBetween'
  BY <1>4 DEF MenuItem, ListedBetween, Cursor
<1>5. CASE SetPoint
  <2>1. /\ phase = "wait" /\ Running = "+" /\ Cursor' = Cursor /\ tracked' = tracked
    BY <1>5 DEF SetPoint, ReadSerial, Running, Cursor, history
  <2> QED
    BY <2>1 DEF RInv, ListedBetween, ItemCalls
<1>6. CASE GotoMenuStart
  <2>1. CASE FindsInverter \/ left = 0
    <3>1. Cursor' = <<1, 0>>
      BY <1>6, <2>1 DEF GotoMenuStart, Cursor
    <3> QED
      BY <3>1 DEF ListedBetween, AnchorsListed
  <2>2. CASE ~(FindsInverter \/ left = 0)
    <3>1. Running' = "start" /\ left' = left /\ left # 0 /\ left \in Nat
      BY <1>6, <1>t, <2>2 DEF GotoMenuStart, Retry, Running, ReadSerial, TypeOK
    <3>2. InCall'
      BY <3>1 DEF InCall
    <3> QED
      BY <3>1, <3>2 DEF ListedBetween
  <2> QED
    BY <2>1, <2>2
<1>7. CASE GotoMenuItemEnd
  <2> DEFINE to == Head(script).to
  <2>1. Cursor' = <<to[1], to[2]>> /\ script # <<>> /\ Head(script).op = "at"
    BY <1>7 DEF GotoMenuItemEnd, Cursor
  <2>2. to \in Targets \cup {<<MeterHeading, 1>>} /\ to \in Nat \X Nat
    <3>1. script \in Seq(Calls)
      BY <1>t DEF TypeOK, Calls
    <3>2. 1 \in 1..Len(script) /\ Head(script) = script[1]
      BY <2>1, <3>1
    <3>3. Head(script) \in Calls
      BY <2>1, <1>t, HeadType
    <3> QED
      BY <2>1, <3>2, <3>3 DEF RInv, EndsAtTargets, Calls
  <2>3. Cursor' \in Listed
    BY <2>1, <2>2, CallerAssumption DEF AnchorsListed
  <2> QED
    BY <2>3 DEF ListedBetween
<1>8. CASE TakeKey
  BY <1>8, <1>t DEF TakeKey, host, RInv, ListedBetween, InCall, Running, Cursor
<1>9. CASE UNCHANGED vars
  BY <1>9 DEF vars, host, inverter, history, RInv, ListedBetween, InCall, Running, Cursor
<1>10. CASE GetItemCrash
  BY <1>10 DEF GetItemCrash, ListedBetween
<1>11. ~SetupMenu
  <2>1. SetupMenu => script # <<>> /\ Head(script).op = "S" /\ phase = "wait"
    BY DEF SetupMenu, ReadSerial
  <2> QED
    BY <2>1, HeadPlanned DEF RInv, SInv, IInv
<1>12. ~IgnoreKey /\ ~Refresh /\ ~Listen
  BY <1>t, NothingToListenTo DEF IgnoreKey, Refresh, Reliable, LineInTime
<1> QED
  BY <1>1, <1>2, <1>3, <1>4, <1>5, <1>6, <1>7, <1>8, <1>9, <1>10, <1>11, <1>12
     DEF Next, HostStep, DeviceStep

LEMMA NextRInv ==
    ASSUME RInv, Reliable, UserMenusOnly, StartWorks, NearTargets, ItemsWork, AnchorsListed,
           [Next]_vars
    PROVE  RInv'
<1>1. SInv'
  BY NextSInv DEF RInv
<1> QED
  BY <1>1, NextEnds, NextListedBetween DEF RInv

\* Every step of the driver is a step of the atomic one or none.
LEMMA NextRefines ==
    ASSUME RInv, Reliable, UserMenusOnly, NearTargets, ItemsWork, SameMenus, AnchorsListed,
           [Next]_vars
    PROVE  Atomic!Next \/ UNCHANGED Atomic!vars
<1>1. LineInTime
  BY DEF Reliable
<1>2. ~SetupMenu
  <2>1. SetupMenu => script # <<>> /\ Head(script).op = "S" /\ phase = "wait"
    BY DEF SetupMenu, ReadSerial
  <2> QED
    BY <2>1, HeadPlanned DEF RInv, SInv, IInv
<1>3. ~IgnoreKey /\ ~Refresh /\ ~Listen
  BY <1>1, NothingToListenTo DEF IgnoreKey, Refresh, Reliable, LineInTime, RInv, SInv, IInv
<1>4. CASE UNCHANGED vars
  <2>1. \A key, stop : Final(key, stop)' = Final(key, stop)
    BY <1>4 DEF vars, host, inverter, Final, KeysLeft
  <2>2. /\ (InCall' <=> InCall) /\ Running' = Running /\ Cursor' = Cursor
        /\ \A op : CursorAfter(op)' = CursorAfter(op)
        /\ dev' = dev /\ phase' = phase /\ tracked' = tracked
    BY <1>4 DEF vars, host, inverter, history, InCall, Running, Cursor, CursorAfter
  <2>3. CursorThen' = CursorThen
    BY <2>2 DEF CursorThen
  <2>4. PositionThen' = PositionThen
    BY <2>1, <2>2 DEF PositionThen
  <2>5. KnownThen' <=> KnownThen
    BY <2>2, <2>3 DEF KnownThen
  <2> QED
    BY <2>3, <2>4, <2>5, Stays
<1> QED
  BY <1>1, <1>2, <1>3, <1>4, WriteRefines, TakeKeyRefines, MenuHeadingRefines, MenuItemRefines,
     SetPointRefines, GotoMenuStartRefines, CrashRefines, EndRefines, InvokeRefines
     DEF Next, HostStep, DeviceStep

\* On a line that loses nothing the driver that presses keys, waits for screens and
\* tries again is the sister driver with methods that are single steps, for any
\* sequence of calls in the user menus and any number of tries: a caller who knows
\* what the methods do to the two cursors knows all there is to know (MenuHeadingMinus
\* to PollMeters of xantrex-trace.cc and xanbus.cc).
THEOREM StepsAreMethods ==
    ASSUME Reliable, UserMenusOnly, StartWorks, NearTargets, ItemsWork, SameMenus,
           AnchorsListed
    PROVE  Spec => MethodsAreAtomic
<1>1. Init => RInv /\ Atomic!Init
  <2> SUFFICES ASSUME Init PROVE RInv /\ Atomic!Init
    OBVIOUS
  <2>1. script = <<>> /\ ~tracked /\ phase = "ready" /\ left = 0
    BY DEF Init
  <2>2. RInv
    BY <2>1, InitSInv DEF RInv, EndsAtTargets, ListedBetween
  <2>3. ~KnownThen
    BY <2>1 DEF KnownThen, InCall
  <2> QED
    BY <2>2, <2>3 DEF Atomic!Init
<1>2. RInv /\ [Next]_vars => RInv'
  BY NextRInv
<1>3. RInv /\ [Next]_vars => [Atomic!Next]_(Atomic!vars)
  BY NextRefines
<1> QED
  BY <1>1, <1>2, <1>3, PTL DEF Spec, MethodsAreAtomic, Atomic!Spec
=============================================================================
