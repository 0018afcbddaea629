------------------------------ MODULE XanbusUI ------------------------------
(***************************************************************************)
(* The menu driver XanbusUI in devices/xanbus.cc, one step per method.     *)
(* The class is the sister of XantrexUI, method by method; where module    *)
(* XantrexUI follows each key and each screen on the line, here a method   *)
(* moves the program's cursor <<menuheading, menuitem>> and the inverter's *)
(* cursor `position' at once, as it does on a line that loses nothing.     *)
(* It is what a caller would like the driver to be, and XantrexRefines     *)
(* states that the step by step driver is that.                            *)
(*                                                                         *)
(* `known' is FALSE before GotoMenuStart, and again after a method that    *)
(* looked up a label GetItem does not find: the driver may then have       *)
(* pressed any number of keys, or may have died, and nothing is promised.  *)
(***************************************************************************)
EXTENDS Naturals, Sequences

CONSTANTS
    LastUser, LastHeading,  \* as in XantrexUI
    Items, Listed, InverterScreens,
    Alike,                  \* sets of positions whose labels are equal
    StartTries, ItemTries,
    MeterHeading, Targets

VARIABLES menuheading, menuitem, position, known

vars == <<menuheading, menuitem, position, known>>

Position == UNION {{h} \X (0..Items[h]) : h \in 1..LastHeading}

\* Where a key takes the inverter.
Left == [p \in Position |-> <<IF p[1] > 1 THEN p[1] - 1 ELSE 1, 0>>]
Right == [p \in Position |->
              <<IF p[1] \in {LastUser, LastHeading} THEN p[1] ELSE p[1] + 1, 0>>]
Down == [p \in Position |-> <<p[1], IF p[2] < Items[p[1]] THEN p[2] + 1 ELSE p[2]>>]
Up == [p \in Position |-> <<p[1], IF p[2] > 0 THEN p[2] - 1 ELSE 0>>]

\* Positions whose lines carry the label of p.
Labelled(p) == {q \in Position : p = q \/ \E labels \in Alike : {p, q} \subseteq labels}

\* Where pressing a key leads from p: on until a position in stop, `tries'
\* times at most.
Pressed(key, p, tries, stop) ==
    LET on[n \in Nat] ==
          [q \in Position |-> IF n <= 1 \/ key[q] \in stop THEN key[q] ELSE on[n - 1][key[q]]]
    IN on[tries][p]

Become(cursor, p) ==
    IF cursor \in Listed
    THEN known' /\ <<menuheading', menuitem'>> = cursor /\ position' = p
    ELSE ~known' /\ <<menuheading', menuitem'>> = <<0, 0>> /\ position' = <<1, 0>>

MenuHeadingMinus ==
    /\ known
    /\ Become(<<IF menuheading > 1 THEN menuheading - 1 ELSE menuheading, 0>>, Left[position])

MenuHeadingPlus ==
    /\ known
    /\ Become(<<menuheading + 1, 0>>, Right[position])

MenuItemMinus ==
    /\ known
    /\ LET c == <<menuheading, menuitem + 1>> IN
       Become(c, Pressed(Down, position, ItemTries, Labelled(c)))

MenuItemPlus ==
    /\ known
    /\ LET c == <<menuheading, IF menuitem > 1 THEN menuitem - 1 ELSE menuitem>> IN
       Become(c, Pressed(Up, position, ItemTries, Labelled(c)))

\* SetPointMinus, SetPointPlus, Inverter, Generator, LedStatus, Version,
\* SetTerminalMode: a key that moves neither cursor.
SetPoint == UNCHANGED vars

SetupMenu ==
    /\ known
    /\ Become(<<LastUser, 0>>, <<LastUser + 1, 0>>)

GotoMenuStart ==
    \E p \in IF known THEN {position} ELSE Position :
        Become(<<1, 0>>, Pressed(Left, p, StartTries, InverterScreens))

\* GotoMenuItem and PollMeters are made of the methods above, but for the end
\* of GotoMenuItem: it has pressed D once less than the item's number, and
\* sets the cursor to the item all the same.
GotoMenuItemEnd ==
    /\ known
    /\ \E p \in Targets \cup {<<MeterHeading, 1>>} :
          /\ position = <<p[1], IF p[2] > 0 THEN p[2] - 1 ELSE 0>>
          /\ Become(p, position)

\* The constructor leaves the cursor uninitialised.
Init == ~known /\ menuheading = 0 /\ menuitem = 0 /\ position = <<1, 0>>

Next ==
    \/ SetPoint \/ SetupMenu
    \/ MenuHeadingMinus \/ MenuHeadingPlus
    \/ MenuItemMinus \/ MenuItemPlus
    \/ GotoMenuStart \/ GotoMenuItemEnd

Spec == Init /\ [][Next]_vars
=============================================================================
