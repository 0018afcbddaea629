----------------------------- MODULE MenuTable -----------------------------
(***************************************************************************)
(* The table of menu headings and items that XantrexUI::SetDefaultValues   *)
(* (devices/xantrex-trace.cc) fills in with MenuItem::SetItem              *)
(* (lib/menuitem.cc).  What matters of an entry is where it is on the      *)
(* inverter's display, whether its label can be told from the others, and  *)
(* whether XantrexUI::GetItem finds it.                                    *)
(***************************************************************************)
EXTENDS Naturals, Sequences, TLC

\* How many items each heading of the user menus (1..8) and of the setup
\* menus (9..20) has below its own line.  ("inverter synced to that input."
\* is entered as a second heading 11, behind the first, where GetItem never gets.)
UserItems == <<5, 8, 5, 16, 14, 3, 2, 0>>
SetupItems == <<7, 7, 4, 12, 5, 10, 6, 4, 4, 12, 10, 0>>

MenuItems == UserItems \o SetupItems

\* The items entered with SetItem(label, x, y) and nothing more, which is how
\* SetDefaultValues enters a line of text that carries no value.
UserInfo ==
    ({1} \X (2..5)) \cup ({3} \X {1, 3, 4, 5}) \cup ({4} \X (10..16))
SetupInfo ==
    {<<9, 1>>, <<10, 7>>} \cup ({14} \X (7..10)) \cup ({15} \X (2..6))
        \cup ({16, 17} \X (3..4)) \cup ({18} \X (3..12)) \cup ({19} \X (1..10))

MenuEntries == UNION {{h} \X (0..MenuItems[h]) : h \in DOMAIN MenuItems}

\* The index SetItem stores: the overload behind the INFO entries passes 0 on
\* in place of the item's number.
StoredIndex(e) == IF e \in UserInfo \cup SetupInfo THEN 0 ELSE e[2]

\* The positions GetItem finds; heading 0 is the table's "Top of Menu".
ListedItems ==
    {<<0, 0>>} \cup {<<e[1], StoredIndex(e)>> : e \in MenuEntries}

\* Labels entered twice cannot be told apart: the error causes repeat two of the
\* generator's and one of their own, the relays' menu repeats a line of advice.
\* ("Time of Day" is also part of item <<6, 1>>, but it labels a heading, and
\* whether a heading's label shows decides nothing.)
SameLabel == <<5, 10>> :> <<2, 3>> @@ <<5, 11>> :> <<2, 4>>
                @@ <<5, 14>> :> <<5, 6>> @@ <<17, 4>> :> <<16, 4>>

MenuLabel == SameLabel @@ [p \in MenuEntries \cup {<<0, 0>>} |-> p]

\* The lines with the word "Inverter" in them.
InverterLines ==
    {<<1, 0>>, <<1, 1>>, <<1, 5>>, <<4, 1>>, <<4, 6>>, <<5, 6>>, <<5, 14>>, <<9, 0>>}
=============================================================================
