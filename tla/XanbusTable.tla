---------------------------- MODULE XanbusTable ----------------------------
(***************************************************************************)
(* The menus of XanbusUI::SetDefaultValues (devices/xanbus.cc), as the     *)
(* overloads of MenuItem::SetItem it calls: what an entry's type is decides *)
(* whether XanbusUI::GetItem finds it.  The entries are those of MenuTable *)
(* for the sister driver; here they are told by type and heading.          *)
(***************************************************************************)
EXTENDS Naturals, Sequences

Repeat(type, n) == [i \in 1..n |-> type]

\* The types of the items below each heading of the user menus, 1 to 8.  A
\* string literal as fourth argument is taken for a bool: a pointer converts
\* to bool sooner than to std::string.
UserTypes ==
    << <<"bool">> \o Repeat("info", 4),
       Repeat("bool", 8),
       <<"info", "bool">> \o Repeat("info", 3),
       Repeat("int", 3) \o Repeat("float", 2) \o Repeat("int", 4) \o Repeat("info", 7),
       Repeat("bool", 14),
       Repeat("int", 3),
       Repeat("int", 2),
       <<>> >>

\* The setup menus, 9 to 13 and 14 to 20.
SetupTypes ==
    << <<"info", "float", "int", "float", "float", "int", "int">>,
       <<"float", "int", "float", "float", "int", "int", "info">>,
       Repeat("int", 4),
       Repeat("int", 3) \o Repeat("float", 3) \o Repeat("int", 6),
       Repeat("int", 5) >>

RelayTypes ==
    << <<"int", "int", "float", "int", "int", "int">> \o Repeat("info", 4),
       <<"int">> \o Repeat("info", 5),
       Repeat("float", 2) \o Repeat("info", 2),
       <<"float", "int">> \o Repeat("info", 2),
       Repeat("int", 2) \o Repeat("info", 10),
       Repeat("info", 10),
       <<>> >>

Types == UserTypes \o SetupTypes \o RelayTypes

XanbusItems == [h \in 1..Len(Types) |-> Len(Types[h])]

\* GetItem finds an entry by the indices SetItem stored, and an INFO entry was
\* stored with item index 0; so was each heading, and "Top of Menu".
XanbusListed ==
    {<<0, 0>>} \cup UNION {{<<h, i>> : i \in {0} \cup {i \in 1..Len(Types[h]) : Types[h][i] # "info"}}
                              : h \in 1..Len(Types)}

\* Entries with one label: "Generator start error", "Generator sync error",
\* "Inverter breaker tripped", "Make sure LBX is above LBCO volts."
Alike == {{<<2, 3>>, <<5, 10>>}, {<<2, 4>>, <<5, 11>>},
          {<<5, 6>>, <<5, 14>>}, {<<16, 4>>, <<17, 4>>}}

\* Lines in which GotoMenuStart finds the word "Inverter".
XanbusInverter ==
    {<<1, 0>>, <<1, 1>>, <<1, 5>>, <<4, 1>>, <<4, 6>>, <<5, 6>>, <<5, 14>>, <<9, 0>>}
=============================================================================
