---------------------------- MODULE MCXantrexUI ----------------------------
(* XantrexUI with the menus of SetDefaultValues.                           *)
EXTENDS XantrexDrift_proofs, MenuTable

\* Everything the driver offers while the inverter stays in the user menus.
UserOperations == AllOperations \ {"SetupMenu", "GotoMenuItem"}

\* Items with aliases GenStart and Second.
SomeTargets == {<<2, 3>>, <<6, 3>>}

\* A menu of the same shape, small enough for a line that does everything
\* at once: three user headings and a setup heading, meters below the third,
\* an INFO item that GetItem misses below the second.
SmallItems == <<0, 1, 3, 0>>
SmallEntries == UNION {{h} \X (0..SmallItems[h]) : h \in 1..4}
SmallListed == {<<0, 0>>} \cup (SmallEntries \ {<<2, 1>>})
SmallLabel == [p \in SmallEntries \cup {<<0, 0>>} |-> p]
SmallInverter == {<<1, 0>>, <<3, 1>>, <<4, 0>>}
SmallTargets == {<<3, 2>>}

\* What the theorems ask of the menus holds for those of SetDefaultValues, and what
\* they ask of the line and of the caller in the runs that check the same properties.
ASSUME TheoremsApply ==
    Items = MenuItems =>
        /\ StartWorks /\ ItemsWork /\ SameMenus /\ AnchorsListed
        /\ MetersListed /\ WayListed /\ MetersDistinct
        /\ UserMenusOnly /\ LineInTime
        /\ ~MayIgnore /\ "GotoMenuItem" \notin Operations => Reliable /\ NearTargets
=============================================================================
