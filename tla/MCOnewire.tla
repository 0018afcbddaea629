----------------------------- MODULE MCOnewire ------------------------------
(* Onewire with thermometers, a family in letters, which the table has in   *)
(* capitals, and a battery; or with no device at all.                       *)
EXTENDS Onewire, TLC

MCDirectories == {<<"22-a", "28-b", "28-c", "3b-d">>, <<"22-a", "26-e", "28-b">>, <<>>}
MCFamily == "22-a" :> "22" @@ "26-e" :> "26" @@ "28-b" :> "28" @@ "28-c" :> "28"
            @@ "3b-d" :> "3b"
MCTexts == {<<"1">>, <<"2", "1">>, <<"-", "2">>}
=============================================================================
