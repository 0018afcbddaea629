------------------------------ MODULE MCOwnet ------------------------------
(* Ownet with two thermometers, a battery monitor and a switch.            *)
EXTENDS Ownet, TLC

CONSTANTS t1, t2, b1, s1

MCDevices == {t1, t2, b1, s1}
MCFamily == (t1 :> "TEMPERATURE") @@ (t2 :> "TEMPERATURE")
                @@ (b1 :> "BATTERY") @@ (s1 :> "UNSUPPORTED")
=============================================================================
