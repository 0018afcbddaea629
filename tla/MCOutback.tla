----------------------------- MODULE MCOutback -----------------------------
(* Outback with two packets: one of doc/C/outback.xml, and one with fields *)
(* that start with zeros.                                                  *)
EXTENDS Outback

Digits(a, b) == <<Zero + a, Zero + b>>
Digits3(a, b, c) == <<Zero + a, Zero + b, Zero + c>>

\* 0,00,32,30,000,128,00,00,000,00,265,002,140,039
\* B,00,08,07,123,012,00,00,000,00,058,000,000,...
MCPackets ==
    {[address |-> Zero, charge |-> Digits(3, 2), pv_amps |-> Digits(3, 0),
      pv_volts |-> Digits3(0, 0, 0), kwh |-> Digits3(1, 2, 8),
      battery |-> Digits3(2, 6, 5), checksum |-> Digits3(0, 3, 2)],
     [address |-> 66, charge |-> Digits(0, 8), pv_amps |-> Digits(0, 7),
      pv_volts |-> Digits3(1, 2, 3), kwh |-> Digits3(0, 1, 2),
      battery |-> Digits3(0, 5, 8), checksum |-> Digits3(0, 5, 5)]}

MCReadSizes == {1, 3, 47, 49}
MCLossPositions == {1, 48}
=============================================================================
