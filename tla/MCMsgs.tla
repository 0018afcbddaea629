------------------------------- MODULE MCMsgs -------------------------------
(* Msgs with requests of every kind, understood and not.                   *)
EXTENDS Msgs

MCRequests ==
    {[kind |-> "meters", tag |-> "battery-volts"], [kind |-> "meters", tag |-> "hertz"],
     [kind |-> "meters", tag |-> "charge-amps"],
     [kind |-> "status", tag |-> "opmode"], [kind |-> "status", tag |-> "warningmode"],
     [kind |-> "config", tag |-> "generator"], [kind |-> "setting", tag |-> "sell"],
     [kind |-> "command", tag |-> "relay"], [kind |-> "order", tag |-> "relay"]}
=============================================================================
