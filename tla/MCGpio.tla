-------------------------------- MODULE MCGpio --------------------------------
(* A small instance of GpioInterrupts for TLC: the pin of the radio and that of *)
(* a switch, on one port.                                                      *)
EXTENDS GpioInterrupts

RadioPin == [pin |-> 0, trigger |-> "LEVEL_LOW", kind |-> "fun"]
Switch(p) == [pin |-> p, trigger |-> "EDGE_ANY", kind |-> "obj"]
Alarm(p) == [pin |-> p, trigger |-> "LEVEL_HIGH", kind |-> "fun"]

RadioAndSwitches == {RadioPin, Switch(1), Alarm(1), Switch(2)}
=============================================================================
