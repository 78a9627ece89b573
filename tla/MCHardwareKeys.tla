---------------------------- MODULE MCHardwareKeys ----------------------------
(* The devices on which the input daemon is checked.                       *)
EXTENDS HardwareKeys

(* Select, Start and Power, with a gamepad node that comes and goes.       *)
HoldSetup ==
    [keys |-> {"select", "start", "power"}, faults |-> {"gamepad"}, queue |-> 3, hold |-> 3]

(* Volume and brightness, with helpers that fail.                          *)
SaveSetup == [keys |-> {"select", "up"}, faults |-> {"helper"}, queue |-> 2, hold |-> 1]

(* Volume, with helpers that fail and a volume node that comes and goes.   *)
UnplugSetup == [keys |-> {"up"}, faults |-> {"helper", "volume"}, queue |-> 2, hold |-> 1]

MCSetups == {HoldSetup, SaveSetup, UnplugSetup}
=============================================================================
