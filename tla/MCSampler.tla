----------------------------- MODULE MCSampler -----------------------------
(***************************************************************************)
(* An array of one disk, an empty slot and the boot device; one share.     *)
(***************************************************************************)
EXTENDS Sampler

MCDeviceOf == [disk1 |-> "/dev/sda", parity2 |-> NoDevice, flash |-> "/dev/sdz"]
MCCounters == {"/dev/sda"}
MCFields == [disk1 |-> [fsUsed |-> 1], parity2 |-> <<>>, flash |-> <<>>,
             media |-> [used |-> 1]]
MCNoReading == -1
MCTemperatures == {MCNoReading, 30, 255}
=============================================================================
