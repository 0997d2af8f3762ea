------------------------------ MODULE MCI2cBus ------------------------------
(* A master and one slave, with its switch at 1; nobody answers at 80.      *)
EXTENDS I2cBus, TLC

CONSTANT s1

SwitchOf    == s1 :> 1
Addresses   == <<0, 80, 81>>
Status      == [len |-> 1, read |-> TRUE]
Result      == [len |-> 2, read |-> TRUE]
Job         == [len |-> 3, read |-> FALSE]
Commands    == {Status, Result, Job}
=============================================================================
