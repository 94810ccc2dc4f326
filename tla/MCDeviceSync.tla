----------------------------- MODULE MCDeviceSync ------------------------------
(* DeviceSync on small instances. *)
EXTENDS DeviceSync

CONSTANTS ann, bob, laptop, tower, beat, watch, n1, n2

OneAccount == {ann}
TwoAccounts == {ann, bob}
OneNetwork == {n1}
TwoNetworks == {n1, n2}
OneDevice == {laptop}
TwoDevices == {laptop, tower}
OneThread == {beat}
TwoThreads == {beat, watch}
AllAnns == [d \in Devices |-> ann]
OneEach == [d \in Devices |-> IF d = laptop THEN ann ELSE bob]
NoneUnclaimed == {}
MCOfferedRoles == {"member"}
================================================================================
