-------------------------- MODULE MCOHCITransfers --------------------------
(* Instances of OHCITransfers: requests while no HID device is active, and  *)
(* a request beside devices that report.                                    *)
EXTENDS OHCITransfers

(* "Make sure we can talk to the device on the new address" (OHCI.c:767):   *)
(* the request that makes sure succeeds only if the device has answered.    *)
SuccessMeansAnswered == returned.result => returned.answered
=============================================================================
