------------------------- MODULE MessagingDevices -------------------------
(* The devices that connect to the messaging service and that it delivers  *)
(* messages to.                                                            *)
CONSTANT Devices
=============================================================================
