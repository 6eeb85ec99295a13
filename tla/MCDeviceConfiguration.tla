------------------------ MODULE MCDeviceConfiguration ------------------------
(* Two streams, one control of each kind, two values of everything, and up  *)
(* to three requests.                                                       *)
EXTENDS DeviceConfiguration

MCLists == {{}, {1, 2}}
=============================================================================
