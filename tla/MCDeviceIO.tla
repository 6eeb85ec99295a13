----------------------------- MODULE MCDeviceIO ------------------------------
(* Two client IDs, Voice Memos and a call application; the stream PluginEntry *)
(* makes and one more; two rates and periods; one request after the first.    *)
(* The IDs are interchangeable, and no property is a liveness property.       *)
EXTENDS DeviceIO, TLC

MCLists == {{1, 3}}
MCSymmetry == Permutations(Clients)
=============================================================================
