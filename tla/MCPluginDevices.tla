---------------------------- MODULE MCPluginDevices ----------------------------
(***************************************************************************)
(* Two devices, a stream and two controls; four operations in all, before, *)
(* while and after the HAL initialises the driver.                         *)
(***************************************************************************)
EXTENDS PluginDevices
=============================================================================
