--------------------------- MODULE MCCallDetector ----------------------------
(* Two apps, so that one can quit, speak or be listened to while the other   *)
(* one is in a call; every period is one tick.                               *)
EXTENDS CallDetector
=============================================================================
