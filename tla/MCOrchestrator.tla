--------------------------- MODULE MCOrchestrator ----------------------------
(* Two call apps, a built-in and a removable microphone, and up to three jobs *)
(* pending when the world adds one: enough for a call to change state while  *)
(* a start or stop is queued, suspended, or about to continue.               *)
EXTENDS Orchestrator
=============================================================================
