----------------------------- MODULE CallState -------------------------------
(***************************************************************************)
(* What the call detector says of calls (CallState of CallRecApp/Core/     *)
(* CallDetector.swift) and how it may change its mind.  Orchestrator takes *)
(* these changes, and those that a handler makes which a stop has          *)
(* overtaken, as given; CallDetector is shown to make no others.           *)
(***************************************************************************)
CONSTANTS Apps,   \* monitored call applications
          None    \* no application

ASSUME AppAssumption == None \notin Apps

AppRunning(a) == [kind |-> "appRunning", app |-> a]
Active(a) == [kind |-> "callActive", app |-> a]
Ending(a) == [kind |-> "callEnding", app |-> a]
NoCall == [kind |-> "idle", app |-> None]

CallStates == {NoCall} \cup {AppRunning(a) : a \in Apps}
                \cup {Active(a) : a \in Apps} \cup {Ending(a) : a \in Apps}

\* A call starts for any monitored app, falls silent, resumes, ends; all apps
\* quit or detection stops.
DetectorStep(from, to) ==
  \/ from = NoCall /\ \E a \in Apps : to = AppRunning(a)
  \/ from.kind = "appRunning" /\ \E a \in Apps : to = Active(a)
  \/ from.kind = "callActive" /\ to = Ending(from.app)
  \/ from.kind = "callEnding" /\ to \in {Active(from.app), AppRunning(from.app)}
  \/ from # NoCall /\ to = NoCall
=============================================================================
