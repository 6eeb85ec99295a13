---------------------------- MODULE CallDetector -----------------------------
(***************************************************************************)
(* CallRecApp/Core/CallDetector.swift.  Polls and audio levels are handled *)
(* one after the other on the detector's queue; startDetecting and         *)
(* stopDetecting run on the main thread and do not use the queue: a stop   *)
(* may come while a handler runs, and the handler then goes on with what   *)
(* it read before.  Each handler is split where that makes a difference.   *)
(*                                                                         *)
(* Time is counted in ticks; an age is the time since an event, Never when *)
(* the code's Date is nil, and it is not counted beyond what some test     *)
(* asks for.  The activity average is represented by whether it is above   *)
(* callActivityThreshold: loud audio can only raise it, silence only lower *)
(* it.                                                                     *)
(***************************************************************************)
EXTENDS CallState, Integers

CONSTANTS Warmup,    \* warmupDuration
          Sustain,   \* audioActivityThreshold
          Grace,     \* callStartGracePeriod
          Silence    \* silenceTimeout

ASSUME TimeAssumption == {Warmup, Sustain, Grace, Silence} \subseteq Nat

VARIABLES
  running,      \* monitored apps that run
  detecting,    \* pollTimer exists, or stopDetecting runs
  torn,         \* history: the last stop came while a handler was running
  state,        \* CallState
  monitors,     \* per app: NoMonitor or its tap
  isMicActive,  \* isMicActive
  sustained,    \* audioActiveBundleID with the age of audioActiveStart
  silenceAge,   \* age of silenceStart
  callAge,      \* age of callStartedAt
  handler,      \* what the queue is doing, and what it has read so far
  quietAge      \* history: age of the last activity seen during the present call

timers == <<sustained, silenceAge, callAge>>
control == <<detecting, torn>>
vars == <<running, control, state, monitors, isMicActive, timers, handler, quietAge>>

Never == -1
NoMonitor == [live |-> FALSE, age |-> Never, callLike |-> FALSE]
NotSustained == [app |-> None, age |-> Never]
NoHandler == [at |-> "none", found |-> {}, app |-> None, callLike |-> FALSE, seen |-> NoCall]

Older(age, bound) == IF age \in 0..bound-1 THEN age + 1 ELSE age
\* A tap and its aggregate device can be made for a process that runs.
NewMonitor(a) == [live |-> a \in running, age |-> 0, callLike |-> FALSE]
\* The history starts again with the next stop that overtakes no handler.
Noticed == IF torn THEN Never ELSE 0
Monitored == {a \in Apps : monitors[a] # NoMonitor}

-----------------------------------------------------------------------------
Init ==
  /\ running = {}
  /\ detecting = "off" /\ torn = FALSE /\ state = NoCall
  /\ monitors = [a \in Apps |-> NoMonitor] /\ isMicActive = FALSE
  /\ sustained = NotSustained /\ silenceAge = Never /\ callAge = Never
  /\ handler = NoHandler /\ quietAge = Never

(* The world                                                               *)

AppLaunches ==
  /\ \E a \in Apps \ running : running' = running \cup {a}
  /\ UNCHANGED <<control, state, monitors, isMicActive, timers, handler, quietAge>>

\* A tap belongs to a process, not to the application that is started next.
AppQuits ==
  /\ \E a \in running : /\ running' = running \ {a}
                        /\ monitors' = [monitors EXCEPT ![a].live = FALSE]
  /\ UNCHANGED <<control, state, isMicActive, timers, handler, quietAge>>

\* Time passes between handlers; a handler takes less than a tick.
Tick ==
  /\ handler = NoHandler
  /\ monitors' = [a \in Apps |-> [monitors[a] EXCEPT !.age = Older(@, Warmup)]]
  /\ sustained' = [sustained EXCEPT !.age = Older(@, Sustain)]
  /\ silenceAge' = Older(silenceAge, Silence)
  /\ callAge' = Older(callAge, Grace + Silence)
  /\ quietAge' = Older(quietAge, Silence)
  /\ UNCHANGED <<running, control, state, isMicActive, handler>>

-----------------------------------------------------------------------------
(* The main thread                                                         *)

StartDetecting ==
  /\ detecting = "off"
  /\ detecting' = "on"
  /\ UNCHANGED <<running, torn, state, monitors, isMicActive, timers, handler, quietAge>>

StopDetecting ==
  /\ detecting = "on"
  /\ detecting' = "stopping" /\ torn' = (handler # NoHandler)
  /\ monitors' = [a \in Apps |-> NoMonitor] /\ isMicActive' = FALSE
  /\ sustained' = NotSustained /\ silenceAge' = Never /\ callAge' = Never
  /\ quietAge' = Never
  /\ UNCHANGED <<running, state, handler>>

StopReportsIdle ==
  /\ detecting = "stopping"
  /\ detecting' = "off" /\ state' = NoCall
  /\ UNCHANGED <<running, torn, monitors, isMicActive, timers, handler, quietAge>>

-----------------------------------------------------------------------------
(* The queue: a poll                                                       *)

\* pollForCallApps: which monitored apps run.
Poll ==
  /\ detecting = "on" /\ handler = NoHandler
  /\ handler' = [NoHandler EXCEPT !.at = "monitors", !.found = running]
  /\ UNCHANGED <<running, control, state, monitors, isMicActive, timers, quietAge>>

\* Monitors go with their apps and come with new ones, unless the tap cannot
\* be made.  Any poll may find the microphone in use.
PollMonitors ==
  /\ handler.at = "monitors"
  /\ \E made \in SUBSET (handler.found \ Monitored) :
       monitors' = [a \in Apps |-> IF a \in made THEN NewMonitor(a)
                                   ELSE IF a \in handler.found THEN monitors[a] ELSE NoMonitor]
  /\ sustained' = IF sustained.app \in Monitored \ handler.found THEN NotSustained ELSE sustained
  /\ isMicActive' \in BOOLEAN
  /\ handler' = [handler EXCEPT !.at = "apps"]
  /\ UNCHANGED <<running, control, state, silenceAge, callAge, quietAge>>

\* Mutant: only an active call is ended when the apps are gone.
PollAppsIgnoresIdleApp ==
  /\ handler.at = "apps"
  /\ \/ /\ handler.found = {} /\ state.kind = "callActive"
        /\ state' = NoCall /\ quietAge' = Never
        /\ sustained' = NotSustained /\ silenceAge' = Never /\ callAge' = Never
        /\ handler' = NoHandler
     \/ /\ handler.found = {} /\ state.kind # "callActive"
        /\ handler' = NoHandler
        /\ UNCHANGED <<state, timers, quietAge>>
     \/ /\ \E a \in handler.found : state' = IF state = NoCall THEN AppRunning(a) ELSE state
        /\ handler' = [NoHandler EXCEPT !.at = "mic", !.seen = state']
        /\ UNCHANGED <<timers, quietAge>>
  /\ UNCHANGED <<running, control, monitors, isMicActive>>

PollApps ==
  /\ handler.at = "apps"
  /\ \/ /\ handler.found = {} /\ state # NoCall
        /\ state' = NoCall
        /\ sustained' = NotSustained /\ silenceAge' = Never /\ callAge' = Never
        /\ quietAge' = Never
        /\ handler' = NoHandler
     \/ /\ handler.found = {} /\ state = NoCall
        /\ handler' = NoHandler
        /\ UNCHANGED <<state, timers, quietAge>>
     \/ /\ handler.found # {}
        /\ \E a \in handler.found : state' = IF state = NoCall THEN AppRunning(a) ELSE state
        /\ handler' = [NoHandler EXCEPT !.at = "mic", !.seen = state']
        /\ UNCHANGED <<timers, quietAge>>
  /\ UNCHANGED <<running, control, monitors, isMicActive>>

\* An app that runs while the microphone is in use is in a call.
PollMic ==
  /\ handler.at = "mic" /\ handler' = NoHandler
  /\ IF handler.seen.kind = "appRunning" /\ isMicActive
       THEN state' = Active(handler.seen.app) /\ callAge' = 0 /\ quietAge' = Noticed
       ELSE UNCHANGED <<state, callAge, quietAge>>
  /\ UNCHANGED <<running, control, monitors, isMicActive, sustained, silenceAge>>

-----------------------------------------------------------------------------
(* The queue: an audio level                                               *)

\* processAudioLevel takes a copy of the monitor and updates the average; the
\* first audio after a tap was made is ignored.  A tap whose process has gone
\* may still deliver silence.
AudioLevel(a) ==
  /\ handler = NoHandler
  /\ a \in Monitored /\ monitors[a].age >= Warmup
  /\ \E like \in {monitors[a].callLike, monitors[a].live, FALSE} :
       handler' = [NoHandler EXCEPT !.at = "audio", !.app = a, !.callLike = like, !.seen = state]
  /\ UNCHANGED <<running, control, state, monitors, isMicActive, timers, quietAge>>

CallLike == handler.callLike

\* appRunning: the app becomes active after Sustain ticks of activity.
HearRunning(a) ==
  /\ handler.seen.kind = "appRunning"
  /\ \/ /\ CallLike /\ (sustained.app # a)
        /\ sustained' = [app |-> a, age |-> 0]
        /\ UNCHANGED <<state, silenceAge, callAge, quietAge>>
     \/ /\ CallLike /\ sustained.app = a /\ sustained.age >= Sustain
        /\ state' = Active(a) /\ callAge' = 0 /\ quietAge' = Noticed
        /\ sustained' = NotSustained /\ silenceAge' = Never
     \/ /\ CallLike /\ sustained.app = a /\ sustained.age < Sustain
        /\ UNCHANGED <<state, timers, quietAge>>
     \/ /\ ~CallLike
        /\ sustained' = IF sustained.app = a THEN NotSustained ELSE sustained
        /\ UNCHANGED <<state, silenceAge, callAge, quietAge>>

\* callActive: silence, outside the grace period and with the mic not in use.
HearActive(a) ==
  /\ handler.seen.kind = "callActive"
  /\ IF handler.seen.app = a /\ ~CallLike /\ callAge \notin 0..Grace-1 /\ ~isMicActive
       THEN /\ silenceAge' = IF silenceAge = Never THEN 0 ELSE silenceAge
            /\ state' = Ending(a)
            /\ UNCHANGED quietAge
       ELSE /\ quietAge' = IF handler.seen.app = a /\ (CallLike \/ isMicActive) THEN Noticed ELSE quietAge
            /\ UNCHANGED <<state, silenceAge>>
  /\ UNCHANGED <<sustained, callAge>>

\* Mutants: the call's age survives it; any app resumes it; silence is timed on.
HearEndingKeepsStart(a) ==
  /\ handler.seen = Ending(a) /\ ~CallLike /\ ~isMicActive /\ silenceAge >= Silence
  /\ silenceAge' = Never /\ state' = AppRunning(a) /\ quietAge' = Never
  /\ UNCHANGED <<sustained, callAge>>

HearEndingAnyApp(a) ==
  /\ handler.seen.kind = "callEnding" /\ (CallLike \/ isMicActive)
  /\ silenceAge' = Never /\ state' = Active(a) /\ quietAge' = Noticed
  /\ UNCHANGED <<sustained, callAge>>

HearEndingKeepsSilence(a) ==
  /\ handler.seen = Ending(a)
  /\ \/ /\ CallLike \/ isMicActive
        /\ state' = Active(a) /\ quietAge' = Noticed
        /\ UNCHANGED timers
     \/ /\ ~CallLike /\ ~isMicActive /\ silenceAge >= Silence
        /\ silenceAge' = Never /\ callAge' = Never /\ state' = AppRunning(a) /\ quietAge' = Never
        /\ UNCHANGED sustained

\* callEnding: activity resumes the call, Silence ticks without any end it.
HearEnding(a) ==
  /\ handler.seen.kind = "callEnding"
  /\ \/ /\ handler.seen.app = a /\ (CallLike \/ isMicActive)
        /\ silenceAge' = Never /\ state' = Active(a) /\ quietAge' = Noticed
        /\ UNCHANGED callAge
     \/ /\ handler.seen.app = a /\ ~CallLike /\ ~isMicActive /\ silenceAge >= Silence
        /\ silenceAge' = Never /\ callAge' = Never /\ state' = AppRunning(a)
        /\ quietAge' = Never
     \/ /\ handler.seen.app # a \/ (~CallLike /\ ~isMicActive /\ silenceAge < Silence)
        /\ UNCHANGED <<state, silenceAge, callAge, quietAge>>
  /\ UNCHANGED sustained

\* The copy goes back into the table, into an entry that a stop may have
\* removed (and whose tap it has destroyed); then the state is looked at.
AudioDecide ==
  /\ handler.at = "audio"
  /\ LET a == handler.app
     IN  /\ monitors' = [monitors EXCEPT
              ![a] = [live |-> @.live, age |-> Warmup, callLike |-> CallLike]]
         /\ \/ HearRunning(a) \/ HearActive(a) \/ HearEnding(a)
            \/ handler.seen = NoCall /\ UNCHANGED <<state, timers, quietAge>>
  /\ handler' = NoHandler
  /\ UNCHANGED <<running, control, isMicActive>>

-----------------------------------------------------------------------------
World == AppLaunches \/ AppQuits
Main == StartDetecting \/ StopDetecting \/ StopReportsIdle
Handler == PollMonitors \/ PollApps \/ PollMic \/ AudioDecide
Next == World \/ Tick \/ Main \/ Poll \/ Handler \/ \E a \in Apps : AudioLevel(a)

Spec == Init /\ [][Next]_vars

\* Time passes, the timer fires, handlers finish, and a tap delivers audio.
FairSpec ==
  /\ Spec
  /\ WF_vars(Handler) /\ WF_vars(StopReportsIdle) /\ SF_vars(Tick) /\ SF_vars(Poll)
  /\ \A a \in Apps : SF_vars(AudioLevel(a) /\ monitors[a].live)
-----------------------------------------------------------------------------
Ages(bound) == {Never} \cup 0..bound

TypeOK ==
  /\ running \subseteq Apps /\ isMicActive \in BOOLEAN /\ detecting \in {"off", "on", "stopping"}
  /\ torn \in BOOLEAN
  /\ state \in CallStates
  /\ monitors \in [Apps -> [live : BOOLEAN, age : Ages(Warmup), callLike : BOOLEAN]]
  /\ sustained \in {NotSustained} \cup [app : Apps, age : 0..Sustain]
  /\ silenceAge \in Ages(Silence) /\ callAge \in Ages(Grace + Silence) /\ quietAge \in Ages(Silence)
  /\ handler \in [at : {"none", "monitors", "apps", "mic", "audio"}, found : SUBSET Apps,
                  app : Apps \cup {None}, callLike : BOOLEAN, seen : CallStates]

\* The timers belong to the state: silence is timed exactly while a call is
\* ending, and a call's age exactly while there is a call.  Six places set or
\* clear them, not all of them next to the state they belong to
\* (CallDetector.swift:150-154, 201-204, 222, 334-338, 357-360, 367-373).
TimersMatchState ==
  /\ silenceAge # Never <=> state.kind = "callEnding"
  /\ callAge # Never <=> state.kind \in {"callActive", "callEnding"}

\* Activity is only counted for an app that is being listened to
\* (tearDownMonitor, CallDetector.swift:430-433).
SustainedIsMonitored == sustained.app # None => sustained.app \in Monitored

\* Timers, monitors and state go together, whichever handler changed which.  A
\* handler that goes on after a stop leaves timers that do not belong to its
\* state, and the next stop that overtakes nobody puts that right.
DetectorInv ==
  /\ TypeOK /\ SustainedIsMonitored
  /\ ~torn /\ detecting # "stopping" => TimersMatchState

\* A handler is about to act on a state that a stop has reset since.
Overtaken == state = NoCall /\ handler.seen # NoCall

\* The Orchestrator's assumption: no other changes of the state are reported
\* than those of DetectorStep, and what a handler reports that a stop overtook.
ReportsAsAssumed == [][DetectorStep(state, state') \/ Overtaken]_state

\* "Sustained audio silence for 60s AND mic inactive -> call ended"
\* (CallDetector.swift:11): a call is not ended by silence while something was
\* heard, or the microphone was in use, less than the time-out ago, and not
\* before its grace period is over ("don't auto-end during this window", line
\* 52), unless the last stop has overtaken a handler.
EndsOnlyAfterSilence ==
  [][state.kind = "callEnding" /\ state'.kind = "appRunning"
       => torn \/ (quietAge \notin 0..Silence-1 /\ callAge >= Grace + Silence)]_vars

\* A call that is over ends, as long as somebody looks: all apps have quit, or its
\* app is listened to, is not found to speak, nor the microphone to be in use.
CallEnds ==
  state.kind = "callActive"
    ~> \/ state.kind \notin {"callActive", "callEnding"} \/ detecting # "on"
       \/ /\ running # {}
          /\ isMicActive \/ monitors[state.app].callLike \/ ~monitors[state.app].live
=============================================================================
