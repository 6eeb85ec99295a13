-------------------------- MODULE CallDetectorProofs --------------------------
(***************************************************************************)
(* Proofs about CallDetector.tla for any apps and periods, and stops of    *)
(* the detector that come at any time.                                     *)
(***************************************************************************)
EXTENDS CallDetector, TLAPS

Monitors == [live : BOOLEAN, age : Ages(Warmup), callLike : BOOLEAN]
Handlers == [at : {"none", "monitors", "apps", "mic", "audio"}, found : SUBSET Apps,
             app : Apps \cup {None}, callLike : BOOLEAN, seen : CallStates]

\* What holds whether a stop overtakes a handler or not: a handler acts on the current state
\* or on one that a stop has reset since.
HandlerRuns ==
  /\ handler.at = "none" => handler = NoHandler
  /\ handler.at \in {"mic", "audio"} => handler.seen = state \/ state = NoCall
  /\ handler.at = "audio" => handler.app \in Apps
  /\ \A a \in Monitored : monitors[a].age # Never

Always == TypeOK /\ SustainedIsMonitored /\ HandlerRuns

\* What holds as long as the last stop has overtaken no handler.  Handlers run while the
\* detector is on, and act on the current state.
HandlerFresh ==
  /\ handler # NoHandler => detecting = "on"
  /\ handler.at \in {"mic", "audio"} => handler.seen = state

\* Apps are listened to only while the detector is on; a stop clears every timer.
StopsClear ==
  /\ detecting # "on" => Monitored = {} /\ sustained = NotSustained
  /\ detecting = "stopping" => silenceAge = Never /\ callAge = Never
  /\ detecting = "off" => state = NoCall

\* How the ages of a call relate: what was heard last is older than the silence, and the
\* silence began after the grace period.
AgesOrdered ==
  /\ state.kind \in {"callActive", "callEnding"} => quietAge # Never
  /\ state.kind = "callEnding" /\ silenceAge # Never =>
       quietAge >= silenceAge /\ callAge >= Grace + silenceAge

Coherent ==
  /\ HandlerFresh /\ StopsClear
  /\ detecting # "stopping" => TimersMatchState /\ AgesOrdered

\* The inductive invariant.
Inv == Always /\ (~torn => Coherent)

LEMMA InitInv == Init => Inv
  <1> SUFFICES ASSUME Init PROVE Inv
    OBVIOUS
  <1> USE TimeAssumption, AppAssumption DEF AppAssumption, TimeAssumption, Init
  <1>1. TypeOK
    BY DEF TypeOK, CallStates, NoCall, NoMonitor, NotSustained, NoHandler, Ages, Never
  <1>2. TimersMatchState /\ SustainedIsMonitored
    BY DEF TimersMatchState, SustainedIsMonitored, NoCall, NotSustained
  <1>3. HandlerRuns /\ HandlerFresh /\ StopsClear /\ AgesOrdered
    BY DEF HandlerRuns, HandlerFresh, StopsClear, AgesOrdered, NoHandler, Monitored, NoCall
  <1> QED BY <1>1, <1>2, <1>3 DEF Inv, Always, Coherent

-----------------------------------------------------------------------------
(* Facts about states and ages                                             *)

LEMMA MadeStates ==
  /\ NoCall \in CallStates /\ NoCall.kind = "idle"
  /\ \A a \in Apps : /\ AppRunning(a) \in CallStates /\ AppRunning(a).kind = "appRunning"
                     /\ Active(a) \in CallStates /\ Active(a).kind = "callActive"
                     /\ Ending(a) \in CallStates /\ Ending(a).kind = "callEnding"
  BY DEF CallStates, NoCall, AppRunning, Active, Ending

LEMMA StateKinds ==
  ASSUME NEW s \in CallStates
  PROVE  /\ s.kind = "idle" <=> s = NoCall
         /\ s # NoCall => s.app \in Apps
         /\ s.kind \in {"idle", "appRunning", "callActive", "callEnding"}
         /\ s.kind = "callActive" => s = Active(s.app)
         /\ s.kind = "callEnding" => s = Ending(s.app)
  <1>1. CASE s = NoCall
    BY <1>1 DEF NoCall
  <1>2. CASE \E a \in Apps : s = AppRunning(a)
    BY <1>2 DEF NoCall, AppRunning
  <1>3. CASE \E a \in Apps : s = Active(a)
    BY <1>3 DEF NoCall, Active
  <1>4. CASE \E a \in Apps : s = Ending(a)
    BY <1>4 DEF NoCall, Ending
  <1> QED BY <1>1, <1>2, <1>3, <1>4 DEF CallStates

LEMMA OlderAge ==
  ASSUME NEW bound \in Nat, NEW age \in Ages(bound)
  PROVE  /\ Older(age, bound) \in Ages(bound)
         /\ Older(age, bound) = Never <=> age = Never
  BY DEF Ages, Older, Never

\* Two ages that are counted up to their bounds keep their distance or reach the bound.
LEMMA OlderKeepsOrder ==
  ASSUME NEW bound \in Nat, NEW early \in Nat,
         NEW age \in 0..bound, NEW later \in 0..(early + bound), later >= early + age
  PROVE  Older(later, early + bound) >= early + Older(age, bound)
  BY DEF Older

LEMMA MadeAges ==
  /\ Warmup \in Nat /\ Sustain \in Nat /\ Grace \in Nat /\ Silence \in Nat /\ Grace + Silence \in Nat
  /\ Warmup \in Ages(Warmup) /\ Warmup # Never /\ 0 # Never
  /\ \A bound \in Nat : 0 \in Ages(bound) /\ Never \in Ages(bound)
  /\ Noticed \in Ages(Silence) /\ (~torn => Noticed = 0)
  BY TimeAssumption DEF TimeAssumption, Ages, Never, Noticed

LEMMA MadeRecords ==
  /\ NoHandler \in Handlers /\ NoHandler.at = "none" /\ NoMonitor.age = Never
  /\ NoMonitor \in Monitors /\ \A a \in Apps : NewMonitor(a) \in Monitors /\ NewMonitor(a).age = 0
  /\ NotSustained.app = None
  BY MadeStates, MadeAges DEF Handlers, NoHandler, NoMonitor, NewMonitor, NotSustained, Monitors

-----------------------------------------------------------------------------
(* The world and the time                                                  *)

LEMMA WorldInv == Inv /\ World => Inv'
  <1> SUFFICES ASSUME Inv, World PROVE Inv'
    OBVIOUS
  <1> USE DEF Inv, Always
  <1>1. UNCHANGED <<control, state, isMicActive, timers, handler, quietAge>>
    BY DEF World, AppLaunches, AppQuits
  <1>2. CASE AppQuits
    <2> PICK a \in running : /\ running' = running \ {a}
                             /\ monitors' = [monitors EXCEPT ![a].live = FALSE]
      BY <1>2 DEF AppQuits
    <2> a \in Apps
      BY DEF TypeOK
    <2>1. \A b \in Apps : monitors'[b].age = monitors[b].age
      BY DEF TypeOK
    <2>2. monitors' \in [Apps -> [live : BOOLEAN, age : Ages(Warmup), callLike : BOOLEAN]]
      BY DEF TypeOK
    <2>3. \A b \in Apps : b \in Monitored <=> b \in Monitored'
      <3> TAKE b \in Apps
      <3>1. CASE b # a
        BY <3>1 DEF Monitored, TypeOK
      <3>2. CASE b = a
        <4>0. monitors'[a] = [monitors[a] EXCEPT !.live = FALSE]
          BY DEF TypeOK
        <4> DEFINE m == monitors[a]
        <4> HIDE DEF m
        <4>1. ASSUME m = NoMonitor PROVE [m EXCEPT !.live = FALSE] = NoMonitor
          <5>1. m \in [live : BOOLEAN, age : Ages(Warmup), callLike : BOOLEAN]
            BY DEF TypeOK, m
          <5>2. m.live = FALSE
            BY <4>1 DEF NoMonitor
          <5>3. [m EXCEPT !.live = FALSE] = m
            BY <5>1, <5>2
          <5> QED BY <4>1, <5>3
        <4>2. monitors[a] # NoMonitor => monitors[a].age # Never
          BY DEF HandlerRuns, Monitored
        <4>3. NoMonitor.age = Never
          BY DEF NoMonitor
        <4> QED BY <2>1, <3>2, <4>0, <4>1, <4>2, <4>3 DEF Monitored, m
      <3> QED BY <3>1, <3>2
    <2>4. Monitored' = Monitored
      BY <2>3 DEF Monitored
    <2>5. TypeOK'
      BY <1>1, <2>2 DEF TypeOK, control, timers
    <2>6. SustainedIsMonitored' /\ HandlerRuns'
      BY <1>1, <2>1, <2>4 DEF SustainedIsMonitored, HandlerRuns, timers, Monitored
    <2>7. Coherent => Coherent'
      BY <1>1, <2>4 DEF Coherent, HandlerFresh, StopsClear, TimersMatchState, AgesOrdered, control, timers
    <2> QED BY <1>1, <2>5, <2>6, <2>7 DEF control
  <1>3. CASE AppLaunches
    <2>1. monitors' = monitors /\ Monitored' = Monitored
      BY <1>3 DEF AppLaunches, Monitored
    <2>2. TypeOK'
      BY <1>1, <1>3, <2>1 DEF TypeOK, AppLaunches, control, timers
    <2>3. SustainedIsMonitored' /\ HandlerRuns'
      BY <1>1, <2>1 DEF SustainedIsMonitored, HandlerRuns, timers
    <2>4. Coherent => Coherent'
      BY <1>1, <2>1 DEF Coherent, HandlerFresh, StopsClear, TimersMatchState, AgesOrdered, control, timers
    <2> QED BY <1>1, <2>2, <2>3, <2>4 DEF control
  <1> QED BY <1>2, <1>3 DEF World

LEMMA TickInv == Inv /\ Tick => Inv'
  <1> SUFFICES ASSUME Inv, Tick PROVE Inv'
    OBVIOUS
  <1> USE TimeAssumption DEF Inv, Always
  <1>1. /\ Warmup \in Nat /\ Sustain \in Nat /\ Grace \in Nat /\ Silence \in Nat
        /\ Grace + Silence \in Nat
    BY DEF TimeAssumption
  <1>2. \A a \in Apps : /\ monitors'[a] = [monitors[a] EXCEPT !.age = Older(@, Warmup)]
                        /\ monitors[a] \in [live : BOOLEAN, age : Ages(Warmup), callLike : BOOLEAN]
    BY DEF Tick, TypeOK
  <1>3. \A a \in Apps : /\ monitors'[a] \in [live : BOOLEAN, age : Ages(Warmup), callLike : BOOLEAN]
                        /\ monitors'[a].age = Never <=> monitors[a].age = Never
                        /\ monitors[a] = NoMonitor => monitors'[a] = NoMonitor
    <2> TAKE a \in Apps
    <2>1. monitors[a].age \in Ages(Warmup)
      BY <1>2
    <2>2. /\ Older(monitors[a].age, Warmup) \in Ages(Warmup)
          /\ Older(monitors[a].age, Warmup) = Never <=> monitors[a].age = Never
      BY <1>1, <2>1, OlderAge
    <2> DEFINE m == monitors[a]
    <2>3. monitors'[a] = [m EXCEPT !.age = Older(m.age, Warmup)]
      BY <1>2
    <2>4. m \in [live : BOOLEAN, age : Ages(Warmup), callLike : BOOLEAN]
      BY <1>2
    <2>5. Older(Never, Warmup) = Never
      BY <1>1 DEF Older, Never
    <2> HIDE DEF m
    <2>6. /\ monitors'[a] \in [live : BOOLEAN, age : Ages(Warmup), callLike : BOOLEAN]
          /\ monitors'[a].age = Older(m.age, Warmup)
      BY <2>2, <2>3, <2>4 DEF m
    <2>7. ASSUME m = NoMonitor PROVE monitors'[a] = NoMonitor
      BY <2>3, <2>5, <2>7 DEF NoMonitor
    <2> QED BY <2>2, <2>6, <2>7 DEF m
  <1>4. monitors' = [a \in Apps |-> monitors'[a]]
    BY DEF Tick
  <1>5. \A a \in Apps : a \in Monitored <=> a \in Monitored'
    <2> TAKE a \in Apps
    <2>1. NoMonitor.age = Never
      BY DEF NoMonitor
    <2>2. monitors[a] # NoMonitor => monitors[a].age # Never
      BY DEF HandlerRuns, Monitored
    <2>3. monitors'[a].age # Never => monitors'[a] # NoMonitor
      BY <2>1
    <2> QED BY <1>3, <2>2, <2>3 DEF Monitored
  <1>6. Monitored' = Monitored
    BY <1>5 DEF Monitored
  <1>7. /\ silenceAge' = Older(silenceAge, Silence) /\ silenceAge \in Ages(Silence)
        /\ callAge' = Older(callAge, Grace + Silence) /\ callAge \in Ages(Grace + Silence)
        /\ quietAge' = Older(quietAge, Silence) /\ quietAge \in Ages(Silence)
    BY DEF Tick, TypeOK
  <1>8. /\ silenceAge' \in Ages(Silence) /\ (silenceAge' = Never <=> silenceAge = Never)
        /\ callAge' \in Ages(Grace + Silence) /\ (callAge' = Never <=> callAge = Never)
        /\ quietAge' \in Ages(Silence) /\ (quietAge' = Never <=> quietAge = Never)
    BY <1>1, <1>7, OlderAge
  <1>9. /\ sustained' \in {NotSustained} \cup [app : Apps, age : 0..Sustain]
        /\ sustained'.app = sustained.app
        /\ sustained = NotSustained => sustained' = NotSustained
    <2>1. sustained' = [sustained EXCEPT !.age = Older(@, Sustain)]
      BY DEF Tick
    <2>2. CASE sustained = NotSustained
      <3>1. Older(Never, Sustain) = Never
        BY <1>1 DEF Older, Never
      <3> QED BY <2>1, <2>2, <3>1 DEF NotSustained
    <2>3. CASE sustained \in [app : Apps, age : 0..Sustain]
      <3>1. Older(sustained.age, Sustain) \in 0..Sustain
        BY <1>1, <2>3 DEF Older
      <3>2. sustained' = [app |-> sustained.app, age |-> Older(sustained.age, Sustain)]
        BY <2>1, <2>3
      <3>3. sustained # NotSustained
        BY <1>1, <2>3 DEF NotSustained, Never
      <3> QED BY <2>3, <3>1, <3>2, <3>3
    <2> QED BY <2>2, <2>3 DEF TypeOK
  <1>10. UNCHANGED <<running, detecting, torn, state, isMicActive, handler>>
    BY DEF Tick, control
  <1>11. TypeOK'
    BY <1>3, <1>4, <1>8, <1>9, <1>10 DEF TypeOK
  <1>12. SustainedIsMonitored' /\ HandlerRuns'
    <2>1. \A a \in Monitored' : monitors'[a].age # Never
      BY <1>3, <1>6 DEF HandlerRuns, Monitored
    <2> QED BY <1>6, <1>9, <1>10, <2>1 DEF SustainedIsMonitored, HandlerRuns
  <1>13. Coherent => HandlerFresh' /\ StopsClear'
    BY <1>6, <1>8, <1>9, <1>10 DEF Coherent, HandlerFresh, StopsClear
  <1>14. TimersMatchState => TimersMatchState'
    BY <1>8, <1>10 DEF TimersMatchState
  <1>15. ASSUME AgesOrdered PROVE AgesOrdered'
    <2>1. ASSUME state.kind = "callEnding", silenceAge # Never
          PROVE  quietAge' >= silenceAge' /\ callAge' >= Grace + silenceAge'
      <3>1. quietAge >= silenceAge /\ callAge >= Grace + silenceAge
        BY <1>15, <2>1 DEF AgesOrdered
      <3>2. silenceAge \in 0..Silence
        BY <1>7, <2>1 DEF Ages
      <3>3. quietAge \in 0..(0 + Silence) /\ quietAge >= 0 + silenceAge
        BY <1>1, <1>7, <3>1, <3>2 DEF Ages, Never
      <3>4. callAge \in 0..(Grace + Silence)
        BY <1>1, <1>7, <3>1, <3>2 DEF Ages, Never
      <3>5. Older(quietAge, 0 + Silence) >= 0 + Older(silenceAge, Silence)
        BY <1>1, <3>2, <3>3, OlderKeepsOrder
      <3>6. Older(callAge, Grace + Silence) >= Grace + Older(silenceAge, Silence)
        BY <1>1, <3>1, <3>2, <3>4, OlderKeepsOrder
      <3>7. 0 + Silence = Silence /\ 0 + Older(silenceAge, Silence) = Older(silenceAge, Silence)
        BY <1>1, <3>2 DEF Older
      <3> QED BY <1>7, <3>5, <3>6, <3>7
    <2> QED BY <1>8, <1>10, <1>15, <2>1 DEF AgesOrdered
  <1> QED BY <1>10, <1>11, <1>12, <1>13, <1>14, <1>15 DEF Coherent

-----------------------------------------------------------------------------
(* The main thread                                                         *)

LEMMA MainInv == Inv /\ Main => Inv'
  <1> SUFFICES ASSUME Inv, Main PROVE Inv'
    OBVIOUS
  <1> USE DEF Inv, Always
  <1>1. CASE StartDetecting
    <2>1. Monitored' = Monitored
      BY <1>1 DEF StartDetecting, Monitored
    <2>2. TypeOK'
      BY <1>1 DEF StartDetecting, TypeOK, timers
    <2>3. SustainedIsMonitored' /\ HandlerRuns'
      BY <1>1, <2>1 DEF StartDetecting, SustainedIsMonitored, HandlerRuns, timers
    <2>4. Coherent => Coherent'
      BY <1>1, <2>1 DEF StartDetecting, Coherent, HandlerFresh, StopsClear, TimersMatchState,
           AgesOrdered, timers
    <2> QED BY <1>1, <2>2, <2>3, <2>4 DEF StartDetecting
  <1>2. CASE StopDetecting
    <2>1. Monitored' = {}
      BY <1>2 DEF StopDetecting, Monitored
    <2>2. TypeOK'
      BY <1>2, MadeAges, MadeRecords DEF StopDetecting, TypeOK, Monitors
    <2>3. SustainedIsMonitored' /\ HandlerRuns'
      BY <1>2, <2>1 DEF StopDetecting, SustainedIsMonitored, HandlerRuns, NotSustained
    <2>4. ~torn' => Coherent'
      <3>1. ~torn' => handler' = NoHandler
        BY <1>2 DEF StopDetecting
      <3> QED BY <1>2, <2>1, <3>1, MadeRecords DEF StopDetecting, Coherent, HandlerFresh, StopsClear
    <2> QED BY <2>2, <2>3, <2>4
  <1>3. CASE StopReportsIdle
    <2>1. Monitored' = Monitored
      BY <1>3 DEF StopReportsIdle, Monitored
    <2>2. TypeOK'
      BY <1>3, MadeStates DEF StopReportsIdle, TypeOK, timers
    <2>3. SustainedIsMonitored' /\ HandlerRuns'
      BY <1>3, <2>1 DEF StopReportsIdle, SustainedIsMonitored, HandlerRuns, timers
    <2>4. ASSUME ~torn' PROVE Coherent'
      <3>1. Coherent /\ handler = NoHandler /\ silenceAge = Never /\ callAge = Never
        BY <1>3, <2>4 DEF StopReportsIdle, Coherent, HandlerFresh, StopsClear
      <3> QED BY <1>3, <2>1, <3>1, MadeStates, MadeRecords DEF StopReportsIdle, Coherent, HandlerFresh,
                 StopsClear, TimersMatchState, AgesOrdered, timers
    <2> QED BY <2>2, <2>3, <2>4
  <1> QED BY <1>1, <1>2, <1>3 DEF Main

-----------------------------------------------------------------------------
(* The queue                                                               *)

\* A poll or an audio level begins: only the handler changes.
LEMMA BeginInv == Inv /\ (Poll \/ \E a \in Apps : AudioLevel(a)) => Inv'
  <1> SUFFICES ASSUME Inv, Poll \/ \E a \in Apps : AudioLevel(a) PROVE Inv'
    OBVIOUS
  <1> USE DEF Inv, Always
  <1>1. UNCHANGED <<running, control, state, monitors, isMicActive, timers, quietAge>>
    BY DEF Poll, AudioLevel
  <1>2. Monitored' = Monitored
    BY <1>1 DEF Monitored
  <1>3. /\ handler' \in Handlers /\ handler'.at \in {"monitors", "audio"}
        /\ handler'.at = "audio" => handler'.seen = state /\ handler'.app \in Apps
        /\ Coherent => detecting = "on"
    <2>1. CASE Poll
      <3>1. handler' = [at |-> "monitors", found |-> running, app |-> None, callLike |-> FALSE, seen |-> NoCall]
        BY <2>1 DEF Poll, NoHandler
      <3> QED BY <2>1, <3>1, MadeStates DEF Poll, TypeOK, Handlers
    <2>2. ASSUME NEW a \in Apps, AudioLevel(a)
          PROVE  /\ handler' \in Handlers /\ handler'.at = "audio"
                 /\ handler'.seen = state /\ handler'.app \in Apps /\ (Coherent => detecting = "on")
      <3>1. PICK like \in {monitors[a].callLike, monitors[a].live, FALSE} :
              handler' = [at |-> "audio", found |-> {}, app |-> a, callLike |-> like, seen |-> state]
        BY <2>2 DEF AudioLevel, NoHandler
      <3>2. like \in BOOLEAN
        BY DEF TypeOK
      <3> QED BY <2>2, <3>1, <3>2 DEF AudioLevel, TypeOK, Handlers, Coherent, StopsClear
    <2> QED BY <2>1, <2>2
  <1>4. TypeOK'
    BY <1>1, <1>3 DEF TypeOK, Handlers, control, timers
  <1>5. SustainedIsMonitored' /\ HandlerRuns'
    BY <1>1, <1>2, <1>3 DEF SustainedIsMonitored, HandlerRuns, timers
  <1>6. Coherent => Coherent'
    BY <1>1, <1>2, <1>3 DEF Coherent, HandlerFresh, StopsClear, TimersMatchState, AgesOrdered, control, timers
  <1> QED BY <1>1, <1>4, <1>5, <1>6 DEF control

LEMMA PollMonitorsInv == Inv /\ PollMonitors => Inv'
  <1> SUFFICES ASSUME Inv, PollMonitors PROVE Inv'
    OBVIOUS
  <1> USE DEF Inv, Always
  <1>1. PICK made \in SUBSET (handler.found \ Monitored) :
          monitors' = [a \in Apps |-> IF a \in made THEN NewMonitor(a)
                                      ELSE IF a \in handler.found THEN monitors[a] ELSE NoMonitor]
    BY DEF PollMonitors
  <1>2. monitors' \in [Apps -> Monitors]
    BY <1>1, MadeRecords DEF TypeOK, Monitors
  <1>3. \A a \in Apps : monitors'[a] # NoMonitor =>
          monitors'[a] = NewMonitor(a) \/ (a \in Monitored /\ monitors'[a] = monitors[a])
    BY <1>1 DEF Monitored
  <1>4. \A a \in Monitored' : monitors'[a].age # Never
    BY <1>3, MadeRecords, MadeAges DEF Monitored, HandlerRuns
  <1>5. Monitored \cap handler.found \subseteq Monitored'
    BY <1>1 DEF Monitored
  <1>6. /\ sustained' \in {sustained, NotSustained}
        /\ sustained' = sustained => sustained.app \notin Monitored \ handler.found \/ sustained = NotSustained
    BY DEF PollMonitors
  <1>7. handler' = [handler EXCEPT !.at = "apps"] /\ handler.at = "monitors"
    BY DEF PollMonitors
  <1>8. UNCHANGED <<running, control, state, silenceAge, callAge, quietAge>> /\ isMicActive' \in BOOLEAN
    BY DEF PollMonitors
  <1>9. TypeOK' /\ handler'.at = "apps"
    BY <1>2, <1>6, <1>7, <1>8 DEF TypeOK, control, Monitors
  <1>10. SustainedIsMonitored' /\ HandlerRuns'
    BY <1>4, <1>5, <1>6, <1>8, <1>9 DEF SustainedIsMonitored, NotSustained, HandlerRuns
  <1>11. ASSUME Coherent PROVE Coherent'
    <2>1. detecting = "on"
      BY <1>7, <1>11, MadeRecords DEF Coherent, HandlerFresh
    <2> QED BY <1>8, <1>9, <1>11, <2>1 DEF Coherent, HandlerFresh, StopsClear, TimersMatchState,
               AgesOrdered, control
  <1> QED BY <1>8, <1>9, <1>10, <1>11 DEF control

LEMMA PollAppsInv == Inv /\ PollApps => Inv'
  <1> SUFFICES ASSUME Inv, PollApps PROVE Inv'
    OBVIOUS
  <1> USE DEF Inv, Always
  <1>1. /\ UNCHANGED <<running, control, monitors, isMicActive>> /\ Monitored' = Monitored
        /\ handler.at = "apps" /\ handler # NoHandler
    BY DEF PollApps, Monitored, NoHandler
  <1>2. Coherent => detecting = "on"
    BY <1>1 DEF Coherent, HandlerFresh
  <1>3. CASE state # NoCall /\ state' = NoCall
             /\ sustained' = NotSustained /\ silenceAge' = Never /\ callAge' = Never
             /\ quietAge' = Never /\ handler' = NoHandler
    <2>1. TypeOK'
      BY <1>1, <1>3, MadeStates, MadeAges, MadeRecords DEF TypeOK, control, Handlers
    <2>2. SustainedIsMonitored' /\ HandlerRuns'
      BY <1>1, <1>3, MadeRecords DEF SustainedIsMonitored, HandlerRuns
    <2>3. Coherent => Coherent'
      BY <1>1, <1>2, <1>3, MadeStates, MadeRecords DEF Coherent, HandlerFresh, StopsClear,
           TimersMatchState, AgesOrdered, control
    <2> QED BY <1>1, <2>1, <2>2, <2>3 DEF control
  <1>4. CASE handler' = NoHandler /\ UNCHANGED <<state, timers, quietAge>>
    <2>1. TypeOK'
      BY <1>1, <1>4, MadeRecords DEF TypeOK, control, timers, Handlers
    <2>2. SustainedIsMonitored' /\ HandlerRuns'
      BY <1>1, <1>4, MadeRecords DEF SustainedIsMonitored, HandlerRuns, timers
    <2>3. Coherent => Coherent'
      BY <1>1, <1>2, <1>4, MadeRecords DEF Coherent, HandlerFresh, StopsClear, TimersMatchState,
           AgesOrdered, timers, control
    <2> QED BY <1>1, <2>1, <2>2, <2>3 DEF control
  <1>5. CASE /\ \E a \in handler.found : state' = IF state = NoCall THEN AppRunning(a) ELSE state
             /\ handler' = [NoHandler EXCEPT !.at = "mic", !.seen = state']
             /\ UNCHANGED <<timers, quietAge>>
    <2>1. PICK a \in handler.found : state' = IF state = NoCall THEN AppRunning(a) ELSE state
      BY <1>5
    <2>2. a \in Apps
      BY DEF TypeOK
    <2>3. /\ state' \in CallStates
          /\ state' = state \/ (state.kind = "idle" /\ state'.kind = "appRunning")
      BY <2>1, <2>2, MadeStates DEF TypeOK
    <2>4. handler' = [at |-> "mic", found |-> {}, app |-> None, callLike |-> FALSE, seen |-> state']
      BY <1>5 DEF NoHandler
    <2>5. handler' \in Handlers /\ handler'.at = "mic" /\ handler'.seen = state'
      BY <2>3, <2>4 DEF Handlers
    <2>6. TypeOK'
      BY <1>1, <1>5, <2>3, <2>5 DEF TypeOK, control, timers, Handlers
    <2>7. SustainedIsMonitored' /\ HandlerRuns'
      BY <1>1, <1>5, <2>5 DEF SustainedIsMonitored, HandlerRuns, timers
    <2>8. Coherent => Coherent'
      BY <1>1, <1>2, <1>5, <2>3, <2>5 DEF Coherent, HandlerFresh, StopsClear, TimersMatchState,
           AgesOrdered, timers, control
    <2> QED BY <1>1, <2>6, <2>7, <2>8 DEF control
  <1> QED BY <1>3, <1>4, <1>5 DEF PollApps

LEMMA PollMicInv == Inv /\ PollMic => Inv'
  <1> SUFFICES ASSUME Inv, PollMic PROVE Inv'
    OBVIOUS
  <1> USE DEF Inv, Always
  <1>1. /\ UNCHANGED <<running, control, monitors, isMicActive, sustained, silenceAge>>
        /\ Monitored' = Monitored /\ handler' = NoHandler
        /\ handler.at = "mic" /\ handler # NoHandler
    BY DEF PollMic, Monitored, NoHandler
  <1>2. Coherent => detecting = "on" /\ handler.seen = state
    BY <1>1 DEF Coherent, HandlerFresh
  <1>3. SustainedIsMonitored' /\ HandlerRuns'
    BY <1>1, MadeRecords DEF SustainedIsMonitored, HandlerRuns
  <1>4. CASE handler.seen.kind = "appRunning" /\ state' = Active(handler.seen.app)
             /\ callAge' = 0 /\ quietAge' = Noticed
    <2>1. handler.seen \in CallStates
      BY DEF TypeOK
    <2>2. handler.seen.app \in Apps
      BY <1>4, <2>1, StateKinds, MadeStates
    <2>3. state' \in CallStates /\ state'.kind = "callActive"
      BY <1>4, <2>2, MadeStates
    <2>4. TypeOK'
      BY <1>1, <1>4, <2>3, MadeAges, MadeRecords DEF TypeOK, control, Handlers
    <2>5. ASSUME Coherent, ~torn PROVE Coherent'
      <3>1. state.kind = "appRunning" /\ quietAge' = 0
        BY <1>2, <1>4, <2>5, MadeAges
      <3> QED BY <1>1, <1>2, <1>4, <2>3, <2>5, <3>1, MadeAges, MadeRecords DEF Coherent, HandlerFresh,
                 StopsClear, TimersMatchState, AgesOrdered, control
    <2> QED BY <1>1, <1>3, <2>4, <2>5 DEF control
  <1>5. CASE UNCHANGED <<state, callAge, quietAge>>
    <2>1. TypeOK'
      BY <1>1, <1>5, MadeRecords DEF TypeOK, control, Handlers
    <2>2. Coherent => Coherent'
      BY <1>1, <1>2, <1>5, MadeRecords DEF Coherent, HandlerFresh, StopsClear, TimersMatchState,
           AgesOrdered, control
    <2> QED BY <1>1, <1>3, <2>1, <2>2 DEF control
  <1> QED BY <1>4, <1>5 DEF PollMic

\* What an audio level of app a may do to the state and its timers, if it acts on state s.
HearStep(a, s) ==
  \/ UNCHANGED <<state, silenceAge, callAge, quietAge>>
     /\ sustained' \in {sustained, NotSustained, [app |-> a, age |-> 0]}
  \/ /\ s.kind = "appRunning" /\ state' = Active(a)
     /\ callAge' = 0 /\ quietAge' = Noticed /\ silenceAge' = Never /\ sustained' = NotSustained
  \/ /\ s = Active(a) /\ state' = Ending(a) /\ callAge \notin 0..Grace-1
     /\ silenceAge' = (IF silenceAge = Never THEN 0 ELSE silenceAge)
     /\ UNCHANGED <<sustained, callAge, quietAge>>
  \/ /\ s.kind = "callActive" /\ quietAge' \in {Noticed, quietAge}
     /\ UNCHANGED <<state, sustained, silenceAge, callAge>>
  \/ /\ s = Ending(a) /\ state' = Active(a)
     /\ silenceAge' = Never /\ quietAge' = Noticed /\ UNCHANGED <<sustained, callAge>>
  \/ /\ s = Ending(a) /\ silenceAge >= Silence /\ state' = AppRunning(a)
     /\ silenceAge' = Never /\ callAge' = Never /\ quietAge' = Never /\ UNCHANGED sustained

LEMMA AudioHears ==
  ASSUME TypeOK, HandlerRuns, AudioDecide
  PROVE  handler.app \in Apps /\ HearStep(handler.app, handler.seen)
  <1> DEFINE a == handler.app
             s == handler.seen
  <1>1. a \in Apps
    BY DEF AudioDecide, HandlerRuns
  <1>2. s \in CallStates
    BY DEF TypeOK
  <1>3. /\ s.kind = "callActive" => s = Active(s.app)
        /\ s.kind = "callEnding" => s = Ending(s.app)
    BY <1>2, StateKinds
  <1>4. CASE HearRunning(a)
    BY <1>1, <1>4 DEF HearRunning, HearStep, timers
  <1>5. CASE HearActive(a)
    BY <1>1, <1>3, <1>5 DEF HearActive, HearStep
  <1>6. CASE HearEnding(a)
    BY <1>1, <1>3, <1>6 DEF HearEnding, HearStep
  <1>7. CASE UNCHANGED <<state, timers, quietAge>>
    BY <1>1, <1>7 DEF HearStep, timers
  <1>8. HearRunning(a) \/ HearActive(a) \/ HearEnding(a) \/ UNCHANGED <<state, timers, quietAge>>
    BY DEF AudioDecide
  <1> QED BY <1>4, <1>5, <1>6, <1>7, <1>8

LEMMA AudioDecideInv == Inv /\ AudioDecide => Inv'
  <1> SUFFICES ASSUME Inv, AudioDecide PROVE Inv'
    OBVIOUS
  <1> USE DEF Inv, Always
  <1> DEFINE a == handler.app
             s == handler.seen
  <1>0. a \in Apps /\ HearStep(a, s)
    BY AudioHears
  <1>1. /\ UNCHANGED <<running, control, isMicActive>> /\ handler' = NoHandler
        /\ handler.at = "audio" /\ handler # NoHandler
        /\ monitors' = [monitors EXCEPT ![a] = [live |-> @.live, age |-> Warmup, callLike |-> CallLike]]
    BY DEF AudioDecide, NoHandler
  <1>2. CallLike \in BOOLEAN
    BY DEF CallLike, TypeOK
  <1>3. /\ monitors' \in [Apps -> Monitors]
        /\ monitors'[a].age = Warmup
        /\ \A b \in Apps \ {a} : monitors'[b] = monitors[b]
    BY <1>0, <1>1, <1>2, MadeAges DEF TypeOK, Monitors
  <1>4. Monitored' = Monitored \cup {a}
    BY <1>0, <1>3, MadeAges, MadeRecords DEF Monitored
  <1>5. \A b \in Monitored' : monitors'[b].age # Never
    BY <1>3, <1>4, MadeAges DEF HandlerRuns, Monitored
  <1>6. /\ Active(a) \in CallStates /\ Ending(a) \in CallStates /\ AppRunning(a) \in CallStates
        /\ Active(a).kind = "callActive" /\ Ending(a).kind = "callEnding"
        /\ AppRunning(a).kind = "appRunning"
    BY <1>0, MadeStates
  <1>7. [app |-> a, age |-> 0] \in [app : Apps, age : 0..Sustain]
    BY <1>0, MadeAges
  <1>8. TypeOK'
    BY <1>0, <1>1, <1>3, <1>6, <1>7, MadeAges, MadeRecords DEF HearStep, TypeOK, control, Monitors, Handlers
  <1>9. SustainedIsMonitored' /\ HandlerRuns'
    <2>1. sustained' \in {sustained, NotSustained, [app |-> a, age |-> 0]}
      BY <1>0 DEF HearStep
    <2>2. SustainedIsMonitored'
      BY <1>4, <2>1, MadeRecords DEF SustainedIsMonitored
    <2> QED BY <1>1, <1>5, <2>2, MadeRecords DEF HandlerRuns
  <1>10. ASSUME Coherent, ~torn PROVE Coherent'
    <2>1. detecting = "on" /\ s = state /\ Noticed = 0 /\ TimersMatchState /\ AgesOrdered
      BY <1>1, <1>10, MadeAges DEF Coherent, HandlerFresh
    <2>2. HandlerFresh' /\ StopsClear'
      BY <1>1, <2>1, MadeRecords DEF HandlerFresh, StopsClear, control
    <2>3. TimersMatchState'
      BY <1>0, <1>6, <2>1, MadeAges DEF HearStep, TimersMatchState
    <2>4. AgesOrdered'
      <3>1. CASE UNCHANGED <<state, silenceAge, callAge, quietAge>>
        BY <2>1, <3>1 DEF AgesOrdered
      <3>2. CASE state'.kind \notin {"callActive", "callEnding"}
        BY <3>2 DEF AgesOrdered
      <3>3. CASE state'.kind = "callActive" /\ quietAge' # Never
        BY <3>3 DEF AgesOrdered
      <3>4. CASE /\ s = Active(a) /\ state' = Ending(a) /\ callAge \notin 0..Grace-1
                 /\ silenceAge' = (IF silenceAge = Never THEN 0 ELSE silenceAge)
                 /\ UNCHANGED <<sustained, callAge, quietAge>>
        <4>1. quietAge # Never /\ silenceAge = Never /\ callAge # Never
          BY <1>6, <2>1, <3>4 DEF AgesOrdered, TimersMatchState
        <4>2. quietAge >= 0 /\ callAge >= Grace /\ Grace \in Nat
          BY <3>4, <4>1, MadeAges DEF TypeOK, Ages
        <4>3. silenceAge' = 0 /\ quietAge' >= 0 /\ callAge' >= Grace + 0
          BY <3>4, <4>1, <4>2
        <4> QED BY <1>6, <3>4, <4>1, <4>3 DEF AgesOrdered
      <3> QED BY <1>0, <1>6, <2>1, <3>1, <3>2, <3>3, <3>4, MadeAges DEF HearStep, AgesOrdered
    <2> QED BY <2>2, <2>3, <2>4 DEF Coherent
  <1> QED BY <1>1, <1>8, <1>9, <1>10 DEF control

-----------------------------------------------------------------------------
(* The theorems                                                            *)

LEMMA StepInv == Inv /\ [Next]_vars => Inv'
  <1> SUFFICES ASSUME Inv, [Next]_vars PROVE Inv'
    OBVIOUS
  <1>1. CASE UNCHANGED vars
    BY <1>1 DEF vars, control, timers, Inv, Always, Coherent, TypeOK, TimersMatchState,
         SustainedIsMonitored, HandlerRuns, HandlerFresh, StopsClear, AgesOrdered, Monitored
  <1> QED BY <1>1, WorldInv, TickInv, MainInv, BeginInv, PollMonitorsInv, PollAppsInv, PollMicInv,
            AudioDecideInv DEF Next, Handler

LEMMA Invariant == Spec => []Inv
  BY InitInv, StepInv, PTL DEF Spec

\* Activity is counted only for an app that is listened to; and unless the last stop has
\* overtaken a handler, each timer is set exactly in the states it belongs to.
THEOREM TimersTogether == Spec => []DetectorInv
  <1>1. Inv => DetectorInv
    BY DEF Inv, Always, Coherent, DetectorInv
  <1> QED BY <1>1, Invariant, PTL

\* The changes of state that are reported are those the Orchestrator assumes, and those of a
\* handler that acts on a state which a stop has reset.
THEOREM ReportsAssumed == Spec => ReportsAsAssumed
  <1>1. Inv /\ [Next]_vars => [DetectorStep(state, state') \/ Overtaken]_state
    <2> SUFFICES ASSUME Inv, [Next]_vars, state' # state, ~Overtaken PROVE DetectorStep(state, state')
      OBVIOUS
    <2>0. state \in CallStates /\ TypeOK /\ HandlerRuns
      BY DEF Inv, Always, TypeOK
    <2>1. CASE PollApps
      <3>1. handler.found \subseteq Apps
        BY <2>0 DEF TypeOK
      <3> QED BY <2>1, <3>1 DEF PollApps, DetectorStep
    <2>2. ASSUME handler.at \in {"mic", "audio"} PROVE handler.seen = state
      BY <2>0, <2>2 DEF HandlerRuns, Overtaken
    <2>3. CASE PollMic
      <3>1. state.kind = "appRunning" /\ state' = Active(state.app)
        BY <2>2, <2>3 DEF PollMic
      <3>2. state.app \in Apps
        BY <2>0, <3>1, StateKinds, MadeStates
      <3> QED BY <3>1, <3>2 DEF DetectorStep
    <2>4. CASE AudioDecide
      <3> DEFINE a == handler.app
      <3>1. HearStep(a, state) /\ a \in Apps
        BY <2>0, <2>2, <2>4, AudioHears DEF AudioDecide
      <3>2. Active(a).kind = "callActive" /\ Ending(a).kind = "callEnding"
        BY <3>1, MadeStates
      <3>3. Active(a).app = a /\ Ending(a).app = a
        BY DEF Active, Ending
      <3> QED BY <3>1, <3>2, <3>3 DEF HearStep, DetectorStep
    <2>5. CASE StopReportsIdle
      BY <2>5 DEF StopReportsIdle, DetectorStep
    <2> QED BY <2>1, <2>3, <2>4, <2>5 DEF Next, World, Main, Handler, AppLaunches, AppQuits, Tick,
                 StartDetecting, StopDetecting, Poll, PollMonitors, AudioLevel, vars
  <1> QED BY <1>1, Invariant, PTL DEF Spec, ReportsAsAssumed

\* Unless the last stop has overtaken a handler, a call is not ended by silence while something
\* was heard less than the time-out ago, nor within its grace period.
THEOREM SilenceEndsCalls == Spec => EndsOnlyAfterSilence
  <1>1. Inv /\ [Next]_vars =>
          [state.kind = "callEnding" /\ state'.kind = "appRunning"
             => torn \/ (quietAge \notin 0..Silence-1 /\ callAge >= Grace + Silence)]_vars
    <2> SUFFICES ASSUME Inv, [Next]_vars, state.kind = "callEnding", state'.kind = "appRunning", ~torn
                 PROVE  quietAge \notin 0..Silence-1 /\ callAge >= Grace + Silence
      OBVIOUS
    <2>0. /\ state # NoCall /\ state' # state /\ NoCall.kind = "idle"
          /\ TypeOK /\ HandlerRuns /\ Coherent
      BY MadeStates DEF Inv, Always
    <2>1. CASE AudioDecide
      <3> DEFINE a == handler.app
      <3>0. handler.seen = state /\ handler # NoHandler
        BY <2>0, <2>1, MadeRecords DEF Coherent, HandlerFresh, AudioDecide
      <3>1. HearStep(a, state) /\ a \in Apps
        BY <2>0, <2>1, <3>0, AudioHears
      <3>2. Active(a).kind = "callActive" /\ Ending(a).kind = "callEnding"
        BY <3>1, MadeStates
      <3>3. silenceAge >= Silence
        BY <2>0, <3>1, <3>2 DEF HearStep
      <3>4. silenceAge # Never
        BY <3>3, TimeAssumption DEF TimeAssumption, Never
      <3>5. quietAge >= silenceAge /\ callAge >= Grace + silenceAge
        BY <2>0, <3>0, <3>4 DEF Coherent, HandlerFresh, AgesOrdered
      <3>6. silenceAge \in Nat /\ callAge \in Int /\ quietAge \in Int /\ Grace \in Nat /\ Silence \in Nat
        BY <2>0, <3>4, TimeAssumption DEF TypeOK, Ages, Never, TimeAssumption
      <3> QED BY <3>3, <3>5, <3>6
    <2>2. CASE PollApps
      BY <2>0, <2>2 DEF PollApps
    <2>3. CASE PollMic
      <3>1. handler.seen = state
        BY <2>0, <2>3 DEF Coherent, HandlerFresh, PollMic
      <3> QED BY <2>0, <2>3, <3>1 DEF PollMic
    <2>4. CASE StopReportsIdle
      BY <2>0, <2>4 DEF StopReportsIdle
    <2> QED BY <2>0, <2>1, <2>2, <2>3, <2>4 DEF Next, World, Main, Handler, AppLaunches, AppQuits, Tick,
                 StartDetecting, StopDetecting, Poll, PollMonitors, AudioLevel, vars
  <1> QED BY <1>1, Invariant, PTL DEF Spec, EndsOnlyAfterSilence
===============================================================================
