---------------------------- MODULE Orchestrator -----------------------------
(***************************************************************************)
(* The recording lifecycle: CallRecApp/Core/Orchestrator.swift with the    *)
(* parts of its subsystems it drives (SharedMemoryBridge, MicCapture-      *)
(* Manager, AudioTapManager, SystemAudioDeviceManager, VoiceMemos-         *)
(* Controller), and what surrounds it: the call detector, the user's       *)
(* clicks, the audio devices that come and go, Voice Memos, quitting.      *)
(*                                                                         *)
(* Everything of the Orchestrator runs on the main actor, one job at a     *)
(* time in the order in which the jobs were enqueued (mainQueue).  A       *)
(* startRecording or stopRecording that awaits Voice Memos is suspended:   *)
(* other jobs run meanwhile, and its continuation is a job enqueued when   *)
(* Voice Memos has answered.  Code between two awaits is one step.         *)
(*                                                                         *)
(* The detector is represented by the transitions its state can make, each *)
(* reported by onStateChange; when it makes them is left open, and whether *)
(* a stop overtakes one of its handlers, which then reports once more.     *)
(***************************************************************************)
EXTENDS CallState, Naturals, Sequences

CONSTANTS Physical,      \* physical input devices
          Removable,     \* those that can be unplugged
          Virtual,       \* CallRec Virtual Mic; None is kAudioObjectUnknown
          MaxPending     \* bound: jobs waiting when the world adds one

ASSUME DeviceAssumption ==
  /\ Removable \subseteq Physical
  /\ Virtual \notin Physical /\ None \notin Physical \cup {Virtual}

VARIABLES
  state,         \* OrchestratorState, or "exited" when the process is gone
  activeCallApp, \* the app whose call is believed to be active
  lastFailure,   \* the last failed attempt: never, recent (within the cooldown) or old
  mainQueue,     \* jobs waiting for the main actor
  detecting,     \* the detector's poll timer exists
  call,          \* the detector's CallState
  overtaken,     \* a handler of the detector that was running when it was stopped still runs
  bridge,        \* the shared memory region is created
  mic,           \* MicCaptureManager.isRunning
  tap,           \* AudioTapManager.isRunning
  leaked,        \* a process tap or aggregate device nobody will destroy
  defaultInput,  \* the system's default input device
  saved,         \* SystemAudioDeviceManager.savedDefaultInputID
  refused,       \* history: the system refused to make the saved device the default again
  present,       \* physical devices plugged in
  voiceMemos     \* Voice Memos: what the controller waits for and believes, and the truth

lifecycle == <<state, activeCallApp, lastFailure>>
pipeline  == <<bridge, mic, tap, leaked>>
inputs    == <<defaultInput, saved, refused, present>>
detector  == <<detecting, call, overtaken>>
vars == <<lifecycle, mainQueue, detector, pipeline, inputs, voiceMemos>>

Job(do, arg) == [do |-> do, arg |-> arg]
Jobs ==
  {Job("callStateChange", c) : c \in CallStates}
    \cup {Job("startRecording", a) : a \in Apps}
    \cup {Job(do, None) : do \in {"stopRecording", "tearDown", "deviceSwitched", "vmStarted",
                                  "vmStartFailed", "vmStopped", "vmStopFailed"}}

Enqueue(job) == mainQueue' = Append(mainQueue, job)
\* The job at the head runs; it may enqueue another.
Running(do) == mainQueue # <<>> /\ Head(mainQueue).do = do
Argument == Head(mainQueue).arg
Done == mainQueue' = Tail(mainQueue)
DoneThen(job) == mainQueue' = Append(Tail(mainQueue), job)

Waiting(do) == {i \in DOMAIN mainQueue : mainQueue[i].do \in do}
Room == Len(mainQueue) < MaxPending

-----------------------------------------------------------------------------
Init ==
  /\ state = "idle" /\ activeCallApp = None /\ lastFailure = "never"
  /\ mainQueue = <<>>
  /\ detecting = FALSE /\ call = NoCall /\ overtaken = FALSE
  /\ bridge = FALSE /\ mic = FALSE /\ tap = FALSE /\ leaked = FALSE
  /\ present = Physical /\ defaultInput \in Physical /\ saved = None /\ refused = FALSE
  /\ voiceMemos = [awaiting |-> "nothing", isRecording |-> FALSE, recording |-> FALSE,
                   stopFailed |-> FALSE]

(* What the Orchestrator asks of its subsystems *)

\* switchToVirtualMic: the default input is saved, then changed.
SwitchToVirtualMic == saved' = defaultInput /\ defaultInput' = Virtual /\ refused' = FALSE

\* Mutant: the saved device is forgotten without being restored.
RestoreOriginalInputForgets == saved' = None /\ UNCHANGED <<defaultInput, refused>>

\* restoreOriginalInput: the default input goes back to the saved device if that
\* still exists and the system lets it; it is forgotten all the same.
RestoreOriginalInput ==
  /\ saved' = None
  /\ IF saved \in present \cup {Virtual}
       THEN \/ defaultInput' = saved /\ refused' = FALSE
            \/ refused' = TRUE /\ UNCHANGED defaultInput
       ELSE UNCHANGED <<defaultInput, refused>>

\* Both captures stop if they run.
StopCaptures == tap' = FALSE /\ mic' = FALSE

\* switchDevice of a running capture stops it and starts it again, or fails to.
SwitchDevice == mic' \in IF mic THEN BOOLEAN ELSE {FALSE}

\* The steps of the tap's start that may throw when a tap or an aggregate device
\* was made already: it is not "running" then, so nothing destroys them.
TapSteps == {"translatePID", "createProcessTap", "createAggregateDevice", "startIO"}
TapStepsThatLeak == {"createAggregateDevice", "startIO"}

\* tearDown, which runs without suspension.
TearDown ==
  /\ RestoreOriginalInput
  /\ StopCaptures
  /\ bridge' = FALSE
  /\ UNCHANGED <<leaked, present>>

-----------------------------------------------------------------------------
(* The user                                                                *)

\* Start Monitoring, offered in state idle.  The tear-down of the last stop may
\* still wait, but no start of a recording: it would have been enqueued before the
\* click that led to idle, and runs before the next one.
Start ==
  /\ state = "idle" /\ Waiting({"startRecording"}) = {} /\ Room
  /\ state' = "monitoring"
  /\ detecting' = TRUE
  /\ UNCHANGED <<activeCallApp, lastFailure, mainQueue, call, overtaken, pipeline, inputs, voiceMemos>>

\* Stop Monitoring, offered in state monitoring.  The tear-down is only
\* enqueued; the detector reports a last change to idle, unless one of its
\* handlers still runs.
Stop ==
  /\ state = "monitoring"
  /\ state' = "idle"
  /\ mainQueue' = Append(mainQueue, Job("tearDown", None))
                    \o IF call = NoCall THEN <<>> ELSE <<Job("callStateChange", NoCall)>>
  /\ detecting' = FALSE /\ call' = NoCall /\ overtaken' \in BOOLEAN
  /\ UNCHANGED <<activeCallApp, lastFailure, pipeline, inputs, voiceMemos>>

\* Stop Recording, offered in state recording.
ForceStopRecording ==
  /\ state = "recording" /\ Room
  /\ Enqueue(Job("stopRecording", None))
  /\ UNCHANGED <<lifecycle, detector, pipeline, inputs, voiceMemos>>

\* Quitting runs applicationWillTerminate, which unlinks the shared memory and
\* nothing else; what lives in the process goes with it, the system's default
\* input and Voice Memos stay as they are.
Quit ==
  /\ state # "exited"
  /\ state' = "exited" /\ activeCallApp' = None /\ lastFailure' = "never"
  /\ mainQueue' = <<>>
  /\ detecting' = FALSE /\ call' = NoCall /\ overtaken' = FALSE
  /\ bridge' = FALSE /\ mic' = FALSE /\ tap' = FALSE /\ leaked' = FALSE
  /\ saved' = None /\ refused' = FALSE
  /\ voiceMemos' = [voiceMemos EXCEPT !.awaiting = "nothing", !.isRecording = FALSE]
  /\ UNCHANGED <<defaultInput, present>>

Launch ==
  /\ state = "exited"
  /\ state' = "idle"
  /\ UNCHANGED <<activeCallApp, lastFailure, mainQueue, detector, pipeline, inputs, voiceMemos>>

-----------------------------------------------------------------------------
(* The call detector and the devices                                       *)

\* A handler that a stop has overtaken acts on the state it has seen before, which
\* the stop has reset; a poll that then reports a running app may report its call.
LateStep(from, to) ==
  \/ from = NoCall /\ to # NoCall
  \/ from.kind = "appRunning" /\ to = Active(from.app)

\* Each transition of the detector's state is reported (setupCallDetectorBindings).
\* Its handlers run one after the other: a late one ends before the next begins.
CallStateChanges ==
  /\ Room
  /\ \E to \in CallStates :
       /\ \/ detecting /\ DetectorStep(call, to) /\ overtaken' = FALSE
          \/ overtaken /\ LateStep(call, to) /\ overtaken' = (to.kind = "appRunning")
       /\ call' = to
       /\ Enqueue(Job("callStateChange", to))
  /\ UNCHANGED <<lifecycle, detecting, pipeline, inputs, voiceMemos>>

\* A device is unplugged.  The system picks another default if it was the
\* default; if it was the active device and devices are being monitored, the
\* Bluetooth handler selects a fallback and announces the switch.
DeviceRemoved ==
  /\ Room
  /\ \E d \in Removable \cap present :
       /\ present' = present \ {d}
       /\ defaultInput' \in IF defaultInput = d THEN present' ELSE {defaultInput}
       /\ \/ detecting /\ Enqueue(Job("deviceSwitched", None))
          \/ UNCHANGED mainQueue
  /\ UNCHANGED <<lifecycle, detector, pipeline, saved, refused, voiceMemos>>

DeviceAdded ==
  /\ \E d \in Physical \ present : present' = present \cup {d}
  /\ UNCHANGED <<lifecycle, mainQueue, detector, pipeline, defaultInput, saved, refused, voiceMemos>>

CooldownExpires ==
  /\ lastFailure = "recent" /\ lastFailure' = "old"
  /\ UNCHANGED <<state, activeCallApp, mainQueue, detector, pipeline, inputs, voiceMemos>>

-----------------------------------------------------------------------------
(* Jobs of the main actor                                                  *)

\* Mutant: the end of a call only clears the active app.
HandleCallStateChangeKeepsGoing ==
  /\ Running("callStateChange")
  /\ \/ /\ Argument.kind \in {"idle", "appRunning"}
        /\ activeCallApp' = None
        /\ Done
     \/ /\ Argument.kind = "callActive"
        /\ activeCallApp' = Argument.app
        /\ IF state = "monitoring" /\ lastFailure # "recent"
             THEN DoneThen(Job("startRecording", Argument.app)) ELSE Done
     \/ /\ Argument.kind = "callEnding"
        /\ Done
        /\ UNCHANGED activeCallApp
  /\ UNCHANGED <<state, lastFailure, detector, pipeline, inputs, voiceMemos>>

HandleCallStateChange ==
  /\ Running("callStateChange")
  /\ \/ /\ Argument.kind \in {"idle", "appRunning"}
        /\ activeCallApp' = None
        /\ IF state = "recording" THEN DoneThen(Job("stopRecording", None)) ELSE Done
     \/ /\ Argument.kind = "callActive"
        /\ activeCallApp' = Argument.app
        /\ IF state = "monitoring" /\ lastFailure # "recent"
             THEN DoneThen(Job("startRecording", Argument.app)) ELSE Done
     \/ /\ Argument.kind = "callEnding"
        /\ Done
        /\ UNCHANGED activeCallApp
  /\ UNCHANGED <<state, lastFailure, detector, pipeline, inputs, voiceMemos>>

\* A device switch restarts the mic capture on the fallback; if that fails the
\* error is dropped and the capture stays stopped.
HandleDeviceSwitched ==
  /\ Running("deviceSwitched") /\ Done
  /\ IF state = "recording" THEN SwitchDevice ELSE UNCHANGED mic
  /\ UNCHANGED <<lifecycle, detector, bridge, tap, leaked, inputs, voiceMemos>>

\* Mutant: startRecording without its guard.
StartRecordingUnguarded ==
  /\ Running("startRecording") /\ Done
  /\ state' = "preparing"
  /\ bridge' = TRUE /\ mic' = TRUE /\ tap' = TRUE
  /\ SwitchToVirtualMic
  /\ voiceMemos' = [voiceMemos EXCEPT !.awaiting = "start"]
  /\ UNCHANGED <<activeCallApp, lastFailure, detector, leaked, present>>

\* startRecording up to the await: region, mic, tap, virtual mic, in order.
StartRecordingSuspends ==
  /\ Running("startRecording") /\ Done
  /\ state = "monitoring"
  /\ state' = "preparing"
  /\ bridge' = TRUE /\ mic' = TRUE /\ tap' = TRUE
  /\ SwitchToVirtualMic
  /\ voiceMemos' = [voiceMemos EXCEPT !.awaiting = "start"]
  /\ UNCHANGED <<activeCallApp, lastFailure, detector, leaked, present>>

\* One of the steps throws, and everything set up so far is torn down.  The
\* switch to the virtual mic is the last one: it fails before it has an effect
\* or with one that is undone.
StartRecordingFails ==
  /\ Running("startRecording") /\ Done
  /\ state = "monitoring"
  /\ lastFailure' = "recent" /\ activeCallApp' = None
  /\ \E failed \in {"create", "micCapture", "virtualMic"} \cup TapSteps :
       leaked' = (leaked \/ failed \in TapStepsThatLeak)
  /\ StopCaptures
  /\ bridge' = FALSE
  /\ saved' = None
  /\ UNCHANGED <<state, detector, defaultInput, refused, present, voiceMemos>>

\* Mutant: a start that comes too late cleans up like one that failed.
StartRecordingIgnoredCleans ==
  /\ Running("startRecording") /\ Done
  /\ state # "monitoring"
  /\ TearDown
  /\ UNCHANGED <<lifecycle, detector, voiceMemos>>

StartRecordingIgnored ==
  /\ Running("startRecording") /\ Done
  /\ state # "monitoring"
  /\ UNCHANGED <<lifecycle, detector, pipeline, inputs, voiceMemos>>

\* startRecording continues: Voice Memos records, or could not be started.
VoiceMemosStarted ==
  /\ Running("vmStarted") /\ Done
  /\ state' = "recording"
  /\ UNCHANGED <<activeCallApp, lastFailure, detector, pipeline, inputs, voiceMemos>>

VoiceMemosStartFailed ==
  /\ Running("vmStartFailed") /\ Done
  /\ TearDown
  /\ lastFailure' = "recent" /\ activeCallApp' = None
  /\ state' = "monitoring"
  /\ UNCHANGED <<detector, voiceMemos>>

\* Mutant: the recording is torn down and Voice Memos is not asked to stop.
StopRecordingAlone ==
  /\ Running("stopRecording")
  /\ IF state = "recording"
       THEN state' = "stopping" /\ DoneThen(Job("vmStopped", None))
       ELSE Done /\ UNCHANGED state
  /\ UNCHANGED <<activeCallApp, lastFailure, detector, pipeline, inputs, voiceMemos>>

StopRecording ==
  /\ Running("stopRecording")
  /\ IF state = "recording"
       THEN /\ state' = "stopping"
            /\ IF voiceMemos.isRecording
                 THEN voiceMemos' = [voiceMemos EXCEPT !.awaiting = "stop"] /\ Done
                 ELSE DoneThen(Job("vmStopped", None)) /\ UNCHANGED voiceMemos
       ELSE Done /\ UNCHANGED <<state, voiceMemos>>
  /\ UNCHANGED <<activeCallApp, lastFailure, detector, pipeline, inputs>>

\* stopRecording continues, whether or not Voice Memos could be stopped.
VoiceMemosStopped ==
  /\ Running("vmStopped") \/ Running("vmStopFailed")
  /\ Done
  /\ TearDown
  /\ state' = "monitoring"
  /\ UNCHANGED <<activeCallApp, lastFailure, detector, voiceMemos>>

\* The tear-down that stop() left behind.
RunTearDown ==
  /\ Running("tearDown") /\ Done
  /\ TearDown
  /\ UNCHANGED <<lifecycle, detector, voiceMemos>>

-----------------------------------------------------------------------------
(* Voice Memos, driven by AppleScript or the accessibility API             *)

\* Mutants: the error of an automation call is lost, and nothing resumes.
VoiceMemosSilentStart ==
  /\ voiceMemos.awaiting = "start"
  /\ \/ /\ voiceMemos' = [voiceMemos EXCEPT !.awaiting = "nothing", !.isRecording = TRUE,
                                            !.recording = TRUE, !.stopFailed = FALSE]
        /\ Enqueue(Job("vmStarted", None))
     \/ /\ voiceMemos' = [voiceMemos EXCEPT !.awaiting = "nothing"]
        /\ UNCHANGED mainQueue
  /\ UNCHANGED <<lifecycle, detector, pipeline, inputs>>

VoiceMemosSilentStop ==
  /\ voiceMemos.awaiting = "stop"
  /\ \/ /\ voiceMemos' = [voiceMemos EXCEPT !.awaiting = "nothing", !.isRecording = FALSE,
                                            !.recording = FALSE]
        /\ Enqueue(Job("vmStopped", None))
     \/ /\ voiceMemos' = [voiceMemos EXCEPT !.awaiting = "nothing", !.stopFailed = TRUE]
        /\ UNCHANGED mainQueue
  /\ UNCHANGED <<lifecycle, detector, pipeline, inputs>>

\* Voice Memos is launched and activated, and its record button pressed by
\* AppleScript or else by the accessibility API; any of it may fail.
VoiceMemosAnswersStart ==
  /\ voiceMemos.awaiting = "start"
  /\ \/ /\ voiceMemos' = [voiceMemos EXCEPT !.awaiting = "nothing", !.isRecording = TRUE,
                                            !.recording = TRUE, !.stopFailed = FALSE]
        /\ Enqueue(Job("vmStarted", None))
     \/ /\ voiceMemos' = [voiceMemos EXCEPT !.awaiting = "nothing"]
        /\ Enqueue(Job("vmStartFailed", None))
  /\ UNCHANGED <<lifecycle, detector, pipeline, inputs>>

\* Likewise for the stop button; a failure leaves Voice Memos recording.
VoiceMemosAnswersStop ==
  /\ voiceMemos.awaiting = "stop"
  /\ \/ /\ voiceMemos' = [voiceMemos EXCEPT !.awaiting = "nothing", !.isRecording = FALSE,
                                            !.recording = FALSE]
        /\ Enqueue(Job("vmStopped", None))
     \/ /\ voiceMemos' = [voiceMemos EXCEPT !.awaiting = "nothing", !.stopFailed = TRUE]
        /\ Enqueue(Job("vmStopFailed", None))
  /\ UNCHANGED <<lifecycle, detector, pipeline, inputs>>

-----------------------------------------------------------------------------
User == Start \/ Stop \/ ForceStopRecording \/ Quit \/ Launch
World == CallStateChanges \/ DeviceRemoved \/ DeviceAdded \/ CooldownExpires
MainActor ==
  \/ HandleCallStateChange \/ HandleDeviceSwitched
  \/ StartRecordingSuspends \/ StartRecordingFails \/ StartRecordingIgnored
  \/ VoiceMemosStarted \/ VoiceMemosStartFailed
  \/ StopRecording \/ VoiceMemosStopped \/ RunTearDown
Automation == VoiceMemosAnswersStart \/ VoiceMemosAnswersStop

Next == User \/ World \/ MainActor \/ Automation

Spec == Init /\ [][Next]_vars

\* The main run loop serves its queue, and the automation calls return: they have
\* no time-out of their own (VoiceMemosController.swift:116-124, 188).
FairSpec == Spec /\ WF_vars(MainActor) /\ WF_vars(Automation)

-----------------------------------------------------------------------------
TypeOK ==
  /\ state \in {"idle", "monitoring", "preparing", "recording", "stopping", "exited"}
  /\ activeCallApp \in Apps \cup {None} /\ lastFailure \in {"never", "recent", "old"}
  /\ mainQueue \in Seq(Jobs)
  /\ detecting \in BOOLEAN /\ call \in CallStates /\ overtaken \in BOOLEAN
  /\ {bridge, mic, tap, leaked, refused} \subseteq BOOLEAN
  /\ present \subseteq Physical
  /\ defaultInput \in Physical \cup {Virtual} /\ saved \in Physical \cup {Virtual, None}
  /\ voiceMemos \in [awaiting : {"nothing", "start", "stop"}, isRecording : BOOLEAN,
                     recording : BOOLEAN, stopFailed : BOOLEAN]

Quiet == mainQueue = <<>> /\ voiceMemos.awaiting = "nothing"
InCall == call.kind \in {"callActive", "callEnding"}

\* At most one startRecording or stopRecording is past its guard at any time,
\* although any number of them may be queued while one is suspended: state
\* preparing (stopping) means exactly one suspended start (stop), which waits
\* for Voice Memos or has its continuation queued (Orchestrator.swift:220-289).
OneSuspendedTask ==
  /\ (voiceMemos.awaiting = "start" \/ Waiting({"vmStarted", "vmStartFailed"}) # {})
       <=> state = "preparing"
  /\ (voiceMemos.awaiting = "stop" \/ Waiting({"vmStopped", "vmStopFailed"}) # {})
       <=> state = "stopping"
  /\ \A i, j \in Waiting({"vmStarted", "vmStartFailed", "vmStopped", "vmStopFailed"}) : i = j
  /\ Waiting({"vmStarted", "vmStartFailed", "vmStopped", "vmStopFailed"}) # {}
       => voiceMemos.awaiting = "nothing"

\* The lifecycle state is never at odds with the tasks under way.
LifecycleInv == TypeOK /\ OneSuspendedTask

\* While a recording is prepared, runs or stops, its region, its call tap and
\* the memory of the user's input device are all held: no queued tear-down, no
\* late start or stop takes them away under it (Orchestrator.swift:231-251).
PipelineHeld ==
  state \in {"preparing", "recording", "stopping"} => bridge /\ tap /\ saved # None

\* Outside of that, nothing of it is left behind, also after failures at any
\* step of the set-up (Orchestrator.swift:267, "Clean up partial setup").
PipelineReleased ==
  state \in {"idle", "monitoring"} => ~bridge /\ ~mic /\ ~tap /\ saved = None

\* The pipeline is there exactly as long as the lifecycle needs it.
PipelineFollowsState == PipelineHeld /\ PipelineReleased

\* Voice Memos never records on behalf of a CallRec that has gone back to
\* waiting, unless stopping it failed.
NoOrphanRecording ==
  state \in {"idle", "monitoring"} /\ voiceMemos.recording /\ voiceMemos.isRecording
     => voiceMemos.stopFailed

\* The user's input device, once remembered, is only forgotten by giving it
\* back, unless it was unplugged or the system has refused to make it the default
\* (SystemAudioDeviceManager.swift:55, where the error is dropped): it is never
\* overwritten by a second switch (lines 41-45).
OriginalInputKept ==
  [][(saved \in present /\ saved' # saved /\ state' # "exited")
        => (saved' = None /\ (defaultInput' = saved \/ refused'))]_vars

\* The lifecycle never hangs in a transitional state.
TransitionsEnd ==
  /\ state = "preparing" ~> state # "preparing"
  /\ state = "stopping" ~> state # "stopping"

\* Once CallRec has noticed, while recording, that the call is over, it stops
\* recording.
NoticedEndStops ==
  (state = "recording" /\ Running("callStateChange") /\ Argument.kind \in {"idle", "appRunning"})
     ~> state # "recording"
-----------------------------------------------------------------------------
(* What the source says of the program and the program does not do.         *)

\* "Call app quits -> immediate end", "Sustained audio silence for 60s AND mic
\* inactive -> call ended" (CallDetector.swift:9-11): when everything has
\* settled, a recording belongs to a call.
RecordingBelongsToCall == Quiet /\ state = "recording" => InCall
=============================================================================
