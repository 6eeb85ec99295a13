-------------------------- MODULE OrchestratorProofs --------------------------
(***************************************************************************)
(* Proofs about Orchestrator.tla for any apps, devices and numbers of jobs *)
(* that wait for the main actor.                                           *)
(***************************************************************************)
EXTENDS Orchestrator, SequenceTheorems, TLAPS

Has(queue, do) == \E i \in DOMAIN queue : queue[i].do \in do
AtMostOne(queue, do) ==
  \A i, j \in DOMAIN queue : queue[i].do \in do /\ queue[j].do \in do => i = j

Starts == {"vmStarted", "vmStartFailed"}
Stops == {"vmStopped", "vmStopFailed"}
Answers == Starts \cup Stops

\* Tear-downs run before the starts of recordings.
StartsFollow(queue) ==
  \A i, j \in DOMAIN queue : queue[i].do = "startRecording" /\ queue[j].do = "tearDown" => j < i

\* A tear-down that stop() left behind waits only while nothing is recorded, and if the user
\* has started again, runs before the next recording starts.
TearDownIsIdle ==
  /\ Has(mainQueue, {"tearDown"}) => state \in {"idle", "monitoring"}
  /\ state = "monitoring" => StartsFollow(mainQueue)

\* What is gone when the process is, and when the detector runs.
ProcessGone ==
  /\ detecting => state \notin {"idle", "exited"}
  /\ state = "exited" =>
       mainQueue = <<>> /\ ~overtaken /\ ~bridge /\ ~mic /\ ~tap /\ saved = None

\* Who still has to deal with a recording that Voice Memos makes for CallRec.
Remembered ==
  voiceMemos.recording /\ voiceMemos.isRecording /\ ~voiceMemos.stopFailed
    => \/ Has(mainQueue, {"vmStarted"})
       \/ state = "recording"
       \/ voiceMemos.awaiting = "stop"

\* The inductive invariant.
Inv == TypeOK /\ OneSuspendedTask /\ PipelineFollowsState /\ TearDownIsIdle /\ ProcessGone /\ Remembered

-----------------------------------------------------------------------------
(* Queues                                                                  *)

LEMMA AppendToQueue ==
  ASSUME NEW queue \in Seq(Jobs), NEW job \in Jobs, NEW do
  PROVE  /\ Append(queue, job) \in Seq(Jobs)
         /\ Append(queue, job) # <<>>
         /\ Has(Append(queue, job), do) <=> Has(queue, do) \/ job.do \in do
         /\ AtMostOne(queue, do) /\ (job.do \in do => ~Has(queue, do))
              => AtMostOne(Append(queue, job), do)
         /\ StartsFollow(queue) /\ job.do # "tearDown" => StartsFollow(Append(queue, job))
  <1> DEFINE longer == Append(queue, job)
  <1>1. /\ longer \in Seq(Jobs) /\ longer # <<>>
        /\ Len(longer) = Len(queue) + 1
        /\ \A i \in 1..Len(queue) : longer[i] = queue[i]
        /\ longer[Len(queue) + 1] = job
    BY AppendProperties
  <1>2. Len(queue) \in Nat /\ DOMAIN queue = 1..Len(queue) /\ DOMAIN longer = 1..Len(queue) + 1
    BY <1>1, LenProperties
  <1> HIDE DEF longer
  <1>3. Has(longer, do) <=> Has(queue, do) \/ job.do \in do
    <2>1. ASSUME Has(longer, do) PROVE Has(queue, do) \/ job.do \in do
      <3> PICK i \in DOMAIN longer : longer[i].do \in do
        BY <2>1 DEF Has
      <3> QED BY <1>1, <1>2 DEF Has
    <2>2. ASSUME Has(queue, do) PROVE Has(longer, do)
      <3> PICK i \in DOMAIN queue : queue[i].do \in do
        BY <2>2 DEF Has
      <3> QED BY <1>1, <1>2 DEF Has
    <2>3. ASSUME job.do \in do PROVE Has(longer, do)
      BY <1>1, <1>2, <2>3 DEF Has
    <2> QED BY <2>1, <2>2, <2>3
  <1>4. ASSUME AtMostOne(queue, do), job.do \in do => ~Has(queue, do)
        PROVE  AtMostOne(longer, do)
    BY <1>1, <1>2, <1>4 DEF AtMostOne, Has
  <1>5. ASSUME StartsFollow(queue), job.do # "tearDown" PROVE StartsFollow(longer)
    <2> SUFFICES ASSUME NEW i \in DOMAIN longer, NEW j \in DOMAIN longer,
                        longer[i].do = "startRecording", longer[j].do = "tearDown"
                 PROVE  j < i
      BY DEF StartsFollow
    <2>1. j \in DOMAIN queue /\ queue[j].do = "tearDown"
      BY <1>1, <1>2, <1>5
    <2>2. CASE i \in DOMAIN queue
      BY <1>1, <1>2, <1>5, <2>1, <2>2 DEF StartsFollow
    <2>3. CASE i = Len(queue) + 1
      BY <1>2, <2>1, <2>3
    <2> QED BY <1>2, <2>2, <2>3
  <1> QED BY <1>1, <1>3, <1>4, <1>5 DEF longer

LEMMA TailOfQueue ==
  ASSUME NEW queue \in Seq(Jobs), queue # <<>>, NEW do
  PROVE  /\ Tail(queue) \in Seq(Jobs)
         /\ Head(queue) \in Jobs
         /\ Has(Tail(queue), do) => Has(queue, do)
         /\ Head(queue).do \in do => Has(queue, do)
         /\ Head(queue).do \notin do => (Has(Tail(queue), do) <=> Has(queue, do))
         /\ AtMostOne(queue, do) => AtMostOne(Tail(queue), do)
         /\ AtMostOne(queue, do) /\ Head(queue).do \in do => ~Has(Tail(queue), do)
         /\ StartsFollow(queue) => StartsFollow(Tail(queue))
         /\ StartsFollow(queue) /\ Head(queue).do = "startRecording" => ~Has(queue, {"tearDown"})
  <1> DEFINE rest == Tail(queue)
  <1>1. /\ Head(queue) \in Jobs /\ rest \in Seq(Jobs) /\ Len(rest) = Len(queue) - 1
        /\ \A i \in 1..Len(rest) : rest[i] = queue[i + 1]
    BY HeadTailProperties
  <1>2. /\ Len(queue) \in Nat \ {0} /\ DOMAIN queue = 1..Len(queue)
        /\ DOMAIN rest = 1..Len(queue) - 1 /\ Head(queue) = queue[1]
    BY <1>1, LenProperties, EmptySeq
  <1> HIDE DEF rest
  <1>3. \A i \in DOMAIN rest : i + 1 \in DOMAIN queue /\ rest[i] = queue[i + 1]
    BY <1>1, <1>2
  <1>4. \A i \in DOMAIN queue : i = 1 \/ (i - 1 \in DOMAIN rest /\ rest[i - 1] = queue[i])
    BY <1>1, <1>2
  <1>5. Has(rest, do) => Has(queue, do)
    BY <1>3 DEF Has
  <1>6. 1 \in DOMAIN queue
    BY <1>2
  <1>7. Head(queue).do \in do => Has(queue, do)
    BY <1>2, <1>6 DEF Has
  <1>8. Head(queue).do \notin do /\ Has(queue, do) => Has(rest, do)
    <2> SUFFICES ASSUME queue[1].do \notin do, Has(queue, do) PROVE Has(rest, do)
      BY <1>2
    <2> PICK i \in DOMAIN queue : queue[i].do \in do
      BY DEF Has
    <2> QED BY <1>4 DEF Has
  <1>9. AtMostOne(queue, do) => AtMostOne(rest, do)
    <2> SUFFICES ASSUME AtMostOne(queue, do), NEW i \in DOMAIN rest, NEW j \in DOMAIN rest,
                        rest[i].do \in do, rest[j].do \in do
                 PROVE  i = j
      BY DEF AtMostOne
    <2>1. i + 1 = j + 1
      BY <1>3 DEF AtMostOne
    <2> QED BY <1>2, <2>1
  <1>10. AtMostOne(queue, do) /\ Head(queue).do \in do => ~Has(rest, do)
    <2> SUFFICES ASSUME AtMostOne(queue, do), queue[1].do \in do, NEW i \in DOMAIN rest, rest[i].do \in do
                 PROVE  FALSE
      BY <1>2 DEF Has
    <2>1. i + 1 = 1
      BY <1>3, <1>6 DEF AtMostOne
    <2> QED BY <1>2, <2>1
  <1>11. ASSUME StartsFollow(queue) PROVE StartsFollow(rest)
    <2> SUFFICES ASSUME NEW i \in DOMAIN rest, NEW j \in DOMAIN rest,
                        rest[i].do = "startRecording", rest[j].do = "tearDown"
                 PROVE  j < i
      BY DEF StartsFollow
    <2>1. j + 1 < i + 1
      BY <1>3, <1>11 DEF StartsFollow
    <2> QED BY <1>2, <2>1
  <1>12. ASSUME StartsFollow(queue), Head(queue).do = "startRecording", NEW j \in DOMAIN queue,
                queue[j].do = "tearDown"
         PROVE  FALSE
    <2>1. j < 1
      BY <1>2, <1>6, <1>12 DEF StartsFollow
    <2> QED BY <1>2, <2>1
  <1>13. StartsFollow(queue) /\ Head(queue).do = "startRecording" => ~Has(queue, {"tearDown"})
    BY <1>12 DEF Has
  <1> QED BY <1>1, <1>5, <1>7, <1>8, <1>9, <1>10, <1>11, <1>13 DEF rest

\* What OneSuspendedTask says, in terms of Has and AtMostOne.
TaskInQueue ==
  /\ voiceMemos.awaiting = "start" \/ Has(mainQueue, Starts) <=> state = "preparing"
  /\ voiceMemos.awaiting = "stop" \/ Has(mainQueue, Stops) <=> state = "stopping"
  /\ AtMostOne(mainQueue, Answers)
  /\ Has(mainQueue, Answers) => voiceMemos.awaiting = "nothing"

LEMMA SuspendedTask == OneSuspendedTask <=> TaskInQueue
  <1>1. /\ Waiting({"vmStarted", "vmStartFailed"}) # {} <=> Has(mainQueue, Starts)
        /\ Waiting({"vmStopped", "vmStopFailed"}) # {} <=> Has(mainQueue, Stops)
        /\ Waiting({"vmStarted", "vmStartFailed", "vmStopped", "vmStopFailed"}) # {}
             <=> Has(mainQueue, Answers)
    BY DEF Waiting, Has, Starts, Stops, Answers
  <1>2. (\A i, j \in Waiting({"vmStarted", "vmStartFailed", "vmStopped", "vmStopFailed"}) : i = j)
          <=> AtMostOne(mainQueue, Answers)
    BY DEF Waiting, AtMostOne, Answers, Starts, Stops
  <1> QED BY <1>1, <1>2 DEF OneSuspendedTask, TaskInQueue

LEMMA SuspendedTaskNext == (OneSuspendedTask <=> TaskInQueue)'
  BY SuspendedTask, PTL

LEMMA HasParts ==
  ASSUME NEW queue
  PROVE  /\ Has(queue, Answers) <=> Has(queue, Starts) \/ Has(queue, Stops)
         /\ Has(queue, {"vmStarted"}) => Has(queue, Starts)
  BY DEF Has, Answers, Starts, Stops

\* The parts of a job.
LEMMA JobParts ==
  /\ \A do, arg : Job(do, arg).do = do /\ Job(do, arg).arg = arg
  /\ \A job \in Jobs : job.do = "callStateChange" => job.arg \in CallStates
  /\ \A job \in Jobs : job.do = "startRecording" => job.arg \in Apps
  /\ \A c \in CallStates : Job("callStateChange", c) \in Jobs
  /\ \A a \in Apps : Job("startRecording", a) \in Jobs
  /\ \A do \in {"stopRecording", "tearDown", "deviceSwitched"} \cup Answers : Job(do, None) \in Jobs
  <1>1. \A do, arg : Job(do, arg).do = do /\ Job(do, arg).arg = arg
    BY DEF Job
  <1>2. \A c \in CallStates : Job("callStateChange", c) \in Jobs
    BY DEF Jobs
  <1>3. \A a \in Apps : Job("startRecording", a) \in Jobs
    BY DEF Jobs
  <1>4. \A do \in {"stopRecording", "tearDown", "deviceSwitched"} \cup Answers : Job(do, None) \in Jobs
    BY DEF Jobs, Answers, Starts, Stops
  <1>5. ASSUME NEW job \in Jobs
        PROVE  /\ job.do = "callStateChange" => job.arg \in CallStates
               /\ job.do = "startRecording" => job.arg \in Apps
    <2>1. CASE \E c \in CallStates : job = Job("callStateChange", c)
      BY <1>1, <2>1
    <2>2. CASE \E a \in Apps : job = Job("startRecording", a)
      BY <1>1, <2>2
    <2>3. CASE \E do \in {"stopRecording", "tearDown", "deviceSwitched", "vmStarted",
                         "vmStartFailed", "vmStopped", "vmStopFailed"} : job = Job(do, None)
      BY <1>1, <2>3
    <2> QED BY <2>1, <2>2, <2>3 DEF Jobs
  <1> QED BY <1>1, <1>2, <1>3, <1>4, <1>5

LEMMA CallStateParts ==
  /\ NoCall \in CallStates
  /\ \A c \in CallStates : c.kind = "callActive" => c.app \in Apps
  BY DEF CallStates, NoCall, AppRunning, Active, Ending

\* A step after which the same answers of Voice Memos wait as before.
AnswersKept ==
  /\ mainQueue' \in Seq(Jobs)
  /\ Has(mainQueue', Starts) <=> Has(mainQueue, Starts)
  /\ Has(mainQueue', Stops) <=> Has(mainQueue, Stops)
  /\ Has(mainQueue', {"vmStarted"}) <=> Has(mainQueue, {"vmStarted"})
  /\ AtMostOne(mainQueue', Answers)

\* A step that leaves no new tear-down behind, and starts no recording ahead of one.
TearDownsKept ==
  /\ Has(mainQueue', {"tearDown"}) => Has(mainQueue, {"tearDown"})
  /\ StartsFollow(mainQueue) => StartsFollow(mainQueue')

LEMMA EnqueueOther ==
  ASSUME Inv, NEW job \in Jobs, job.do \notin Answers, job.do # "tearDown",
         mainQueue' = Append(mainQueue, job)
  PROVE  AnswersKept /\ TearDownsKept
  <1>1. mainQueue \in Seq(Jobs) /\ AtMostOne(mainQueue, Answers)
    BY SuspendedTask DEF Inv, TypeOK, TaskInQueue
  <1>2. job.do \notin Starts /\ job.do \notin Stops /\ job.do \notin {"vmStarted"}
    BY DEF Answers, Starts, Stops
  <1>3. TearDownsKept
    BY <1>1, AppendToQueue DEF TearDownsKept
  <1> QED BY <1>1, <1>2, <1>3, AppendToQueue DEF AnswersKept

LEMMA ServeOther ==
  ASSUME Inv, mainQueue # <<>>, Head(mainQueue).do \notin Answers,
         \/ mainQueue' = Tail(mainQueue)
         \/ \E job \in Jobs : /\ job.do \notin Answers /\ job.do # "tearDown"
                              /\ mainQueue' = Append(Tail(mainQueue), job)
  PROVE  AnswersKept /\ TearDownsKept
  <1> DEFINE rest == Tail(mainQueue)
  <1>1. mainQueue \in Seq(Jobs) /\ AtMostOne(mainQueue, Answers)
    BY SuspendedTask DEF Inv, TypeOK, TaskInQueue
  <1>2. /\ Head(mainQueue).do \notin Starts /\ Head(mainQueue).do \notin Stops
        /\ Head(mainQueue).do \notin {"vmStarted"}
    BY DEF Answers, Starts, Stops
  <1>3. /\ rest \in Seq(Jobs)
        /\ Has(rest, Starts) <=> Has(mainQueue, Starts)
        /\ Has(rest, Stops) <=> Has(mainQueue, Stops)
        /\ Has(rest, {"vmStarted"}) <=> Has(mainQueue, {"vmStarted"})
        /\ AtMostOne(rest, Answers)
        /\ Has(rest, {"tearDown"}) => Has(mainQueue, {"tearDown"})
        /\ StartsFollow(mainQueue) => StartsFollow(rest)
    BY <1>1, <1>2, TailOfQueue
  <1> HIDE DEF rest
  <1>4. CASE mainQueue' = rest
    BY <1>3, <1>4 DEF AnswersKept, TearDownsKept
  <1>5. ASSUME NEW job \in Jobs, job.do \notin Answers, job.do # "tearDown", mainQueue' = Append(rest, job)
        PROVE  AnswersKept /\ TearDownsKept
    <2>1. /\ job.do \notin Starts /\ job.do \notin Stops /\ job.do \notin {"vmStarted"}
          /\ job.do \notin {"tearDown"}
      BY <1>5 DEF Answers, Starts, Stops
    <2> QED BY <1>3, <1>5, <2>1, AppendToQueue DEF AnswersKept, TearDownsKept
  <1> QED BY <1>4, <1>5 DEF rest

\* Such a step keeps what is said of the suspended task and of the recording, if
\* it neither suspends nor resumes a task and does not leave state recording.
LEMMA OrdinaryStep ==
  ASSUME Inv, AnswersKept, voiceMemos' = voiceMemos,
         \/ state' = state
         \/ {state, state'} \cap {"preparing", "recording", "stopping"} = {}
  PROVE  OneSuspendedTask' /\ Remembered'
  <1>1. TaskInQueue
    BY SuspendedTask DEF Inv
  <1>2. Has(mainQueue', Answers) <=> Has(mainQueue, Answers)
    BY HasParts DEF AnswersKept
  <1>3. TaskInQueue'
    BY <1>1, <1>2 DEF AnswersKept, TaskInQueue
  <1>4. Remembered'
    BY DEF Inv, Remembered, AnswersKept
  <1> QED BY <1>3, <1>4, SuspendedTaskNext

LEMMA QueueKept == Inv /\ UNCHANGED mainQueue => AnswersKept /\ TearDownsKept
  BY SuspendedTask DEF Inv, TypeOK, TaskInQueue, AnswersKept, TearDownsKept

-----------------------------------------------------------------------------
(* Steps of the user                                                       *)

LEMMA StartInv == Inv /\ Start => Inv'
  <1> SUFFICES ASSUME Inv, Start PROVE Inv'
    OBVIOUS
  <1>1. OneSuspendedTask' /\ Remembered'
    BY QueueKept, OrdinaryStep DEF Start
  <1>2. TypeOK' /\ PipelineFollowsState' /\ ProcessGone'
    BY DEF Start, Inv, TypeOK, PipelineFollowsState, PipelineHeld, PipelineReleased, ProcessGone,
           lifecycle, pipeline, inputs
  <1>3. TearDownIsIdle'
    BY DEF Start, TearDownIsIdle, Waiting, StartsFollow
  <1> QED BY <1>1, <1>2, <1>3 DEF Inv

LEMMA StopInv == Inv /\ Stop => Inv'
  <1> SUFFICES ASSUME Inv, Stop PROVE Inv'
    OBVIOUS
  <1> DEFINE longer == Append(mainQueue, Job("tearDown", None))
             idle == Job("callStateChange", NoCall)
  <1>1. mainQueue \in Seq(Jobs) /\ AtMostOne(mainQueue, Answers)
    BY SuspendedTask DEF Inv, TypeOK, TaskInQueue
  <1>2. Job("tearDown", None) \in Jobs /\ Job("tearDown", None).do = "tearDown"
    BY JobParts
  <1>3. idle \in Jobs /\ idle.do = "callStateChange"
    BY JobParts, CallStateParts
  <1>4. /\ "tearDown" \notin Starts /\ "tearDown" \notin Stops /\ "tearDown" \notin {"vmStarted"}
        /\ "callStateChange" \notin Starts /\ "callStateChange" \notin Stops
        /\ "callStateChange" \notin {"vmStarted"}
        /\ "tearDown" \notin Answers /\ "callStateChange" \notin Answers
    BY DEF Starts, Stops, Answers
  <1>5. /\ longer \in Seq(Jobs)
        /\ Has(longer, Starts) <=> Has(mainQueue, Starts)
        /\ Has(longer, Stops) <=> Has(mainQueue, Stops)
        /\ Has(longer, {"vmStarted"}) <=> Has(mainQueue, {"vmStarted"})
        /\ AtMostOne(longer, Answers)
    <2> HIDE DEF longer
    <2>1. longer = Append(mainQueue, Job("tearDown", None))
      BY DEF longer
    <2> QED BY <1>1, <1>2, <1>4, <2>1, AppendToQueue
  <1>6. mainQueue' = longer \/ mainQueue' = Append(longer, idle)
    <2>1. CASE call = NoCall
      <3>1. mainQueue' = longer \o <<>>
        BY <2>1 DEF Stop
      <3> QED BY <1>5, <3>1, ConcatEmptySeq
    <2>2. CASE call # NoCall
      <3>1. mainQueue' = longer \o <<idle>>
        BY <2>2 DEF Stop
      <3> QED BY <1>3, <1>5, <3>1, AppendIsConcat
    <2> QED BY <2>1, <2>2
  <1> HIDE DEF longer, idle
  <1>7. AnswersKept
    <2>1. CASE mainQueue' = longer
      BY <1>5, <2>1 DEF AnswersKept
    <2>2. CASE mainQueue' = Append(longer, idle)
      BY <1>3, <1>4, <1>5, <2>2, AppendToQueue DEF AnswersKept
    <2> QED BY <1>6, <2>1, <2>2
  <1>8. OneSuspendedTask' /\ Remembered'
    BY <1>7, OrdinaryStep DEF Stop
  <1>9. TypeOK' /\ PipelineFollowsState' /\ ProcessGone' /\ TearDownIsIdle'
    BY <1>7, CallStateParts
    DEF Stop, Inv, TypeOK, PipelineFollowsState, PipelineHeld, PipelineReleased, ProcessGone,
        TearDownIsIdle, AnswersKept, pipeline, inputs
  <1> QED BY <1>8, <1>9 DEF Inv

LEMMA ForceStopRecordingInv == Inv /\ ForceStopRecording => Inv'
  <1> SUFFICES ASSUME Inv, ForceStopRecording PROVE Inv'
    OBVIOUS
  <1>1. AnswersKept /\ TearDownsKept
    <2>1. /\ Job("stopRecording", None) \in Jobs
          /\ Job("stopRecording", None).do = "stopRecording"
      BY JobParts
    <2>2. "stopRecording" \notin Answers
      BY DEF Answers, Starts, Stops
    <2> QED BY <2>1, <2>2, EnqueueOther DEF ForceStopRecording, Enqueue
  <1>2. OneSuspendedTask' /\ Remembered'
    BY <1>1, OrdinaryStep DEF ForceStopRecording, lifecycle
  <1>3. TypeOK' /\ PipelineFollowsState' /\ ProcessGone' /\ TearDownIsIdle'
    BY <1>1
    DEF ForceStopRecording, Inv, TypeOK, PipelineFollowsState, PipelineHeld, PipelineReleased,
        ProcessGone, TearDownIsIdle, TearDownsKept, AnswersKept, lifecycle, detector,
        pipeline, inputs
  <1> QED BY <1>2, <1>3 DEF Inv

LEMMA QuitInv == Inv /\ Quit => Inv'
  <1> SUFFICES ASSUME Inv, Quit PROVE Inv'
    OBVIOUS
  <1>1. \A do : ~Has(<<>>, do) /\ AtMostOne(<<>>, do)
    BY DEF Has, AtMostOne
  <1>2. voiceMemos'.awaiting = "nothing" /\ ~voiceMemos'.isRecording
    BY DEF Quit, Inv, TypeOK
  <1>3. TaskInQueue'
    <2>1. mainQueue' = <<>> /\ state' = "exited"
      BY DEF Quit
    <2> QED BY <1>1, <1>2, <2>1 DEF TaskInQueue
  <1>4. TypeOK'
    <2>1. voiceMemos' \in [awaiting : {"nothing", "start", "stop"}, isRecording : BOOLEAN,
                           recording : BOOLEAN, stopFailed : BOOLEAN]
      BY DEF Quit, Inv, TypeOK
    <2>2. mainQueue' = <<>> /\ mainQueue' \in Seq(Jobs)
      BY EmptySeq DEF Quit
    <2>3. defaultInput' \in Physical \cup {Virtual} /\ present' \subseteq Physical
      BY DEF Quit, Inv, TypeOK
    <2> QED BY <2>1, <2>2, <2>3, CallStateParts DEF Quit, TypeOK
  <1>5. PipelineFollowsState' /\ ProcessGone' /\ TearDownIsIdle' /\ Remembered'
    BY <1>1, <1>2
    DEF Quit, PipelineFollowsState, PipelineHeld, PipelineReleased, ProcessGone, TearDownIsIdle, Remembered
  <1> QED BY <1>3, <1>4, <1>5, SuspendedTaskNext DEF Inv

LEMMA LaunchInv == Inv /\ Launch => Inv'
  <1> SUFFICES ASSUME Inv, Launch PROVE Inv'
    OBVIOUS
  <1>1. OneSuspendedTask' /\ Remembered'
    BY QueueKept, OrdinaryStep DEF Launch
  <1>2. TypeOK' /\ PipelineFollowsState' /\ ProcessGone' /\ TearDownIsIdle'
    BY DEF Launch, Inv, TypeOK, PipelineFollowsState, PipelineHeld, PipelineReleased, ProcessGone,
           TearDownIsIdle, detector, pipeline, inputs
  <1> QED BY <1>1, <1>2 DEF Inv

-----------------------------------------------------------------------------
(* Steps of the detector and of the devices                                *)

LEMMA CallStateChangesInv == Inv /\ CallStateChanges => Inv'
  <1> SUFFICES ASSUME Inv, CallStateChanges PROVE Inv'
    OBVIOUS
  <1> PICK to \in CallStates :
             /\ call' = to
             /\ overtaken' \in BOOLEAN /\ (detecting \/ overtaken)
             /\ Enqueue(Job("callStateChange", to))
    BY DEF CallStateChanges
  <1>1. AnswersKept /\ TearDownsKept
    <2>1. /\ Job("callStateChange", to) \in Jobs
          /\ Job("callStateChange", to).do = "callStateChange"
      BY JobParts
    <2>2. "callStateChange" \notin Answers
      BY DEF Answers, Starts, Stops
    <2> QED BY <2>1, <2>2, EnqueueOther DEF Enqueue
  <1>2. OneSuspendedTask' /\ Remembered'
    BY <1>1, OrdinaryStep DEF CallStateChanges, lifecycle
  <1>3. TypeOK' /\ PipelineFollowsState' /\ ProcessGone' /\ TearDownIsIdle'
    BY <1>1
    DEF CallStateChanges, Inv, TypeOK, PipelineFollowsState, PipelineHeld, PipelineReleased,
        ProcessGone, TearDownIsIdle, TearDownsKept, AnswersKept, lifecycle, pipeline, inputs
  <1> QED BY <1>2, <1>3 DEF Inv

LEMMA DeviceRemovedInv == Inv /\ DeviceRemoved => Inv'
  <1> SUFFICES ASSUME Inv, DeviceRemoved PROVE Inv'
    OBVIOUS
  <1>1. AnswersKept /\ TearDownsKept
    <2>1. /\ Job("deviceSwitched", None) \in Jobs
          /\ Job("deviceSwitched", None).do = "deviceSwitched"
      BY JobParts
    <2>2. "deviceSwitched" \notin Answers
      BY DEF Answers, Starts, Stops
    <2>3. CASE Enqueue(Job("deviceSwitched", None))
      BY <2>1, <2>2, <2>3, EnqueueOther DEF Enqueue
    <2>4. CASE UNCHANGED mainQueue
      BY <2>4, QueueKept
    <2> QED BY <2>3, <2>4 DEF DeviceRemoved
  <1>2. OneSuspendedTask' /\ Remembered'
    BY <1>1, OrdinaryStep DEF DeviceRemoved, lifecycle
  <1>3. present' \subseteq Physical /\ defaultInput' \in Physical \cup {Virtual}
    BY DEF DeviceRemoved, Inv, TypeOK
  <1>4. TypeOK' /\ PipelineFollowsState' /\ ProcessGone' /\ TearDownIsIdle'
    BY <1>1, <1>3
    DEF DeviceRemoved, Inv, TypeOK, PipelineFollowsState, PipelineHeld, PipelineReleased,
        ProcessGone, TearDownIsIdle, TearDownsKept, AnswersKept, lifecycle, detector, pipeline
  <1> QED BY <1>2, <1>4 DEF Inv

LEMMA WorldChangesInv == Inv /\ (DeviceAdded \/ CooldownExpires) => Inv'
  <1> SUFFICES ASSUME Inv, DeviceAdded \/ CooldownExpires PROVE Inv'
    OBVIOUS
  <1>1. OneSuspendedTask' /\ Remembered'
    BY QueueKept, OrdinaryStep DEF DeviceAdded, CooldownExpires, lifecycle
  <1>2. TypeOK' /\ PipelineFollowsState' /\ ProcessGone' /\ TearDownIsIdle'
    BY DEF DeviceAdded, CooldownExpires, Inv, TypeOK, PipelineFollowsState, PipelineHeld,
           PipelineReleased, ProcessGone, TearDownIsIdle, lifecycle, detector, pipeline, inputs
  <1> QED BY <1>1, <1>2 DEF Inv

-----------------------------------------------------------------------------
(* Jobs of the main actor                                                  *)

LEMMA HandleCallStateChangeInv == Inv /\ HandleCallStateChange => Inv'
  <1> SUFFICES ASSUME Inv, HandleCallStateChange PROVE Inv'
    OBVIOUS
  <1>1. mainQueue # <<>> /\ Head(mainQueue).do = "callStateChange"
    BY DEF HandleCallStateChange, Running
  <1>2. Head(mainQueue) \in Jobs
    BY <1>1, HeadTailProperties DEF Inv, TypeOK
  <1>3. Argument \in CallStates
    BY <1>1, <1>2, JobParts DEF Argument
  <1>4. \/ mainQueue' = Tail(mainQueue)
        \/ mainQueue' = Append(Tail(mainQueue), Job("stopRecording", None))
        \/ /\ Argument.kind = "callActive"
           /\ mainQueue' = Append(Tail(mainQueue), Job("startRecording", Argument.app))
    BY DEF HandleCallStateChange, Done, DoneThen
  <1>5. /\ "callStateChange" \notin Answers /\ "stopRecording" \notin Answers
        /\ "startRecording" \notin Answers
    BY DEF Answers, Starts, Stops
  <1>6. \/ mainQueue' = Tail(mainQueue)
        \/ \E job \in Jobs : /\ job.do \notin Answers /\ job.do # "tearDown"
                             /\ mainQueue' = Append(Tail(mainQueue), job)
    <2>1. /\ Job("stopRecording", None) \in Jobs
          /\ Job("stopRecording", None).do = "stopRecording"
      BY JobParts
    <2>2. ASSUME Argument.kind = "callActive"
          PROVE  /\ Job("startRecording", Argument.app) \in Jobs
                 /\ Job("startRecording", Argument.app).do = "startRecording"
      BY <1>3, <2>2, CallStateParts, JobParts
    <2> QED BY <1>4, <1>5, <2>1, <2>2
  <1>7. AnswersKept /\ TearDownsKept
    BY <1>1, <1>5, <1>6, ServeOther
  <1>8. OneSuspendedTask' /\ Remembered'
    BY <1>7, OrdinaryStep DEF HandleCallStateChange
  <1>9. activeCallApp' \in Apps \cup {None}
    BY <1>3, CallStateParts DEF HandleCallStateChange, Inv, TypeOK
  <1>10. TypeOK' /\ PipelineFollowsState' /\ ProcessGone' /\ TearDownIsIdle'
    <2>1. UNCHANGED <<state, lastFailure, detecting, call, overtaken, bridge, mic, tap, leaked,
                      defaultInput, saved, refused, present, voiceMemos>>
      BY DEF HandleCallStateChange, detector, pipeline, inputs
    <2>2. state = "exited" => mainQueue = <<>>
      BY DEF Inv, ProcessGone
    <2> QED
      BY <1>1, <1>7, <1>9, <2>1, <2>2
      DEF Inv, TypeOK, PipelineFollowsState, PipelineHeld, PipelineReleased, ProcessGone,
          TearDownIsIdle, TearDownsKept, AnswersKept
  <1> QED BY <1>8, <1>10 DEF Inv

\* A job that is no answer of Voice Memos and enqueues nothing.
LEMMA ServeQuietly ==
  ASSUME Inv, NEW do, do \notin Answers, Running(do), Done
  PROVE  AnswersKept /\ TearDownsKept /\ state # "exited"
  BY ServeOther DEF Running, Done, Inv, ProcessGone

LEMMA HandleDeviceSwitchedInv == Inv /\ HandleDeviceSwitched => Inv'
  <1> SUFFICES ASSUME Inv, HandleDeviceSwitched PROVE Inv'
    OBVIOUS
  <1>1. "deviceSwitched" \notin Answers
    BY DEF Answers, Starts, Stops
  <1>2. /\ AnswersKept /\ TearDownsKept
        /\ state # "exited"
    BY <1>1, ServeQuietly DEF HandleDeviceSwitched
  <1>3. OneSuspendedTask' /\ Remembered'
    BY <1>2, OrdinaryStep DEF HandleDeviceSwitched, lifecycle
  <1>4. mic' \in BOOLEAN /\ (state # "recording" => mic' = mic)
    BY DEF HandleDeviceSwitched, SwitchDevice, Inv, TypeOK
  <1>5. TypeOK' /\ PipelineFollowsState' /\ ProcessGone' /\ TearDownIsIdle'
    BY <1>2, <1>4
    DEF HandleDeviceSwitched, Inv, TypeOK, PipelineFollowsState, PipelineHeld, PipelineReleased,
        ProcessGone, TearDownIsIdle, TearDownsKept, AnswersKept, lifecycle, detector, inputs
  <1> QED BY <1>3, <1>5 DEF Inv

LEMMA StartRecordingSuspendsInv == Inv /\ StartRecordingSuspends => Inv'
  <1> SUFFICES ASSUME Inv, StartRecordingSuspends PROVE Inv'
    OBVIOUS
  <1>1. "startRecording" \notin Answers
    BY DEF Answers, Starts, Stops
  <1>2. AnswersKept /\ TearDownsKept
    BY <1>1, ServeQuietly DEF StartRecordingSuspends
  <1>3. /\ voiceMemos'.awaiting = "start"
        /\ voiceMemos'.recording = voiceMemos.recording
        /\ voiceMemos'.isRecording = voiceMemos.isRecording
        /\ voiceMemos'.stopFailed = voiceMemos.stopFailed
        /\ voiceMemos' \in [awaiting : {"nothing", "start", "stop"}, isRecording : BOOLEAN,
                            recording : BOOLEAN, stopFailed : BOOLEAN]
    BY DEF StartRecordingSuspends, Inv, TypeOK
  <1>4. state = "monitoring" /\ state' = "preparing"
    BY DEF StartRecordingSuspends
  <1>5. TaskInQueue /\ voiceMemos.awaiting # "stop" /\ ~Has(mainQueue, Answers)
    <2>1. TaskInQueue
      BY SuspendedTask DEF Inv
    <2> QED BY <1>4, <2>1, HasParts DEF TaskInQueue
  <1>6. TaskInQueue'
    <2>1. ~Has(mainQueue', Answers)
      BY <1>2, <1>5, HasParts DEF AnswersKept
    <2>2. ~Has(mainQueue', Stops)
      BY <2>1, HasParts
    <2> QED BY <1>2, <1>3, <1>4, <2>1, <2>2 DEF TaskInQueue, AnswersKept
  <1>7. Remembered'
    <2>1. ~Has(mainQueue, {"vmStarted"})
      BY <1>5, HasParts
    <2> QED BY <1>3, <1>4, <1>5, <2>1 DEF Inv, Remembered
  <1>8. /\ saved' \in (Physical \cup {Virtual}) \ {None} /\ defaultInput' = Virtual
        /\ refused' = FALSE
    BY DeviceAssumption DEF StartRecordingSuspends, SwitchToVirtualMic, Inv, TypeOK
  <1>9. ~Has(mainQueue', {"tearDown"})
    <2>1. /\ mainQueue \in Seq(Jobs) /\ mainQueue # <<>> /\ Head(mainQueue).do = "startRecording"
          /\ StartsFollow(mainQueue)
      BY <1>4 DEF StartRecordingSuspends, Running, Inv, TypeOK, TearDownIsIdle
    <2> QED BY <1>2, <2>1, TailOfQueue DEF TearDownsKept
  <1>10. TypeOK' /\ PipelineFollowsState' /\ ProcessGone' /\ TearDownIsIdle'
    BY <1>2, <1>3, <1>4, <1>8, <1>9
    DEF StartRecordingSuspends, Inv, TypeOK, PipelineFollowsState, PipelineHeld,
        PipelineReleased, ProcessGone, TearDownIsIdle, TearDownsKept, AnswersKept, detector
  <1> QED BY <1>6, <1>7, <1>10, SuspendedTaskNext DEF Inv

LEMMA StartRecordingFailsInv == Inv /\ StartRecordingFails => Inv'
  <1> SUFFICES ASSUME Inv, StartRecordingFails PROVE Inv'
    OBVIOUS
  <1>1. "startRecording" \notin Answers
    BY DEF Answers, Starts, Stops
  <1>2. AnswersKept /\ TearDownsKept
    BY <1>1, ServeQuietly DEF StartRecordingFails
  <1>3. OneSuspendedTask' /\ Remembered'
    BY <1>2, OrdinaryStep DEF StartRecordingFails
  <1>4. leaked' \in BOOLEAN
    BY DEF StartRecordingFails, Inv, TypeOK
  <1>5. TypeOK' /\ PipelineFollowsState' /\ ProcessGone' /\ TearDownIsIdle'
    BY <1>2, <1>4
    DEF StartRecordingFails, StopCaptures, Inv, TypeOK, PipelineFollowsState, PipelineHeld,
        PipelineReleased, ProcessGone, TearDownIsIdle, TearDownsKept, AnswersKept, detector
  <1> QED BY <1>3, <1>5 DEF Inv

LEMMA StartRecordingIgnoredInv == Inv /\ StartRecordingIgnored => Inv'
  <1> SUFFICES ASSUME Inv, StartRecordingIgnored PROVE Inv'
    OBVIOUS
  <1>1. "startRecording" \notin Answers
    BY DEF Answers, Starts, Stops
  <1>2. /\ AnswersKept /\ TearDownsKept
        /\ state # "exited"
    BY <1>1, ServeQuietly DEF StartRecordingIgnored
  <1>3. OneSuspendedTask' /\ Remembered'
    BY <1>2, OrdinaryStep DEF StartRecordingIgnored, lifecycle
  <1>4. TypeOK' /\ PipelineFollowsState' /\ ProcessGone' /\ TearDownIsIdle'
    BY <1>2
    DEF StartRecordingIgnored, Inv, TypeOK, PipelineFollowsState, PipelineHeld,
        PipelineReleased, ProcessGone, TearDownIsIdle, TearDownsKept, AnswersKept, lifecycle, detector,
        pipeline, inputs
  <1> QED BY <1>3, <1>4 DEF Inv

\* The continuation of a suspended task: none is suspended when it runs.
LEMMA ServeAnswer ==
  ASSUME Inv, mainQueue # <<>>, Head(mainQueue).do \in Answers, Done
  PROVE  /\ mainQueue' \in Seq(Jobs)
         /\ ~Has(mainQueue', Starts) /\ ~Has(mainQueue', Stops) /\ ~Has(mainQueue', Answers)
         /\ AtMostOne(mainQueue', Answers)
         /\ ~Has(mainQueue', {"tearDown"})
         /\ voiceMemos.awaiting = "nothing"
         /\ Head(mainQueue).do \in Starts => state = "preparing"
         /\ Head(mainQueue).do \in Stops => state = "stopping"
         /\ Head(mainQueue).do # "vmStarted" => ~Has(mainQueue, {"vmStarted"})
  <1>1. mainQueue \in Seq(Jobs) /\ TaskInQueue
    BY SuspendedTask DEF Inv, TypeOK
  <1>2. Has(mainQueue, Answers) /\ AtMostOne(mainQueue, Answers) /\ voiceMemos.awaiting = "nothing"
    BY <1>1, TailOfQueue DEF TaskInQueue
  <1>3. /\ mainQueue' \in Seq(Jobs) /\ AtMostOne(mainQueue', Answers) /\ ~Has(mainQueue', Answers)
    BY <1>1, <1>2, TailOfQueue DEF Done
  <1>4. ~Has(mainQueue', Starts) /\ ~Has(mainQueue', Stops) /\ ~Has(mainQueue', {"vmStarted"})
    BY <1>3, HasParts
  <1>5. /\ Head(mainQueue).do \in Starts => Has(mainQueue, Starts)
        /\ Head(mainQueue).do \in Stops => Has(mainQueue, Stops)
        /\ Has(mainQueue', {"tearDown"}) => Has(mainQueue, {"tearDown"})
        /\ Head(mainQueue).do \notin {"vmStarted"}
             => (Has(mainQueue', {"vmStarted"}) <=> Has(mainQueue, {"vmStarted"}))
    BY <1>1, TailOfQueue DEF Done
  <1>6. /\ Head(mainQueue).do \in Starts => state = "preparing"
        /\ Head(mainQueue).do \in Stops => state = "stopping"
    BY <1>1, <1>5 DEF TaskInQueue
  <1>7. ~Has(mainQueue', {"tearDown"})
    BY <1>5, <1>6 DEF Answers, Inv, TearDownIsIdle
  <1> QED BY <1>2, <1>3, <1>4, <1>5, <1>6, <1>7

LEMMA NoTearDown == ASSUME NEW queue, ~Has(queue, {"tearDown"}) PROVE StartsFollow(queue)
  BY DEF Has, StartsFollow

LEMMA VoiceMemosStartedInv == Inv /\ VoiceMemosStarted => Inv'
  <1> SUFFICES ASSUME Inv, VoiceMemosStarted PROVE Inv'
    OBVIOUS
  <1>1. /\ mainQueue # <<>> /\ Head(mainQueue).do \in Starts /\ Head(mainQueue).do \in Answers
        /\ Done
    BY DEF VoiceMemosStarted, Running, Starts, Answers
  <1>2. /\ mainQueue' \in Seq(Jobs)
        /\ ~Has(mainQueue', Starts) /\ ~Has(mainQueue', Stops) /\ ~Has(mainQueue', Answers)
        /\ AtMostOne(mainQueue', Answers) /\ ~Has(mainQueue', {"tearDown"})
        /\ voiceMemos.awaiting = "nothing" /\ state = "preparing"
    BY <1>1, ServeAnswer
  <1>3. state' = "recording" /\ voiceMemos' = voiceMemos
    BY DEF VoiceMemosStarted
  <1>4. TaskInQueue'
    BY <1>2, <1>3 DEF TaskInQueue
  <1>5. TypeOK' /\ PipelineFollowsState' /\ ProcessGone' /\ TearDownIsIdle' /\ Remembered'
    BY <1>2, <1>3
    DEF VoiceMemosStarted, Inv, TypeOK, PipelineFollowsState, PipelineHeld, PipelineReleased,
        ProcessGone, TearDownIsIdle, Remembered, detector, pipeline, inputs
  <1> QED BY <1>4, <1>5, SuspendedTaskNext DEF Inv

\* What tearDown leaves behind.
LEMMA TearDownReleases ==
  Inv /\ TearDown =>
    /\ ~bridge' /\ ~mic' /\ ~tap' /\ leaked' = leaked
    /\ {bridge', mic', tap', leaked'} \subseteq BOOLEAN
    /\ saved' = None /\ present' = present
    /\ defaultInput' \in Physical \cup {Virtual} /\ refused' \in BOOLEAN
  BY DEF TearDown, RestoreOriginalInput, StopCaptures, Inv, TypeOK

LEMMA VoiceMemosStartFailedInv == Inv /\ VoiceMemosStartFailed => Inv'
  <1> SUFFICES ASSUME Inv, VoiceMemosStartFailed PROVE Inv'
    OBVIOUS
  <1>1. /\ mainQueue # <<>> /\ Head(mainQueue).do \in Starts /\ Head(mainQueue).do \in Answers
        /\ Head(mainQueue).do # "vmStarted" /\ Done
    BY DEF VoiceMemosStartFailed, Running, Starts, Answers
  <1>2. /\ mainQueue' \in Seq(Jobs)
        /\ ~Has(mainQueue', Starts) /\ ~Has(mainQueue', Stops) /\ ~Has(mainQueue', Answers)
        /\ AtMostOne(mainQueue', Answers) /\ ~Has(mainQueue', {"tearDown"})
        /\ voiceMemos.awaiting = "nothing" /\ state = "preparing"
        /\ ~Has(mainQueue, {"vmStarted"})
    BY <1>1, ServeAnswer
  <1>3. state' = "monitoring" /\ voiceMemos' = voiceMemos
    BY DEF VoiceMemosStartFailed
  <1>4. TaskInQueue'
    BY <1>2, <1>3 DEF TaskInQueue
  <1>5. Remembered'
    BY <1>2, <1>3 DEF Inv, Remembered
  <1>6. /\ ~bridge' /\ ~mic' /\ ~tap' /\ {bridge', mic', tap', leaked'} \subseteq BOOLEAN
        /\ saved' = None /\ present' = present /\ defaultInput' \in Physical \cup {Virtual}
        /\ refused' \in BOOLEAN
    BY TearDownReleases DEF VoiceMemosStartFailed
  <1>7. TypeOK' /\ PipelineFollowsState' /\ ProcessGone' /\ TearDownIsIdle'
    BY <1>2, <1>3, <1>6, NoTearDown
    DEF VoiceMemosStartFailed, Inv, TypeOK, PipelineFollowsState, PipelineHeld, PipelineReleased,
        ProcessGone, TearDownIsIdle, detector
  <1> QED BY <1>4, <1>5, <1>7, SuspendedTaskNext DEF Inv

LEMMA VoiceMemosStoppedInv == Inv /\ VoiceMemosStopped => Inv'
  <1> SUFFICES ASSUME Inv, VoiceMemosStopped PROVE Inv'
    OBVIOUS
  <1>1. /\ mainQueue # <<>> /\ Head(mainQueue).do \in Stops /\ Head(mainQueue).do \in Answers
        /\ Head(mainQueue).do # "vmStarted" /\ Done
    BY DEF VoiceMemosStopped, Running, Stops, Answers
  <1>2. /\ mainQueue' \in Seq(Jobs)
        /\ ~Has(mainQueue', Starts) /\ ~Has(mainQueue', Stops) /\ ~Has(mainQueue', Answers)
        /\ AtMostOne(mainQueue', Answers) /\ ~Has(mainQueue', {"tearDown"})
        /\ voiceMemos.awaiting = "nothing" /\ state = "stopping"
        /\ ~Has(mainQueue, {"vmStarted"})
    BY <1>1, ServeAnswer
  <1>3. state' = "monitoring" /\ voiceMemos' = voiceMemos
    BY DEF VoiceMemosStopped
  <1>4. TaskInQueue'
    BY <1>2, <1>3 DEF TaskInQueue
  <1>5. Remembered'
    BY <1>2, <1>3 DEF Inv, Remembered
  <1>6. /\ ~bridge' /\ ~mic' /\ ~tap' /\ {bridge', mic', tap', leaked'} \subseteq BOOLEAN
        /\ saved' = None /\ present' = present /\ defaultInput' \in Physical \cup {Virtual}
        /\ refused' \in BOOLEAN
    BY TearDownReleases DEF VoiceMemosStopped
  <1>7. TypeOK' /\ PipelineFollowsState' /\ ProcessGone' /\ TearDownIsIdle'
    BY <1>2, <1>3, <1>6, NoTearDown
    DEF VoiceMemosStopped, Inv, TypeOK, PipelineFollowsState, PipelineHeld, PipelineReleased,
        ProcessGone, TearDownIsIdle, detector
  <1> QED BY <1>4, <1>5, <1>7, SuspendedTaskNext DEF Inv

LEMMA RunTearDownInv == Inv /\ RunTearDown => Inv'
  <1> SUFFICES ASSUME Inv, RunTearDown PROVE Inv'
    OBVIOUS
  <1>1. "tearDown" \notin Answers
    BY DEF Answers, Starts, Stops
  <1>2. AnswersKept /\ TearDownsKept
    BY <1>1, ServeQuietly DEF RunTearDown
  <1>3. OneSuspendedTask' /\ Remembered'
    BY <1>2, OrdinaryStep DEF RunTearDown, lifecycle
  <1>4. state \in {"idle", "monitoring"}
    <2>1. mainQueue \in Seq(Jobs) /\ mainQueue # <<>> /\ Head(mainQueue).do \in {"tearDown"}
      BY DEF RunTearDown, Running, Inv, TypeOK
    <2>2. Has(mainQueue, {"tearDown"})
      BY <2>1, TailOfQueue
    <2> QED BY <2>2 DEF Inv, TearDownIsIdle
  <1>5. /\ ~bridge' /\ ~mic' /\ ~tap' /\ {bridge', mic', tap', leaked'} \subseteq BOOLEAN
        /\ saved' = None /\ present' = present /\ defaultInput' \in Physical \cup {Virtual}
        /\ refused' \in BOOLEAN
    BY TearDownReleases DEF RunTearDown
  <1>6. TypeOK' /\ PipelineFollowsState' /\ ProcessGone' /\ TearDownIsIdle'
    BY <1>2, <1>4, <1>5
    DEF RunTearDown, Inv, TypeOK, PipelineFollowsState, PipelineHeld, PipelineReleased,
        ProcessGone, TearDownIsIdle, TearDownsKept, AnswersKept, lifecycle, detector
  <1> QED BY <1>3, <1>6 DEF Inv

\* Voice Memos is asked to stop, or there is nothing to stop and the
\* continuation follows at once; a stop in any other state is dropped.
LEMMA StopRecordingInv == Inv /\ StopRecording => Inv'
  <1> SUFFICES ASSUME Inv, StopRecording PROVE Inv'
    OBVIOUS
  <1> DEFINE rest == Tail(mainQueue)
  <1>1. "stopRecording" \notin Answers /\ mainQueue # <<>> /\ Head(mainQueue).do = "stopRecording"
    BY DEF StopRecording, Running, Answers, Starts, Stops
  <1>2. state # "exited"
    BY <1>1 DEF Inv, ProcessGone
  <1>3. CASE state # "recording"
    <2>1. Done /\ state' = state /\ voiceMemos' = voiceMemos
      BY <1>3 DEF StopRecording
    <2>2. AnswersKept /\ TearDownsKept
      BY <1>1, <2>1, ServeOther DEF Done
    <2>3. OneSuspendedTask' /\ Remembered'
      BY <2>1, <2>2, OrdinaryStep
    <2>4. TypeOK' /\ PipelineFollowsState' /\ ProcessGone' /\ TearDownIsIdle'
      BY <1>2, <2>1, <2>2
      DEF StopRecording, Inv, TypeOK, PipelineFollowsState, PipelineHeld, PipelineReleased,
          ProcessGone, TearDownIsIdle, TearDownsKept, AnswersKept, detector, pipeline, inputs
    <2> QED BY <2>3, <2>4 DEF Inv
  <1>4. CASE state = "recording"
    <2>1. /\ TaskInQueue /\ mainQueue \in Seq(Jobs) /\ ~Has(mainQueue, {"tearDown"})
          /\ voiceMemos \in [awaiting : {"nothing", "start", "stop"}, isRecording : BOOLEAN,
                             recording : BOOLEAN, stopFailed : BOOLEAN]
      BY <1>4, SuspendedTask DEF Inv, TypeOK, TearDownIsIdle
    <2>2. voiceMemos.awaiting = "nothing" /\ ~Has(mainQueue, Answers) /\ AtMostOne(mainQueue, Answers)
      <3>1. /\ ~Has(mainQueue, Starts) /\ ~Has(mainQueue, Stops)
            /\ voiceMemos.awaiting # "start" /\ voiceMemos.awaiting # "stop"
            /\ AtMostOne(mainQueue, Answers)
        BY <1>4, <2>1 DEF TaskInQueue
      <3>2. voiceMemos.awaiting \in {"nothing", "start", "stop"}
        BY <2>1
      <3> QED BY <3>1, <3>2, HasParts
    <2>3. /\ rest \in Seq(Jobs) /\ ~Has(rest, Answers) /\ AtMostOne(rest, Answers)
          /\ ~Has(rest, {"tearDown"})
      BY <1>1, <2>1, <2>2, TailOfQueue
    <2> HIDE DEF rest
    <2>4. ~Has(rest, Starts) /\ ~Has(rest, Stops)
      BY <2>3, HasParts
    <2>5. state' = "stopping"
      BY <1>4 DEF StopRecording
    <2>6. CASE voiceMemos.isRecording
      <3>1. mainQueue' = rest /\ voiceMemos' = [voiceMemos EXCEPT !.awaiting = "stop"]
        BY <1>4, <2>6 DEF StopRecording, Done, rest
      <3>2. /\ voiceMemos'.awaiting = "stop"
            /\ voiceMemos' \in [awaiting : {"nothing", "start", "stop"}, isRecording : BOOLEAN,
                                recording : BOOLEAN, stopFailed : BOOLEAN]
        BY <2>1, <3>1
      <3>3. TaskInQueue'
        BY <2>3, <2>4, <2>5, <3>1, <3>2 DEF TaskInQueue
      <3>4. Remembered'
        BY <3>2 DEF Remembered
      <3>5. TypeOK' /\ PipelineFollowsState' /\ ProcessGone' /\ TearDownIsIdle'
        BY <1>4, <2>3, <2>5, <3>1, <3>2
        DEF StopRecording, Inv, TypeOK, PipelineFollowsState, PipelineHeld, PipelineReleased,
            ProcessGone, TearDownIsIdle, detector, pipeline, inputs
      <3> QED BY <3>3, <3>4, <3>5, SuspendedTaskNext DEF Inv
    <2>7. CASE ~voiceMemos.isRecording
      <3>1. mainQueue' = Append(rest, Job("vmStopped", None)) /\ voiceMemos' = voiceMemos
        BY <1>4, <2>7 DEF StopRecording, DoneThen, rest
      <3>2. /\ Job("vmStopped", None) \in Jobs /\ Job("vmStopped", None).do = "vmStopped"
            /\ "vmStopped" \in Answers /\ "vmStopped" \in Stops /\ "vmStopped" \notin Starts
            /\ "vmStopped" \notin {"tearDown"}
        BY JobParts DEF Answers, Starts, Stops
      <3>3. /\ mainQueue' \in Seq(Jobs) /\ ~Has(mainQueue', Starts) /\ Has(mainQueue', Stops)
            /\ AtMostOne(mainQueue', Answers) /\ ~Has(mainQueue', {"tearDown"})
        BY <2>3, <2>4, <3>1, <3>2, AppendToQueue
      <3>4. TaskInQueue'
        BY <2>2, <2>5, <3>1, <3>3 DEF TaskInQueue
      <3>5. Remembered'
        BY <2>7, <3>1 DEF Remembered
      <3>6. TypeOK' /\ PipelineFollowsState' /\ ProcessGone' /\ TearDownIsIdle'
        BY <1>4, <2>5, <3>1, <3>3
        DEF StopRecording, Inv, TypeOK, PipelineFollowsState, PipelineHeld, PipelineReleased,
            ProcessGone, TearDownIsIdle, detector, pipeline, inputs
      <3> QED BY <3>4, <3>5, <3>6, SuspendedTaskNext DEF Inv
    <2> QED BY <2>6, <2>7
  <1> QED BY <1>3, <1>4

-----------------------------------------------------------------------------
(* Voice Memos answers                                                     *)

\* While Voice Memos has not answered, no continuation is queued.
LEMMA EnqueueAnswer ==
  ASSUME Inv, voiceMemos.awaiting # "nothing", NEW do \in Answers,
         Enqueue(Job(do, None)), voiceMemos'.awaiting = "nothing", state' = state
  PROVE  /\ mainQueue' \in Seq(Jobs) /\ mainQueue' # <<>>
         /\ voiceMemos.awaiting = "start" /\ do \in Starts => TaskInQueue'
         /\ voiceMemos.awaiting = "stop" /\ do \in Stops => TaskInQueue'
         /\ TearDownsKept
         /\ do = "vmStarted" => Has(mainQueue', {"vmStarted"})
         /\ ~Has(mainQueue, {"vmStarted"})
         /\ voiceMemos.awaiting = "start" => state = "preparing"
         /\ voiceMemos.awaiting = "stop" => state = "stopping"
  <1>1. mainQueue \in Seq(Jobs) /\ TaskInQueue
    BY SuspendedTask DEF Inv, TypeOK
  <1>2. ~Has(mainQueue, Answers) /\ AtMostOne(mainQueue, Answers)
    BY <1>1 DEF TaskInQueue
  <1>3. ~Has(mainQueue, Starts) /\ ~Has(mainQueue, Stops) /\ ~Has(mainQueue, {"vmStarted"})
    BY <1>2, HasParts
  <1>4. /\ Job(do, None) \in Jobs /\ Job(do, None).do = do
        /\ mainQueue' = Append(mainQueue, Job(do, None))
    BY JobParts DEF Enqueue
  <1>5. /\ mainQueue' \in Seq(Jobs) /\ mainQueue' # <<>>
        /\ Has(mainQueue', Starts) <=> do \in Starts
        /\ Has(mainQueue', Stops) <=> do \in Stops
        /\ AtMostOne(mainQueue', Answers)
        /\ Has(mainQueue', {"tearDown"}) <=> Has(mainQueue, {"tearDown"}) \/ do \in {"tearDown"}
        /\ Has(mainQueue', {"vmStarted"}) <=> do \in {"vmStarted"}
        /\ StartsFollow(mainQueue) /\ do # "tearDown" => StartsFollow(mainQueue')
    BY <1>1, <1>2, <1>3, <1>4, AppendToQueue
  <1>6. /\ do # "tearDown" /\ (do \in Starts => do \notin Stops)
    BY DEF Answers, Starts, Stops
  <1>7. /\ voiceMemos.awaiting = "start" => state = "preparing"
        /\ voiceMemos.awaiting = "stop" => state = "stopping"
    BY <1>1 DEF TaskInQueue
  <1>8. voiceMemos.awaiting = "start" /\ do \in Starts => TaskInQueue'
    BY <1>5, <1>6, <1>7 DEF TaskInQueue
  <1>9. voiceMemos.awaiting = "stop" /\ do \in Stops => TaskInQueue'
    BY <1>5, <1>6, <1>7 DEF TaskInQueue
  <1> QED BY <1>3, <1>5, <1>6, <1>7, <1>8, <1>9 DEF TearDownsKept

LEMMA VoiceMemosAnswersStartInv == Inv /\ VoiceMemosAnswersStart => Inv'
  <1> SUFFICES ASSUME Inv, VoiceMemosAnswersStart PROVE Inv'
    OBVIOUS
  <1>1. voiceMemos.awaiting = "start" /\ state' = state
    BY DEF VoiceMemosAnswersStart, lifecycle
  <1>2. PICK do \in Starts :
          /\ Enqueue(Job(do, None))
          /\ \/ /\ do = "vmStarted"
                /\ voiceMemos' = [voiceMemos EXCEPT !.awaiting = "nothing", !.isRecording = TRUE,
                                                    !.recording = TRUE, !.stopFailed = FALSE]
             \/ voiceMemos' = [voiceMemos EXCEPT !.awaiting = "nothing"]
    BY DEF VoiceMemosAnswersStart, Starts
  <1>3. /\ voiceMemos'.awaiting = "nothing"
        /\ \/ do = "vmStarted"
           \/ /\ voiceMemos'.recording = voiceMemos.recording
              /\ voiceMemos'.isRecording = voiceMemos.isRecording
              /\ voiceMemos'.stopFailed = voiceMemos.stopFailed
        /\ voiceMemos' \in [awaiting : {"nothing", "start", "stop"}, isRecording : BOOLEAN,
                            recording : BOOLEAN, stopFailed : BOOLEAN]
    BY <1>2 DEF Inv, TypeOK
  <1>4. do \in Answers
    BY DEF Answers
  <1>5. /\ mainQueue' \in Seq(Jobs) /\ TaskInQueue' /\ state = "preparing"
        /\ TearDownsKept
        /\ do = "vmStarted" => Has(mainQueue', {"vmStarted"})
        /\ ~Has(mainQueue, {"vmStarted"})
    BY <1>1, <1>2, <1>3, <1>4, EnqueueAnswer
  <1>6. Remembered'
    BY <1>1, <1>3, <1>5 DEF Inv, Remembered
  <1>7. TypeOK' /\ PipelineFollowsState' /\ ProcessGone' /\ TearDownIsIdle'
    BY <1>1, <1>3, <1>5
    DEF VoiceMemosAnswersStart, Inv, TypeOK, PipelineFollowsState, PipelineHeld,
        PipelineReleased, ProcessGone, TearDownIsIdle, TearDownsKept, lifecycle, detector, pipeline, inputs
  <1> QED BY <1>5, <1>6, <1>7, SuspendedTaskNext DEF Inv

LEMMA VoiceMemosAnswersStopInv == Inv /\ VoiceMemosAnswersStop => Inv'
  <1> SUFFICES ASSUME Inv, VoiceMemosAnswersStop PROVE Inv'
    OBVIOUS
  <1>1. voiceMemos.awaiting = "stop" /\ state' = state
    BY DEF VoiceMemosAnswersStop, lifecycle
  <1>2. PICK do \in Stops :
          /\ Enqueue(Job(do, None))
          /\ \/ voiceMemos' = [voiceMemos EXCEPT !.awaiting = "nothing", !.isRecording = FALSE,
                                                 !.recording = FALSE]
             \/ voiceMemos' = [voiceMemos EXCEPT !.awaiting = "nothing", !.stopFailed = TRUE]
    BY DEF VoiceMemosAnswersStop, Stops
  <1>3. /\ voiceMemos'.awaiting = "nothing"
        /\ ~voiceMemos'.recording \/ voiceMemos'.stopFailed
        /\ voiceMemos' \in [awaiting : {"nothing", "start", "stop"}, isRecording : BOOLEAN,
                            recording : BOOLEAN, stopFailed : BOOLEAN]
    BY <1>2 DEF Inv, TypeOK
  <1>4. do \in Answers
    BY DEF Answers
  <1>5. mainQueue' \in Seq(Jobs) /\ TaskInQueue' /\ state = "stopping" /\ TearDownsKept
    BY <1>1, <1>2, <1>3, <1>4, EnqueueAnswer
  <1>6. Remembered'
    BY <1>3 DEF Remembered
  <1>7. TypeOK' /\ PipelineFollowsState' /\ ProcessGone' /\ TearDownIsIdle'
    BY <1>1, <1>3, <1>5
    DEF VoiceMemosAnswersStop, Inv, TypeOK, PipelineFollowsState, PipelineHeld,
        PipelineReleased, ProcessGone, TearDownIsIdle, TearDownsKept, lifecycle, detector, pipeline, inputs
  <1> QED BY <1>5, <1>6, <1>7, SuspendedTaskNext DEF Inv

-----------------------------------------------------------------------------
(* The invariant and what follows from it                                  *)

LEMMA InitInv == Init => Inv
  <1> SUFFICES ASSUME Init PROVE Inv
    OBVIOUS
  <1>1. \A do : ~Has(<<>>, do) /\ AtMostOne(<<>>, do)
    BY DEF Has, AtMostOne
  <1>2. mainQueue = <<>> /\ mainQueue \in Seq(Jobs)
    BY EmptySeq DEF Init
  <1>3. TypeOK
    BY <1>2, CallStateParts DEF Init, TypeOK
  <1>4. TaskInQueue
    BY <1>1, <1>2 DEF Init, TaskInQueue
  <1>5. PipelineFollowsState /\ ProcessGone /\ TearDownIsIdle /\ Remembered
    BY <1>1, <1>2
    DEF Init, PipelineFollowsState, PipelineHeld, PipelineReleased, ProcessGone, TearDownIsIdle, Remembered,
        StartsFollow
  <1> QED BY <1>3, <1>4, <1>5, SuspendedTask DEF Inv

LEMMA StutterInv == Inv /\ UNCHANGED vars => Inv'
  <1> SUFFICES ASSUME Inv, UNCHANGED vars PROVE Inv'
    OBVIOUS
  <1>1. OneSuspendedTask' /\ Remembered'
    BY QueueKept, OrdinaryStep DEF vars, lifecycle
  <1>2. TypeOK' /\ PipelineFollowsState' /\ ProcessGone' /\ TearDownIsIdle'
    BY DEF Inv, TypeOK, PipelineFollowsState, PipelineHeld, PipelineReleased, ProcessGone,
           TearDownIsIdle, vars, lifecycle, detector, pipeline, inputs
  <1> QED BY <1>1, <1>2 DEF Inv

LEMMA StepInv == Inv /\ [Next]_vars => Inv'
  <1> SUFFICES ASSUME Inv, [Next]_vars PROVE Inv'
    OBVIOUS
  <1>1. CASE User
    BY <1>1, StartInv, StopInv, ForceStopRecordingInv, QuitInv, LaunchInv DEF User
  <1>2. CASE World
    BY <1>2, CallStateChangesInv, DeviceRemovedInv, WorldChangesInv DEF World
  <1>3. CASE MainActor
    BY <1>3, HandleCallStateChangeInv, HandleDeviceSwitchedInv, StartRecordingSuspendsInv,
       StartRecordingFailsInv, StartRecordingIgnoredInv, VoiceMemosStartedInv,
       VoiceMemosStartFailedInv, StopRecordingInv, VoiceMemosStoppedInv, RunTearDownInv
    DEF MainActor
  <1>4. CASE Automation
    BY <1>4, VoiceMemosAnswersStartInv, VoiceMemosAnswersStopInv DEF Automation
  <1>5. CASE UNCHANGED vars
    BY <1>5, StutterInv
  <1> QED BY <1>1, <1>2, <1>3, <1>4, <1>5 DEF Next

LEMMA Invariance == Spec => []Inv
  BY InitInv, StepInv, PTL DEF Spec

\* At most one start or stop is under way, and the lifecycle state says which,
\* however many of them were queued (Orchestrator.swift:220-289).
THEOREM LifecycleIsConsistent == Spec => []LifecycleInv
  <1>1. Inv => LifecycleInv
    BY DEF Inv, LifecycleInv
  <1> QED BY <1>1, Invariance, PTL

\* The region, the captures and the memory of the user's input device are held
\* exactly as long as a recording needs them (Orchestrator.swift:231-289).
THEOREM PipelineMatchesState == Spec => []PipelineFollowsState
  <1>1. Inv => PipelineFollowsState
    BY DEF Inv
  <1> QED BY <1>1, Invariance, PTL

\* CallRec never goes back to waiting while Voice Memos records for it, unless
\* stopping it failed (Orchestrator.swift:271-289).
THEOREM NoRecordingIsOrphaned == Spec => []NoOrphanRecording
  <1>1. Inv => NoOrphanRecording
    <2> SUFFICES ASSUME Inv, state \in {"idle", "monitoring"}, voiceMemos.recording,
                        voiceMemos.isRecording, ~voiceMemos.stopFailed
                 PROVE  FALSE
      BY DEF NoOrphanRecording
    <2>1. TaskInQueue
      BY SuspendedTask DEF Inv
    <2>2. ~Has(mainQueue, {"vmStarted"}) /\ voiceMemos.awaiting # "stop"
      BY <2>1, HasParts DEF TaskInQueue
    <2> QED BY <2>2 DEF Inv, Remembered
  <1> QED BY <1>1, Invariance, PTL

\* The user's input device is forgotten only by giving it back, if it is there and the system
\* takes it (SystemAudioDeviceManager.swift:41-58).
THEOREM OriginalInputIsKept == Spec => OriginalInputKept
  <1> DEFINE Kept == saved \in present /\ saved' # saved /\ state' # "exited"
                       => saved' = None /\ (defaultInput' = saved \/ refused')
  <1>1. Inv /\ [Next]_vars => Kept
    <2> SUFFICES ASSUME Inv, [Next]_vars, saved \in present, saved' # saved, state' # "exited"
                 PROVE  saved' = None /\ (defaultInput' = saved \/ refused')
      OBVIOUS
    <2>1. saved # None
      BY DeviceAssumption DEF Inv, TypeOK
    <2>2. state \notin {"idle", "monitoring", "exited"}
      BY <2>1 DEF Inv, PipelineFollowsState, PipelineReleased, ProcessGone
    <2>3. CASE TearDown
      BY <2>3 DEF TearDown, RestoreOriginalInput
    <2>4. StartRecordingSuspends => FALSE
      BY <2>2 DEF StartRecordingSuspends
    <2>5. StartRecordingFails => FALSE
      BY <2>2 DEF StartRecordingFails
    <2>6. CASE User
      BY <2>6 DEF User, Start, Stop, ForceStopRecording, Quit, Launch, inputs
    <2>7. CASE World
      BY <2>7 DEF World, CallStateChanges, DeviceRemoved, DeviceAdded, CooldownExpires, inputs
    <2>8. CASE MainActor
      BY <2>3, <2>4, <2>5, <2>8
      DEF MainActor, HandleCallStateChange, HandleDeviceSwitched, StartRecordingIgnored,
          VoiceMemosStarted, VoiceMemosStartFailed, StopRecording, VoiceMemosStopped,
          RunTearDown, inputs
    <2>9. CASE Automation
      BY <2>9 DEF Automation, VoiceMemosAnswersStart, VoiceMemosAnswersStop, inputs
    <2>10. CASE UNCHANGED vars
      BY <2>10 DEF vars, inputs
    <2> QED BY <2>6, <2>7, <2>8, <2>9, <2>10 DEF Next
  <1>2. Inv /\ [Next]_vars => [Kept]_vars
    BY <1>1
  <1> QED BY <1>2, Invariance, PTL DEF Spec, OriginalInputKept, Kept
===============================================================================
