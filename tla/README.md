# CallRec: a TLA+ model

CallRec records Zoom and Teams calls with Voice Memos.  A macOS application
(`CallRecApp`, Swift) notices that a call is going on, captures the microphone
and the call application's output, and writes both into a shared memory region
(`Common`, C).  An audio driver (`CallRecDriver`, C++ on the vendored library
libASPL) runs inside the system's audio server, offers the virtual input device
"CallRec Virtual Mic", and fills it from the region: Voice Memos hears the call,
the call applications hear only the microphone.  During a recording the
application makes the virtual device the system's default input and drives
Voice Memos by AppleScript or the accessibility API.

## Inventory

| Part | State it keeps | Operations | What it talks to | What makes it correct |
|---|---|---|---|---|
| Ring buffer (`Common/RingBuffer.h`) | write index, read index, slots | write, read, peek, reset | producer in the app, consumer in the driver, no lock | a bounded FIFO without data races, across wrap-around |
| Region (`SharedMemoryHelpers.c`, `SharedProtocol.h`, `SharedMemoryBridge.swift`) | name, size, header, heartbeat, active flag, two rings; the bridge's handle | create, heartbeat, set active, write, destroy, clean up | heartbeat timer on the bridge's queue, capture threads, main thread; the driver in another process | the name belongs to the app's region; nothing is touched after it is unmapped; a half-made region is never used |
| Reader (`SharedMemoryReader.cpp`) | mapping, alive, last heartbeat, stale ticks | try attach, detach, update liveness (never called), read | region, router | attaches only to a complete region; should notice a dead app and follow the app to a new region |
| Router (`SmartRouter.cpp`) | route cache | read input of a client | reader; libASPL calls it on the IO thread | the call applications never hear the other side |
| Orchestrator (`Orchestrator.swift`) | lifecycle state, active app, last failure, queued tasks | start, stop, force stop, call state changes, device switches, start and stop of a recording, tear-down | every other part of the app, on the main actor | a recording owns its pipeline and gives everything back |
| Default input (`SystemAudioDeviceManager.swift`) | saved device | switch, restore | Orchestrator, CoreAudio | the user's device comes back |
| Voice Memos (`VoiceMemosController.swift`) | `isRecording` | start, stop (seconds long, may fail) | Orchestrator, Voice Memos | no orphan recording |
| Call tap, mic (`AudioTapManager.swift`, `MicCaptureManager.swift`) | running, device and tap objects, engine | start, stop, switch, restart | Orchestrator, mixer | everything created is destroyed |
| Call detector (`CallDetector.swift`) | call state, monitors, activity, timers | poll, process audio level, start, stop | reports to the Orchestrator by queued tasks | the reported state follows the call |
| Device monitoring (`BluetoothAudioHandler.swift`) | devices, active device, listeners | enumerate, select, device list and alive changes | CoreAudio, Orchestrator | a usable device is selected |
| Mixer (`AudioMixer.swift`) | gains, delay line, scratch buffers | feed mic, feed tap | capture threads, bridge | order and delay of samples |
| libASPL, vendored (`Dependencies/libASPL`): | | | | |
| – double buffer (`DoubleBuffer.hpp`) | two values, each with a reader-writer lock, a validity flag; the current index | get, take a reference, set | the HAL's threads, the real-time one included; the library's setters | a lock-free reader sees a whole value that stays whole |
| – dispatcher (`Dispatcher.cpp`) | table from identifiers to object addresses, bit set of identifiers | find, register, unregister | every object's constructor and destructor, every call of the HAL | no lookup touches a dead object; identifiers are unique |
| – configuration (`Device.cpp`, `Device.g.cpp`, `Stream.*`) | fields of device and streams, streams and controls, pending requests | asynchronous setters, add, remove, publish, withdraw, perform, abort | the HAL, which is told a number and answers later | requests take effect in order, none is lost, the HAL sees nothing change behind its back |
| – I/O (`Device.cpp`) | clients, start count, zero time stamp, the clock's anchor | add and remove a client, start, stop, time stamp, the operations of a cycle | the HAL; the driver's I/O handler with the router | run state and clock are what the HAL believes |
| – properties (`*.g.cpp`, `Object.cpp`, `Bridge.g.cpp`) | custom properties, owned objects, lists | has, settable, size, data, set | the HAL's clients | the five answers agree while lists change |
| – plug-in (`Plugin.cpp`, `Driver.cpp`) | devices in a vector and two maps, owned devices, switches, volumes | add and remove a device, set, notify, initialise | the HAL, which asks again after a notification | what is listed is found; the HAL's copies end up right |

The hard parts are the interleavings: two processes on one region, two threads
on one ring, queued and suspended tasks on the main actor, devices and
applications that come and go, Voice Memos that answers late or not at all,
crashes on either side.  `PROJECT.json` lists each hazard at its line.

Three things about the user interface matter for the models.  There is the main
window and a `Settings` scene; the menu bar view and the set-up wizard are never
instantiated.  The settings write the detector's `silenceTimeout` from the main
thread (`SettingsView.swift:49`), which the models take as constant.
`OrchestratorState.error` is never entered, so its "Retry" button is never
offered.

## Modules

The application and the driver:

* `AudioFifo` — what the ring promises: a FIFO of bounded length fed with
  numbered frames.
* `RingBuffer` — the ring in detail: a call loads the other side's index, copies
  frame by frame and publishes its own index; the other side runs in between.
  `writeIndex`, `readIndex` and `buffer` are the fields of the C struct; `wr`
  and `rd` are the producer's and the consumer's call in progress; `out` is the
  consumer's destination and `returned` what its last call returned.
  `BeginWrite`, `CopyIn`, `PublishWrite` are the three parts of
  `callrec_rb_write`, `BeginRead`, `CopyOut`, `EndRead` those of
  `callrec_rb_read` and `callrec_rb_peek`.
* `SharedMemory` — the life of the region on both sides.  `app` says where the
  application is between two system calls; regions are numbered as they are
  created and `linked` is the one the name refers to; `host`, `opened`,
  `mapped`, `alive` are the driver.  The contents of
  a ring is abstracted to a number of unread blocks.  `writing` are the writes
  that have passed the bridge's guard; nothing waits for them when the region is
  unmapped, and those that outlive it are `late`: such a write finds nothing to
  write to, crashes the app, or ends up in the next region (`strayed`).
  `UpdateLiveness` and the members it keeps are left out: nothing calls it, so
  that `alive` is what the last attach has made it.
* `Orchestrator` — the recording lifecycle.  `mainQueue` holds the tasks the
  code has enqueued on the main actor in order; code between two awaits is one
  action; a suspended `startRecording` or `stopRecording` is
  `voiceMemos.awaiting`, its continuation a queued job.  The other subsystems
  appear by what the Orchestrator does to them.
* `CallState` — the states the detector reports and the changes of state the
  Orchestrator may assume (`DetectorStep`).  `Orchestrator` takes these changes
  as they come; `CallDetector` shows that it makes no others
  (`ReportsAsAssumed`), but for those of a handler that a stop has overtaken, which
  `Orchestrator` has too (`LateStep`).
* `CallDetector` — how the detector gets there.  A poll is four steps (`Poll`
  reads the running applications, `PollMonitors`, `PollApps`, `PollMic`), an
  audio level two (`AudioLevel` copies the monitor and reads the state,
  `AudioDecide` writes the copy back and acts on what was read: `HearRunning`,
  `HearActive`, `HearEnding`); `handler` holds what the queue has read so far.
  `silenceAge`, `callAge` and `sustained` are the ages of the code's dates; time
  passes in ticks between handlers.  `stopDetecting` is two steps of the main
  thread, which does not use the queue: it overlaps the handlers in every way that
  splits of this grain allow.  `quietAge` and `torn` (the last stop came while a
  handler was running) are history variables.

The driver library:

* `AtomicRegister` — what a double buffer promises: gets and sets take effect
  at one moment between call and return.
* `DoubleBuffer` — `DoubleBuffer.hpp` step by step.  `currentIndex`, `writeMutex`
  and per half `index`, `value` and `shared` (who holds its mutex for reading)
  are the C++ members; `st` and `rd` say what each setter and reader does next.
  A reader loads the index (`LoadIndex`), tries the lock
  (`TryLock`), looks at the index again (`CheckIndex`) and either retries or
  has its value; a setter locks the spare half, stores, switches, invalidates
  and, when the type has a destructor, waits for the readers of the old half.
  The refinement of `AtomicRegister` is `ImplementsRegister`.
* `Dispatcher` — the table of objects and the births and deaths around it.
  `table` is the current version of the map, `snap` the version a lookup holds
  (the double buffer's guarantee, `OldReadersGone`, is its `draining`), `refs`
  the strong references, `life` an object's place between constructor and
  destructor, `bits`, `chunks`, `lastAllocated`, `desiredMaximum` and
  `numAllocated` the allocator of identifiers.  `StartFind`, `Search`,
  `LockRegistration`, `LoadObject`, `SharedFromThis` are `FindObject`;
  `Constructed`, `RegisterObject`, `Registered` and `OwnerDrops`,
  `UnregisterObject`, `Erase`, `Unregistered` are an object's two ends.
* `DeviceConfiguration` — the requests.  A queued function is a sequence of
  edits (`Assign`, `Set`, `Attach`, `Detach`); `pending` is
  `pendingConfigurationRequests_`, `hal` the numbers the HAL has not answered
  yet, `dev` everything an edit can change, `listed` the device's own tables,
  which change at once.  Every setter, `AddStreamAsync`, `RemoveControlAsync`
  and so on is an action of its own; `Publish` and `Unpublish` are
  `RequestOwnershipChange`, `HALAnswers` performs or aborts.
* `DeviceIO` — extends it with the device at work as `PluginEntry` builds it:
  clients, `StartIO` and `StopIO`, the clock (`anchor`, `periods`, `zero`), one
  I/O cycle (`BeginIOOperation`, `DoIOOperation`, `CallHandler`,
  `EndIOOperation`) and the router's cache of routes.
* `PropertyTables` — the five switches of each class as five tables each, read
  off the generated code one by one.  A class's table is put together from parts
  (what `Object.g.cpp` answers for every class, and for the device its identity,
  formats and run state), the same parts in each of the five switches.
* `PropertyInquiry` — interprets them: `AskHas`, `AskSettable`, `AskSize`,
  `AskData`, `AskSet` are the five calls of one inquiry, and lists, owned
  objects, custom properties and the objects themselves change in between.  Its
  formulas are called `InquiryInit`, `InquiryNext`, `InquirySpec`.
* `PluginDevices` — `AddDevice` and `RemoveDevice` in their four steps, the
  setters that take effect at once, and the HAL's copies, which it refreshes
  after notifications.

How they fit together: `RingBuffer` is the inside of the `unread` counters of
`SharedMemory`; `bridge = TRUE` in `Orchestrator` is the span from `ready` to
`quiet` in `SharedMemory`.  `DoubleBuffer` justifies that the modules above it
read a table in one step; `Dispatcher!FoundIsAsked`, that the object a call
reaches is the one it was addressed to; `DeviceConfiguration` and
`PluginDevices` are what `PropertyInquiry`'s setters lead to.

The theorems are in `RingBufferProofs`, `SharedMemoryProofs`, `CallDetectorProofs`,
`OrchestratorProofs`, `DoubleBufferProofs`, `ObjectProofs` (dispatcher and property
inquiries), `DeviceProofs` (configuration and I/O) and `PluginDevicesProofs`; the
modules whose name begins with `MC` are instances for TLC.  Operators named as mutants next to
a definition are plausible bugs of it; each property is violated when the
definition is replaced by one of them.

## Runs

| Run | Instance | Shows |
|---|---|---|
| `ring_buffer` | 4 slots, requests of 1 to 5 frames (larger than the ring), 9 frames | The indices go twice around, every split of a copy at the end occurs, the ring gets full and empty. `NoOverlap`: the two sides never touch one slot at once; `RingInv`: the slots hold what the indices say, in order, never more than fits; `UnreadStable`: nobody overwrites what is unread; `EveryFrameDelivered`; `ImplementsFifo`: the refinement. |
| `orchestrator` | two call apps, a fixed and a removable microphone, three jobs pending when the world adds one | The user can start again before the tear-down of the last stop has run; a handler of the detector may report once more after a stop.  A call can end, resume and move to the other app while a start or stop is queued, suspended or about to continue. `LifecycleInv`: at most one suspended task; `PipelineFollowsState`: a recording holds its pipeline, and idle holds none; `NoOrphanRecording`; `OriginalInputKept`: the user's device is given back unless it is gone or the system refuses; `TransitionsEnd` (preparing and stopping end), `NoticedEndStops`. |
| `shared_memory` | two regions (one replaced by the next, by destroy or by crash and relaunch), two heartbeats each, a ring of one block | A driver attaches at any point of a create or destroy; a write outlives its region.  `NameIsOurs`; `AttachedIsValid`: what is mapped is complete; `ResetInvisible`: a reset overwrites nothing a reader has seen, but for a late write's block; `EventuallyAttached`. |
| `call_detector` | two apps, all periods one tick, stops at any time | One app quits, speaks or fails to be tapped while the other is in a call. `DetectorInv`: timers, monitors and state go together; `ReportsAsAssumed`; `EndsOnlyAfterSilence`, and not within the grace period; `CallEnds`: by the apps, or by silence.  The first and the third except what a handler leaves that a stop has overtaken, until the next stop that overtakes none; the second excepts what such a handler reports. |
| `double_buffer` | two readers, two setters, three sets | A reader is overtaken by two sets between loading the index and taking the lock. `ReferenceStable`, `OldReadersGone`, `AccessesFinish` (readers and setters), `ImplementsRegister`. |
| `dispatcher` | two lookups, two plug-in objects (one identifier) and three others, three constructions, chunks of two bits, first ranges of 3 and 4 | Identifiers run out, the range doubles, the bit set grows, lookups meet objects in every stage of their lives. `NoUseAfterFree`, `DispatcherInv` (a lookup finds what it asked for; table and objects match), `NeverResurrected`, `ReuseOnlyWhenExhausted` (nothing is reused before the first range is used up), `OperationsFinish` (lookups and destructors). |
| `device_configuration` | two streams, one control of each kind, two values, lists of available values, three requests | `ConfigurationInv`: requests are applied in order and at most once, each is applied, aborted or waiting, the stream counts are those of attached streams, the device's tables are ahead by exactly what waits; `ChannelsDisjoint`, `LastRequestWins`, `FrozenWhileVisible`. |
| `device_io` | two client IDs, Voice Memos and a call app, two streams, two rates and periods, one request after the first, three ticks; the two clients are interchangeable (symmetry) | The reader behind the handler has a region or not.  `IOInv`: the HAL's idea of a running device is right, only a stream whose removal was requested is refused, an operation offered has a stream, no time stamp lies in the future; `RouteFollowsApplication`; `StampsAdvance`. |
| `properties` | the plug-in, a device, an input stream, two controls, one custom selector, two changes | Every class, selector and scope. `InquiryInv`: what exists has a size and, in a buffer of that size, data; what does not exist has neither; never more than the room is written; settable means there is a setter.  Excepted are hidden custom setters, custom properties without a getter and an inquiry without the qualifier that `TranslateUIDToDevice` needs (see the notes). |
| `plugin_devices` | two devices, a stream, two controls, four operations, the HAL keeps copies of any two properties | `PluginInv`: the tables agree between operations, what is listed is found, the HAL's copy is right or about to be asked for; `ViewConverges`. |
| `recording_belongs_to_call` | as `orchestrator` | What a comment promises and the Orchestrator does not do; see the findings, 4. |
| `read_is_safe` | as `shared_memory` | Likewise for the driver's reader; see 1. |

Four runs have no deadlock check: the ring's stream of frames ends; requests,
operations and ticks are bounded in `device_configuration`, `plugin_devices` and
`device_io`.

### Bounds

`StreamLength`, `MaxPending`, `MaxRegions`, `MaxBeats`, `MaxSets`, `MaxBirths`,
`MaxRequests`, `MaxTime`, `MaxChanges`, `MaxOperations` and `Copies` are the only
bounds that the code does not have.  The ring's behaviour depends on the indices
modulo the capacity and on their difference, which the proofs confirm for every
capacity and length.  `MaxPending` limits only what the world adds; the code's
own jobs are always enqueued.  The detector compares ages with its periods only,
and an age is counted up to the largest of them, so that periods of one tick
show before, at and after each of them; the grace period and the time-out
together make two.  Two regions are enough for a driver to hold an old one while
the name refers to a new one.  Three sets overtake a reader by a whole turn of
the two halves; three constructions fill the first range, reuse an identifier
and grow the bit set; the proofs about both modules need neither bound.  Three
requests put one in front of and one behind another, under performing, aborting,
withdrawing and publishing again.  In `device_io` the library's own properties
are checked elsewhere, so one request suffices to change what the cycle or the
clock is using, and three ticks pass two periods of the faster rate.  An inquiry
has four gaps; two changes put one into any two of them.  `Copies` only limits
how many properties a behaviour watches at once: every pair is watched in some
behaviour.

### Fairness

Ring: calls in progress are finished (wait-free code), and the consumer keeps
reading, as an audio unit that is running does.  Orchestrator: the main run loop
serves its queue and the automation calls return, by success or error.  They have
no time-out of their own (`VoiceMemosController.swift:116-124` waits for a semaphore,
`:188` for a script), so that this is an assumption about the system; neither the user, the detector nor the devices owe anything.  Region:
a client that has started the device reads in every IO cycle, and mapping a region
does not fail for ever.  Detector: time
passes, its timer fires, a handler finishes, and a live tap delivers audio whose
average falls while the app is silent (a real one delivers every few
milliseconds); apps, microphone and user owe nothing.  Double buffer and
dispatcher: a thread that is inside a call is run, and no thread is made to begin
one, so that a Set or a destructor may never be called.  Plug-in: an operation
that has begun goes on, and the HAL asks for what it was notified of.
`DeviceConfiguration` states that the HAL answers, which no property of its run
needs; `DeviceIO` and `PropertyInquiry` state no fairness.

### Assumptions

* One instance of the application runs at a time.
* When the user clicks Start, no `startRecording` that was queued before the last
  click on Stop still waits.  The tear-down of that stop may.  Without this
  assumption `PipelineFollowsState` fails: see finding 11.
* Torn reads of the detector's state, an enumeration with a string inside, are not
  modelled, nor is a change of `silenceTimeout` while a call is ending.
* Automation of Voice Memos that fails has done nothing: it is not left recording
  by a start that failed, nor stopped by a stop that failed.
* The activity average is above its threshold only after audio louder than the
  silence threshold, and falls below it some time after the audio stops.
* The frames of one `memcpy` are copied in ascending order; `NoOverlap` shows
  the order cannot be observed.
* The HAL never gives two clients one ID, also after the first has gone.  No comment
  of the repository says so; the router, which removes no route, relies on it, and
  so does `RouteFollowsApplication`.
* The HAL, as the comments of `Device.hpp` and Apple's header have it: it adds a
  client before it starts I/O for it, ends all I/O before it answers a configuration
  request, answers in the order of the requests, reads a property again when it is
  told that its selector has changed.
* A device has fewer streams than a 32-bit counter can count, and no two kinds of
  object share an identity; clients and objects are finitely many.  These are in
  the modules' named assumptions, with the types of the constants.
* The atomics of the double buffer are sequentially consistent, as they are in the
  code but for the setter's load of an index that only setters write.

## What the runs found

1. **A read brings the audio server's driver host down** (`ReadIsSafe`): the
   region is mapped `PROT_READ` and `callrec_rb_read` stores `readIndex` in it.
2. **The driver never notices a dead application**: `UpdateLiveness` has no
   caller.  `AudioConstants.h:19-20` says that the "driver considers data stale
   after 500ms of no heartbeat update", and `SharedMemoryReader.cpp:3-5` that it
   "falls back to silence when the app isn't running or data is stale".
3. **The driver never leaves a destroyed region**: once attached it reads the
   mapping it has, and nothing makes it look at the name again.
4. **A call that ends while Voice Memos is being started is recorded for ever**
   (`RecordingBelongsToCall`), until the user stops it.
5. **A call reported while the previous recording stops is not recorded**: the
   Orchestrator ignores it, and the detector does not report it again.
6. **Quitting during a recording leaves the virtual microphone as the default
   input**: `applicationWillTerminate` removes the region and restores nothing.
7. **A call is not over when its app quits while another call app runs**: the
   state names an app nothing will be heard of again.
8. **A stop that overlaps an audio level spoils the next call's silence timer**:
   that call is ended at the first silent level after its grace period.  This is what
   `torn` excepts in `EndsOnlyAfterSilence`; without the exception the run finds it.
9. **A write may outlive its region**: the guard of `writeMicOnly` and `writeMixed`
   (`SharedMemoryBridge.swift:47`, `:53`) is read on a capture thread, outside of the
   queue on which `destroy` unmaps the region and frees the bridge.
10. **A refused restore is forgotten**: `restoreOriginalInput` drops the error of
   `setDefaultInputDevice` (`SystemAudioDeviceManager.swift:55`) and forgets the saved
   device all the same (`:58`).  The default stays on the virtual microphone, and the
   next recording saves that as the user's device.  `refused` excepts it in
   `OriginalInputKept`.
11. **A stop and a start between a report and its task tear down a recording**: if
   both clicks are served while a `startRecording` waits in the queue, it runs in
   state monitoring, and the tear-down of the stop takes its pipeline away.

1 and 4 have a run that shows them.  The others are known from the models and
have no run of their own: each but 2, where what is missing is a call, and 11 is one of
the modules' behaviours, and the properties that would exclude it are not stated.

Also seen and modelled: a tap start that fails half way leaves its process tap
and aggregate device behind (`leaked`), nothing retries a failed attempt when the
cooldown is over, a failed device switch leaves the recording without a
microphone, and a call app that restarts between two polls is not listened to.

### Notes on the library

Where the vendored code does less than its comments say, or relies on a
discipline of its callers; CallRec's use of it keeps clear of most of this.

* Double buffer: a thread that holds a `ReadLock` and sets the same buffer waits
  for itself.  `SetPropertyDataFallback` calls the user's setter under the read
  lock of the custom properties (`Object.cpp:437-481`).
* Dispatcher: `FreeID` of the plug-in's fixed identifier decrements a count that
  was never incremented; it wraps, and the next allocation doubles the range.
  The model has this (`Word`); identifiers stay unique.  The bridge casts what it
  finds with `static_pointer_cast`, so an identifier that comes back for an
  object of another class is a matter of how late identifiers are reused.
  `Dispatcher.hpp:34` says the algorithm "tries to delay identifier reuse", and
  `:118-123` that free identifiers below the maximum are reused when the next one
  exceeds it.  That an identifier comes back only when all below the maximum were
  handed out holds for the first range (`ReuseOnlyWhenExhausted`), not for the
  later ones: the search goes round at the end of the bit set
  (`Dispatcher.cpp:236`), not at the maximum, which has doubled meanwhile, and so
  can come back to a freed identifier while others below the maximum are unused.
  The weak
  pointer behind `shared_from_this` is read while `make_shared` may be writing it.
* Configuration: a setter compares with the value in force, not with the one that
  waits, so that setting the old value back while a change is pending is dropped
  and the pending one wins (`Device.hpp:295`: "By default returns the last value set
  by SetLatencyAsync()").  A setter of an optional field stores nothing when the derived value happens to
  equal it.  `RemoveStreamAsync` of a stream that was never attached, because the
  HAL aborted that, wraps `numInputStreams_`; an aborted removal leaves a stream
  the HAL sees and I/O refuses.  The rate is checked when it is requested, not
  when it is applied.  A change of a stream's physical format can make its
  channels overlap the next stream's.
* Locks: adding one stream to two devices makes `AttachOwner` wait for itself
  (`Object.cpp:187-199`); a stream's setter takes the stream's and then the
  device's write mutex, adding streams the other way round.  The library's
  `README.md:484` says that all operations are thread-safe.  No module has it:
  CallRec sets neither from two threads.
* I/O: withdrawing a device while I/O runs applies what waits in place, under the
  running clock (`Device.cpp:1649`); `StampsAdvance` is about devices that stay
  published.  `GetIOHandler` returns a raw pointer out of a temporary reference
  (`Device.cpp:1207`).  `SmartRouter.hpp:42` and `:47` speak of a cache per
  bundle ID; it is per client ID.
* Properties: a channel layout that grows between size and data is refused.  A
  custom property without a getter is said to exist, has a size, and no data.  One
  under a standard selector is reached by nothing but a set: the fallback of
  `SetPropertyData` finds its setter when the class has none, although
  `IsPropertySettable`, asked of the class, says that there is none
  (`HiddenSetter`).  `TranslateUIDToDevice` of the plug-in exists and has a size, but
  without a `CFString` as qualifier its data is refused with
  `kAudioHardwareBadPropertySizeError` (`Plugin.g.cpp:388-395`), where a caller may
  think its buffer is too small.  `Identify` is settable and its
  setter unsupported.  Notifications of scoped properties carry the global scope
  (`Object.hpp:146-157`).  Two devices with one UID share an entry.
  `SetRawValue` compares before it clamps and may notify of no change.

## Proofs

`RingBufferProofs` proves, for every capacity, request size and stream length:

* `TypeCorrect`, `NoDataRace`, `InOrder`, `WithinOneLap`,
  `PublishedFramesStable`, `RingInvariant`, and `RingIsFifo`: the ring refines
  `AudioFifo`.

The argument: none of the safety properties is inductive alone, because none
says what the slots contain.  `RingInv` adds that slot `k % Frames` holds frame
`k + 1` for every `k` between the read index and the last frame copied in, that a
read in progress stays within what was published, and that the counters of
the two calls stay in range.  The one arithmetic fact behind it is that two
indices less than a capacity apart have different slots (`DistinctSlots`, from
`ModUnique`), so that copying a frame in disturbs no other live frame
(`CopyInInv`).  For the refinement the queue of the FIFO is written as a run of
consecutive frames (`QueueIsRun`), publishing a write appends a run to it and
ending a read takes one off the front (`RunConcat`, `RunPart`), and every other
step leaves it alone.  The assumption is `RingAssumption`: the capacity and the
request size are positive naturals.

`SharedMemoryProofs` proves, for any number of regions and heartbeats, any size
of the rings and any set of clients:

* `TypeCorrect`, `NameOwned`, `AttachedComplete`, `ResetUnseen`.

The argument: `NameIsOurs` and `AttachedIsValid` need `SharedInv`, which says how
far the app's region is made at each step of its making (a region just opened is
empty, because the name is free whenever the app is idle), that writes are in
progress only while capturing, and that an attach has opened some region.  A
store of the app keeps size and header of its region (`OwnStore`, `UseRegionInv`),
also one of a late write (`StoredRegion`, `EndLateWriteInv`); every other step stores
into none.  `ResetUnseen` follows because a region that is described and not yet
reset differs from the one after the reset in the rings that a late write has
stored into (`strayed`), and in nothing else (`ResetRegionInv`).  The assumption is
`SharedMemoryAssumption`.

`CallDetectorProofs` proves, for any apps and periods, and stops at any moment:

* `TimersTogether`, `ReportsAssumed`, `SilenceEndsCalls`.

The argument: a handler acts on the state it read.  What holds always (`Always`) is
that this state is still the current one or that a stop has reset the state since
(`HandlerRuns`), which is what `ReportsAssumed` needs.  Timers and state fit together
(`Coherent`) as long as the last stop overtook no handler: then the state read is the
current one (`HandlerFresh`), and a stop has cleared all timers (`StopsClear`).  The
invariant is `Always /\ (~torn => Coherent)`; a stop that overtakes no handler
establishes `Coherent` from `Always` alone.  What an audio level may do to state and timers is one relation
(`HearStep`, `AudioHears`).  That silence ends a call only after the whole
time-out needs `AgesOrdered`: while a call is ending the last activity is at least
as long ago as the silence, and the call is older than the silence by the grace
period.  Ages are counted up to a bound only; that this keeps the order is
`OlderKeepsOrder`.  The assumptions are `TimeAssumption` and `AppAssumption`.

`OrchestratorProofs` proves, for any apps, devices and numbers of waiting jobs:

* `LifecycleIsConsistent`, `PipelineMatchesState`, `NoRecordingIsOrphaned`,
  `OriginalInputIsKept`.

The argument: the lifecycle state has to be tied to the jobs in the queue.
`TaskInQueue` says so in terms of which answers of Voice Memos wait (`Has`,
`AtMostOne`), and `AppendToQueue` and `TailOfQueue` say what enqueueing and
serving a job do to them.  A job that is no such answer leaves all of it alone
(`ServeOther`, `OrdinaryStep`); when an answer is served no other can be waiting
(`ServeAnswer`).  Three conjuncts of `Inv` are needed besides: the tear-down that
`stop()` enqueues runs before any recording that is started again (`TearDownIsIdle`:
every `startRecording` in the queue follows it, `StartsFollow`, and no job takes its
place, `TearDownsKept`), what ends with the process (`ProcessGone`), and that a recording
of Voice Memos always has a task, queued or suspended, or a state that will deal with
it (`Remembered`).  The assumptions are `DeviceAssumption` and `AppAssumption`.

`DoubleBufferProofs` proves, for any number of readers, setters and sets:

* `TypeCorrect`, `ReadersSafe`, `ReplacedValuesUnused`, `LinearizableRegister`.

The argument: setters exclude each other (`Serialized`); a setter has numbered
the spare half and has it without readers before it changes its value, and has
the old half invalid and without readers before it destroys that (`Prepared`); a
half with a valid number holds that value, except the one a setter is filling, and
the current half always does (`Contents`); a reader past its lock is among the
readers of the half its index names (`Looked`).  From these `ReferenceStable`
follows step by step.  The refinement maps a set to the step that switches the
index and a get to the step that loads it for the last time.  The assumption is
`DoubleBufferAssumption`.

`ObjectProofs` proves, for any lookups, objects, chunk sizes and first ranges:

* `TablesAgree`, `LookupsSafe`, `DeadStayDead`, `ReuseIsDelayed`;

and for any objects, custom properties, lists and buffers:

* `AnswersFit`.

The argument about the dispatcher: the registered objects, and those in the
versions that lookups still hold, are in a part of their life in which they have
not been destroyed (`Lifecycle`, `LookupsCovered`): an object leaves the destructor
only when no lookup holds a version with it.  The table is exactly the registered
objects (`TableExact`), and its identifiers are exactly the bits that are set,
within the bit set (`BitsInRange`).  That the allocator returns a free identifier
rests on there being a least element of a non-empty set of naturals
(`LeastExists`, from the library's well-foundedness of `<` on the naturals).
`ReuseIsDelayed` adds `Rounds`: the identifiers handed out are the range from 2 to
the last one, or the first range is used up.  A next identifier below the first
range's end is free as long as the former holds (`FirstFound` for the very first).

The argument about the inquiries has two parts.  `Fit` says of the five tables of
some selectors that they know the same selectors, that size and data have one
getter and one width, and that the settable selectors are those with a setter, of
the width of the size.  It is shown for each part of each class (`IdentityFits`,
`FormatFits`, `StateFits`, `StreamFits`, ...), and tables that fit can be put
together (`MergedFits`, `ClassesFit`).  The invariant `InquiryIInv` says what each
answer given so far is in terms of these tables and of the lists, unless
something has changed since the first question (`disturbed`) or the one qualifier
that is needed was left out (`QualifiedHasCase`); whatever changes,
the data written stays within the room.  The assumptions are
`DispatcherAssumption` and `InquiryAssumption`.

`DeviceProofs` proves, for any fields' values, streams, controls, requests, clients
and applications:

* `ConfigurationHolds`, `ChannelsDisjointHolds`, `LastRequestWinsHolds`,
  `FrozenWhileVisibleHolds`;
* `HearsItsRoute`, `RunStateKnown`, `IOInvHolds`, `StampsAdvanceHolds`.

The argument about the configuration: what the functions that wait will do to the
device is not in its state, so the invariant `ConfigIInv` speaks of the course of the
device through them.  `Coming` says that at each point of that course the counters
are those of the children attached, and that it ends with the children the device's own
tables list, unless an addition or a removal was aborted, which breaks that
promise for good.  A function's effect on children and counters depends on
nothing else of the device (`RunSame`), so the course moves along when a request is
queued (`RequestWalk`), performed or aborted (`ShiftWalk`), or run with all the others
on a withdrawal.  `Ordered` says that numbers and the HAL's identifiers rise
along what was applied and what waits, `Accounted` that each request is applied,
aborted or waiting; `Good` what the functions applied so far leave in the device:
its types (`DevOK`), and in each field without a derived value that of the last
setter (`Settled`).  `SpansApart` says that streams listed in one direction have
channels of their own; a new one begins behind the last (`ChannelAfterLast`), where
"last" exists because there are finitely many streams.  `FrozenWhileVisible` is
proved from the same invariant: while the device is published every setter only
queues (`StepUnseen`).

The argument about I/O: `RouteInv` ties the cache of routes to the applications
behind the identifiers (`CacheRight`); it holds because no identifier is given out
twice, which is assumed of the HAL (no comment says so), and because the safe default of a client the
device does not know is not remembered.  An operation under way belongs to a
client that is started and so still there (`CycleRight`).  `HALKnowsRunning`
follows from the cardinality of the set of started clients.  Every step of
`DeviceIO` is one of `DeviceConfiguration` or leaves it alone (`IOConfigSteps`), so
`ConfigIInv` holds here too, and while the device is published the fields the clock
reads change only in an answer, which the HAL does not give while I/O runs
(`FieldsFrozen`).  With that, `ClockRight` is inductive: the latest period has begun, and the
stamp the HAL took is that of the latest period; time stamps go forward because
periods do and the truncation to host ticks, after the multiplication, keeps their
order (`QuotientsGrow`, `TicksGrow`).  `StreamsKnown`: a stream once added is in the table, or its removal was
requested.  The assumptions are `ConfigurationAssumption` and `IOAssumption`; the
invariant of both parts together is `IOIInv`.

`PluginDevicesProofs` proves, for any devices, streams, controls, values and
properties watched:

* `PluginInvHolds`.

The argument: `PluginInv` compares tables at rest, so `PluginIInv` says how far an
operation under way has come: the vector and the two maps are the owned devices, with
or without the one being added or removed according to the stage (`TablesStaged`),
and each object has at most one operation, of its own kind (`BusyOK`).  What the HAL
has copied is the present value, or a notification that names the property is
still to come or to be acted on (`HALKnows`, `WillBeAsked`); a size the HAL was told
is still that of the list under the same proviso (`SizeIsCurrent`), which is why the
answer it gets next is complete.  `RemoveFirst` takes a device out of the vector
altogether because the vector has no duplicates (`RemoveFirstDistinct`).  The
assumption is `PluginAssumption`.

With these, every invariant and every action property of the passing runs is
stated by a theorem.  The inductive invariants of the last three modules were
checked by TLC on the instances of the runs before they were proved.

Induction over data is done where a proof needs it by hand: the library's
induction theorems take an operator, which the provers here cannot instantiate, so
`Induction` and `GreatestExists` (`DeviceProofs`) are stated for sets of naturals and
proved from the least element of the counterexamples.  With them the recursive function
behind `Course` is shown to be defined (`CourseDefined`), and what holds after one function
is carried over any number of them (`WalkGood`, `WalkCounts`).

Model-checked only: every liveness property (`EveryFrameDelivered`, `TransitionsEnd`,
`NoticedEndStops`, `EventuallyAttached`, `CallEnds`, `AccessesFinish`,
`OperationsFinish`, `ViewConverges`), which is out of the prover's reach, as is
ENABLED; and the two runs that expect a violation.

## Not modelled

* Signal processing: gains, levelling, resampling and the delay line of
  `AudioMixer.swift`, what libASPL's controls do to samples, conversion of sample
  formats, the arithmetic of `VolumeCurve`.  They are floating-point functions of
  sample values.  Setting `config` while the tap thread is in `applyDelay`
  (`AudioMixer.swift:203-206`) replaces the delay buffer under it.
* `MicCaptureManager`'s restart after an engine configuration change: when the
  engine cannot be started again, `isRunning` stays true (`:182`).
* `BluetoothAudioHandler`'s choice among devices and its listener table: a change
  of the device list installs new listeners next to the old ones (`:242`).
* A device switch whose second half fails (`Orchestrator.swift:190`), and
  `isRunning` of the tap after a failed set-up (`AudioTapManager.swift:57`), are in
  the model as behaviours without a property about them.
* In the detector: an activation by the microphone leaves the activity of another
  app in place (`CallDetector.swift:333`), an app that restarts between two polls
  keeps the monitor of its old process (`:185`), and CallRec's own capture keeps the
  input device in use (`:354`), which would need detector and Orchestrator composed.
* `UpdateLiveness` of the reader, which nothing calls.
* `callrec_rb_peek` anywhere but at the read index, which is the only use that the
  repository has of it (`test_ring_buffer.c`); the cap of the identifiers' range at
  half of 32 bits (`Dispatcher.cpp:180`), far beyond every bound; a channel layout
  without channels or with another tag, which `GetPreferredChannelCount` passes over
  (`Device.cpp:210-223`) and CallRec does not set.
* libASPL's tracer, storage (CallRec uses neither), string conversion and the
  reference count of the driver interface.
* Error texts, timers that only feed the display, the search of buttons in Voice
  Memos, login item and driver installation, and the windows.

## Where to go on

1. `RecordingSystem`: detector and Orchestrator composed, with the capture that
   keeps the microphone in use.
2. `MicCapture` with engine configuration changes, `DeviceMonitor` with listeners
   and the choice of a device, the mixer's delay line against its definition.
3. The seams between the modules as theorems: that `unread` in `SharedMemory` is
   what `AudioFifo` promises, and that a table behind an atomic register is read in
   one step.
