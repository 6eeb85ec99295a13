---------------------------- MODULE SharedMemory -----------------------------
(***************************************************************************)
(* The shared memory region between the app and the driver: who creates,   *)
(* initialises, maps and unlinks it, and what the other side sees of it.   *)
(* App side: Common/SharedMemoryHelpers.c and SharedProtocol.h under       *)
(* CallRecApp/Core/SharedMemoryBridge.swift, as the Orchestrator uses it.  *)
(* Driver side: CallRecDriver/SharedMemoryReader.cpp, SmartRouter.cpp.     *)
(*                                                                         *)
(* The two run in different processes, each of which may die and restart   *)
(* at any time; a step is one system call or one group of stores.  Every   *)
(* shm_open that creates the name creates a new, empty region: regions are *)
(* numbered in the order of their creation and stay mapped where they are  *)
(* mapped, linked or not.  The contents of a ring is its number of unread  *)
(* blocks; module RingBuffer has the rest.                                 *)
(***************************************************************************)
EXTENDS Naturals, Sequences

CONSTANTS Rings,        \* micOnly and mixed
          MicOnly, Mixed,
          Bundles,      \* bundle identifiers of the clients that read
          VoiceMemos,   \* CALLREC_BUNDLE_VOICE_MEMOS
          RingRoom,     \* blocks a ring holds
          MaxRegions,   \* bound: regions created
          MaxBeats      \* bound: heartbeats of one region

ASSUME SharedMemoryAssumption ==
  /\ Rings = {MicOnly, Mixed} /\ MicOnly # Mixed
  /\ VoiceMemos \in Bundles
  /\ {RingRoom, MaxRegions, MaxBeats} \subseteq Nat \ {0}

VARIABLES
  regions,     \* the regions created so far
  linked,      \* the region the name /callrec_audio_bridge refers to, or None
  app,         \* the app: down, idle, or where it is in the life of its region
  mine,        \* the region the app has created, or None
  writing,     \* rings with a write that has passed its guard
  late,        \* those whose write has outlived the region it was meant for
  strayed,     \* history: rings of the app's region that such a write has stored into
  host,        \* the process the driver runs in: down, crashed, up, attaching
  opened,      \* the region an attach in progress has opened, or None
  mapped,      \* the region the reader has mapped (mAttached), or None
  alive        \* mAlive

writes == <<writing, late, strayed>>
bridge == <<linked, app, mine, writes>>
reader == <<opened, mapped, alive>>
vars == <<regions, bridge, host, reader>>

None == 0
EmptyRegion == [sized |-> FALSE, described |-> FALSE, heartbeat |-> 0, active |-> FALSE,
                unread |-> [r \in Rings |-> 0]]

-----------------------------------------------------------------------------
Init ==
  /\ regions = <<>> /\ linked = None
  /\ app = "down" /\ mine = None /\ writing = {} /\ late = {} /\ strayed = {}
  /\ host = "down"
  /\ opened = None /\ mapped = None /\ alive = FALSE

(* The app: launch, then create, use and destroy a region, again and again *)

\* Launching cleans up what a crash may have left (cleanupStale).
Launch ==
  /\ app = "down"
  /\ app' = "idle" /\ linked' = None
  /\ UNCHANGED <<regions, mine, writes, host, reader>>

\* callrec_bridge_create, first system call: opens the name, creating the
\* region unless the name is taken.
OpenRegion ==
  /\ app = "idle"
  /\ IF linked = None
       THEN /\ Len(regions) < MaxRegions
            /\ regions' = Append(regions, EmptyRegion)
            /\ linked' = Len(regions) + 1
       ELSE UNCHANGED <<regions, linked>>
  /\ mine' = linked'
  /\ app' = "opened" /\ strayed' = {}
  /\ UNCHANGED <<writing, late, host, reader>>

SizeRegion ==
  /\ app = "opened"
  /\ regions' = [regions EXCEPT ![mine].sized = TRUE]
  /\ app' = "sized"
  /\ UNCHANGED <<linked, mine, writes, host, reader>>

\* Mutant: a failed create forgets to unlink.
CreateFailsLinked ==
  /\ app \in {"opened", "sized"}
  /\ app' = "idle" /\ mine' = None
  /\ UNCHANGED <<regions, linked, writes, host, reader>>

\* ftruncate or mmap fails: close, unlink, and the recording does not start.
CreateFails ==
  /\ app \in {"opened", "sized"}
  /\ app' = "idle" /\ linked' = None /\ mine' = None
  /\ UNCHANGED <<regions, writes, host, reader>>

\* mmap succeeds and callrec_shm_init writes the four fields a reader checks.
DescribeRegion ==
  /\ app = "sized"
  /\ regions' = [regions EXCEPT ![mine].described = TRUE]
  /\ app' = "described"
  /\ UNCHANGED <<linked, mine, writes, host, reader>>

\* Mutant: the reset clears the header as well.
ResetRegionWipes ==
  /\ app = "described"
  /\ regions' = [regions EXCEPT ![mine] = [EmptyRegion EXCEPT !.sized = TRUE]]
  /\ app' = "ready"
  /\ UNCHANGED <<linked, mine, writes, host, reader>>

\* The rest of callrec_shm_init: heartbeat, active and both rings to zero.
ResetRegion ==
  /\ app = "described"
  /\ regions' = [regions EXCEPT ![mine] =
                   [EmptyRegion EXCEPT !.sized = TRUE, !.described = TRUE]]
  /\ app' = "ready"
  /\ UNCHANGED <<linked, mine, writes, host, reader>>

\* setActive(true), and the captures start.
Activate ==
  /\ app = "ready"
  /\ regions' = [regions EXCEPT ![mine].active = TRUE]
  /\ app' = "capturing"
  /\ UNCHANGED <<linked, mine, writes, host, reader>>

\* Mutant: the timer starts before the region is initialised.
HeartbeatEarly ==
  /\ app \in {"described", "ready", "capturing", "quiet"}
  /\ regions[mine].heartbeat < MaxBeats
  /\ regions' = [regions EXCEPT ![mine].heartbeat = @ + 1]
  /\ UNCHANGED <<bridge, host, reader>>

\* The timer on the bridge's queue, which also runs create and destroy.
Heartbeat ==
  /\ app \in {"ready", "capturing", "quiet"}
  /\ regions[mine].heartbeat < MaxBeats
  /\ regions' = [regions EXCEPT ![mine].heartbeat = @ + 1]
  /\ UNCHANGED <<bridge, host, reader>>

\* One more block in a ring of the app's region; a full ring takes nothing.
Stored(ring) == [regions EXCEPT ![mine].unread[ring] = IF @ < RingRoom THEN @ + 1 ELSE @]

\* writeMicOnly and writeMixed, on the capture threads, which do not use the
\* queue that serialises create, heartbeat and destroy.  The bridge lets a
\* write pass until destroy returns.
BeginWrite(ring) ==
  /\ app \in {"capturing", "quiet", "unmapped"} /\ ring \notin writing \cup late
  /\ IF app = "unmapped"
       THEN late' = late \cup {ring} /\ UNCHANGED writing
       ELSE writing' = writing \cup {ring} /\ UNCHANGED late
  /\ UNCHANGED <<regions, linked, app, mine, strayed, host, reader>>

EndWrite(ring) ==
  /\ ring \in writing
  /\ regions' = Stored(ring)
  /\ writing' = writing \ {ring}
  /\ UNCHANGED <<linked, app, mine, late, strayed, host, reader>>

\* A write whose region is gone uses a bridge that was freed.  It finds shm
\* cleared and does nothing, or stores into what was unmapped and the app
\* crashes (Crash), or the memory is that of the next bridge.
EndLateWrite(ring) ==
  /\ ring \in late
  /\ \/ UNCHANGED <<regions, strayed>>
     \/ /\ app \in {"described", "ready", "capturing", "quiet"}
        /\ regions' = Stored(ring) /\ strayed' = strayed \cup {ring}
  /\ late' = late \ {ring}
  /\ UNCHANGED <<linked, app, mine, writing, host, reader>>

\* tearDown: the captures are told to stop; setActive(false).  Nothing in the
\* bridge waits for a callback that is in the middle of a write.
Quiesce ==
  /\ app \in {"ready", "capturing"}
  /\ regions' = [regions EXCEPT ![mine].active = FALSE]
  /\ app' = "quiet"
  /\ UNCHANGED <<linked, mine, writes, host, reader>>

\* callrec_bridge_destroy: munmap, then shm_unlink.
UnmapRegion ==
  /\ app = "quiet"
  /\ app' = "unmapped" /\ late' = late \cup writing /\ writing' = {}
  /\ UNCHANGED <<regions, linked, mine, strayed, host, reader>>

UnlinkRegion ==
  /\ app = "unmapped"
  /\ app' = "idle" /\ linked' = None /\ mine' = None
  /\ UNCHANGED <<regions, writes, host, reader>>

\* applicationWillTerminate unlinks the name.
Quit ==
  /\ app \in {"idle", "ready", "capturing"}
  /\ app' = "down" /\ linked' = None /\ mine' = None /\ writing' = {} /\ late' = {} /\ strayed' = {}
  /\ UNCHANGED <<regions, host, reader>>

\* A crash leaves the name behind.
Crash ==
  /\ app # "down"
  /\ app' = "down" /\ mine' = None /\ writing' = {} /\ late' = {} /\ strayed' = {}
  /\ UNCHANGED <<regions, linked, host, reader>>

-----------------------------------------------------------------------------
(* The driver                                                              *)

Detached ==
  opened' = None /\ mapped' = None /\ alive' = FALSE

\* The audio server loads the driver; the SmartRouter tries a first attach.
HostStarts ==
  /\ host \in {"down", "crashed"}
  /\ host' = IF linked = None THEN "up" ELSE "attaching"
  /\ opened' = linked
  /\ UNCHANGED <<regions, bridge, mapped, alive>>

HostStops ==
  /\ host \in {"up", "attaching"}
  /\ host' = "down" /\ Detached
  /\ UNCHANGED <<regions, bridge>>

\* GetRoute: only Voice Memos hears the other side of the call.
Route(bundle) == IF bundle = VoiceMemos THEN Mixed ELSE MicOnly

\* OnReadClientInput of a reader that is not alive: TryAttach.  A reader that
\* is attached stays attached to what it has; one that is not opens the name.
\* While there is nothing to attach to the client gets silence.
RetryAttach ==
  /\ host = "up" /\ ~alive /\ mapped = None
  /\ linked # None
  /\ host' = "attaching" /\ opened' = linked
  /\ UNCHANGED <<regions, bridge, mapped, alive>>

\* Mutant: the header is not validated.
AttachUnchecked ==
  /\ host = "attaching"
  /\ regions[opened].sized
  /\ host' = "up" /\ opened' = None /\ mapped' = opened
  /\ alive' = TRUE
  /\ UNCHANGED <<regions, bridge>>

\* TryAttach maps a region that has been sized and accepts one that has been
\* described.
Attach ==
  /\ host = "attaching"
  /\ regions[opened].sized /\ regions[opened].described
  /\ host' = "up" /\ opened' = None /\ mapped' = opened
  /\ alive' = TRUE
  /\ UNCHANGED <<regions, bridge>>

AttachFails ==
  /\ host = "attaching"
  /\ host' = "up" /\ opened' = None
  /\ UNCHANGED <<regions, bridge, mapped, alive>>

\* OnReadClientInput of a live reader: callrec_rb_read returns at once from an
\* empty ring (the client gets silence), otherwise it copies and then stores
\* readIndex, in a mapping that was made with PROT_READ only.
ReadClientInput(bundle) ==
  /\ host = "up" /\ alive
  /\ regions[mapped].unread[Route(bundle)] > 0
  /\ host' = "crashed" /\ Detached
  /\ UNCHANGED <<regions, bridge>>

-----------------------------------------------------------------------------
AppStep ==
  \/ Launch
  \/ OpenRegion \/ SizeRegion \/ CreateFails \/ DescribeRegion \/ ResetRegion
  \/ Activate \/ Heartbeat \/ (\E r \in Rings : BeginWrite(r) \/ EndWrite(r) \/ EndLateWrite(r))
  \/ Quiesce \/ UnmapRegion \/ UnlinkRegion
  \/ Quit \/ Crash

DriverStep ==
  \/ HostStarts \/ HostStops
  \/ RetryAttach \/ Attach \/ AttachFails
  \/ (\E b \in Bundles : ReadClientInput(b))

Next == AppStep \/ DriverStep

Spec == Init /\ [][Next]_vars

\* A client that has started the virtual device calls in every IO cycle; a
\* mapping that can be made is made one day.
FairSpec ==
  /\ Spec
  /\ WF_vars(RetryAttach) /\ SF_vars(Attach) /\ WF_vars(Attach \/ AttachFails)
  /\ WF_vars(\E b \in Bundles : ReadClientInput(b))
-----------------------------------------------------------------------------
AppStates == {"down", "idle", "opened", "sized", "described", "ready", "capturing",
              "quiet", "unmapped"}
Usable == {"ready", "capturing", "quiet"}

Region == [sized : BOOLEAN, described : BOOLEAN, heartbeat : 0..MaxBeats, active : BOOLEAN,
           unread : [Rings -> 0..RingRoom]]

TypeOK ==
  /\ regions \in Seq(Region) /\ Len(regions) <= MaxRegions
  /\ {linked, mine, opened, mapped} \subseteq {None} \cup DOMAIN regions
  /\ app \in AppStates /\ writing \subseteq Rings 
  /\ late \subseteq Rings /\ strayed \subseteq Rings
  /\ host \in {"down", "crashed", "up", "attaching"}
  /\ alive \in BOOLEAN

\* The name refers to the app's own region as long as the app has one, and to
\* nothing when a running app has none: neither a failed create, a crash nor a
\* relaunch leaves a name that a later create would take over, and no clean-up
\* removes the name of the region in use (SharedMemoryHelpers.c:30-44, 73-79).
NameIsOurs == app # "down" => linked = mine /\ (mine = None <=> app = "idle")

\* callrec_rb_reset is "only safe when neither side is active"
\* (RingBuffer.h:132), yet the driver may attach between the header and the
\* reset: what the reset overwrites is what a reader has already seen, but for
\* the block of a write that has outlived the previous region.
ResetInvisible ==
  [][app = "described" /\ app' = "ready"
       => \E unread \in [Rings -> 0..RingRoom] :
            /\ regions' = [regions EXCEPT ![mine].unread = unread]
            /\ \A ring \in Rings \ strayed : unread[ring] = regions[mine].unread[ring]]_vars

\* Whatever the reader has mapped was completely sized and described, also if
\* it opened the name in the middle of a create that failed or crashed later,
\* and the reader is alive only if it has something mapped.
AttachedIsValid ==
  /\ mapped # None => regions[mapped].sized /\ regions[mapped].described
  /\ alive => mapped # None

\* What makes these inductive: how far the app's region is made at each step of
\* its making, and that an attach in progress has opened some region.
SharedInv ==
  /\ app = "down" => mine = None
  /\ app = "opened" => regions[mine] = EmptyRegion
  /\ app = "sized" => regions[mine] = [EmptyRegion EXCEPT !.sized = TRUE]
  /\ app = "described" =>
       /\ regions[mine].heartbeat = 0 /\ ~regions[mine].active
       /\ \A ring \in Rings \ strayed : regions[mine].unread[ring] = 0
  /\ app \in Usable \cup {"described", "unmapped"} => regions[mine].sized /\ regions[mine].described
  /\ writing # {} => app \in {"capturing", "quiet"}
  /\ host = "attaching" => opened # None

\* A driver without a region gets one, as long as the app keeps one up
\* (SmartRouter.cpp:15-16, "we'll retry lazily on each IO call").
EventuallyAttached ==
  host = "up" /\ mapped = None /\ app \in Usable
    ~> mapped # None \/ app \notin Usable \/ host \in {"down", "crashed"}
-----------------------------------------------------------------------------
(* What the sources say and the program does not do                        *)

\* "The ring buffer read is safe for single consumer"
\* (SharedMemoryReader.cpp:106): reading does not bring the audio server down.
ReadIsSafe == host # "crashed"
=============================================================================
