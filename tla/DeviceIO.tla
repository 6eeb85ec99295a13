------------------------------ MODULE DeviceIO ------------------------------
(***************************************************************************)
(* CallRec's virtual microphone at work: an aspl::Device with the stream   *)
(* and the I/O handler that PluginEntry gives it, its clients, the HAL's   *)
(* I/O cycle, the device's clock, and the SmartRouter's choice of what a   *)
(* client hears, while the configuration changes as in the module          *)
(* DeviceConfiguration.                                                    *)
(*                                                                         *)
(* StartIO, StopIO, GetZeroTimeStamp and the operations of the cycle hold  *)
(* ioMutex_; AddClient, RemoveClient and configuration changes hold        *)
(* writeMutex_, so they may come between the lookups of DoIOOperation and  *)
(* the call of the handler.                                                *)
(*                                                                         *)
(* External, as the comments of Device.hpp have it: the HAL adds a client  *)
(* before it starts I/O for it, runs one operation of the cycle at a time, *)
(* ends a client's I/O before it removes the client, and all I/O before it *)
(* answers a configuration request.  That it never gives the ID of a       *)
(* client to another one later is assumed: no comment says so, and         *)
(* SmartRouter, which never removes a route, relies on it.                 *)
(***************************************************************************)
EXTENDS DeviceConfiguration

CONSTANTS Clients,          \* client IDs
          Apps, VoiceMemos, \* bundle IDs
          NoClient,
          EnableMixing,     \* DeviceParameters::EnableMixing
          TicksPerFrame,    \* of the host clock, at rate 1
          MaxTime           \* bound: the host clock

\* PluginEntry makes a stream; a rate of zero gives no clock; a client's ID is
\* a UInt32.
ASSUME IOAssumption ==
  /\ Streams # {} /\ MaxRequests > 0
  /\ IsFiniteSet(Clients)
  /\ 0 \notin Values
  /\ VoiceMemos \in Apps
  /\ NoClient \notin Apps
  /\ EnableMixing \in BOOLEAN
  /\ TicksPerFrame \in Nat \ {0}
  /\ MaxTime \in Nat

Operations == {"ReadInput", "ProcessInput", "MixOutput", "ProcessMix", "WriteMix"}

VARIABLES clientByID,   \* clientByID_: per ID the bundle ID of the Client, or NoClient
          app,          \* external: the application behind an ID, or NoClient
          retired,      \* external: IDs of clients that are gone
          started,      \* external: clients whose I/O the HAL has started
          halRunning,   \* external: what the HAL last read from GetIsRunning
          startCount,   \* startCount_
          io,           \* the operation of the I/O cycle that is under way
          routes,       \* SmartRouter's mClientRoutes
          now,          \* mach_absolute_time()
          anchor,       \* anchorHostTime_
          periods,      \* periodCounter_
          zero,         \* currentPeriodTimestamp_ and currentPeriodHostTime_
          stamp         \* history: whether a zero time stamp was taken since I/O started,
                        \* "void" when the device has been withdrawn since

clientVars == <<clientByID, app, retired>>
clockVars == <<now, anchor, periods, zero, stamp>>
runVars == <<started, halRunning, startCount>>
vars == <<configVars, clientVars, runVars, io, routes, clockVars>>

Idle == [at |-> "idle", client |-> NoClient, operation |-> "none", stream |-> Device,
         found |-> NoClient, route |-> "none"]

\* What PluginEntry leaves behind: a device with one input stream, in the
\* plug-in, and no host yet.
InitializeObjects(s) ==
  /\ host = FALSE
  /\ owned = TRUE
  /\ dev = [cfg |-> [object \in {Device} \union Streams |->
                       [field \in FieldsOf(object) |->
                         IF field \in OptionalFields THEN NotSet ELSE ChannelCount]],
            children |-> {s}, inputs |-> 1, outputs |-> 0, applied |-> <<1>>]
  /\ direction = [x \in Streams |-> IF x = s THEN "input" ELSE "none"]
  /\ span = [x \in Streams |-> IF x = s THEN [first |-> 1, count |-> ChannelCount]
                               ELSE [first |-> 0, count |-> 0]]
  /\ listed = {s}
  /\ pending = <<>>
  /\ lastID = 0
  /\ hal = <<>>
  /\ requests = <<<<Attach(s, "input")>>>>
  /\ aborted = {}

IOInit ==
  /\ InitializeObjects(CHOOSE s \in Streams : TRUE)
  /\ clientByID = [c \in Clients |-> NoClient]
  /\ app = [c \in Clients |-> NoClient]
  /\ retired = {}
  /\ started = {}
  /\ halRunning = FALSE
  /\ startCount = 0
  /\ io = Idle
  /\ routes = [c \in Clients |-> "none"]
  /\ now = 0
  /\ anchor = 0
  /\ periods = 0
  /\ zero = [sample |-> 0, host |-> 0]
  /\ stamp = "none"

-----------------------------------------------------------------------------
\* Clients

\* The control handler may fail to make a Client; the HAL may try again.
AddClient(c, bundle, ok) ==
  /\ host /\ owned
  /\ c \notin retired /\ clientByID[c] = NoClient
  /\ app[c] \in {NoClient, bundle}
  /\ app' = [app EXCEPT ![c] = bundle]
  /\ clientByID' = IF ok THEN [clientByID EXCEPT ![c] = bundle] ELSE clientByID
  /\ UNCHANGED <<configVars, retired, runVars, io, routes, clockVars>>

RemoveClient(c) ==
  /\ app[c] # NoClient
  /\ c \notin started
  /\ app' = [app EXCEPT ![c] = NoClient]
  /\ retired' = retired \union {c}
  /\ clientByID' = [clientByID EXCEPT ![c] = NoClient]
  /\ UNCHANGED <<configVars, runVars, io, routes, clockVars>>

GetClientByID(c) == clientByID[c]

-----------------------------------------------------------------------------
\* Starting and stopping

GetIsRunning == startCount > 0

\* StartIOImpl of the first start: the control handler may refuse it; then
\* the clock starts.
StartClock ==
  /\ anchor' = now
  /\ periods' = 0
  /\ stamp' = "none"
  /\ UNCHANGED <<now, zero>>

StartIO(c) ==
  /\ app[c] # NoClient /\ c \notin started
  /\ host /\ owned
  /\ started' = started \union {c}
  /\ startCount' = startCount + 1
  /\ IF startCount = 0
     THEN /\ StartClock
          /\ halRunning' = (startCount' > 0)
     ELSE UNCHANGED <<halRunning, clockVars>>
  /\ UNCHANGED <<configVars, clientVars, io, routes>>

\* Mutant: the last stop is told by the count it leaves.
StopIOUnannounced(c) ==
  /\ c \in started
  /\ io.client # c
  /\ started' = started \ {c}
  /\ startCount' = startCount - 1
  /\ halRunning' = (IF startCount = 0 THEN startCount' > 0 ELSE halRunning)
  /\ UNCHANGED <<configVars, clientVars, io, routes, clockVars>>

\* The HAL reads GetIsRunning when it is told that it has changed.
StopIO(c) ==
  /\ c \in started
  /\ io.client # c
  /\ started' = started \ {c}
  /\ startCount' = startCount - 1
  /\ halRunning' = (IF startCount = 1 THEN startCount' > 0 ELSE halRunning)
  /\ UNCHANGED <<configVars, clientVars, io, routes, clockVars>>

-----------------------------------------------------------------------------
\* The device's clock

Period == dev.cfg[Device].zeroTimeStampPeriod

\* The host ticks of n periods, truncated to a UInt64; hostTicksPerFrame_ is
\* brought up to date when the rate has changed.
HostTicks(n) == (n * (TicksPerFrame * Period)) \div dev.cfg[Device].nominalSampleRate

\* At most one period further with each call.
GetZeroTimeStamp ==
  /\ started # {}
  /\ periods' = IF now >= anchor + HostTicks(periods + 1)
                THEN periods + 1 ELSE periods
  /\ zero' = [sample |-> periods' * Period, host |-> anchor + HostTicks(periods')]
  /\ stamp' = IF stamp = "void" THEN "void" ELSE "taken"
  /\ UNCHANGED <<configVars, clientVars, runVars, io, routes, now, anchor>>

Tick ==
  /\ now < MaxTime
  /\ startCount > 0
  /\ now' = now + 1
  /\ UNCHANGED <<configVars, clientVars, runVars, io, routes, anchor, periods, zero, stamp>>

-----------------------------------------------------------------------------
\* The I/O cycle of a client

WillDoIOOperation(operation) ==
  CASE operation \in {"ReadInput", "ProcessInput"} -> dev.inputs > 0
    [] operation = "MixOutput" -> dev.outputs > 0 /\ ~EnableMixing
    [] OTHER -> dev.outputs > 0 /\ EnableMixing

\* The HAL asks, and goes on with a stream it sees.
BeginIOOperation(c, s, operation) ==
  /\ io.at = "idle"
  /\ c \in started
  /\ s \in dev.children
  /\ direction[s] = IF operation \in {"ReadInput", "ProcessInput"} THEN "input" ELSE "output"
  /\ WillDoIOOperation(operation)
  /\ io' = [at |-> "begun", client |-> c, operation |-> operation, stream |-> s,
            found |-> NoClient, route |-> "none"]
  /\ UNCHANGED <<configVars, clientVars, runVars, routes, clockVars>>

GetStreamByID(s) == s \in listed

\* Client, stream and handler are looked up; without a stream the operation
\* is illegal.
DoIOOperation ==
  /\ io.at = "begun"
  /\ io' = IF GetStreamByID(io.stream)
           THEN [io EXCEPT !.at = "handler", !.found = GetClientByID(io.client)]
           ELSE [io EXCEPT !.at = "illegal"]
  /\ UNCHANGED <<configVars, clientVars, runVars, routes, clockVars>>

\* Mutant: the safe default of an unknown client is remembered.
CachedRouteAlways(c, client, route) == [routes EXCEPT ![c] = route]

CachedRoute(c, client, route) ==
  IF client = NoClient THEN routes ELSE [routes EXCEPT ![c] = route]

\* The route in the cache, or that of the bundle ID.
GetRoute(c, client) ==
  IF client = NoClient THEN "micOnly"
  ELSE IF routes[c] # "none" THEN routes[c]
  ELSE IF client = VoiceMemos THEN "mixed" ELSE "micOnly"

\* The handler is called.  CallRec's reads input only: silence, and no route is
\* chosen, while its reader finds no shared memory.  Whether it does, and what
\* the rings then give, is the matter of the module SharedMemory.
CallHandler(alive) ==
  /\ io.at = "handler"
  /\ IF io.operation = "ReadInput" /\ alive
     THEN LET route == GetRoute(io.client, io.found) IN
          /\ io' = [io EXCEPT !.at = "done", !.route = route]
          /\ routes' = CachedRoute(io.client, io.found, route)
     ELSE /\ io' = [io EXCEPT !.at = "done"]
          /\ UNCHANGED routes
  /\ UNCHANGED <<configVars, clientVars, runVars, clockVars>>

EndIOOperation ==
  /\ io.at \in {"done", "illegal"}
  /\ io' = Idle
  /\ UNCHANGED <<configVars, clientVars, runVars, routes, clockVars>>

-----------------------------------------------------------------------------
\* What the clients of the library and the HAL change meanwhile.

ioVars == <<clientVars, runVars, io, routes, clockVars>>

Reconfigure ==
  /\ \/ \E v \in Values : SetNominalSampleRateAsync(v) \/ SetZeroTimeStampPeriodAsync(v)
     \/ \E list \in Lists, v \in Values : ChangeRates(list, v)
     \/ \E s \in Streams : (\E dir \in Directions : AddStreamAsync(s, dir)) \/ RemoveStreamAsync(s)
     \/ InitializeDriver
     \/ Publish
  /\ UNCHANGED ioVars

\* The HAL ends all I/O before it answers.
Answer ==
  /\ started = {}
  /\ HALAnswers
  /\ UNCHANGED ioVars

Withdraw ==
  /\ Unpublish
  /\ stamp' = "void"
  /\ UNCHANGED <<clientVars, runVars, io, routes, now, anchor, periods, zero>>

IONext ==
  \/ \E c \in Clients :
        \/ \E bundle \in Apps, ok \in BOOLEAN : AddClient(c, bundle, ok)
        \/ RemoveClient(c)
        \/ StartIO(c)
        \/ StopIO(c)
        \/ \E s \in Streams, operation \in Operations : BeginIOOperation(c, s, operation)
  \/ GetZeroTimeStamp
  \/ Tick
  \/ DoIOOperation
  \/ \E alive \in BOOLEAN : CallHandler(alive)
  \/ EndIOOperation
  \/ Reconfigure
  \/ Answer
  \/ Withdraw

IOSpec == IOInit /\ [][IONext]_vars

-----------------------------------------------------------------------------
IOTypeOK ==
  /\ TypeOK
  /\ \A c \in Clients : clientByID[c] \in {app[c], NoClient}
  /\ app \in [Clients -> Apps \union {NoClient}]
  /\ retired \subseteq Clients
  /\ started \subseteq Clients
  /\ halRunning \in BOOLEAN
  /\ startCount \in 0..Cardinality(Clients)
  /\ io.at \in {"idle", "begun", "handler", "done", "illegal"}
  /\ stamp \in {"none", "taken", "void"}
  /\ routes \in [Clients -> {"none", "mixed", "micOnly"}]
  /\ now \in 0..MaxTime
  /\ anchor \in 0..now

\* What a client hears, if it does not hear silence, is decided by its
\* application: both sides of the call for Voice Memos, only the microphone for
\* everyone else, and the microphone too while the device does not know the
\* client.
RouteFollowsApplication ==
  io.at = "done" /\ io.operation = "ReadInput" /\ io.route # "none" =>
    io.route = IF io.found = NoClient THEN "micOnly"
               ELSE IF app[io.client] = VoiceMemos THEN "mixed" ELSE "micOnly"

\* The HAL's idea of whether the device runs, which it refreshes only when it
\* is told of a change, is right: every client's start and stop is counted.
HALKnowsRunning ==
  /\ halRunning = GetIsRunning
  /\ startCount = Cardinality(started)

\* An operation on a stream that the HAL sees is refused only when the
\* stream's removal has been requested: streamByID_ forgets it at once.
OnlyRemovedStreamsAreRefused ==
  io.at = "illegal" =>
    \E n \in DOMAIN requests : requests[n] = <<Detach(io.stream, direction[io.stream])>>

\* The HAL is offered an operation only for a direction in which it sees a
\* stream, so that a cycle it has begun finds one.
WillDoIsVisible ==
  ~StreamChangeAborted =>
    \A operation \in Operations :
      WillDoIOOperation(operation) =>
        \E s \in Streams \intersect dev.children :
          direction[s] = IF operation \in {"ReadInput", "ProcessInput"} THEN "input" ELSE "output"

\* A zero time stamp never lies in the future.
StampNotInFuture == stamp = "taken" => zero.host <= now

\* The run state, the streams and the clock that the HAL sees are the device's.
IOInv == /\ IOTypeOK /\ HALKnowsRunning /\ OnlyRemovedStreamsAreRefused
         /\ WillDoIsVisible /\ StampNotInFuture

\* While I/O runs on a device that stays published, its zero time stamps only go forward,
\* in samples and in host time: neither rate nor period changes under them.
StampsAdvance ==
  [][stamp = "taken" /\ stamp' = "taken" => zero'.sample >= zero.sample /\ zero'.host >= zero.host]_vars

=============================================================================
