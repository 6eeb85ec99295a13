------------------------- MODULE SharedMemoryProofs --------------------------
(* Proofs about SharedMemory.tla, for any number of regions and heartbeats, *)
(* any size of the rings and any set of clients.                            *)
EXTENDS SharedMemory, TLAPS

\* The inductive invariant.
IInv == TypeOK /\ NameIsOurs /\ AttachedIsValid /\ SharedInv

\* A region as it is created, sized and described has the type of a region.
LEMMA NewRegions ==
  /\ EmptyRegion \in Region
  /\ [EmptyRegion EXCEPT !.sized = TRUE] \in Region
  /\ [EmptyRegion EXCEPT !.sized = TRUE, !.described = TRUE] \in Region
  <1>1. 0 \in 0..RingRoom /\ 0 \in 0..MaxBeats
    BY SharedMemoryAssumption DEF SharedMemoryAssumption
  <1>2. EmptyRegion \in Region
    BY <1>1 DEF EmptyRegion, Region
  <1>3. ASSUME NEW r \in Region
        PROVE  [r EXCEPT !.sized = TRUE] \in Region /\ [r EXCEPT !.described = TRUE] \in Region
    BY <1>3 DEF Region
  <1>4. [EmptyRegion EXCEPT !.sized = TRUE, !.described = TRUE]
          = [[EmptyRegion EXCEPT !.sized = TRUE] EXCEPT !.described = TRUE]
    BY DEF EmptyRegion
  <1> QED BY <1>2, <1>3, <1>4

\* Two regions that differ in nothing but their rings.
LEMMA SameButUnread ==
  ASSUME NEW r \in Region, NEW s \in Region, s.sized = r.sized, s.described = r.described,
         s.heartbeat = r.heartbeat, s.active = r.active
  PROVE  r = [s EXCEPT !.unread = r.unread]
  BY DEF Region

\* Storing into one region leaves the others, and their number, alone.
LEMMA StoreInRegion ==
  ASSUME regions \in Seq(Region), NEW i \in DOMAIN regions, NEW r \in Region,
         regions' = [regions EXCEPT ![i] = r]
  PROVE  /\ regions' \in Seq(Region)
         /\ Len(regions') = Len(regions) /\ DOMAIN regions' = DOMAIN regions
         /\ regions'[i] = r
         /\ \A j \in DOMAIN regions \ {i} : regions'[j] = regions[j]
  OBVIOUS

\* Creating a region leaves those there are alone.
LEMMA CreateRegion ==
  ASSUME regions \in Seq(Region), NEW r \in Region, regions' = Append(regions, r)
  PROVE  /\ regions' \in Seq(Region)
         /\ Len(regions') = Len(regions) + 1
         /\ DOMAIN regions' = DOMAIN regions \cup {Len(regions) + 1}
         /\ regions'[Len(regions) + 1] = r
         /\ \A j \in DOMAIN regions : regions'[j] = regions[j]
  OBVIOUS

\* Nothing exists before the first launch.
LEMMA InitInv == Init => IInv
  <1> SUFFICES ASSUME Init PROVE IInv
    OBVIOUS
  <1>1. 0 \in 0..MaxBeats /\ 0 <= MaxRegions
    BY SharedMemoryAssumption DEF SharedMemoryAssumption
  <1>2. regions \in Seq(Region) /\ Len(regions) = 0
    BY DEF Init
  <1>3. TypeOK
    BY <1>1, <1>2 DEF Init, TypeOK, AppStates
  <1>4. NameIsOurs /\ AttachedIsValid /\ SharedInv
    BY DEF Init, NameIsOurs, AttachedIsValid, SharedInv, Usable
  <1> QED BY <1>3, <1>4 DEF IInv

\* While the app has a region it is one of those created, and it is the one the
\* name refers to.
LEMMA OwnRegion ==
  ASSUME IInv, app \notin {"down", "idle"}
  PROVE  mine \in DOMAIN regions /\ linked = mine /\ mine # None
  BY DEF IInv, TypeOK, NameIsOurs, None

\* A store of the app into its own region that takes neither size nor header
\* from it preserves everything but the account of how far the region is made.
LEMMA OwnStore ==
  ASSUME IInv, app \notin {"down", "idle"}, app' \in AppStates \ {"down", "idle"},
         NEW r \in Region, regions' = [regions EXCEPT ![mine] = r],
         regions[mine].sized => r.sized, regions[mine].described => r.described,
         {writing', late', strayed'} \subseteq SUBSET Rings,
         UNCHANGED <<linked, mine, host, reader>>
  PROVE  /\ TypeOK' /\ NameIsOurs' /\ AttachedIsValid'
         /\ regions'[mine'] = r
         /\ host' = "attaching" => opened' # None
  <1>1. mine \in DOMAIN regions /\ linked = mine /\ mine # None
    BY OwnRegion
  <1>2. regions \in Seq(Region) /\ Len(regions) <= MaxRegions
    BY DEF IInv, TypeOK
  <1>3. /\ regions' \in Seq(Region) /\ Len(regions') = Len(regions)
        /\ DOMAIN regions' = DOMAIN regions /\ regions'[mine] = r
        /\ \A j \in DOMAIN regions \ {mine} : regions'[j] = regions[j]
    BY <1>1, <1>2, StoreInRegion
  <1>4. TypeOK'
    BY <1>2, <1>3 DEF IInv, TypeOK, reader
  <1>5. NameIsOurs'
    BY <1>1 DEF NameIsOurs
  <1>6. AttachedIsValid'
    <2>1. CASE mapped = mine
      BY <2>1, <1>1, <1>3 DEF IInv, AttachedIsValid, reader
    <2>2. CASE mapped # mine
      <3>1. mapped # None => mapped \in DOMAIN regions \ {mine}
        BY <2>2 DEF IInv, TypeOK
      <3> QED BY <3>1, <1>3 DEF IInv, AttachedIsValid, reader
    <2> QED BY <2>1, <2>2
  <1> QED BY <1>3, <1>4, <1>5, <1>6 DEF IInv, SharedInv, reader

\* The region is sized after it was created.
LEMMA SizeRegionInv ==
  ASSUME IInv, SizeRegion
  PROVE  IInv'
  <1> DEFINE r == [EmptyRegion EXCEPT !.sized = TRUE]
  <1>1. r \in Region /\ r.sized /\ ~r.described /\ regions[mine] = EmptyRegion
    BY NewRegions DEF IInv, SharedInv, SizeRegion, EmptyRegion
  <1>2. regions' = [regions EXCEPT ![mine] = r]
    BY <1>1 DEF SizeRegion
  <1>3. TypeOK' /\ NameIsOurs' /\ AttachedIsValid' /\ regions'[mine'] = r /\ (host' = "attaching" => opened' # None)
    BY <1>1, <1>2, OwnStore DEF SizeRegion, AppStates, EmptyRegion, IInv, TypeOK, writes
  <1>4. SharedInv'
    BY <1>1, <1>3 DEF SharedInv, SizeRegion, Usable, IInv, writes
  <1> QED BY <1>3, <1>4 DEF IInv

\* Its header is written.
LEMMA DescribeRegionInv ==
  ASSUME IInv, DescribeRegion
  PROVE  IInv'
  <1> DEFINE r == [EmptyRegion EXCEPT !.sized = TRUE, !.described = TRUE]
  <1>1. r \in Region /\ r.sized /\ r.described
        /\ regions[mine] = [EmptyRegion EXCEPT !.sized = TRUE]
    BY NewRegions DEF IInv, SharedInv, DescribeRegion, EmptyRegion
  <1>2. r = [regions[mine] EXCEPT !.described = TRUE]
    BY <1>1 DEF EmptyRegion
  <1>3. regions' = [regions EXCEPT ![mine] = r]
    BY <1>2 DEF DescribeRegion
  <1>4. TypeOK' /\ NameIsOurs' /\ AttachedIsValid' /\ regions'[mine'] = r /\ (host' = "attaching" => opened' # None)
    BY <1>1, <1>3, OwnStore DEF DescribeRegion, AppStates, IInv, TypeOK, writes
  <1>5. SharedInv'
    <2>1. r.heartbeat = 0 /\ ~r.active /\ \A ring \in Rings : r.unread[ring] = 0
      BY DEF EmptyRegion
    <2> QED BY <1>1, <1>4, <2>1 DEF SharedInv, DescribeRegion, Usable, IInv, writes
  <1> QED BY <1>4, <1>5 DEF IInv

\* Its rings and flags are reset, which changes nothing but the rings that a
\* write has strayed into.
LEMMA ResetRegionInv ==
  ASSUME IInv, ResetRegion
  PROVE  /\ IInv'
         /\ EmptyRegion.unread \in [Rings -> 0..RingRoom]
         /\ regions' = [regions EXCEPT ![mine].unread = EmptyRegion.unread]
         /\ \A ring \in Rings \ strayed : EmptyRegion.unread[ring] = regions[mine].unread[ring]
  <1> DEFINE r == [EmptyRegion EXCEPT !.sized = TRUE, !.described = TRUE]
             none == EmptyRegion.unread
  <1>1. mine \in DOMAIN regions /\ regions[mine] \in Region
    BY OwnRegion DEF ResetRegion, IInv, TypeOK
  <1>2. r \in Region /\ r.sized /\ r.described /\ r.unread = none
    BY NewRegions DEF EmptyRegion
  <1>3. none \in [Rings -> 0..RingRoom] /\ \A ring \in Rings : none[ring] = 0
    BY <1>2 DEF Region, EmptyRegion
  <1>4. /\ regions[mine].sized /\ regions[mine].described
        /\ regions[mine].heartbeat = 0 /\ ~regions[mine].active
        /\ \A ring \in Rings \ strayed : regions[mine].unread[ring] = 0
    BY DEF IInv, SharedInv, ResetRegion
  <1>5. r = [regions[mine] EXCEPT !.unread = none]
    <2>1. /\ regions[mine].sized = r.sized /\ regions[mine].described = r.described
          /\ regions[mine].heartbeat = r.heartbeat /\ regions[mine].active = r.active
      BY <1>1, <1>2, <1>4 DEF Region, EmptyRegion
    <2> HIDE DEF r, none
    <2>2. r = [regions[mine] EXCEPT !.unread = r.unread]
      BY <2>1, <1>1, <1>2, SameButUnread
    <2> QED BY <2>2, <1>2
  <1>6. regions' = [regions EXCEPT ![mine] = r]
    BY DEF ResetRegion
  <1>7. TypeOK' /\ NameIsOurs' /\ AttachedIsValid' /\ regions'[mine'] = r /\ (host' = "attaching" => opened' # None)
    BY <1>2, <1>4, <1>6, OwnStore DEF ResetRegion, AppStates, IInv, TypeOK, writes
  <1>8. SharedInv'
    BY <1>2, <1>7 DEF SharedInv, ResetRegion, Usable, IInv, writes
  <1>9. regions' = [regions EXCEPT ![mine].unread = none]
    BY <1>5, <1>6
  <1> QED BY <1>3, <1>4, <1>7, <1>8, <1>9 DEF IInv

\* A region in use keeps its size and header: the stores of the flag, of the
\* heartbeat and of the rings' blocks.
LEMMA UseRegionInv ==
  ASSUME IInv, app \in Usable, NEW r \in Region, regions' = [regions EXCEPT ![mine] = r],
         r.sized, r.described, app' \in Usable, {writing', late', strayed'} \subseteq SUBSET Rings,
         writing' # {} => app' \in {"capturing", "quiet"},
         UNCHANGED <<linked, mine, host, reader>>
  PROVE  IInv'
  <1>1. TypeOK' /\ NameIsOurs' /\ AttachedIsValid' /\ regions'[mine'] = r /\ (host' = "attaching" => opened' # None)
    BY OwnStore DEF Usable, AppStates
  <1>2. SharedInv'
    BY <1>1 DEF SharedInv, Usable
  <1> QED BY <1>1, <1>2 DEF IInv

\* What a store of a block leaves of the region: it has one block more in one ring.
LEMMA StoredRegion ==
  ASSUME NEW ring \in Rings, mine \in DOMAIN regions, regions[mine] \in Region,
         regions[mine].sized, regions[mine].described
  PROVE  \E r \in Region :
           /\ r.sized /\ r.described /\ Stored(ring) = [regions EXCEPT ![mine] = r]
           /\ r.heartbeat = regions[mine].heartbeat /\ r.active = regions[mine].active
           /\ \A other \in Rings \ {ring} : r.unread[other] = regions[mine].unread[other]
  <1> DEFINE u == [regions[mine].unread EXCEPT ![ring] = IF @ < RingRoom THEN @ + 1 ELSE @]
             r == [regions[mine] EXCEPT !.unread = u]
  <1>1. regions[mine].unread \in [Rings -> 0..RingRoom]
    BY DEF Region
  <1>2. u \in [Rings -> 0..RingRoom]
    BY <1>1, SharedMemoryAssumption DEF SharedMemoryAssumption
  <1>3. /\ r \in Region /\ r.sized /\ r.described
        /\ r.heartbeat = regions[mine].heartbeat /\ r.active = regions[mine].active
        /\ \A other \in Rings \ {ring} : r.unread[other] = regions[mine].unread[other]
    BY <1>1, <1>2 DEF Region
  <1>4. Stored(ring) = [regions EXCEPT ![mine] = r]
    BY DEF Stored
  <1> QED BY <1>3, <1>4

\* Becoming active, a heartbeat, the end of a write and the end of the captures
\* are such stores.
LEMMA UseStepInv ==
  ASSUME IInv, Activate \/ Heartbeat \/ Quiesce \/ \E ring \in Rings : EndWrite(ring)
  PROVE  IInv'
  <1>1. ASSUME app \in Usable
        PROVE  mine \in DOMAIN regions /\ regions[mine] \in Region
               /\ regions[mine].sized /\ regions[mine].described
    BY <1>1, OwnRegion DEF IInv, TypeOK, SharedInv, Usable
  <1>2. /\ {writing, late, strayed} \subseteq SUBSET Rings
        /\ writing # {} => app \in {"capturing", "quiet"}
    BY DEF IInv, TypeOK, SharedInv
  <1>3. CASE Activate
    <2> DEFINE r == [regions[mine] EXCEPT !.active = TRUE]
    <2>1. r \in Region /\ r.sized /\ r.described
      BY <1>1, <1>3 DEF Activate, Region, Usable
    <2> QED BY <2>1, <1>2, <1>3, UseRegionInv DEF Activate, Usable, writes
  <1>4. CASE Heartbeat
    <2> DEFINE r == [regions[mine] EXCEPT !.heartbeat = @ + 1]
    <2>1. r \in Region /\ r.sized /\ r.described
      BY <1>1, <1>4, SharedMemoryAssumption DEF Heartbeat, Region, Usable, SharedMemoryAssumption
    <2> QED BY <2>1, <1>2, <1>4, UseRegionInv DEF Heartbeat, Usable, bridge, writes
  <1>5. CASE Quiesce
    <2> DEFINE r == [regions[mine] EXCEPT !.active = FALSE]
    <2>1. r \in Region /\ r.sized /\ r.described
      BY <1>1, <1>5 DEF Quiesce, Region, Usable
    <2> QED BY <2>1, <1>2, <1>5, UseRegionInv DEF Quiesce, Usable, writes
  <1>6. ASSUME NEW ring \in Rings, EndWrite(ring) PROVE IInv'
    <2>1. app \in Usable
      BY <1>2, <1>6 DEF EndWrite, Usable
    <2> PICK r \in Region : r.sized /\ r.described /\ Stored(ring) = [regions EXCEPT ![mine] = r]
      BY <1>1, <2>1, StoredRegion
    <2> QED BY <2>1, <1>2, <1>6, UseRegionInv DEF EndWrite, Usable
  <1> QED BY <1>3, <1>4, <1>5, <1>6

\* A write that has outlived its region does nothing, or stores into the next.
LEMMA EndLateWriteInv ==
  ASSUME IInv, NEW ring \in Rings, EndLateWrite(ring)
  PROVE  IInv'
  <1>1. /\ {writing', late', strayed'} \subseteq SUBSET Rings
        /\ UNCHANGED <<linked, app, mine, writing, host, reader>>
    BY DEF IInv, TypeOK, EndLateWrite
  <1>2. CASE UNCHANGED <<regions, strayed>>
    <2>1. TypeOK' /\ NameIsOurs' /\ AttachedIsValid'
      BY <1>1, <1>2 DEF IInv, TypeOK, NameIsOurs, AttachedIsValid, reader
    <2>2. SharedInv'
      BY <1>1, <1>2 DEF IInv, SharedInv, reader
    <2> QED BY <2>1, <2>2 DEF IInv
  <1>3. CASE /\ app \in {"described", "ready", "capturing", "quiet"}
             /\ regions' = Stored(ring) /\ strayed' = strayed \cup {ring}
    <2>1. /\ mine \in DOMAIN regions /\ regions[mine] \in Region
          /\ regions[mine].sized /\ regions[mine].described
      BY <1>3, OwnRegion DEF IInv, TypeOK, SharedInv, Usable
    <2> PICK r \in Region :
          /\ r.sized /\ r.described /\ Stored(ring) = [regions EXCEPT ![mine] = r]
          /\ r.heartbeat = regions[mine].heartbeat /\ r.active = regions[mine].active
          /\ \A other \in Rings \ {ring} : r.unread[other] = regions[mine].unread[other]
      BY <2>1, StoredRegion
    <2>2. TypeOK' /\ NameIsOurs' /\ AttachedIsValid' /\ regions'[mine'] = r /\ (host' = "attaching" => opened' # None)
      BY <1>1, <1>3, OwnStore DEF AppStates
    <2>3. SharedInv'
      BY <1>1, <1>3, <2>2 DEF IInv, SharedInv, Usable
    <2> QED BY <2>2, <2>3 DEF IInv
  <1> QED BY <1>2, <1>3 DEF EndLateWrite

\* A create that opens the name always makes a new region, because the name is
\* free whenever the app is idle.
LEMMA OpenRegionInv ==
  ASSUME IInv, OpenRegion
  PROVE  IInv'
  <1>1. linked = None /\ regions \in Seq(Region) /\ app = "idle"
    BY DEF IInv, TypeOK, NameIsOurs, OpenRegion
  <1>2. /\ Len(regions) < MaxRegions /\ regions' = Append(regions, EmptyRegion)
        /\ linked' = Len(regions) + 1 /\ mine' = linked' /\ app' = "opened"
        /\ strayed' = {} /\ UNCHANGED <<writing, late, host, reader>>
    BY <1>1 DEF OpenRegion
  <1>3. /\ regions' \in Seq(Region) /\ Len(regions') = Len(regions) + 1
        /\ DOMAIN regions' = DOMAIN regions \cup {Len(regions) + 1}
        /\ regions'[Len(regions) + 1] = EmptyRegion
        /\ \A j \in DOMAIN regions : regions'[j] = regions[j]
    BY <1>1, <1>2, NewRegions, CreateRegion
  <1>4. Len(regions') <= MaxRegions /\ Len(regions) + 1 # None
    BY <1>1, <1>2, <1>3, SharedMemoryAssumption DEF SharedMemoryAssumption, None
  <1>5. TypeOK'
    BY <1>2, <1>3, <1>4 DEF IInv, TypeOK, AppStates, reader
  <1>6. NameIsOurs'
    BY <1>2, <1>4 DEF NameIsOurs
  <1>7. AttachedIsValid'
    BY <1>2, <1>3 DEF IInv, TypeOK, AttachedIsValid, reader
  <1>8. SharedInv'
    BY <1>1, <1>2, <1>3 DEF IInv, SharedInv, Usable, reader
  <1> QED BY <1>5, <1>6, <1>7, <1>8 DEF IInv

\* The app's other steps store into no region: they only let go of it, or of the
\* name with it.
LEMMA LetGoInv ==
  ASSUME IInv,
         \/ Launch \/ CreateFails \/ UnmapRegion \/ UnlinkRegion \/ Quit \/ Crash
         \/ \E ring \in Rings : BeginWrite(ring)
  PROVE  IInv'
  <1>1. regions' = regions /\ UNCHANGED <<host, reader>>
    BY DEF Launch, CreateFails, UnmapRegion, UnlinkRegion, Quit, Crash, BeginWrite
  <1>2. TypeOK'
    BY <1>1 DEF IInv, TypeOK, AppStates, reader, SharedInv, Launch, CreateFails, UnmapRegion, UnlinkRegion, Quit, Crash, BeginWrite, writes
  <1>3. NameIsOurs'
    BY DEF IInv, NameIsOurs, SharedInv, Launch, CreateFails, UnmapRegion, UnlinkRegion, Quit, Crash, BeginWrite
  <1>4. AttachedIsValid'
    BY <1>1 DEF IInv, AttachedIsValid, reader
  <1>5. SharedInv'
    BY <1>1 DEF IInv, SharedInv, Usable, reader, writes, Launch, CreateFails, UnmapRegion, UnlinkRegion, Quit, Crash, BeginWrite
  <1> QED BY <1>2, <1>3, <1>4, <1>5 DEF IInv

\* The driver stores into no region (as far as it survives) and maps only what
\* it has found complete.
LEMMA DriverStepInv ==
  ASSUME IInv, DriverStep
  PROVE  IInv'
  <1>1. UNCHANGED <<regions, bridge>>
    BY DEF DriverStep, HostStarts, HostStops, RetryAttach, Attach, AttachFails, ReadClientInput
  <1>2. NameIsOurs'
    BY <1>1 DEF IInv, NameIsOurs, bridge
  <1> USE DEF IInv, TypeOK, bridge, writes, reader
  <1>5. CASE HostStarts
    BY <1>1, <1>2, <1>5 DEF HostStarts, AttachedIsValid, SharedInv
  <1>6. CASE HostStops \/ \E b \in Bundles : ReadClientInput(b)
    BY <1>1, <1>2, <1>6 DEF HostStops, ReadClientInput, Detached, AttachedIsValid, SharedInv
  <1>7. CASE RetryAttach
    BY <1>1, <1>2, <1>7 DEF RetryAttach, AttachedIsValid, SharedInv
  <1>8. CASE Attach
    <2>1. opened \in DOMAIN regions
      BY <1>8 DEF SharedInv, Attach
    <2> QED BY <1>1, <1>2, <1>8, <2>1 DEF Attach, AttachedIsValid, SharedInv
  <1>9. CASE AttachFails
    BY <1>1, <1>2, <1>9 DEF AttachFails, AttachedIsValid, SharedInv
  <1> QED BY <1>5, <1>6, <1>7, <1>8, <1>9 DEF DriverStep

\* Every step preserves the invariant.
LEMMA StepInv == IInv /\ [Next]_vars => IInv'
  <1> SUFFICES ASSUME IInv, [Next]_vars PROVE IInv'
    OBVIOUS
  <1>1. CASE AppStep
    BY <1>1, OpenRegionInv, SizeRegionInv, DescribeRegionInv, ResetRegionInv, UseStepInv,
       EndLateWriteInv, LetGoInv DEF AppStep
  <1>2. CASE DriverStep
    BY <1>2, DriverStepInv
  <1>3. CASE UNCHANGED vars
    BY <1>3 DEF vars, bridge, writes, reader, IInv, TypeOK, NameIsOurs, AttachedIsValid, SharedInv
  <1> QED BY <1>1, <1>2, <1>3 DEF Next

\* The invariant holds in every reachable state.
LEMMA SharedInvariant == Spec => []IInv
  BY InitInv, StepInv, PTL DEF Spec

\* Regions, mappings and counters are always well typed.
THEOREM TypeCorrect == Spec => []TypeOK
  BY SharedInvariant, PTL DEF IInv

\* The name never outlives, nor is taken from, the region of a running app.
THEOREM NameOwned == Spec => []NameIsOurs
  BY SharedInvariant, PTL DEF IInv

\* Whatever a reader has mapped was completely made, at whatever moment of a
\* create, a destroy or a crash it opened the name.
THEOREM AttachedComplete == Spec => []AttachedIsValid
  BY SharedInvariant, PTL DEF IInv

\* The reset of the rings after the header is out takes nothing away from a
\* reader that has attached in between, but for what a late write has left.
THEOREM ResetUnseen == Spec => ResetInvisible
  <1> DEFINE Unseen == app = "described" /\ app' = "ready"
                         => \E unread \in [Rings -> 0..RingRoom] :
                              /\ regions' = [regions EXCEPT ![mine].unread = unread]
                              /\ \A ring \in Rings \ strayed : unread[ring] = regions[mine].unread[ring]
  <1>1. IInv /\ [Next]_vars => [Unseen]_vars
    <2> SUFFICES ASSUME IInv, Next, app = "described", app' = "ready"
                 PROVE  Unseen
      OBVIOUS
    <2>1. ResetRegion
      BY DEF Next, AppStep, DriverStep, Launch, OpenRegion, SizeRegion, CreateFails, DescribeRegion,
         Activate, Heartbeat, BeginWrite, EndWrite, EndLateWrite, Quiesce, UnmapRegion, UnlinkRegion,
         Quit, Crash, HostStarts, HostStops, RetryAttach, Attach, AttachFails, ReadClientInput, bridge
    <2> QED BY <2>1, ResetRegionInv
  <1> QED BY <1>1, SharedInvariant, PTL DEF Spec, ResetInvisible

=============================================================================
