--------------------------- MODULE Capture_proofs ---------------------------
(***************************************************************************)
(* Theorems about Connect and Capture, for any number of interrupts.       *)
(***************************************************************************)
EXTENDS Capture, TLAPS

-----------------------------------------------------------------------------
(* The order of the cleanup.                                               *)

LEMMA Order ==
  /\ DOMAIN CleanupOrder = 1..9 /\ Len(CleanupOrder) = 9
  /\ \A i, j \in 1..9 : CleanupOrder[i] = CleanupOrder[j] => i = j
  /\ \A i \in 1..9 : CleanupOrder[i] \in
        {"audioDown", "uibcStop", "pointerClose", "pipelineStop", "kwinClose",
         "sessionDown", "dhcpStop", "groupDown", "busClose"}
  /\ CleanupOrder[1] = "audioDown" /\ CleanupOrder[2] = "uibcStop"
  /\ CleanupOrder[3] = "pointerClose" /\ CleanupOrder[4] = "pipelineStop"
  /\ CleanupOrder[5] = "kwinClose" /\ CleanupOrder[6] = "sessionDown"
  /\ CleanupOrder[7] = "dhcpStop" /\ CleanupOrder[8] = "groupDown"
  /\ CleanupOrder[9] = "busClose"
  BY DEF CleanupOrder

LEMMA Steps ==
  CleanupSteps =
    {"audioDown", "uibcStop", "pointerClose", "pipelineStop", "kwinClose",
     "sessionDown", "dhcpStop", "groupDown", "busClose"}
  BY Order DEF CleanupSteps, Range

-----------------------------------------------------------------------------
(* The invariant.                                                          *)

Over == {"returned", "exited"}
Acquiring == {"audio", "elements", "open", "peer", "group", "lease", "capture",
              "kwin", "portal", "serve"}
Casting == {"poll", "start", "uibc"}
Places == Acquiring \cup Casting \cup {"portalClose"} \cup Over \cup CleanupSteps

(* teardown may leave the channel, which goes with the program. *)
Left(i) ==
    (held \cap live \cap Releases(CleanupOrder[i])) \ ({"channel"} \cup failed) # {}

(* A cleanup that has come to a step has done those before it; one that is *)
(* over, all but the ones from where it was broken off.                    *)
CleanupInv ==
    /\ cut # "none" => pc \in Over
    /\ pc \in {"audio", "elements", "open"} => ~Entered
    /\ \A i, k \in 1..9 : pc = CleanupOrder[k] /\ i < k => ~Left(i)
    /\ pc \in Over /\ Entered =>
          \A i \in 1..9 : Left(i) => \E j \in 1..i : cut = CleanupOrder[j]
    /\ pc = "exited" => "channel" \notin live

(* The pipeline comes after the output it reads, and is held after it; the *)
(* caller has both of listener and pointer, or none.                       *)
ConsumerInv ==
    /\ pc \in Acquiring => "pipeline" \notin held
    /\ pc \in Acquiring \ {"serve"} => "kwin" \notin held
    /\ pc \in {"serve"} \cup Casting /\ "kwin" \in held => "kwin" \in live
    /\ "pointer" \in held <=> "listener" \in held
    /\ ConsumersFirst

ConnectInv == TypeOK /\ CleanupInv /\ ConsumerInv

LEMMA PlaceType == TypeOK => pc \in Places
  BY DEF TypeOK, Places, Acquiring, Casting, Over

(* Before the cleanup, CleanupInv says only that it has not begun.         *)
LEMMA NotCleaning ==
  ASSUME cut' = "none", pc' \notin CleanupSteps \ {"audioDown"},
         pc' \in {"audio", "elements", "open", "returned"} => ~Entered',
         pc' # "exited"
  PROVE  CleanupInv'
  <1>1. \A k \in 1..9 : pc' = CleanupOrder[k] => k = 1
    BY Order, Steps
  <1> QED
    BY <1>1 DEF CleanupInv, Over

LEMMA CutNone ==
  ASSUME ConnectInv, pc \notin Over
  PROVE  cut = "none"
  BY DEF ConnectInv, CleanupInv

-----------------------------------------------------------------------------
(* Acquiring and casting.                                                  *)

LEMMA AudioKeeps ==
  ASSUME ConnectInv, SetUpAudio \/ CheckElements \/ Open \/ FindPeer
  PROVE  ConnectInv'
  <1>1. pc \in {"audio", "elements", "open", "peer"} /\ cut' = "none"
    BY CutNone DEF SetUpAudio, CheckElements, Open, FindPeer, Done, Over
  <1>2. /\ pc' \in {"elements", "open", "returned", "peer", "group"}
        /\ held' \subseteq held \cup Audio \cup {"bus"} /\ held \subseteq held'
        /\ live' \subseteq live \cup Audio \cup {"bus"}
        /\ pc' \in {"elements", "open", "returned"} => held' \subseteq held \cup Audio
        /\ UNCHANGED <<pending, interrupts, failed>>
    BY DEF SetUpAudio, CheckElements, Open, FindPeer, Done, Audio
  <1>3. \A r \in {"kwin", "pipeline", "listener", "pointer"} :
          (r \in held' <=> r \in held) /\ (r \in live' => r \in live)
    BY <1>2 DEF Audio
  <1>4. "listener" \in live' => "pointer" \in live'
    BY <1>1
    DEF ConnectInv, ConsumerInv, ConsumersFirst, SetUpAudio, CheckElements, Open,
        FindPeer, Done, Audio
  <1>5. TypeOK'
    BY <1>1, <1>2, Steps DEF ConnectInv, TypeOK, Resources, Audio
  <1>6. pc' \in {"elements", "open", "returned"} => ~Entered'
    BY <1>1, <1>2
    DEF ConnectInv, CleanupInv, Entered, Audio, SetUpAudio, CheckElements, Open,
        FindPeer, Done
  <1>7. CleanupInv'
    BY <1>1, <1>2, <1>6, NotCleaning, Steps DEF Over
  <1>8. ConsumerInv'
    BY <1>1, <1>2, <1>3, <1>4
    DEF ConnectInv, ConsumerInv, ConsumersFirst, Acquiring, Casting
  <1> QED
    BY <1>5, <1>7, <1>8 DEF ConnectInv

LEMMA GroupKeeps ==
  ASSUME ConnectInv, FormGroup \/ Lease \/ ChooseCapture
  PROVE  ConnectInv'
  <1>1. pc \in {"group", "lease", "capture"} /\ cut' = "none"
    BY CutNone DEF FormGroup, Lease, ChooseCapture, Done, Over
  <1>2. /\ pc' \in {"lease", "capture", "audioDown", "serve", "kwin", "portal"}
        /\ \E new \in {{}, {"group"}, {"dhcp"}} :
              held' = held \cup new /\ live' = live \cup new
        /\ UNCHANGED <<pending, interrupts, failed>>
    BY DEF FormGroup, Lease, ChooseCapture, Done
  <1>3. TypeOK'
    BY <1>1, <1>2, Steps DEF ConnectInv, TypeOK, Resources
  <1>4. CleanupInv'
    BY <1>1, <1>2, NotCleaning, Steps
  <1>5. ConsumerInv'
    BY <1>1, <1>2
    DEF ConnectInv, ConsumerInv, ConsumersFirst, Acquiring, Casting
  <1> QED
    BY <1>3, <1>4, <1>5 DEF ConnectInv

LEMMA CaptureKeeps ==
  ASSUME ConnectInv, OpenKWin \/ FallBackToPortal \/ OpenPortal \/ Serve
  PROVE  ConnectInv'
  <1>1. pc \in {"kwin", "portal", "serve"} /\ cut' = "none"
    BY CutNone DEF OpenKWin, FallBackToPortal, OpenPortal, Serve, Done, Over
  <1>2. /\ pc' \in {"serve", "portal", "poll"} /\ UNCHANGED <<pending, interrupts, failed>>
        /\ held' \subseteq held \cup {"kwin", "portal", "channel"}
        /\ live' \subseteq live \cup {"kwin", "portal", "channel"}
        /\ live \subseteq live' /\ held \subseteq held'
        /\ "kwin" \in held' => pc' \in {"serve", "poll"}
                              /\ ("kwin" \in live' \/ "kwin" \in held)
    BY <1>1
    DEF OpenKWin, FallBackToPortal, OpenPortal, Serve, Done, ConnectInv,
        ConsumerInv, Acquiring
  <1>3. TypeOK'
    BY <1>1, <1>2, Steps DEF ConnectInv, TypeOK, Resources
  <1>4. CleanupInv'
    BY <1>1, <1>2, NotCleaning, Steps
  <1>5. "kwin" \in held /\ pc = "serve" => "kwin" \in live
    BY DEF ConnectInv, ConsumerInv
  <1>6. ConsumerInv'
    BY <1>1, <1>2, <1>5
    DEF ConnectInv, ConsumerInv, ConsumersFirst, Acquiring, Casting
  <1> QED
    BY <1>3, <1>4, <1>6 DEF ConnectInv

LEMMA CastKeeps ==
  ASSUME ConnectInv, SeePlay \/ StartPipeline \/ StartUibc \/ UibcFails \/ LeavePoll
  PROVE  ConnectInv'
  <1>1. pc \in Casting /\ cut' = "none"
    BY CutNone DEF SeePlay, StartPipeline, StartUibc, UibcFails, LeavePoll, Done,
                   Over, Casting
  <1>2. /\ pc' \in Casting \cup {"portalClose"} /\ UNCHANGED <<pending, interrupts, failed>>
        /\ \/ \E new \in {{}, {"pipeline"}, {"pointer", "listener"}} :
                held' = held \cup new /\ live' = live \cup new
           \/ \E new \in {{}, {"pointer"}, {"pointer", "listener"}} :
                held' = held /\ live' = live \cup new
    BY DEF SeePlay, StartPipeline, StartUibc, UibcFails, LeavePoll, Done, Casting,
           Openings
  <1>3. TypeOK'
    BY <1>1, <1>2, Steps DEF ConnectInv, TypeOK, Resources, Casting
  <1>4. CleanupInv'
    BY <1>1, <1>2, NotCleaning, Steps DEF Casting
  <1>5. ConsumerInv'
    BY <1>1, <1>2
    DEF ConnectInv, ConsumerInv, ConsumersFirst, Acquiring, Casting
  <1> QED
    BY <1>3, <1>4, <1>5 DEF ConnectInv

LEMMA PipelineDiesKeeps ==
  ASSUME ConnectInv, PipelineDies
  PROVE  ConnectInv'
  <1>1. /\ live' = live \ {"pipeline"}
        /\ UNCHANGED <<pc, held, pending, interrupts, cut, failed>>
    BY DEF PipelineDies
  <1>2. TypeOK'
    BY <1>1 DEF ConnectInv, TypeOK
  <1>3. \A i \in 1..9 : Left(i)' => Left(i)
    BY <1>1 DEF Left
  <1>4. CleanupInv'
    BY <1>1, <1>3 DEF ConnectInv, CleanupInv, Entered
  <1>5. ConsumerInv'
    BY <1>1 DEF ConnectInv, ConsumerInv, ConsumersFirst, Acquiring, Casting
  <1> QED
    BY <1>2, <1>4, <1>5 DEF ConnectInv

-----------------------------------------------------------------------------
(* The cleanup, and what breaks it off.                                    *)

LEMMA ReleasesWhat ==
  /\ Releases(CleanupOrder[2]) = {"listener"} /\ Releases(CleanupOrder[3]) = {"pointer"}
  /\ Releases(CleanupOrder[4]) = {"pipeline"} /\ Releases(CleanupOrder[5]) = {"kwin"}
  /\ Releases(CleanupOrder[6]) = {"channel"}
  /\ \A k \in 1..9 : k # 3 => "pointer" \notin Releases(CleanupOrder[k])
  /\ \A k \in 1..9 : k # 5 => "kwin" \notin Releases(CleanupOrder[k])
  /\ Releases("portalClose") = {"portal"}
  <1>1. /\ Releases("uibcStop") = {"listener"} /\ Releases("pointerClose") = {"pointer"}
        /\ Releases("pipelineStop") = {"pipeline"} /\ Releases("kwinClose") = {"kwin"}
        /\ Releases("sessionDown") = {"channel"} /\ Releases("portalClose") = {"portal"}
        /\ Releases("audioDown") = Audio /\ Releases("dhcpStop") = {"dhcp"}
        /\ Releases("groupDown") = {"group"} /\ Releases("busClose") = {"bus"}
    BY DEF Releases
  <1> QED
    BY <1>1, Order DEF Audio

(* A cleanup step, done or broken off, disturbs nothing that was done, and *)
(* takes nothing from a consumer.                                          *)
LEMMA StepKeeps ==
  ASSUME ConnectInv, NEW k \in 1..9, pc = CleanupOrder[k],
         NEW gone \in SUBSET (held \cap Releases(pc)), live' = live \ gone,
         held' = held, failed \subseteq failed', pc' \in CleanupSteps \cup {"returned"}
  PROVE  /\ \A i \in 1..9 : i < k => ~Left(i)'
         /\ live' \subseteq live
         /\ ConsumerInv'
  <1>1. live' \subseteq live /\ \A i \in 1..9 : Left(i)' => Left(i)
    BY DEF Left
  <1>2. \A i \in 1..9 : i < k => ~Left(i)
    BY DEF ConnectInv, CleanupInv
  <1>3. k = 5 => ~("pipeline" \in held /\ "pipeline" \in live)
    BY <1>2, ReleasesWhat DEF Left, ConnectInv, TypeOK, Audio
  <1>4. k = 3 => ~("listener" \in held /\ "listener" \in live)
    BY <1>2, ReleasesWhat DEF Left, ConnectInv, TypeOK, Audio
  <1>5. pc # "exited" /\ pc' \notin Acquiring \cup Casting
    BY Order, Steps DEF Acquiring, Casting
  <1>6. k # 5 => ("kwin" \in live' <=> "kwin" \in live)
    BY ReleasesWhat
  <1>7. k # 3 => ("pointer" \in live' <=> "pointer" \in live)
    BY ReleasesWhat
  <1>8. k = 3 => ("pointer" \in live => "pointer" \in live' \/ "pointer" \in held)
    BY ReleasesWhat
  <1>9. ConsumersFirst'
    BY <1>1, <1>3, <1>4, <1>5, <1>6, <1>7, <1>8
    DEF ConnectInv, ConsumerInv, ConsumersFirst
  <1>10. ConsumerInv'
    BY <1>5, <1>9 DEF ConnectInv, ConsumerInv, Acquiring
  <1> QED
    BY <1>1, <1>2, <1>10

LEMMA CleanUpKeeps ==
  ASSUME ConnectInv, CleanUp \/ SessionAlreadyDown
  PROVE  ConnectInv'
  <1>1. PICK k \in 1..9 :
          /\ pc = CleanupOrder[k]
          /\ pc' = IF k = 9 THEN "returned" ELSE CleanupOrder[k + 1]
          /\ \E remain \in SUBSET (held \cap live \cap MayRemain(pc)) :
                /\ \/ live' = (live \ (held \cap Releases(pc))) \cup remain
                   \/ live' = live /\ k = 6
                /\ failed' = failed \cup remain
          /\ UNCHANGED <<held, pending, interrupts, cut>>
    <2>1. CASE CleanUp
      BY <2>1, Order DEF CleanUp, Release
    <2>2. CASE SessionAlreadyDown
      <3>1. failed' = failed
        BY <2>2 DEF SessionAlreadyDown
      <3>2. /\ pc = CleanupOrder[6] /\ pc' = CleanupOrder[7]
            /\ UNCHANGED <<held, live, pending, interrupts, cut>>
        BY <2>2, Order DEF SessionAlreadyDown
      <3>3. \E remain \in SUBSET (held \cap live \cap MayRemain(pc)) :
              failed' = failed \cup remain
        <4>1. {} \in SUBSET (held \cap live \cap MayRemain(pc)) /\ failed = failed \cup {}
          OBVIOUS
        <4> QED
          BY <3>1, <4>1
      <3> QED
        BY <3>2, <3>3
    <2> QED
      BY <2>1, <2>2
  <1>2. pc' \in CleanupSteps \cup {"returned"}
    BY <1>1, Order, Steps
  <1>3. /\ (\A i \in 1..9 : i < k => ~Left(i)') /\ live' \subseteq live /\ ConsumerInv'
        /\ ~Left(k)' /\ failed' \subseteq Audio \cup {"group"}
    <2>1. PICK remain \in SUBSET (held \cap live \cap MayRemain(pc)) :
            /\ \/ live' = (live \ (held \cap Releases(pc))) \cup remain
               \/ live' = live /\ k = 6
            /\ failed' = failed \cup remain
      BY <1>1
    <2>2. MayRemain(pc) \subseteq Releases(pc) /\ MayRemain(pc) \subseteq Audio \cup {"group"}
      BY <1>1, Order DEF MayRemain, Releases
    <2>3. \E gone \in SUBSET (held \cap Releases(pc)) : live' = live \ gone
      <3>1. CASE live' = live
        BY <3>1
      <3>2. CASE live' = (live \ (held \cap Releases(pc))) \cup remain
        <4>1. live' = live \ ((held \cap Releases(pc)) \ remain)
          BY <2>1, <3>2
        <4> QED
          BY <4>1
      <3> QED
        BY <2>1, <3>1, <3>2
    <2>4. (\A i \in 1..9 : i < k => ~Left(i)') /\ live' \subseteq live /\ ConsumerInv'
      BY <1>1, <1>2, <2>1, <2>3, StepKeeps
    <2>5. ~Left(k)'
      BY <1>1, <2>1, ReleasesWhat DEF Left
    <2> QED
      BY <2>1, <2>2, <2>4, <2>5 DEF ConnectInv, TypeOK
  <1>5. TypeOK'
    BY <1>1, <1>2, <1>3 DEF ConnectInv, TypeOK
  <1>6. cut' = "none"
    BY <1>1, Order, CutNone DEF Over
  <1>7. \A i, j \in 1..9 : pc' = CleanupOrder[j] /\ i < j => i <= k
    BY <1>1, Order
  <1>8. CleanupInv'
    <2>1. \A i \in 1..9 : i <= k => ~Left(i)'
      BY <1>3
    <2>2. pc' = "returned" => k = 9
      BY <1>1, Order
    <2>3. pc' \notin {"audio", "elements", "open", "exited"}
      BY <1>2, Steps
    <2> QED
      BY <1>6, <1>7, <2>1, <2>2, <2>3 DEF CleanupInv, Over
  <1> QED
    BY <1>3, <1>5, <1>8 DEF ConnectInv

LEMMA ClosePortalKeeps ==
  ASSUME ConnectInv, ClosePortal
  PROVE  ConnectInv'
  <1>1. /\ pc = "portalClose" /\ pc' = "audioDown"
        /\ live' = live \ (held \cap {"portal"})
        /\ UNCHANGED <<held, pending, interrupts, cut, failed>>
    <2>1. MayRemain("portalClose") = {}
      BY DEF MayRemain
    <2> QED
      BY <2>1, ReleasesWhat DEF ClosePortal, Release
  <1>2. TypeOK'
    BY <1>1, Steps DEF ConnectInv, TypeOK
  <1>3. CleanupInv'
    BY <1>1, CutNone, NotCleaning DEF Over
  <1>4. ConsumerInv'
    BY <1>1 DEF ConnectInv, ConsumerInv, ConsumersFirst, Acquiring, Casting
  <1> QED
    BY <1>2, <1>3, <1>4 DEF ConnectInv

LEMMA ExitKeeps ==
  ASSUME ConnectInv, Exit
  PROVE  ConnectInv'
  <1>1. /\ pc = "returned" /\ pc' = "exited"
        /\ live' \subseteq live \cap Persistent
        /\ UNCHANGED <<held, pending, interrupts, cut, failed>>
    BY DEF Exit
  <1>2. TypeOK'
    BY <1>1 DEF ConnectInv, TypeOK
  <1>3. \A i \in 1..9 : Left(i)' => Left(i)
    BY <1>1 DEF Left
  <1>4. CleanupInv'
    BY <1>1, <1>3, Order DEF ConnectInv, CleanupInv, Entered, Over, Persistent, Audio
  <1>5. ConsumerInv'
    BY <1>1 DEF ConnectInv, ConsumerInv, ConsumersFirst, Acquiring, Casting
  <1> QED
    BY <1>2, <1>4, <1>5 DEF ConnectInv

(* What an exception may have left of the statement it leaves.             *)
LEMMA AbortEarly ==
  ASSUME ConnectInv, Abort, pc \notin CleanupSteps
  PROVE  /\ pc' = Unwound /\ cut' = cut /\ failed' = failed
         /\ held \subseteq held' /\ held' \subseteq Resources /\ live' \subseteq Resources
         /\ live \ {"portal"} \subseteq live'
         /\ pc \in {"audio", "elements", "open"} => held' = held
         /\ "kwin" \in held' => "kwin" \in held \/ pc = "kwin"
         /\ "pipeline" \in held' => "pipeline" \in held \/ pc = "start"
         /\ "pipeline" \in live' => "pipeline" \in live \/ pc = "start"
         /\ "pointer" \in held' <=> "pointer" \in held
         /\ "listener" \in held' <=> "listener" \in held
         /\ "listener" \in live' => "listener" \in live \/ "pointer" \in live'
  <1>1. PICK gone \in SUBSET (held \cap Releases(pc)), come \in Openings(pc) :
          /\ live' = (live \ gone) \cup come
          /\ \E known \in {{}, come \cap {"group"}} :
                held' = held \cup HeldEarly(pc) \cup known
    BY DEF Abort
  <1>2. pc \in Acquiring \cup Casting \cup {"portalClose"}
    BY PlaceType DEF Abort, ConnectInv, Places, Over
  <1>3. gone \subseteq {"portal"}
    BY <1>1, <1>2 DEF Releases, Acquiring, Casting
  <1>4. /\ come \subseteq Resources
        /\ "pipeline" \in come => pc = "start"
        /\ "listener" \in come => "pointer" \in come
        /\ "group" \in come => pc = "group"
    BY <1>1, <1>2 DEF Openings, Acquiring, Casting, Resources, Audio
  <1>5. /\ HeldEarly(pc) \subseteq {"dhcp", "kwin", "portal", "channel", "pipeline"}
        /\ "pipeline" \in HeldEarly(pc) => pc = "start"
        /\ "kwin" \in HeldEarly(pc) => pc = "kwin"
        /\ pc \in {"audio", "elements", "open"} => HeldEarly(pc) = {}
    BY <1>2 DEF HeldEarly, Acquiring, Casting
  <1>6. held' \subseteq Resources /\ live' \subseteq Resources
    BY <1>1, <1>4, <1>5 DEF ConnectInv, TypeOK, Resources
  <1>7. pc' = Unwound /\ cut' = cut /\ failed' = failed
    BY DEF Abort
  <1> QED
    BY <1>1, <1>3, <1>4, <1>5, <1>6, <1>7

LEMMA AbortKeeps ==
  ASSUME ConnectInv, Abort, pending' \in BOOLEAN, interrupts' \in 0..MaxInterrupts
  PROVE  ConnectInv'
  <1>1. CASE pc \in CleanupSteps
    <2>1. PICK k \in 1..9 : pc = CleanupOrder[k]
      BY <1>1, Order DEF CleanupSteps, Range
    <2>2. Openings(pc) = {{}} /\ HeldEarly(pc) = {}
      BY <1>1, Steps DEF Openings, HeldEarly
    <2>3. /\ pc' = "returned" /\ cut' = pc /\ held' = held
          /\ \E gone \in SUBSET (held \cap Releases(pc)) : live' = live \ gone
          /\ failed' = failed
      <3>1. PICK gone \in SUBSET (held \cap Releases(pc)), come \in Openings(pc) :
              /\ live' = (live \ gone) \cup come
              /\ \E known \in {{}, come \cap {"group"}} :
                    held' = held \cup HeldEarly(pc) \cup known
        BY DEF Abort
      <3>0. come = {}
        BY <2>2, <3>1
      <3>2. live' = live \ gone /\ held' = held
        BY <2>2, <3>0, <3>1
      <3>3. pc' = "returned" /\ cut' = pc /\ failed' = failed
        BY <1>1, Steps DEF Abort, Unwound
      <3> QED
        BY <3>1, <3>2, <3>3
    <2>4. (\A i \in 1..9 : i < k => ~Left(i)') /\ live' \subseteq live /\ ConsumerInv'
      BY <2>1, <2>3, StepKeeps
    <2>5. TypeOK'
      BY <1>1, <2>3, <2>4 DEF ConnectInv, TypeOK
    <2>6. CleanupInv'
      <3>1. \A j \in 1..9 : pc' # CleanupOrder[j]
        BY <2>3, Order
      <3>2. \A i \in 1..9 : Left(i)' => \E j \in 1..i : cut' = CleanupOrder[j]
        BY <2>1, <2>3, <2>4
      <3> QED
        BY <2>3, <3>1, <3>2 DEF CleanupInv, Over
    <2> QED
      BY <2>4, <2>5, <2>6 DEF ConnectInv
  <1>2. CASE pc \notin CleanupSteps
    <2>1. pc \in Acquiring \cup Casting \cup {"portalClose"}
      BY <1>2, PlaceType DEF Abort, ConnectInv, Places, Over
    <2>2. /\ pc' \in {"returned", "portalClose", "audioDown"}
          /\ pc' = "returned" => pc \in {"audio", "elements", "open"}
      BY <1>2, <2>1, AbortEarly, Steps DEF Unwound, Acquiring, Casting
    <2>3. cut' = "none" /\ cut' = cut
      BY <1>2, AbortEarly, CutNone DEF Abort, Over
    <2>4. TypeOK'
      BY <1>2, <2>2, <2>3, AbortEarly, Steps DEF ConnectInv, TypeOK
    <2>5. pc' \in {"audio", "elements", "open", "returned"} => ~Entered'
      BY <1>2, <2>2, AbortEarly DEF ConnectInv, CleanupInv, Entered
    <2>6. CleanupInv'
      BY <2>2, <2>3, <2>5, NotCleaning, Steps
    <2>7. {"pipeline", "kwin"} \subseteq held' /\ "pipeline" \in live' => "kwin" \in live'
      BY <1>2, <2>1, AbortEarly
      DEF ConnectInv, ConsumerInv, ConsumersFirst, Acquiring, Casting
    <2>8. "listener" \in live' => "pointer" \in live'
      BY <1>2, <2>1, AbortEarly DEF ConnectInv, ConsumerInv, ConsumersFirst,
         Acquiring, Casting
    <2>9. "pointer" \in held' <=> "listener" \in held'
      BY <1>2, AbortEarly DEF ConnectInv, ConsumerInv
    <2>10. ConsumerInv'
      BY <2>2, <2>7, <2>8, <2>9 DEF ConsumerInv, ConsumersFirst, Acquiring, Casting
    <2> QED
      BY <2>4, <2>6, <2>10 DEF ConnectInv
  <1> QED
    BY <1>1, <1>2

LEMMA InterruptKeeps ==
  ASSUME ConnectInv, Fails \/ CtrlC \/ Cancelled \/ Terminate
  PROVE  ConnectInv'
  <1>1. CASE CtrlC
    <2>1. interrupts' \in 0..MaxInterrupts /\ pending' \in BOOLEAN
      BY <1>1, MaxInterruptsAssumption DEF CtrlC
    <2>2. UNCHANGED <<pc, held, live, cut, failed>>
      BY <1>1 DEF CtrlC
    <2> QED
      BY <2>1, <2>2 DEF ConnectInv, TypeOK, CleanupInv, ConsumerInv, ConsumersFirst,
                        Entered, Left
  <1>2. CASE Fails \/ Cancelled
    BY <1>2, AbortKeeps DEF Fails, Cancelled, ConnectInv, TypeOK
  <1>3. CASE Terminate
    <2>1. interrupts' \in 0..MaxInterrupts /\ pending' \in BOOLEAN
      BY <1>3, MaxInterruptsAssumption DEF Terminate, ConnectInv, TypeOK
    <2> QED
      BY <1>3, <2>1, AbortKeeps DEF Terminate
  <1> QED
    BY <1>1, <1>2, <1>3

-----------------------------------------------------------------------------
(* Together.                                                               *)

LEMMA ConnectStart == Init => ConnectInv
  <1> SUFFICES ASSUME Init PROVE ConnectInv
    OBVIOUS
  <1>1. TypeOK
    <2>1. interrupts \in 0..MaxInterrupts
      BY MaxInterruptsAssumption DEF Init
    <2>2. pending \in BOOLEAN
      BY DEF Init
    <2> QED
      BY <2>1, <2>2 DEF Init, TypeOK
  <1>2. CleanupInv
    BY Order DEF Init, CleanupInv, Entered, Over
  <1>3. ConsumerInv
    BY DEF Init, ConsumerInv, ConsumersFirst, Casting
  <1> QED
    BY <1>1, <1>2, <1>3 DEF ConnectInv

LEMMA ConnectKeeps ==
  ASSUME ConnectInv, [Next]_vars
  PROVE  ConnectInv'
  <1>1. CASE UNCHANGED vars
    BY <1>1 DEF vars, ConnectInv, TypeOK, CleanupInv, ConsumerInv, ConsumersFirst,
                Entered, Left
  <1> QED
    BY <1>1, AudioKeeps, GroupKeeps, CaptureKeeps, CastKeeps, PipelineDiesKeeps,
       CleanUpKeeps, ClosePortalKeeps, ExitKeeps, InterruptKeeps
    DEF Next, Acquire, Cast, Finally, Interrupt, Exited

(* Taking the two captures apart adds nothing to what cmd_connect does:    *)
(* every step of Capture is one of Connect, or none.                       *)
THEOREM CaptureImplementsConnect == CaptureSpec => Init /\ [][Next]_vars
  <1>1. CaptureInit => Init
    BY DEF CaptureInit
  <1>2. ConnectStep => Next
    BY DEF ConnectStep, Next, Acquire, Interrupt
  <1>3. KWin => [Next]_vars
    BY DEF KWin, ConnectWayland, AskForStream, StreamCreated, FallsBack, Next, Acquire
  <1>4. Portal => [Next]_vars
    BY DEF Portal, ConnectBus, RequestDone, OnReply, OnResponse, RemoteOpened,
           Next, Acquire
  <1>5. Others => UNCHANGED vars
    BY DEF Others, ListGlobals, CreateOutput, RefuseOutput, CloseOutput, BreakOff,
           Compositor, ClientGone, Reply, Respond, Sends, SessionEnds
  <1>6. [CaptureNext]_allVars => [Next]_vars
    BY <1>2, <1>3, <1>4, <1>5 DEF CaptureNext, Exited, allVars
  <1> QED
    BY <1>1, <1>6, PTL DEF CaptureSpec

(* The inductive invariant of cmd_connect: what is up at each step, and    *)
(* what the finally clause has still to stop.                              *)
THEOREM ConnectCorrect == CaptureSpec => []ConnectInv
  BY ConnectStart, ConnectKeeps, CaptureImplementsConnect, PTL

(* However many signals come, and whatever fails, what the finally clause  *)
(* of cmd_connect leaves behind is what it could not release, and what     *)
(* comes from the step broken off on.                                      *)
THEOREM LeftOnlyByCut == CaptureSpec => []LeftByCut
  <1>1. ConnectInv => LeftByCut
    <2> SUFFICES ASSUME ConnectInv, pc = "exited", Entered, NEW i \in DOMAIN CleanupOrder,
                        (held \cap live \cap Releases(CleanupOrder[i])) \ failed # {}
                 PROVE  \E j \in 1..i : cut = CleanupOrder[j]
      BY DEF LeftByCut
    <2>1. i \in 1..9
      BY Order
    <2>2. Left(i)
      BY DEF ConnectInv, CleanupInv, Left
    <2> QED
      BY <2>1, <2>2 DEF ConnectInv, CleanupInv, Over
  <1> QED
    BY <1>1, ConnectCorrect, PTL

(* On every path, broken off or not, the pipeline goes before the output   *)
(* it reads and the listener before the pointer.                           *)
THEOREM ConsumersGoFirst == CaptureSpec => []ConsumersFirst
  <1>1. ConnectInv => ConsumersFirst
    BY DEF ConnectInv, ConsumerInv
  <1> QED
    BY <1>1, ConnectCorrect, PTL

-----------------------------------------------------------------------------
(* The two captures.                                                       *)

Early == {"audio", "elements", "open", "peer", "group", "lease", "capture", "kwin"}
Asking == {"create", "select", "start"}

(* KWin has an output for us only from when we ask for a stream until it   *)
(* has said that there is none; and whoever turns to the portal has either *)
(* not asked, or read that.                                                *)
OutputInv ==
    /\ pc \in Early \ {"kwin"} => kstep = "connect"
    /\ kstep = "connect" => wayland = <<>> /\ output = "none"
    /\ kstep = "registry" =>
          /\ output = "none"
          /\ \A i \in DOMAIN wayland : wayland[i] \notin {"created", "failed", "closed"}
    /\ \A i \in DOMAIN wayland : wayland[i] \in Ends => output = "none"
    /\ pstep # "bus" \/ pc = "portal" => output = "none"

(* The portal is asked nothing before; a request's Response that has not   *)
(* been heard is still to come, to a handler that is there.                *)
RequestInv ==
    /\ pc \in Early => pstep = "bus"
    /\ pstep = "bus" =>
          awaits = "none" /\ owed = {} /\ dbus = <<>> /\ session = "none"
    /\ pstep = "remote" => awaits # "fut"
    /\ pc = "portal" /\ pstep \in Asking =>
          /\ listening
          /\ fut = "pending" =>
                "response" \in owed \/ \E i \in DOMAIN dbus : dbus[i] \in Results

CaptureInv == CaptureTypeOK /\ OutputInv /\ RequestInv

Events == Offers \cup Ends \cup {"created"}
Messages == {"reply"} \cup Results

LEMMA EventTail ==
  ASSUME NEW S, NEW q \in Seq(S), q # <<>>
  PROVE  /\ Head(q) = q[1] /\ 1 \in DOMAIN q /\ Tail(q) \in Seq(S)
         /\ \A i \in DOMAIN Tail(q) : i + 1 \in DOMAIN q /\ Tail(q)[i] = q[i + 1]
         /\ \A i \in DOMAIN q : i # 1 =>
               i - 1 \in DOMAIN Tail(q) /\ Tail(q)[i - 1] = q[i]
  OBVIOUS

LEMMA EventAppend ==
  ASSUME NEW S, NEW q \in Seq(S), NEW e \in S
  PROVE  /\ Append(q, e) \in Seq(S) /\ q \o <<e>> = Append(q, e)
         /\ DOMAIN Append(q, e) = DOMAIN q \cup {Len(q) + 1}
         /\ \A i \in DOMAIN q : i # Len(q) + 1 /\ Append(q, e)[i] = q[i]
         /\ Append(q, e)[Len(q) + 1] = e
  OBVIOUS

LEMMA NoEvents ==
  ASSUME NEW S
  PROVE  <<>> \in Seq(S) /\ DOMAIN <<>> = {}
  OBVIOUS

(* cmd_connect goes on, or out: it does not come back to what it acquires. *)
LEMMA GoesOn ==
  ASSUME ConnectInv, Acquire \/ Cast \/ Finally \/ Interrupt
  PROVE  /\ pc' \in Early => pc \in Early
         /\ pc' \in Early \ {"kwin"} => pc \in Early \ {"kwin"}
         /\ pc' = "portal" => pc \in Early \cup {"portal"}
  <1>1. CASE Acquire /\ ~Fails
    BY <1>1 DEF Acquire, SetUpAudio, CheckElements, Open, FindPeer, FormGroup, Lease,
                ChooseCapture, OpenKWin, FallBackToPortal, OpenPortal, Serve, Done, Early
  <1>2. CASE Cast
    BY <1>2 DEF Cast, SeePlay, StartPipeline, StartUibc, UibcFails, PipelineDies,
                LeavePoll, Done, Early
  <1>3. CASE CleanUp
    <2>1. PICK k \in 1..9 :
            pc' = IF k = 9 THEN "returned" ELSE CleanupOrder[k + 1]
      BY <1>3, Order DEF CleanUp, Release
    <2>2. pc' \in CleanupSteps \cup {"returned"}
      BY <2>1, Order, Steps
    <2> QED
      BY <2>2, Steps DEF Early
  <1>4. CASE ClosePortal \/ SessionAlreadyDown \/ Exit \/ CtrlC
    BY <1>4 DEF ClosePortal, SessionAlreadyDown, Exit, CtrlC, Release, Early
  <1>5. CASE Abort
    BY <1>5 DEF Abort, Unwound, Early
  <1> QED
    BY <1>1, <1>2, <1>3, <1>4, <1>5
    DEF Acquire, Finally, Interrupt, Fails, Cancelled, Terminate

LEMMA ConnectStepKeeps ==
  ASSUME CaptureInv, ConnectInv, TypeOK', ConnectStep
  PROVE  CaptureInv'
  <1>1. CASE pc \notin {"kwin", "portal"} /\ UNCHANGED captureVars
             /\ (Acquire \/ Cast \/ Finally \/ Interrupt)
    <2>1. /\ pc' \in Early => pc \in Early
          /\ pc' \in Early \ {"kwin"} => pc \in Early \ {"kwin"}
          /\ pc' = "portal" => pc \in Early \ {"kwin"}
      BY <1>1, GoesOn DEF Early
    <2>2. CaptureTypeOK'
      BY <1>1 DEF CaptureInv, CaptureTypeOK, captureVars, kwinVars, portalVars, requestVars
    <2>3. OutputInv'
      BY <1>1, <2>1
      DEF CaptureInv, OutputInv, captureVars, kwinVars, portalVars, requestVars
    <2>4. RequestInv'
      BY <1>1, <2>1
      DEF CaptureInv, RequestInv, Asking, captureVars, kwinVars, portalVars, requestVars
    <2> QED
      BY <2>2, <2>3, <2>4 DEF CaptureInv
  <1>2. CASE /\ pc \in {"kwin", "portal"}
             /\ (Fails /\ Fruitless) \/ Cancelled \/ Terminate
             /\ pc = "kwin" => LeaveKWin /\ UNCHANGED portalVars
             /\ pc = "portal" => LeavePortal /\ UNCHANGED kwinVars
    <2>1. pc' \in {"audioDown"}
      BY <1>2, Steps DEF Fails, Cancelled, Terminate, Abort, Unwound
    <2>2. pc' \notin Early /\ pc' # "portal"
      BY <2>1 DEF Early
    <2>3. CASE pc = "kwin"
      BY <1>2, <2>2, <2>3, NoEvents
      DEF CaptureInv, CaptureTypeOK, OutputInv, RequestInv, LeaveKWin, portalVars,
          requestVars, Early
    <2>4. CASE pc = "portal"
      BY <1>2, <2>2, <2>4, NoEvents
      DEF CaptureInv, CaptureTypeOK, OutputInv, RequestInv, LeavePortal, kwinVars, Early
    <2> QED
      BY <1>2, <2>3, <2>4
  <1>3. CASE CtrlC /\ UNCHANGED captureVars
    BY <1>3
    DEF CtrlC, CaptureInv, CaptureTypeOK, OutputInv, RequestInv, captureVars, kwinVars,
        portalVars, requestVars
  <1> QED
    BY <1>1, <1>2, <1>3 DEF ConnectStep

LEMMA KWinKeeps ==
  ASSUME CaptureInv, TypeOK', KWin
  PROVE  CaptureInv'
  <1>0. /\ wayland \in Seq(Events) /\ UNCHANGED portalVars /\ pc = "kwin"
        /\ pstep = "bus"
    BY DEF CaptureInv, CaptureTypeOK, Events, RequestInv, Early, KWin, ConnectWayland,
           AskForStream, StreamCreated, FallsBack, FallBackToPortal, OpenKWin, Done
  <1>1. RequestInv' /\ (pc' \notin Early \/ pc' = "kwin")
    BY <1>0
    DEF CaptureInv, RequestInv, Asking, Early, portalVars, requestVars, KWin,
        ConnectWayland, AskForStream, StreamCreated, FallsBack, FallBackToPortal,
        OpenKWin, Done, vars
  <1>2. CASE ConnectWayland
    BY <1>0, <1>1, <1>2
    DEF ConnectWayland, CaptureInv, CaptureTypeOK, OutputInv, portalVars, requestVars,
        vars, Early
  <1>3. CASE AskForStream
    <2>1. /\ wayland # <<>> /\ wayland' = Tail(wayland) /\ kstep = "registry"
          /\ kstep' = "stream" /\ output' \in {"none", "asked"}
          /\ output' = "asked" => ~BrokenOff
          /\ pc' = pc
      BY <1>3 DEF AskForStream, Reads, vars
    <2>2. wayland' \in Seq(Events)
      BY <1>0, <2>1, EventTail
    <2>3. ASSUME NEW i \in DOMAIN wayland', wayland'[i] \in Ends
          PROVE  output' = "none"
      <3>1. i + 1 \in DOMAIN wayland /\ wayland[i + 1] = wayland'[i]
        BY <1>0, <2>1, EventTail
      <3>2. wayland[i + 1] \in {"error", "eof"}
        BY <2>1, <2>3, <3>1 DEF CaptureInv, OutputInv, Ends
      <3> QED
        BY <2>1, <3>1, <3>2 DEF BrokenOff
    <2>4. OutputInv'
      BY <1>0, <2>1, <2>3 DEF OutputInv, Early, portalVars, requestVars
    <2>5. CaptureTypeOK'
      BY <1>0, <2>1, <2>2
      DEF CaptureInv, CaptureTypeOK, Events, portalVars, requestVars
    <2> QED
      BY <1>1, <2>4, <2>5 DEF CaptureInv
  <1>4. CASE StreamCreated
    <2>1. pc' = "serve" /\ kstep' = "left" /\ wayland' = <<>> /\ output' = output
      BY <1>4 DEF StreamCreated, OpenKWin, Done, LeaveKWin
    <2>2. OutputInv'
      BY <1>0, <2>1, NoEvents DEF OutputInv, Early, portalVars, requestVars
    <2>3. CaptureTypeOK'
      BY <1>0, <2>1, NoEvents DEF CaptureInv, CaptureTypeOK, portalVars, requestVars
    <2> QED
      BY <1>1, <2>2, <2>3 DEF CaptureInv
  <1>5. CASE FallsBack
    <2>1. pc' = "portal" /\ kstep' = "left" /\ wayland' = <<>> /\ output' = output
      BY <1>5 DEF FallsBack, FallBackToPortal, LeaveKWin
    <2>2. output = "none"
      <3>1. CASE kstep \in {"connect", "registry"}
        BY <3>1 DEF CaptureInv, OutputInv
      <3>2. CASE kstep = "stream" /\ \E e \in Ends : Reads(e)
        <4>1. wayland # <<>> /\ Head(wayland) \in Ends
          BY <3>2 DEF Reads
        <4>2. 1 \in DOMAIN wayland /\ wayland[1] \in Ends
          BY <1>0, <4>1, EventTail
        <4> QED
          BY <4>2 DEF CaptureInv, OutputInv
      <3> QED
        BY <1>5, <3>1, <3>2 DEF FallsBack, Refused
    <2>3. OutputInv'
      BY <1>0, <2>1, <2>2, NoEvents DEF OutputInv, Early, portalVars, requestVars
    <2>4. CaptureTypeOK'
      BY <1>0, <2>1, NoEvents DEF CaptureInv, CaptureTypeOK, portalVars, requestVars
    <2> QED
      BY <1>1, <2>3, <2>4 DEF CaptureInv
  <1> QED
    BY <1>2, <1>3, <1>4, <1>5 DEF KWin

LEMMA PortalKeeps ==
  ASSUME CaptureInv, TypeOK', Portal
  PROVE  CaptureInv'
  <1>0. /\ dbus \in Seq(Messages) /\ UNCHANGED kwinVars /\ pc = "portal"
        /\ output = "none" /\ pc' \in {"portal", "serve"}
    BY DEF CaptureInv, CaptureTypeOK, Messages, OutputInv, Portal, ConnectBus,
           RequestDone, OnReply, OnResponse, Arrives, RemoteOpened, OpenPortal, Done, vars
  <1>1. OutputInv'
    BY <1>0 DEF CaptureInv, OutputInv, kwinVars, Early
  <1>2. ASSUME NEW step \in Asking, Request(step), UNCHANGED <<dbus, session>>
        PROVE  CaptureInv'
    BY <1>0, <1>1, <1>2
    DEF Request, Asking, CaptureInv, CaptureTypeOK, RequestInv, kwinVars, Early
  <1>3. CASE ConnectBus
    BY <1>2, <1>3 DEF ConnectBus, Asking
  <1>4. CASE RequestDone
    <2>1. CASE pstep \in {"create", "select"} /\ Request(Following(pstep))
      BY <1>2, <1>4, <2>1 DEF RequestDone, Following, Asking
    <2>2. CASE /\ pstep' = "remote" /\ awaits' = "reply" /\ owed' = {"reply"}
               /\ listening' = FALSE /\ fut' = "pending"
      BY <1>0, <1>1, <1>4, <2>2
      DEF RequestDone, Asking, CaptureInv, CaptureTypeOK, RequestInv, kwinVars, Early
    <2> QED
      BY <1>4, <2>1, <2>2 DEF RequestDone
  <1>5. CASE OnReply
    <2>1. /\ dbus # <<>> /\ dbus' = Tail(dbus) /\ Head(dbus) = "reply"
          /\ pstep # "remote" /\ awaits' = "fut" /\ listening' = TRUE
          /\ UNCHANGED <<pc, session, pstep, fut, owed>>
      BY <1>5 DEF OnReply, Arrives, vars
    <2>2. dbus' \in Seq(Messages)
      BY <1>0, <2>1, EventTail
    <2>3. ASSUME NEW i \in DOMAIN dbus, dbus[i] \in Results
          PROVE  \E j \in DOMAIN dbus' : dbus'[j] \in Results
      <3>1. i # 1
        BY <1>0, <2>1, <2>3, EventTail DEF Results
      <3> QED
        BY <1>0, <2>1, <2>3, <3>1, EventTail
    <2>4. pstep # "bus"
      BY <2>1 DEF CaptureInv, RequestInv
    <2>5. RequestInv'
      BY <1>0, <2>1, <2>3, <2>4 DEF CaptureInv, RequestInv, Early
    <2>6. CaptureTypeOK'
      BY <1>0, <2>1, <2>2 DEF CaptureInv, CaptureTypeOK, Messages, kwinVars
    <2> QED
      BY <1>1, <2>5, <2>6 DEF CaptureInv
  <1>6. CASE OnResponse
    <2>1. PICK result \in Results :
            /\ dbus # <<>> /\ dbus' = Tail(dbus)
            /\ fut' = IF listening /\ fut = "pending" THEN result ELSE fut
            /\ UNCHANGED <<pc, session, pstep, awaits, listening, owed>>
      BY <1>6 DEF OnResponse, Arrives, vars
    <2>2. dbus' \in Seq(Messages)
      BY <1>0, <2>1, EventTail
    <2>3. pstep # "bus"
      BY <2>1 DEF CaptureInv, RequestInv
    <2>4. listening => fut' # "pending"
      BY <2>1 DEF Results
    <2>5. RequestInv'
      BY <1>0, <2>1, <2>3, <2>4 DEF CaptureInv, RequestInv, Early
    <2>6. CaptureTypeOK'
      BY <1>0, <2>1, <2>2 DEF CaptureInv, CaptureTypeOK, Messages, kwinVars
    <2> QED
      BY <1>1, <2>5, <2>6 DEF CaptureInv
  <1>7. CASE RemoteOpened
    BY <1>0, <1>1, <1>7, NoEvents
    DEF RemoteOpened, OpenPortal, Done, LeavePortal, CaptureInv, CaptureTypeOK,
        RequestInv, kwinVars, Early
  <1> QED
    BY <1>3, <1>4, <1>5, <1>6, <1>7 DEF Portal

(* An event of the compositor: an end only when there is no output.        *)
LEMMA CompositorKeeps ==
  ASSUME CaptureInv, TypeOK', NEW e \in Events, NEW state, Compositor(<<e>>, state),
         kstep # "connect" \/ (state = "none" /\ pc # "kwin"),
         state \in {"none", output} \/ (output = "asked" /\ state = "there"),
         e \in Ends => state = "none",
         kstep = "registry" /\ pc = "kwin" => e \notin {"created", "failed", "closed"}
  PROVE  CaptureInv'
  <1>1. /\ wayland \in Seq(Events) /\ output' = state
        /\ UNCHANGED <<vars, kstep, portalVars>>
        /\ wayland' = IF pc = "kwin" THEN Append(wayland, e) ELSE wayland
    <2>1. wayland \in Seq(Events)
      BY DEF CaptureInv, CaptureTypeOK, Events
    <2>2. wayland \o <<e>> = Append(wayland, e)
      BY <2>1, EventAppend
    <2> QED
      BY <2>1, <2>2 DEF Compositor
  <1>2. wayland' \in Seq(Events)
    BY <1>1, EventAppend
  <1>3. output = "none" => output' = "none"
    BY <1>1
  <1>4. \A i \in DOMAIN wayland' :
          \/ i \in DOMAIN wayland /\ wayland'[i] = wayland[i]
          \/ wayland'[i] = e /\ pc = "kwin"
    <2>1. CASE pc = "kwin"
      <3>1. /\ DOMAIN Append(wayland, e) = DOMAIN wayland \cup {Len(wayland) + 1}
            /\ \A i \in DOMAIN wayland : Append(wayland, e)[i] = wayland[i]
            /\ Append(wayland, e)[Len(wayland) + 1] = e
        BY <1>1, EventAppend
      <3> QED
        BY <1>1, <2>1, <3>1
    <2>2. CASE pc # "kwin"
      <3>1. wayland' = wayland
        BY <1>1, <2>2
      <3> QED
        BY <3>1
    <2> QED
      BY <2>1, <2>2
  <1>5. pc # "kwin" => wayland' = wayland
    BY <1>1
  <1>6. OutputInv'
    BY <1>1, <1>3, <1>4, <1>5
    DEF CaptureInv, OutputInv, vars, portalVars, requestVars, Early
  <1>7. RequestInv'
    BY <1>1 DEF CaptureInv, RequestInv, vars, portalVars, requestVars
  <1>8. CaptureTypeOK'
    BY <1>1, <1>2
    DEF CaptureInv, CaptureTypeOK, Events, vars, portalVars, requestVars
  <1> QED
    BY <1>6, <1>7, <1>8 DEF CaptureInv

LEMMA SendsKeep ==
  ASSUME CaptureInv, TypeOK', NEW what \in {"reply", "response"},
         NEW message \in Messages, Sends(what, message),
         what = "response" => message \in Results,
         session' \in {"none", "open", "casting"}
  PROVE  CaptureInv'
  <1>1. /\ dbus \in Seq(Messages) /\ what \in owed /\ owed' = owed \ {what}
        /\ dbus' = IF pc = "portal" THEN Append(dbus, message) ELSE dbus
        /\ UNCHANGED <<vars, kwinVars, pstep, awaits, listening, fut>>
    BY DEF CaptureInv, CaptureTypeOK, Messages, Sends
  <1>2. dbus' \in Seq(Messages)
    BY <1>1, EventAppend
  <1>3. pstep # "bus"
    BY <1>1 DEF CaptureInv, RequestInv
  <1>4. pc = "portal" =>
          /\ \A i \in DOMAIN dbus : i \in DOMAIN dbus' /\ dbus'[i] = dbus[i]
          /\ \E i \in DOMAIN dbus' : dbus'[i] = message
    BY <1>1, EventAppend
  <1>5. RequestInv'
    BY <1>1, <1>3, <1>4 DEF CaptureInv, RequestInv, vars, kwinVars
  <1>6. OutputInv'
    BY <1>1 DEF CaptureInv, OutputInv, vars, kwinVars
  <1>7. CaptureTypeOK'
    BY <1>1, <1>2 DEF CaptureInv, CaptureTypeOK, Messages, vars, kwinVars
  <1> QED
    BY <1>5, <1>6, <1>7 DEF CaptureInv

LEMMA OthersKeep ==
  ASSUME CaptureInv, TypeOK', Others
  PROVE  CaptureInv'
  <1>1. CASE ListGlobals
    BY <1>1, CompositorKeeps DEF ListGlobals, Offers, Ends, Events
  <1>2. CASE CreateOutput
    <2>1. kstep \notin {"connect", "registry"}
      BY <1>2 DEF CreateOutput, CaptureInv, OutputInv
    <2> QED
      BY <1>2, <2>1, CompositorKeeps DEF CreateOutput, Ends, Events
  <1>3. CASE RefuseOutput \/ CloseOutput
    <2>1. kstep \notin {"connect", "registry"}
      BY <1>3 DEF RefuseOutput, CloseOutput, CaptureInv, OutputInv
    <2> QED
      BY <1>3, <2>1, CompositorKeeps DEF RefuseOutput, CloseOutput, Ends, Events
  <1>4. CASE BreakOff
    <2>1. kstep # "connect"
      BY <1>4 DEF BreakOff, Compositor, OnWayland
    <2> QED
      BY <1>4, <2>1, CompositorKeeps DEF BreakOff, Ends, Events
  <1>5. CASE ClientGone
    BY <1>5
    DEF ClientGone, CaptureInv, CaptureTypeOK, OutputInv, RequestInv, vars, portalVars,
        requestVars
  <1>6. CASE Reply
    <2>1. Sends("reply", "reply") /\ session' = session
      BY <1>6 DEF Reply
    <2> QED
      BY <2>1, SendsKeep DEF Messages, CaptureInv, CaptureTypeOK
  <1>7. CASE Respond
    <2>1. PICK message \in Results : Sends("response", message)
      BY <1>7 DEF Respond, Results
    <2>2. session' \in {"none", "open", "casting"}
      BY <1>7 DEF Respond, CaptureInv, CaptureTypeOK
    <2> QED
      BY <2>1, <2>2, SendsKeep DEF Messages
  <1>8. CASE SessionEnds
    BY <1>8
    DEF SessionEnds, CaptureInv, CaptureTypeOK, OutputInv, RequestInv, vars, kwinVars,
        requestVars
  <1> QED
    BY <1>1, <1>2, <1>3, <1>4, <1>5, <1>6, <1>7, <1>8 DEF Others

LEMMA CaptureStart == CaptureInit => CaptureInv
  <1> SUFFICES ASSUME CaptureInit PROVE CaptureInv
    OBVIOUS
  <1>1. TypeOK
    BY ConnectStart DEF CaptureInit, ConnectInv
  <1>2. CaptureTypeOK
    BY <1>1, NoEvents DEF CaptureInit, CaptureTypeOK
  <1>3. OutputInv /\ RequestInv
    BY NoEvents DEF CaptureInit, Init, OutputInv, RequestInv, Early, Asking
  <1> QED
    BY <1>2, <1>3 DEF CaptureInv

LEMMA CaptureStep ==
  ASSUME CaptureInv, ConnectInv, TypeOK', [CaptureNext]_allVars
  PROVE  CaptureInv'
  <1>1. CASE UNCHANGED allVars
    BY <1>1
    DEF allVars, captureVars, vars, kwinVars, portalVars, requestVars, CaptureInv,
        CaptureTypeOK, OutputInv, RequestInv
  <1> QED
    BY <1>1, ConnectStepKeeps, KWinKeeps, PortalKeeps, OthersKeep
    DEF CaptureNext, Exited, allVars

(* The inductive invariant of the two captures: what has been asked of the *)
(* compositor and of the portal, and what is still to come from them.      *)
THEOREM CaptureCorrect == CaptureSpec => []CaptureInv
  <1>1. ConnectInv => TypeOK
    BY DEF ConnectInv
  <1> QED
    BY <1>1, CaptureStart, CaptureStep, ConnectCorrect, PTL DEF CaptureSpec

(* Type correctness of cmd_connect and of the two captures it opens.       *)
THEOREM CaptureTyped == CaptureSpec => []CaptureTypeOK
  <1>1. CaptureInv => CaptureTypeOK
    BY DEF CaptureInv
  <1> QED
    BY <1>1, CaptureCorrect, PTL

(* _request of media/portal.py, which listens and then calls, awaits no    *)
(* Response that has already come and gone, in whichever order the reply   *)
(* and the Response are sent.                                              *)
THEOREM NoResponseMissed == CaptureSpec => []ResponseHeard
  <1>1. CaptureInv => ResponseHeard
    <2> SUFFICES ASSUME CaptureInv, pc = "portal", awaits = "fut", fut = "pending"
                 PROVE  "response" \in owed \/ \E i \in DOMAIN dbus : dbus[i] \in Results
      BY DEF ResponseHeard
    <2>1. pstep \in Asking
      BY DEF CaptureInv, CaptureTypeOK, RequestInv, Asking
    <2> QED
      BY <2>1 DEF CaptureInv, RequestInv
  <1> QED
    BY <1>1, CaptureCorrect, PTL

(* When the portal casts a screen, the fallback of cmd_connect has left no *)
(* virtual output behind at the compositor, nor a request for one.         *)
THEOREM OnlyOneCapture == CaptureSpec => []OneCapture
  <1>1. CaptureInv => OneCapture
    BY DEF CaptureInv, OutputInv, RequestInv, OneCapture
  <1> QED
    BY <1>1, CaptureCorrect, PTL
=============================================================================
