-------------------------- MODULE CastWindow_proofs --------------------------
(***************************************************************************)
(* Theorems about CastWindow, for any number of signals.                   *)
(***************************************************************************)
EXTENDS CastWindow, TLAPS

(* What keeps the buttons right: a scan's list is empty until it is done,  *)
(* what can be cast to can be clicked, and only a child streams.           *)
WindowInv ==
    app # "over" =>
        /\ scan # "none" => items = "empty"
        /\ items = "castable" => connectOn
        /\ streaming => cast # "none"
        /\ AlwaysAWayOn

LEMMA InterruptedEnds ==
  ASSUME NEW phase
  PROVE  "none" \notin Interrupted(phase)
  <1>1. CASE phase = "setup"
    BY <1>1 DEF Interrupted
  <1>2. CASE phase = "streaming"
    BY <1>2 DEF Interrupted
  <1>3. CASE phase \notin {"setup", "streaming"}
    BY <1>3 DEF Interrupted
  <1> QED
    BY <1>1, <1>2, <1>3

(* A signal moves a child on; only the window takes note of its end.       *)
LEMMA DisconnectChild ==
  ASSUME Disconnect
  PROVE  (cast' = "none" <=> cast = "none") /\ streaming' = streaming
  BY InterruptedEnds DEF Disconnect, casting

LEMMA RescanKeeps ==
  ASSUME WindowInv, app # "over", Rescan, UNCHANGED <<app, casting>>
  PROVE  WindowInv'
  <1>1. CASE scan # "none" \/ streaming
    BY <1>1 DEF Rescan, WindowInv, AlwaysAWayOn, casting, buttons
  <1>2. CASE ~(scan # "none" \/ streaming)
    BY <1>2 DEF Rescan, UpdateButtons, WindowInv, AlwaysAWayOn, casting
  <1> QED
    BY <1>1, <1>2

LEMMA EventsKeep ==
  ASSUME WindowInv, app # "over", Events
  PROVE  WindowInv'
  <1>1. CASE PostedRescan
    BY <1>1, RescanKeeps DEF PostedRescan
  <1>2. CASE ScanDone
    BY <1>2 DEF ScanDone, UpdateButtons, WindowInv, AlwaysAWayOn, casting
  <1>3. CASE ConnectOutput
    BY <1>3 DEF ConnectOutput, WindowInv, AlwaysAWayOn, buttons
  <1>4. CASE ConnectFinished
    BY <1>4 DEF ConnectFinished, UpdateButtons, WindowInv, AlwaysAWayOn
  <1> QED
    BY <1>1, <1>2, <1>3, <1>4 DEF Events

LEMMA ChildrenKeep ==
  ASSUME WindowInv, app # "over", Children
  PROVE  WindowInv'
  <1>1. CASE ScanEnds
    BY <1>1 DEF ScanEnds, WindowInv, AlwaysAWayOn, buttons, casting
  <1>2. ASSUME NEW from \in SUBSET {"setup", "streaming", "cleaning"},
               NEW to \in {"streaming", "cleaning", "exited"}, ChildStep(from, to)
        PROVE  WindowInv'
    BY <1>2 DEF ChildStep, WindowInv, AlwaysAWayOn, buttons
  <1> QED
    BY <1>1, <1>2
    DEF Children, ChildStreams, ChildFails, ChildEnds, ChildCleanedUp

LEMMA UserKeeps ==
  ASSUME WindowInv, app # "over", User
  PROVE  WindowInv'
  <1>1. CASE ClickRescan
    BY <1>1, RescanKeeps DEF ClickRescan
  <1>2. CASE Connect
    BY <1>2 DEF Connect, WindowInv, AlwaysAWayOn
  <1>3. CASE Disconnect /\ app' # "over" /\ UNCHANGED <<items, buttons, scan>>
    BY <1>3, DisconnectChild DEF WindowInv, AlwaysAWayOn, buttons
  <1>4. CASE Close \/ Show
    BY <1>4 DEF Close, Show, WindowInv, AlwaysAWayOn, buttons, casting
  <1> QED
    BY <1>1, <1>2, <1>3, <1>4
    DEF User, ClickConnect, DoubleClick, TrayDisconnect, Quit

LEMMA WindowStep ==
  ASSUME WindowInv, [Next]_vars
  PROVE  WindowInv'
  <1>1. CASE Running
    BY <1>1, EventsKeep, ChildrenKeep, UserKeeps DEF Running
  <1>2. CASE QuitTimer
    BY <1>2 DEF QuitTimer, WindowInv
  <1>3. CASE UNCHANGED vars
    BY <1>3 DEF WindowInv, AlwaysAWayOn, vars, buttons, casting
  <1> QED
    BY <1>1, <1>2, <1>3 DEF Next, Finished

(* The inductive invariant of ui/app.py's window: which child runs, and    *)
(* which buttons that leaves enabled.                                      *)
THEOREM WindowCorrect == Spec => []WindowInv
  <1>1. Init => WindowInv
    BY DEF Init, WindowInv, AlwaysAWayOn
  <1> QED
    BY <1>1, WindowStep, PTL DEF Spec

(* Whatever scans, connects, clicks and ends of children interleave, the   *)
(* buttons of ui/app.py leave a way on.                                    *)
THEOREM WayOn == Spec => []AlwaysAWayOn
  <1>1. WindowInv => AlwaysAWayOn
    BY DEF WindowInv, AlwaysAWayOn
  <1> QED
    BY <1>1, WindowCorrect, PTL

(* No connect begins beside a scan: the list of a scan under way is empty. *)
THEOREM StartsAlone == Spec => ConnectStartsAlone
  <1>1. ASSUME WindowInv, Next, cast = "none", cast' # "none"
        PROVE  scan = "none"
    <2>1. CASE Connect
      BY <1>1, <2>1 DEF Next, Running, QuitTimer, Finished, vars, casting,
                        WindowInv, Connect
    <2>2. CASE ~Connect
      <3>1. ~Disconnect
        BY <1>1, DisconnectChild
      <3> QED
        BY <1>1, <2>2, <3>1
        DEF Next, Running, Events, Children, User, PostedRescan, ScanDone,
            ConnectOutput, ConnectFinished, ScanEnds, ChildStreams, ChildFails,
            ChildEnds, ChildCleanedUp, ChildStep, ClickRescan, ClickConnect,
            DoubleClick, Close, Show, TrayDisconnect, Quit, QuitTimer, Finished,
            casting, vars
    <2> QED
      BY <2>1, <2>2
  <1>2. WindowInv /\ [Next]_vars =>
          [cast = "none" /\ cast' # "none" => scan = "none"]_vars
    BY <1>1
  <1> QED
    BY <1>2, WindowCorrect, PTL DEF Spec, ConnectStartsAlone
=============================================================================
