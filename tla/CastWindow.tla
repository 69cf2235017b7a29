----------------------------- MODULE CastWindow -----------------------------
(***************************************************************************)
(* The tray window of ui/app.py and its two child processes, `vilya scan'  *)
(* and `vilya connect'.  The window learns of them by their output and     *)
(* their end, as events of Qt's loop; the user may act between any two.    *)
(*                                                                         *)
(* Of the casting child only its phases are kept: it sets the cast up,     *)
(* streams, cleans up (the finally clauses that Connect models) and exits. *)
(***************************************************************************)
EXTENDS Naturals

CONSTANT MaxSignals    \* bounds the SIGTERMs one child is sent

ASSUME MaxSignalsAssumption == MaxSignals \in Nat

VARIABLES
    app,       \* the program: running, about to quit, or over
    visible,   \* whether the window is shown
    items,     \* the list: empty, nothing to cast to, or something
    rescanOn,  \* rescan_btn is enabled
    connectOn, \* connect_btn is enabled
    streaming, \* _streaming
    posted,    \* a rescan waits in the event queue (QTimer.singleShot(0))
    scan,      \* _scan_proc: none, or where the child is
    cast,      \* _connect_proc: none, or where the child is
    reported,  \* `RTSP state: STREAMING' is in the pipe, unread
    signals    \* the SIGTERMs sent to the child

buttons == <<rescanOn, connectOn>>
casting == <<streaming, cast, reported, signals>>
vars == <<app, visible, items, buttons, posted, scan, casting>>

Found == {"empty", "uncastable", "castable"}

(* window.show() at start: a showEvent like any other. *)
Init ==
    /\ app = "running" /\ visible = TRUE
    /\ items = "empty" /\ rescanOn = TRUE /\ connectOn = FALSE
    /\ posted = TRUE /\ scan = "none"
    /\ streaming = FALSE /\ cast = "none" /\ reported = FALSE /\ signals = 0

-----------------------------------------------------------------------------
(* Scanning.                                                               *)

(* Mutant: the button follows the list and the cast, not the child. *)
UpdateByItem(str, proc, list) == connectOn' = (str \/ list = "castable")

UpdateButtons(str, proc, list) ==
    connectOn' = (str \/ proc # "none" \/ list = "castable")

(* Mutant: the old list stays until the new one is there. *)
RescanKeepingList ==
    IF scan # "none" \/ streaming
    THEN UNCHANGED <<items, buttons, scan>>
    ELSE /\ scan' = "running"
         /\ rescanOn' = FALSE
         /\ UNCHANGED <<items, connectOn>>

(* Clearing the list may or may not be seen as a change of the selection.  *)
Rescan ==
    IF scan # "none" \/ streaming
    THEN UNCHANGED <<items, buttons, scan>>
    ELSE /\ items' = "empty"
         /\ scan' = "running"
         /\ rescanOn' = FALSE
         /\ UNCHANGED connectOn \/ UpdateButtons(streaming, cast, "empty")

ScanEnds ==
    /\ scan = "running" /\ scan' = "exited"
    /\ UNCHANGED <<app, visible, items, buttons, posted, casting>>

(* _scan_done: the first castable device is selected.                      *)
ScanDone ==
    /\ scan = "exited" /\ scan' = "none"
    /\ rescanOn' = TRUE
    /\ items' \in Found
    /\ UpdateButtons(streaming, cast, items')
    /\ UNCHANGED <<app, visible, posted, casting>>

PostedRescan ==
    /\ posted /\ posted' = FALSE
    /\ Rescan
    /\ UNCHANGED <<app, visible, casting>>

ClickRescan ==
    /\ visible /\ rescanOn
    /\ Rescan
    /\ UNCHANGED <<app, visible, posted, casting>>

-----------------------------------------------------------------------------
(* Connecting.                                                             *)

Connect ==
    /\ items = "castable" /\ cast = "none"
    /\ cast' = "setup" /\ signals' = 0 /\ reported' = FALSE
    /\ rescanOn' = FALSE
    /\ UNCHANGED <<app, visible, items, connectOn, streaming, posted, scan>>

(* SIGTERM: the child goes into its cleanup, or breaks off the one it is   *)
(* in; before it has anything to clean up it just ends.                    *)
Interrupted(phase) ==
    CASE phase = "setup" -> {"cleaning", "exited"}
      [] phase = "streaming" -> {"cleaning"}
      [] OTHER -> {"exited"}

(* disconnect_cast, whatever has been sent before.                         *)
Disconnect ==
    IF cast = "none" \/ signals = MaxSignals THEN UNCHANGED casting
    ELSE /\ cast' \in Interrupted(cast)
         /\ signals' = signals + 1
         /\ UNCHANGED <<streaming, reported>>

(* The button connects, or disconnects.                                    *)
ClickConnect ==
    /\ visible /\ connectOn
    /\ \/ ~streaming /\ cast = "none" /\ Connect
       \/ /\ streaming \/ cast # "none"
          /\ Disconnect
          /\ UNCHANGED <<app, visible, items, buttons, posted, scan>>

DoubleClick == visible /\ Connect

(* What the casting child does by itself: it streams and says so, it comes *)
(* to an end, and it has cleaned up.                                       *)
ChildStep(from, to) ==
    /\ cast \in from /\ cast' = to
    /\ UNCHANGED <<app, visible, items, buttons, posted, scan, streaming, signals>>

ChildStreams == ChildStep({"setup"}, "streaming") /\ reported' = TRUE
ChildFails == ChildStep({"setup"}, "exited") /\ UNCHANGED reported
ChildEnds == ChildStep({"setup", "streaming"}, "cleaning") /\ UNCHANGED reported
ChildCleanedUp == ChildStep({"cleaning"}, "exited") /\ UNCHANGED reported

(* _connect_output: the window goes, it lives on in the tray.              *)
ConnectOutput ==
    /\ cast # "none" /\ reported
    /\ reported' = FALSE
    /\ streaming' = TRUE
    /\ visible' = FALSE
    /\ UNCHANGED <<app, items, buttons, posted, scan, cast, signals>>

(* Mutant: the end of a child that streamed leaves the window streaming. *)
FinishedSilently ==
    /\ cast = "exited" /\ ~reported
    /\ cast' = "none" /\ signals' = 0
    /\ rescanOn' = TRUE
    /\ UpdateButtons(streaming, "none", items)
    /\ UNCHANGED <<app, visible, items, posted, scan, reported, streaming>>

(* finished comes after all output has been read.                          *)
ConnectFinished ==
    /\ cast = "exited" /\ ~reported
    /\ cast' = "none" /\ signals' = 0
    /\ streaming' = FALSE
    /\ rescanOn' = TRUE
    /\ UpdateButtons(FALSE, "none", items)
    /\ UNCHANGED <<app, visible, items, posted, scan, reported>>

-----------------------------------------------------------------------------
(* The window and the tray.                                                *)

(* Closing hides: setQuitOnLastWindowClosed(False). *)
Close ==
    /\ visible /\ visible' = FALSE
    /\ UNCHANGED <<app, items, buttons, posted, scan, casting>>

(* From the tray, or by a second launch: a window that was hidden gets a   *)
(* showEvent, and looks for displays again.                                *)
Show ==
    /\ ~visible /\ visible' = TRUE
    /\ posted' = (posted \/ (~streaming /\ scan = "none"))
    /\ UNCHANGED <<app, items, buttons, scan, casting>>

TrayDisconnect ==
    /\ Disconnect
    /\ UNCHANGED <<app, visible, items, buttons, posted, scan>>

Quit ==
    /\ Disconnect
    /\ app' = "quitting"
    /\ UNCHANGED <<visible, items, buttons, posted, scan>>

(* 800 ms later, with whatever children are left: their QProcess kills     *)
(* them.                                                                   *)
QuitTimer ==
    /\ app = "quitting" /\ app' = "over"
    /\ scan' = "none" /\ cast' = "none"
    /\ UNCHANGED <<visible, items, buttons, posted, streaming, reported, signals>>

-----------------------------------------------------------------------------
Events == PostedRescan \/ ScanDone \/ ConnectOutput \/ ConnectFinished
Children == ScanEnds \/ ChildStreams \/ ChildFails \/ ChildEnds \/ ChildCleanedUp
User ==
    \/ ClickRescan \/ ClickConnect \/ DoubleClick
    \/ Close \/ Show \/ TrayDisconnect \/ Quit

Running == app # "over" /\ (Events \/ Children \/ User)
Finished == app = "over" /\ UNCHANGED vars

Next == Running \/ QuitTimer \/ Finished

(* Qt's loop handles every event and its timers fire; a scan ends, and so  *)
(* does a cleanup (Connect).  Nothing says what a user does, or that a cast  *)
(* ever begins or ends.                                                    *)
Spec ==
    /\ Init /\ [][Next]_vars
    /\ WF_vars(app # "over" /\ PostedRescan) /\ WF_vars(app # "over" /\ ScanDone)
    /\ WF_vars(app # "over" /\ ConnectOutput) /\ WF_vars(app # "over" /\ ConnectFinished)
    /\ WF_vars(app # "over" /\ ScanEnds) /\ WF_vars(app # "over" /\ ChildCleanedUp)
    /\ WF_vars(QuitTimer)

-----------------------------------------------------------------------------
(* Both children drive the one P2P device: a scan may begin beside a       *)
(* connect, whose window is hidden and shown again, but no connect begins  *)
(* while a scan is under way, because there is nothing to select.          *)
ConnectStartsAlone == [][cast = "none" /\ cast' # "none" => scan = "none"]_vars

(* However scans and connects overlap, the window is never left without a  *)
(* way on: rescan is disabled only while a child of it runs, and a connect *)
(* that is under way can be cancelled.                                     *)
AlwaysAWayOn ==
    app # "over" =>
        /\ rescanOn \/ scan # "none" \/ cast # "none"
        /\ cast # "none" \/ streaming => connectOn

(* A cast that is told to end ends, and the window is ready for another.   *)
DisconnectWorks ==
    signals > 0 ~> app = "over" \/ (cast = "none" /\ ~streaming)
=============================================================================
