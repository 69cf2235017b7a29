------------------------------- MODULE Capture -------------------------------
(***************************************************************************)
(* The two ways to capture a screen, inside cmd_connect: a virtual output  *)
(* of KWin (media/kwin_screencast.py), and the ScreenCast portal           *)
(* (media/portal.py) for a mirrored display or when KWin refuses.  What    *)
(* Connect has as the single statements "kwin" and "portal" is taken apart *)
(* here, against the compositor and the portal at the other end.           *)
(***************************************************************************)
EXTENDS Connect

VARIABLES
    kstep,     \* where KWinVirtualOutput.open is
    wayland,   \* events of the compositor, not yet read
    output,    \* the virtual output, as the compositor has it
    pstep,     \* the request ScreenCastSession.open is at
    awaits,    \* what _request awaits: the call's reply, then its future
    listening, \* the message handler is there
    fut,       \* the future it sets
    owed,      \* what the portal has still to send for the request
    dbus,      \* what it has sent
    session    \* the portal's session

kwinVars == <<kstep, wayland, output>>
requestVars == <<pstep, awaits, listening, fut, owed, dbus>>
portalVars == <<requestVars, session>>
captureVars == <<kwinVars, portalVars>>
allVars == <<vars, captureVars>>

Offers == {"none", "old", "ok"}       \* zkde_screencast among the globals
Ends == {"failed", "closed", "error", "eof"}
Results == {"ok", "cancelled"}

CaptureInit ==
    /\ Init
    /\ kstep = "connect" /\ wayland = <<>> /\ output = "none"
    /\ pstep = "bus" /\ awaits = "none" /\ listening = FALSE /\ fut = "pending"
    /\ owed = {} /\ dbus = <<>> /\ session = "none"

(* The connections, while they are being opened and afterwards. *)
OnWayland == IF pc = "kwin" THEN kstep # "connect" ELSE "kwin" \in live
OnBus == IF pc = "portal" THEN pstep # "bus" ELSE "portal" \in live

(* Who has left the statement reads nothing more; a request that was left  *)
(* is not cancelled, and the portal may still grant it.                    *)
LeaveKWin == kstep' = "left" /\ wayland' = <<>> /\ UNCHANGED output
LeavePortal ==
    /\ awaits' = "none" /\ listening' = FALSE /\ fut' = "pending" /\ dbus' = <<>>
    /\ UNCHANGED <<pstep, owed, session>>

-----------------------------------------------------------------------------
(* KWinVirtualOutput.open: the registry up to the sync barrier, then the   *)
(* stream, which is asked for in one write and answered by an event.       *)

Reads(event) == wayland # <<>> /\ Head(wayland) = event

BrokenOff == \E i \in DOMAIN wayland : wayland[i] \in {"error", "eof"}

ConnectWayland ==
    /\ pc = "kwin" /\ ~pending /\ kstep = "connect"
    /\ kstep' = "registry"
    /\ UNCHANGED <<vars, wayland, output, portalVars>>

AskForStream ==
    /\ pc = "kwin" /\ ~pending /\ kstep = "registry" /\ Reads("ok")
    /\ kstep' = "stream"
    /\ wayland' = Tail(wayland)
    /\ output' = IF BrokenOff THEN "none" ELSE "asked"
    /\ UNCHANGED <<vars, portalVars>>

StreamCreated ==
    /\ kstep = "stream" /\ Reads("created")
    /\ OpenKWin
    /\ LeaveKWin
    /\ UNCHANGED portalVars

(* RuntimeError: no runtime directory, no such global or an old one, a     *)
(* stream that failed or was closed, an error, the end of the connection.  *)
Refused ==
    \/ kstep = "connect"
    \/ kstep = "registry" /\ \E e \in {"none", "old", "error", "eof"} : Reads(e)
    \/ kstep = "stream" /\ \E e \in Ends : Reads(e)

(* Mutant: KWin's silence is a refusal too. *)
FallsBackUnanswered ==
    /\ FallBackToPortal
    /\ "kwin" \in live' => OnWayland
    /\ LeaveKWin
    /\ UNCHANGED portalVars

(* The connection is dropped, not closed: it may or may not go. *)
FallsBack ==
    /\ Refused
    /\ FallBackToPortal
    /\ "kwin" \in live' => OnWayland
    /\ LeaveKWin
    /\ UNCHANGED portalVars

-----------------------------------------------------------------------------
(* ScreenCastSession.open: three requests, and a call for the descriptor.  *)

(* Mutant: the handler is added when the call has returned. *)
CallFirst(step) ==
    /\ pstep' = step
    /\ awaits' = "reply" /\ listening' = FALSE /\ fut' = "pending"
    /\ owed' = {"reply", "response"}

(* _request listens before it calls. *)
Request(step) ==
    /\ pstep' = step
    /\ awaits' = "reply" /\ listening' = TRUE /\ fut' = "pending"
    /\ owed' = {"reply", "response"}

ConnectBus ==
    /\ pc = "portal" /\ ~pending /\ pstep = "bus"
    /\ Request("create")
    /\ UNCHANGED <<vars, kwinVars, dbus, session>>

Following(step) == CASE step = "create" -> "select" [] step = "select" -> "start"

RequestDone ==
    /\ pc = "portal" /\ ~pending /\ awaits = "fut" /\ fut = "ok"
    /\ \/ pstep \in {"create", "select"} /\ Request(Following(pstep))
       \/ /\ pstep = "start"
          /\ pstep' = "remote" /\ awaits' = "reply" /\ owed' = {"reply"}
          /\ listening' = FALSE /\ fut' = "pending"
    /\ UNCHANGED <<vars, kwinVars, dbus, session>>

Arrives(message) ==
    /\ pc = "portal" /\ dbus # <<>> /\ Head(dbus) = message
    /\ dbus' = Tail(dbus)

OnReply ==
    /\ Arrives("reply") /\ pstep # "remote"
    /\ awaits' = "fut" /\ listening' = TRUE
    /\ UNCHANGED <<vars, kwinVars, session, pstep, fut, owed>>

OnResponse ==
    \E result \in Results :
        /\ Arrives(result)
        /\ fut' = IF listening /\ fut = "pending" THEN result ELSE fut
        /\ UNCHANGED <<vars, kwinVars, session, pstep, awaits, listening, owed>>

RemoteOpened ==
    /\ pstep = "remote" /\ dbus # <<>>
    /\ OpenPortal
    /\ LeavePortal
    /\ UNCHANGED kwinVars

-----------------------------------------------------------------------------
(* The compositor.                                                         *)

Compositor(events, state) ==
    /\ OnWayland
    /\ wayland' = IF pc = "kwin" THEN wayland \o events ELSE wayland
    /\ output' = state
    /\ UNCHANGED <<vars, kstep, portalVars>>

ListGlobals ==
    /\ pc = "kwin" /\ kstep = "registry" /\ wayland = <<>>
    /\ \E offer \in Offers : Compositor(<<offer>>, "none")
CreateOutput == output = "asked" /\ Compositor(<<"created">>, "there")
RefuseOutput == output = "asked" /\ Compositor(<<"failed">>, "none")
CloseOutput == output = "there" /\ Compositor(<<"closed">>, "none")
BreakOff ==
    /\ pc = "kwin" /\ ~BrokenOff
    /\ \E e \in {"error", "eof"} : Compositor(<<e>>, "none")

(* What a client had asked for goes with its connection. *)
ClientGone ==
    /\ output # "none" /\ ~OnWayland
    /\ output' = "none"
    /\ UNCHANGED <<vars, kstep, wayland, portalVars>>

-----------------------------------------------------------------------------
(* The portal: the reply to a call and its Response, in either order.      *)

Sends(what, message) ==
    /\ what \in owed /\ OnBus
    /\ owed' = owed \ {what}
    /\ dbus' = IF pc = "portal" THEN Append(dbus, message) ELSE dbus
    /\ UNCHANGED <<vars, kwinVars, pstep, awaits, listening, fut>>

Reply == Sends("reply", "reply") /\ UNCHANGED session

(* The user chooses a screen, or cancels the dialog. *)
Respond ==
    \/ /\ Sends("response", "ok")
       /\ session' = CASE pstep = "create" -> "open"
                       [] pstep = "start" -> "casting"
                       [] OTHER -> session
    \/ Sends("response", "cancelled") /\ UNCHANGED session

SessionEnds ==
    /\ ~OnBus /\ session # "none"
    /\ session' = "none"
    /\ UNCHANGED <<vars, kwinVars, requestVars>>

-----------------------------------------------------------------------------
(* The rest of cmd_connect; its two statements may fail, or be broken off, *)
(* where they are: a reset, an error of D-Bus, a request cancelled or      *)
(* without a Response for 120 s, no streams; but not with what they need.  *)
Fruitless == ~(pc = "portal" /\ fut = "ok" /\ pstep # "start")

ConnectStep ==
    \/ /\ pc \notin {"kwin", "portal"}
       /\ Acquire \/ Cast \/ Finally \/ Interrupt
       /\ UNCHANGED captureVars
    \/ /\ pc \in {"kwin", "portal"}
       /\ (Fails /\ Fruitless) \/ Cancelled \/ Terminate
       /\ pc = "kwin" => LeaveKWin /\ UNCHANGED portalVars /\ (OnWayland <=> "kwin" \in live')
       /\ pc = "portal" => LeavePortal /\ UNCHANGED kwinVars /\ (OnBus <=> "portal" \in live')
    \/ /\ pc \in {"kwin", "portal"}
       /\ CtrlC
       /\ UNCHANGED captureVars

KWin == ConnectWayland \/ AskForStream \/ StreamCreated \/ FallsBack
Portal == ConnectBus \/ RequestDone \/ OnReply \/ OnResponse \/ RemoteOpened
Others ==
    \/ ListGlobals \/ CreateOutput \/ RefuseOutput \/ CloseOutput \/ BreakOff
    \/ ClientGone \/ Reply \/ Respond \/ SessionEnds

CaptureNext == ConnectStep \/ KWin \/ Portal \/ Others \/ (Exited /\ UNCHANGED captureVars)

(* As in Connect.  Neither the compositor nor the portal need ever answer. *)
CaptureSpec ==
    /\ CaptureInit /\ [][CaptureNext]_allVars
    /\ WF_allVars(Synchronous /\ (Acquire \/ Cast) /\ UNCHANGED captureVars)
    /\ WF_allVars(ConnectStep /\ Cancelled)
    /\ WF_allVars(ConnectStep /\ Finally)

-----------------------------------------------------------------------------
(* Every variable has its type. *)
CaptureTypeOK ==
    /\ TypeOK
    /\ kstep \in {"connect", "registry", "stream", "left"}
    /\ wayland \in Seq(Offers \cup Ends \cup {"created"})
    /\ output \in {"none", "asked", "there"}
    /\ pstep \in {"bus", "create", "select", "start", "remote"}
    /\ awaits \in {"none", "reply", "fut"} /\ listening \in BOOLEAN
    /\ fut \in {"pending"} \cup Results
    /\ owed \subseteq {"reply", "response"} /\ dbus \in Seq({"reply"} \cup Results)
    /\ session \in {"none", "open", "casting"}

(* "The path is predictable, so we listen before calling to avoid the      *)
(* race" (portal.py:170): whichever comes first, no Response is missed.    *)
ResponseHeard ==
    pc = "portal" /\ awaits = "fut" /\ fut = "pending" =>
        \/ "response" \in owed
        \/ \E i \in DOMAIN dbus : dbus[i] \in Results

(* Falling back leaves no virtual output behind: never do KWin and the     *)
(* portal both make a screen for us.                                       *)
OneCapture == session = "casting" => output \notin {"asked", "there"}
=============================================================================
