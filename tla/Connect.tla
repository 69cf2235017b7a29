------------------------------ MODULE Connect ------------------------------
(***************************************************************************)
(* What cmd_connect (__main__.py) acquires and what its finally clause     *)
(* releases, whatever fails and wherever Ctrl-C or SIGTERM comes.  The     *)
(* other modules say how each part behaves; here a part is a resource that *)
(* exists or not, and that the caller has a variable for or not.           *)
(***************************************************************************)
EXTENDS Naturals, Sequences, SequencesExt

CONSTANT MaxInterrupts    \* bounds the Ctrl-C's and SIGTERMs

ASSUME MaxInterruptsAssumption == MaxInterrupts \in Nat

VARIABLES
    pc,         \* the statement cmd_connect is at, or suspended in
    held,       \* the resources the finally clause has a variable for
    live,       \* the resources that exist
    pending,    \* a cancellation that the next await raises
    interrupts, \* the Ctrl-C's and SIGTERMs so far
    cut,        \* the cleanup step an interrupt broke off, if any
    failed      \* the resources whose release failed, which nobody is told

vars == <<pc, held, live, pending, interrupts, cut, failed>>

Audio == {"castSink", "defaultSink"}
Resources == Audio \cup
    {"bus", "group", "dhcp", "kwin", "portal", "channel", "pipeline",
     "listener", "pointer"}

(* A PulseAudio module and its default sink, a child process and (with     *)
(* wpa_supplicant) a P2P group outlive the program; sockets, their servers *)
(* and an activation bound to NetworkManager's client do not.              *)
Persistent == Audio \cup {"group", "pipeline"}

(* Mutant: the capture is closed before the pipeline that reads it. *)
CaptureFirst ==
    <<"audioDown", "uibcStop", "pointerClose", "kwinClose", "pipelineStop",
      "sessionDown", "dhcpStop", "groupDown", "busClose">>

CleanupOrder ==
    <<"audioDown", "uibcStop", "pointerClose", "pipelineStop", "kwinClose",
      "sessionDown", "dhcpStop", "groupDown", "busClose">>
CleanupSteps == Range(CleanupOrder)

Releases(step) ==
    CASE step = "audioDown" -> Audio
      [] step = "uibcStop" -> {"listener"}
      [] step = "pointerClose" -> {"pointer"}
      [] step = "pipelineStop" -> {"pipeline"}
      [] step = "kwinClose" -> {"kwin"}
      [] step = "sessionDown" -> {"channel"}
      [] step = "dhcpStop" -> {"dhcp"}
      [] step = "groupDown" -> {"group"}
      [] step = "busClose" -> {"bus"}
      [] step = "portalClose" -> {"portal"}
      [] OTHER -> {}

(* What the statement may have brought about when it is broken off: the    *)
(* null sink before the default, the pointer before the listener.          *)
Openings(p) ==
    CASE p = "audio" -> {{}, {"castSink"}, Audio}
      [] p = "open" -> {{}, {"bus"}}
      [] p = "group" -> {{}, {"group"}}
      [] p = "lease" -> {{}, {"dhcp"}}
      [] p = "kwin" -> {{}, {"kwin"}}
      [] p = "portal" -> {{}, {"portal"}}
      [] p = "serve" -> {{}, {"channel"}}
      [] p = "start" -> {{}, {"pipeline"}}
      [] p = "uibc" -> {{}, {"pointer"}, {"pointer", "listener"}}
      [] OTHER -> {{}}

(* These objects are assigned to their variable before they are opened.    *)
HeldEarly(p) ==
    CASE p = "lease" -> {"dhcp"}
      [] p = "kwin" -> {"kwin"}
      [] p = "portal" -> {"portal"}
      [] p = "serve" -> {"channel"}
      [] p = "start" -> {"pipeline"}
      [] OTHER -> {}

Init ==
    /\ pc = "audio" /\ held = {} /\ live = {}
    /\ pending = FALSE /\ interrupts = 0 /\ cut = "none" /\ failed = {}

-----------------------------------------------------------------------------
(* Exceptions and interrupts.                                              *)

(* Where the task is suspended; a cleanup step without its resource does   *)
(* not wait, and teardown returns early when the session has ended.        *)
Suspends ==
    \/ pc \in {"open", "peer", "group", "lease", "kwin", "portal", "serve",
               "poll", "uibc"}
    \/ pc \in {"portalClose", "kwinClose", "sessionDown", "groupDown"}
       /\ Releases(pc) \subseteq held

(* Mutant: an exception in the poll loop passes the outer finally by. *)
UnwoundOnce ==
    CASE pc \in {"audio", "elements", "open", "start", "poll", "uibc"} \cup CleanupSteps
            -> "returned"
      [] OTHER -> "audioDown"

Unwound ==
    CASE pc \in {"audio", "elements", "open"} \cup CleanupSteps -> "returned"
      [] pc \in {"start", "poll", "uibc"} -> "portalClose"
      [] OTHER -> "audioDown"

(* Mutant: the exception leaves the outer finally too. *)
CutAnywhere ==
    /\ pc \notin {"returned", "exited"}
    /\ \E gone \in SUBSET (held \cap Releases(pc)), come \in Openings(pc) :
          /\ live' = (live \ gone) \cup come
          /\ \E known \in {{}, come \cap {"group"}} :
                held' = held \cup HeldEarly(pc) \cup known
    /\ pc' = Unwound
    /\ cut' = pc
    /\ UNCHANGED failed

(* An exception leaves the statement the task is at.  What the statement   *)
(* does may have been done or not, and the backend may know of the group   *)
(* (NetworkManager's does as soon as it has asked); no `except       *)
(* Exception' of the finally clause stops a cancellation or a              *)
(* KeyboardInterrupt.                                                      *)
Abort ==
    /\ pc \notin {"returned", "exited"}
    /\ \E gone \in SUBSET (held \cap Releases(pc)), come \in Openings(pc) :
          /\ live' = (live \ gone) \cup come
          /\ \E known \in {{}, come \cap {"group"}} :
                held' = held \cup HeldEarly(pc) \cup known
    /\ pc' = Unwound
    /\ cut' = IF pc \in CleanupSteps THEN pc ELSE cut
    /\ UNCHANGED failed

(* The first Ctrl-C cancels the main task: its next await raises.          *)
CtrlC ==
    /\ pc \notin {"returned", "exited"}
    /\ interrupts = 0 /\ MaxInterrupts > 0
    /\ interrupts' = 1
    /\ pending' = TRUE
    /\ UNCHANGED <<pc, held, live, cut, failed>>

Cancelled ==
    /\ pending /\ Suspends
    /\ Abort
    /\ pending' = FALSE
    /\ UNCHANGED interrupts

(* SIGTERM, and any later Ctrl-C, raise KeyboardInterrupt at once: in the  *)
(* statement that runs, or out of the event loop, which asyncio.run then   *)
(* restarts to cancel the task.                                            *)
Terminate ==
    /\ interrupts < MaxInterrupts
    /\ interrupts' = interrupts + 1
    /\ Abort
    /\ pending' = (pending /\ ~Suspends)

-----------------------------------------------------------------------------
(* Acquiring.                                                              *)

(* The statement completes: it opened `new' and goes on at `next'.         *)
Done(p, new, next) ==
    /\ pc = p /\ ~(pending /\ Suspends)
    /\ live' = live \cup new
    /\ held' = held \cup new
    /\ pc' = next
    /\ UNCHANGED <<pending, interrupts, cut, failed>>

(* audio.setup is all or, when it fails half way, None and a null sink.    *)
SetUpAudio ==
    \/ \E new \in {{}, Audio} : Done("audio", new, "elements")
    \/ /\ pc = "audio"
       /\ live' = {"castSink"} /\ pc' = "elements"
       /\ UNCHANGED <<held, pending, interrupts, cut, failed>>

(* return 2 when a GStreamer element is missing: nothing is cleaned up.    *)
CheckElements == \E next \in {"open", "returned"} : Done("elements", {}, next)

Open == Done("open", {"bus"}, "peer")

FindPeer == Done("peer", {}, "group")

(* We have to hand the sink an address, or have one for it already, or     *)
(* give up (return 1): client without an address, or no attempt succeeded, *)
(* with or without an activation that the backend remembers.               *)
FormGroup ==
    \/ \E next \in {"lease", "capture", "audioDown"} : Done("group", {"group"}, next)
    \/ Done("group", {}, "audioDown")

Lease == Done("lease", {"dhcp"}, "capture")

(* Test source, extended display, or mirrored display.                     *)
ChooseCapture == \E next \in {"serve", "kwin", "portal"} : Done("capture", {}, next)

OpenKWin == Done("kwin", {"kwin"}, "serve")

(* RuntimeError: the object is dropped with its connection, then portal.   *)
FallBackToPortal ==
    /\ pc = "kwin" /\ ~pending
    /\ live' \in {live, live \cup {"kwin"}}
    /\ pc' = "portal"
    /\ UNCHANGED <<held, pending, interrupts, cut, failed>>

OpenPortal == Done("portal", {"portal"}, "serve")

Serve == Done("serve", {"channel"}, "poll")

(* Any other failure of an acquisition.                                    *)
Fails ==
    /\ pc \in {"open", "peer", "group", "lease", "kwin", "portal", "serve", "start"}
    /\ Abort
    /\ UNCHANGED <<pending, interrupts>>

-----------------------------------------------------------------------------
(* The poll loop.                                                          *)

SeePlay == "pipeline" \notin held /\ Done("poll", {}, "start")

StartPipeline ==
    \E next \in {"uibc", "poll"} : Done("start", {"pipeline"}, next)

StartUibc == Done("uibc", {"pointer", "listener"}, "poll")

(* Mutant: the UIBC block swallows cancellations too. *)
UibcFailsQuietly ==
    /\ pc = "uibc"
    /\ \E new \in Openings("uibc") : live' = live \cup new
    /\ pc' = "poll"
    /\ pending' = FALSE
    /\ UNCHANGED <<held, interrupts, cut, failed>>

(* `except Exception': what _start_uibc had opened has no variable.        *)
UibcFails ==
    /\ pc = "uibc" /\ ~pending
    /\ \E new \in Openings("uibc") : live' = live \cup new
    /\ pc' = "poll"
    /\ UNCHANGED <<held, pending, interrupts, cut, failed>>

PipelineDies ==
    /\ "pipeline" \in live /\ pc # "exited"
    /\ live' = live \ {"pipeline"}
    /\ UNCHANGED <<pc, held, pending, interrupts, cut, failed>>

(* The session is in TEARDOWN, or the pipeline is seen dead.               *)
LeavePoll == Done("poll", {}, "portalClose")

-----------------------------------------------------------------------------
(* The finally clauses.                                                    *)

(* pactl may fail, for either of its two calls, and so may the call that   *)
(* takes the group down; the error is logged and the cleanup goes on.  The *)
(* others end what they are for whatever fails: the writers of KWin's      *)
(* connection and of the session, the portal's bus and the pointer's       *)
(* descriptor are closed behind the `except Exception', and the pipeline   *)
(* is killed if it does not end.                                           *)
MayRemain(p) ==
    CASE p = "audioDown" -> Audio
      [] p = "groupDown" -> {"group"}
      [] OTHER -> {}

Release(p, next) ==
    /\ pc = p /\ ~(pending /\ Suspends)
    /\ \E remain \in SUBSET (held \cap live \cap MayRemain(p)) :
          /\ live' = (live \ (held \cap Releases(p))) \cup remain
          /\ failed' = failed \cup remain
    /\ pc' = next
    /\ UNCHANGED <<held, pending, interrupts, cut>>

ClosePortal == Release("portalClose", "audioDown")

CleanUp ==
    \E i \in DOMAIN CleanupOrder :
        Release(CleanupOrder[i],
                IF i = Len(CleanupOrder) THEN "returned" ELSE CleanupOrder[i + 1])

(* teardown of a session that has ended returns at once: the socket stays. *)
SessionAlreadyDown ==
    /\ pc = "sessionDown"
    /\ pc' = "dhcpStop"
    /\ UNCHANGED <<held, live, pending, interrupts, cut, failed>>

Exit ==
    /\ pc = "returned"
    /\ live' \in {live \cap Persistent, (live \cap Persistent) \ {"group"}}
    /\ pc' = "exited"
    /\ UNCHANGED <<held, pending, interrupts, cut, failed>>

Exited == pc = "exited" /\ UNCHANGED vars

-----------------------------------------------------------------------------
Acquire ==
    \/ SetUpAudio \/ CheckElements \/ Open \/ FindPeer \/ FormGroup \/ Lease
    \/ ChooseCapture \/ OpenKWin \/ FallBackToPortal \/ OpenPortal \/ Serve \/ Fails
Cast == SeePlay \/ StartPipeline \/ StartUibc \/ UibcFails \/ PipelineDies \/ LeavePoll
Finally == ClosePortal \/ CleanUp \/ SessionAlreadyDown \/ Exit
Interrupt == CtrlC \/ Cancelled \/ Terminate

Next == Acquire \/ Cast \/ Finally \/ Interrupt \/ Exited

(* Statements that do not wait run; a cancellation is raised; the awaits   *)
(* of the cleanup end (the teardown's request has a timeout).  Nothing     *)
(* says that a peer, a user or a sink ever answers.                        *)
Synchronous == pc \in {"audio", "elements", "capture", "start"}
Spec ==
    /\ Init /\ [][Next]_vars
    /\ WF_vars(Synchronous /\ (Acquire \/ Cast))
    /\ WF_vars(Cancelled)
    /\ WF_vars(Finally)

-----------------------------------------------------------------------------
(* Every variable has its type. *)
TypeOK ==
    /\ pc \in {"audio", "elements", "open", "peer", "group", "lease", "capture",
               "kwin", "portal", "serve", "poll", "start", "uibc", "portalClose",
               "returned", "exited"} \cup CleanupSteps
    /\ held \subseteq Resources /\ live \subseteq Resources
    /\ pending \in BOOLEAN
    /\ interrupts \in 0..MaxInterrupts
    /\ cut \in {"none"} \cup CleanupSteps
    /\ failed \subseteq Audio \cup {"group"}

Entered == "bus" \in held

(* Once the try is entered, whatever fails and however many interrupts     *)
(* come, all that the program leaves behind of what it held is what could  *)
(* not be released, and what the cleanup step an interrupt broke off, and  *)
(* those after it, would have released: the error of one step, which is    *)
(* swallowed, costs no other its turn.                                     *)
LeftByCut ==
    pc = "exited" /\ Entered =>
        \A i \in DOMAIN CleanupOrder :
            (held \cap live \cap Releases(CleanupOrder[i])) \ failed # {} =>
                \E j \in 1..i : cut = CleanupOrder[j]

(* On every path a consumer goes before what it consumes: no pipeline      *)
(* reads a virtual output that is gone, no touch arrives without pointer.  *)
ConsumersFirst ==
    pc # "exited" =>
        /\ {"pipeline", "kwin"} \subseteq held /\ "pipeline" \in live => "kwin" \in live
        /\ "listener" \in live => "pointer" \in live

(* An interrupt ends the program, wherever it comes.                       *)
InterruptEnds == interrupts > 0 ~> pc = "exited"

(* SIGTERM tears the session down "so the finally-blocks (pipeline stop,   *)
(* RTSP TEARDOWN, NM deactivate) run" (__main__.py:603-604).               *)
FinallyBlocksRun ==
    pc = "exited" /\ interrupts <= 1 /\ failed = {} /\ Entered =>
        held \cap live \cap {"pipeline", "group"} = {}
=============================================================================
