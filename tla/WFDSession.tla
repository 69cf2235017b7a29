---------------------------- MODULE WFDSession ----------------------------
(***************************************************************************)
(* The source side of one Wi-Fi Display RTSP session (rtsp/session.py) and *)
(* the task that drives it (the serve / poll / teardown part of            *)
(* cmd_connect in __main__.py), with the sink and the TCP connection       *)
(* between them as environment.                                            *)
(*                                                                         *)
(* Everything runs on one asyncio loop: a task runs until it awaits        *)
(* something that is not ready.  Three tasks interleave: the main task     *)
(* (handshake, poll loop, teardown), the receive loop, and one keepalive   *)
(* loop per PLAY.  The receive loop handles every message of a chunk       *)
(* without yielding (inbox); a task woken by an answer runs before the     *)
(* loop reads more bytes, but after the rest of the chunk.                 *)
(***************************************************************************)
EXTENDS Naturals, Sequences, FiniteSets

CONSTANTS
    MaxRequests,  \* bound: how many requests of each kind the sink sends
    MaxCSeq,      \* bound: no keepalive is sent beyond this CSeq
    AnswersAfterTeardown  \* TRUE: the sink still answers after its TEARDOWN

SinkMethods == {"OPTIONS", "SETUP", "PLAY", "TEARDOWN", "OTHER"}

ASSUME MaxRequestsAssumption == MaxRequests \in [SinkMethods -> Nat]
ASSUME MaxCSeqAssumption == MaxCSeq \in Nat
ASSUME AnswersAfterTeardownAssumption == AnswersAfterTeardown \in BOOLEAN

Main == 0
Keepalives == 1..MaxRequests["PLAY"]
Tasks == {Main} \cup Keepalives

SessionState ==
    {"IDLE", "M1_SENT", "M2_DONE", "M3_SENT", "NEGOTIATING", "M4_SENT",
     "M5_SENT", "SETUP_WAIT", "PLAY_WAIT", "STREAMING", "TEARDOWN"}

(* What the source asks of the sink; "TRIGGER" is the TEARDOWN trigger.    *)
Kinds == {"M1", "M3", "M4", "M5", "M14", "KEEPALIVE", "TRIGGER"}

VARIABLES
    state,           \* WFDSession._state
    cseq,            \* WFDSession._cseq
    uibcNegotiated,  \* WFDSession.uibc_negotiated
    pending,         \* WFDSession._pending: CSeq -> the task whose future it is
    call,            \* what each task awaits in _request, and its answer
    ka,              \* the keepalive tasks created so far
    kaCur,           \* WFDSession._keepalive_task (0: None)
    recv,            \* WFDSession._recv_task
    pc,              \* where the main task is
    casting,         \* cmd_connect's pipeline is not None
    conn,            \* the TCP connection
    wire,            \* bytes of the sink not yet read
    inbox,           \* messages of the chunk being dispatched
    asked,           \* requests the sink has not answered yet
    triggered,       \* the sink has answered the SETUP trigger
    sent, replied    \* requests of the sink, and those it got an answer to

sessionVars == <<state, cseq, uibcNegotiated, pending, call>>
taskVars == <<ka, kaCur, recv, pc, casting>>
channelVars == <<conn, wire, inbox>>
sinkVars == <<asked, triggered, sent, replied>>
vars == <<sessionVars, taskVars, channelVars, sinkVars>>

NoCall == [cseq |-> 0, kind |-> "none", answer |-> "none"]
Calls == [cseq : Nat, kind : Kinds \cup {"none"}, answer : Kinds \cup {"none"}]
Responses == [type : {"resp"}, cseq : Nat, kind : Kinds]
Requests == [type : {"req"}, method : SinkMethods]
Messages == Responses \cup Requests

Init ==
    /\ state = "IDLE" /\ cseq = 0 /\ uibcNegotiated = FALSE
    /\ pending = {} /\ call = [t \in Tasks |-> NoCall]
    /\ ka = [t \in Keepalives |-> "unborn"] /\ kaCur = 0
    /\ recv = "none" /\ pc = "listen" /\ casting = FALSE
    /\ conn = "none" /\ wire = <<>> /\ inbox = <<>>
    /\ asked = <<>> /\ triggered = FALSE
    /\ sent = [m \in SinkMethods |-> 0] /\ replied = [m \in SinkMethods |-> 0]

-----------------------------------------------------------------------------
(* The loop.                                                               *)

(* Between these steps of the main task there is no await.                 *)
Busy == pc \in {"accepted", "m1done", "m3done", "m4done"}
LoopIdle == inbox = <<>> /\ ~Busy
Answered(t) == call[t].answer # "none"
Waiting(t) == call[t] # NoCall
Woken == \E t \in Tasks : Answered(t)

-----------------------------------------------------------------------------
(* _request: a CSeq, a future under it, the bytes, and the await.          *)

(* Mutant: a CSeq that is never advanced. *)
CSeqNotAdvanced == 1

NextCSeq == cseq + 1

(* The request goes out.  When the sink is gone the bytes may still be     *)
(* accepted by the kernel, and reach nobody.                               *)
Ask(t, kind) ==
    /\ conn \in {"open", "gone"}
    /\ cseq' = NextCSeq
    /\ pending' = pending \cup {[cseq |-> NextCSeq, task |-> t]}
    /\ call' = [call EXCEPT ![t] =
                  [cseq |-> NextCSeq, kind |-> kind, answer |-> "none"]]
    /\ asked' = IF conn = "open"
                  THEN Append(asked, [cseq |-> NextCSeq, kind |-> kind])
                  ELSE asked
    /\ UNCHANGED <<conn, wire>>

(* _send raises: no writer yet, or the write or the drain hits a lost      *)
(* connection.  The future is already in _pending, and no finally has been *)
(* entered that would pop it.                                              *)
AskFails(t) ==
    /\ conn # "open"
    /\ cseq' = NextCSeq
    /\ pending' = pending \cup {[cseq |-> NextCSeq, task |-> t]}
    /\ conn' = IF conn = "gone" THEN "lost" ELSE conn
    /\ wire' = <<>>
    /\ UNCHANGED <<call, asked>>

(* Mutant: no finally clause. *)
SettleWithoutPop(ts) ==
    /\ call' = [t \in Tasks |-> IF t \in ts THEN NoCall ELSE call[t]]
    /\ UNCHANGED pending

(* The await of _request ends for the tasks ts, by an answer, a timeout or *)
(* a cancellation: the finally clause pops their entries.                  *)
Settle(ts) ==
    /\ pending' = {p \in pending : p.task \notin ts \/ p.cseq # call[p.task].cseq}
    /\ call' = [t \in Tasks |-> IF t \in ts THEN NoCall ELSE call[t]]

(* if self._keepalive_task: self._keepalive_task.cancel().  The task itself *)
(* ends when the loop next runs it.                                        *)
Cancelled(t) == IF ka[t] \in {"sleep", "wait"} THEN "cancelled" ELSE ka[t]
(* Mutant: cancel() without asking whether there is a task. *)
CancelUnchecked ==
    ka' = [t \in Keepalives \cup {kaCur} |->
              IF t = kaCur THEN "cancelled" ELSE ka[t]]
CancelKeepalive ==
    ka' = [t \in Keepalives |-> IF t = kaCur THEN Cancelled(t) ELSE ka[t]]

(* self._recv_task.cancel(), without effect on a task that has ended.      *)
CancelRecv == recv' = IF recv = "running" THEN "cancelled" ELSE recv

-----------------------------------------------------------------------------
(* The main task: a step of its own, and the end of something it awaits.   *)

Goto(from, to) ==
    /\ pc = from /\ LoopIdle
    /\ pc' = to
    /\ UNCHANGED <<sessionVars, ka, kaCur, recv, casting, channelVars, sinkVars>>

Resume(to) ==
    /\ LoopIdle
    /\ Settle({Main})
    /\ pc' = to
    /\ UNCHANGED <<cseq, uibcNegotiated, kaCur, casting, inbox, sinkVars>>

-----------------------------------------------------------------------------
(* serve and _handshake, run by the main task.                             *)

Accept ==
    /\ pc = "listen" /\ conn = "none"
    /\ pc' = "accepted" /\ conn' = "open" /\ recv' = "running"
    /\ state' = "IDLE"
    /\ UNCHANGED <<cseq, uibcNegotiated, pending, call, ka, kaCur, casting,
                   wire, inbox, sinkVars>>

AcceptTimeout == Goto("listen", "unwind")

(* One _send_mN up to its await; a failing send leaves serve through       *)
(* "except Exception", which cancels the receive loop.                     *)
HandshakeSend(from, to, s, kind) ==
    /\ pc = from
    /\ state' = s
    /\ \/ Ask(Main, kind) /\ pc' = to /\ UNCHANGED recv
       \/ AskFails(Main) /\ pc' = "unwind" /\ recv' = "cancelled"
    /\ UNCHANGED <<ka, kaCur, casting, inbox, triggered, sent, replied>>

(* ... and from the answer on. *)
HandshakeAnswered(at, next, s) ==
    /\ pc = at /\ Answered(Main)
    /\ Resume(next)
    /\ state' = s
    /\ UNCHANGED <<ka, recv, conn, wire>>

SendM1 == HandshakeSend("accepted", "m1", "M1_SENT", "M1") /\ UNCHANGED uibcNegotiated
M1Answered == HandshakeAnswered("m1", "m1done", "M2_DONE")
SendM3 == HandshakeSend("m1done", "m3", "M3_SENT", "M3") /\ UNCHANGED uibcNegotiated
M3Answered == HandshakeAnswered("m3", "m3done", "NEGOTIATING")

(* The sink's M3 answer decides whether the source claims UIBC.            *)
SendM4 ==
    /\ HandshakeSend("m3done", "m4", "M4_SENT", "M4")
    /\ uibcNegotiated' \in BOOLEAN

M4Answered == HandshakeAnswered("m4", "m4done", state)
SendM5 == HandshakeSend("m4done", "m5", "M5_SENT", "M5") /\ UNCHANGED uibcNegotiated
M5Answered == HandshakeAnswered("m5", "poll", "SETUP_WAIT")

(* wait_for expires.  It may do so in the very iteration in which the      *)
(* answer arrived, and then the answer is dropped.                         *)
HandshakeTimeout ==
    /\ pc \in {"m1", "m3", "m4", "m5"}
    /\ Resume("unwind")
    /\ CancelRecv
    /\ UNCHANGED <<state, ka, conn, wire>>

Handshake ==
    \/ Accept \/ AcceptTimeout
    \/ SendM1 \/ M1Answered \/ SendM3 \/ M3Answered
    \/ SendM4 \/ M4Answered \/ SendM5 \/ M5Answered
    \/ HandshakeTimeout

-----------------------------------------------------------------------------
(* cmd_connect from the end of serve to the end of teardown.               *)

(* STREAMING and no pipeline yet: start it and, if negotiated, the touch   *)
(* back-channel.  _start_uibc may fail before it gets to M14.              *)
StartCast ==
    /\ pc = "poll" /\ LoopIdle
    /\ state = "STREAMING" /\ ~casting
    /\ casting' = TRUE
    /\ pc' \in IF uibcNegotiated THEN {"poll", "startUibc"} ELSE {"poll"}
    /\ UNCHANGED <<sessionVars, ka, kaCur, recv, channelVars, sinkVars>>

(* uibc.start() has yielded to the loop before M14 is sent. *)
EnableUibc ==
    /\ pc = "startUibc" /\ LoopIdle
    /\ \/ Ask(Main, "M14") /\ pc' = "uibc"
       \/ AskFails(Main) /\ pc' = "poll"
    /\ UNCHANGED <<state, uibcNegotiated, ka, kaCur, recv, casting, inbox,
                   triggered, sent, replied>>

UibcSettled ==
    /\ pc = "uibc"
    /\ Resume("poll")
    /\ UNCHANGED <<state, ka, recv, conn, wire>>

(* Mutant: the poll loop looks at the state only once the pipeline runs. *)
SessionEndedMidCast == state = "TEARDOWN" /\ casting /\ Goto("poll", "unwind")
SessionEnded == state = "TEARDOWN" /\ Goto("poll", "unwind")
PipelineDied == casting /\ Goto("poll", "unwind")

Interruptible ==
    pc \in {"listen", "m1", "m3", "m4", "m5", "poll", "startUibc", "uibc"}

(* Ctrl-C: asyncio.run cancels the main task, and only it. *)
Interrupt ==
    /\ Interruptible
    /\ Resume("unwind")
    /\ UNCHANGED <<state, ka, recv, conn, wire>>

(* SIGTERM: KeyboardInterrupt leaves the loop itself, and asyncio.run then *)
(* cancels every task.                                                     *)
Terminate ==
    /\ Interruptible
    /\ Resume("unwind")
    /\ CancelRecv
    /\ ka' = [t \in Keepalives |-> Cancelled(t)]
    /\ UNCHANGED <<state, conn, wire>>

(* teardown() returns at once from a session that is already torn down ... *)
AlreadyTornDown == state = "TEARDOWN" /\ Goto("unwind", "returned")

(* ... and otherwise asks the sink to tear down, whatever comes of it. *)
BeginTeardown ==
    /\ pc = "unwind" /\ LoopIdle
    /\ state # "TEARDOWN"
    /\ state' = "TEARDOWN"
    /\ CancelKeepalive
    /\ \/ Ask(Main, "TRIGGER") /\ pc' = "trigger"
       \/ AskFails(Main) /\ pc' = "closing"
    /\ UNCHANGED <<uibcNegotiated, kaCur, recv, casting, inbox, triggered,
                   sent, replied>>

(* Mutant: no timeout on the trigger's answer. *)
TriggerAnswered ==
    /\ pc = "trigger" /\ Answered(Main)
    /\ Resume("closing")
    /\ conn' = "closed" /\ wire' = <<>>
    /\ UNCHANGED <<state, ka, recv>>

(* Answered or not, the writer is closed, ... *)
TriggerSettled ==
    /\ pc = "trigger"
    /\ Resume("closing")
    /\ conn' = "closed" /\ wire' = <<>>
    /\ UNCHANGED <<state, ka, recv>>

(* Mutant: writer.close() without wait_closed(). *)
NoWaitClosed == Goto("closing", "returned")

(* ... which wakes the receive loop before it wakes wait_closed.           *)
WaitClosed == recv # "running" /\ Goto("closing", "returned")

(* asyncio.run cancels what is left, and the process ends. *)
Exit ==
    /\ pc = "returned" /\ LoopIdle
    /\ pc' = "exited"
    /\ CancelRecv
    /\ ka' = [t \in Keepalives |-> IF ka[t] = "unborn" THEN "unborn" ELSE "done"]
    /\ Settle(Tasks)
    /\ conn' = IF conn = "none" THEN "none" ELSE "closed"
    /\ wire' = <<>>
    /\ UNCHANGED <<state, cseq, uibcNegotiated, kaCur, casting, inbox, sinkVars>>

Teardown ==
    \/ AlreadyTornDown \/ BeginTeardown \/ TriggerSettled \/ WaitClosed \/ Exit

-----------------------------------------------------------------------------
(* _recv_loop and _dispatch.                                               *)

(* A read returns some of the bytes that have arrived. *)
Feed ==
    /\ recv = "running" /\ LoopIdle /\ ~Woken
    /\ \E n \in 1..Len(wire) :
          /\ inbox' = SubSeq(wire, 1, n)
          /\ wire' = SubSeq(wire, n + 1, Len(wire))
    /\ UNCHANGED <<sessionVars, taskVars, conn, sinkVars>>

(* Mutant: the receive loop just ends. *)
ChannelDownUnnoticed ==
    /\ recv = "running" /\ LoopIdle /\ ~Woken
    /\ conn \in {"lost", "closed"} \/ (conn = "gone" /\ wire = <<>>)
    /\ recv' = "ended"
    /\ UNCHANGED <<sessionVars, ka, kaCur, pc, casting, channelVars, sinkVars>>

(* EOF or an error: the control channel is gone, and the session with it.  *)
ChannelDown ==
    /\ recv = "running" /\ LoopIdle /\ ~Woken
    /\ conn \in {"lost", "closed"} \/ (conn = "gone" /\ wire = <<>>)
    /\ recv' = "ended"
    /\ IF state # "TEARDOWN" THEN state' = "TEARDOWN" /\ CancelKeepalive
                             ELSE UNCHANGED <<state, ka>>
    /\ UNCHANGED <<cseq, uibcNegotiated, pending, call, kaCur, pc, casting,
                   channelVars, sinkVars>>

(* An answer resolves the future under its CSeq, if it is still waited on. *)
HandleResponse ==
    /\ inbox # <<>> /\ Head(inbox).type = "resp"
    /\ LET msg == Head(inbox)
           owners == {p.task : p \in {q \in pending : q.cseq = msg.cseq}}
       IN  /\ pending' = {p \in pending : p.cseq # msg.cseq}
           /\ call' = [t \in Tasks |->
                         IF t \in owners /\ call[t].cseq = msg.cseq
                           THEN [call[t] EXCEPT !.answer = msg.kind]
                           ELSE call[t]]
    /\ inbox' = Tail(inbox)
    /\ UNCHANGED <<state, cseq, uibcNegotiated, taskVars, conn, wire, sinkVars>>

(* A request of the sink is answered first and acted upon then. *)
Reply(m) ==
    /\ inbox # <<>> /\ Head(inbox) = [type |-> "req", method |-> m]
    /\ inbox' = Tail(inbox)
    /\ replied' = IF conn = "open" THEN [replied EXCEPT ![m] = @ + 1] ELSE replied
    /\ UNCHANGED <<cseq, uibcNegotiated, pending, call, recv, pc, casting,
                   conn, wire, asked, triggered, sent>>

HandleOptions == Reply("OPTIONS") /\ UNCHANGED <<state, ka, kaCur>>

(* GET_PARAMETER, SET_PARAMETER, and 501 for the rest. *)
HandleOther == Reply("OTHER") /\ UNCHANGED <<state, ka, kaCur>>

HandleSetup ==
    /\ Reply("SETUP")
    /\ state' = "PLAY_WAIT"
    /\ UNCHANGED <<ka, kaCur>>

HandlePlay ==
    /\ Reply("PLAY")
    /\ state' = "STREAMING"
    /\ kaCur' = kaCur + 1
    /\ ka' = [ka EXCEPT ![kaCur + 1] = "sleep"]

HandleTeardown ==
    /\ Reply("TEARDOWN")
    /\ state' = "TEARDOWN"
    /\ CancelKeepalive
    /\ UNCHANGED kaCur

(* Mutant: TEARDOWN is set before the woken tasks have run. *)
ReplyFailsAtOnce ==
    /\ inbox # <<>> /\ Head(inbox).type = "req"
    /\ conn = "gone"
    /\ conn' = "lost" /\ wire' = <<>> /\ inbox' = <<>>
    /\ recv' = "ended" /\ state' = "TEARDOWN"
    /\ UNCHANGED <<cseq, uibcNegotiated, pending, call, ka, kaCur, pc, casting,
                   sinkVars>>

(* The reply hits a lost connection: the rest of the chunk is dropped, and *)
(* the receive loop ends once the tasks it has woken have run.             *)
ReplyFails ==
    /\ inbox # <<>> /\ Head(inbox).type = "req"
    /\ conn = "gone"
    /\ conn' = "lost" /\ wire' = <<>> /\ inbox' = <<>>
    /\ UNCHANGED <<sessionVars, taskVars, sinkVars>>

Dispatch ==
    \/ HandleResponse \/ HandleOptions \/ HandleOther \/ HandleSetup
    \/ HandlePlay \/ HandleTeardown \/ ReplyFails

-----------------------------------------------------------------------------
(* _keepalive_loop, task t.                                                *)

KaWake(t) ==
    /\ ka[t] = "sleep" /\ LoopIdle
    /\ state = "STREAMING" /\ cseq < MaxCSeq
    /\ \/ Ask(t, "KEEPALIVE") /\ ka' = [ka EXCEPT ![t] = "wait"]
       \/ AskFails(t) /\ ka' = [ka EXCEPT ![t] = "done"]
    /\ UNCHANGED <<state, uibcNegotiated, kaCur, recv, pc, casting, inbox,
                   triggered, sent, replied>>

(* Mutant: a keepalive that timed out ends the loop. *)
StopAfterTimeout == "done"
(* Answered, or timed out and only logged: the loop goes on either way. *)
AfterKeepalive == IF state = "STREAMING" THEN "sleep" ELSE "done"
KaLeaves(t, from, to) ==
    /\ ka[t] = from /\ LoopIdle
    /\ Settle({t})
    /\ ka' = [ka EXCEPT ![t] = to]
    /\ UNCHANGED <<state, cseq, uibcNegotiated, kaCur, recv, pc, casting,
                   channelVars, sinkVars>>
KaSettled(t) == KaLeaves(t, "wait", AfterKeepalive)
KaCancelled(t) == KaLeaves(t, "cancelled", "done")
KaEnds(t) == state # "STREAMING" /\ KaLeaves(t, "sleep", "done")

Keepalive(t) == KaWake(t) \/ KaEnds(t) \/ KaSettled(t) \/ KaCancelled(t)

-----------------------------------------------------------------------------
(* The sink: it answers in order, sends SETUP when triggered and PLAY when *)
(* set up, waits for the answer of either, and asks nothing more after its *)
(* TEARDOWN.                                                               *)

SinkAnswer ==
    /\ conn = "open" /\ asked # <<>>
    /\ sent["TEARDOWN"] = 0 \/ AnswersAfterTeardown
    /\ wire' = Append(wire, [type |-> "resp", cseq |-> Head(asked).cseq,
                             kind |-> Head(asked).kind])
    /\ triggered' = (triggered \/ Head(asked).kind = "M5")
    /\ asked' = Tail(asked)
    /\ UNCHANGED <<sessionVars, taskVars, conn, inbox, sent, replied>>

Quiet == \A m \in {"SETUP", "PLAY"} : sent[m] = replied[m]

SinkRequest(m) ==
    /\ conn = "open"
    /\ sent[m] < MaxRequests[m] /\ sent["TEARDOWN"] = 0
    /\ m = "SETUP" => triggered /\ Quiet
    /\ m = "PLAY" => replied["SETUP"] > 0 /\ Quiet
    /\ wire' = Append(wire, [type |-> "req", method |-> m])
    /\ sent' = [sent EXCEPT ![m] = @ + 1]
    /\ UNCHANGED <<sessionVars, taskVars, conn, inbox, asked, triggered, replied>>

(* The sink closes, or resets and what is under way is lost. *)
SinkClose ==
    /\ conn = "open"
    /\ conn' = "gone"
    /\ wire' \in {wire, <<>>}
    /\ asked' = <<>>
    /\ UNCHANGED <<sessionVars, taskVars, inbox, triggered, sent, replied>>

Sink == SinkAnswer \/ SinkClose \/ \E m \in SinkMethods : SinkRequest(m)

Terminated == pc = "exited" /\ UNCHANGED vars

-----------------------------------------------------------------------------
Next ==
    \/ Handshake
    \/ StartCast \/ EnableUibc \/ UibcSettled \/ SessionEnded \/ PipelineDied
    \/ Interrupt \/ Terminate
    \/ Teardown
    \/ Feed \/ ChannelDown \/ Dispatch
    \/ \E t \in Keepalives : Keepalive(t)
    \/ Sink
    \/ Terminated

Spec == Init /\ [][Next]_vars

(* What the event loop runs without anybody's help: ready tasks and        *)
(* expired timers.  Nothing is assumed of the sink, of the user, or of the *)
(* pipeline.                                                               *)
MainStep == Handshake \/ EnableUibc \/ UibcSettled \/ SessionEnded \/ Teardown
LoopStep == Feed \/ ChannelDown \/ Dispatch
FairSpec ==
    /\ Spec
    /\ WF_vars(LoopStep)
    /\ WF_vars(MainStep)
    /\ \A t \in Keepalives : WF_vars(KaSettled(t) \/ KaCancelled(t))

-----------------------------------------------------------------------------
(* Properties.                                                             *)

(* Every variable has its type. *)
TypeOK ==
    /\ state \in SessionState /\ cseq \in Nat /\ uibcNegotiated \in BOOLEAN
    /\ pending \subseteq [cseq : Nat, task : Tasks]
    /\ call \in [Tasks -> Calls]
    /\ ka \in [Keepalives -> {"unborn", "sleep", "wait", "cancelled", "done"}]
    /\ kaCur \in Nat
    /\ recv \in {"none", "running", "ended", "cancelled"}
    /\ pc \in {"listen", "accepted", "m1", "m1done", "m3", "m3done", "m4",
               "m4done", "m5", "poll", "startUibc", "uibc", "unwind",
               "trigger", "closing", "returned", "exited"}
    /\ casting \in BOOLEAN
    /\ conn \in {"none", "open", "gone", "lost", "closed"}
    /\ wire \in Seq(Messages) /\ inbox \in Seq(Messages)
    /\ asked \in Seq([cseq : Nat, kind : Kinds])
    /\ triggered \in BOOLEAN
    /\ sent \in [SinkMethods -> Nat] /\ replied \in [SinkMethods -> Nat]

(* Requests of several tasks are outstanding at once and answers come late,*)
(* after a timeout or a cancellation: still no task is ever given the      *)
(* answer to another request than the one it awaits (_request, _dispatch). *)
MatchedAnswers ==
    \A t \in Tasks : call[t].answer \in {"none", call[t].kind}

(* While the connection is open, _pending holds exactly the futures that   *)
(* somebody still awaits: none leaks after a timeout or a cancellation, and*)
(* none is missing, which would make its answer "unsolicited".             *)
PendingExact ==
    conn = "open" =>
        pending = {[cseq |-> call[t].cseq, task |-> t] :
                      t \in {u \in Tasks : Waiting(u) /\ ~Answered(u)}}

(* Once the receive loop has seen the control channel go, the session says *)
(* TEARDOWN, whatever the handshake was doing meanwhile, "so the caller    *)
(* exits instead of streaming blind" (session.py:246).                     *)
ChannelGoneIsFinal == recv = "ended" => state = "TEARDOWN"

(* What makes it so: the loop ends only when the handshake has no answer   *)
(* left to act upon, and a step of the handshake between two awaits always *)
(* has a loop that runs behind it.                                         *)
HandshakeAwaits == pc \in {"m1", "m3", "m4", "m5"}
ChannelInv ==
    /\ inbox # <<>> => recv = "running" /\ ~Busy
    /\ Busy => recv = "running"
    /\ pc = "listen" => recv = "none"
    /\ HandshakeAwaits => recv \in {"running", "ended"}
    /\ recv = "ended" => /\ state = "TEARDOWN"
                         /\ HandshakeAwaits => ~Answered(Main)

(* A caller that has returned from teardown leaves a session in TEARDOWN,  *)
(* even if a PLAY of the sink crossed the teardown.                        *)
StaysTornDown == pc \in {"returned", "exited"} => state = "TEARDOWN"

(* While the session streams to a sink that is there, its newest keepalive *)
(* task lives: neither a keepalive that timed out nor an older task's end  *)
(* stops it.                                                               *)
KeepaliveAlive ==
    state = "STREAMING" /\ conn = "open" /\ recv = "running" =>
        ka[kaCur] \in {"sleep", "wait"}

(* Handshake requests and keepalives go out only while somebody reads the  *)
(* answers.  (The touch enable and the TEARDOWN trigger may not: then the  *)
(* session is already in TEARDOWN.)                                        *)
RequestsHaveReader ==
    [][cseq' > cseq /\ state' # "TEARDOWN" => recv = "running"]_vars

(* A sink that closes the connection ends the program, at whatever point   *)
(* of the handshake or the cast it does so.                                *)
SinkCloseEndsSession == conn = "gone" ~> pc = "exited"

(* A teardown that has begun completes, answered or not. *)
TeardownCompletes == pc = "unwind" ~> pc = "exited"

Cast == INSTANCE CastSession WITH
    channel <- CASE recv = "none" -> "none"
                 [] recv = "running" -> "up"
                 [] OTHER -> "down",
    streaming <- state = "STREAMING",
    caller <- CASE pc \in {"poll", "startUibc", "uibc"} -> "watching"
                [] pc \in {"unwind", "trigger", "closing"} -> "leaving"
                [] pc \in {"returned", "exited"} -> "left"
                [] OTHER -> "serving"

(* The session implements the abstract cast. *)
ImplementsCast == Cast!Spec

-----------------------------------------------------------------------------
(* What the source says of itself, and the code does not do.               *)

(* TEARDOWN stands for "session ending" (session.py:40): a session torn    *)
(* down by its sink ends.                                                  *)
SinkTeardownEndsSession == replied["TEARDOWN"] > 0 ~> pc = "exited"
=============================================================================
