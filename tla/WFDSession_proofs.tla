------------------------- MODULE WFDSession_proofs -------------------------
(***************************************************************************)
(* Theorems about WFDSession, for every number of requests the sink may    *)
(* send and every bound on the keepalives.                                 *)
(***************************************************************************)
EXTENDS WFDSession, SequenceTheorems, TLAPS

-----------------------------------------------------------------------------
(* The operators the actions share.                                        *)

LEMMA TasksType == Main \in Tasks /\ Keepalives \subseteq Tasks /\ Tasks \subseteq Nat
  BY MaxRequestsAssumption DEF Tasks, Main, Keepalives, SinkMethods

LEMMA SettleType ==
  ASSUME TypeOK, NEW ts, Settle(ts)
  PROVE  /\ pending' \subseteq [cseq : Nat, task : Tasks]
         /\ call' \in [Tasks -> Calls]
  <1>1. NoCall \in Calls
    BY DEF NoCall, Calls
  <1> QED
    BY <1>1 DEF TypeOK, Settle

LEMMA AskType ==
  ASSUME TypeOK, NEW t \in Tasks, NEW kind \in Kinds, Ask(t, kind)
  PROVE  /\ cseq' \in Nat
         /\ pending' \subseteq [cseq : Nat, task : Tasks]
         /\ call' \in [Tasks -> Calls]
         /\ asked' \in Seq([cseq : Nat, kind : Kinds])
         /\ conn' = conn /\ wire' = wire
  <1>1. NextCSeq \in Nat
    BY DEF TypeOK, NextCSeq
  <1>2. [cseq |-> NextCSeq, task |-> t] \in [cseq : Nat, task : Tasks]
    BY <1>1
  <1>3. [cseq |-> NextCSeq, kind |-> kind, answer |-> "none"] \in Calls
    BY <1>1 DEF Calls
  <1>4. [cseq |-> NextCSeq, kind |-> kind] \in [cseq : Nat, kind : Kinds]
    BY <1>1
  <1>5. pending' \subseteq [cseq : Nat, task : Tasks]
    BY <1>2 DEF TypeOK, Ask
  <1>6. call' \in [Tasks -> Calls]
    BY <1>3 DEF TypeOK, Ask
  <1>7. asked' \in Seq([cseq : Nat, kind : Kinds])
    <2>1. asked \in Seq([cseq : Nat, kind : Kinds])
      BY DEF TypeOK
    <2>2. Append(asked, [cseq |-> NextCSeq, kind |-> kind]) \in Seq([cseq : Nat, kind : Kinds])
      BY <1>4, <2>1, AppendProperties
    <2> QED
      BY <2>1, <2>2 DEF Ask
  <1> QED
    BY <1>1, <1>5, <1>6, <1>7 DEF Ask

LEMMA AskFailsType ==
  ASSUME TypeOK, NEW t \in Tasks, AskFails(t)
  PROVE  /\ cseq' \in Nat
         /\ pending' \subseteq [cseq : Nat, task : Tasks]
         /\ call' \in [Tasks -> Calls]
         /\ asked' \in Seq([cseq : Nat, kind : Kinds])
         /\ conn' \in {"none", "open", "gone", "lost", "closed"}
         /\ wire' \in Seq(Messages)
  <1>1. NextCSeq \in Nat
    BY DEF TypeOK, NextCSeq
  <1> QED
    BY <1>1 DEF TypeOK, AskFails

LEMMA CancelKeepaliveType ==
  ASSUME TypeOK, CancelKeepalive
  PROVE  ka' \in [Keepalives -> {"unborn", "sleep", "wait", "cancelled", "done"}]
  BY DEF TypeOK, CancelKeepalive, Cancelled

LEMMA ReplyType ==
  ASSUME TypeOK, NEW m \in SinkMethods, Reply(m),
         state' \in SessionState, kaCur' \in Nat,
         ka' \in [Keepalives -> {"unborn", "sleep", "wait", "cancelled", "done"}]
  PROVE  TypeOK'
  <1>1. inbox' \in Seq(Messages)
    BY HeadTailProperties DEF TypeOK, Reply
  <1>2. replied' \in [SinkMethods -> Nat]
    BY DEF TypeOK, Reply
  <1> QED
    BY <1>1, <1>2 DEF TypeOK, Reply

LEMMA ResumeType ==
  ASSUME TypeOK, NEW to, Resume(to)
  PROVE  /\ pending' \subseteq [cseq : Nat, task : Tasks]
         /\ call' \in [Tasks -> Calls]
  BY SettleType DEF Resume

-----------------------------------------------------------------------------
(* Type correctness, one lemma per part of Next.                           *)

LEMMA GotoType ==
  ASSUME TypeOK, NEW from,
         NEW to \in {"unwind", "returned"}, Goto(from, to)
  PROVE  TypeOK'
  BY DEF TypeOK, Goto, sessionVars, channelVars, sinkVars

LEMMA HandshakeSendType ==
  ASSUME TypeOK, NEW from,
         NEW to \in {"m1", "m3", "m4", "m5"}, NEW s \in SessionState,
         NEW kind \in Kinds, HandshakeSend(from, to, s, kind),
         uibcNegotiated' \in BOOLEAN
  PROVE  TypeOK'
  <1>1. CASE Ask(Main, kind) /\ pc' = to /\ UNCHANGED recv
    BY <1>1, AskType, TasksType DEF TypeOK, HandshakeSend
  <1>2. CASE AskFails(Main) /\ pc' = "unwind" /\ recv' = "cancelled"
    BY <1>2, AskFailsType, TasksType DEF TypeOK, HandshakeSend
  <1> QED
    BY <1>1, <1>2 DEF HandshakeSend

LEMMA HandshakeAnsweredType ==
  ASSUME TypeOK, NEW at,
         NEW next \in {"m1done", "m3done", "m4done", "poll"},
         NEW s \in SessionState, HandshakeAnswered(at, next, s)
  PROVE  TypeOK'
  <1>1. Resume(next)
    BY DEF HandshakeAnswered
  <1> QED
    BY <1>1, ResumeType DEF TypeOK, HandshakeAnswered, Resume, sinkVars

LEMMA HandshakeType ==
  ASSUME TypeOK, Handshake
  PROVE  TypeOK'
  <1>1. CASE Accept
    BY <1>1 DEF TypeOK, Accept, sinkVars, SessionState
  <1>2. CASE AcceptTimeout
    BY <1>2, GotoType DEF AcceptTimeout
  <1>3. CASE SendM1
    BY <1>3, HandshakeSendType DEF SendM1, TypeOK, SessionState, Kinds
  <1>4. CASE M1Answered
    BY <1>4, HandshakeAnsweredType DEF M1Answered, SessionState
  <1>5. CASE SendM3
    BY <1>5, HandshakeSendType DEF SendM3, TypeOK, SessionState, Kinds
  <1>6. CASE M3Answered
    BY <1>6, HandshakeAnsweredType DEF M3Answered, SessionState
  <1>7. CASE SendM4
    BY <1>7, HandshakeSendType DEF SendM4, SessionState, Kinds
  <1>8. CASE M4Answered
    BY <1>8, HandshakeAnsweredType DEF M4Answered, TypeOK
  <1>9. CASE SendM5
    BY <1>9, HandshakeSendType DEF SendM5, TypeOK, SessionState, Kinds
  <1>10. CASE M5Answered
    BY <1>10, HandshakeAnsweredType DEF M5Answered, SessionState
  <1>11. CASE HandshakeTimeout
    <2>1. Resume("unwind")
      BY <1>11 DEF HandshakeTimeout
    <2> QED
      BY <1>11, <2>1, ResumeType
         DEF TypeOK, HandshakeTimeout, CancelRecv, Resume, sinkVars
  <1> QED
    BY <1>1, <1>2, <1>3, <1>4, <1>5, <1>6, <1>7, <1>8, <1>9, <1>10, <1>11
       DEF Handshake

LEMMA CastType ==
  ASSUME TypeOK,
         StartCast \/ EnableUibc \/ UibcSettled \/ SessionEnded
           \/ PipelineDied \/ Interrupt \/ Terminate
  PROVE  TypeOK'
  <1>1. CASE StartCast
    BY <1>1 DEF TypeOK, StartCast, sessionVars, channelVars, sinkVars
  <1>2. CASE EnableUibc
    <2>1. CASE Ask(Main, "M14") /\ pc' = "uibc"
      BY <1>2, <2>1, AskType, TasksType DEF TypeOK, EnableUibc, Kinds
    <2>2. CASE AskFails(Main) /\ pc' = "poll"
      BY <1>2, <2>2, AskFailsType, TasksType DEF TypeOK, EnableUibc
    <2> QED
      BY <1>2, <2>1, <2>2 DEF EnableUibc
  <1>3. CASE UibcSettled
    <2>1. Resume("poll")
      BY <1>3 DEF UibcSettled
    <2> QED
      BY <1>3, <2>1, ResumeType DEF TypeOK, UibcSettled, Resume, sinkVars
  <1>4. CASE SessionEnded
    BY <1>4, GotoType DEF SessionEnded
  <1>5. CASE PipelineDied
    BY <1>5, GotoType DEF PipelineDied
  <1>6. CASE Interrupt
    <2>1. Resume("unwind")
      BY <1>6 DEF Interrupt
    <2> QED
      BY <1>6, <2>1, ResumeType DEF TypeOK, Interrupt, Resume, sinkVars
  <1>7. CASE Terminate
    <2>1. Resume("unwind")
      BY <1>7 DEF Terminate
    <2> QED
      BY <1>7, <2>1, ResumeType
         DEF TypeOK, Terminate, CancelRecv, Cancelled, Resume, sinkVars
  <1> QED
    BY <1>1, <1>2, <1>3, <1>4, <1>5, <1>6, <1>7

LEMMA TeardownType ==
  ASSUME TypeOK, Teardown
  PROVE  TypeOK'
  <1>1. CASE AlreadyTornDown
    BY <1>1, GotoType DEF AlreadyTornDown
  <1>2. CASE BeginTeardown
    <2>1. ka' \in [Keepalives -> {"unborn", "sleep", "wait", "cancelled", "done"}]
      BY <1>2, CancelKeepaliveType DEF BeginTeardown
    <2>2. CASE Ask(Main, "TRIGGER") /\ pc' = "trigger"
      BY <1>2, <2>1, <2>2, AskType, TasksType
         DEF TypeOK, BeginTeardown, Kinds, SessionState
    <2>3. CASE AskFails(Main) /\ pc' = "closing"
      BY <1>2, <2>1, <2>3, AskFailsType, TasksType
         DEF TypeOK, BeginTeardown, SessionState
    <2> QED
      BY <1>2, <2>2, <2>3 DEF BeginTeardown
  <1>3. CASE TriggerSettled
    <2>1. Resume("closing")
      BY <1>3 DEF TriggerSettled
    <2>2. wire' \in Seq(Messages)
      BY <1>3 DEF TriggerSettled
    <2>3. /\ pending' \subseteq [cseq : Nat, task : Tasks]
          /\ call' \in [Tasks -> Calls]
      BY <2>1, ResumeType
    <2> QED
      BY <1>3, <2>2, <2>3 DEF TypeOK, TriggerSettled, Resume, sinkVars
  <1>4. CASE WaitClosed
    BY <1>4, GotoType DEF WaitClosed
  <1>5. CASE Exit
    <2>1. Settle(Tasks)
      BY <1>5 DEF Exit
    <2> QED
      BY <1>5, <2>1, SettleType DEF TypeOK, Exit, CancelRecv, sinkVars
  <1> QED
    BY <1>1, <1>2, <1>3, <1>4, <1>5 DEF Teardown

LEMMA FeedType ==
  ASSUME TypeOK, Feed
  PROVE  TypeOK'
  <1>1. PICK n \in 1..Len(wire) : /\ inbox' = SubSeq(wire, 1, n)
                                 /\ wire' = SubSeq(wire, n + 1, Len(wire))
    BY DEF Feed
  <1>2. wire \in Seq(Messages) /\ Len(wire) \in Nat
    BY DEF TypeOK
  <1>3. \A i \in 1..Len(wire) : wire[i] \in Messages
    BY <1>2
  <1>4. inbox' \in Seq(Messages)
    BY <1>1, <1>2, <1>3, SubSeqProperties
  <1>5. wire' \in Seq(Messages)
    BY <1>1, <1>2, <1>3, SubSeqProperties
  <1> QED
    BY <1>4, <1>5 DEF TypeOK, Feed, sessionVars, taskVars, sinkVars

LEMMA ChannelDownType ==
  ASSUME TypeOK, ChannelDown
  PROVE  TypeOK'
  <1>1. ka' \in [Keepalives -> {"unborn", "sleep", "wait", "cancelled", "done"}]
    BY CancelKeepaliveType DEF TypeOK, ChannelDown
  <1> QED
    BY <1>1 DEF TypeOK, ChannelDown, channelVars, sinkVars, SessionState

LEMMA DispatchType ==
  ASSUME TypeOK, Dispatch
  PROVE  TypeOK'
  <1>1. CASE HandleResponse
    <2>1. Head(inbox) \in Messages /\ Tail(inbox) \in Seq(Messages)
      BY <1>1 DEF TypeOK, HandleResponse
    <2>2. Head(inbox).kind \in Kinds
      BY <1>1, <2>1 DEF HandleResponse, Messages, Responses, Requests
    <2>3. call' \in [Tasks -> Calls]
      BY <1>1, <2>2 DEF TypeOK, HandleResponse, Calls
    <2>4. pending' \subseteq [cseq : Nat, task : Tasks]
      BY <1>1 DEF TypeOK, HandleResponse
    <2> QED
      BY <1>1, <2>1, <2>3, <2>4 DEF TypeOK, HandleResponse, taskVars, sinkVars
  <1>2. CASE HandleOptions
    BY <1>2, ReplyType DEF HandleOptions, TypeOK, SinkMethods
  <1>3. CASE HandleOther
    BY <1>3, ReplyType DEF HandleOther, TypeOK, SinkMethods
  <1>4. CASE HandleSetup
    BY <1>4, ReplyType DEF HandleSetup, TypeOK, SinkMethods, SessionState
  <1>5. CASE HandlePlay
    <2>1. ka' \in [Keepalives -> {"unborn", "sleep", "wait", "cancelled", "done"}]
      BY <1>5 DEF HandlePlay, TypeOK
    <2>2. kaCur' \in Nat /\ state' \in SessionState /\ Reply("PLAY")
      BY <1>5 DEF HandlePlay, TypeOK, SessionState
    <2> QED
      BY <2>1, <2>2, ReplyType DEF SinkMethods
  <1>6. CASE HandleTeardown
    <2>1. ka' \in [Keepalives -> {"unborn", "sleep", "wait", "cancelled", "done"}]
      BY <1>6, CancelKeepaliveType DEF HandleTeardown
    <2>2. kaCur' \in Nat /\ state' \in SessionState /\ Reply("TEARDOWN")
      BY <1>6 DEF HandleTeardown, TypeOK, SessionState
    <2> QED
      BY <2>1, <2>2, ReplyType DEF SinkMethods
  <1>7. CASE ReplyFails
    BY <1>7 DEF ReplyFails, TypeOK, sessionVars, taskVars, sinkVars
  <1> QED
    BY <1>1, <1>2, <1>3, <1>4, <1>5, <1>6, <1>7 DEF Dispatch

LEMMA KeepaliveType ==
  ASSUME TypeOK, NEW t \in Keepalives, Keepalive(t)
  PROVE  TypeOK'
  <1>0. t \in Tasks
    BY TasksType
  <1>1. CASE KaWake(t)
    <2>1. CASE Ask(t, "KEEPALIVE") /\ ka' = [ka EXCEPT ![t] = "wait"]
      <3>1. /\ cseq' \in Nat
            /\ pending' \subseteq [cseq : Nat, task : Tasks]
            /\ call' \in [Tasks -> Calls]
            /\ asked' \in Seq([cseq : Nat, kind : Kinds])
            /\ conn' = conn /\ wire' = wire
        BY <1>0, <2>1, AskType DEF Kinds
      <3> QED
        BY <1>1, <2>1, <3>1 DEF TypeOK, KaWake
    <2>2. CASE AskFails(t) /\ ka' = [ka EXCEPT ![t] = "done"]
      BY <1>0, <1>1, <2>2, AskFailsType DEF TypeOK, KaWake
    <2> QED
      BY <1>1, <2>1, <2>2 DEF KaWake
  <1>2. ASSUME NEW from, NEW to \in {"sleep", "done"}, KaLeaves(t, from, to)
        PROVE  TypeOK'
    <2>1. Settle({t})
      BY <1>2 DEF KaLeaves
    <2> QED
      BY <1>2, <2>1, SettleType DEF TypeOK, KaLeaves, channelVars, sinkVars
  <1> QED
    BY <1>1, <1>2
       DEF Keepalive, KaSettled, KaCancelled, KaEnds, AfterKeepalive

LEMMA SinkType ==
  ASSUME TypeOK, Sink
  PROVE  TypeOK'
  <1>1. CASE SinkAnswer
    <2>1. Head(asked) \in [cseq : Nat, kind : Kinds]
      <3>1. asked \in Seq([cseq : Nat, kind : Kinds]) /\ asked # <<>>
        BY <1>1 DEF TypeOK, SinkAnswer
      <3> QED
        BY <3>1, HeadTailProperties
    <2>2. [type |-> "resp", cseq |-> Head(asked).cseq, kind |-> Head(asked).kind]
            \in Messages
      BY <2>1 DEF Messages, Responses
    <2>3. wire' \in Seq(Messages)
      BY <1>1, <2>2, AppendProperties DEF TypeOK, SinkAnswer
    <2>4. asked' \in Seq([cseq : Nat, kind : Kinds])
      BY <1>1 DEF TypeOK, SinkAnswer
    <2>5. triggered' \in BOOLEAN
      BY <1>1 DEF TypeOK, SinkAnswer
    <2> QED
      BY <1>1, <2>3, <2>4, <2>5 DEF TypeOK, SinkAnswer, sessionVars, taskVars
  <1>2. ASSUME NEW m \in SinkMethods, SinkRequest(m)
        PROVE  TypeOK'
    <2>1. [type |-> "req", method |-> m] \in Messages
      BY DEF Messages, Requests
    <2>2. wire' \in Seq(Messages)
      BY <1>2, <2>1, AppendProperties DEF TypeOK, SinkRequest
    <2> QED
      BY <1>2, <2>2 DEF TypeOK, SinkRequest, sessionVars, taskVars
  <1>3. CASE SinkClose
    <2>1. wire' \in Seq(Messages)
      <3>1. wire' = wire \/ wire' = <<>>
        BY <1>3 DEF SinkClose
      <3> QED
        <4>1. wire \in Seq(Messages) /\ <<>> \in Seq(Messages)
          BY DEF TypeOK
        <4> QED
          BY <3>1, <4>1
    <2>2. asked' \in Seq([cseq : Nat, kind : Kinds])
      BY <1>3 DEF SinkClose
    <2> QED
      BY <1>3, <2>1, <2>2 DEF TypeOK, SinkClose, sessionVars, taskVars
  <1> QED
    BY <1>1, <1>2, <1>3 DEF Sink

LEMMA TypeStep ==
  ASSUME TypeOK, [Next]_vars
  PROVE  TypeOK'
  <1>1. CASE UNCHANGED vars
    BY <1>1 DEF TypeOK, vars, sessionVars, taskVars, channelVars, sinkVars
  <1> QED
    BY <1>1, HandshakeType, CastType, TeardownType, FeedType, ChannelDownType,
       DispatchType, KeepaliveType, SinkType DEF Next, Terminated

(* Type correctness: no step of the source, the sink or the connection     *)
(* leaves a variable outside its type.                                     *)
THEOREM TypeCorrect == Spec => []TypeOK
  <1>1. Init => TypeOK
    <2>1. NoCall \in Calls
      BY DEF NoCall, Calls
    <2>2. [t \in Tasks |-> NoCall] \in [Tasks -> Calls]
      BY <2>1
    <2>3. <<>> \in Seq(Messages) /\ <<>> \in Seq([cseq : Nat, kind : Kinds])
      OBVIOUS
    <2>4. /\ [t \in Keepalives |-> "unborn"] \in
               [Keepalives -> {"unborn", "sleep", "wait", "cancelled", "done"}]
          /\ [m \in SinkMethods |-> 0] \in [SinkMethods -> Nat]
      OBVIOUS
    <2> SUFFICES ASSUME Init PROVE TypeOK
      OBVIOUS
    <2>5. call \in [Tasks -> Calls]
      BY <2>2 DEF Init
    <2>6. /\ ka \in [Keepalives -> {"unborn", "sleep", "wait", "cancelled", "done"}]
          /\ sent \in [SinkMethods -> Nat] /\ replied \in [SinkMethods -> Nat]
      BY <2>4 DEF Init
    <2>7. /\ wire \in Seq(Messages) /\ inbox \in Seq(Messages)
          /\ asked \in Seq([cseq : Nat, kind : Kinds])
      BY <2>3 DEF Init
    <2> QED
      BY <2>5, <2>6, <2>7 DEF Init, TypeOK, SessionState
  <1>2. TypeOK /\ [Next]_vars => TypeOK'
    BY TypeStep
  <1> QED
    BY <1>1, <1>2, PTL DEF Spec

-----------------------------------------------------------------------------
(* The channel gone for good.  ChannelInv is inductive given the types.    *)

LEMMA SettleAnswers ==
  ASSUME TypeOK, NEW ts, Settle(ts), ~Answered(Main)
  PROVE  ~Answered(Main)'
  BY TasksType DEF TypeOK, Settle, Answered, NoCall

LEMMA GotoChannel ==
  ASSUME ChannelInv, NEW from,
         NEW to \in {"unwind", "returned"}, Goto(from, to)
  PROVE  ChannelInv'
  BY DEF ChannelInv, Goto, LoopIdle, Busy, HandshakeAwaits, sessionVars,
         channelVars, sinkVars

LEMMA HandshakeSendChannel ==
  ASSUME ChannelInv,
         NEW from \in {"accepted", "m1done", "m3done", "m4done"},
         NEW to \in {"m1", "m3", "m4", "m5"}, NEW s, NEW kind,
         HandshakeSend(from, to, s, kind)
  PROVE  ChannelInv'
  <1>1. recv = "running" /\ inbox = <<>> /\ inbox' = inbox
    BY DEF ChannelInv, HandshakeSend, Busy
  <1> QED
    BY <1>1 DEF ChannelInv, HandshakeSend, Busy, HandshakeAwaits

LEMMA HandshakeAnsweredChannel ==
  ASSUME ChannelInv, NEW at \in {"m1", "m3", "m4", "m5"},
         NEW next \in {"m1done", "m3done", "m4done", "poll"}, NEW s,
         HandshakeAnswered(at, next, s)
  PROVE  ChannelInv'
  <1>1. recv = "running" /\ recv' = recv
    BY DEF ChannelInv, HandshakeAnswered, HandshakeAwaits
  <1>2. inbox = <<>> /\ inbox' = inbox /\ pc' = next
    BY DEF HandshakeAnswered, Resume, LoopIdle
  <1> QED
    BY <1>1, <1>2 DEF ChannelInv, Busy, HandshakeAwaits

(* The main task leaves an await: nothing is left to answer. *)
LEMMA ResumeChannel ==
  ASSUME ChannelInv, NEW to \in {"unwind", "poll", "closing"}, Resume(to),
         state' = state, recv' = recv \/ (recv = "running" /\ recv' = "cancelled")
  PROVE  ChannelInv'
  BY DEF ChannelInv, Resume, LoopIdle, Busy, HandshakeAwaits

LEMMA HandshakeChannel ==
  ASSUME ChannelInv, Handshake
  PROVE  ChannelInv'
  <1>1. CASE Accept
    BY <1>1 DEF ChannelInv, Accept, Busy, HandshakeAwaits
  <1>2. CASE AcceptTimeout
    BY <1>2, GotoChannel DEF AcceptTimeout
  <1>3. CASE SendM1 \/ SendM3 \/ SendM4 \/ SendM5
    BY <1>3, HandshakeSendChannel DEF SendM1, SendM3, SendM4, SendM5
  <1>4. CASE M1Answered \/ M3Answered \/ M4Answered \/ M5Answered
    BY <1>4, HandshakeAnsweredChannel
       DEF M1Answered, M3Answered, M4Answered, M5Answered
  <1>5. CASE HandshakeTimeout
    BY <1>5, ResumeChannel DEF HandshakeTimeout, CancelRecv
  <1> QED
    BY <1>1, <1>2, <1>3, <1>4, <1>5 DEF Handshake

LEMMA CastChannel ==
  ASSUME ChannelInv,
         StartCast \/ EnableUibc \/ UibcSettled \/ SessionEnded
           \/ PipelineDied \/ Interrupt \/ Terminate
  PROVE  ChannelInv'
  <1>1. CASE StartCast
    BY <1>1 DEF ChannelInv, StartCast, LoopIdle, Busy, HandshakeAwaits,
                sessionVars, channelVars
  <1>2. CASE EnableUibc
    BY <1>2 DEF ChannelInv, EnableUibc, LoopIdle, Busy, HandshakeAwaits
  <1>3. CASE UibcSettled
    BY <1>3, ResumeChannel DEF UibcSettled
  <1>4. CASE SessionEnded \/ PipelineDied
    BY <1>4, GotoChannel DEF SessionEnded, PipelineDied
  <1>5. CASE Interrupt
    BY <1>5, ResumeChannel DEF Interrupt
  <1>6. CASE Terminate
    BY <1>6, ResumeChannel DEF Terminate, CancelRecv
  <1> QED
    BY <1>1, <1>2, <1>3, <1>4, <1>5, <1>6

LEMMA TeardownChannel ==
  ASSUME ChannelInv, Teardown
  PROVE  ChannelInv'
  <1>1. CASE AlreadyTornDown \/ WaitClosed
    BY <1>1, GotoChannel DEF AlreadyTornDown, WaitClosed
  <1>2. CASE BeginTeardown
    BY <1>2 DEF ChannelInv, BeginTeardown, LoopIdle, Busy, HandshakeAwaits
  <1>3. CASE TriggerSettled
    BY <1>3, ResumeChannel DEF TriggerSettled
  <1>4. CASE Exit
    BY <1>4 DEF ChannelInv, Exit, CancelRecv, LoopIdle, Busy, HandshakeAwaits
  <1> QED
    BY <1>1, <1>2, <1>3, <1>4 DEF Teardown

(* The receive loop: a chunk is read or dispatched only while it runs, and *)
(* it ends only with nothing woken.                                        *)
LEMMA LoopChannel ==
  ASSUME TypeOK, ChannelInv, LoopStep
  PROVE  ChannelInv'
  <1>1. CASE Feed
    BY <1>1 DEF ChannelInv, Feed, LoopIdle, Busy, HandshakeAwaits,
                sessionVars, taskVars
  <1>2. CASE ChannelDown
    <2>1. inbox = <<>> /\ inbox' = inbox /\ ~Busy /\ pc' = pc
      BY <1>2 DEF ChannelDown, LoopIdle, channelVars
    <2>2. ~Answered(Main) /\ call' = call
      BY <1>2, TasksType DEF ChannelDown, Woken
    <2>3. recv' = "ended" /\ state' = "TEARDOWN"
      BY <1>2 DEF ChannelDown
    <2>4. pc # "listen"
      BY <1>2 DEF ChannelDown, ChannelInv
    <2> QED
      BY <2>1, <2>2, <2>3, <2>4
         DEF ChannelInv, Busy, HandshakeAwaits, Answered
  <1>3. CASE Dispatch
    <2>1. inbox # <<>>
      BY <1>3 DEF Dispatch, HandleResponse, HandleOptions, HandleOther,
                  HandleSetup, HandlePlay, HandleTeardown, Reply, ReplyFails
    <2>2. recv = "running" /\ ~Busy
      BY <2>1 DEF ChannelInv
    <2>3. recv' = recv /\ pc' = pc
      BY <1>3 DEF Dispatch, HandleResponse, HandleOptions, HandleOther,
                  HandleSetup, HandlePlay, HandleTeardown, Reply, ReplyFails,
                  taskVars
    <2> QED
      BY <2>2, <2>3 DEF ChannelInv, Busy, HandshakeAwaits
  <1> QED
    BY <1>1, <1>2, <1>3 DEF LoopStep

LEMMA KeepaliveChannel ==
  ASSUME TypeOK, ChannelInv, NEW t \in Keepalives, Keepalive(t)
  PROVE  ChannelInv'
  <1>1. inbox' = inbox /\ pc' = pc /\ recv' = recv /\ state' = state
    BY DEF Keepalive, KaWake, KaSettled, KaCancelled, KaEnds, KaLeaves,
           channelVars
  <1>2. ASSUME ~Answered(Main) PROVE ~Answered(Main)'
    <2>1. CASE Settle({t})
      BY <1>2, <2>1, SettleAnswers
    <2>2. CASE AskFails(t)
      BY <1>2, <2>2 DEF AskFails, Answered
    <2>3. CASE Ask(t, "KEEPALIVE")
      <3>1. t # Main /\ t \in Tasks
        BY TasksType, MaxRequestsAssumption DEF Keepalives, Main, SinkMethods
      <3> QED
        BY <1>2, <2>3, <3>1, TasksType DEF TypeOK, Ask, Answered
    <2> QED
      BY <2>1, <2>2, <2>3
         DEF Keepalive, KaWake, KaSettled, KaCancelled, KaEnds, KaLeaves
  <1> QED
    BY <1>1, <1>2 DEF ChannelInv, Busy, HandshakeAwaits

LEMMA SinkChannel ==
  ASSUME ChannelInv, Sink
  PROVE  ChannelInv'
  <1>1. UNCHANGED <<sessionVars, taskVars, inbox>>
    BY DEF Sink, SinkAnswer, SinkRequest, SinkClose
  <1> QED
    BY <1>1 DEF ChannelInv, Busy, HandshakeAwaits, Answered, sessionVars,
                taskVars

LEMMA ChannelStep ==
  ASSUME TypeOK, ChannelInv, [Next]_vars
  PROVE  ChannelInv'
  <1>1. CASE UNCHANGED vars
    BY <1>1 DEF ChannelInv, Busy, HandshakeAwaits, Answered, vars,
                sessionVars, taskVars, channelVars
  <1> QED
    BY <1>1, HandshakeChannel, CastChannel, TeardownChannel, LoopChannel,
       KeepaliveChannel, SinkChannel DEF Next, Terminated, LoopStep

(* The inductive invariant behind ChannelGoneIsFinal. *)
THEOREM ChannelCorrect == Spec => []ChannelInv
  <1>1. Init => ChannelInv
    BY DEF Init, ChannelInv, Busy, HandshakeAwaits
  <1>2. TypeOK /\ ChannelInv /\ [Next]_vars => ChannelInv'
    BY ChannelStep
  <1> QED
    BY <1>1, <1>2, TypeCorrect, PTL DEF Spec

(* Once the receive loop has seen the control channel go, no task, woken   *)
(* late or timing out, takes the session out of TEARDOWN again.            *)
THEOREM ChannelGone == Spec => []ChannelGoneIsFinal
  <1>1. ChannelInv => ChannelGoneIsFinal
    BY DEF ChannelInv, ChannelGoneIsFinal
  <1> QED
    BY <1>1, ChannelCorrect, PTL

-----------------------------------------------------------------------------
(* What the sink has sent and nobody has handled yet: the chunk being      *)
(* dispatched and the bytes behind it, as one sequence.  A step of the     *)
(* program drops its end or handles its head, a step of the sink adds to   *)
(* it.                                                                     *)

Stream == inbox \o wire
Req(m) == [type |-> "req", method |-> m]

Kept == /\ Len(Stream') \in 0..Len(Stream)
        /\ \A i \in 1..Len(Stream') : Stream'[i] = Stream[i]
Handled == /\ inbox # <<>> /\ Len(Stream) \in Nat \ {0}
           /\ Stream[1] = Head(inbox)
           /\ Len(Stream') = Len(Stream) - 1
           /\ \A i \in 1..Len(Stream') : Stream'[i] = Stream[i + 1]
Added(msg) == /\ msg \in Messages
              /\ Len(Stream') = Len(Stream) + 1
              /\ Stream'[Len(Stream) + 1] = msg
              /\ \A i \in 1..Len(Stream) : Stream'[i] = Stream[i]

LEMMA JoinProperties ==
  ASSUME NEW p \in Seq(Messages), NEW q \in Seq(Messages)
  PROVE  /\ p \o q \in Seq(Messages) /\ Len(p \o q) \in Nat
         /\ Len(p) \in Nat /\ Len(q) \in Nat /\ Len(p \o q) = Len(p) + Len(q)
         /\ \A i \in 1..Len(p \o q) : (p \o q)[i] \in Messages
         /\ \A i \in 1..Len(p) : i \in 1..Len(p \o q) /\ (p \o q)[i] = p[i]
         /\ \A i \in 1..Len(q) : (p \o q)[Len(p) + i] = q[i]
  <1>1. /\ p \o q \in Seq(Messages)
        /\ Len(p \o q) = Len(p) + Len(q)
        /\ \A i \in 1..Len(p) + Len(q) :
              (p \o q)[i] = IF i <= Len(p) THEN p[i] ELSE q[i - Len(p)]
    BY ConcatProperties
  <1>2. Len(p) \in Nat /\ Len(q) \in Nat
    OBVIOUS
  <1>3. \A i \in 1..Len(p \o q) : (p \o q)[i] \in Messages
    BY <1>1, ElementOfSeq
  <1>4. ASSUME NEW i \in 1..Len(q) PROVE (p \o q)[Len(p) + i] = q[i]
    <2>1. Len(p) + i \in 1..Len(p) + Len(q) /\ ~(Len(p) + i <= Len(p))
      BY <1>2
    <2>2. (p \o q)[Len(p) + i] = q[(Len(p) + i) - Len(p)]
      BY <1>1, <2>1
    <2>3. (Len(p) + i) - Len(p) = i
      BY <1>2
    <2> QED
      BY <2>2, <2>3
  <1> QED
    BY <1>1, <1>2, <1>3, <1>4

LEMMA StreamType ==
  ASSUME TypeOK
  PROVE  /\ Stream \in Seq(Messages) /\ Len(Stream) \in Nat
         /\ \A i \in 1..Len(Stream) : Stream[i] \in Messages
         /\ \A i \in 1..Len(inbox) : i \in 1..Len(Stream) /\ Stream[i] = inbox[i]
  BY JoinProperties DEF TypeOK, Stream

(* Reading a chunk moves no message. *)
LEMMA FeedKeeps ==
  ASSUME TypeOK, Feed
  PROVE  Kept /\ Stream' = Stream
  <1>1. PICK n \in 1..Len(wire) : /\ inbox' = SubSeq(wire, 1, n)
                                 /\ wire' = SubSeq(wire, n + 1, Len(wire))
    BY DEF Feed
  <1>2. wire \in Seq(Messages) /\ Len(wire) \in Nat /\ inbox = <<>>
    BY DEF TypeOK, Feed, LoopIdle
  <1>3. SubSeq(wire, 1, n) \o SubSeq(wire, n + 1, Len(wire)) = SubSeq(wire, 1, Len(wire))
    BY <1>2, ConcatAdjacentSubSeq
  <1>4. SubSeq(wire, 1, Len(wire)) = wire
    BY <1>2, SubSeqFull
  <1>5. Stream' = wire
    BY <1>1, <1>3, <1>4 DEF Stream
  <1>6. Stream = wire
    BY <1>2, ConcatEmptySeq DEF Stream
  <1> QED
    BY <1>2, <1>5, <1>6 DEF Kept

LEMMA HeadHandled ==
  ASSUME TypeOK, TypeOK', inbox # <<>>, inbox' = Tail(inbox), wire' = wire
  PROVE  Handled
  <1>0. /\ inbox \in Seq(Messages) /\ inbox' \in Seq(Messages)
        /\ wire \in Seq(Messages) /\ wire' \in Seq(Messages)
    BY DEF TypeOK
  <1>1. /\ Len(inbox) \in Nat \ {0} /\ Head(inbox) = inbox[1]
        /\ Len(inbox') = Len(inbox) - 1
        /\ \A i \in 1..Len(inbox') : inbox'[i] = inbox[i + 1]
    BY <1>0, HeadTailProperties
  <1>2. /\ Len(wire) \in Nat /\ Len(Stream) = Len(inbox) + Len(wire)
        /\ Len(Stream') = Len(inbox') + Len(wire)
    BY <1>0, JoinProperties DEF Stream
  <1>3. Stream[1] = Head(inbox)
    BY <1>0, <1>1, JoinProperties DEF Stream
  <1>4. ASSUME NEW i \in 1..Len(Stream')
        PROVE  Stream'[i] = Stream[i + 1]
    <2>1. CASE i <= Len(inbox')
      <3>1. i \in 1..Len(inbox') /\ i + 1 \in 1..Len(inbox)
        BY <1>1, <1>2, <2>1
      <3>2. Stream'[i] = inbox'[i] /\ Stream[i + 1] = inbox[i + 1]
        BY <1>0, <3>1, JoinProperties DEF Stream
      <3> QED
        BY <1>1, <3>1, <3>2
    <2>2. CASE i > Len(inbox')
      <3>1. /\ i - Len(inbox') \in 1..Len(wire) /\ i = Len(inbox') + (i - Len(inbox'))
            /\ i + 1 = Len(inbox) + (i - Len(inbox'))
        BY <1>1, <1>2, <2>2
      <3>2. (inbox' \o wire')[Len(inbox') + (i - Len(inbox'))] = wire'[i - Len(inbox')]
        BY <1>0, <3>1, JoinProperties
      <3>3. (inbox \o wire)[Len(inbox) + (i - Len(inbox'))] = wire[i - Len(inbox')]
        BY <1>0, <3>1, JoinProperties
      <3> QED
        BY <3>1, <3>2, <3>3 DEF Stream
    <2> QED
      BY <1>1, <1>2, <2>1, <2>2
  <1> QED
    BY <1>1, <1>2, <1>3, <1>4 DEF Handled

LEMMA TailAdded ==
  ASSUME TypeOK, TypeOK', NEW msg \in Messages,
         inbox' = inbox, wire' = Append(wire, msg)
  PROVE  Added(msg)
  <1>1. inbox \in Seq(Messages) /\ wire \in Seq(Messages)
    BY DEF TypeOK
  <1>2. Stream' = Append(Stream, msg)
    <2>1. Append(wire, msg) = wire \o <<msg>>
      BY <1>1, AppendIsConcat
    <2>2. <<msg>> \in Seq(Messages)
      OBVIOUS
    <2>3. (inbox \o wire) \o <<msg>> = inbox \o (wire \o <<msg>>)
      BY <1>1, <2>2, ConcatAssociative
    <2>4. Append(Stream, msg) = Stream \o <<msg>>
      BY StreamType, AppendIsConcat
    <2> QED
      BY <2>1, <2>3, <2>4 DEF Stream
  <1> QED
    BY <1>2, StreamType, AppendProperties DEF Added

LEMMA RestDropped ==
  ASSUME TypeOK, inbox' = inbox \/ inbox' = <<>>, wire' = <<>>
  PROVE  Kept
  <1>0. <<>> \in Seq(Messages)
    OBVIOUS
  <1>1. inbox \in Seq(Messages) /\ wire \in Seq(Messages) /\ inbox' \in Seq(Messages)
    BY <1>0 DEF TypeOK
  <1>2. Stream' = inbox'
    BY <1>1, ConcatEmptySeq DEF Stream
  <1>3. Len(inbox') \in 0..Len(inbox) /\ \A i \in 1..Len(inbox') : inbox'[i] = inbox[i]
    BY <1>1
  <1>4. Len(inbox) <= Len(Stream)
    BY <1>1, JoinProperties DEF Stream
  <1> QED
    BY <1>1, <1>2, <1>3, <1>4, StreamType DEF Kept

LEMMA NothingMoved ==
  ASSUME TypeOK, UNCHANGED <<inbox, wire>>
  PROVE  Kept
  BY StreamType DEF Kept, Stream

-----------------------------------------------------------------------------
(* The sink has asked for m and nobody has seen it yet.                    *)
Requested(m) == \E i \in 1..Len(Stream) : Stream[i] = Req(m)

(* The sink's side of the protocol: it asks for a SETUP when triggered and *)
(* for a PLAY when set up, waits for the answer of either, and sends       *)
(* nothing behind its TEARDOWN.  So there is a keepalive task for each     *)
(* PLAY, and one to spare for the PLAY that is under way.                  *)
SetupsInv ==
    /\ Requested("SETUP") => sent["SETUP"] > 0
    /\ ~triggered => sent["SETUP"] = 0
    /\ sent["SETUP"] = 0 => replied["SETUP"] = 0
    /\ replied["SETUP"] = 0 => sent["PLAY"] = 0
PlaysInv ==
    /\ kaCur <= sent["PLAY"] /\ sent["PLAY"] <= MaxRequests["PLAY"]
    /\ Requested("PLAY") => /\ kaCur < sent["PLAY"]
                            /\ conn = "open" => replied["PLAY"] < sent["PLAY"]
    /\ \A i, j \in 1..Len(Stream) :
          Stream[i] = Req("PLAY") /\ Stream[j] = Req("PLAY") => i = j
    /\ state = "STREAMING" => kaCur > 0
TeardownsInv ==
    /\ Requested("TEARDOWN") => sent["TEARDOWN"] > 0
    /\ \A i, j \in 1..Len(Stream) :
          Stream[i] = Req("TEARDOWN") /\ i < j => Stream[j].type = "resp"
StreamInv ==
    /\ conn = "none" => wire = <<>>
    /\ SetupsInv /\ PlaysInv /\ TeardownsInv

(* What the steps of the program that handle no message have in common.    *)
Undisturbed ==
    /\ Kept
    /\ UNCHANGED <<kaCur, triggered, sent, replied>>
    /\ conn' = "none" => conn = "none"
    /\ conn = "none" => wire' = <<>>
    /\ conn' = "open" => conn = "open" \/ Len(Stream) = 0
    /\ state' = "STREAMING" => state = "STREAMING"

ProgramStep ==
    \/ Handshake
    \/ StartCast \/ EnableUibc \/ UibcSettled \/ SessionEnded \/ PipelineDied
    \/ Interrupt \/ Terminate
    \/ Teardown
    \/ Feed \/ ChannelDown \/ ReplyFails
    \/ \E t \in Keepalives : Keepalive(t)

LEMMA AskKeeps ==
  ASSUME TypeOK, NEW t, NEW kind, Ask(t, kind) \/ AskFails(t), inbox' = inbox
  PROVE  /\ Kept
         /\ conn' = "none" => conn = "none"
         /\ conn = "none" => wire' = <<>>
         /\ conn' = "open" => conn = "open"
  BY RestDropped, NothingMoved DEF Ask, AskFails

LEMMA HandshakeUndisturbed ==
  ASSUME TypeOK, ChannelInv, conn = "none" => wire = <<>>, Handshake
  PROVE  Undisturbed
  <1>1. CASE Accept
    <2>1. Kept
      BY <1>1, NothingMoved DEF Accept
    <2>2. inbox = <<>> /\ wire = <<>>
      BY <1>1 DEF Accept, ChannelInv
    <2>3. Len(Stream) = 0
      BY <2>2, JoinProperties DEF Stream, TypeOK
    <2> QED
      BY <1>1, <2>1, <2>2, <2>3 DEF Accept, Undisturbed, sinkVars
  <1>2. CASE AcceptTimeout
    BY <1>2, NothingMoved
    DEF AcceptTimeout, Goto, Undisturbed, sessionVars, channelVars, sinkVars
  <1>3. ASSUME NEW from, NEW to, NEW s \in SessionState \ {"STREAMING"}, NEW kind,
               HandshakeSend(from, to, s, kind)
        PROVE  Undisturbed
    <2>1. /\ Ask(Main, kind) \/ AskFails(Main)
          /\ inbox' = inbox /\ UNCHANGED <<kaCur, triggered, sent, replied>>
          /\ state' # "STREAMING"
      BY <1>3 DEF HandshakeSend
    <2> QED
      BY <2>1, AskKeeps DEF Undisturbed
  <1>4. CASE SendM1 \/ SendM3 \/ SendM4 \/ SendM5
    BY <1>3, <1>4 DEF SendM1, SendM3, SendM4, SendM5, SessionState
  <1>5. CASE M1Answered \/ M3Answered \/ M4Answered \/ M5Answered \/ HandshakeTimeout
    <2>1. UNCHANGED <<inbox, wire, conn, kaCur, triggered, sent, replied>>
      BY <1>5
      DEF M1Answered, M3Answered, M4Answered, M5Answered, HandshakeTimeout,
          HandshakeAnswered, Resume, sinkVars
    <2>2. state' = "STREAMING" => state = "STREAMING"
      BY <1>5
      DEF M1Answered, M3Answered, M4Answered, M5Answered, HandshakeTimeout,
          HandshakeAnswered
    <2> QED
      BY <2>1, <2>2, NothingMoved DEF Undisturbed
  <1> QED
    BY <1>1, <1>2, <1>4, <1>5 DEF Handshake

LEMMA ProgramUndisturbed ==
  ASSUME TypeOK, ChannelInv, conn = "none" => wire = <<>>, ProgramStep
  PROVE  Undisturbed
  <1>1. CASE Handshake
    BY <1>1, HandshakeUndisturbed
  <1>2. CASE \/ StartCast \/ UibcSettled \/ SessionEnded \/ PipelineDied
             \/ Interrupt \/ Terminate \/ AlreadyTornDown \/ WaitClosed
    <2>1. UNCHANGED <<inbox, wire, conn, kaCur, triggered, sent, replied, state>>
      BY <1>2
      DEF StartCast, UibcSettled, SessionEnded, PipelineDied, Interrupt, Terminate,
          AlreadyTornDown, WaitClosed, Goto, Resume, sessionVars, channelVars, sinkVars
    <2> QED
      BY <2>1, NothingMoved DEF Undisturbed
  <1>3. CASE EnableUibc
    <2>1. \/ Ask(Main, "M14")
          \/ AskFails(Main)
      BY <1>3 DEF EnableUibc
    <2>2. UNCHANGED <<inbox, kaCur, triggered, sent, replied, state>>
      BY <1>3 DEF EnableUibc
    <2> QED
      BY <2>1, <2>2, AskKeeps DEF Undisturbed
  <1>4. CASE BeginTeardown
    <2>1. \/ Ask(Main, "TRIGGER")
          \/ AskFails(Main)
      BY <1>4 DEF BeginTeardown
    <2>2. UNCHANGED <<inbox, kaCur, triggered, sent, replied>> /\ state' = "TEARDOWN"
      BY <1>4 DEF BeginTeardown
    <2> QED
      BY <2>1, <2>2, AskKeeps DEF Undisturbed
  <1>5. CASE TriggerSettled \/ Exit
    <2>1. /\ UNCHANGED <<inbox, kaCur, triggered, sent, replied, state>>
          /\ wire' = <<>> /\ conn' # "open" /\ (conn' = "none" => conn = "none")
      BY <1>5 DEF TriggerSettled, Exit, Resume, sinkVars
    <2> QED
      BY <2>1, RestDropped DEF Undisturbed
  <1>6. CASE Feed
    <2>1. UNCHANGED <<conn, kaCur, triggered, sent, replied, state>>
      BY <1>6 DEF Feed, sessionVars, taskVars, sinkVars
    <2>2. conn = "none" => FALSE
      BY <1>6 DEF Feed
    <2> QED
      BY <1>6, <2>1, <2>2, FeedKeeps DEF Undisturbed
  <1>7. CASE ChannelDown
    <2>1. /\ UNCHANGED <<inbox, wire, conn, kaCur, triggered, sent, replied>>
          /\ state' = "TEARDOWN"
      BY <1>7 DEF ChannelDown, channelVars, sinkVars
    <2> QED
      BY <2>1, NothingMoved DEF Undisturbed
  <1>8. CASE ReplyFails
    <2>1. /\ inbox' = <<>> /\ wire' = <<>> /\ conn' = "lost"
          /\ UNCHANGED <<kaCur, triggered, sent, replied, state>>
      BY <1>8 DEF ReplyFails, sessionVars, taskVars, sinkVars
    <2> QED
      BY <2>1, RestDropped DEF Undisturbed
  <1>9. ASSUME NEW t \in Keepalives, Keepalive(t)
        PROVE  Undisturbed
    <2>1. CASE KaWake(t)
      <3>1. /\ Ask(t, "KEEPALIVE") \/ AskFails(t)
            /\ UNCHANGED <<inbox, kaCur, triggered, sent, replied, state>>
        BY <2>1 DEF KaWake
      <3> QED
        BY <3>1, AskKeeps DEF Undisturbed
    <2>2. CASE KaSettled(t) \/ KaCancelled(t) \/ KaEnds(t)
      <3>1. UNCHANGED <<inbox, wire, conn, kaCur, triggered, sent, replied, state>>
        BY <2>2 DEF KaSettled, KaCancelled, KaEnds, KaLeaves, channelVars, sinkVars
      <3> QED
        BY <3>1, NothingMoved DEF Undisturbed
    <2> QED
      BY <1>9, <2>1, <2>2 DEF Keepalive
  <1> QED
    BY <1>1, <1>2, <1>3, <1>4, <1>5, <1>6, <1>7, <1>8, <1>9 DEF ProgramStep, Teardown

(* A step that only drops messages keeps what is said of them.             *)
LEMMA StreamUndisturbed ==
  ASSUME TypeOK, TypeOK', StreamInv, Undisturbed
  PROVE  StreamInv'
  <1>1. \A m : Requested(m)' => Requested(m)
    BY StreamType DEF Undisturbed, Kept, Requested
  <1>2. /\ Len(Stream') \in 0..Len(Stream) /\ Len(Stream) \in Nat
        /\ \A i \in 1..Len(Stream') : i \in 1..Len(Stream) /\ Stream'[i] = Stream[i]
    BY StreamType DEF Undisturbed, Kept
  <1>3. Len(Stream) = 0 => ~Requested("PLAY")
    BY DEF Requested
  <1>4. SetupsInv'
    BY <1>1 DEF StreamInv, SetupsInv, Undisturbed
  <1>5. PlaysInv'
    BY <1>1, <1>2, <1>3 DEF StreamInv, PlaysInv, Undisturbed
  <1>6. TeardownsInv'
    BY <1>1, <1>2 DEF StreamInv, TeardownsInv, Undisturbed
  <1> QED
    BY <1>4, <1>5, <1>6 DEF StreamInv, Undisturbed

-----------------------------------------------------------------------------
(* A handler handles a message of the sink.                                *)
Handling ==
    \/ HandleResponse \/ HandleOptions \/ HandleOther \/ HandleSetup
    \/ HandlePlay \/ HandleTeardown

LEMMA NextParts ==
  Next => ProgramStep \/ Handling \/ Sink \/ Terminated
  BY DEF Next, ProgramStep, Handling, Dispatch

LEMMA HandlingHandled ==
  ASSUME TypeOK, TypeOK', Handling
  PROVE  /\ Handled /\ wire' = wire
         /\ UNCHANGED <<conn, triggered, sent, recv, pc>>
  <1>1. /\ inbox # <<>> /\ inbox' = Tail(inbox) /\ wire' = wire
        /\ UNCHANGED <<conn, triggered, sent, recv, pc>>
    BY DEF Handling, HandleResponse, HandleOptions, HandleOther, HandleSetup,
           HandlePlay, HandleTeardown, Reply, taskVars, sinkVars
  <1> QED
    BY <1>1, HeadHandled

(* Which message each handler handles, and what it counts.                 *)
LEMMA HandlingCounts ==
  ASSUME TypeOK, Handling
  PROVE  /\ replied' = replied \/ \E m \in SinkMethods :
                Head(inbox) = Req(m) /\ replied' = [replied EXCEPT ![m] = @ + 1]
         /\ kaCur' = kaCur \/ (Head(inbox) = Req("PLAY") /\ kaCur' = kaCur + 1)
         /\ state' = "STREAMING" => state = "STREAMING" \/ kaCur' = kaCur + 1
  BY DEF Handling, HandleResponse, HandleOptions, HandleOther, HandleSetup,
         HandlePlay, HandleTeardown, Reply, Req, SinkMethods, taskVars, sinkVars

LEMMA HandlingReplies ==
  ASSUME TypeOK, Handling, NEW k \in SinkMethods
  PROVE  \/ replied'[k] = replied[k]
         \/ Head(inbox) = Req(k) /\ replied'[k] = replied[k] + 1
  <1>1. replied \in [SinkMethods -> Nat]
    BY DEF TypeOK
  <1>2. CASE replied' = replied
    BY <1>2
  <1>3. ASSUME NEW m \in SinkMethods, Head(inbox) = Req(m),
               replied' = [replied EXCEPT ![m] = @ + 1]
        PROVE  \/ replied'[k] = replied[k]
               \/ Head(inbox) = Req(k) /\ replied'[k] = replied[k] + 1
    BY <1>1, <1>3
  <1> QED
    BY <1>2, <1>3, HandlingCounts

LEMMA StreamHandled ==
  ASSUME TypeOK, TypeOK', StreamInv, Handling
  PROVE  StreamInv'
  <1>0. /\ Len(Stream) \in Nat \ {0} /\ Len(Stream') = Len(Stream) - 1
        /\ Stream[1] = Head(inbox)
        /\ \A i \in 1..Len(Stream') : i + 1 \in 1..Len(Stream) /\ Stream'[i] = Stream[i + 1]
    <2>1. Handled
      BY HandlingHandled
    <2> QED
      BY <2>1 DEF Handled
  <1>1. \A m : Requested(m)' => Requested(m)
    BY <1>0 DEF Requested
  <1>2. /\ 1 \in 1..Len(Stream)
        /\ \A m : Head(inbox) = Req(m) => Requested(m)
    BY <1>0 DEF Requested
  <1>3. UNCHANGED <<conn, wire, triggered, sent>>
    BY HandlingHandled
  <1>4. SetupsInv'
    <2>1. "SETUP" \in SinkMethods /\ replied["SETUP"] \in Nat
      BY DEF SinkMethods, TypeOK
    <2>2. replied'["SETUP"] = 0 => replied["SETUP"] = 0
      BY <2>1, HandlingReplies
    <2>3. sent["SETUP"] = 0 => replied'["SETUP"] = replied["SETUP"]
      BY <1>2, <2>1, HandlingReplies DEF StreamInv, SetupsInv
    <2> QED
      BY <1>1, <1>3, <2>2, <2>3 DEF StreamInv, SetupsInv
  <1>5. PlaysInv'
    <2>1. CASE Head(inbox) = Req("PLAY")
      <3>1. ~Requested("PLAY")'
        <4>1. ASSUME NEW i \in 1..Len(Stream'), Stream'[i] = Req("PLAY") PROVE FALSE
          <5>1. i + 1 \in 1..Len(Stream) /\ Stream[i + 1] = Req("PLAY") /\ i + 1 # 1
            BY <1>0, <4>1
          <5> QED
            BY <1>0, <1>2, <2>1, <5>1 DEF StreamInv, PlaysInv
        <4> QED
          BY <4>1 DEF Requested
      <3>2. kaCur' <= sent["PLAY"] /\ kaCur < sent["PLAY"]
        <4>1. kaCur \in Nat /\ sent["PLAY"] \in Nat
          BY DEF TypeOK, SinkMethods
        <4>2. kaCur < sent["PLAY"] /\ (kaCur' = kaCur \/ kaCur' = kaCur + 1)
          BY <1>2, <2>1, HandlingCounts DEF StreamInv, PlaysInv
        <4> QED
          BY <4>1, <4>2
      <3>3. state' = "STREAMING" => kaCur' > 0
        BY HandlingCounts DEF StreamInv, PlaysInv, TypeOK
      <3>4. \A i, j \in 1..Len(Stream') :
              Stream'[i] = Req("PLAY") /\ Stream'[j] = Req("PLAY") => i = j
        BY <3>1 DEF Requested
      <3> QED
        BY <1>3, <3>1, <3>2, <3>3, <3>4 DEF StreamInv, PlaysInv
    <2>2. CASE Head(inbox) # Req("PLAY")
      <3>1. kaCur' = kaCur /\ (state' = "STREAMING" => state = "STREAMING")
        BY <2>2, HandlingCounts DEF TypeOK
      <3>2. replied'["PLAY"] = replied["PLAY"]
        BY <2>2, HandlingReplies DEF SinkMethods
      <3>3. \A i, j \in 1..Len(Stream') :
              Stream'[i] = Req("PLAY") /\ Stream'[j] = Req("PLAY") => i = j
        <4> SUFFICES ASSUME NEW i \in 1..Len(Stream'), NEW j \in 1..Len(Stream'),
                            Stream'[i] = Req("PLAY"), Stream'[j] = Req("PLAY")
                     PROVE  i = j
          OBVIOUS
        <4>1. i + 1 = j + 1
          BY <1>0 DEF StreamInv, PlaysInv
        <4> QED
          BY <4>1
      <3> QED
        BY <1>1, <1>3, <3>1, <3>2, <3>3 DEF StreamInv, PlaysInv
    <2> QED
      BY <2>1, <2>2
  <1>6. TeardownsInv'
    <2>1. ASSUME NEW i \in 1..Len(Stream'), NEW j \in 1..Len(Stream'),
                 Stream'[i] = Req("TEARDOWN"), i < j
          PROVE  Stream'[j].type = "resp"
      <3>1. /\ Stream[i + 1] = Req("TEARDOWN") /\ i + 1 < j + 1
            /\ i + 1 \in 1..Len(Stream) /\ j + 1 \in 1..Len(Stream)
        BY <1>0, <2>1
      <3> QED
        BY <1>0, <3>1 DEF StreamInv, TeardownsInv
    <2> QED
      BY <1>1, <1>3, <2>1 DEF StreamInv, TeardownsInv
  <1> QED
    BY <1>3, <1>4, <1>5, <1>6 DEF StreamInv

LEMMA StreamSink ==
  ASSUME TypeOK, TypeOK', StreamInv, Sink
  PROVE  StreamInv'
  <1>0. Len(Stream) \in Nat /\ UNCHANGED <<kaCur, state, replied, inbox>>
    BY StreamType DEF Sink, SinkAnswer, SinkRequest, SinkClose, sessionVars, taskVars
  <1>1. CASE SinkClose
    <2>1. Kept
      BY <1>1, RestDropped, NothingMoved DEF SinkClose
    <2> QED
      BY <1>0, <1>1, <2>1, StreamUndisturbed
      DEF SinkClose, Undisturbed, sessionVars, taskVars
  <1>2. CASE SinkAnswer
    <2>1. PICK msg \in Responses : Added(msg)
      <3>1. Head(asked) \in [cseq : Nat, kind : Kinds]
        <4>1. asked \in Seq([cseq : Nat, kind : Kinds]) /\ asked # <<>>
          BY <1>2 DEF TypeOK, SinkAnswer
        <4> QED
          BY <4>1, HeadTailProperties
      <3>2. /\ [type |-> "resp", cseq |-> Head(asked).cseq, kind |-> Head(asked).kind]
                 \in Responses
            /\ Responses \subseteq Messages
        BY <3>1 DEF Responses, Messages
      <3> QED
        BY <1>2, <3>2, TailAdded DEF SinkAnswer
    <2>2. msg.type = "resp" /\ \A m : msg # Req(m)
      BY <2>1 DEF Responses, Req
    <2>3. \A m : Requested(m)' => Requested(m)
      BY <1>0, <2>1, <2>2 DEF Added, Requested
    <2>4. UNCHANGED <<conn, sent>> /\ (triggered => triggered') /\ conn = "open"
      BY <1>2 DEF SinkAnswer, TypeOK
    <2>5. \A i \in 1..Len(Stream') :
            \/ i \in 1..Len(Stream) /\ Stream'[i] = Stream[i]
            \/ i = Len(Stream) + 1 /\ Stream'[i] = msg
      BY <1>0, <2>1 DEF Added
    <2>6. SetupsInv'
      BY <1>0, <2>3, <2>4 DEF StreamInv, SetupsInv
    <2>7. PlaysInv'
      BY <1>0, <2>2, <2>3, <2>4, <2>5 DEF StreamInv, PlaysInv
    <2>8. TeardownsInv'
      BY <1>0, <2>2, <2>3, <2>4, <2>5 DEF StreamInv, TeardownsInv
    <2> QED
      BY <2>4, <2>6, <2>7, <2>8 DEF StreamInv
  <1>3. ASSUME NEW m \in SinkMethods, SinkRequest(m)
        PROVE  StreamInv'
    <2>1. /\ Added(Req(m)) /\ conn = "open" /\ UNCHANGED <<conn, triggered>>
          /\ sent["TEARDOWN"] = 0 /\ sent[m] < MaxRequests[m]
          /\ sent' = [sent EXCEPT ![m] = @ + 1]
          /\ m = "SETUP" => triggered
          /\ m = "PLAY" => replied["SETUP"] > 0 /\ sent["PLAY"] = replied["PLAY"]
      <3>1. Req(m) \in Messages
        BY DEF Req, Messages, Requests
      <3> QED
        BY <1>3, <3>1, TailAdded DEF SinkRequest, Quiet, Req
    <2>2. \A k : Req(m) = Req(k) <=> m = k
      BY DEF Req
    <2>3. \A i \in 1..Len(Stream') :
            \/ i \in 1..Len(Stream) /\ Stream'[i] = Stream[i]
            \/ i = Len(Stream) + 1 /\ Stream'[i] = Req(m)
      BY <1>0, <2>1 DEF Added
    <2>4. \A k : Requested(k)' => Requested(k) \/ k = m
      BY <2>2, <2>3 DEF Requested
    <2>5. \A k \in SinkMethods : /\ sent[k] \in Nat /\ replied[k] \in Nat
                                 /\ sent'[k] = IF k = m THEN sent[k] + 1 ELSE sent[k]
      BY <2>1 DEF TypeOK
    <2>6. {"SETUP", "PLAY", "TEARDOWN"} \subseteq SinkMethods
      BY DEF SinkMethods
    <2>7. SetupsInv'
      BY <1>0, <2>1, <2>4, <2>5, <2>6 DEF StreamInv, SetupsInv
    <2>8. PlaysInv'
      <3>1. CASE m = "PLAY"
        <4>1. ~Requested("PLAY")
          BY <2>1, <2>6, <2>5, <3>1 DEF StreamInv, PlaysInv
        <4>2. \A i, j \in 1..Len(Stream') :
                Stream'[i] = Req("PLAY") /\ Stream'[j] = Req("PLAY") => i = j
          BY <2>3, <4>1 DEF Requested
        <4>3. kaCur < sent'["PLAY"] /\ sent'["PLAY"] <= MaxRequests["PLAY"]
          <5>1. /\ kaCur \in Nat /\ sent["PLAY"] \in Nat
                /\ MaxRequests["PLAY"] \in Nat
            BY <2>6, MaxRequestsAssumption DEF TypeOK
          <5>2. sent'["PLAY"] = sent["PLAY"] + 1 /\ kaCur' = kaCur
            BY <1>0, <2>5, <2>6, <3>1
          <5>3. kaCur <= sent["PLAY"] /\ sent["PLAY"] < MaxRequests["PLAY"]
            BY <2>1, <3>1 DEF StreamInv, PlaysInv
          <5> QED
            BY <5>1, <5>2, <5>3
        <4> QED
          BY <1>0, <2>1, <2>5, <2>6, <3>1, <4>2, <4>3 DEF StreamInv, PlaysInv, TypeOK
      <3>2. CASE m # "PLAY"
        <4>1. \A i, j \in 1..Len(Stream') :
                Stream'[i] = Req("PLAY") /\ Stream'[j] = Req("PLAY") => i = j
          BY <2>2, <2>3, <3>2 DEF StreamInv, PlaysInv
        <4> QED
          BY <1>0, <2>1, <2>4, <2>5, <2>6, <3>2, <4>1 DEF StreamInv, PlaysInv
      <3> QED
        BY <3>1, <3>2
    <2>9. TeardownsInv'
      <3>1. ~Requested("TEARDOWN")
        BY <2>1 DEF StreamInv, TeardownsInv
      <3>2. ASSUME NEW i \in 1..Len(Stream'), NEW j \in 1..Len(Stream'),
                   Stream'[i] = Req("TEARDOWN"), i < j
            PROVE  FALSE
        <4>1. i = Len(Stream) + 1
          BY <2>3, <3>1, <3>2 DEF Requested
        <4> QED
          BY <1>0, <2>3, <3>2, <4>1
      <3> QED
        BY <2>4, <2>5, <2>6, <3>1, <3>2 DEF TeardownsInv
    <2> QED
      BY <2>1, <2>7, <2>8, <2>9 DEF StreamInv
  <1> QED
    BY <1>1, <1>2, <1>3 DEF Sink

LEMMA StreamStep ==
  ASSUME TypeOK, TypeOK', ChannelInv, StreamInv, [Next]_vars
  PROVE  StreamInv'
  <1>1. CASE UNCHANGED vars
    <2>1. Undisturbed
      BY <1>1, NothingMoved
      DEF Undisturbed, StreamInv, vars, sessionVars, taskVars, channelVars, sinkVars
    <2> QED
      BY <2>1, StreamUndisturbed
  <1>2. CASE ProgramStep
    BY <1>2, ProgramUndisturbed, StreamUndisturbed DEF StreamInv
  <1> QED
    BY <1>1, <1>2, NextParts, StreamHandled, StreamSink DEF Terminated

(* The inductive invariant behind the theorems that follow: however many   *)
(* requests the sink sends, and whatever of them is lost, a PLAY under way *)
(* is the only one, and a keepalive task is left for it.                   *)
THEOREM StreamCorrect == Spec => []StreamInv
  <1>1. Init => StreamInv
    <2> SUFFICES ASSUME Init PROVE StreamInv
      OBVIOUS
    <2>0. <<>> \in Seq(Messages)
      OBVIOUS
    <2>1. Len(Stream) = 0
      BY <2>0, JoinProperties DEF Init, Stream
    <2>2. \A m : ~Requested(m)
      BY <2>1 DEF Requested
    <2>3. MaxRequests["PLAY"] >= 0
      BY MaxRequestsAssumption DEF SinkMethods
    <2> QED
      BY <2>1, <2>2, <2>3 DEF Init, StreamInv, SetupsInv, PlaysInv, TeardownsInv, SinkMethods
  <1>2. TypeOK /\ TypeOK' /\ ChannelInv /\ StreamInv /\ [Next]_vars => StreamInv'
    BY StreamStep
  <1> QED
    BY <1>1, <1>2, TypeCorrect, ChannelCorrect, PTL DEF Spec

-----------------------------------------------------------------------------
(* A number under which the source has asked, and what it asked for: so    *)
(* whoever waits for that number waits for an answer of that kind.         *)
Numbered(number, kind) ==
    /\ number \in 1..cseq
    /\ \A t \in Tasks : call[t].cseq = number => call[t].kind = kind

(* ... and the same of a number after a step.                              *)
StillNumbered(number, kind) ==
    /\ number \in 1..cseq'
    /\ \A t \in Tasks : call'[t].cseq = number => call'[t].kind = kind

(* Behind MatchedAnswers: every question the sink has still to answer, and *)
(* every answer under way, is numbered like the request it belongs to,     *)
(* though the task that made it may long wait for another one.             *)
AnswersInv ==
    /\ \A t \in Tasks : call[t].cseq <= cseq
    /\ \A i \in 1..Len(asked) : Numbered(asked[i].cseq, asked[i].kind)
    /\ \A i \in 1..Len(Stream) :
          Stream[i].type = "resp" => Numbered(Stream[i].cseq, Stream[i].kind)
    /\ MatchedAnswers

Awaits == {"m1", "m3", "m4", "m5", "uibc", "trigger"}

(* Who may be waiting in _request: the main task where its code awaits an  *)
(* answer, and a keepalive task that has asked; tasks are born in the      *)
(* order of their PLAYs.                                                   *)
TasksInv ==
    /\ Waiting(Main) => pc \in Awaits
    /\ \A t \in Keepalives : /\ Waiting(t) => ka[t] \in {"wait", "cancelled"}
                             /\ t > kaCur => ka[t] = "unborn"
    /\ pc = "listen" => kaCur = 0

(* What a step can do to the requests outstanding.                         *)
LEMMA CallSteps ==
  ASSUME TypeOK, [Next]_vars
  PROVE  \/ UNCHANGED <<cseq, call, pending, asked>>
         \/ \E t \in Tasks, kind \in Kinds : Ask(t, kind) /\ (TasksInv => ~Waiting(t))
         \/ \E t \in Tasks : AskFails(t) /\ (TasksInv => pc' # "listen")
         \/ UNCHANGED <<cseq, asked>> /\ \E ts \in SUBSET Tasks : Settle(ts)
         \/ HandleResponse
         \/ SinkAnswer
         \/ SinkClose
  <1>0. Main \in Tasks /\ Keepalives \subseteq Tasks
    BY TasksType
  <1>1. CASE Handshake
    <2>1. CASE Accept \/ AcceptTimeout
      BY <2>1 DEF Accept, AcceptTimeout, Goto, sessionVars, sinkVars
    <2>2. CASE SendM1 \/ SendM3 \/ SendM4 \/ SendM5
      <3>1. TasksInv => ~Waiting(Main)
        BY <2>2 DEF SendM1, SendM3, SendM4, SendM5, HandshakeSend, TasksInv, Awaits
      <3>2. \/ \E kind \in Kinds : Ask(Main, kind)
            \/ AskFails(Main) /\ pc' # "listen"
        BY <2>2 DEF SendM1, SendM3, SendM4, SendM5, HandshakeSend, Kinds
      <3> QED
        BY <1>0, <3>1, <3>2
    <2>3. CASE M1Answered \/ M3Answered \/ M4Answered \/ M5Answered \/ HandshakeTimeout
      <3>1. UNCHANGED <<cseq, asked>> /\ Settle({Main})
        BY <2>3
        DEF M1Answered, M3Answered, M4Answered, M5Answered, HandshakeTimeout,
            HandshakeAnswered, Resume, sinkVars
      <3> QED
        BY <1>0, <3>1
    <2> QED
      BY <1>1, <2>1, <2>2, <2>3 DEF Handshake
  <1>2. CASE StartCast \/ SessionEnded \/ PipelineDied \/ AlreadyTornDown \/ WaitClosed
    BY <1>2
    DEF StartCast, SessionEnded, PipelineDied, AlreadyTornDown, WaitClosed, Goto,
        sessionVars, sinkVars
  <1>3. CASE EnableUibc \/ BeginTeardown
    <2>1. TasksInv => ~Waiting(Main)
      BY <1>3 DEF EnableUibc, BeginTeardown, TasksInv, Awaits
    <2>2. \/ \E kind \in Kinds : Ask(Main, kind)
          \/ AskFails(Main) /\ pc' # "listen"
      BY <1>3 DEF EnableUibc, BeginTeardown, Kinds
    <2> QED
      BY <1>0, <2>1, <2>2
  <1>4. CASE UibcSettled \/ Interrupt \/ Terminate \/ TriggerSettled
    <2>1. UNCHANGED <<cseq, asked>> /\ Settle({Main})
      BY <1>4 DEF UibcSettled, Interrupt, Terminate, TriggerSettled, Resume, sinkVars
    <2> QED
      BY <1>0, <2>1
  <1>5. CASE Exit
    BY <1>5 DEF Exit, sinkVars
  <1>6. CASE Feed \/ ChannelDown \/ ReplyFails
    BY <1>6 DEF Feed, ChannelDown, ReplyFails, sessionVars, sinkVars
  <1>7. CASE HandleOptions \/ HandleOther \/ HandleSetup \/ HandlePlay \/ HandleTeardown
    BY <1>7
    DEF HandleOptions, HandleOther, HandleSetup, HandlePlay, HandleTeardown, Reply
  <1>8. ASSUME NEW t \in Keepalives, Keepalive(t)
        PROVE  \/ \E kind \in Kinds : Ask(t, kind) /\ (TasksInv => ~Waiting(t))
               \/ AskFails(t) /\ (TasksInv => pc' # "listen")
               \/ UNCHANGED <<cseq, asked>> /\ Settle({t})
    <2>1. CASE KaWake(t)
      <3>1. ka[t] = "sleep" /\ t > 0 /\ t \in Nat /\ pc' = pc
        BY <2>1, MaxRequestsAssumption DEF KaWake, Keepalives, SinkMethods
      <3>2. TasksInv => ~Waiting(t) /\ pc # "listen"
        BY <3>1 DEF TasksInv
      <3> QED
        BY <2>1, <3>1, <3>2 DEF KaWake, Kinds
    <2> QED
      BY <1>8, <2>1 DEF Keepalive, KaSettled, KaCancelled, KaEnds, KaLeaves, sinkVars
  <1>9. CASE \E m \in SinkMethods : SinkRequest(m)
    BY <1>9 DEF SinkRequest, sessionVars
  <1>10. CASE UNCHANGED vars
    BY <1>10 DEF vars, sessionVars, sinkVars
  <1>11. CASE \E t \in Keepalives : Keepalive(t)
    <2>1. PICK t \in Keepalives : Keepalive(t)
      BY <1>11
    <2>2. t \in Tasks /\ {t} \in SUBSET Tasks
      BY <1>0
    <2> QED
      BY <1>8, <2>1, <2>2
  <1> QED
    BY <1>1, <1>2, <1>3, <1>4, <1>5, <1>6, <1>7, <1>9, <1>10, <1>11
    DEF Next, Teardown, Dispatch, Sink, Terminated

LEMMA CallFacts ==
  ASSUME TypeOK
  PROVE  /\ cseq \in Nat /\ NextCSeq = cseq + 1
         /\ \A t \in Tasks : call[t].cseq \in Nat
         /\ DOMAIN call = Tasks
         /\ NoCall.cseq = 0 /\ NoCall.kind = "none" /\ NoCall.answer = "none"
  BY DEF TypeOK, Calls, NextCSeq, NoCall

LEMMA AskNumbers ==
  ASSUME TypeOK, NEW t \in Tasks, NEW kind, Ask(t, kind)
  PROVE  /\ cseq' = cseq + 1 /\ cseq \in Nat
         /\ \A u \in Tasks :
               call'[u] = IF u = t THEN [cseq |-> cseq + 1, kind |-> kind, answer |-> "none"]
                                   ELSE call[u]
  BY CallFacts DEF Ask

(* No step makes a task wait, under a number already given out, for        *)
(* something else.                                                         *)
LEMMA NumbersKept ==
  ASSUME TypeOK, AnswersInv, [Next]_vars
  PROVE  /\ cseq' >= cseq /\ cseq' \in Nat
         /\ \A t \in Tasks : call'[t].cseq <= cseq'
         /\ \A number, kind : Numbered(number, kind) => StillNumbered(number, kind)
         /\ MatchedAnswers'
  <1>0. /\ cseq \in Nat /\ NextCSeq = cseq + 1
        /\ \A t \in Tasks : call[t].cseq \in Nat /\ call[t].cseq <= cseq
        /\ MatchedAnswers
    BY CallFacts DEF AnswersInv
  <1>1. CASE UNCHANGED <<cseq, call>>
    BY <1>0, <1>1 DEF Numbered, StillNumbered, MatchedAnswers
  <1>2. ASSUME NEW t \in Tasks, NEW kind \in Kinds, Ask(t, kind)
        PROVE  /\ cseq' >= cseq /\ cseq' \in Nat
               /\ \A u \in Tasks : call'[u].cseq <= cseq'
               /\ \A number, k : Numbered(number, k) => StillNumbered(number, k)
               /\ MatchedAnswers'
    <2>1. /\ cseq' = cseq + 1
          /\ \A u \in Tasks :
                call'[u] = IF u = t
                             THEN [cseq |-> cseq + 1, kind |-> kind, answer |-> "none"]
                             ELSE call[u]
      BY <1>2, AskNumbers
    <2>2. \A u \in Tasks : call'[u].cseq <= cseq'
      BY <1>0, <2>1
    <2>3. \A number, k : Numbered(number, k) => StillNumbered(number, k)
      BY <1>0, <2>1 DEF Numbered, StillNumbered
    <2>4. MatchedAnswers'
      BY <1>0, <2>1 DEF MatchedAnswers
    <2> QED
      BY <1>0, <2>1, <2>2, <2>3, <2>4
  <1>3. CASE \E t \in Tasks : AskFails(t)
    BY <1>0, <1>3 DEF AskFails, Numbered, StillNumbered, MatchedAnswers
  <1>4. ASSUME cseq' = cseq, NEW ts \in SUBSET Tasks, Settle(ts)
        PROVE  /\ cseq' >= cseq /\ cseq' \in Nat
               /\ \A t \in Tasks : call'[t].cseq <= cseq'
               /\ \A number, k : Numbered(number, k) => StillNumbered(number, k)
               /\ MatchedAnswers'
    <2>1. \A t \in Tasks : call'[t] = call[t] \/ call'[t] = NoCall
      BY <1>4 DEF Settle
    <2> QED
      BY <1>0, <1>4, <2>1, CallFacts DEF Numbered, StillNumbered, MatchedAnswers
  <1>5. CASE HandleResponse
    <2>1. Head(inbox) = Stream[1] /\ 1 \in 1..Len(Stream) /\ Head(inbox).type = "resp"
      <3>1. inbox # <<>> /\ inbox \in Seq(Messages)
        BY <1>5 DEF HandleResponse, TypeOK
      <3>2. 1 \in 1..Len(inbox) /\ Head(inbox) = inbox[1]
        BY <3>1
      <3> QED
        BY <1>5, <3>2, StreamType DEF HandleResponse
    <2>2. Numbered(Head(inbox).cseq, Head(inbox).kind)
      BY <2>1 DEF AnswersInv
    <2>3. cseq' = cseq /\ \A t \in Tasks :
            \/ call'[t] = call[t]
            \/ /\ call[t].cseq = Head(inbox).cseq
               /\ call'[t] = [call[t] EXCEPT !.answer = Head(inbox).kind]
      BY <1>5 DEF HandleResponse
    <2>4. ASSUME NEW t \in Tasks
          PROVE  /\ call'[t].cseq = call[t].cseq /\ call'[t].kind = call[t].kind
                 /\ \/ call'[t].answer = call[t].answer
                    \/ call'[t].answer = call[t].kind
      <3>1. call[t] \in Calls
        BY DEF TypeOK
      <3>2. CASE call'[t] = call[t]
        BY <3>2
      <3>3. CASE /\ call[t].cseq = Head(inbox).cseq
                 /\ call'[t] = [call[t] EXCEPT !.answer = Head(inbox).kind]
        <4>1. call[t].kind = Head(inbox).kind
          BY <2>2, <3>3 DEF Numbered
        <4> QED
          BY <3>1, <3>3, <4>1 DEF Calls
      <3> QED
        BY <2>3, <3>2, <3>3
    <2> QED
      BY <1>0, <2>3, <2>4 DEF Numbered, StillNumbered, MatchedAnswers
  <1>6. CASE SinkAnswer \/ SinkClose
    BY <1>0, <1>6 DEF SinkAnswer, SinkClose, sessionVars, Numbered, StillNumbered, MatchedAnswers
  <1> QED
    BY <1>1, <1>2, <1>3, <1>4, <1>5, <1>6, CallSteps

(* What a step can do to the messages under way.                           *)
LEMMA StreamSteps ==
  ASSUME TypeOK, TypeOK', ChannelInv, StreamInv, [Next]_vars
  PROVE  \/ Kept
         \/ Handled
         \/ \E m \in SinkMethods : Added(Req(m))
         \/ SinkAnswer /\ Added([type |-> "resp", cseq |-> Head(asked).cseq,
                                 kind |-> Head(asked).kind])
  <1>1. CASE UNCHANGED vars
    BY <1>1, NothingMoved DEF vars, channelVars
  <1>2. CASE ProgramStep
    BY <1>2, ProgramUndisturbed DEF StreamInv, Undisturbed
  <1>3. CASE Handling
    BY <1>3, HandlingHandled
  <1>4. CASE SinkClose
    BY <1>4, RestDropped, NothingMoved DEF SinkClose
  <1>5. CASE SinkAnswer
    <2>1. asked \in Seq([cseq : Nat, kind : Kinds]) /\ asked # <<>>
      BY <1>5 DEF TypeOK, SinkAnswer
    <2>2. Head(asked) \in [cseq : Nat, kind : Kinds]
      BY <2>1, HeadTailProperties
    <2>3. [type |-> "resp", cseq |-> Head(asked).cseq, kind |-> Head(asked).kind]
            \in Messages
      BY <2>2 DEF Messages, Responses
    <2> QED
      BY <1>5, <2>3, TailAdded DEF SinkAnswer
  <1>6. ASSUME NEW m \in SinkMethods, SinkRequest(m)
        PROVE  Added(Req(m))
    <2>1. Req(m) \in Messages
      BY DEF Req, Messages, Requests
    <2> QED
      BY <1>6, <2>1, TailAdded DEF SinkRequest, Req
  <1> QED
    BY <1>1, <1>2, <1>3, <1>4, <1>5, <1>6, NextParts DEF Sink, Terminated

LEMMA AskedNumbered ==
  ASSUME TypeOK, AnswersInv, [Next]_vars
  PROVE  \A i \in 1..Len(asked') : StillNumbered(asked'[i].cseq, asked'[i].kind)
  <1>0. /\ asked \in Seq([cseq : Nat, kind : Kinds]) /\ Len(asked) \in Nat
        /\ \A number, kind : Numbered(number, kind) => StillNumbered(number, kind)
        /\ \A i \in 1..Len(asked) : Numbered(asked[i].cseq, asked[i].kind)
    BY NumbersKept DEF TypeOK, AnswersInv
  <1>1. CASE asked' = asked
    BY <1>0, <1>1
  <1>2. ASSUME NEW t \in Tasks, NEW kind \in Kinds, Ask(t, kind), asked' # asked
        PROVE  \A i \in 1..Len(asked') : StillNumbered(asked'[i].cseq, asked'[i].kind)
    <2>1. asked' = Append(asked, [cseq |-> cseq + 1, kind |-> kind])
      BY <1>2, CallFacts DEF Ask
    <2>2. [cseq |-> cseq + 1, kind |-> kind] \in [cseq : Nat, kind : Kinds]
      BY CallFacts
    <2>3. StillNumbered(cseq + 1, kind)
      <3>1. /\ cseq' = cseq + 1 /\ cseq \in Nat
            /\ \A u \in Tasks : call[u].cseq <= cseq /\ call[u].cseq \in Nat
            /\ \A u \in Tasks :
                  call'[u] = IF u = t
                               THEN [cseq |-> cseq + 1, kind |-> kind, answer |-> "none"]
                               ELSE call[u]
        BY <1>2, AskNumbers, CallFacts DEF AnswersInv
      <3> QED
        BY <3>1 DEF StillNumbered
    <2>4. \A i \in 1..Len(asked') :
            \/ i \in 1..Len(asked) /\ asked'[i] = asked[i]
            \/ asked'[i] = [cseq |-> cseq + 1, kind |-> kind]
      BY <1>0, <2>1, <2>2, AppendProperties
    <2> QED
      BY <1>0, <2>3, <2>4
  <1>3. CASE SinkAnswer
    <2>1. /\ Len(asked') = Len(asked) - 1
          /\ \A i \in 1..Len(asked') : asked'[i] = asked[i + 1]
      BY <1>0, <1>3, HeadTailProperties DEF SinkAnswer
    <2>2. \A i \in 1..Len(asked') : i + 1 \in 1..Len(asked)
      BY <1>0, <2>1
    <2> QED
      BY <1>0, <2>1, <2>2
  <1>4. CASE SinkClose
    BY <1>4 DEF SinkClose
  <1> QED
    BY <1>1, <1>2, <1>3, <1>4, CallSteps DEF AskFails, HandleResponse, sinkVars

LEMMA AnswersStep ==
  ASSUME TypeOK, TypeOK', ChannelInv, StreamInv, AnswersInv, [Next]_vars
  PROVE  AnswersInv'
  <1>0. /\ Len(Stream) \in Nat
        /\ \A number, kind : Numbered(number, kind) => StillNumbered(number, kind)
        /\ \A i \in 1..Len(Stream) :
              Stream[i].type = "resp" => Numbered(Stream[i].cseq, Stream[i].kind)
    BY NumbersKept, StreamType DEF AnswersInv
  <1>1. \A i \in 1..Len(Stream') :
          Stream'[i].type = "resp" => StillNumbered(Stream'[i].cseq, Stream'[i].kind)
    <2>1. CASE Kept
      BY <1>0, <2>1 DEF Kept
    <2>2. CASE Handled
      <3>1. \A i \in 1..Len(Stream') : i + 1 \in 1..Len(Stream) /\ Stream'[i] = Stream[i + 1]
        BY <1>0, <2>2 DEF Handled
      <3> QED
        BY <1>0, <3>1
    <2>3. ASSUME NEW m \in SinkMethods, Added(Req(m))
          PROVE  \A i \in 1..Len(Stream') :
                   Stream'[i].type = "resp" => StillNumbered(Stream'[i].cseq, Stream'[i].kind)
      <3>1. \A i \in 1..Len(Stream') :
              \/ i \in 1..Len(Stream) /\ Stream'[i] = Stream[i]
              \/ Stream'[i] = Req(m)
        BY <1>0, <2>3 DEF Added
      <3>2. Req(m).type # "resp"
        BY DEF Req
      <3> QED
        BY <1>0, <3>1, <3>2
    <2>4. CASE SinkAnswer /\ Added([type |-> "resp", cseq |-> Head(asked).cseq,
                                    kind |-> Head(asked).kind])
      <3>1. asked \in Seq([cseq : Nat, kind : Kinds]) /\ asked # <<>>
        BY <2>4 DEF TypeOK, SinkAnswer
      <3>2. Head(asked) = asked[1] /\ 1 \in 1..Len(asked)
        BY <3>1
      <3>3. Numbered(Head(asked).cseq, Head(asked).kind)
        BY <3>2 DEF AnswersInv
      <3>4. \A i \in 1..Len(Stream') :
              \/ i \in 1..Len(Stream) /\ Stream'[i] = Stream[i]
              \/ Stream'[i] = [type |-> "resp", cseq |-> Head(asked).cseq,
                               kind |-> Head(asked).kind]
        BY <1>0, <2>4 DEF Added
      <3> QED
        BY <1>0, <3>3, <3>4
    <2> QED
      BY <2>1, <2>2, <2>3, <2>4, StreamSteps
  <1> QED
    BY <1>1, NumbersKept, AskedNumbered DEF AnswersInv, Numbered, StillNumbered

(* The inductive invariant behind MatchedAnswers.                          *)
THEOREM AnswersCorrect == Spec => []AnswersInv
  <1>1. Init => AnswersInv
    <2> SUFFICES ASSUME Init PROVE AnswersInv
      OBVIOUS
    <2>0. <<>> \in Seq(Messages)
      OBVIOUS
    <2>1. Len(Stream) = 0 /\ Len(asked) = 0
      BY <2>0, JoinProperties DEF Init, Stream
    <2>2. cseq = 0 /\ \A t \in Tasks : call[t] = NoCall
      BY DEF Init
    <2> QED
      BY <2>1, <2>2 DEF AnswersInv, MatchedAnswers, NoCall
  <1>2. TypeOK /\ TypeOK' /\ ChannelInv /\ StreamInv /\ AnswersInv /\ [Next]_vars
          => AnswersInv'
    BY AnswersStep
  <1> QED
    BY <1>1, <1>2, TypeCorrect, ChannelCorrect, StreamCorrect, PTL DEF Spec

(* However late an answer comes, and whatever timed out or was cancelled   *)
(* meanwhile, no task is given the answer to another request than the one  *)
(* it awaits.                                                              *)
THEOREM AnswersMatched == Spec => []MatchedAnswers
  <1>1. AnswersInv => MatchedAnswers
    BY DEF AnswersInv
  <1> QED
    BY <1>1, AnswersCorrect, PTL

-----------------------------------------------------------------------------
(* What a step of another task can at most do to the keepalive tasks.      *)
CancelledAtMost ==
    \A t \in Keepalives :
        ka'[t] = ka[t] \/ (ka[t] \in {"sleep", "wait"} /\ ka'[t] = "cancelled")

LEMMA TasksKept ==
  ASSUME TasksInv, kaCur' = kaCur, CancelledAtMost,
         \A t \in Keepalives : Waiting(t)' => Waiting(t),
         Waiting(Main)' => pc' \in Awaits, pc' = "listen" => pc = "listen"
  PROVE  TasksInv'
  <1>1. ASSUME NEW t \in Keepalives
        PROVE  /\ Waiting(t)' => ka'[t] \in {"wait", "cancelled"}
               /\ t > kaCur' => ka'[t] = "unborn"
    <2>1. /\ Waiting(t)' => ka[t] \in {"wait", "cancelled"}
          /\ t > kaCur => ka[t] = "unborn"
          /\ ka'[t] = ka[t] \/ (ka[t] \in {"sleep", "wait"} /\ ka'[t] = "cancelled")
      BY DEF TasksInv, CancelledAtMost
    <2> QED
      BY <2>1
  <1> QED
    BY <1>1 DEF TasksInv

LEMMA SettleWaits ==
  ASSUME TypeOK, NEW ts, Settle(ts)
  PROVE  \A t \in Tasks : /\ Waiting(t)' => Waiting(t) /\ t \notin ts
  BY DEF Settle, Waiting

LEMMA ResumeWaits ==
  ASSUME TypeOK, NEW to, Resume(to)
  PROVE  ~Waiting(Main)' /\ \A t \in Keepalives : Waiting(t)' => Waiting(t)
  BY SettleWaits, TasksType DEF Resume

LEMMA AskWaits ==
  ASSUME TypeOK, NEW t \in Tasks, NEW kind, Ask(t, kind)
  PROVE  \A u \in Tasks : u # t => (Waiting(u)' <=> Waiting(u))
  BY DEF Ask, Waiting, TypeOK

LEMMA CancelAtMost ==
  ASSUME CancelKeepalive
  PROVE  CancelledAtMost
  BY DEF CancelKeepalive, Cancelled, CancelledAtMost

LEMMA NotMain == \A t \in Keepalives : t \in Tasks /\ t # Main /\ t > 0 /\ t \in Nat
  BY TasksType, MaxRequestsAssumption DEF Keepalives, Main, SinkMethods

LEMMA HandshakeTasks ==
  ASSUME TypeOK, TasksInv, Handshake
  PROVE  TasksInv'
  <1>0. UNCHANGED <<ka, kaCur>> /\ CancelledAtMost
    BY DEF Handshake, Accept, AcceptTimeout, SendM1, SendM3, SendM4, SendM5,
           HandshakeSend, M1Answered, M3Answered, M4Answered, M5Answered,
           HandshakeTimeout, HandshakeAnswered, Goto, Resume, CancelledAtMost
  <1>1. CASE Accept \/ AcceptTimeout
    <2>1. UNCHANGED call /\ pc = "listen" /\ pc' # "listen"
      BY <1>1 DEF Accept, AcceptTimeout, Goto, sessionVars
    <2>2. ~Waiting(Main)
      BY <2>1 DEF TasksInv, Awaits
    <2> QED
      BY <1>0, <2>1, <2>2, TasksKept DEF Waiting
  <1>2. ASSUME NEW from \in {"accepted", "m1done", "m3done", "m4done"},
               NEW to \in {"m1", "m3", "m4", "m5"}, NEW s, NEW kind,
               HandshakeSend(from, to, s, kind)
        PROVE  TasksInv'
    <2>1. ~Waiting(Main)
      BY <1>2 DEF HandshakeSend, TasksInv, Awaits
    <2>2. CASE Ask(Main, kind) /\ pc' = to
      BY <1>0, <2>2, AskWaits, NotMain, TasksType, TasksKept DEF Awaits
    <2>3. CASE AskFails(Main) /\ pc' = "unwind"
      BY <1>0, <2>1, <2>3, TasksKept DEF AskFails, Waiting
    <2> QED
      BY <1>2, <2>2, <2>3 DEF HandshakeSend
  <1>3. CASE SendM1 \/ SendM3 \/ SendM4 \/ SendM5
    BY <1>2, <1>3 DEF SendM1, SendM3, SendM4, SendM5
  <1>4. CASE M1Answered \/ M3Answered \/ M4Answered \/ M5Answered \/ HandshakeTimeout
    <2>1. \E to \in {"m1done", "m3done", "m4done", "poll", "unwind"} : Resume(to)
      BY <1>4
      DEF M1Answered, M3Answered, M4Answered, M5Answered, HandshakeTimeout,
          HandshakeAnswered
    <2>2. pc' # "listen"
      BY <2>1 DEF Resume
    <2> QED
      BY <1>0, <2>1, <2>2, ResumeWaits, TasksKept
  <1> QED
    BY <1>1, <1>3, <1>4 DEF Handshake

LEMMA CastTasks ==
  ASSUME TypeOK, TasksInv,
         StartCast \/ EnableUibc \/ UibcSettled \/ SessionEnded
           \/ PipelineDied \/ Interrupt \/ Terminate
  PROVE  TasksInv'
  <1>1. CASE StartCast \/ SessionEnded \/ PipelineDied
    <2>1. /\ UNCHANGED <<call, ka, kaCur>> /\ pc = "poll" /\ pc' # "listen"
          /\ CancelledAtMost
      BY <1>1
      DEF StartCast, SessionEnded, PipelineDied, Goto, sessionVars, CancelledAtMost
    <2>2. ~Waiting(Main)
      BY <2>1 DEF TasksInv, Awaits
    <2> QED
      BY <2>1, <2>2, TasksKept DEF Waiting
  <1>2. CASE EnableUibc
    <2>1. UNCHANGED <<ka, kaCur>> /\ pc = "startUibc" /\ CancelledAtMost
      BY <1>2 DEF EnableUibc, CancelledAtMost
    <2>2. ~Waiting(Main)
      BY <2>1 DEF TasksInv, Awaits
    <2>3. CASE Ask(Main, "M14") /\ pc' = "uibc"
      BY <2>1, <2>3, AskWaits, NotMain, TasksType, TasksKept DEF Awaits
    <2>4. CASE AskFails(Main) /\ pc' = "poll"
      BY <2>1, <2>2, <2>4, TasksKept DEF AskFails, Waiting
    <2> QED
      BY <1>2, <2>3, <2>4 DEF EnableUibc
  <1>3. CASE UibcSettled \/ Interrupt \/ Terminate
    <2>1. \E to \in {"poll", "unwind"} : Resume(to)
      BY <1>3 DEF UibcSettled, Interrupt, Terminate
    <2>2. pc' # "listen" /\ kaCur' = kaCur
      BY <2>1 DEF Resume
    <2>3. CancelledAtMost
      BY <1>3 DEF UibcSettled, Interrupt, Terminate, CancelledAtMost, Cancelled
    <2> QED
      BY <2>1, <2>2, <2>3, ResumeWaits, TasksKept
  <1> QED
    BY <1>1, <1>2, <1>3

LEMMA TeardownTasks ==
  ASSUME TypeOK, TasksInv, Teardown
  PROVE  TasksInv'
  <1>1. CASE AlreadyTornDown \/ WaitClosed
    <2>1. /\ UNCHANGED <<call, ka, kaCur>> /\ pc \in {"unwind", "closing"}
          /\ pc' # "listen" /\ CancelledAtMost
      BY <1>1 DEF AlreadyTornDown, WaitClosed, Goto, sessionVars, CancelledAtMost
    <2>2. ~Waiting(Main)
      BY <2>1 DEF TasksInv, Awaits
    <2> QED
      BY <2>1, <2>2, TasksKept DEF Waiting
  <1>2. CASE BeginTeardown
    <2>1. kaCur' = kaCur /\ pc = "unwind" /\ CancelledAtMost
      BY <1>2, CancelAtMost DEF BeginTeardown
    <2>2. ~Waiting(Main)
      BY <2>1 DEF TasksInv, Awaits
    <2>3. CASE Ask(Main, "TRIGGER") /\ pc' = "trigger"
      BY <2>1, <2>3, AskWaits, NotMain, TasksType, TasksKept DEF Awaits
    <2>4. CASE AskFails(Main) /\ pc' = "closing"
      BY <2>1, <2>2, <2>4, TasksKept DEF AskFails, Waiting
    <2> QED
      BY <1>2, <2>3, <2>4 DEF BeginTeardown
  <1>3. CASE TriggerSettled
    <2>1. Resume("closing") /\ ka' = ka
      BY <1>3 DEF TriggerSettled
    <2>2. pc' = "closing" /\ kaCur' = kaCur /\ CancelledAtMost
      BY <2>1 DEF Resume, CancelledAtMost
    <2> QED
      BY <2>1, <2>2, ResumeWaits, TasksKept
  <1>4. CASE Exit
    <2>1. /\ \A t \in Tasks : ~Waiting(t)'
          /\ kaCur' = kaCur /\ pc' = "exited"
          /\ \A t \in Keepalives : ka[t] = "unborn" => ka'[t] = "unborn"
      BY <1>4, SettleWaits DEF Exit
    <2> QED
      BY <2>1, TasksType, NotMain DEF TasksInv
  <1> QED
    BY <1>1, <1>2, <1>3, <1>4 DEF Teardown

LEMMA LoopTasks ==
  ASSUME TypeOK, ChannelInv, AnswersInv, TasksInv, LoopStep
  PROVE  TasksInv'
  <1>1. CASE Feed \/ ChannelDown \/ ReplyFails
    <2>1. UNCHANGED <<call, kaCur, pc>> /\ CancelledAtMost
      BY <1>1, CancelAtMost
      DEF Feed, ChannelDown, ReplyFails, sessionVars, taskVars, CancelledAtMost
    <2> QED
      BY <2>1, TasksKept DEF TasksInv, Waiting
  <1>2. CASE HandleResponse
    <2>1. UNCHANGED <<ka, kaCur, pc>> /\ CancelledAtMost
      BY <1>2 DEF HandleResponse, taskVars, CancelledAtMost
    <2>2. \A t \in Tasks : Waiting(t)' => Waiting(t)
      <3>1. Head(inbox).cseq # 0
        <4>1. inbox # <<>> /\ inbox \in Seq(Messages) /\ Head(inbox).type = "resp"
          BY <1>2 DEF HandleResponse, TypeOK
        <4>2. 1 \in 1..Len(inbox) /\ Head(inbox) = inbox[1]
          BY <4>1
        <4>3. 1 \in 1..Len(Stream) /\ Stream[1] = Head(inbox)
          BY <4>2, StreamType
        <4> QED
          BY <4>1, <4>3, CallFacts DEF AnswersInv, Numbered
      <3>2. ASSUME NEW t \in Tasks, call[t].cseq # Head(inbox).cseq PROVE call'[t] = call[t]
        BY <1>2, <3>2 DEF HandleResponse
      <3> QED
        BY <3>1, <3>2 DEF Waiting, NoCall
    <2> QED
      BY <2>1, <2>2, TasksType, TasksKept DEF TasksInv
  <1>3. CASE HandleOptions \/ HandleOther \/ HandleSetup \/ HandleTeardown
    <2>1. UNCHANGED <<call, kaCur, pc>> /\ CancelledAtMost
      BY <1>3, CancelAtMost
      DEF HandleOptions, HandleOther, HandleSetup, HandleTeardown, Reply,
          CancelledAtMost
    <2> QED
      BY <2>1, TasksKept DEF TasksInv, Waiting
  <1>4. CASE HandlePlay
    <2>1. /\ UNCHANGED <<call, pc>> /\ kaCur' = kaCur + 1 /\ kaCur \in Nat
          /\ ka' = [ka EXCEPT ![kaCur + 1] = "sleep"] /\ inbox # <<>>
      BY <1>4 DEF HandlePlay, Reply, TypeOK
    <2>2. pc # "listen"
      BY <2>1 DEF ChannelInv
    <2>3. ASSUME NEW t \in Keepalives
          PROVE  /\ Waiting(t)' => ka'[t] \in {"wait", "cancelled"}
                 /\ t > kaCur' => ka'[t] = "unborn"
      <3>1. /\ Waiting(t) => ka[t] \in {"wait", "cancelled"}
            /\ t > kaCur => ka[t] = "unborn"
            /\ t \in Nat /\ (Waiting(t)' <=> Waiting(t))
            /\ DOMAIN ka = Keepalives
        BY <2>1, NotMain DEF TasksInv, Waiting, TypeOK
      <3> QED
        BY <2>1, <3>1
    <2> QED
      BY <2>1, <2>2, <2>3 DEF TasksInv, Waiting
  <1> QED
    BY <1>1, <1>2, <1>3, <1>4 DEF LoopStep, Dispatch

LEMMA KeepaliveTasks ==
  ASSUME TypeOK, TasksInv, NEW t \in Keepalives, Keepalive(t)
  PROVE  TasksInv'
  <1>0. /\ UNCHANGED <<kaCur, pc>> /\ ka[t] # "unborn"
        /\ t \in Tasks /\ t # Main /\ t \in Nat /\ DOMAIN ka = Keepalives
    BY NotMain DEF Keepalive, KaWake, KaSettled, KaCancelled, KaEnds, KaLeaves, TypeOK
  <1>1. /\ \A u \in Keepalives \ {t} : ka'[u] = ka[u] /\ (Waiting(u)' => Waiting(u))
        /\ Waiting(Main)' => Waiting(Main)
        /\ Waiting(t)' => ka'[t] = "wait"
    <2>1. CASE Ask(t, "KEEPALIVE") /\ ka' = [ka EXCEPT ![t] = "wait"]
      BY <1>0, <2>1, AskWaits, TasksType, NotMain
    <2>2. CASE AskFails(t) /\ ka[t] = "sleep" /\ ka' = [ka EXCEPT ![t] = "done"]
      <3>1. ~Waiting(t)
        BY <2>2 DEF TasksInv
      <3> QED
        BY <1>0, <2>2, <3>1 DEF AskFails, Waiting
    <2>3. ASSUME NEW to, Settle({t}), ka' = [ka EXCEPT ![t] = to]
          PROVE  /\ \A u \in Keepalives \ {t} : ka'[u] = ka[u] /\ (Waiting(u)' => Waiting(u))
                 /\ Waiting(Main)' => Waiting(Main)
                 /\ ~Waiting(t)'
      BY <1>0, <2>3, SettleWaits, TasksType, NotMain
    <2> QED
      BY <2>1, <2>2, <2>3
      DEF Keepalive, KaWake, KaSettled, KaCancelled, KaEnds, KaLeaves
  <1>2. ~(t > kaCur)
    BY <1>0 DEF TasksInv
  <1> QED
    BY <1>0, <1>1, <1>2 DEF TasksInv

LEMMA TasksStep ==
  ASSUME TypeOK, ChannelInv, AnswersInv, TasksInv, [Next]_vars
  PROVE  TasksInv'
  <1>1. CASE UNCHANGED <<call, ka, kaCur, pc>>
    BY <1>1, TasksKept DEF TasksInv, Waiting, CancelledAtMost
  <1>2. CASE Sink
    <2>1. UNCHANGED <<call, ka, kaCur, pc>>
      BY <1>2 DEF Sink, SinkAnswer, SinkRequest, SinkClose, sessionVars, taskVars
    <2> QED
      BY <1>1, <2>1
  <1>3. UNCHANGED vars => UNCHANGED <<call, ka, kaCur, pc>>
    BY DEF vars, sessionVars, taskVars
  <1> QED
    BY <1>1, <1>2, <1>3, HandshakeTasks, CastTasks, TeardownTasks, LoopTasks,
       KeepaliveTasks DEF Next, Terminated, LoopStep

(* Who may be waiting in _request, as an invariant of the session.         *)
THEOREM TasksCorrect == Spec => []TasksInv
  <1>1. Init => TasksInv
    BY TasksType, NotMain DEF Init, TasksInv, Waiting
  <1>2. TypeOK /\ ChannelInv /\ AnswersInv /\ TasksInv /\ [Next]_vars => TasksInv'
    BY TasksStep
  <1> QED
    BY <1>1, <1>2, TypeCorrect, ChannelCorrect, AnswersCorrect, PTL DEF Spec

-----------------------------------------------------------------------------
(* The entry of a task's future, as _request puts it into _pending.        *)
Entry(t) == [cseq |-> call[t].cseq, task |-> t]
Awaiting(t) == Waiting(t) /\ ~Answered(t)

(* Behind PendingExact: a future somebody awaits is always in _pending.    *)
(* Without a connection a failed send leaves one behind that nobody        *)
(* awaits; with one, there is no other.                                    *)
PendingInv ==
    /\ \A t \in Tasks : Awaiting(t) => Entry(t) \in pending
    /\ conn = "open" \/ pc = "listen" =>
          \A p \in pending : Awaiting(p.task) /\ p = Entry(p.task)

(* Only the sink's connection opens the channel, once.                     *)
LEMMA OpensOnce ==
  ASSUME TypeOK, [Next]_vars
  PROVE  conn' = "open" \/ pc' = "listen" => conn = "open" \/ pc = "listen"
  <1>1. CASE Accept
    BY <1>1 DEF Accept
  <1>2. CASE Handshake /\ ~Accept
    BY <1>2
    DEF Handshake, AcceptTimeout, SendM1, SendM3, SendM4, SendM5, HandshakeSend,
        M1Answered, M3Answered, M4Answered, M5Answered, HandshakeTimeout,
        HandshakeAnswered, Ask, AskFails, Goto, Resume, channelVars
  <1>3. CASE \/ StartCast \/ EnableUibc \/ UibcSettled \/ SessionEnded
             \/ PipelineDied \/ Interrupt \/ Terminate
    BY <1>3
    DEF StartCast, EnableUibc, UibcSettled, SessionEnded, PipelineDied, Interrupt,
        Terminate, Ask, AskFails, Goto, Resume, channelVars
  <1>4. CASE Teardown
    BY <1>4
    DEF Teardown, AlreadyTornDown, BeginTeardown, TriggerSettled, WaitClosed, Exit,
        Ask, AskFails, Goto, Resume, channelVars
  <1>5. CASE Feed \/ ChannelDown \/ Dispatch
    BY <1>5
    DEF Feed, ChannelDown, Dispatch, HandleResponse, HandleOptions, HandleOther,
        HandleSetup, HandlePlay, HandleTeardown, Reply, ReplyFails, taskVars, channelVars
  <1>6. CASE \E t \in Keepalives : Keepalive(t)
    BY <1>6
    DEF Keepalive, KaWake, KaSettled, KaCancelled, KaEnds, KaLeaves, Ask, AskFails,
        channelVars
  <1>7. CASE Sink
    BY <1>7 DEF Sink, SinkAnswer, SinkRequest, SinkClose, taskVars
  <1>8. CASE UNCHANGED vars
    BY <1>8 DEF vars, taskVars, channelVars
  <1> QED
    BY <1>1, <1>2, <1>3, <1>4, <1>5, <1>6, <1>7, <1>8 DEF Next, Terminated

LEMMA PendingStep ==
  ASSUME TypeOK, TypeOK', ChannelInv, AnswersInv, TasksInv, PendingInv, [Next]_vars
  PROVE  PendingInv'
  <1>0. /\ conn' = "open" \/ pc' = "listen" => conn = "open" \/ pc = "listen"
        /\ \A t \in Tasks : Awaiting(t) => Entry(t) \in pending
        /\ conn = "open" \/ pc = "listen" =>
              \A p \in pending : Awaiting(p.task) /\ p = Entry(p.task)
        /\ \A p \in pending : p.task \in Tasks
    BY OpensOnce DEF PendingInv, TypeOK
  <1>1. CASE UNCHANGED <<call, pending>>
    BY <1>0, <1>1 DEF PendingInv, Awaiting, Waiting, Answered, Entry
  <1>2. ASSUME NEW t \in Tasks, NEW kind \in Kinds, Ask(t, kind), ~Waiting(t)
        PROVE  PendingInv'
    <2>1. /\ cseq \in Nat
          /\ pending' = pending \cup {[cseq |-> cseq + 1, task |-> t]}
          /\ \A u \in Tasks :
                call'[u] = IF u = t
                             THEN [cseq |-> cseq + 1, kind |-> kind, answer |-> "none"]
                             ELSE call[u]
      BY <1>2, AskNumbers, CallFacts DEF Ask
    <2>2. Awaiting(t)' /\ Entry(t)' = [cseq |-> cseq + 1, task |-> t]
      BY <2>1 DEF Awaiting, Waiting, Answered, Entry, NoCall
    <2>3. \A u \in Tasks \ {t} : (Awaiting(u)' <=> Awaiting(u)) /\ Entry(u)' = Entry(u)
      BY <2>1 DEF Awaiting, Waiting, Answered, Entry
    <2>4. \A p \in pending : Awaiting(p.task) => p.task # t
      BY <1>2 DEF Awaiting
    <2> QED
      BY <1>0, <2>1, <2>2, <2>3, <2>4 DEF PendingInv
  <1>3. ASSUME NEW t \in Tasks, AskFails(t), pc' # "listen"
        PROVE  PendingInv'
    <2>1. conn' # "open" /\ call' = call /\ pending \subseteq pending'
      BY <1>3 DEF AskFails
    <2> QED
      BY <1>0, <1>3, <2>1 DEF PendingInv, Awaiting, Waiting, Answered, Entry
  <1>4. ASSUME NEW ts \in SUBSET Tasks, Settle(ts)
        PROVE  PendingInv'
    <2>1. /\ pending' = {p \in pending : p.task \notin ts \/ p.cseq # call[p.task].cseq}
          /\ \A t \in Tasks : call'[t] = IF t \in ts THEN NoCall ELSE call[t]
      BY <1>4 DEF Settle
    <2>2. \A t \in ts : ~Awaiting(t)'
      BY <2>1 DEF Awaiting, Waiting
    <2>3. \A t \in Tasks \ ts : (Awaiting(t)' <=> Awaiting(t)) /\ Entry(t)' = Entry(t)
      BY <2>1 DEF Awaiting, Waiting, Answered, Entry
    <2>4. \A t \in Tasks : Entry(t).task = t /\ Entry(t).cseq = call[t].cseq
      BY DEF Entry
    <2>5. \A t \in Tasks : Awaiting(t)' => Entry(t)' \in pending'
      BY <1>0, <2>1, <2>2, <2>3, <2>4
    <2>6. ASSUME conn' = "open" \/ pc' = "listen", NEW p \in pending'
          PROVE  Awaiting(p.task)' /\ p = Entry(p.task)'
      <3>1. p \in pending /\ p.task \in Tasks /\ p = Entry(p.task) /\ Awaiting(p.task)
        BY <1>0, <2>1, <2>6
      <3>2. p.task \notin ts
        BY <2>1, <2>4, <2>6, <3>1
      <3> QED
        BY <2>3, <3>1, <3>2
    <2> QED
      BY <2>5, <2>6 DEF PendingInv
  <1>5. CASE HandleResponse
    <2> DEFINE number == Head(inbox).cseq
               owners == {p.task : p \in {q \in pending : q.cseq = number}}
    <2>1. Head(inbox).kind # "none"
      <3>1. Head(inbox) \in Messages /\ Head(inbox).type = "resp"
        BY <1>5 DEF TypeOK, HandleResponse
      <3> QED
        BY <3>1 DEF Messages, Responses, Requests, Kinds
    <2>2. /\ pending' = {p \in pending : p.cseq # number}
          /\ \A t \in Tasks :
                call'[t] = IF t \in owners /\ call[t].cseq = number
                             THEN [call[t] EXCEPT !.answer = Head(inbox).kind]
                             ELSE call[t]
      BY <1>5 DEF HandleResponse
    <2>3. \A t \in Tasks : call[t] \in Calls
      BY DEF TypeOK
    <2>4. ASSUME NEW t \in Tasks, t \in owners, call[t].cseq = number
          PROVE  ~Awaiting(t)'
      <3>1. call'[t].answer = Head(inbox).kind
        BY <2>2, <2>3, <2>4 DEF Calls
      <3> QED
        BY <2>1, <3>1 DEF Awaiting, Answered
    <2>5. ASSUME NEW t \in Tasks, ~(t \in owners /\ call[t].cseq = number)
          PROVE  (Awaiting(t)' <=> Awaiting(t)) /\ Entry(t)' = Entry(t)
      BY <2>2, <2>5 DEF Awaiting, Waiting, Answered, Entry
    <2>6. \A t \in Tasks : Entry(t).task = t /\ Entry(t).cseq = call[t].cseq
      BY DEF Entry
    <2>7. \A t \in Tasks : Entry(t) \in pending /\ call[t].cseq = number => t \in owners
      BY <2>6
    <2> HIDE DEF owners, number
    <2>8. \A t \in Tasks : Awaiting(t)' => Entry(t)' \in pending'
      <3>1. ASSUME NEW t \in Tasks, Awaiting(t)' PROVE Entry(t)' \in pending'
        <4>1. ~(t \in owners /\ call[t].cseq = number)
          BY <2>4, <3>1
        <4>2. Awaiting(t) /\ Entry(t)' = Entry(t)
          BY <2>5, <3>1, <4>1
        <4>3. Entry(t) \in pending /\ Entry(t).cseq # number
          BY <1>0, <2>6, <2>7, <4>1, <4>2
        <4> QED
          BY <2>2, <4>2, <4>3
      <3> QED
        BY <3>1
    <2>9. ASSUME conn' = "open" \/ pc' = "listen", NEW p \in pending'
          PROVE  Awaiting(p.task)' /\ p = Entry(p.task)'
      <3>1. p \in pending /\ p.task \in Tasks /\ p = Entry(p.task) /\ Awaiting(p.task)
        BY <1>0, <2>2, <2>9
      <3>2. call[p.task].cseq # number
        BY <2>2, <2>6, <2>9, <3>1
      <3> QED
        BY <2>5, <3>1, <3>2
    <2> QED
      BY <2>8, <2>9 DEF PendingInv
  <1>6. CASE SinkAnswer \/ SinkClose
    BY <1>1, <1>6 DEF SinkAnswer, SinkClose, sessionVars
  <1> QED
    BY <1>1, <1>2, <1>3, <1>4, <1>5, <1>6, CallSteps

(* The inductive invariant behind PendingExact.                            *)
THEOREM PendingCorrect == Spec => []PendingInv
  <1>1. Init => PendingInv
    BY DEF Init, PendingInv, Awaiting, Waiting
  <1>2. /\ TypeOK /\ TypeOK' /\ ChannelInv /\ AnswersInv /\ TasksInv /\ PendingInv
        /\ [Next]_vars
        => PendingInv'
    BY PendingStep
  <1> QED
    BY <1>1, <1>2, TypeCorrect, ChannelCorrect, AnswersCorrect, TasksCorrect, PTL DEF Spec

(* While the connection is open, no timeout and no cancellation leaves a   *)
(* future in _pending that nobody awaits, and none takes away the one that *)
(* somebody does.                                                          *)
THEOREM PendingIsExact == Spec => []PendingExact
  <1>1. TypeOK /\ PendingInv => PendingExact
    <2> SUFFICES ASSUME TypeOK, PendingInv, conn = "open"
                 PROVE  pending = {Entry(t) : t \in {u \in Tasks : Awaiting(u)}}
      BY DEF PendingExact, Entry, Awaiting
    <2>1. \A p \in pending : p.task \in Tasks /\ Awaiting(p.task) /\ p = Entry(p.task)
      BY DEF PendingInv, TypeOK
    <2>2. \A t \in Tasks : Awaiting(t) => Entry(t) \in pending
      BY DEF PendingInv
    <2> QED
      BY <2>1, <2>2
  <1> QED
    BY <1>1, PendingCorrect, TypeCorrect, PTL

-----------------------------------------------------------------------------
(***************************************************************************)
(* How the session ends: that it stays torn down, that its keepalive       *)
(* lives, that nothing plays before the handshake is over, that every      *)
(* request has a reader, and, with all of them, that each step of the      *)
(* session is a step of CastSession.                                       *)
(***************************************************************************)
(* What the sink may still have under way: answers only.                   *)
NoRequests == \A i \in 1..Len(Stream) : Stream[i].type = "resp"

(* Behind StaysTornDown: a session that is torn down while its caller has  *)
(* not begun to leave, or has left, was torn down by its sink, and has     *)
(* nothing of the sink's left to handle; and between the two nobody takes  *)
(* it out of TEARDOWN any more once the receive loop is gone.              *)
TornInv ==
    /\ state = "TEARDOWN" /\ recv = "running" /\ pc \notin {"trigger", "closing"} =>
          sent["TEARDOWN"] > 0 /\ NoRequests
    /\ pc \in {"trigger", "closing"} /\ recv # "running" => state = "TEARDOWN"
    /\ StaysTornDown

(* A step that drops messages, or handles one, brings no request.          *)
LEMMA NoRequestsKept ==
  ASSUME TypeOK, NoRequests, Kept \/ Handled
  PROVE  NoRequests'
  <1>1. CASE Kept
    BY <1>1, StreamType DEF Kept, NoRequests
  <1>2. CASE Handled
    <2>1. \A i \in 1..Len(Stream') : i + 1 \in 1..Len(Stream) /\ Stream'[i] = Stream[i + 1]
      BY <1>2, StreamType DEF Handled
    <2> QED
      BY <2>1 DEF NoRequests
  <1> QED
    BY <1>1, <1>2

LEMMA TornKept ==
  ASSUME TypeOK, TornInv, Kept \/ Handled, state' = state, sent' = sent,
         recv' = recv \/ (recv' # "running" /\ pc \notin {"trigger", "closing"}),
         pc' = pc \/ {pc, pc'} \cap {"trigger", "closing", "returned", "exited"} = {}
  PROVE  TornInv'
  <1>1. NoRequests => NoRequests'
    BY NoRequestsKept
  <1> QED
    BY <1>1 DEF TornInv, StaysTornDown

LEMMA TornHandshake ==
  ASSUME TypeOK, ChannelInv, StreamInv, TornInv, Handshake
  PROVE  TornInv'
  <1>0. Kept /\ sent' = sent
    BY HandshakeUndisturbed DEF Undisturbed, StreamInv
  <1>1. CASE M4Answered \/ HandshakeTimeout \/ AcceptTimeout
    <2>1. /\ state' = state /\ (recv' = recv \/ recv' # "running")
          /\ pc \in {"m1", "m3", "m4", "m5", "listen"} /\ pc' \in {"m4done", "unwind"}
      BY <1>1
      DEF M4Answered, HandshakeTimeout, AcceptTimeout, HandshakeAnswered, Resume, Goto,
          CancelRecv, sessionVars
    <2> QED
      BY <1>0, <2>1, TornKept
  <1>2. CASE \/ Accept \/ SendM1 \/ SendM3 \/ SendM4 \/ SendM5
             \/ M1Answered \/ M3Answered \/ M5Answered
    <2>1. /\ state' # "TEARDOWN"
          /\ pc' \in {"accepted", "m1", "m3", "m4", "m5", "unwind", "m1done",
                      "m3done", "poll"}
      BY <1>2
      DEF Accept, SendM1, SendM3, SendM4, SendM5, M1Answered, M3Answered,
          M5Answered, HandshakeSend, HandshakeAnswered, Resume
    <2> QED
      BY <2>1 DEF TornInv, StaysTornDown
  <1> QED
    BY <1>1, <1>2 DEF Handshake

LEMMA TornTeardown ==
  ASSUME TypeOK, ChannelInv, StreamInv, TornInv, Teardown
  PROVE  TornInv'
  <1>0. Kept /\ sent' = sent
    BY ProgramUndisturbed DEF ProgramStep, Undisturbed, StreamInv
  <1>1. NoRequests => NoRequests'
    BY <1>0, NoRequestsKept
  <1>2. CASE AlreadyTornDown
    <2>1. state' = "TEARDOWN" /\ pc' = "returned" /\ pc = "unwind" /\ UNCHANGED <<state, recv>>
      BY <1>2 DEF AlreadyTornDown, Goto, sessionVars
    <2> QED
      BY <1>0, <1>1, <2>1 DEF TornInv, StaysTornDown
  <1>3. CASE BeginTeardown
    <2>1. state' = "TEARDOWN" /\ pc' \in {"trigger", "closing"}
      BY <1>3 DEF BeginTeardown
    <2> QED
      BY <2>1 DEF TornInv, StaysTornDown
  <1>4. CASE TriggerSettled
    <2>1. UNCHANGED <<state, recv>> /\ pc = "trigger" /\ pc' = "closing"
      BY <1>4 DEF TriggerSettled, Resume
    <2> QED
      BY <2>1 DEF TornInv, StaysTornDown
  <1>5. CASE WaitClosed
    <2>1. UNCHANGED <<state, recv>> /\ pc = "closing" /\ pc' = "returned"
          /\ recv # "running"
      BY <1>5 DEF WaitClosed, Goto, sessionVars
    <2> QED
      BY <2>1 DEF TornInv, StaysTornDown
  <1>6. CASE Exit
    <2>1. state' = state /\ pc = "returned" /\ pc' = "exited" /\ recv' # "running"
      BY <1>6 DEF Exit, CancelRecv
    <2> QED
      BY <2>1 DEF TornInv, StaysTornDown
  <1> QED
    BY <1>2, <1>3, <1>4, <1>5, <1>6 DEF Teardown

LEMMA TornHandled ==
  ASSUME TypeOK, TypeOK', ChannelInv, StreamInv, TornInv, Handling
  PROVE  TornInv'
  <1>0. /\ Handled /\ UNCHANGED <<sent, recv, pc>> /\ recv = "running"
        /\ 1 \in 1..Len(Stream) /\ Stream[1] = Head(inbox)
    <2>1. Handled /\ UNCHANGED <<sent, recv, pc>>
      BY HandlingHandled
    <2> QED
      BY <2>1 DEF Handled, ChannelInv
  <1>1. CASE state' = state
    BY <1>0, <1>1, TornKept
  <1>2. CASE HandleTeardown
    <2>1. state' = "TEARDOWN" /\ Head(inbox) = Req("TEARDOWN")
      BY <1>2 DEF HandleTeardown, Reply, Req
    <2>2. Requested("TEARDOWN")
      BY <1>0, <2>1 DEF Requested
    <2>3. NoRequests'
      <3>1. \A i \in 1..Len(Stream') :
              i + 1 \in 1..Len(Stream) /\ 1 < i + 1 /\ Stream'[i] = Stream[i + 1]
        BY <1>0, StreamType DEF Handled
      <3>2. \A i \in 1..Len(Stream') : Stream[i + 1].type = "resp"
        BY <1>0, <2>1, <3>1 DEF StreamInv, TeardownsInv
      <3> QED
        BY <3>1, <3>2 DEF NoRequests
    <2> QED
      BY <1>0, <2>1, <2>2, <2>3 DEF TornInv, StaysTornDown, StreamInv, TeardownsInv
  <1>3. CASE HandleSetup \/ HandlePlay
    <2>1. state' # "TEARDOWN" /\ Head(inbox).type = "req"
      BY <1>3 DEF HandleSetup, HandlePlay, Reply
    <2>2. ~NoRequests
      BY <1>0, <2>1 DEF NoRequests
    <2>3. pc \notin {"returned", "exited"}
      BY <1>0, <2>2 DEF TornInv, StaysTornDown
    <2> QED
      BY <1>0, <2>1, <2>3 DEF TornInv, StaysTornDown
  <1>4. CASE HandleResponse \/ HandleOptions \/ HandleOther
    BY <1>1, <1>4 DEF HandleResponse, HandleOptions, HandleOther
  <1> QED
    BY <1>2, <1>3, <1>4 DEF Handling

LEMMA TornSink ==
  ASSUME TypeOK, TypeOK', ChannelInv, StreamInv, TornInv, Sink
  PROVE  TornInv'
  <1>0. UNCHANGED <<state, recv, pc>>
    BY DEF Sink, SinkAnswer, SinkRequest, SinkClose, sessionVars, taskVars
  <1>1. CASE SinkClose
    BY <1>0, <1>1, RestDropped, NothingMoved, TornKept DEF SinkClose
  <1>2. CASE SinkAnswer
    <2>1. /\ Added([type |-> "resp", cseq |-> Head(asked).cseq, kind |-> Head(asked).kind])
          /\ sent' = sent
      <3>1. asked \in Seq([cseq : Nat, kind : Kinds]) /\ asked # <<>>
        BY <1>2 DEF TypeOK, SinkAnswer
      <3>2. Head(asked) \in [cseq : Nat, kind : Kinds]
        BY <3>1, HeadTailProperties
      <3>3. [type |-> "resp", cseq |-> Head(asked).cseq, kind |-> Head(asked).kind]
              \in Messages
        BY <3>2 DEF Messages, Responses
      <3> QED
        BY <1>2, <3>3, TailAdded DEF SinkAnswer
    <2>2. NoRequests => NoRequests'
      BY <2>1, StreamType DEF Added, NoRequests
    <2> QED
      BY <1>0, <2>1, <2>2 DEF TornInv, StaysTornDown
  <1>3. ASSUME NEW m \in SinkMethods, SinkRequest(m)
        PROVE  TornInv'
    <2>1. sent["TEARDOWN"] = 0
      BY <1>3 DEF SinkRequest
    <2> QED
      BY <1>0, <2>1 DEF TornInv, StaysTornDown
  <1> QED
    BY <1>1, <1>2, <1>3 DEF Sink

LEMMA TornStep ==
  ASSUME TypeOK, TypeOK', ChannelInv, StreamInv, TornInv, [Next]_vars
  PROVE  TornInv'
  <1>1. CASE UNCHANGED vars
    BY <1>1, NothingMoved, TornKept
    DEF vars, sessionVars, taskVars, channelVars, sinkVars
  <1>2. CASE \/ StartCast \/ EnableUibc \/ UibcSettled \/ SessionEnded
             \/ PipelineDied \/ Interrupt \/ Terminate
    <2>1. Kept /\ sent' = sent
      BY <1>2, ProgramUndisturbed DEF ProgramStep, Undisturbed, StreamInv
    <2>2. /\ state' = state /\ (recv' = recv \/ recv' # "running")
          /\ pc \notin {"trigger", "closing", "returned", "exited"}
          /\ pc' \in {"poll", "startUibc", "uibc", "unwind"}
      BY <1>2
      DEF StartCast, EnableUibc, UibcSettled, SessionEnded, PipelineDied, Interrupt,
          Terminate, Goto, Resume, CancelRecv, Interruptible, sessionVars
    <2> QED
      BY <2>1, <2>2, TornKept
  <1>3. CASE Feed \/ ReplyFails \/ \E t \in Keepalives : Keepalive(t)
    <2>1. Kept /\ sent' = sent
      BY <1>3, ProgramUndisturbed DEF ProgramStep, Undisturbed, StreamInv
    <2>2. UNCHANGED <<state, recv, pc>>
      BY <1>3
      DEF Feed, ReplyFails, Keepalive, KaWake, KaSettled, KaCancelled, KaEnds, KaLeaves,
          sessionVars, taskVars
    <2> QED
      BY <2>1, <2>2, TornKept
  <1>4. CASE ChannelDown
    <2>1. state' = "TEARDOWN" /\ recv' # "running" /\ pc' = pc
      BY <1>4 DEF ChannelDown
    <2> QED
      BY <2>1 DEF TornInv, StaysTornDown
  <1> QED
    BY <1>1, <1>2, <1>3, <1>4, TornHandshake, TornTeardown, TornHandled, TornSink
    DEF Next, Terminated, Dispatch, Handling

(* The inductive invariant behind StaysTornDown.                           *)
THEOREM TornCorrect == Spec => []TornInv
  <1>1. Init => TornInv
    BY DEF Init, TornInv, StaysTornDown
  <1>2. TypeOK /\ TypeOK' /\ ChannelInv /\ StreamInv /\ TornInv /\ [Next]_vars => TornInv'
    BY TornStep
  <1> QED
    BY <1>1, <1>2, TypeCorrect, ChannelCorrect, StreamCorrect, PTL DEF Spec

(* A caller that has returned from teardown leaves the session in TEARDOWN *)
(* for good, whatever SETUP or PLAY of the sink crossed the teardown.      *)
THEOREM TornDownStays == Spec => []StaysTornDown
  <1>1. TornInv => StaysTornDown
    BY DEF TornInv
  <1> QED
    BY <1>1, TornCorrect, PTL

-----------------------------------------------------------------------------
(* Behind KeepaliveAlive: the task is one the constants provide for.       *)
AliveInv ==
    state = "STREAMING" /\ conn = "open" /\ recv = "running" =>
        kaCur \in Keepalives /\ ka[kaCur] \in {"sleep", "wait"}

(* The steps that leave the newest keepalive task alone, or the session.   *)
LEMMA AliveKept ==
  ASSUME AliveInv, kaCur' = kaCur,
         state' = "STREAMING" => state = "STREAMING",
         conn' = "open" => conn = "open",
         recv' = "running" => recv = "running",
         kaCur \in Keepalives /\ state' = "STREAMING" /\ conn' = "open" /\ recv' = "running" =>
            ka'[kaCur] = ka[kaCur]
  PROVE  AliveInv'
  BY DEF AliveInv

LEMMA AliveKeepalive ==
  ASSUME TypeOK, AliveInv, NEW t \in Keepalives, Keepalive(t)
  PROVE  AliveInv'
  <1>0. UNCHANGED <<kaCur, state, recv>> /\ DOMAIN ka = Keepalives
    BY DEF Keepalive, KaWake, KaSettled, KaCancelled, KaEnds, KaLeaves, TypeOK
  <1>1. conn' = "open" => conn = "open"
    BY DEF Keepalive, KaWake, KaSettled, KaCancelled, KaEnds, KaLeaves, channelVars,
           Ask, AskFails
  <1>2. CASE t # kaCur
    <2>1. kaCur \in Keepalives => ka'[kaCur] = ka[kaCur]
      BY <1>0, <1>2 DEF Keepalive, KaWake, KaSettled, KaCancelled, KaEnds, KaLeaves
    <2> QED
      BY <1>0, <1>1, <2>1, AliveKept
  <1>3. CASE t = kaCur
    <2>1. ASSUME state = "STREAMING", conn' = "open", recv = "running"
          PROVE  ka'[t] \in {"sleep", "wait"}
      <3>1. ka[t] \in {"sleep", "wait"}
        BY <1>1, <1>3, <2>1 DEF AliveInv
      <3>2. CASE KaWake(t)
        BY <1>0, <2>1, <3>2 DEF KaWake, AskFails
      <3>3. CASE KaSettled(t)
        BY <1>0, <2>1, <3>3 DEF KaSettled, KaLeaves, AfterKeepalive
      <3>4. CASE KaCancelled(t) \/ KaEnds(t)
        BY <2>1, <3>1, <3>4 DEF KaCancelled, KaEnds, KaLeaves
      <3> QED
        BY <3>2, <3>3, <3>4 DEF Keepalive
    <2> QED
      BY <1>0, <1>3, <2>1 DEF AliveInv
  <1> QED
    BY <1>2, <1>3

LEMMA AliveHandled ==
  ASSUME TypeOK, TypeOK', StreamInv, AliveInv, Handling
  PROVE  AliveInv'
  <1>0. UNCHANGED <<conn, recv>> /\ Handled
    BY HandlingHandled
  <1>1. CASE HandlePlay
    <2>1. /\ Head(inbox) = Req("PLAY") /\ kaCur' = kaCur + 1
          /\ ka' = [ka EXCEPT ![kaCur + 1] = "sleep"]
      BY <1>1 DEF HandlePlay, Reply, Req
    <2>2. Requested("PLAY")
      BY <1>0, <2>1 DEF Handled, Requested
    <2>3. kaCur' \in Keepalives
      <3>1. /\ kaCur \in Nat /\ sent["PLAY"] \in Nat /\ MaxRequests["PLAY"] \in Nat
        BY MaxRequestsAssumption DEF TypeOK, SinkMethods
      <3>2. kaCur < sent["PLAY"] /\ sent["PLAY"] <= MaxRequests["PLAY"]
        BY <2>2 DEF StreamInv, PlaysInv
      <3> QED
        BY <2>1, <3>1, <3>2 DEF Keepalives
    <2> QED
      BY <2>1, <2>3 DEF AliveInv, TypeOK
  <1>2. CASE HandleResponse \/ HandleOptions \/ HandleOther \/ HandleSetup
    BY <1>0, <1>2, AliveKept
    DEF HandleResponse, HandleOptions, HandleOther, HandleSetup, taskVars
  <1>3. CASE HandleTeardown
    BY <1>3 DEF HandleTeardown, AliveInv
  <1> QED
    BY <1>1, <1>2, <1>3 DEF Handling

LEMMA AliveStep ==
  ASSUME TypeOK, TypeOK', ChannelInv, StreamInv, AliveInv, [Next]_vars
  PROVE  AliveInv'
  <1>1. CASE UNCHANGED vars
    BY <1>1, AliveKept DEF vars, sessionVars, taskVars, channelVars
  <1>2. CASE Accept
    BY <1>2 DEF Accept, AliveInv
  <1>3. CASE Handshake /\ ~Accept
    <2>1. UNCHANGED <<ka, kaCur>> /\ (recv' = "running" => recv = "running")
      BY <1>3
      DEF Handshake, AcceptTimeout, SendM1, SendM3, SendM4, SendM5, HandshakeSend,
          M1Answered, M3Answered, M4Answered, M5Answered, HandshakeTimeout,
          HandshakeAnswered, Goto, Resume, CancelRecv
    <2>2. conn' = "open" => conn = "open"
      BY <1>3
      DEF Handshake, AcceptTimeout, SendM1, SendM3, SendM4, SendM5, HandshakeSend,
          M1Answered, M3Answered, M4Answered, M5Answered, HandshakeTimeout,
          HandshakeAnswered, Goto, channelVars, Ask, AskFails
    <2>3. state' = "STREAMING" => state = "STREAMING"
      BY <1>3, HandshakeUndisturbed DEF StreamInv, Undisturbed
    <2> QED
      BY <2>1, <2>2, <2>3, AliveKept
  <1>4. CASE StartCast \/ EnableUibc \/ UibcSettled \/ SessionEnded \/ PipelineDied \/ Interrupt
    <2>1. UNCHANGED <<state, recv, ka, kaCur>>
      BY <1>4
      DEF StartCast, EnableUibc, UibcSettled, SessionEnded, PipelineDied, Interrupt,
          Goto, Resume, sessionVars
    <2>2. conn' = "open" => conn = "open"
      BY <1>4
      DEF StartCast, EnableUibc, UibcSettled, SessionEnded, PipelineDied, Interrupt,
          Goto, channelVars, Ask, AskFails
    <2> QED
      BY <2>1, <2>2, AliveKept
  <1>5. CASE Terminate \/ Exit
    BY <1>5 DEF Terminate, Exit, CancelRecv, AliveInv
  <1>6. CASE BeginTeardown \/ ChannelDown
    BY <1>6 DEF BeginTeardown, ChannelDown, AliveInv
  <1>7. CASE AlreadyTornDown \/ TriggerSettled \/ WaitClosed
    BY <1>7, AliveKept
    DEF AlreadyTornDown, TriggerSettled, WaitClosed, Goto, Resume, sessionVars,
        channelVars
  <1>8. CASE Feed \/ ReplyFails \/ Sink
    <2>1. UNCHANGED <<state, recv, ka, kaCur>> /\ (conn' = "open" => conn = "open")
      BY <1>8
      DEF Feed, ReplyFails, Sink, SinkAnswer, SinkRequest, SinkClose, sessionVars, taskVars
    <2> QED
      BY <2>1, AliveKept
  <1> QED
    BY <1>1, <1>2, <1>3, <1>4, <1>5, <1>6, <1>7, <1>8, AliveHandled, AliveKeepalive
    DEF Next, Terminated, Teardown, Dispatch, Handling

(* The inductive invariant behind KeepaliveAlive.                          *)
THEOREM AliveCorrect == Spec => []AliveInv
  <1>1. Init => AliveInv
    BY DEF Init, AliveInv
  <1>2. TypeOK /\ TypeOK' /\ ChannelInv /\ StreamInv /\ AliveInv /\ [Next]_vars => AliveInv'
    BY AliveStep
  <1> QED
    BY <1>1, <1>2, TypeCorrect, ChannelCorrect, StreamCorrect, PTL DEF Spec

(* While the session streams to a sink that is there, the keepalive task   *)
(* of the last PLAY lives, however many times the sink plays and whatever  *)
(* keepalive of an earlier task times out.                                 *)
THEOREM KeepaliveLives == Spec => []KeepaliveAlive
  <1>1. AliveInv => KeepaliveAlive
    BY DEF AliveInv, KeepaliveAlive
  <1> QED
    BY <1>1, AliveCorrect, PTL

-----------------------------------------------------------------------------
(* Behind the refinement: while the source still serves, nothing plays.    *)
(* The sink asks for a SETUP only when M5 has triggered it, the answer to  *)
(* M5 comes before that SETUP, and the receive loop reads on only when     *)
(* that answer has taken the handshake to its end.                         *)
Serving == {"listen", "accepted", "m1", "m1done", "m3", "m3done", "m4", "m4done", "m5"}

IsM5(msg) == msg.type = "resp" /\ msg.kind = "M5"

M5Unasked ==
    /\ ~triggered
    /\ \A i \in 1..Len(asked) : asked[i].kind # "M5"
    /\ \A i \in 1..Len(Stream) : ~IsM5(Stream[i])

M5Unanswered ==
    /\ \A i \in 1..Len(asked) : asked[i].kind = "M5" => asked[i].cseq = call[Main].cseq
    /\ \A i \in 1..Len(Stream) : IsM5(Stream[i]) => Stream[i].cseq = call[Main].cseq
    /\ replied["SETUP"] = 0
    /\ conn = "open" /\ triggered => \E i \in 1..Len(Stream) : IsM5(Stream[i])
    /\ \A i \in 1..Len(Stream) : Stream[i] = Req("SETUP") =>
          \E j \in 1..Len(Stream) : j < i /\ IsM5(Stream[j])

ServingInv ==
    /\ pc \in Serving \ {"m5"} => M5Unasked
    /\ pc = "m5" => Waiting(Main) /\ (~Answered(Main) => M5Unanswered)
    /\ pc \in Serving =>
          kaCur = 0 /\ \A i \in 1..Len(inbox) : inbox[i] # Req("PLAY")

LEMMA ServingOver ==
  ASSUME pc' \notin Serving
  PROVE  ServingInv'
  BY DEF ServingInv, Serving

(* Without a SETUP nothing plays.                                          *)
LEMMA NothingPlays ==
  ASSUME TypeOK, StreamInv, replied["SETUP"] = 0
  PROVE  kaCur = 0 /\ ~Requested("PLAY")
  BY DEF StreamInv, SetupsInv, PlaysInv, TypeOK

LEMMA UnaskedPlays ==
  ASSUME TypeOK, StreamInv, ~triggered
  PROVE  kaCur = 0 /\ ~Requested("PLAY") /\ ~Requested("SETUP") /\ replied["SETUP"] = 0
  BY NothingPlays DEF StreamInv, SetupsInv, TypeOK, SinkMethods

LEMMA NoPlayInChunk ==
  ASSUME TypeOK, ~Requested("PLAY")
  PROVE  \A i \in 1..Len(inbox) : inbox[i] # Req("PLAY")
  BY StreamType DEF Requested

LEMMA M5UnaskedKept ==
  ASSUME TypeOK, M5Unasked, Kept \/ Handled \/ \E m \in SinkMethods : Added(Req(m)),
         triggered' = triggered, asked' = asked \/ asked' = <<>>
  PROVE  M5Unasked'
  <1>1. \A m : ~IsM5(Req(m))
    BY DEF IsM5, Req
  <1>2. \A i \in 1..Len(Stream') :
          \/ Stream'[i] \in {Req(m) : m \in SinkMethods}
          \/ \E j \in 1..Len(Stream) : Stream'[i] = Stream[j]
    <2>1. CASE Kept
      BY <2>1, StreamType DEF Kept
    <2>2. CASE Handled
      <3>1. \A i \in 1..Len(Stream') : i + 1 \in 1..Len(Stream) /\ Stream'[i] = Stream[i + 1]
        BY <2>2, StreamType DEF Handled
      <3> QED
        BY <3>1
    <2>3. ASSUME NEW m \in SinkMethods, Added(Req(m))
          PROVE  \A i \in 1..Len(Stream') :
                    \/ Stream'[i] = Req(m)
                    \/ \E j \in 1..Len(Stream) : Stream'[i] = Stream[j]
      BY <2>3, StreamType DEF Added
    <2> QED
      BY <2>1, <2>2, <2>3
  <1>3. \A i \in 1..Len(Stream') : ~IsM5(Stream'[i])
    BY <1>1, <1>2 DEF M5Unasked
  <1>4. \A i \in 1..Len(asked') : asked'[i].kind # "M5"
    BY DEF M5Unasked
  <1> QED
    BY <1>3, <1>4 DEF M5Unasked, IsM5

LEMMA ServingHandshake ==
  ASSUME TypeOK, TypeOK', ChannelInv, StreamInv, TasksInv, ServingInv, Handshake
  PROVE  ServingInv'
  <1>0. /\ Kept /\ UNCHANGED <<kaCur, triggered, sent, replied>>
        /\ asked \in Seq([cseq : Nat, kind : Kinds])
    BY HandshakeUndisturbed DEF StreamInv, Undisturbed, TypeOK
  <1>1. ASSUME pc \in Serving \ {"m5"}
        PROVE  /\ M5Unasked /\ kaCur' = 0 /\ replied["SETUP"] = 0 /\ ~Requested("SETUP")
               /\ inbox' = inbox => \A i \in 1..Len(inbox') : inbox'[i] # Req("PLAY")
    BY <1>0, <1>1, UnaskedPlays, NoPlayInChunk DEF ServingInv, M5Unasked
  <1>2. CASE Accept \/ M1Answered \/ M3Answered \/ M4Answered
    <2>1. /\ UNCHANGED <<asked, inbox>> /\ pc \in Serving \ {"m5"} /\ pc' # "m5"
      BY <1>2
      DEF Accept, M1Answered, M3Answered, M4Answered, HandshakeAnswered, Resume, sinkVars,
          Serving
    <2>2. M5Unasked'
      BY <1>0, <1>1, <2>1, M5UnaskedKept
    <2> QED
      BY <1>1, <2>1, <2>2 DEF ServingInv
  <1>3. CASE AcceptTimeout \/ M5Answered \/ HandshakeTimeout
    <2>1. pc' \in {"unwind", "poll"}
      BY <1>3 DEF AcceptTimeout, M5Answered, HandshakeTimeout, HandshakeAnswered, Resume, Goto
    <2> QED
      BY <2>1, ServingOver DEF Serving
  <1>4. ASSUME NEW from \in {"accepted", "m1done", "m3done"},
               NEW to \in {"m1", "m3", "m4"}, NEW s, NEW kind \in {"M1", "M3", "M4"},
               HandshakeSend(from, to, s, kind)
        PROVE  ServingInv'
    <2>1. CASE Ask(Main, kind) /\ pc' = to
      <3>1. M5Unasked /\ inbox' = inbox /\ pc \in Serving \ {"m5"}
        BY <1>1, <1>4 DEF HandshakeSend, Serving
      <3>2. \A i \in 1..Len(asked') : asked'[i].kind # "M5"
        <4>1. \/ asked' = asked
              \/ asked' = Append(asked, [cseq |-> cseq + 1, kind |-> kind])
          BY <2>1, CallFacts DEF Ask
        <4>2. [cseq |-> cseq + 1, kind |-> kind] \in [cseq : Nat, kind : Kinds]
          BY CallFacts DEF Kinds
        <4>3. CASE asked' = Append(asked, [cseq |-> cseq + 1, kind |-> kind])
          <5>1. /\ Len(asked') = Len(asked) + 1 /\ Len(asked) \in Nat
                /\ \A i \in 1..Len(asked) : asked'[i] = asked[i]
                /\ asked'[Len(asked) + 1] = [cseq |-> cseq + 1, kind |-> kind]
            BY <1>0, <4>2, <4>3, AppendProperties
          <5>2. \A i \in 1..Len(asked') : i \in 1..Len(asked) \/ i = Len(asked) + 1
            BY <5>1
          <5> QED
            BY <3>1, <5>1, <5>2 DEF M5Unasked
        <4> QED
          BY <3>1, <4>1, <4>3 DEF M5Unasked
      <3>3. ~triggered' /\ \A i \in 1..Len(Stream') : ~IsM5(Stream'[i])
        BY <1>0, <3>1, StreamType DEF M5Unasked, Kept
      <3>4. M5Unasked'
        BY <3>2, <3>3 DEF M5Unasked, IsM5
      <3> QED
        BY <1>1, <2>1, <3>1, <3>4 DEF ServingInv
    <2>2. CASE pc' = "unwind"
      BY <2>2, ServingOver DEF Serving
    <2> QED
      BY <1>4, <2>1, <2>2 DEF HandshakeSend
  <1>5. CASE SendM1 \/ SendM3 \/ SendM4
    BY <1>4, <1>5 DEF SendM1, SendM3, SendM4
  <1>6. CASE SendM5
    <2>1. /\ pc = "m4done" /\ UNCHANGED inbox
          /\ \/ Ask(Main, "M5") /\ pc' = "m5"
             \/ pc' = "unwind"
      BY <1>6 DEF SendM5, HandshakeSend
    <2>2. CASE Ask(Main, "M5") /\ pc' = "m5"
      <3>1. M5Unasked /\ pc \in Serving \ {"m5"}
        BY <1>1, <2>1 DEF Serving
      <3>2. call'[Main] = [cseq |-> cseq + 1, kind |-> "M5", answer |-> "none"]
        BY <2>2, AskNumbers, TasksType DEF Kinds
      <3>3. \A i \in 1..Len(asked') : asked'[i].kind = "M5" => asked'[i].cseq = call'[Main].cseq
        <4>1. \/ asked' = asked
              \/ asked' = Append(asked, [cseq |-> cseq + 1, kind |-> "M5"])
          BY <2>2, CallFacts DEF Ask
        <4>2. [cseq |-> cseq + 1, kind |-> "M5"] \in [cseq : Nat, kind : Kinds]
          BY CallFacts DEF Kinds
        <4>3. CASE asked' = Append(asked, [cseq |-> cseq + 1, kind |-> "M5"])
          <5>1. /\ Len(asked') = Len(asked) + 1 /\ Len(asked) \in Nat
                /\ \A i \in 1..Len(asked) : asked'[i] = asked[i]
                /\ asked'[Len(asked) + 1] = [cseq |-> cseq + 1, kind |-> "M5"]
            BY <1>0, <4>2, <4>3, AppendProperties
          <5>2. \A i \in 1..Len(asked') : i \in 1..Len(asked) \/ i = Len(asked) + 1
            BY <5>1
          <5> QED
            BY <3>1, <3>2, <5>1, <5>2 DEF M5Unasked
        <4> QED
          BY <3>1, <4>1, <4>3 DEF M5Unasked
      <3>4. \A i \in 1..Len(Stream') : ~IsM5(Stream'[i]) /\ Stream'[i] # Req("SETUP")
        BY <1>0, <1>1, <3>1, StreamType DEF M5Unasked, Kept, Requested
      <3>5. M5Unanswered'
        BY <1>0, <1>1, <3>1, <3>3, <3>4 DEF M5Unasked, M5Unanswered, IsM5, Req
      <3>6. Waiting(Main)'
        BY <3>2, CallFacts DEF Waiting, NoCall
      <3> QED
        BY <1>1, <2>1, <2>2, <3>1, <3>5, <3>6 DEF ServingInv
    <2> QED
      BY <2>1, <2>2, ServingOver DEF Serving
  <1> QED
    BY <1>2, <1>3, <1>5, <1>6 DEF Handshake

(* Steps that leave the serving source where it is.                        *)
LEMMA ServingUnmoved ==
  ASSUME TypeOK, StreamInv, ServingInv,
         UNCHANGED <<pc, kaCur, call, triggered, replied>>,
         Kept, Stream' = Stream \/ conn' # "open", conn' = "open" => conn = "open",
         asked' = asked \/ asked' = <<>>,
         \A i \in 1..Len(inbox') : inbox'[i] = Req("PLAY") /\ pc \in Serving =>
             \E j \in 1..Len(inbox) : inbox[j] = Req("PLAY")
  PROVE  ServingInv'
  <1>1. ASSUME pc \in Serving \ {"m5"} PROVE M5Unasked'
    BY <1>1, M5UnaskedKept DEF ServingInv
  <1>2. ASSUME pc = "m5", ~Answered(Main) PROVE M5Unanswered'
    <2>1. M5Unanswered
      BY <1>2 DEF ServingInv
    <2>2. /\ Len(Stream') \in 0..Len(Stream) /\ Len(Stream) \in Nat
          /\ \A i \in 1..Len(Stream') : i \in 1..Len(Stream) /\ Stream'[i] = Stream[i]
      BY StreamType DEF Kept
    <2>3. \A i \in 1..Len(asked') : asked'[i].kind = "M5" => asked'[i].cseq = call'[Main].cseq
      BY <2>1 DEF M5Unanswered
    <2>4. \A i \in 1..Len(Stream') : IsM5(Stream'[i]) => Stream'[i].cseq = call'[Main].cseq
      BY <2>1, <2>2 DEF M5Unanswered
    <2>5. conn' = "open" /\ triggered' => \E i \in 1..Len(Stream') : IsM5(Stream'[i])
      BY <2>1 DEF M5Unanswered
    <2>6. ASSUME NEW i \in 1..Len(Stream'), Stream'[i] = Req("SETUP")
          PROVE  \E j \in 1..Len(Stream') : j < i /\ IsM5(Stream'[j])
      <3>1. PICK j \in 1..Len(Stream) : j < i /\ IsM5(Stream[j])
        BY <2>1, <2>2, <2>6 DEF M5Unanswered
      <3>2. j \in 1..Len(Stream')
        BY <2>2, <3>1
      <3> QED
        BY <2>2, <3>1, <3>2
    <2> QED
      BY <2>1, <2>3, <2>4, <2>5, <2>6 DEF M5Unanswered, IsM5, Req
  <1> QED
    BY <1>1, <1>2 DEF ServingInv, Waiting, Answered, Serving

-----------------------------------------------------------------------------
LEMMA ServingLoop ==
  ASSUME TypeOK, TypeOK', ChannelInv, StreamInv, ServingInv,
         Feed \/ ChannelDown \/ ReplyFails
  PROVE  ServingInv'
  <1>1. CASE ChannelDown
    <2>1. UNCHANGED <<pc, kaCur, call, triggered, replied, inbox, wire, conn, asked>>
      BY <1>1 DEF ChannelDown, channelVars, sinkVars
    <2>2. Kept /\ Stream' = Stream
      BY <2>1, NothingMoved DEF Stream
    <2> QED
      BY <2>1, <2>2, ServingUnmoved
  <1>2. CASE ReplyFails
    <2>1. /\ UNCHANGED <<pc, kaCur, call, triggered, replied, asked>>
          /\ inbox' = <<>> /\ wire' = <<>> /\ conn' = "lost"
      BY <1>2 DEF ReplyFails, sessionVars, taskVars, sinkVars
    <2>2. Kept /\ Len(inbox') = 0
      BY <2>1, RestDropped
    <2> QED
      BY <2>1, <2>2, ServingUnmoved
  <1>3. CASE Feed
    <2>1. /\ UNCHANGED <<pc, kaCur, call, triggered, replied, asked, conn>>
          /\ Kept /\ Stream' = Stream /\ ~Answered(Main)
      BY <1>3, FeedKeeps, TasksType DEF Feed, sessionVars, taskVars, sinkVars, Woken
    <2>2. ASSUME pc \in Serving PROVE ~Requested("PLAY")
      BY <2>1, <2>2, UnaskedPlays, NothingPlays
      DEF ServingInv, M5Unasked, M5Unanswered, Serving
    <2>3. \A i \in 1..Len(inbox') : i \in 1..Len(Stream) /\ Stream[i] = inbox'[i]
      <3>1. inbox' \in Seq(Messages) /\ wire' \in Seq(Messages)
        BY DEF TypeOK
      <3>2. \A i \in 1..Len(inbox') :
              i \in 1..Len(inbox' \o wire') /\ (inbox' \o wire')[i] = inbox'[i]
        BY <3>1, JoinProperties
      <3>3. inbox' \o wire' = Stream
        BY <2>1 DEF Stream
      <3> QED
        BY <3>2, <3>3
    <2> QED
      BY <2>1, <2>2, <2>3, ServingUnmoved DEF Requested
  <1> QED
    BY <1>1, <1>2, <1>3

LEMMA InboxHead ==
  ASSUME TypeOK, Handling
  PROVE  /\ 1 \in 1..Len(inbox) /\ inbox[1] = Head(inbox)
         /\ Head(inbox) \in Messages
         /\ \A i \in 1..Len(inbox') : i + 1 \in 1..Len(inbox) /\ inbox'[i] = inbox[i + 1]
  <1>1. inbox \in Seq(Messages) /\ inbox # <<>> /\ inbox' = Tail(inbox)
    BY DEF TypeOK, Handling, HandleResponse, HandleOptions, HandleOther, HandleSetup,
           HandlePlay, HandleTeardown, Reply
  <1> QED
    BY <1>1, HeadTailProperties

(* An answer wakes its task and no other is put to sleep.                  *)
LEMMA HandlingAnswers ==
  ASSUME TypeOK, Handling, NEW t \in Tasks
  PROVE  /\ call'[t].cseq = call[t].cseq
         /\ Waiting(t) => Waiting(t)'
         /\ Answered(t) => Answered(t)'
         /\ Awaiting(t) /\ Entry(t) \in pending /\ Head(inbox).type = "resp"
            /\ Head(inbox).cseq = call[t].cseq => Answered(t)'
  <1>1. CASE HandleResponse
    <2> DEFINE number == Head(inbox).cseq
               owners == {p.task : p \in {q \in pending : q.cseq = number}}
    <2>1. Head(inbox).kind # "none"
      <3>1. Head(inbox) \in Messages /\ Head(inbox).type = "resp"
        BY <1>1, InboxHead DEF HandleResponse
      <3> QED
        BY <3>1 DEF Messages, Responses, Requests, Kinds
    <2>2. call'[t] = IF t \in owners /\ call[t].cseq = number
                       THEN [call[t] EXCEPT !.answer = Head(inbox).kind]
                       ELSE call[t]
      BY <1>1 DEF HandleResponse
    <2>3. call[t] \in Calls
      BY DEF TypeOK
    <2>4. Entry(t).task = t /\ Entry(t).cseq = call[t].cseq
      BY DEF Entry
    <2>5. Entry(t) \in pending /\ number = call[t].cseq => t \in owners
      BY <2>4
    <2> HIDE DEF owners, number
    <2>6. CASE t \in owners /\ call[t].cseq = number
      <3>1. call'[t].answer = Head(inbox).kind /\ call'[t].cseq = call[t].cseq
        BY <2>2, <2>3, <2>6 DEF Calls
      <3> QED
        BY <2>1, <3>1 DEF Answered, Waiting, NoCall
    <2>7. CASE ~(t \in owners /\ call[t].cseq = number)
      BY <2>2, <2>5, <2>7 DEF Answered, Waiting, number
    <2> QED
      BY <2>6, <2>7
  <1>2. CASE HandleOptions \/ HandleOther \/ HandleSetup \/ HandlePlay \/ HandleTeardown
    <2>1. call' = call /\ Head(inbox).type = "req"
      BY <1>2
      DEF HandleOptions, HandleOther, HandleSetup, HandlePlay, HandleTeardown, Reply
    <2> QED
      BY <2>1 DEF Answered, Waiting
  <1> QED
    BY <1>1, <1>2 DEF Handling

LEMMA ServingHandled ==
  ASSUME TypeOK, TypeOK', ChannelInv, StreamInv, PendingInv, ServingInv, Handling
  PROVE  ServingInv'
  <1>0. /\ Handled /\ UNCHANGED <<pc, triggered, conn, asked>>
        /\ 1 \in 1..Len(Stream) /\ Stream[1] = Head(inbox)
        /\ \A i \in 1..Len(Stream') : i + 1 \in 1..Len(Stream) /\ Stream'[i] = Stream[i + 1]
        /\ Main \in Tasks /\ Len(Stream) \in Nat /\ Len(Stream') = Len(Stream) - 1
    <2>1. Handled /\ UNCHANGED <<pc, triggered, conn>>
      BY HandlingHandled
    <2>2. asked' = asked
      BY DEF Handling, HandleResponse, HandleOptions, HandleOther, HandleSetup,
             HandlePlay, HandleTeardown, Reply, sinkVars
    <2> QED
      BY <2>1, <2>2, StreamType, TasksType DEF Handled
  <1>1. ASSUME pc \in Serving \ {"m5"} PROVE M5Unasked'
    BY <1>0, <1>1, M5UnaskedKept DEF ServingInv
  <1>2. ASSUME pc = "m5", ~Answered(Main)' PROVE M5Unanswered'
    <2>1. /\ M5Unanswered /\ Awaiting(Main) /\ Entry(Main) \in pending
          /\ call'[Main].cseq = call[Main].cseq
      BY <1>0, <1>2, HandlingAnswers DEF ServingInv, PendingInv, Awaiting
    <2>2. ~IsM5(Stream[1])
      BY <1>0, <1>2, <2>1, HandlingAnswers DEF M5Unanswered, IsM5
    <2>3. Head(inbox) # Req("SETUP")
      BY <1>0, <2>1 DEF M5Unanswered
    <2>4. replied'["SETUP"] = 0
      BY <2>1, <2>3, HandlingReplies DEF M5Unanswered, SinkMethods
    <2>5. ASSUME NEW j \in 1..Len(Stream), IsM5(Stream[j])
          PROVE  j - 1 \in 1..Len(Stream') /\ IsM5(Stream'[j - 1])
      <3>1. j # 1
        BY <2>2, <2>5
      <3>2. j - 1 \in 1..Len(Stream') /\ (j - 1) + 1 = j
        BY <1>0, <3>1
      <3> QED
        BY <1>0, <2>5, <3>2
    <2>6. \A i \in 1..Len(asked') : asked'[i].kind = "M5" => asked'[i].cseq = call'[Main].cseq
      BY <1>0, <2>1 DEF M5Unanswered
    <2>7. \A i \in 1..Len(Stream') : IsM5(Stream'[i]) => Stream'[i].cseq = call'[Main].cseq
      BY <1>0, <2>1 DEF M5Unanswered
    <2>8. conn' = "open" /\ triggered' => \E i \in 1..Len(Stream') : IsM5(Stream'[i])
      BY <1>0, <2>1, <2>5 DEF M5Unanswered
    <2>9. ASSUME NEW i \in 1..Len(Stream'), Stream'[i] = Req("SETUP")
          PROVE  \E j \in 1..Len(Stream') : j < i /\ IsM5(Stream'[j])
      <3>1. PICK j \in 1..Len(Stream) : j < i + 1 /\ IsM5(Stream[j])
        BY <1>0, <2>1, <2>9 DEF M5Unanswered
      <3>2. j - 1 < i
        BY <3>1
      <3> QED
        BY <2>5, <3>1, <3>2
    <2> QED
      BY <2>4, <2>6, <2>7, <2>8, <2>9 DEF M5Unanswered, IsM5, Req
  <1>3. pc = "m5" => Waiting(Main)'
    BY <1>0, HandlingAnswers DEF ServingInv
  <1>4. ASSUME pc \in Serving
        PROVE  kaCur' = 0 /\ \A i \in 1..Len(inbox') : inbox'[i] # Req("PLAY")
    <2>1. kaCur = 0 /\ \A i \in 1..Len(inbox) : inbox[i] # Req("PLAY")
      BY <1>4 DEF ServingInv
    <2>2. Head(inbox) # Req("PLAY")
      BY <2>1, InboxHead
    <2>3. kaCur' = 0
      BY <2>1, <2>2, HandlingCounts
    <2>4. \A i \in 1..Len(inbox') : inbox'[i] # Req("PLAY")
      <3> SUFFICES ASSUME NEW i \in 1..Len(inbox') PROVE inbox'[i] # Req("PLAY")
        OBVIOUS
      <3>1. i + 1 \in 1..Len(inbox) /\ inbox'[i] = inbox[i + 1]
        BY InboxHead
      <3> QED
        BY <2>1, <3>1
    <2> QED
      BY <2>3, <2>4
  <1>5. pc' = "m5" => Waiting(Main)' /\ (~Answered(Main)' => M5Unanswered')
    BY <1>0, <1>2, <1>3
  <1>6. pc' = pc
    BY <1>0
  <1> QED
    BY <1>1, <1>4, <1>5, <1>6 DEF ServingInv

LEMMA ServingSink ==
  ASSUME TypeOK, TypeOK', ChannelInv, StreamInv, ServingInv, Sink
  PROVE  ServingInv'
  <1>0. UNCHANGED <<pc, kaCur, call, replied, inbox>> /\ Len(Stream) \in Nat
    BY StreamType DEF Sink, SinkAnswer, SinkRequest, SinkClose, sessionVars, taskVars
  <1>1. CASE SinkClose
    <2>1. /\ triggered' = triggered /\ asked' = <<>> /\ conn' # "open" /\ Kept
      BY <1>1, RestDropped, NothingMoved DEF SinkClose
    <2> QED
      BY <1>0, <2>1, ServingUnmoved
  <1>2. CASE SinkAnswer
    <2> DEFINE msg == [type |-> "resp", cseq |-> Head(asked).cseq, kind |-> Head(asked).kind]
    <2>1. /\ asked \in Seq([cseq : Nat, kind : Kinds]) /\ asked # <<>>
          /\ triggered' = (triggered \/ Head(asked).kind = "M5")
          /\ asked' = Tail(asked) /\ conn' = conn
      BY <1>2 DEF TypeOK, SinkAnswer
    <2>2. /\ Head(asked) \in [cseq : Nat, kind : Kinds] /\ Head(asked) = asked[1]
          /\ 1 \in 1..Len(asked)
          /\ \A i \in 1..Len(asked') : i + 1 \in 1..Len(asked) /\ asked'[i] = asked[i + 1]
      <3>0. Head(asked) \in [cseq : Nat, kind : Kinds]
        BY <2>1, HeadTailProperties
      <3>1. /\ Head(asked) = asked[1] /\ Len(asked) \in Nat /\ Len(asked) # 0
            /\ Len(asked') = Len(asked) - 1
            /\ \A i \in 1..Len(asked') : asked'[i] = asked[i + 1]
        BY <2>1, HeadTailProperties
      <3>2. 1 \in 1..Len(asked)
        BY <3>1
      <3>3. \A i \in 1..Len(asked') : i + 1 \in 1..Len(asked)
        BY <3>1
      <3> QED
        BY <3>0, <3>1, <3>2, <3>3
    <2>3. Added(msg)
      <3>1. msg \in Messages
        BY <2>2 DEF Messages, Responses
      <3> QED
        BY <1>2, <3>1, TailAdded DEF SinkAnswer
    <2>4. \A i \in 1..Len(Stream') :
            \/ i \in 1..Len(Stream) /\ Stream'[i] = Stream[i]
            \/ i = Len(Stream) + 1 /\ Stream'[i] = msg
      BY <1>0, <2>3 DEF Added
    <2>5. /\ \A i \in 1..Len(Stream) : i \in 1..Len(Stream') /\ Stream'[i] = Stream[i]
          /\ Len(Stream) + 1 \in 1..Len(Stream') /\ Stream'[Len(Stream) + 1] = msg
      BY <1>0, <2>3 DEF Added
    <2>6. (IsM5(msg) <=> Head(asked).kind = "M5") /\ msg # Req("SETUP")
          /\ msg.cseq = Head(asked).cseq
      BY DEF IsM5, Req
    <2> HIDE DEF msg
    <2>7. ASSUME pc \in Serving \ {"m5"} PROVE M5Unasked'
      <3>1. M5Unasked /\ Head(asked).kind # "M5"
        BY <2>2, <2>7 DEF ServingInv, M5Unasked
      <3>2. \A i \in 1..Len(Stream') : ~IsM5(Stream'[i])
        BY <2>4, <2>6, <3>1 DEF M5Unasked
      <3>3. ~triggered' /\ \A i \in 1..Len(asked') : asked'[i].kind # "M5"
        BY <2>1, <2>2, <3>1 DEF M5Unasked
      <3> QED
        BY <3>2, <3>3 DEF M5Unasked, IsM5
    <2>8. ASSUME pc = "m5", ~Answered(Main) PROVE M5Unanswered'
      <3>1. M5Unanswered
        BY <2>8 DEF ServingInv
      <3>2. \A i \in 1..Len(asked') : asked'[i].kind = "M5" => asked'[i].cseq = call'[Main].cseq
        BY <1>0, <2>2, <3>1 DEF M5Unanswered
      <3>3. \A i \in 1..Len(Stream') : IsM5(Stream'[i]) => Stream'[i].cseq = call'[Main].cseq
        BY <1>0, <2>2, <2>4, <2>6, <3>1 DEF M5Unanswered
      <3>4. conn' = "open" /\ triggered' => \E i \in 1..Len(Stream') : IsM5(Stream'[i])
        BY <2>1, <2>5, <2>6, <3>1 DEF M5Unanswered
      <3>5. ASSUME NEW i \in 1..Len(Stream'), Stream'[i] = Req("SETUP")
            PROVE  \E j \in 1..Len(Stream') : j < i /\ IsM5(Stream'[j])
        <4>1. i \in 1..Len(Stream) /\ Stream[i] = Req("SETUP")
          BY <2>4, <2>6, <3>5
        <4>2. PICK j \in 1..Len(Stream) : j < i /\ IsM5(Stream[j])
          BY <3>1, <4>1 DEF M5Unanswered
        <4> QED
          BY <2>5, <4>2
      <3> QED
        BY <1>0, <3>1, <3>2, <3>3, <3>4, <3>5 DEF M5Unanswered, IsM5, Req
    <2> QED
      BY <1>0, <2>7, <2>8 DEF ServingInv, Waiting, Answered
  <1>3. ASSUME NEW m \in SinkMethods, SinkRequest(m)
        PROVE  ServingInv'
    <2>1. /\ Added(Req(m)) /\ UNCHANGED <<conn, asked, triggered>> /\ conn = "open"
          /\ m = "SETUP" => triggered
      <3>1. Req(m) \in Messages
        BY DEF Req, Messages, Requests
      <3> QED
        BY <1>3, <3>1, TailAdded DEF SinkRequest, Req
    <2>2. \A i \in 1..Len(Stream') :
            \/ i \in 1..Len(Stream) /\ Stream'[i] = Stream[i]
            \/ i = Len(Stream) + 1 /\ Stream'[i] = Req(m)
      BY <1>0, <2>1 DEF Added
    <2>3. \A i \in 1..Len(Stream) : i \in 1..Len(Stream') /\ Stream'[i] = Stream[i]
      BY <1>0, <2>1 DEF Added
    <2>4. ~IsM5(Req(m)) /\ (Req(m) = Req("SETUP") => m = "SETUP")
      BY DEF IsM5, Req
    <2>5. ASSUME pc \in Serving \ {"m5"} PROVE M5Unasked'
      BY <2>1, <2>5, M5UnaskedKept DEF ServingInv
    <2>6. ASSUME pc = "m5", ~Answered(Main) PROVE M5Unanswered'
      <3>1. M5Unanswered
        BY <2>6 DEF ServingInv
      <3>2. \A i \in 1..Len(asked') : asked'[i].kind = "M5" => asked'[i].cseq = call'[Main].cseq
        BY <1>0, <2>1, <3>1 DEF M5Unanswered
      <3>3. \A i \in 1..Len(Stream') : IsM5(Stream'[i]) => Stream'[i].cseq = call'[Main].cseq
        BY <1>0, <2>2, <2>4, <3>1 DEF M5Unanswered
      <3>4. conn' = "open" /\ triggered' => \E i \in 1..Len(Stream') : IsM5(Stream'[i])
        BY <2>1, <2>3, <3>1 DEF M5Unanswered
      <3>5. ASSUME NEW i \in 1..Len(Stream'), Stream'[i] = Req("SETUP")
            PROVE  \E j \in 1..Len(Stream') : j < i /\ IsM5(Stream'[j])
        <4>1. CASE i \in 1..Len(Stream) /\ Stream[i] = Req("SETUP")
          <5>1. PICK j \in 1..Len(Stream) : j < i /\ IsM5(Stream[j])
            BY <3>1, <4>1 DEF M5Unanswered
          <5> QED
            BY <2>3, <5>1
        <4>2. CASE i = Len(Stream) + 1 /\ m = "SETUP"
          <5>1. PICK j \in 1..Len(Stream) : IsM5(Stream[j])
            BY <2>1, <3>1, <4>2 DEF M5Unanswered
          <5>2. j < i
            BY <1>0, <4>2, <5>1
          <5> QED
            BY <2>3, <5>1, <5>2
        <4> QED
          BY <2>2, <2>4, <3>5, <4>1, <4>2
      <3> QED
        BY <1>0, <3>1, <3>2, <3>3, <3>4, <3>5 DEF M5Unanswered, IsM5, Req
    <2> QED
      BY <1>0, <2>5, <2>6 DEF ServingInv, Waiting, Answered
  <1> QED
    BY <1>1, <1>2, <1>3 DEF Sink

LEMMA ServingStep ==
  ASSUME TypeOK, TypeOK', ChannelInv, StreamInv, TasksInv, PendingInv, ServingInv,
         [Next]_vars
  PROVE  ServingInv'
  <1>1. CASE UNCHANGED vars
    <2>1. /\ UNCHANGED <<pc, kaCur, call, triggered, replied, inbox, wire, conn, asked>>
          /\ Kept /\ Stream' = Stream
      BY <1>1, NothingMoved DEF vars, sessionVars, taskVars, channelVars, sinkVars, Stream
    <2> QED
      BY <2>1, ServingUnmoved
  <1>2. CASE \/ StartCast \/ EnableUibc \/ UibcSettled \/ SessionEnded
             \/ PipelineDied \/ Interrupt \/ Terminate \/ Teardown
    <2>1. pc' \in {"poll", "startUibc", "uibc", "unwind", "returned", "trigger",
                   "closing", "exited"}
      BY <1>2
      DEF StartCast, EnableUibc, UibcSettled, SessionEnded, PipelineDied, Interrupt,
          Terminate, Teardown, AlreadyTornDown, BeginTeardown, TriggerSettled,
          WaitClosed, Exit, Goto, Resume
    <2> QED
      BY <2>1, ServingOver DEF Serving
  <1>3. ASSUME NEW t \in Keepalives, Keepalive(t)
        PROVE  ServingInv'
    <2>1. pc' = pc /\ ka[t] # "unborn" /\ t \in Nat /\ t > 0
      BY <1>3, NotMain
      DEF Keepalive, KaWake, KaSettled, KaCancelled, KaEnds, KaLeaves
    <2>2. pc \notin Serving
      BY <2>1 DEF TasksInv, ServingInv
    <2> QED
      BY <2>1, <2>2, ServingOver
  <1> QED
    BY <1>1, <1>2, <1>3, ServingHandshake, ServingLoop, ServingHandled, ServingSink
    DEF Next, Terminated, Dispatch, Handling

(* While the source still serves, no PLAY is acted upon and no keepalive   *)
(* task exists: the order of the answer to M5 and the SETUP it triggers,   *)
(* carried through every step.                                             *)
THEOREM ServingCorrect == Spec => []ServingInv
  <1>1. Init => ServingInv
    <2> SUFFICES ASSUME Init PROVE ServingInv
      OBVIOUS
    <2>0. <<>> \in Seq(Messages)
      OBVIOUS
    <2>1. Len(Stream) = 0 /\ Len(asked) = 0 /\ Len(inbox) = 0
      BY <2>0, JoinProperties DEF Init, Stream
    <2> QED
      BY <2>1 DEF Init, ServingInv, M5Unasked
  <1>2. /\ TypeOK /\ TypeOK' /\ ChannelInv /\ StreamInv /\ TasksInv /\ PendingInv
        /\ ServingInv /\ [Next]_vars
        => ServingInv'
    BY ServingStep
  <1> QED
    BY <1>1, <1>2, TypeCorrect, ChannelCorrect, StreamCorrect, TasksCorrect,
       PendingCorrect, PTL DEF Spec

-----------------------------------------------------------------------------
(* Behind RequestsHaveReader: whoever watches the cast has somebody that   *)
(* reads the channel, or has read its end; and where nobody ever read it,  *)
(* or the reader was cancelled, no keepalive is left to ask anything.      *)
Watching == {"poll", "startUibc", "uibc"}

ReaderInv ==
    /\ pc \in Watching => recv \in {"running", "ended"}
    /\ recv \in {"none", "cancelled"} =>
          \A t \in Keepalives : ka[t] \notin {"sleep", "wait"}

(* A source that still serves has no keepalive task.                       *)
LEMMA UnbornServing ==
  ASSUME TasksInv, ServingInv, pc \in Serving, NEW t \in Keepalives
  PROVE  ka[t] = "unborn"
  BY NotMain DEF TasksInv, ServingInv

(* The steps that leave the reader in place and wake no keepalive.         *)
LEMMA ReaderKept ==
  ASSUME ReaderInv, recv' = recv,
         pc' \in Watching => pc \in Watching,
         \A t \in Keepalives : ka'[t] \in {"sleep", "wait"} =>
            ka[t] \in {"sleep", "wait"} \/ recv = "running"
  PROVE  ReaderInv'
  BY DEF ReaderInv

LEMMA ReaderHandshake ==
  ASSUME ChannelInv, TasksInv, ServingInv, ReaderInv, Handshake
  PROVE  ReaderInv'
  <1>0. ka' = ka
    BY DEF Handshake, Accept, AcceptTimeout, SendM1, SendM3, SendM4, SendM5,
           HandshakeSend, M1Answered, M3Answered, M4Answered, M5Answered,
           HandshakeTimeout, HandshakeAnswered, Goto
  <1>1. CASE Accept
    BY <1>1 DEF Accept, ReaderInv, Watching
  <1>2. CASE AcceptTimeout \/ M1Answered \/ M3Answered \/ M4Answered
    <2>1. recv' = recv /\ pc' \notin Watching
      BY <1>2
      DEF AcceptTimeout, M1Answered, M3Answered, M4Answered, HandshakeAnswered, Goto,
          Resume, Watching
    <2> QED
      BY <1>0, <2>1, ReaderKept
  <1>3. CASE M5Answered
    <2>1. recv' = recv /\ recv = "running" /\ pc' = "poll"
      BY <1>3 DEF M5Answered, HandshakeAnswered, Resume, ChannelInv, HandshakeAwaits
    <2> QED
      BY <2>1 DEF ReaderInv, Watching
  <1>4. CASE SendM1 \/ SendM3 \/ SendM4 \/ SendM5 \/ HandshakeTimeout
    <2>1. pc \in Serving /\ pc' \notin Watching
      BY <1>4
      DEF SendM1, SendM3, SendM4, SendM5, HandshakeSend, HandshakeTimeout, Resume,
          Serving, Watching
    <2> QED
      BY <1>0, <2>1, UnbornServing DEF ReaderInv
  <1> QED
    BY <1>1, <1>2, <1>3, <1>4 DEF Handshake

LEMMA ReaderKeepalive ==
  ASSUME TypeOK, ReaderInv, NEW t \in Keepalives, Keepalive(t)
  PROVE  ReaderInv'
  <1>1. /\ UNCHANGED <<recv, pc>> /\ DOMAIN ka = Keepalives
        /\ \A u \in Keepalives : u # t => ka'[u] = ka[u]
    BY DEF Keepalive, KaWake, KaSettled, KaCancelled, KaEnds, KaLeaves, TypeOK
  <1>2. ka'[t] \in {"sleep", "wait"} => ka[t] \in {"sleep", "wait"}
    BY <1>1 DEF Keepalive, KaWake, KaSettled, KaCancelled, KaEnds, KaLeaves
  <1>3. \A u \in Keepalives : ka'[u] \in {"sleep", "wait"} => ka[u] \in {"sleep", "wait"}
    BY <1>1, <1>2
  <1> QED
    BY <1>1, <1>3, ReaderKept

LEMMA ReaderHandled ==
  ASSUME TypeOK, ChannelInv, ReaderInv, Handling
  PROVE  ReaderInv'
  <1>1. UNCHANGED <<recv, pc>>
    BY DEF Handling, HandleResponse, HandleOptions, HandleOther, HandleSetup,
           HandlePlay, HandleTeardown, Reply, taskVars
  <1>2. inbox # <<>>
    BY DEF Handling, HandleResponse, HandleOptions, HandleOther, HandleSetup,
           HandlePlay, HandleTeardown, Reply
  <1>3. recv = "running"
    BY <1>2 DEF ChannelInv
  <1> QED
    BY <1>1, <1>3, ReaderKept

LEMMA ReaderStep ==
  ASSUME TypeOK, ChannelInv, TasksInv, ServingInv, ReaderInv, [Next]_vars
  PROVE  ReaderInv'
  <1>1. CASE UNCHANGED vars
    BY <1>1, ReaderKept DEF vars, taskVars
  <1>2. CASE StartCast \/ EnableUibc \/ UibcSettled \/ SessionEnded \/ PipelineDied \/ Interrupt
    <2>1. UNCHANGED <<recv, ka>> /\ (pc' \in Watching => pc \in Watching)
      BY <1>2
      DEF StartCast, EnableUibc, UibcSettled, SessionEnded, PipelineDied, Interrupt,
          Goto, Resume, Watching
    <2> QED
      BY <2>1, ReaderKept
  <1>3. CASE Terminate \/ Exit
    <2>1. pc' \notin Watching /\ \A t \in Keepalives : ka'[t] \notin {"sleep", "wait"}
      BY <1>3 DEF Terminate, Exit, Resume, Cancelled, Watching
    <2> QED
      BY <2>1 DEF ReaderInv
  <1>4. CASE AlreadyTornDown \/ TriggerSettled \/ WaitClosed
    <2>1. UNCHANGED <<recv, ka>> /\ pc' \notin Watching
      BY <1>4 DEF AlreadyTornDown, TriggerSettled, WaitClosed, Goto, Resume, Watching
    <2> QED
      BY <2>1, ReaderKept
  <1>5. CASE BeginTeardown
    <2>1. recv' = recv /\ pc' \notin Watching
      BY <1>5 DEF BeginTeardown, Watching
    <2>2. \A t \in Keepalives : ka'[t] \in {"sleep", "wait"} => ka[t] \in {"sleep", "wait"}
      BY <1>5 DEF BeginTeardown, CancelKeepalive, Cancelled
    <2> QED
      BY <2>1, <2>2, ReaderKept
  <1>6. CASE ChannelDown
    BY <1>6 DEF ChannelDown, ReaderInv
  <1>7. CASE Feed \/ ReplyFails \/ Sink
    <2>1. UNCHANGED <<recv, ka, pc>>
      BY <1>7 DEF Feed, ReplyFails, Sink, SinkAnswer, SinkRequest, SinkClose, taskVars
    <2> QED
      BY <2>1, ReaderKept
  <1> QED
    BY <1>1, <1>2, <1>3, <1>4, <1>5, <1>6, <1>7, ReaderHandshake, ReaderKeepalive,
       ReaderHandled
    DEF Next, Terminated, Teardown, Dispatch, Handling

(* The inductive invariant behind RequestsHaveReader.                      *)
THEOREM ReaderCorrect == Spec => []ReaderInv
  <1>1. Init => ReaderInv
    BY DEF Init, ReaderInv, Watching
  <1>2. /\ TypeOK /\ ChannelInv /\ TasksInv /\ ServingInv /\ ReaderInv /\ [Next]_vars
        => ReaderInv'
    BY ReaderStep
  <1> QED
    BY <1>1, <1>2, TypeCorrect, ChannelCorrect, TasksCorrect, ServingCorrect, PTL DEF Spec

(* Who asks the sink for something.                                        *)
LEMMA ReaderAsks ==
  ASSUME TypeOK, ChannelInv, ReaderInv, [Next]_vars
  PROVE  [cseq' > cseq /\ state' # "TEARDOWN" => recv = "running"]_vars
  <1> SUFFICES ASSUME cseq' > cseq, state' # "TEARDOWN" PROVE recv = "running"
    OBVIOUS
  <1>1. cseq' # cseq
    BY DEF TypeOK
  <1>2. CASE Handshake
    <2>1. Busy
      BY <1>1, <1>2
      DEF Handshake, Accept, AcceptTimeout, SendM1, SendM3, SendM4, SendM5,
          HandshakeSend, M1Answered, M3Answered, M4Answered, M5Answered,
          HandshakeTimeout, HandshakeAnswered, Goto, Resume, sessionVars, Busy
    <2> QED
      BY <2>1 DEF ChannelInv
  <1>3. CASE EnableUibc
    <2>1. pc \in Watching /\ state' = state
      BY <1>3 DEF EnableUibc, Watching
    <2> QED
      BY <2>1 DEF ReaderInv, ChannelInv
  <1>4. CASE \E t \in Keepalives : Keepalive(t)
    <2>1. PICK t \in Keepalives : Keepalive(t)
      BY <1>4
    <2>2. ka[t] = "sleep" /\ state' = state
      BY <1>1, <2>1 DEF Keepalive, KaWake, KaSettled, KaCancelled, KaEnds, KaLeaves
    <2>3. recv \in {"none", "running", "ended", "cancelled"}
      BY DEF TypeOK
    <2> QED
      BY <2>2, <2>3 DEF ReaderInv, ChannelInv
  <1>5. ~BeginTeardown
    BY DEF BeginTeardown
  <1>6. CASE StartCast \/ UibcSettled \/ SessionEnded \/ PipelineDied \/ Interrupt
             \/ Terminate \/ AlreadyTornDown \/ TriggerSettled \/ WaitClosed \/ Exit
    BY <1>1, <1>6
    DEF StartCast, UibcSettled, SessionEnded, PipelineDied, Interrupt, Terminate,
        AlreadyTornDown, TriggerSettled, WaitClosed, Exit, Goto, Resume, sessionVars
  <1>7. CASE Feed \/ ChannelDown \/ Dispatch \/ Sink \/ UNCHANGED vars
    BY <1>1, <1>7
    DEF Feed, ChannelDown, Dispatch, HandleResponse, HandleOptions, HandleOther,
        HandleSetup, HandlePlay, HandleTeardown, ReplyFails, Reply, Sink, SinkAnswer,
        SinkRequest, SinkClose, vars, sessionVars
  <1> QED
    BY <1>2, <1>3, <1>4, <1>5, <1>6, <1>7 DEF Next, Terminated, Teardown

(* Nothing is asked of the sink that nobody would read the answer of: every*)
(* _request finds the receive loop running, except in a session that is    *)
(* already in TEARDOWN.                                                    *)
THEOREM ReaderForRequests == Spec => RequestsHaveReader
  <1>1. TypeOK /\ ChannelInv /\ ReaderInv /\ [Next]_vars
          => [cseq' > cseq /\ state' # "TEARDOWN" => recv = "running"]_vars
    BY ReaderAsks
  <1> QED
    BY <1>1, TypeCorrect, ChannelCorrect, ReaderCorrect, PTL DEF Spec, RequestsHaveReader

-----------------------------------------------------------------------------
(* The session implements the abstract cast, step by step: what each step  *)
(* of the program does to the channel, the stream and the caller.          *)

(* The steps the abstract cast does not see.                               *)
LEMMA Stutters ==
  ASSUME UNCHANGED <<recv, state, pc>>
  PROVE  UNCHANGED Cast!vars
  BY DEF Cast!vars

(* Before the handshake is over nothing streams.                           *)
LEMMA ServingSilent ==
  ASSUME StreamInv, ServingInv, pc \in Serving
  PROVE  state # "STREAMING"
  BY DEF StreamInv, PlaysInv, ServingInv

LEMMA HandshakeImplements ==
  ASSUME TypeOK, TypeOK', ChannelInv, StreamInv, ServingInv, Handshake
  PROVE  [Cast!Next]_(Cast!vars)
  <1>0. pc \in Serving /\ state # "STREAMING"
    <2>1. pc \in Serving
      BY DEF Handshake, Accept, AcceptTimeout, SendM1, SendM3, SendM4, SendM5,
             HandshakeSend, M1Answered, M3Answered, M4Answered, M5Answered,
             HandshakeTimeout, HandshakeAnswered, Goto, Serving
    <2> QED
      BY <2>1, ServingSilent
  <1>1. state' # "STREAMING"
    BY <1>0, HandshakeUndisturbed DEF StreamInv, Undisturbed
  <1>2. CASE Accept
    <2>1. recv = "none" /\ recv' = "running" /\ pc = "listen" /\ pc' = "accepted"
      BY <1>2 DEF Accept, ChannelInv
    <2>2. Cast!Open
      BY <1>0, <1>1, <2>1 DEF Cast!Open
    <2> QED
      BY <2>2 DEF Cast!Next
  <1>3. CASE M1Answered \/ M3Answered \/ M4Answered
    <2>1. recv' = recv /\ pc' \in Serving
      BY <1>3
      DEF M1Answered, M3Answered, M4Answered, HandshakeAnswered, Resume, Serving
    <2> QED
      BY <1>0, <1>1, <2>1 DEF Serving, Cast!vars
  <1>4. CASE M5Answered
    <2>1. recv' = recv /\ recv = "running" /\ pc' = "poll"
      BY <1>4 DEF M5Answered, HandshakeAnswered, Resume, ChannelInv, HandshakeAwaits
    <2>2. Cast!Watch
      BY <1>0, <1>1, <2>1 DEF Cast!Watch, Serving
    <2> QED
      BY <2>2 DEF Cast!Next
  <1>5. CASE AcceptTimeout \/ HandshakeTimeout
    <2>1. /\ recv' = recv \/ (recv = "running" /\ recv' = "cancelled")
          /\ pc' = "unwind"
      BY <1>5 DEF AcceptTimeout, HandshakeTimeout, Goto, Resume, CancelRecv
    <2>2. Cast!Leave
      BY <1>0, <1>1, <2>1 DEF Cast!Leave, Serving
    <2> QED
      BY <2>2 DEF Cast!Next
  <1>6. CASE SendM1 \/ SendM3 \/ SendM4 \/ SendM5
    <2>1. /\ recv = "running"
          /\ \/ recv' = recv /\ pc' \in Serving
             \/ recv' = "cancelled" /\ pc' = "unwind"
      BY <1>6
      DEF SendM1, SendM3, SendM4, SendM5, HandshakeSend, Serving, ChannelInv, Busy
    <2>2. CASE recv' = recv /\ pc' \in Serving
      BY <1>0, <1>1, <2>2 DEF Serving, Cast!vars
    <2>3. CASE recv' = "cancelled" /\ pc' = "unwind"
      <3>1. Cast!Leave
        BY <1>0, <1>1, <2>1, <2>3 DEF Cast!Leave, Serving
      <3> QED
        BY <3>1 DEF Cast!Next
    <2> QED
      BY <2>1, <2>2, <2>3
  <1> QED
    BY <1>2, <1>3, <1>4, <1>5, <1>6 DEF Handshake

LEMMA CastImplements ==
  ASSUME TypeOK, ChannelInv, ReaderInv,
         StartCast \/ EnableUibc \/ UibcSettled \/ SessionEnded
           \/ PipelineDied \/ Interrupt \/ Terminate
  PROVE  [Cast!Next]_(Cast!vars)
  <1>1. CASE StartCast \/ EnableUibc \/ UibcSettled
    <2>1. UNCHANGED <<recv, state>> /\ pc \in Watching /\ pc' \in Watching
      BY <1>1
      DEF StartCast, EnableUibc, UibcSettled, Resume, sessionVars, Watching
    <2> QED
      BY <2>1 DEF Watching, Cast!vars
  <1>2. CASE SessionEnded \/ PipelineDied \/ Interrupt \/ Terminate
    <2>1. /\ recv' = recv \/ (recv = "running" /\ recv' = "cancelled")
          /\ state' = state /\ pc' = "unwind"
          /\ pc \in Watching \cup {"listen", "m1", "m3", "m4", "m5"}
      BY <1>2
      DEF SessionEnded, PipelineDied, Interrupt, Terminate, Interruptible, Goto, Resume,
          CancelRecv, sessionVars, Watching
    <2>2. Cast!Leave
      BY <2>1 DEF Cast!Leave, Watching
    <2> QED
      BY <2>2 DEF Cast!Next
  <1> QED
    BY <1>1, <1>2

LEMMA TeardownImplements ==
  ASSUME TypeOK, TornInv, Teardown
  PROVE  [Cast!Next]_(Cast!vars)
  <1>1. CASE AlreadyTornDown \/ WaitClosed
    <2>1. /\ UNCHANGED <<recv, state>> /\ state = "TEARDOWN"
          /\ pc \in {"unwind", "closing"} /\ pc' = "returned"
      BY <1>1 DEF AlreadyTornDown, WaitClosed, Goto, sessionVars, TornInv
    <2>2. Cast!Quit
      BY <2>1 DEF Cast!Quit
    <2> QED
      BY <2>2 DEF Cast!Next
  <1>2. CASE BeginTeardown
    <2>1. /\ recv' = recv /\ state' = "TEARDOWN"
          /\ pc = "unwind" /\ pc' \in {"trigger", "closing"}
      BY <1>2 DEF BeginTeardown
    <2>2. CASE state = "STREAMING"
      <3>1. Cast!Stop
        BY <2>1, <2>2 DEF Cast!Stop
      <3> QED
        BY <3>1 DEF Cast!Next
    <2>3. CASE state # "STREAMING"
      BY <2>1, <2>3 DEF Cast!vars
    <2> QED
      BY <2>2, <2>3
  <1>3. CASE TriggerSettled
    <2>1. UNCHANGED <<recv, state>> /\ pc = "trigger" /\ pc' = "closing"
      BY <1>3 DEF TriggerSettled, Resume
    <2> QED
      BY <2>1 DEF Cast!vars
  <1>4. CASE Exit
    <2>1. /\ recv' = recv \/ (recv = "running" /\ recv' = "cancelled")
          /\ state' = state /\ pc = "returned" /\ pc' = "exited" /\ state = "TEARDOWN"
      BY <1>4 DEF Exit, CancelRecv, TornInv, StaysTornDown
    <2>2. CASE recv' = recv
      BY <2>1, <2>2 DEF Cast!vars
    <2>3. CASE recv = "running" /\ recv' = "cancelled"
      <3>1. Cast!Drop
        BY <2>1, <2>3 DEF Cast!Drop
      <3> QED
        BY <3>1 DEF Cast!Next
    <2> QED
      BY <2>1, <2>2, <2>3
  <1> QED
    BY <1>1, <1>2, <1>3, <1>4 DEF Teardown

(* A PLAY is acted upon only by a loop that runs, for a caller that no     *)
(* longer serves and has not left.                                         *)
LEMMA HandledImplements ==
  ASSUME TypeOK, ChannelInv, TornInv, ServingInv, Handling
  PROVE  [Cast!Next]_(Cast!vars)
  <1>0. /\ UNCHANGED <<recv, pc>> /\ inbox # <<>>
        /\ inbox[1] = Head(inbox) /\ 1 \in 1..Len(inbox)
    <2>1. UNCHANGED <<recv, pc>> /\ inbox # <<>>
      BY DEF Handling, HandleResponse, HandleOptions, HandleOther, HandleSetup,
             HandlePlay, HandleTeardown, Reply, taskVars
    <2> QED
      BY <2>1, InboxHead
  <1>1. recv = "running"
    BY <1>0 DEF ChannelInv
  <1>2. CASE HandleResponse \/ HandleOptions \/ HandleOther
    <2>1. state' = state
      BY <1>2 DEF HandleResponse, HandleOptions, HandleOther
    <2> QED
      BY <1>0, <2>1, Stutters
  <1>3. CASE HandleSetup \/ HandleTeardown
    <2>1. state' # "STREAMING"
      BY <1>3 DEF HandleSetup, HandleTeardown
    <2>2. CASE state = "STREAMING"
      <3>1. Cast!Stop
        BY <1>0, <2>1, <2>2 DEF Cast!Stop
      <3> QED
        BY <3>1 DEF Cast!Next
    <2>3. CASE state # "STREAMING"
      BY <1>0, <2>1, <2>3 DEF Cast!vars
    <2> QED
      BY <2>2, <2>3
  <1>4. CASE HandlePlay
    <2>1. state' = "STREAMING" /\ Head(inbox) = Req("PLAY")
      BY <1>4 DEF HandlePlay, Reply, Req
    <2>2. pc \notin Serving
      BY <1>0, <2>1 DEF ServingInv
    <2>3. pc \notin {"returned", "exited"}
      <3>1. /\ \E i \in 1..Len(Stream) : Stream[i] = Req("PLAY")
            /\ Req("PLAY").type # "resp"
        BY <1>0, <2>1, StreamType DEF Req
      <3>2. ~NoRequests
        BY <3>1 DEF NoRequests
      <3> QED
        BY <1>1, <3>2 DEF TornInv, StaysTornDown
    <2>4. pc \in Watching \cup {"unwind", "trigger", "closing"}
      BY <2>2, <2>3 DEF TypeOK, Serving, Watching
    <2>5. Cast!Stream
      BY <1>0, <1>1, <2>1, <2>4 DEF Cast!Stream, Watching
    <2> QED
      BY <2>5 DEF Cast!Next
  <1> QED
    BY <1>2, <1>3, <1>4 DEF Handling

LEMMA StepImplements ==
  ASSUME TypeOK, TypeOK', ChannelInv, StreamInv, TornInv, ServingInv, ReaderInv,
         [Next]_vars
  PROVE  [Cast!Next]_(Cast!vars)
  <1>1. CASE UNCHANGED vars
    BY <1>1, Stutters DEF vars, sessionVars, taskVars
  <1>2. CASE Feed \/ ReplyFails \/ Sink
    <2>1. UNCHANGED <<recv, state, pc>>
      BY <1>2
      DEF Feed, ReplyFails, Sink, SinkAnswer, SinkRequest, SinkClose, sessionVars,
          taskVars
    <2> QED
      BY <2>1, Stutters
  <1>3. CASE \E t \in Keepalives : Keepalive(t)
    <2>1. UNCHANGED <<recv, state, pc>>
      BY <1>3 DEF Keepalive, KaWake, KaSettled, KaCancelled, KaEnds, KaLeaves
    <2> QED
      BY <2>1, Stutters
  <1>4. CASE ChannelDown
    <2>1. recv = "running" /\ recv' = "ended" /\ state' = "TEARDOWN" /\ pc' = pc
      BY <1>4 DEF ChannelDown
    <2>2. Cast!Drop
      BY <2>1 DEF Cast!Drop
    <2> QED
      BY <2>2 DEF Cast!Next
  <1> QED
    BY <1>1, <1>2, <1>3, <1>4, HandshakeImplements, CastImplements, TeardownImplements,
       HandledImplements
    DEF Next, Terminated, Dispatch, Handling

(* The safety half of the refinement: a cast begins as CastSession does,   *)
(* and each of its steps is one of CastSession's or unseen by it.  So the  *)
(* channel comes up at most once, nothing streams to a caller who still    *)
(* serves or has left, and a caller leaves with the stream stopped.        *)
THEOREM CastImplemented == Spec => Cast!Init /\ [][Cast!Next]_(Cast!vars)
  <1>1. Init => Cast!Init
    BY DEF Init, Cast!Init
  <1>2. /\ TypeOK /\ TypeOK' /\ ChannelInv /\ StreamInv /\ TornInv /\ ServingInv
        /\ ReaderInv /\ [Next]_vars
        => [Cast!Next]_(Cast!vars)
    BY StepImplements
  <1> QED
    BY <1>1, <1>2, TypeCorrect, ChannelCorrect, StreamCorrect, TornCorrect,
       ServingCorrect, ReaderCorrect, PTL DEF Spec

=============================================================================
