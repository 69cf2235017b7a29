--------------------------- MODULE P2PGroup_proofs ---------------------------
(***************************************************************************)
(* Theorems about P2PGroup: whatever wpa_supplicant reports, and however   *)
(* late, the group that is up is the one P2PDevice has.                    *)
(***************************************************************************)
EXTENDS P2PGroup, SequenceTheorems, TLAPS

-----------------------------------------------------------------------------
(* The bus and the _finish_group tasks are queues.                         *)

LEMMA QueueTail ==
  ASSUME NEW S, NEW q \in Seq(S), q # <<>>
  PROVE  /\ Head(q) \in S /\ Head(q) = q[1] /\ 1 \in 1..Len(q)
         /\ Tail(q) \in Seq(S) /\ Len(Tail(q)) = Len(q) - 1
         /\ \A i \in 1..Len(Tail(q)) : i + 1 \in 1..Len(q) /\ Tail(q)[i] = q[i + 1]
         /\ \A i \in 1..Len(q) : i # 1 => i - 1 \in 1..Len(Tail(q)) /\ Tail(q)[i - 1] = q[i]
  <1>1. /\ Head(q) \in S /\ Head(q) = q[1] /\ Tail(q) \in Seq(S)
        /\ Len(q) \in Nat /\ Len(q) # 0 /\ Len(Tail(q)) = Len(q) - 1
        /\ \A i \in 1..Len(Tail(q)) : Tail(q)[i] = q[i + 1]
    BY HeadTailProperties
  <1>2. ASSUME NEW i \in 1..Len(q), i # 1
        PROVE  i - 1 \in 1..Len(Tail(q)) /\ (i - 1) + 1 = i
    BY <1>1, <1>2
  <1> QED
    BY <1>1, <1>2

LEMMA QueueAppend ==
  ASSUME NEW S, NEW q \in Seq(S), NEW e \in S
  PROVE  /\ Append(q, e) \in Seq(S) /\ Len(q) \in Nat
         /\ Len(Append(q, e)) = Len(q) + 1 /\ Append(q, e)[Len(q) + 1] = e
         /\ \A i \in 1..Len(q) : i \in 1..Len(Append(q, e)) /\ Append(q, e)[i] = q[i]
         /\ \A i \in 1..Len(Append(q, e)) : i \in 1..Len(q) \/ i = Len(q) + 1
  <1>1. /\ Append(q, e) \in Seq(S) /\ Len(q) \in Nat
        /\ Len(Append(q, e)) = Len(q) + 1 /\ Append(q, e)[Len(q) + 1] = e
        /\ \A i \in 1..Len(q) : Append(q, e)[i] = q[i]
    BY AppendProperties
  <1> QED
    BY <1>1

-----------------------------------------------------------------------------
(* Type correctness.                                                       *)

Message == Signals \cup Replies

LEMMA ReceivedType ==
  ASSUME TypeOK, NEW type, Arrives(type), Received
  PROVE  bus' \in Seq(Message) /\ Head(bus) \in Message
  BY QueueTail DEF TypeOK, Arrives, Received, Message

LEMMA FinishingType ==
  ASSUME TypeOK, NEW n, Finishing(n)
  PROVE  finishing' \in Seq(Attempts) /\ n \in Attempts
  BY QueueTail DEF TypeOK, Finishing

LEMMA SupplicantType ==
  ASSUME TypeOK, Supplicant
  PROVE  /\ bus' \in Seq(Message)
         /\ air' \in [Attempts -> {"idle", "asked", "forming", "up", "over"}]
  <1>0. bus \in Seq(Message)
    BY DEF TypeOK, Message
  <1>1. \A n \in Attempts, t \in {"started", "failed", "accepted", "refused"} :
          [type |-> t, of |-> n] \in Message
    BY DEF Message, Signals, Replies
  <1>2. CASE Answer
    <2>1. PICK n \in Attempts, r \in {"accepted", "refused"} :
            /\ air' = [air EXCEPT ![n] = IF r = "accepted" THEN "forming" ELSE "over"]
            /\ bus' = Append(bus, [type |-> r, of |-> n])
      BY <1>2 DEF Answer
    <2>2. [type |-> r, of |-> n] \in Message
      BY <1>1
    <2> QED
      BY <1>0, <2>1, <2>2, QueueAppend DEF TypeOK
  <1>3. CASE GroupUp
    <2>1. PICK n \in Attempts :
            /\ air' = [air EXCEPT ![n] = "up"]
            /\ bus' = Append(bus, [type |-> "started", of |-> n])
      BY <1>3 DEF GroupUp
    <2>2. [type |-> "started", of |-> n] \in Message
      BY <1>1
    <2> QED
      BY <1>0, <2>1, <2>2, QueueAppend DEF TypeOK
  <1>4. CASE FormationFails
    <2>1. PICK n \in Attempts, twice \in BOOLEAN :
            /\ air' = [air EXCEPT ![n] = "over"]
            /\ bus' = bus \o (IF twice THEN <<[type |-> "failed", of |-> n],
                                             [type |-> "failed", of |-> n]>>
                                       ELSE <<[type |-> "failed", of |-> n]>>)
      BY <1>4 DEF FormationFails
    <2> DEFINE signal == [type |-> "failed", of |-> n]
    <2>2. signal \in Message
      BY <1>1
    <2> HIDE DEF signal
    <2>3. <<signal>> \in Seq(Message) /\ <<signal, signal>> \in Seq(Message)
      BY <2>2
    <2>4. \A q \in Seq(Message) : bus \o q \in Seq(Message)
      BY <1>0, ConcatProperties
    <2>5. bus' \in Seq(Message)
      BY <2>1, <2>3, <2>4 DEF signal
    <2> QED
      BY <2>1, <2>5 DEF TypeOK
  <1>5. CASE GroupVanishes
    BY <1>0, <1>5 DEF GroupVanishes, TypeOK
  <1> QED
    BY <1>2, <1>3, <1>4, <1>5 DEF Supplicant

LEMMA TypeStep ==
  ASSUME TypeOK, [Next]_vars
  PROVE  TypeOK'
  <1>1. CASE Main \/ Interrupted
    <2>1. CASE Connect
      BY <2>1 DEF Connect, TypeOK, Attempts
    <2>2. CASE \/ GroupReturned \/ AttemptFailed \/ AttemptTimedOut \/ GiveUp
               \/ NothingToDisconnect \/ Disconnect \/ Introspected
               \/ Leave \/ LeavingCut
      BY <2>2
      DEF GroupReturned, AttemptFailed, AttemptTimedOut, GiveUp, NothingToDisconnect,
          Disconnect, Introspected, Leave, LeavingCut, AbandonFuture, TypeOK, deviceVars
    <2>3. CASE Disconnected \/ DisconnectFails \/ DisconnectCut
      <3>1. air' = air \/ air' = TakenDown(target)
        BY <2>3 DEF Disconnected, DisconnectFails, DisconnectCut
      <3>2. air' \in [Attempts -> {"idle", "asked", "forming", "up", "over"}]
        BY <3>1 DEF TakenDown, TypeOK
      <3> QED
        BY <2>3, <3>2
        DEF Disconnected, DisconnectFails, DisconnectCut, Forgotten, TypeOK
    <2> QED
      BY <1>1, <2>1, <2>2, <2>3 DEF Main, Interrupted
  <1>2. CASE ConnectAccepted \/ ConnectRefused \/ OnFailure
    <2>1. bus' \in Seq(Message)
      BY <1>2, ReceivedType DEF ConnectAccepted, ConnectRefused, OnFailure
    <2> QED
      BY <1>2, <2>1
      DEF ConnectAccepted, ConnectRefused, OnFailure, Fail, TypeOK, Message, mainVars,
          deviceVars
  <1>3. CASE OnGroupStarted
    <2>1. bus' \in Seq(Message) /\ Head(bus) \in Message
      BY <1>3, ReceivedType DEF OnGroupStarted
    <2>2. Head(bus).of \in Attempts
      BY <2>1 DEF Message, Signals, Replies
    <2>3. finishing' \in Seq(Attempts)
      BY <1>3, <2>2, QueueAppend DEF OnGroupStarted, TypeOK
    <2> QED
      BY <1>3, <2>1, <2>3 DEF OnGroupStarted, TypeOK, Message, mainVars
  <1>4. ASSUME NEW n \in Attempts, FinishGroup(n) \/ FinishVanished(n)
        PROVE  TypeOK'
    <2>1. finishing' \in Seq(Attempts)
      BY <1>4, FinishingType DEF FinishGroup, FinishVanished
    <2> QED
      BY <1>4, <2>1 DEF FinishGroup, FinishVanished, Fail, TypeOK, mainVars
  <1>5. CASE Supplicant
    <2>1. UNCHANGED <<mainVars, deviceVars>>
      BY <1>5 DEF Supplicant, Answer, GroupUp, FormationFails, GroupVanishes
    <2> QED
      BY <1>5, <2>1, SupplicantType DEF TypeOK, Message, mainVars, deviceVars
  <1>6. CASE UNCHANGED vars
    BY <1>6 DEF vars, mainVars, deviceVars, TypeOK
  <1> QED
    BY <1>1, <1>2, <1>3, <1>4, <1>5, <1>6 DEF Next, Handlers, Finished

(* Type correctness of connect and disconnect, however long the queue of   *)
(* replies and signals grows.                                              *)
THEOREM TypeCorrect == Spec => []TypeOK
  <1>1. Init => TypeOK
    <2>1. <<>> \in Seq(Attempts) /\ <<>> \in Seq(Message)
      OBVIOUS
    <2> QED
      BY <2>1 DEF Init, TypeOK, Message
  <1> QED
    BY <1>1, TypeStep, PTL DEF Spec

-----------------------------------------------------------------------------
(* The invariant.  A group that is up is the newest of all that have been  *)
(* started: its signal is the last on the bus, then its task the last of   *)
(* those that finish a group, and when it has been reported no other is    *)
(* under way that could take its place.                                    *)

Started(n) == [type |-> "started", of |-> n]
NoneStarted == \A i \in 1..Len(bus) : bus[i].type # "started"

(* Each attempt is made once, and nothing is reported of one whose group   *)
(* has not formed.                                                         *)
FreshInv ==
    \A n \in Attempts :
        /\ n > attempt => air[n] = "idle"
        /\ air[n] \in {"idle", "asked", "forming"} =>
              /\ \A i \in 1..Len(bus) : bus[i] # Started(n)
              /\ \A k \in 1..Len(finishing) : finishing[k] # n

Newest(n) ==
    /\ \A i \in 1..Len(bus) : bus[i] = Started(n) =>
          /\ \A j \in 1..Len(bus) : j > i => bus[j].type # "started"
          /\ \A k \in 1..Len(finishing) : finishing[k] # n
    /\ \A k \in 1..Len(finishing) : finishing[k] = n =>
          k = Len(finishing) /\ NoneStarted
    /\ Reported(n) => finishing = <<>> /\ NoneStarted
NewestInv == \A n \in Attempts : air[n] = "up" => Newest(n)

KnownInv ==
    /\ FreshInv /\ NewestInv /\ UpGroupKnown
    /\ pc = "introspecting" => group # NoGroup
    /\ pc = "disconnecting" => target # NoGroup

LEMMA Queues ==
  ASSUME TypeOK
  PROVE  /\ bus \in Seq(Message) /\ Len(bus) \in Nat /\ DOMAIN bus = 1..Len(bus)
         /\ finishing \in Seq(Attempts) /\ Len(finishing) \in Nat
         /\ DOMAIN finishing = 1..Len(finishing)
         /\ \A i \in 1..Len(bus) : bus[i] \in Message
         /\ \A i \in 1..Len(bus) : bus[i].type = "started" =>
               bus[i].of \in Attempts /\ bus[i] = Started(bus[i].of)
  <1>1. /\ bus \in Seq(Message) /\ Len(bus) \in Nat /\ DOMAIN bus = 1..Len(bus)
        /\ finishing \in Seq(Attempts) /\ Len(finishing) \in Nat
        /\ DOMAIN finishing = 1..Len(finishing)
    BY DEF TypeOK, Message
  <1>2. \A i \in 1..Len(bus) : bus[i] \in Message
    BY <1>1, ElementOfSeq
  <1>3. \A m \in Message : m.type = "started" => m.of \in Attempts /\ m = Started(m.of)
    BY DEF Message, Signals, Replies, Started
  <1> QED
    BY <1>1, <1>2, <1>3

(* The steps that leave the queues alone, and bring no group up.           *)
LEMMA QueuesKept ==
  ASSUME TypeOK, KnownInv, UNCHANGED <<bus, finishing, attempt>>,
         \A n \in Attempts : air'[n] = air[n] \/ (air[n] = "up" /\ air'[n] = "over"),
         UNCHANGED <<group, target, outcome>>, pc = "closed" <=> pc' = "closed",
         pc' = "introspecting" => group # NoGroup,
         pc' = "disconnecting" => pc = "disconnecting"
  PROVE  KnownInv'
  <1>1. FreshInv'
    BY DEF KnownInv, FreshInv
  <1>2. NewestInv'
    BY DEF KnownInv, NewestInv, Newest, Reported, NoneStarted
  <1>3. UpGroupKnown'
    BY DEF KnownInv, UpGroupKnown, Unfinished, Reported
  <1> QED
    BY <1>1, <1>2, <1>3 DEF KnownInv

LEMMA MainKeeps ==
  ASSUME TypeOK, KnownInv, Main \/ Interrupted
  PROVE  KnownInv'
  <1>1. CASE Connect
    <2>1. /\ attempt \in 0..2 /\ attempt' = attempt + 1
          /\ air' = [air EXCEPT ![attempt + 1] = "asked"]
          /\ UNCHANGED <<bus, finishing, group, target>> /\ pc \in {"start", "pause"}
          /\ pc' = "calling"
      BY <1>1 DEF Connect, TypeOK
    <2>2. attempt + 1 \in Attempts /\ air[attempt + 1] = "idle"
      BY <2>1 DEF KnownInv, FreshInv, Attempts
    <2>3. \A n \in Attempts : air'[n] = IF n = attempt + 1 THEN "asked" ELSE air[n]
      BY <2>1, <2>2 DEF TypeOK
    <2>4. \A n \in Attempts : n > attempt' => n > attempt /\ n # attempt + 1
      BY <2>1 DEF Attempts
    <2>5. FreshInv'
      BY <2>1, <2>2, <2>3, <2>4 DEF KnownInv, FreshInv
    <2>6. NewestInv'
      BY <2>1, <2>3 DEF KnownInv, NewestInv, Newest, Reported, NoneStarted
    <2>7. UpGroupKnown'
      BY <2>1, <2>3 DEF KnownInv, UpGroupKnown, Unfinished, Reported
    <2> QED
      BY <2>1, <2>5, <2>6, <2>7 DEF KnownInv
  <1>2. CASE GroupReturned \/ AttemptFailed \/ AttemptTimedOut \/ GiveUp \/ Leave
    BY <1>2, QueuesKept
    DEF GroupReturned, AttemptFailed, AttemptTimedOut, GiveUp, Leave, deviceVars, KnownInv
  <1>3. CASE Disconnect
    BY <1>3, QueuesKept DEF Disconnect, deviceVars
  <1>4. CASE NothingToDisconnect \/ Introspected \/ LeavingCut
    <2>1. /\ UNCHANGED <<bus, finishing, attempt, air, group>>
          /\ pc \in {"leaving", "introspecting"}
          /\ \/ group = NoGroup /\ pc' = "closed" /\ target' = target
             \/ pc' = "closed" /\ target' = target /\ outcome' = "cut"
             \/ pc' = "disconnecting" /\ target' = group /\ group # NoGroup
      BY <1>4 DEF NothingToDisconnect, Introspected, LeavingCut, KnownInv, deviceVars
    <2>2. FreshInv' /\ NewestInv'
      BY <2>1 DEF KnownInv, FreshInv, NewestInv, Newest, Reported, NoneStarted
    <2>3. UpGroupKnown'
      BY <2>1 DEF KnownInv, UpGroupKnown, Unfinished, Reported, NoGroup, Attempts
    <2> QED
      BY <2>1, <2>2, <2>3 DEF KnownInv
  <1>5. CASE Disconnected \/ DisconnectFails \/ DisconnectCut
    <2>1. /\ pc \in {"introspecting", "disconnecting"} /\ pc' = "closed"
          /\ UNCHANGED <<bus, finishing, attempt, target>>
          /\ air' = air \/ air' = TakenDown(target)
          /\ \/ outcome' \in {"failed", "cut"}
             \/ target # NoGroup /\ air' = TakenDown(target)
      BY <1>5
      DEF Disconnected, DisconnectFails, DisconnectCut, Forgotten, KnownInv
    <2>2. \A n \in Attempts :
            /\ air'[n] = air[n] \/ (air[n] = "up" /\ air'[n] = "over")
            /\ air' = TakenDown(target) /\ n = target => air'[n] # "up"
      BY <2>1 DEF TakenDown, TypeOK
    <2>3. FreshInv'
      BY <2>1, <2>2 DEF KnownInv, FreshInv
    <2>4. NewestInv'
      BY <2>1, <2>2 DEF KnownInv, NewestInv, Newest, Reported, NoneStarted
    <2>5. UpGroupKnown'
      BY <2>1, <2>2 DEF UpGroupKnown, Unfinished
    <2> QED
      BY <2>1, <2>3, <2>4, <2>5 DEF KnownInv
  <1> QED
    BY <1>1, <1>2, <1>3, <1>4, <1>5 DEF Main, Interrupted

(* A reply, or the signal of a failure, says nothing of a group.           *)
LEMMA PassingKeeps ==
  ASSUME TypeOK, KnownInv, ConnectAccepted \/ ConnectRefused \/ OnFailure
  PROVE  KnownInv'
  <1>1. /\ bus # <<>> /\ bus' = Tail(bus) /\ Head(bus).type # "started"
        /\ UNCHANGED <<finishing, attempt, air, group, target, outcome>> /\ pc # "closed"
        /\ pc' # "closed" /\ (pc' = "disconnecting" => pc = "disconnecting")
        /\ (pc' = "introspecting" => pc = "introspecting")
    BY DEF ConnectAccepted, ConnectRefused, OnFailure, Arrives, Received, mainVars,
           deviceVars
  <1>2. /\ \A i \in 1..Len(bus') : i + 1 \in 1..Len(bus) /\ bus'[i] = bus[i + 1]
        /\ \A i \in 1..Len(bus) : bus[i].type = "started" =>
              i - 1 \in 1..Len(bus') /\ bus'[i - 1] = bus[i]
        /\ DOMAIN bus' = 1..Len(bus')
    <2>0. bus \in Seq(Message) /\ bus # <<>>
      BY <1>1, Queues
    <2>1. bus' \in Seq(Message) /\ DOMAIN bus' = 1..Len(bus')
      BY <1>1, <2>0, QueueTail
    <2>2. /\ Head(bus) = bus[1]
          /\ \A i \in 1..Len(bus') : i + 1 \in 1..Len(bus) /\ bus'[i] = bus[i + 1]
          /\ \A i \in 1..Len(bus) : i # 1 => i - 1 \in 1..Len(bus') /\ bus'[i - 1] = bus[i]
      BY <1>1, <2>0, QueueTail
    <2>3. ASSUME NEW i \in 1..Len(bus), bus[i].type = "started" PROVE i # 1
      BY <1>1, <2>2, <2>3
    <2> QED
      BY <2>1, <2>2, <2>3
  <1>3. \A n : Reported(n)' => Reported(n)
    <2> SUFFICES ASSUME NEW n, Reported(n)' PROVE Reported(n)
      OBVIOUS
    <2>1. \A i \in 1..Len(bus') : bus'[i] # [type |-> "started", of |-> n]
      BY <1>2 DEF Reported
    <2>2. ASSUME NEW i \in 1..Len(bus), bus[i] = [type |-> "started", of |-> n]
          PROVE  FALSE
      <3>1. bus[i].type = "started"
        BY <2>2
      <3> QED
        BY <1>2, <2>1, <2>2, <3>1
    <2> QED
      BY <1>1, <2>2, Queues DEF Reported
  <1>4. NoneStarted => NoneStarted'
    BY <1>2 DEF NoneStarted
  <1>5. FreshInv'
    BY <1>1, <1>2 DEF KnownInv, FreshInv
  <1>6. ASSUME NEW n \in Attempts, air'[n] = "up" PROVE Newest(n)'
    <2>1. Newest(n)
      BY <1>1, <1>6 DEF KnownInv, NewestInv
    <2>2. ASSUME NEW i \in 1..Len(bus'), bus'[i] = Started(n)
          PROVE  \A j \in 1..Len(bus') : j > i => bus'[j].type # "started"
      BY <1>2, <2>1, <2>2 DEF Newest
    <2>3. ASSUME NEW i \in 1..Len(bus'), bus'[i] = Started(n)
          PROVE  \A k \in 1..Len(finishing') : finishing'[k] # n
      BY <1>1, <1>2, <2>1, <2>3 DEF Newest
    <2> QED
      BY <1>1, <1>3, <1>4, <2>1, <2>2, <2>3 DEF Newest, Started
  <1>7. UpGroupKnown'
    BY <1>1, <1>3 DEF KnownInv, UpGroupKnown, Unfinished
  <1> QED
    BY <1>1, <1>5, <1>6, <1>7 DEF KnownInv, NewestInv

LEMMA StartedKeeps ==
  ASSUME TypeOK, KnownInv, OnGroupStarted
  PROVE  KnownInv'
  <1> DEFINE m == Head(bus).of
  <1>1. /\ bus # <<>> /\ bus' = Tail(bus) /\ Head(bus).type = "started"
        /\ finishing' = Append(finishing, m)
        /\ UNCHANGED <<attempt, air, group, target, pc>> /\ pc # "closed"
    BY DEF OnGroupStarted, Arrives, Received, mainVars
  <1>2. /\ 1 \in 1..Len(bus) /\ bus[1] = Started(m) /\ m \in Attempts
        /\ \A i \in 1..Len(bus') : i + 1 \in 1..Len(bus) /\ bus'[i] = bus[i + 1]
        /\ \A i \in 1..Len(bus) : i # 1 => i - 1 \in 1..Len(bus') /\ bus'[i - 1] = bus[i]
        /\ bus' \in Seq(Message) /\ DOMAIN bus' = 1..Len(bus')
    <2>1. Head(bus) = bus[1] /\ 1 \in 1..Len(bus) /\ bus' \in Seq(Message)
      BY <1>1, Queues, QueueTail
    <2>2. m \in Attempts /\ bus[1] = Started(m)
      BY <1>1, <2>1, Queues
    <2> QED
      BY <1>1, <2>1, <2>2, Queues, QueueTail
  <1> HIDE DEF m
  <1>3. /\ Len(finishing') = Len(finishing) + 1 /\ finishing'[Len(finishing) + 1] = m
        /\ Len(finishing) \in Nat
        /\ \A k \in 1..Len(finishing) : k \in 1..Len(finishing') /\ finishing'[k] = finishing[k]
        /\ \A k \in 1..Len(finishing') : k \in 1..Len(finishing) \/ k = Len(finishing) + 1
        /\ finishing' \in Seq(Attempts) /\ DOMAIN finishing' = 1..Len(finishing')
    <2>1. finishing' \in Seq(Attempts)
      BY <1>1, <1>2, Queues, QueueAppend
    <2> QED
      BY <1>1, <1>2, <2>1, Queues, QueueAppend
  <1>4. \A n : Reported(n)' => Reported(n) /\ n # m
    <2> SUFFICES ASSUME NEW n, Reported(n)' PROVE Reported(n) /\ n # m
      OBVIOUS
    <2>1. /\ \A k \in 1..Len(finishing') : finishing'[k] # n
          /\ \A i \in 1..Len(bus') : bus'[i] # Started(n)
      BY <1>2, <1>3 DEF Reported, Started
    <2>2. n # m
      BY <1>3, <2>1
    <2>3. Started(n) # Started(m)
      BY <2>2 DEF Started
    <2>4. \A i \in 1..Len(bus) : bus[i] # Started(n)
      BY <1>2, <2>1, <2>3
    <2> QED
      BY <1>3, <2>1, <2>2, <2>4, Queues DEF Reported, Started
  <1>5. FreshInv'
    BY <1>1, <1>2, <1>3 DEF KnownInv, FreshInv
  <1>6. ASSUME NEW n \in Attempts, air'[n] = "up" PROVE Newest(n)'
    <2>1. Newest(n)
      BY <1>1, <1>6 DEF KnownInv, NewestInv
    <2>2. ~Reported(n)'
      <3>1. bus[1].type = "started"
        BY <1>2 DEF Started
      <3> QED
        BY <1>2, <1>4, <2>1, <3>1 DEF Newest, NoneStarted
    <2>3. CASE n = m
      <3>0. /\ \A j \in 1..Len(bus) : j > 1 => bus[j].type # "started"
            /\ \A k \in 1..Len(finishing) : finishing[k] # n
        BY <1>2, <2>1, <2>3 DEF Newest
      <3>1. \A i \in 1..Len(bus') : bus'[i].type # "started"
        <4> SUFFICES ASSUME NEW i \in 1..Len(bus') PROVE bus'[i].type # "started"
          OBVIOUS
        <4>1. i + 1 \in 1..Len(bus) /\ i + 1 > 1 /\ bus'[i] = bus[i + 1]
          BY <1>2
        <4> QED
          BY <3>0, <4>1
      <3>2. \A i \in 1..Len(bus') : bus'[i] # Started(n)
        BY <3>1 DEF Started
      <3> QED
        BY <1>3, <2>2, <3>0, <3>1, <3>2 DEF Newest, NoneStarted, Started
    <2>4. CASE n # m
      <3>1. \A k \in 1..Len(finishing) : finishing[k] # n
        <4>1. bus[1].type = "started"
          BY <1>2 DEF Started
        <4> QED
          BY <1>2, <2>1, <4>1 DEF Newest, NoneStarted
      <3>2. \A k \in 1..Len(finishing') : finishing'[k] # n
        BY <1>3, <2>4, <3>1
      <3>3. ASSUME NEW i \in 1..Len(bus'), bus'[i] = Started(n)
            PROVE  \A j \in 1..Len(bus') : j > i => bus'[j].type # "started"
        BY <1>2, <2>1, <3>3 DEF Newest
      <3> QED
        BY <2>2, <3>2, <3>3 DEF Newest, Started
    <2> QED
      BY <2>3, <2>4
  <1>7. UpGroupKnown'
    BY <1>1, <1>4 DEF KnownInv, UpGroupKnown, Unfinished
  <1> QED
    BY <1>1, <1>5, <1>6, <1>7 DEF KnownInv, NewestInv

(* The group that is up is the last to be finished, and so the one kept.   *)
LEMMA FinishKeeps ==
  ASSUME TypeOK, KnownInv, NEW m \in Attempts, FinishGroup(m) \/ FinishVanished(m)
  PROVE  KnownInv'
  <1>1. /\ finishing # <<>> /\ finishing' = Tail(finishing) /\ Head(finishing) = m
        /\ UNCHANGED <<bus, attempt, air, target, pc>> /\ pc # "closed"
        /\ \/ group' = m
           \/ group' = group /\ air[m] # "up"
    BY DEF FinishGroup, FinishVanished, Finishing, mainVars
  <1>2. /\ 1 \in 1..Len(finishing) /\ finishing[1] = m /\ Len(finishing) \in Nat
        /\ Len(finishing') = Len(finishing) - 1
        /\ \A k \in 1..Len(finishing') : k + 1 \in 1..Len(finishing)
                                         /\ finishing'[k] = finishing[k + 1]
        /\ \A k \in 1..Len(finishing) : k # 1 => k - 1 \in 1..Len(finishing')
                                                /\ finishing'[k - 1] = finishing[k]
        /\ finishing' \in Seq(Attempts) /\ DOMAIN finishing' = 1..Len(finishing')
    <2>1. finishing' \in Seq(Attempts)
      BY <1>1, Queues, QueueTail
    <2> QED
      BY <1>1, <2>1, Queues, QueueTail
  <1>3. \A n : Reported(n)' => n = m \/ Reported(n)
    <2> SUFFICES ASSUME NEW n, Reported(n)', n # m PROVE Reported(n)
      OBVIOUS
    <2>1. \A k \in 1..Len(finishing') : finishing'[k] # n
      BY <1>2 DEF Reported
    <2>2. \A k \in 1..Len(finishing) : finishing[k] # n
      BY <1>2, <2>1
    <2> QED
      BY <1>1, <2>2, Queues DEF Reported
  <1>4. FreshInv'
    BY <1>1, <1>2 DEF KnownInv, FreshInv
  <1>5. ASSUME NEW n \in Attempts, air'[n] = "up"
        PROVE  /\ Newest(n)'
               /\ Reported(n)' => n = m
    <2>1. Newest(n)
      BY <1>1, <1>5 DEF KnownInv, NewestInv
    <2>2. ~Reported(n)
      BY <1>1, <2>1 DEF Newest
    <2>3. n = m => finishing' = <<>> /\ NoneStarted
      <3>1. n = m => Len(finishing) = 1 /\ NoneStarted
        BY <1>2, <2>1 DEF Newest
      <3>2. Len(finishing) = 1 => finishing' = <<>>
        BY <1>2, EmptySeq
      <3> QED
        BY <3>1, <3>2
    <2>4. NoneStarted' = NoneStarted
      BY <1>1 DEF NoneStarted
    <2>5. ASSUME NEW k \in 1..Len(finishing'), finishing'[k] = n
          PROVE  k = Len(finishing') /\ NoneStarted
      <3>1. k + 1 = Len(finishing) /\ NoneStarted
        BY <1>2, <2>1, <2>5 DEF Newest
      <3> QED
        BY <1>2, <3>1
    <2>6. ASSUME NEW i \in 1..Len(bus), bus[i] = Started(n)
          PROVE  /\ \A j \in 1..Len(bus) : j > i => bus[j].type # "started"
                 /\ \A k \in 1..Len(finishing') : finishing'[k] # n
      BY <1>2, <2>1, <2>6 DEF Newest
    <2>7. Reported(n)' => n = m
      BY <1>3, <2>2
    <2> QED
      BY <1>1, <2>3, <2>4, <2>5, <2>6, <2>7 DEF Newest, Started
  <1>6. UpGroupKnown'
    BY <1>1, <1>5 DEF UpGroupKnown
  <1> QED
    BY <1>1, <1>4, <1>5, <1>6 DEF KnownInv, NewestInv, Attempts, NoGroup

-----------------------------------------------------------------------------
(* wpa_supplicant.                                                         *)

(* An answer or a failure is put on the bus behind whatever is there.      *)
LEMMA SaysNothing ==
  ASSUME TypeOK, KnownInv, NEW a \in Attempts,
         air[a] \in {"asked", "forming"}, NEW s \in {"forming", "over"},
         air' = [air EXCEPT ![a] = s], UNCHANGED <<mainVars, deviceVars>>,
         DOMAIN bus' = 1..Len(bus'),
         \A i \in 1..Len(bus) : i \in 1..Len(bus') /\ bus'[i] = bus[i],
         \A i \in 1..Len(bus') : i \in 1..Len(bus) \/ bus'[i].type # "started"
  PROVE  KnownInv'
  <1>1. \A n \in Attempts : air'[n] = IF n = a THEN s ELSE air[n]
    BY DEF TypeOK
  <1>2. \A n : /\ Reported(n)' => Reported(n)
               /\ Started(n).type = "started"
    BY Queues DEF Reported, Started, deviceVars
  <1>3. NoneStarted => NoneStarted'
    BY DEF NoneStarted
  <1>4. FreshInv'
    <2>1. \A n \in Attempts : n > attempt => n # a
      BY DEF KnownInv, FreshInv
    <2> QED
      BY <1>1, <1>2, <2>1 DEF KnownInv, FreshInv, mainVars, deviceVars
  <1>5. ASSUME NEW n \in Attempts, air'[n] = "up" PROVE Newest(n)'
    <2>1. Newest(n) /\ n # a /\ finishing' = finishing
      BY <1>1, <1>5 DEF KnownInv, NewestInv, deviceVars
    <2>2. ASSUME NEW i \in 1..Len(bus'), bus'[i] = Started(n)
          PROVE  \A j \in 1..Len(bus') : j > i => bus'[j].type # "started"
      BY <1>2, <2>1, <2>2 DEF Newest
    <2>3. ASSUME NEW i \in 1..Len(bus'), bus'[i] = Started(n)
          PROVE  \A k \in 1..Len(finishing) : finishing[k] # n
      BY <1>2, <2>1, <2>3 DEF Newest
    <2> QED
      BY <1>2, <1>3, <2>1, <2>2, <2>3 DEF Newest, Started
  <1>6. UpGroupKnown'
    BY <1>1, <1>2 DEF KnownInv, UpGroupKnown, Unfinished, mainVars, deviceVars
  <1> QED
    BY <1>4, <1>5, <1>6 DEF KnownInv, NewestInv, mainVars, deviceVars

LEMMA SupplicantKeeps ==
  ASSUME TypeOK, TypeOK', KnownInv, Supplicant
  PROVE  KnownInv'
  <1>0. /\ bus' \in Seq(Message) /\ DOMAIN bus' = 1..Len(bus')
        /\ bus \in Seq(Message) /\ Len(bus) \in Nat
        /\ UNCHANGED <<mainVars, deviceVars>>
    <2>1. bus' \in Seq(Message) /\ DOMAIN bus' = 1..Len(bus')
      <3>1. bus' \in Seq(Message)
        BY DEF TypeOK, Message
      <3> QED
        BY <3>1
    <2>2. bus \in Seq(Message) /\ Len(bus) \in Nat
      BY Queues
    <2>3. UNCHANGED <<mainVars, deviceVars>>
      BY DEF Supplicant, Answer, GroupUp, FormationFails, GroupVanishes
    <2> QED
      BY <2>1, <2>2, <2>3
  <1>1. \A n \in Attempts, t \in {"started", "failed", "accepted", "refused"} :
          [type |-> t, of |-> n] \in Message
    BY DEF Message, Signals, Replies
  <1>2. CASE Answer
    <2>1. PICK n \in Attempts, r \in {"accepted", "refused"} :
            /\ air[n] = "asked"
            /\ air' = [air EXCEPT ![n] = IF r = "accepted" THEN "forming" ELSE "over"]
            /\ bus' = Append(bus, [type |-> r, of |-> n])
      BY <1>2 DEF Answer
    <2>2. [type |-> r, of |-> n] \in Message /\ [type |-> r, of |-> n].type # "started"
      BY <1>1
    <2>3. /\ \A i \in 1..Len(bus) : i \in 1..Len(bus') /\ bus'[i] = bus[i]
          /\ \A i \in 1..Len(bus') : i \in 1..Len(bus) \/ bus'[i].type # "started"
      BY <1>0, <2>1, <2>2, QueueAppend
    <2> QED
      BY <1>0, <2>1, <2>3, SaysNothing
  <1>3. CASE FormationFails
    <2>1. PICK n \in Attempts, twice \in BOOLEAN :
            /\ air[n] = "forming"
            /\ air' = [air EXCEPT ![n] = "over"]
            /\ bus' = bus \o (IF twice THEN <<[type |-> "failed", of |-> n],
                                             [type |-> "failed", of |-> n]>>
                                       ELSE <<[type |-> "failed", of |-> n]>>)
      BY <1>3 DEF FormationFails
    <2> DEFINE signal == [type |-> "failed", of |-> n]
               tail == IF twice THEN <<signal, signal>> ELSE <<signal>>
    <2>2. signal \in Message /\ signal.type # "started" /\ bus' = bus \o tail
      BY <1>1, <2>1
    <2> HIDE DEF signal
    <2>3. /\ tail \in Seq(Message) /\ Len(tail) \in Nat
          /\ \A i \in 1..Len(tail) : tail[i] = signal
      BY <2>2
    <2> HIDE DEF tail
    <2>4. /\ Len(bus') = Len(bus) + Len(tail)
          /\ \A i \in 1..Len(bus') :
                bus'[i] = IF i <= Len(bus) THEN bus[i] ELSE tail[i - Len(bus)]
      BY <1>0, <2>2, <2>3, ConcatProperties
    <2>5. \A i \in 1..Len(bus) : i \in 1..Len(bus') /\ bus'[i] = bus[i]
      BY <1>0, <2>3, <2>4
    <2>6. ASSUME NEW i \in 1..Len(bus'), i \notin 1..Len(bus)
          PROVE  bus'[i].type # "started"
      <3>1. i - Len(bus) \in 1..Len(tail) /\ bus'[i] = tail[i - Len(bus)]
        BY <1>0, <2>3, <2>4, <2>6
      <3> QED
        BY <2>2, <2>3, <3>1
    <2> QED
      BY <1>0, <2>1, <2>5, <2>6, SaysNothing
  <1>4. CASE GroupUp
    <2>1. PICK a \in Attempts :
            /\ air[a] = "forming" /\ \A n \in Attempts : air[n] # "up"
            /\ air' = [air EXCEPT ![a] = "up"]
            /\ bus' = Append(bus, Started(a))
      BY <1>4 DEF GroupUp, Started
    <2>2. \A n \in Attempts : air'[n] = IF n = a THEN "up" ELSE air[n]
      BY <2>1 DEF TypeOK
    <2>3. /\ Len(bus') = Len(bus) + 1 /\ bus'[Len(bus) + 1] = Started(a)
          /\ \A i \in 1..Len(bus) : i \in 1..Len(bus') /\ bus'[i] = bus[i]
          /\ \A i \in 1..Len(bus') : i \in 1..Len(bus) \/ i = Len(bus) + 1
      <3>1. Started(a) \in Message
        BY <1>1 DEF Started
      <3> QED
        BY <1>0, <2>1, <3>1, QueueAppend
    <2>4. /\ \A i \in 1..Len(bus) : bus[i] # Started(a)
          /\ \A k \in 1..Len(finishing) : finishing[k] # a
      BY <2>1 DEF KnownInv, FreshInv
    <2>5. ~Reported(a)'
      <3>1. Len(bus) + 1 \in DOMAIN bus'
        BY <1>0, <2>3
      <3> QED
        BY <2>3, <3>1 DEF Reported, Started
    <2>6. Newest(a)'
      <3>1. \A i \in 1..Len(bus') : bus'[i] = Started(a) => i = Len(bus) + 1
        BY <2>3, <2>4
      <3>2. \A j \in 1..Len(bus') : ~(j > Len(bus) + 1)
        BY <1>0, <2>3
      <3>3. finishing' = finishing
        BY <1>0 DEF deviceVars
      <3> QED
        BY <2>4, <2>5, <3>1, <3>2, <3>3 DEF Newest, Started
    <2>7. NewestInv'
      BY <2>1, <2>2, <2>6 DEF NewestInv
    <2>8. FreshInv'
      <3>1. \A n \in Attempts : n > attempt => n # a
        BY <2>1 DEF KnownInv, FreshInv
      <3>2. \A n \in Attempts : n # a => Started(n) # Started(a)
        BY DEF Started
      <3> QED
        BY <1>0, <2>2, <2>3, <3>1, <3>2 DEF KnownInv, FreshInv, mainVars, deviceVars
    <2>9. UpGroupKnown'
      BY <2>1, <2>2, <2>5 DEF UpGroupKnown
    <2> QED
      BY <1>0, <2>7, <2>8, <2>9 DEF KnownInv, mainVars, deviceVars
  <1>5. CASE GroupVanishes
    <2>1. \A n \in Attempts : air'[n] = air[n] \/ (air[n] = "up" /\ air'[n] = "over")
      BY <1>5 DEF GroupVanishes, TypeOK
    <2>2. bus' = bus
      BY <1>5 DEF GroupVanishes
    <2> QED
      BY <1>0, <2>1, <2>2, QueuesKept DEF mainVars, deviceVars, KnownInv
  <1> QED
    BY <1>2, <1>3, <1>4, <1>5 DEF Supplicant

LEMMA KnownStep ==
  ASSUME TypeOK, TypeOK', KnownInv, [Next]_vars
  PROVE  KnownInv'
  <1>1. CASE UNCHANGED vars
    BY <1>1, QueuesKept DEF vars, mainVars, deviceVars, KnownInv
  <1> QED
    BY <1>1, MainKeeps, PassingKeeps, StartedKeeps, FinishKeeps, SupplicantKeeps
    DEF Next, Handlers, Finished

(* The inductive invariant behind UpGroupKnown.                            *)
THEOREM KnownCorrect == Spec => []KnownInv
  <1>1. Init => KnownInv
    <2> SUFFICES ASSUME Init PROVE KnownInv
      OBVIOUS
    <2>1. Len(bus) = 0 /\ Len(finishing) = 0 /\ \A n \in Attempts : air[n] = "idle"
      BY DEF Init
    <2> QED
      BY <2>1 DEF Init, KnownInv, FreshInv, NewestInv, UpGroupKnown
  <1>2. TypeOK /\ TypeOK' /\ KnownInv /\ [Next]_vars => KnownInv'
    BY KnownStep
  <1> QED
    BY <1>1, <1>2, TypeCorrect, PTL DEF Spec

(* Whatever comes late, fails or is given up on: a group that is up and    *)
(* has been reported is the one P2PDevice has, so that disconnect asks for *)
(* it; no such group survives a disconnect whose calls all succeeded.      *)
THEOREM UpGroupKept == Spec => []UpGroupKnown
  <1>1. KnownInv => UpGroupKnown
    BY DEF KnownInv
  <1> QED
    BY <1>1, KnownCorrect, PTL
=============================================================================
