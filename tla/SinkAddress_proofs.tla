------------------------- MODULE SinkAddress_proofs -------------------------
(***************************************************************************)
(* Theorems about SinkAddress, for any number of attempts and any finite   *)
(* set of clients on the group interface: first what every step of         *)
(* NMNext keeps of NMActivation, then what every step of the server and of *)
(* a client keeps of DHCPServer, and what follows of the two together.     *)
(***************************************************************************)
EXTENDS SinkAddress, FiniteSetTheorems, TLAPS

-----------------------------------------------------------------------------
(* NMActivation.                                                           *)

Gone == {"leaving", "disconnecting", "closed"}
Reply(i) == bus[i].type \in {"accepted", "refused"}
ReadBack(i) == bus[i].type \in {"read", "gone"}
SignalOf(i, n) == bus[i].type = "signal" /\ bus[i].of = n

(* An attempt's call is answered once, while the caller waits for it or    *)
(* has left: no later attempt takes an earlier one's answer for its own.   *)
RepliesInv ==
    /\ \A n \in Attempts :
          act[n] = "asked" => n = attempt /\ pc \in {"calling"} \cup Gone
    /\ \A i \in DOMAIN bus :
          Reply(i) =>
              /\ bus[i].of = attempt /\ act[attempt] # "asked"
              /\ pc \in {"calling"} \cup Gone
    /\ \A i, j \in DOMAIN bus : Reply(i) /\ Reply(j) => i = j

(* The path is the attempt's, and the one whose group was returned is the  *)
(* one kept.                                                               *)
PathInv ==
    /\ pc \in {"subscribing", "reading", "waiting", "address"} => active = attempt
    /\ got # None => pc \in {"connected", "leasing", "cast"} \cup Gone
    /\ got # None /\ pc # "closed" => active = got
    /\ pc = "disconnecting" => active # None
    /\ GroupTakenDown

(* What is read of the state is read for this attempt; if it was not an    *)
(* end, the end is still to come or its signal is on the way.              *)
StateInv ==
    /\ \A n \in Attempts : n <= attempt => act[n] # "idle"
    /\ pc \in {"subscribing", "reading", "waiting", "address"} => attempt \in Attempts
    /\ reading => pc \in {"reading"} \cup Gone /\ attempt \in Attempts
                  /\ act[attempt] # "asked"
    /\ \A i \in DOMAIN bus : ReadBack(i) => ~reading /\ pc \in {"reading"} \cup Gone
    /\ \A i, j \in DOMAIN bus : ReadBack(i) /\ ReadBack(j) => i = j
    /\ pc \in {"reading", "waiting"} => listening = attempt
    /\ pc = "reading" /\ fut = "pending" =>
          \A i \in DOMAIN bus :
              bus[i].type = "read" /\ bus[i].state = "activating" =>
                  \/ act[attempt] = "activating"
                  \/ \E j \in DOMAIN bus : SignalOf(j, attempt)
    /\ NoMissedState

NMInv == NMTypeOK /\ RepliesInv /\ PathInv /\ StateInv

-----------------------------------------------------------------------------
(* The queue.                                                              *)

LEMMA TailIndex ==
  ASSUME NEW S, NEW b \in Seq(S), b # <<>>
  PROVE  /\ Head(b) = b[1] /\ 1 \in DOMAIN b /\ Head(b) \in S
         /\ Tail(b) \in Seq(S)
         /\ \A i \in DOMAIN Tail(b) : i + 1 \in DOMAIN b /\ i + 1 # 1
                                      /\ Tail(b)[i] = b[i + 1]
         /\ \A i \in DOMAIN b : i # 1 =>
               i - 1 \in DOMAIN Tail(b) /\ Tail(b)[i - 1] = b[i]
         /\ \A i, j \in DOMAIN Tail(b) : i + 1 = j + 1 => i = j
  OBVIOUS

LEMMA AppendIndex ==
  ASSUME NEW S, NEW b \in Seq(S), NEW m \in S
  PROVE  /\ Append(b, m) \in Seq(S) /\ b \o <<m>> = Append(b, m)
         /\ DOMAIN Append(b, m) = DOMAIN b \cup {Len(b) + 1}
         /\ Len(b) + 1 \notin DOMAIN b
         /\ \A i \in DOMAIN b : Append(b, m)[i] = b[i]
         /\ Append(b, m)[Len(b) + 1] = m
  OBVIOUS

LEMMA EmptyConcat ==
  ASSUME NEW S, NEW b \in Seq(S)
  PROVE  b \o <<>> = b
  OBVIOUS

-----------------------------------------------------------------------------
(* The caller.                                                             *)

LEMMA ConnectKeeps ==
  ASSUME NMInv, Connect
  PROVE  NMInv'
  <1>1. /\ attempt + 1 \in Attempts /\ attempt \in Nat /\ attempt' = attempt + 1
        /\ act' = [act EXCEPT ![attempt + 1] = "asked"]
        /\ pc' = "calling" /\ pc \in {"start", "pause"}
        /\ UNCHANGED <<deviceVars, outcome, bus>>
    BY MaxAttemptsAssumption DEF Connect, NMInv, NMTypeOK, Attempts
  <1>2. NMTypeOK'
    BY <1>1, MaxAttemptsAssumption DEF NMInv, NMTypeOK, deviceVars, Attempts, Up
  <1>3. \A n \in Attempts : act[n] # "asked"
    BY <1>1 DEF NMInv, RepliesInv, Gone
  <1>4. \A i \in DOMAIN bus : ~ Reply(i)
    BY <1>1 DEF NMInv, RepliesInv, Gone
  <1>5. \A i \in DOMAIN bus : ~ ReadBack(i)
    BY <1>1 DEF NMInv, StateInv, Gone
  <1>6. RepliesInv'
    BY <1>1, <1>3, <1>4 DEF RepliesInv, Reply, NMInv, NMTypeOK
  <1>7. PathInv'
    BY <1>1 DEF PathInv, NMInv, deviceVars, GroupTakenDown, Gone
  <1>8. StateInv'
    BY <1>1, <1>5
    DEF StateInv, ReadBack, NMInv, NMTypeOK, deviceVars, NoMissedState, Attempts, Gone
  <1> QED
    BY <1>2, <1>6, <1>7, <1>8 DEF NMInv

LEMMA SubscribeKeeps ==
  ASSUME NMInv, Subscribe \/ SubscribeFails
  PROVE  NMInv'
  <1>1. \A i \in DOMAIN bus : ~ ReadBack(i)
    BY DEF Subscribe, SubscribeFails, NMInv, StateInv, Gone
  <1>2. attempt \in Attempts /\ act[attempt] # "asked"
    BY DEF Subscribe, SubscribeFails, NMInv, StateInv, RepliesInv, Gone
  <1>3. NMTypeOK'
    BY <1>2 DEF Subscribe, SubscribeFails, NMInv, NMTypeOK, deviceVars
  <1>4. RepliesInv'
    BY DEF Subscribe, SubscribeFails, NMInv, RepliesInv, Reply, deviceVars, Gone
  <1>5. PathInv'
    BY DEF Subscribe, SubscribeFails, NMInv, PathInv, GroupTakenDown, deviceVars, Gone
  <1>6. StateInv'
    BY <1>1, <1>2
    DEF Subscribe, SubscribeFails, NMInv, StateInv, ReadBack, NoMissedState,
        deviceVars, Gone
  <1> QED
    BY <1>3, <1>4, <1>5, <1>6 DEF NMInv

LEMMA WaitKeeps ==
  ASSUME NMInv, NEW to \in {"address", "pause"}, WaitEnds(to)
  PROVE  NMInv'
  <1>1. NMTypeOK'
    BY DEF WaitEnds, NMInv, NMTypeOK
  <1>2. RepliesInv'
    BY DEF WaitEnds, NMInv, RepliesInv, Reply, Gone
  <1>3. PathInv'
    BY DEF WaitEnds, NMInv, PathInv, GroupTakenDown, Gone
  <1>4. StateInv'
    BY DEF WaitEnds, NMInv, StateInv, ReadBack, NoMissedState, Gone
  <1> QED
    BY <1>1, <1>2, <1>3, <1>4 DEF NMInv

LEMMA AddressKeeps ==
  ASSUME NMInv, AddressAppears \/ NoAddress
  PROVE  NMInv'
  <1>1. NMTypeOK'
    BY DEF AddressAppears, NoAddress, NMInv, NMTypeOK, StateInv, deviceVars
  <1>2. RepliesInv'
    BY DEF AddressAppears, NoAddress, NMInv, RepliesInv, Reply, deviceVars, Gone
  <1>3. PathInv'
    BY DEF AddressAppears, NoAddress, NMInv, PathInv, GroupTakenDown, deviceVars, Gone
  <1>4. StateInv'
    BY DEF AddressAppears, NoAddress, NMInv, StateInv, ReadBack, NoMissedState,
           deviceVars, Gone
  <1> QED
    BY <1>1, <1>2, <1>3, <1>4 DEF NMInv

(* Steps of pc alone, out of the attempts.                                 *)
LEMMA LeaveKeeps ==
  ASSUME NMInv, Leave \/ GiveUp \/ NothingToDisconnect \/ Disconnect \/ LeavingCut
  PROVE  NMInv'
  <1>1. /\ UNCHANGED <<attempt, deviceVars, bus, act>>
        /\ pc' \in Gone /\ pc # "closed"
        /\ \/ pc' # "closed" /\ outcome' = outcome
           \/ pc' = "closed" /\ active = None /\ outcome' = outcome
           \/ pc' = "closed" /\ outcome' = "cut"
        /\ pc' = "disconnecting" => active # None
    BY DEF Leave, GiveUp, NothingToDisconnect, Disconnect, LeavingCut, NMInv, StateInv, Gone
  <1>2. NMTypeOK'
    BY <1>1 DEF NMInv, NMTypeOK, deviceVars, Gone
  <1>3. RepliesInv'
    BY <1>1 DEF NMInv, RepliesInv, Reply, deviceVars, Gone
  <1>4. PathInv'
    BY <1>1 DEF NMInv, PathInv, GroupTakenDown, deviceVars, Gone
  <1>5. StateInv'
    BY <1>1 DEF NMInv, StateInv, ReadBack, NoMissedState, deviceVars, Gone
  <1> QED
    BY <1>2, <1>3, <1>4, <1>5 DEF NMInv

LEMMA DisconnectedKeeps ==
  ASSUME NMInv, Disconnected \/ DisconnectFails \/ DisconnectCut
  PROVE  NMInv'
  <1>1. /\ pc = "disconnecting" /\ pc' = "closed" /\ active' = None
        /\ UNCHANGED <<attempt, listening, reading, fut, ip, got, bus>>
        /\ \/ act' = act /\ outcome' \in {"failed", "cut"}
           \/ act' = Deactivated /\ outcome' \in {"done", "cut"}
    BY DEF Disconnected, DisconnectFails, DisconnectCut, Forgotten
  <1>2. active \in Attempts /\ act' \in [Attempts -> {"idle", "down", "gone"} \cup Up]
    BY <1>1 DEF Deactivated, NMInv, NMTypeOK, PathInv
  <1>3. \A n \in Attempts :
          act'[n] = act[n] \/ (act'[n] = "down" /\ n = active)
    BY <1>1, <1>2 DEF Deactivated, NMInv, NMTypeOK
  <1>4. outcome' = "done" => act'[active] \notin Up
    BY <1>1, <1>2 DEF Deactivated, NMInv, NMTypeOK, Up
  <1>5. NMTypeOK'
    BY <1>1, <1>2 DEF NMInv, NMTypeOK
  <1>6. RepliesInv'
    <2>1. \A n \in Attempts : act'[n] = "asked" => act[n] = "asked"
      BY <1>3
    <2>2. \A i \in DOMAIN bus : Reply(i) => attempt \in Attempts
      BY DEF NMInv, NMTypeOK, RepliesInv, Reply, Messages
    <2> QED
      BY <1>1, <2>1, <2>2 DEF NMInv, RepliesInv, Reply, Gone
  <1>7. PathInv'
    BY <1>1, <1>4 DEF NMInv, PathInv, GroupTakenDown, Gone
  <1>8. StateInv'
    BY <1>1, <1>2, <1>3 DEF NMInv, StateInv, ReadBack, NoMissedState, Gone
  <1> QED
    BY <1>5, <1>6, <1>7, <1>8 DEF NMInv

-----------------------------------------------------------------------------
(* What arrives: only fut, active and pc change.                           *)

LEMMA Arrived ==
  ASSUME NMInv, NEW type, Arrives(type)
  PROVE  /\ Head(bus) = bus[1] /\ 1 \in DOMAIN bus /\ Head(bus) \in Messages
         /\ Head(bus).type = type /\ pc # "closed"
         /\ bus' \in Seq(Messages)
         /\ \A i \in DOMAIN bus' : i + 1 \in DOMAIN bus /\ i + 1 # 1
                                   /\ bus'[i] = bus[i + 1]
         /\ \A i \in DOMAIN bus : i # 1 =>
               i - 1 \in DOMAIN bus' /\ bus'[i - 1] = bus[i]
         /\ \A i, j \in DOMAIN bus' : i + 1 = j + 1 => i = j
  <1>1. bus \in Seq(Messages) /\ bus # <<>> /\ bus' = Tail(bus)
    BY DEF NMInv, NMTypeOK, Arrives
  <1> QED
    BY <1>1, TailIndex DEF Arrives

LEMMA AcceptedKeeps ==
  ASSUME NMInv, OnAccepted \/ OnRefused
  PROVE  NMInv'
  <1>1. PICK type \in {"accepted", "refused"} : Arrives(type)
    BY DEF OnAccepted, OnRefused
  <1>2. /\ Head(bus).of = attempt /\ attempt \in Attempts /\ act[attempt] # "asked"
        /\ pc \in {"calling", "leaving", "disconnecting"}
    BY <1>1, Arrived DEF NMInv, RepliesInv, Reply, Messages, Gone
  <1>3. \A i \in DOMAIN bus' : bus'[i].type \notin {"accepted", "refused"}
    BY <1>1, Arrived DEF NMInv, RepliesInv, Reply
  <1>4. /\ UNCHANGED <<attempt, listening, reading, fut, ip, got, outcome, act>>
        /\ pc' \in {"subscribing", "leaving", "disconnecting"}
        /\ pc' = "subscribing" => pc = "calling" /\ active' = attempt
        /\ pc' # "subscribing" => active' = active
        /\ pc' = "disconnecting" => pc = "disconnecting"
        /\ active' \in {active, attempt}
    BY <1>2 DEF OnAccepted, OnRefused, deviceVars
  <1>5. NMTypeOK'
    BY <1>1, <1>2, <1>4, Arrived DEF NMInv, NMTypeOK
  <1>6. RepliesInv'
    BY <1>2, <1>3, <1>4 DEF NMInv, RepliesInv, Reply, Gone
  <1>7. PathInv'
    BY <1>2, <1>4 DEF NMInv, PathInv, GroupTakenDown, Gone
  <1>8. /\ \A i \in DOMAIN bus' : bus'[i].type \in {"read", "gone"} =>
              ~reading /\ pc' \in Gone
        /\ \A i, j \in DOMAIN bus' :
              /\ bus'[i].type \in {"read", "gone"}
              /\ bus'[j].type \in {"read", "gone"}
              => i = j
    BY <1>1, <1>2, <1>4, Arrived DEF NMInv, StateInv, ReadBack, Gone
  <1>9. StateInv'
    BY <1>2, <1>4, <1>8 DEF NMInv, StateInv, ReadBack, NoMissedState, Gone
  <1> QED
    BY <1>5, <1>6, <1>7, <1>9 DEF NMInv

LEMMA SignalKeeps ==
  ASSUME NMInv, OnSignal
  PROVE  NMInv'
  <1>1. Arrives("signal")
    BY DEF OnSignal
  <1>2. Head(bus).of \in Attempts /\ Head(bus).state \in Finals
    BY <1>1, Arrived DEF Messages
  <1>3. /\ UNCHANGED <<pc, attempt, active, listening, reading, ip, got, outcome, act>>
        /\ fut' \in {fut} \cup Finals
        /\ fut' = "pending" => fut = "pending" /\ Head(bus).of # listening
    BY <1>2 DEF OnSignal, OnState, Finals
  <1>4. NMTypeOK'
    BY <1>1, <1>3, Arrived DEF NMInv, NMTypeOK
  <1>5. RepliesInv'
    BY <1>1, <1>3, Arrived DEF NMInv, RepliesInv, Reply
  <1>6. PathInv'
    BY <1>3 DEF NMInv, PathInv, GroupTakenDown
  <1>7. ASSUME pc \in {"reading", "waiting"}, fut' = "pending",
               NEW j \in DOMAIN bus, SignalOf(j, attempt)
        PROVE  \E k \in DOMAIN bus' : bus'[k].type = "signal" /\ bus'[k].of = attempt
    <2>1. j # 1
      BY <1>1, <1>3, <1>7, Arrived DEF NMInv, StateInv, SignalOf
    <2> QED
      BY <1>1, <1>7, <2>1, Arrived DEF SignalOf
  <1>8. StateInv'
    <2>1. NoMissedState'
      BY <1>3, <1>7 DEF NMInv, StateInv, NoMissedState, SignalOf
    <2>2. /\ \A i \in DOMAIN bus' : bus'[i].type \in {"read", "gone"} =>
                ~reading' /\ pc' \in {"reading"} \cup Gone
          /\ \A i, j \in DOMAIN bus' :
                /\ bus'[i].type \in {"read", "gone"}
                /\ bus'[j].type \in {"read", "gone"}
                => i = j
      BY <1>1, <1>3, Arrived DEF NMInv, StateInv, ReadBack
    <2>3. ASSUME pc' = "reading", fut' = "pending", NEW i \in DOMAIN bus',
                 bus'[i].type = "read", bus'[i].state = "activating"
          PROVE  \/ act[attempt] = "activating"
                 \/ \E k \in DOMAIN bus' : bus'[k].type = "signal" /\ bus'[k].of = attempt
      BY <1>1, <1>3, <1>7, <2>3, Arrived DEF NMInv, StateInv
    <2> QED
      BY <1>3, <2>1, <2>2, <2>3 DEF NMInv, StateInv, ReadBack, SignalOf
  <1> QED
    BY <1>4, <1>5, <1>6, <1>8 DEF NMInv

LEMMA ReadKeeps ==
  ASSUME NMInv, OnRead \/ OnGone
  PROVE  NMInv'
  <1>1. PICK type \in {"read", "gone"} : Arrives(type)
    BY DEF OnRead, OnGone
  <1>2. /\ UNCHANGED <<attempt, active, listening, reading, ip, got, outcome, act>>
        /\ pc \in {"reading", "leaving", "disconnecting"}
        /\ pc' \in {"waiting", "leaving", "disconnecting"}
        /\ pc' = "disconnecting" => pc = "disconnecting"
        /\ pc' = "waiting" => pc = "reading" /\ type = "read"
        /\ fut' \in {"pending"} \cup Finals
    BY <1>1, Arrived
    DEF OnRead, OnGone, OnState, NMInv, NMTypeOK, StateInv, ReadBack, deviceVars, Gone
  <1>3. NMTypeOK'
    BY <1>1, <1>2, Arrived DEF NMInv, NMTypeOK
  <1>4. RepliesInv'
    BY <1>1, <1>2, Arrived DEF NMInv, RepliesInv, Reply, Gone
  <1>5. PathInv'
    BY <1>2 DEF NMInv, PathInv, GroupTakenDown, Gone
  <1>6. ASSUME pc' = "waiting", fut' = "pending"
        PROVE  \/ act[attempt] = "activating"
               \/ \E k \in DOMAIN bus' : bus'[k].type = "signal" /\ bus'[k].of = attempt
    <2>1. fut = "pending" /\ Head(bus).type = "read" /\ Head(bus).state \notin Finals
      BY <1>1, <1>2, <1>6, Arrived DEF OnRead, OnGone, OnState, Finals
    <2>2. Head(bus).state = "activating"
      BY <1>1, <2>1, Arrived DEF Messages
    <2>3. \/ act[attempt] = "activating"
          \/ \E j \in DOMAIN bus : bus[j].type = "signal" /\ bus[j].of = attempt
      BY <1>1, <1>2, <1>6, <2>1, <2>2, Arrived DEF NMInv, StateInv, SignalOf
    <2> QED
      BY <1>1, <2>1, <2>3, Arrived
  <1>7. /\ ~reading
        /\ \A i \in DOMAIN bus' : bus'[i].type \notin {"read", "gone"}
    <2>1. ReadBack(1) /\ 1 \in DOMAIN bus
      BY <1>1, Arrived DEF ReadBack
    <2>2. ~reading /\ \A i \in DOMAIN bus : ReadBack(i) => i = 1
      BY <2>1 DEF NMInv, StateInv
    <2> QED
      BY <1>1, <2>2, Arrived DEF ReadBack
  <1>8. StateInv'
    BY <1>1, <1>2, <1>6, <1>7, Arrived DEF NMInv, StateInv, ReadBack, NoMissedState, Gone
  <1> QED
    BY <1>3, <1>4, <1>5, <1>8 DEF NMInv

-----------------------------------------------------------------------------
(* NetworkManager.                                                         *)

(* What all its steps have in common: one activation moves, out of a state *)
(* that is not an attempt's call under way into one that is not either.    *)
LEMMA MovesKeep ==
  ASSUME NMInv, NEW n \in Attempts, NEW to \in {"activating", "activated", "down", "gone"},
         act[n] # "idle", act' = [act EXCEPT ![n] = to],
         to \in Up => act[n] \in Up,
         UNCHANGED <<pc, attempt, deviceVars, outcome>>
  PROVE  /\ act' \in [Attempts -> {"idle", "down", "gone"} \cup Up]
         /\ PathInv'
         /\ \A k \in Attempts : act'[k] = "asked" => act[k] = "asked"
         /\ \A k \in Attempts : act'[k] = "idle" => act[k] = "idle"
  <1>1. /\ act' \in [Attempts -> {"idle", "down", "gone"} \cup Up]
        /\ \A k \in Attempts : act'[k] = IF k = n THEN to ELSE act[k]
    BY DEF NMInv, NMTypeOK, Up
  <1>2. GroupTakenDown'
    <2>1. ASSUME pc = "closed", outcome \notin {"failed", "cut"}, got # None
          PROVE  act'[got] \notin Up
      <3>1. got \in Attempts /\ act[got] \notin Up
        BY <2>1 DEF NMInv, NMTypeOK, PathInv, GroupTakenDown
      <3> QED
        BY <1>1, <3>1
    <2> QED
      BY <2>1 DEF GroupTakenDown, deviceVars
  <1> QED
    BY <1>1, <1>2 DEF NMInv, PathInv, deviceVars

LEMMA AnswerKeeps ==
  ASSUME NMInv, NEW n \in Attempts, Answer(n)
  PROVE  NMInv'
  <1>1. PICK type \in {"accepted", "refused"}, to \in {"activating", "gone"} :
          Change(n, {"asked"}, to, <<[of |-> n, type |-> type]>>)
    BY DEF Answer
  <1> DEFINE m == [of |-> n, type |-> type]
  <1>2. /\ act[n] = "asked" /\ act' = [act EXCEPT ![n] = to]
        /\ bus' = bus \o <<m>> /\ UNCHANGED <<pc, attempt, deviceVars, outcome>>
    BY <1>1 DEF Change
  <1>3. m \in Messages /\ bus \in Seq(Messages)
    BY DEF Messages, NMInv, NMTypeOK
  <1>4. /\ bus' \in Seq(Messages)
        /\ DOMAIN bus' = DOMAIN bus \cup {Len(bus) + 1}
        /\ \A i \in DOMAIN bus : bus'[i] = bus[i]
        /\ bus'[Len(bus) + 1] = m
    BY <1>2, <1>3, AppendIndex
  <1>5. n = attempt /\ pc \in {"calling"} \cup Gone
    BY <1>2 DEF NMInv, RepliesInv
  <1>6. \A i \in DOMAIN bus : ~ Reply(i)
    BY <1>2, <1>5 DEF NMInv, RepliesInv
  <1>7. /\ act' \in [Attempts -> {"idle", "down", "gone"} \cup Up] /\ PathInv'
        /\ \A k \in Attempts : act'[k] = "asked" => act[k] = "asked"
        /\ \A k \in Attempts : act'[k] = "idle" => act[k] = "idle"
    BY <1>2, MovesKeep DEF Up
  <1>8. act'[n] # "asked"
    BY <1>2 DEF NMInv, NMTypeOK
  <1>9. NMTypeOK'
    BY <1>2, <1>4, <1>7 DEF NMInv, NMTypeOK, deviceVars
  <1>10. RepliesInv'
    <2>1. \A i \in DOMAIN bus' :
            bus'[i].type \in {"accepted", "refused"} => i = Len(bus) + 1
      BY <1>4, <1>6 DEF Reply
    <2> QED
      BY <1>2, <1>4, <1>5, <1>7, <1>8, <2>1 DEF NMInv, RepliesInv, Reply
  <1>11. ~reading \/ pc # "calling"
    BY DEF NMInv, StateInv, Gone
  <1>12. StateInv'
    BY <1>2, <1>4, <1>5, <1>7, <1>8
    DEF NMInv, StateInv, ReadBack, NoMissedState, deviceVars, Gone
  <1> QED
    BY <1>7, <1>9, <1>10, <1>12 DEF NMInv

(* An activation that nobody awaits the answer of moves, silently or with  *)
(* a signal to who listens.                                                *)
LEMMA ChangeKeeps ==
  ASSUME NMInv, NEW n \in Attempts,
         NEW to \in {"activated", "down", "gone"},
         act[n] # "idle", to \in Up => act[n] \in Up,
         act' = [act EXCEPT ![n] = to], UNCHANGED <<pc, attempt, deviceVars, outcome>>,
         \/ /\ bus' = bus
            /\ \/ act[n] = "down" \/ listening # n \/ pc = "closed"
         \/ \E state \in Finals :
               bus' = bus \o <<[of |-> n, state |-> state, type |-> "signal"]>>
  PROVE  NMInv'
  <1>1. /\ act' \in [Attempts -> {"idle", "down", "gone"} \cup Up] /\ PathInv'
        /\ \A k \in Attempts : act'[k] = "asked" => act[k] = "asked"
        /\ \A k \in Attempts : act'[k] = "idle" => act[k] = "idle"
    BY MovesKeep
  <1>2. \A k \in Attempts : k # n => act'[k] = act[k]
    BY DEF NMInv, NMTypeOK
  <1>3. CASE bus' = bus /\ (act[n] = "down" \/ listening # n \/ pc = "closed")
    <2>1. NMTypeOK'
      BY <1>1, <1>3 DEF NMInv, NMTypeOK, deviceVars
    <2>2. RepliesInv'
      <3>1. \A i \in DOMAIN bus : Reply(i) => attempt \in Attempts
        BY DEF NMInv, NMTypeOK, RepliesInv, Reply, Messages
      <3> QED
        BY <1>1, <1>3, <3>1 DEF NMInv, RepliesInv, Reply
    <2>3. pc \in {"reading", "waiting"} => act[attempt] = "down" \/ n # attempt
      BY <1>3 DEF NMInv, StateInv
    <2>4. StateInv'
      BY <1>1, <1>2, <1>3, <2>3
      DEF NMInv, StateInv, ReadBack, SignalOf, NoMissedState, deviceVars
    <2> QED
      BY <1>1, <2>1, <2>2, <2>4 DEF NMInv
  <1>4. ASSUME NEW state \in Finals,
               bus' = bus \o <<[of |-> n, state |-> state, type |-> "signal"]>>
        PROVE  NMInv'
    <2> DEFINE m == [of |-> n, state |-> state, type |-> "signal"]
    <2>1. m \in Messages /\ bus \in Seq(Messages)
      BY DEF Messages, NMInv, NMTypeOK
    <2>2. /\ bus' \in Seq(Messages)
          /\ DOMAIN bus' = DOMAIN bus \cup {Len(bus) + 1}
          /\ \A i \in DOMAIN bus : bus'[i] = bus[i]
          /\ bus'[Len(bus) + 1] = m
      BY <1>4, <2>1, AppendIndex
    <2>3. NMTypeOK'
      BY <1>1, <2>2 DEF NMInv, NMTypeOK, deviceVars
    <2>4. RepliesInv'
      <3>1. \A i \in DOMAIN bus : Reply(i) => attempt \in Attempts
        BY DEF NMInv, NMTypeOK, RepliesInv, Reply, Messages
      <3>2. \A i \in DOMAIN bus' :
              bus'[i].type \in {"accepted", "refused"} => i \in DOMAIN bus /\ Reply(i)
        BY <2>2 DEF Reply
      <3> QED
        BY <1>1, <2>2, <3>1, <3>2 DEF NMInv, RepliesInv, Reply
    <2>5. \A i \in DOMAIN bus' :
              bus'[i].type \in {"read", "gone"} => i \in DOMAIN bus /\ ReadBack(i)
      BY <2>2 DEF ReadBack
    <2>6. n = attempt => \E j \in DOMAIN bus' :
              bus'[j].type = "signal" /\ bus'[j].of = attempt
      BY <2>2
    <2>7. (\E j \in DOMAIN bus : SignalOf(j, attempt)) =>
              \E j \in DOMAIN bus' : bus'[j].type = "signal" /\ bus'[j].of = attempt
      BY <2>2 DEF SignalOf
    <2>8. NoMissedState'
      BY <1>2, <2>6, <2>7 DEF NMInv, StateInv, NoMissedState, SignalOf, deviceVars
    <2>9. ASSUME pc = "reading", fut = "pending", NEW i \in DOMAIN bus',
                 bus'[i].type = "read", bus'[i].state = "activating"
          PROVE  \/ act'[attempt] = "activating"
                 \/ \E j \in DOMAIN bus' : bus'[j].type = "signal" /\ bus'[j].of = attempt
      <3>1. \/ act[attempt] = "activating"
            \/ \E j \in DOMAIN bus : SignalOf(j, attempt)
        BY <2>2, <2>5, <2>9 DEF NMInv, StateInv
      <3> QED
        BY <1>2, <2>6, <2>7, <2>9, <3>1 DEF NMInv, StateInv
    <2>10. StateInv'
      BY <1>1, <2>2, <2>5, <2>8, <2>9
      DEF NMInv, StateInv, ReadBack, SignalOf, deviceVars
    <2> QED
      BY <1>1, <2>3, <2>4, <2>10 DEF NMInv
  <1> QED
    BY <1>3, <1>4

LEMMA ManagerKeeps ==
  ASSUME NMInv, Manager \/ EndBound
  PROVE  NMInv'
  <1>1. bus \in Seq(Messages) /\ bus \o <<>> = bus
    BY EmptyConcat DEF NMInv, NMTypeOK
  <1>2. ASSUME NEW n \in Attempts, Activate(n) \/ Deactivate(n) PROVE NMInv'
    <2>1. PICK state \in Finals, to \in {"activated", "down"} :
            /\ act[n] \in {"activating", "activated"}
            /\ act' = [act EXCEPT ![n] = to] /\ bus' = bus \o Signal(n, state)
            /\ UNCHANGED <<pc, attempt, deviceVars, outcome>>
      BY <1>2 DEF Activate, Deactivate, Change, Finals
    <2>2. CASE listening = n
      BY <2>1, <2>2, ChangeKeeps DEF Signal, Up
    <2>3. CASE listening # n
      BY <1>1, <2>1, <2>3, ChangeKeeps DEF Signal, Up
    <2> QED
      BY <2>2, <2>3
  <1>3. ASSUME NEW n \in Attempts, Remove(n) PROVE NMInv'
    BY <1>1, <1>3, ChangeKeeps DEF Remove, Change, Up
  <1>4. CASE EndBound
    <2>1. PICK n \in Attempts : pc = "closed" /\ Change(n, Up, "gone", <<>>)
      BY <1>4 DEF EndBound
    <2> QED
      BY <1>1, <2>1, ChangeKeeps DEF Change, Up
  <1> QED
    BY <1>2, <1>3, <1>4 DEF Manager

LEMMA AnswerReadKeeps ==
  ASSUME NMInv, AnswerRead
  PROVE  NMInv'
  <1> DEFINE m == IF act[attempt] = "gone" THEN [of |-> attempt, type |-> "gone"]
                  ELSE [of |-> attempt, type |-> "read",
                        state |-> IF act[attempt] = "down" THEN "deactivated"
                                                          ELSE act[attempt]]
  <1>1. /\ reading /\ reading' = FALSE /\ bus' = Append(bus, m)
        /\ UNCHANGED <<pc, attempt, active, listening, fut, ip, got, outcome, act>>
    BY DEF AnswerRead
  <1>2. /\ attempt \in Attempts /\ act[attempt] \notin {"asked", "idle"}
        /\ pc \in {"reading"} \cup Gone
    BY <1>1 DEF NMInv, StateInv, Attempts
  <1>3. m \in Messages /\ m.type \in {"read", "gone"}
        /\ (m.type = "read" /\ m.state = "activating" => act[attempt] = "activating")
    <2>1. act[attempt] \in {"down", "gone", "activating", "activated"}
      BY <1>2 DEF NMInv, NMTypeOK, Up
    <2> QED
      BY <1>2, <2>1 DEF Messages, Finals
  <1> HIDE DEF m
  <1>4. /\ bus' \in Seq(Messages)
        /\ DOMAIN bus' = DOMAIN bus \cup {Len(bus) + 1}
        /\ \A i \in DOMAIN bus : bus'[i] = bus[i]
        /\ bus'[Len(bus) + 1] = m
    BY <1>1, <1>3, AppendIndex DEF NMInv, NMTypeOK
  <1>5. NMTypeOK'
    BY <1>1, <1>4 DEF NMInv, NMTypeOK
  <1>6. RepliesInv'
    BY <1>1, <1>3, <1>4 DEF NMInv, RepliesInv, Reply
  <1>7. PathInv'
    BY <1>1 DEF NMInv, PathInv, GroupTakenDown
  <1>8. \A i \in DOMAIN bus' : bus'[i].type \in {"read", "gone"} => i = Len(bus) + 1
    BY <1>1, <1>4 DEF NMInv, StateInv, ReadBack
  <1>9. StateInv'
    BY <1>1, <1>2, <1>3, <1>4, <1>8 DEF NMInv, StateInv, ReadBack, SignalOf, NoMissedState, Gone
  <1> QED
    BY <1>5, <1>6, <1>7, <1>9 DEF NMInv

-----------------------------------------------------------------------------
(* Together.                                                               *)

LEMMA NMStart == NMInit => NMInv
  <1> SUFFICES ASSUME NMInit PROVE NMInv
    OBVIOUS
  <1>1. bus \in Seq(Messages) /\ DOMAIN bus = {}
    <2>1. \A S : <<>> \in Seq(S)
      OBVIOUS
    <2>2. DOMAIN <<>> = {}
      OBVIOUS
    <2> QED
      BY <2>1, <2>2 DEF NMInit
  <1>2. act \in [Attempts -> {"idle", "down", "gone"} \cup Up]
    BY DEF NMInit
  <1>3. NMTypeOK
    <2>1. attempt \in 0..MaxAttempts
      BY MaxAttemptsAssumption DEF NMInit
    <2>2. {active, listening, got} \subseteq Attempts \cup {None}
      BY DEF NMInit
    <2> QED
      BY <1>1, <1>2, <2>1, <2>2 DEF NMInit, NMTypeOK
  <1>4. PathInv
    BY DEF NMInit, PathInv, GroupTakenDown
  <1>5. RepliesInv
    <2>1. \A n \in Attempts : act[n] = "idle"
      BY DEF NMInit
    <2> QED
      BY <1>1, <2>1 DEF RepliesInv
  <1>6. StateInv
    BY <1>1 DEF NMInit, StateInv, NoMissedState, Attempts
  <1> QED
    BY <1>3, <1>4, <1>5, <1>6 DEF NMInv

LEMMA NMKeeps ==
  ASSUME NMInv, NMNext
  PROVE  NMInv'
  BY ConnectKeeps, SubscribeKeeps, WaitKeeps, AddressKeeps, LeaveKeeps,
     DisconnectedKeeps, AcceptedKeeps, SignalKeeps, ReadKeeps, AnswerKeeps,
     ManagerKeeps, AnswerReadKeeps
  DEF NMNext, Interrupted, Caller, Activated, ActivationFailed, ActivationTimedOut,
      Handlers, Answers

-----------------------------------------------------------------------------
(* DHCPServer.                                                             *)

Leasing == {m \in Clients : leases[m] # Nobody}

(* Addresses are given out in order, each to one client and for good; who  *)
(* has been offered or granted one has it down at the server.              *)
LeasesInv ==
    /\ \A m \in Clients : leases[m] < next
    /\ \A m, k \in Clients : leases[m] = leases[k] /\ leases[m] # Nobody => m = k
    /\ \A d \in sent : d.type \in {"OFFER", "ACK"} =>
          d.ip # Nobody /\ leases[d.mac] = d.ip
    /\ \A m \in Clients : client[m] \in Holding =>
          asked[m] # Nobody /\ leases[m] = asked[m]
    /\ lease # Nobody => \E m \in Clients : leases[m] = lease

DHCPInv == DHCPTypeOK /\ LeasesInv

-----------------------------------------------------------------------------
(* The pool.                                                               *)

LEMMA PoolType ==
  /\ Cardinality(Clients) \in Nat
  /\ \A S \in SUBSET Clients :
        /\ IsFiniteSet(S) /\ Cardinality(S) \in Nat
        /\ Cardinality(S) <= Cardinality(Clients)
        /\ S # Clients => Cardinality(S) < Cardinality(Clients)
        /\ \A m \in Clients \ S : Cardinality(S \cup {m}) = Cardinality(S) + 1
  BY ClientsAssumption, FS_CardinalityType, FS_Subset, FS_AddElement

(* A client without an address gets the next one, and there is one.        *)
LEMMA AllocatedKeeps ==
  ASSUME DHCPInv, NEW mac \in Clients, Allocated(mac)
  PROVE  /\ Allocate(mac) \in Addresses
         /\ leases' \in [Clients -> Addresses \cup {Nobody}]
         /\ leases'[mac] = Allocate(mac)
         /\ \A m \in Clients : leases[m] # Nobody => leases'[m] = leases[m]
         /\ next' = 1 + Cardinality(Leasing')
         /\ \A m \in Clients : leases'[m] < next'
         /\ \A m, k \in Clients :
               leases'[m] = leases'[k] /\ leases'[m] # Nobody => m = k
  <1>1. /\ next \in Nat /\ next = 1 + Cardinality(Leasing)
        /\ leases \in [Clients -> Nat]
        /\ \A m \in Clients : leases[m] \in Addresses \cup {Nobody} /\ leases[m] < next
        /\ Leasing \subseteq Clients
    BY PoolType DEF DHCPInv, DHCPTypeOK, LeasesInv, Leasing, Addresses, Nobody
  <1>2. CASE leases[mac] # Nobody
    <2>1. Allocate(mac) = leases[mac] /\ leases' = leases /\ next' = next
      BY <1>1, <1>2 DEF Allocated, Allocate, Nobody
    <2> QED
      BY <1>1, <1>2, <2>1 DEF DHCPInv, DHCPTypeOK, LeasesInv, Leasing, Addresses, Nobody
  <1>3. CASE leases[mac] = Nobody
    <2>1. /\ Allocate(mac) = next /\ next' = next + 1
          /\ leases' = [leases EXCEPT ![mac] = next]
      BY <1>3 DEF Allocated, Allocate
    <2>2. mac \notin Leasing /\ Leasing # Clients
      BY <1>3 DEF Leasing
    <2>3. next \in Addresses
      BY <1>1, <2>2, PoolType DEF Addresses
    <2>4. Leasing' = Leasing \cup {mac}
      BY <1>1, <1>3, <2>1, <2>3 DEF Leasing, Addresses, Nobody
    <2>5. next' = 1 + Cardinality(Leasing')
      BY <1>1, <2>1, <2>2, <2>4, PoolType
    <2>6. leases' \in [Clients -> Addresses \cup {Nobody}] /\ leases'[mac] = next
      BY <2>1, <2>3 DEF DHCPInv, DHCPTypeOK
    <2>7. \A m \in Clients : m # mac => leases'[m] = leases[m]
      BY <1>1, <2>1
    <2>8. /\ \A m \in Clients : leases[m] # Nobody => leases'[m] = leases[m]
          /\ \A m \in Clients : leases'[m] < next'
      BY <1>1, <1>3, <2>1, <2>6, <2>7
    <2>9. \A m, k \in Clients :
             leases'[m] = leases'[k] /\ leases'[m] # Nobody => m = k
      BY <1>1, <2>6, <2>7 DEF DHCPInv, LeasesInv
    <2> QED
      BY <2>1, <2>3, <2>5, <2>6, <2>8, <2>9
  <1> QED
    BY <1>2, <1>3

-----------------------------------------------------------------------------
(* The server and its clients.                                             *)

LEMMA ServerKeeps ==
  ASSUME DHCPInv, Server
  PROVE  DHCPInv'
  <1>1. PICK d \in sent : DatagramReceived(d)
    BY DEF Server
  <1>2. d \in Datagrams /\ d.mac \in Clients /\ d.xid \in 0..1
    BY <1>1 DEF DHCPInv, DHCPTypeOK, Datagrams
  <1>3. Allocated(d.mac) /\ UNCHANGED clientVars
    BY <1>1 DEF DatagramReceived, OnDiscover, OnForeignRequest, OnRequest
  <1>4. lease' \in {lease, Allocate(d.mac)}
    BY <1>1 DEF DatagramReceived, OnDiscover, OnForeignRequest, OnRequest
  <1>5. PICK type \in {"OFFER", "ACK", "NAK"}, addr \in {Nobody, Allocate(d.mac)} :
          /\ Send(type, d.mac, d.xid, addr)
          /\ type # "NAK" => addr = Allocate(d.mac)
    BY <1>1 DEF DatagramReceived, OnDiscover, OnForeignRequest, OnRequest
  <1>6. Allocate(d.mac) \in Addresses /\ Allocate(d.mac) # Nobody
    BY <1>2, <1>3, AllocatedKeeps DEF Addresses, Nobody
  <1>7. sent' = sent \cup {Datagram(type, d.mac, d.xid, addr)}
        /\ Datagram(type, d.mac, d.xid, addr) \in Datagrams
    BY <1>2, <1>5, <1>6 DEF Send, Datagram, Datagrams
  <1>8. DHCPTypeOK'
    BY <1>2, <1>3, <1>4, <1>6, <1>7, AllocatedKeeps
    DEF DHCPInv, DHCPTypeOK, Leasing, clientVars
  <1>9. \A e \in sent' : e.type \in {"OFFER", "ACK"} =>
            e.ip # Nobody /\ leases'[e.mac] = e.ip
    <2>1. ASSUME NEW e \in sent, e.type \in {"OFFER", "ACK"}
          PROVE  e.ip # Nobody /\ leases'[e.mac] = e.ip
      <3>1. e.mac \in Clients /\ e.ip # Nobody /\ leases[e.mac] = e.ip
        BY <2>1 DEF DHCPInv, DHCPTypeOK, LeasesInv, Datagrams
      <3> QED
        BY <1>2, <1>3, <3>1, AllocatedKeeps
    <2>2. type \in {"OFFER", "ACK"} =>
            addr # Nobody /\ leases'[d.mac] = addr
      BY <1>2, <1>3, <1>5, <1>6, AllocatedKeeps
    <2> QED
      BY <1>7, <2>1, <2>2 DEF Datagram
  <1>10. \A m \in Clients : client'[m] \in Holding =>
            asked'[m] # Nobody /\ leases'[m] = asked'[m]
    BY <1>2, <1>3, AllocatedKeeps DEF DHCPInv, LeasesInv, clientVars
  <1>11. lease' # Nobody => \E m \in Clients : leases'[m] = lease'
    BY <1>2, <1>3, <1>4, AllocatedKeeps DEF DHCPInv, LeasesInv
  <1> QED
    BY <1>2, <1>3, <1>8, <1>9, <1>10, <1>11, AllocatedKeeps DEF DHCPInv, LeasesInv

LEMMA SendKeeps ==
  ASSUME DHCPInv, UNCHANGED serverVars,
         NEW type \in {"DISCOVER", "REQUEST"}, NEW m \in Clients, NEW xid \in 0..1,
         NEW addr \in Addresses \cup {Nobody}, Send(type, m, xid, addr)
  PROVE  /\ sent' \subseteq Datagrams
         /\ \A d \in sent' : d.type \in {"OFFER", "ACK"} =>
               d.ip # Nobody /\ leases[d.mac] = d.ip
  BY DEF DHCPInv, DHCPTypeOK, LeasesInv, Send, Datagram, Datagrams

LEMMA ClientKeeps ==
  ASSUME DHCPInv, NEW m \in Clients, ClientStep(m)
  PROVE  DHCPInv'
  <1>0. UNCHANGED serverVars
    BY DEF ClientStep, Reclaim, Discover, OnOffer, Renew, OnAck, OnNak
  <1>1. CASE Reclaim(m)
    <2>1. PICK addr \in Addresses :
            asked' = [asked EXCEPT ![m] = addr] /\ Send("REQUEST", m, 0, addr)
      BY <1>1 DEF Reclaim
    <2> QED
      BY <1>0, <1>1, <2>1, SendKeeps
      DEF Reclaim, Becomes, DHCPInv, DHCPTypeOK, LeasesInv, Holding, serverVars
  <1>2. CASE Discover(m)
    BY <1>0, <1>2, SendKeeps
    DEF Discover, Becomes, DHCPInv, DHCPTypeOK, LeasesInv, Holding, serverVars
  <1>3. CASE OnOffer(m)
    <2>1. PICK addr \in Addresses :
            asked' = [asked EXCEPT ![m] = addr] /\ Send("REQUEST", m, 1, addr)
      BY <1>3 DEF OnOffer
    <2> QED
      BY <1>0, <1>3, <2>1, SendKeeps
      DEF OnOffer, Becomes, DHCPInv, DHCPTypeOK, LeasesInv, Holding, serverVars
  <1>4. CASE Renew(m)
    BY <1>0, <1>4, SendKeeps
    DEF Renew, Becomes, DHCPInv, DHCPTypeOK, LeasesInv, Holding, serverVars
  <1>5. CASE OnAck(m)
    <2>1. PICK addr \in Addresses :
            Datagram("ACK", m, Xid(m), addr) \in sent /\ asked' = [asked EXCEPT ![m] = addr]
      BY <1>5 DEF OnAck
    <2>2. addr # Nobody /\ leases[m] = addr
      BY <2>1 DEF DHCPInv, LeasesInv, Datagram
    <2> QED
      BY <1>0, <1>5, <2>1, <2>2
      DEF OnAck, Becomes, DHCPInv, DHCPTypeOK, LeasesInv, Holding, serverVars
  <1>6. CASE OnNak(m)
    BY <1>0, <1>6
    DEF OnNak, Becomes, DHCPInv, DHCPTypeOK, LeasesInv, Holding, serverVars
  <1> QED
    BY <1>1, <1>2, <1>3, <1>4, <1>5, <1>6 DEF ClientStep

LEMMA DHCPStart == DHCPInit => DHCPInv
  <1>1. ASSUME DHCPInit PROVE Leasing = {} /\ Cardinality(Leasing) = 0
    BY <1>1, FS_EmptySet DEF DHCPInit, Leasing
  <1> QED
    BY <1>1 DEF DHCPInit, DHCPInv, DHCPTypeOK, LeasesInv, Leasing, Holding, Nobody

LEMMA InvDistinct == DHCPInv => BoundDistinct
  BY DEF DHCPInv, LeasesInv, BoundDistinct

-----------------------------------------------------------------------------
(* The composition.                                                        *)

(* Where the cast goes is known from our role in the group, and then from  *)
(* the lease.                                                              *)
AddressInv ==
    /\ sinkIp \in Addresses \cup {Nobody, OwnerIp}
    /\ pc = "leasing" => ip # "client"
    /\ pc = "cast" => IF ip = "client" THEN sinkIp = OwnerIp
                                       ELSE sinkIp = lease /\ lease # Nobody

Inv == NMInv /\ DHCPInv /\ AddressInv

LEMMA InvStart == Init => Inv
  BY NMStart, DHCPStart DEF Init, Inv, AddressInv, NMInit

(* The caller's own steps move it on from a group it keeps.                *)
LEMMA GotoKeeps ==
  ASSUME NMInv, NEW from, NEW to, Goto(from, to),
         <<from, to>> \in {<<"connected", "cast">>, <<"connected", "leasing">>,
                           <<"leasing", "cast">>, <<"leasing", "leaving">>}
  PROVE  NMInv'
  <1>1. /\ pc \in {"connected", "leasing"} /\ pc' \in {"leasing", "cast", "leaving"}
        /\ UNCHANGED <<attempt, deviceVars, outcome, bus, act>>
    BY DEF Goto
  <1>2. NMTypeOK'
    BY <1>1 DEF NMInv, NMTypeOK, deviceVars
  <1>3. RepliesInv'
    BY <1>1 DEF NMInv, RepliesInv, Reply, Gone
  <1>4. PathInv'
    BY <1>1 DEF NMInv, PathInv, GroupTakenDown, deviceVars, Gone
  <1>5. StateInv'
    BY <1>1 DEF NMInv, StateInv, ReadBack, NoMissedState, deviceVars, Gone
  <1> QED
    BY <1>2, <1>3, <1>4, <1>5 DEF NMInv

LEMMA AddressingKeeps ==
  ASSUME Inv, Addressing \/ LeaseTimedOut
  PROVE  Inv'
  <1>1. NMInv'
    BY GotoKeeps DEF Inv, Addressing, SinkKnown, StartDHCP, Leased, LeaseTimedOut
  <1>2. UNCHANGED <<deviceVars, dhcpVars>>
    BY DEF Addressing, SinkKnown, StartDHCP, Leased, LeaseTimedOut, Goto
  <1>3. DHCPInv'
    BY <1>2 DEF Inv, DHCPInv, DHCPTypeOK, LeasesInv, dhcpVars, serverVars, clientVars
  <1>4. AddressInv'
    BY <1>2 DEF Inv, AddressInv, DHCPInv, DHCPTypeOK, Addressing, SinkKnown,
                StartDHCP, Leased, LeaseTimedOut, Goto, deviceVars, dhcpVars, serverVars
  <1> QED
    BY <1>1, <1>3, <1>4 DEF Inv

(* Only AddressAppears changes our role, and only Addressing and           *)
(* LeaseTimedOut enter or leave "leasing" and "cast", but for Leave.       *)
LEMMA RoleKept ==
  ASSUME NMNext, pc' \in {"leasing", "cast"}
  PROVE  pc' = pc /\ ip' = ip
  <1>1. CASE Caller
    BY <1>1 DEF Caller, Connect, Subscribe, SubscribeFails, Activated,
       ActivationFailed, ActivationTimedOut, WaitEnds, AddressAppears, NoAddress,
       GiveUp, NothingToDisconnect, Disconnect, Disconnected, DisconnectFails, Forgotten
  <1>2. CASE Handlers
    BY <1>2 DEF Handlers, OnAccepted, OnRefused, OnSignal, OnRead, OnGone, deviceVars
  <1>3. CASE Interrupted \/ Answers \/ Manager \/ EndBound
    BY <1>3 DEF Interrupted, Leave, DisconnectCut, LeavingCut, Forgotten, Answers, AnswerRead, Answer, Manager, Activate, Deactivate,
       Remove, EndBound, Change, deviceVars
  <1> QED
    BY <1>1, <1>2, <1>3 DEF NMNext

LEMMA NMStepKeeps ==
  ASSUME Inv, NMStep
  PROVE  Inv'
  <1>1. NMInv'
    BY NMKeeps DEF Inv, NMStep
  <1>2. DHCPInv'
    BY DEF Inv, NMStep, DHCPInv, DHCPTypeOK, LeasesInv, dhcpVars, serverVars, clientVars
  <1>3. AddressInv'
    BY RoleKept DEF Inv, NMStep, AddressInv, dhcpVars, serverVars
  <1> QED
    BY <1>1, <1>2, <1>3 DEF Inv

LEMMA NMUnchanged ==
  ASSUME NMInv, UNCHANGED nmVars
  PROVE  NMInv'
  BY DEF NMInv, NMTypeOK, RepliesInv, PathInv, StateInv, Reply, ReadBack,
         SignalOf, GroupTakenDown, NoMissedState, nmVars, deviceVars

(* The first lease is kept: what the cast goes to does not change.         *)
LEMMA LeaseKept ==
  ASSUME Server, lease # Nobody
  PROVE  lease' = lease
  BY DEF Server, DatagramReceived, OnDiscover, OnForeignRequest, OnRequest

LEMMA DatagramsKeep ==
  ASSUME Inv, ServerStep \/ ClientsStep
  PROVE  Inv'
  <1>1. NMInv' /\ DHCPInv'
    BY NMUnchanged, ServerKeeps, ClientKeeps DEF Inv, ServerStep, ClientsStep
  <1>2. AddressInv'
    BY LeaseKept
    DEF Inv, AddressInv, ServerStep, ClientsStep, ClientStep, Reclaim, Discover,
        OnOffer, Renew, OnAck, OnNak, nmVars, deviceVars, serverVars
  <1> QED
    BY <1>1, <1>2 DEF Inv

LEMMA InvStep ==
  ASSUME Inv, [Next]_vars
  PROVE  Inv'
  <1>1. CASE UNCHANGED vars
    <2>1. NMInv'
      BY <1>1, NMUnchanged DEF vars, Inv
    <2> QED
      BY <1>1, <2>1 DEF vars, Inv, DHCPInv, DHCPTypeOK, LeasesInv, AddressInv,
                        nmVars, deviceVars, dhcpVars, serverVars, clientVars
  <1> QED
    BY <1>1, AddressingKeeps, NMStepKeeps, DatagramsKeep DEF Next, Finished

(* The inductive invariant the theorems below are read off: the activation *)
(* attempts of p2p/nm.py, the leases of p2p/dhcp.py and the addressing they *)
(* serve, together.                                                        *)
THEOREM InvCorrect == Spec => []Inv
  BY InvStart, InvStep, PTL DEF Spec

-----------------------------------------------------------------------------

(* Every variable has its type, and the pool is used up by clients, never  *)
(* by what they repeat: _next_ip of p2p/dhcp.py needs no check as long as  *)
(* there are no more clients than addresses.                               *)
THEOREM TypeCorrect == Spec => []TypeOK
  <1>1. Inv => TypeOK
    BY DEF Inv, NMInv, DHCPInv, AddressInv, TypeOK
  <1> QED
    BY <1>1, InvCorrect, PTL

(* _wait_activated of p2p/nm.py, which subscribes and then reads, waits    *)
(* for no activation that has already ended.                               *)
THEOREM StateNotMissed == Spec => []NoMissedState
  <1>1. Inv => NoMissedState
    BY DEF Inv, NMInv, StateInv
  <1> QED
    BY <1>1, InvCorrect, PTL

(* However many attempts failed or timed out, disconnect takes down the    *)
(* activation the cast ran over, unless its call fails or is broken off.   *)
THEOREM TakenDown == Spec => []GroupTakenDown
  <1>1. Inv => GroupTakenDown
    BY DEF Inv, NMInv, PathInv
  <1> QED
    BY <1>1, InvCorrect, PTL

(* Whatever is lost, repeated or reordered, no two clients hold one        *)
(* address, and each holds the one the server has down for it.             *)
THEOREM Distinct == Spec => []BoundDistinct
  <1>1. Inv => BoundDistinct
    BY InvDistinct DEF Inv
  <1> QED
    BY <1>1, InvCorrect, PTL

(* The cast goes to the group's owner, or to exactly one client.           *)
THEOREM ReachesOne == Spec => []CastReachesOne
  <1>1. Inv => CastReachesOne
    BY DEF Inv, AddressInv, DHCPInv, LeasesInv, CastReachesOne
  <1> QED
    BY <1>1, InvCorrect, PTL
=============================================================================
