------------------------- MODULE P2PDiscovery_proofs -------------------------
(***************************************************************************)
(* Theorems about P2PDiscovery, for every set of peers and however often   *)
(* the daemon's view of the air changes.                                   *)
(***************************************************************************)
EXTENDS P2PDiscovery, TLAPS

-----------------------------------------------------------------------------
(* Types.                                                                  *)

LEMMA ReadType ==
  ASSUME NEW p \in Peers, NEW who \in {"task", "find"}
  PROVE  NewRead(p, who) \in Reads
  BY DEF NewRead, Reads, Seen

LEMMA AskType ==
  ASSUME TypeOK, NEW r \in Reads, NEW step \in {"props", "ies"}, Ask(r, step)
  PROVE  asks' \in Seq(Requests)
  <1>1. [r EXCEPT !.step = step] \in Reads
    BY DEF Reads
  <1>2. [read |-> [r EXCEPT !.step = step], type |-> "read"] \in Requests
    BY <1>1 DEF Requests
  <1> QED
    BY <1>2 DEF TypeOK, Ask

LEMMA ReadyType ==
  ASSUME TypeOK, NEW steps, Runs(steps), Ran
  PROVE  Head(ready) \in Reads /\ ready' \in Seq(Reads)
  BY DEF TypeOK, Runs, Ran

LEMMA ArrivesType ==
  ASSUME TypeOK, NEW type, Arrives(type), Received
  PROVE  /\ Head(bus) \in Signals \cup Answers \cup Listings
         /\ bus' \in Seq(Signals \cup Answers \cup Listings)
  <1>1. bus \in Seq(Signals \cup Answers \cup Listings) /\ bus # <<>>
    BY DEF TypeOK, Arrives
  <1> QED
    BY <1>1 DEF Received

LEMMA MainType ==
  ASSUME TypeOK, Main
  PROVE  TypeOK'
  <1>1. CASE FindSupplicant
    BY <1>1 DEF FindSupplicant, Clear, TypeOK, Seen, fixed, queues
  <1>2. CASE FindNM
    <2>1. [type |-> "peers"] \in Requests
      BY DEF Requests
    <2>2. asks' \in Seq(Requests)
      BY <1>2, <2>1 DEF FindNM, TypeOK
    <2> QED
      BY <1>2, <2>2 DEF FindNM, Clear, TypeOK, Seen, fixed
  <1>3. CASE AddNext
    <2>1. PICK p \in todo : todo' = todo \ {p} /\ Ask(NewRead(p, "find"), "props")
      BY <1>3 DEF AddNext
    <2>2. NewRead(p, "find") \in Reads
      BY <2>1, ReadType DEF TypeOK
    <2>3. asks' \in Seq(Requests)
      BY <2>1, <2>2, AskType
    <2> QED
      BY <1>3, <2>1, <2>3 DEF AddNext, TypeOK, fixed, table
  <1>4. CASE StartsWaiting
    BY <1>4 DEF StartsWaiting, TypeOK, fixed, queues
  <1>5. ASSUME NEW from, NEW to, Goto(from, to),
               to \in {"finding", "calling", "sleeping", "look", "stopping",
                       "done", "timedout"}
        PROVE  TypeOK'
    BY <1>5 DEF Goto, TypeOK, Ended, fixed, table, queues
  <1> QED
    BY <1>1, <1>2, <1>3, <1>4, <1>5
    DEF Main, Prepare, AllAdded, FindStarted, SleepEnds, SeesPeer, GivesUp,
        Woken, WaitTimesOut, Stopped

LEMMA HandlersType ==
  ASSUME TypeOK, Handlers
  PROVE  TypeOK'
  <1>1. CASE OnDeviceFound
    <2>1. Head(bus).path \in Peers
      BY <1>1, ArrivesType DEF OnDeviceFound, Arrives, Signals, Answers, Listings
    <2>2. ready' \in Seq(Reads)
      BY <1>1, <2>1, ReadType DEF OnDeviceFound, TypeOK
    <2> QED
      BY <1>1, <2>2, ArrivesType DEF OnDeviceFound, TypeOK, fixed, main, table
  <1>2. CASE OnDeviceLost
    <2>1. Head(bus).path \in Peers
      BY <1>2, ArrivesType DEF OnDeviceLost, Arrives, Signals, Answers, Listings
    <2>2. peers' \in [Peers -> Seen] /\ overtaken' \subseteq Peers
      BY <1>2, <2>1 DEF OnDeviceLost, TypeOK, Seen
    <2> QED
      BY <1>2, <2>2, ArrivesType DEF OnDeviceLost, TypeOK, fixed, main
  <1>3. CASE OnAnswer
    <2>1. Head(bus).read \in Reads
      BY <1>3, ArrivesType DEF OnAnswer, Arrives, Signals, Answers, Listings
    <2>2. ready' \in Seq(Reads)
      BY <1>3, <2>1 DEF OnAnswer, TypeOK
    <2> QED
      BY <1>3, <2>2, ArrivesType DEF OnAnswer, TypeOK, fixed, main, table
  <1>4. CASE OnListing
    <2>1. Head(bus).paths \subseteq Peers
      BY <1>4, ArrivesType DEF OnListing, Arrives, Signals, Answers, Listings
    <2> QED
      BY <1>4, <2>1, ArrivesType DEF OnListing, TypeOK, fixed, table
  <1> QED
    BY <1>1, <1>2, <1>3, <1>4 DEF Handlers

LEMMA TasksType ==
  ASSUME TypeOK, Tasks
  PROVE  TypeOK'
  <1>1. CASE StartReading
    <2>1. asks' \in Seq(Requests)
      BY <1>1, ReadyType, AskType DEF StartReading
    <2> QED
      BY <1>1, <2>1, ReadyType DEF StartReading, TypeOK, fixed, main, table
  <1>2. CASE ReadIEs
    <2>1. asks' \in Seq(Requests)
      BY <1>2, ReadyType, AskType DEF ReadIEs
    <2> QED
      BY <1>2, <2>1, ReadyType DEF ReadIEs, TypeOK, fixed, main, table
  <1>3. CASE ReadFails
    BY <1>3, ReadyType DEF ReadFails, FindResumes, TypeOK, fixed, table
  <1>4. CASE AddPeer
    <2>1. Head(ready).name \in Seen
      BY <1>4, ReadyType DEF AddPeer, Reads
    <2>2. peers' \in [Peers -> Seen]
      BY <1>4, <2>1 DEF AddPeer, TypeOK
    <2> QED
      BY <1>4, <2>2, ReadyType DEF AddPeer, FindResumes, TypeOK, fixed
  <1> QED
    BY <1>1, <1>2, <1>3, <1>4 DEF Tasks

LEMMA DaemonType ==
  ASSUME TypeOK, Daemon
  PROVE  TypeOK'
  <1>1. ASSUME NEW p \in Peers, NEW name \in Seen, NEW signals \in Seq(Signals),
               Announces(p, name, signals)
        PROVE  TypeOK'
    <2>1. news' \in 0..MaxNews
      BY <1>1, MaxNewsAssumption DEF Announces, TypeOK
    <2>2. signals \in Seq(Signals \cup Answers \cup Listings)
      OBVIOUS
    <2>3. bus' \in Seq(Signals \cup Answers \cup Listings)
      BY <1>1, <2>2 DEF Announces, TypeOK
    <2> QED
      BY <1>1, <2>1, <2>3 DEF Announces, TypeOK, main, table
  <1>2. <<>> \in Seq(Signals)
    OBVIOUS
  <1>3. \A p \in Peers, t \in {"found", "lost"} :
          <<[path |-> p, type |-> t]>> \in Seq(Signals)
    BY DEF Signals
  <1> QED
    BY <1>1, <1>2, <1>3 DEF Daemon, Found, Renamed, Lost, Names, Seen

LEMMA ServeType ==
  ASSUME TypeOK, Serve
  PROVE  TypeOK'
  <1>1. Head(asks) \in Requests /\ asks' \in Seq(Requests)
    BY DEF Serve, TypeOK
  <1> DEFINE r == Head(asks)
             listing == [paths |-> {p \in Peers : air[p] # "absent"}, type |-> "listing"]
             read == IF r.read.step = "props"
                     THEN [r.read EXCEPT !.name = air[r.read.path]] ELSE r.read
  <1>2. CASE r.type = "peers"
    <2>1. listing \in Listings
      BY DEF Listings
    <2>2. bus' = Append(bus, listing)
      BY <1>2 DEF Serve
    <2>3. bus' \in Seq(Signals \cup Answers \cup Listings)
      BY <2>1, <2>2 DEF TypeOK
    <2> QED
      BY <1>1, <2>3 DEF Serve, TypeOK, fixed, main, table
  <1>3. CASE r.type # "peers"
    <2>1. r.read \in Reads
      BY <1>1, <1>3 DEF Requests
    <2>2. read \in Reads
      BY <2>1 DEF Reads, TypeOK
    <2>3. [read |-> read, type |-> "answer"] \in Answers
      BY <2>2 DEF Answers
    <2>4. bus' = Append(bus, [read |-> read, type |-> "answer"])
      BY <1>3 DEF Serve
    <2>5. bus' \in Seq(Signals \cup Answers \cup Listings)
      BY <2>3, <2>4 DEF TypeOK
    <2> QED
      BY <1>1, <2>5 DEF Serve, TypeOK, fixed, main, table
  <1> QED
    BY <1>2, <1>3

LEMMA TypeStep ==
  ASSUME TypeOK, [Next]_vars
  PROVE  TypeOK'
  <1>1. CASE UNCHANGED vars
    BY <1>1 DEF TypeOK, vars, fixed, main, table, queues
  <1>2. CASE Leave
    BY <1>2 DEF Leave, Goto, TypeOK, Ended, fixed, table, queues
  <1>3. CASE Expire
    BY <1>3 DEF Expire, TypeOK, fixed, table, queues
  <1> QED
    BY <1>1, <1>2, <1>3, MainType, HandlersType, TasksType, DaemonType, ServeType
    DEF Next, Finished

(* Every variable keeps its type. *)
THEOREM TypeCorrect == Spec => []TypeOK
  <1>1. ASSUME Init PROVE TypeOK
    <2>1. peers \in [Peers -> Seen] /\ news \in 0..MaxNews
      BY <1>1, MaxNewsAssumption DEF Init, Seen
    <2>2. \A S : <<>> \in Seq(S)
      OBVIOUS
    <2> QED
      BY <1>1, <2>1, <2>2 DEF Init, TypeOK
  <1> QED
    BY <1>1, TypeStep, PTL DEF Spec

-----------------------------------------------------------------------------
(* The wait.                                                               *)

(* What NoLostWakeup rests on: nothing but the table having a place for    *)
(* every peer, since listing a peer and setting the event are one step.    *)
WakeupInv == DOMAIN peers = Peers /\ NoLostWakeup

LEMMA MainWakes ==
  ASSUME WakeupInv, Main
  PROVE  WakeupInv'
  <1>1. CASE FindSupplicant \/ FindNM
    BY <1>1 DEF FindSupplicant, FindNM, Clear, WakeupInv, NoLostWakeup
  <1>2. CASE StartsWaiting
    BY <1>2 DEF StartsWaiting, WakeupInv, NoLostWakeup, Matching
  <1>3. CASE UNCHANGED table /\ pc' # "waiting"
    BY <1>3 DEF WakeupInv, NoLostWakeup, table
  <1> QED
    BY <1>1, <1>2, <1>3
    DEF Main, Prepare, AddNext, AllAdded, FindStarted, SleepEnds, SeesPeer,
        GivesUp, Woken, WaitTimesOut, Stopped, Goto

LEMMA HandlersWake ==
  ASSUME WakeupInv, Handlers
  PROVE  WakeupInv'
  <1>1. CASE OnDeviceLost
    <2>1. DOMAIN peers' = Peers /\ Matching' \subseteq Matching
      BY <1>1 DEF OnDeviceLost, WakeupInv, Matching
    <2> QED
      BY <1>1, <2>1 DEF OnDeviceLost, WakeupInv, NoLostWakeup, main
  <1>2. CASE OnDeviceFound \/ OnAnswer
    BY <1>2 DEF OnDeviceFound, OnAnswer, WakeupInv, NoLostWakeup, Matching,
                main, table
  <1>3. CASE OnListing
    BY <1>3 DEF OnListing, WakeupInv, NoLostWakeup, table
  <1> QED
    BY <1>1, <1>2, <1>3 DEF Handlers

LEMMA TasksWake ==
  ASSUME WakeupInv, Tasks
  PROVE  WakeupInv'
  <1>1. CASE AddPeer
    BY <1>1 DEF AddPeer, WakeupInv, NoLostWakeup
  <1>2. CASE StartReading \/ ReadIEs
    BY <1>2 DEF StartReading, ReadIEs, WakeupInv, NoLostWakeup, Matching,
                main, table
  <1>3. CASE ReadFails
    BY <1>3 DEF ReadFails, FindResumes, WakeupInv, NoLostWakeup, Matching, table
  <1> QED
    BY <1>1, <1>2, <1>3 DEF Tasks

LEMMA WakeupStep ==
  ASSUME WakeupInv, [Next]_vars
  PROVE  WakeupInv'
  <1>1. CASE UNCHANGED <<main, table>>
    BY <1>1 DEF WakeupInv, NoLostWakeup, Matching, main, table
  <1>2. CASE Leave
    BY <1>2 DEF Leave, Goto, Ended, WakeupInv, NoLostWakeup, table
  <1>3. CASE Expire
    BY <1>3 DEF Expire, WakeupInv, NoLostWakeup, Matching, table
  <1>4. CASE Daemon \/ Serve \/ Finished \/ UNCHANGED vars
    BY <1>1, <1>4 DEF Daemon, Found, Renamed, Lost, Announces, Serve, Finished, vars
  <1> QED
    BY <1>2, <1>3, <1>4, MainWakes, HandlersWake, TasksWake DEF Next

(* However signals, answers, timeouts and the look at the table fall       *)
(* together, wait_for_peer never sleeps beside a peer it is looking for:   *)
(* the event of p2p/supplicant.py and p2p/nm.py is set.                    *)
THEOREM WakeupNotLost == Spec => []NoLostWakeup
  <1>1. Init => WakeupInv
    BY DEF Init, WakeupInv, NoLostWakeup
  <1>2. WakeupInv => NoLostWakeup
    BY DEF WakeupInv
  <1> QED
    BY <1>1, <1>2, WakeupStep, PTL DEF Spec

-----------------------------------------------------------------------------
(* The table.                                                              *)

Of(q) == {q[i] : i \in DOMAIN q}
Messages == Signals \cup Answers \cup Listings

(* The reads under way: asked for, answered, or ready to go on.            *)
Asked == {r \in Reads : [read |-> r, type |-> "read"] \in Of(asks)}
Answered == {r \in Reads : [read |-> r, type |-> "answer"] \in Of(bus)}
InFlight == Asked \cup Answered \cup Of(ready)

FoundSignal(p) == [path |-> p, type |-> "found"]
LostSignal(p) == [path |-> p, type |-> "lost"]

(* Over wpa_supplicant: once the signal of a peer's loss has been handled, *)
(* and overtook nothing, nothing that is read lists the peer again.        *)
Forgotten(p) ==
    air[p] = "absent" /\ p \notin overtaken /\ LostSignal(p) \notin Of(bus)
GhostInv ==
    backend = "supplicant" =>
        \A p \in Peers : Forgotten(p) =>
            /\ peers[p] = "absent"
            /\ \A r \in InFlight : r.path = p => r.name = "absent"

(* Over NetworkManager: a peer is listed, or there is a signal or a read   *)
(* that will list it; but for the ones that find has yet to add, from the  *)
(* listing on that it adds them from.                                      *)
Coming(p) ==
    \/ peers[p] # "absent"
    \/ FoundSignal(p) \in Of(bus)
    \/ \E r \in Asked : r.path = p
    \/ \E r \in Answered : r.path = p /\ r.name # "absent"
    \/ \E r \in Of(ready) : r.path = p /\ (r.step = "new" \/ r.name # "absent")
Covered(S) == \A p \in Peers : air[p] # "absent" => p \in S \/ Coming(p)

Adding == {"adding", "reading"} \cup Listed
Before == {"open", "finding"}

ListedInv ==
    backend = "nm" =>
        /\ \A m \in Of(bus) : m.type # "lost"
        /\ \A r \in Asked : r.step = "props"
        /\ \A r \in InFlight : r.by = "find" => pc \in Adding \cup Ended
        /\ pc \in Before =>
              /\ \A m \in Of(asks) : m.type # "peers"
              /\ \A m \in Of(bus) : m.type # "listing"
        /\ \A m \in Of(bus) : m.type = "listing" => Covered(m.paths)
        /\ pc \in Adding => Covered(todo)
        /\ pc \in Listed => todo = {}

TableInv == TypeOK /\ GhostInv /\ ListedInv

-----------------------------------------------------------------------------
(* What the queues hold.                                                   *)

LEMMA OfTail ==
  ASSUME NEW S, NEW q \in Seq(S), q # <<>>
  PROVE  /\ Head(q) \in S /\ Head(q) \in Of(q)
         /\ Of(q) = Of(Tail(q)) \cup {Head(q)}
  <1>1. /\ Head(q) = q[1] /\ 1 \in DOMAIN q /\ Head(q) \in S
        /\ \A i \in DOMAIN Tail(q) : i + 1 \in DOMAIN q /\ Tail(q)[i] = q[i + 1]
        /\ \A i \in DOMAIN q : i # 1 =>
              i - 1 \in DOMAIN Tail(q) /\ Tail(q)[i - 1] = q[i]
    OBVIOUS
  <1>2. \A i \in DOMAIN q : q[i] = Head(q) \/ q[i] \in Of(Tail(q))
    BY <1>1 DEF Of
  <1>3. \A i \in DOMAIN Tail(q) : Tail(q)[i] \in Of(q)
    BY <1>1 DEF Of
  <1> QED
    BY <1>1, <1>2, <1>3 DEF Of

LEMMA OfAppend ==
  ASSUME NEW S, NEW q \in Seq(S), NEW e \in S
  PROVE  /\ Of(Append(q, e)) = Of(q) \cup {e}
         /\ q \o <<e>> = Append(q, e) /\ q \o <<>> = q
  <1>1. /\ q \o <<e>> = Append(q, e) /\ q \o <<>> = q
        /\ DOMAIN Append(q, e) = DOMAIN q \cup {Len(q) + 1}
        /\ \A i \in DOMAIN q : Append(q, e)[i] = q[i]
        /\ Append(q, e)[Len(q) + 1] = e
    OBVIOUS
  <1> QED
    BY <1>1 DEF Of

LEMMA Kinds ==
  ASSUME TypeOK
  PROVE  /\ Of(asks) \subseteq Requests /\ asks \in Seq(Requests)
         /\ Of(bus) \subseteq Messages /\ bus \in Seq(Messages)
         /\ Of(ready) \subseteq Reads /\ ready \in Seq(Reads)
         /\ InFlight \subseteq Reads
  <1>1. asks \in Seq(Requests) /\ bus \in Seq(Messages) /\ ready \in Seq(Reads)
    BY DEF TypeOK, Messages
  <1>2. \A S : \A q \in Seq(S) : Of(q) \subseteq S
    BY DEF Of
  <1> QED
    BY <1>1, <1>2 DEF InFlight, Asked, Answered

LEMMA IsBeingRead ==
  ASSUME NEW r \in InFlight
  PROVE  BeingRead(r.path)
  <1>1. CASE r \in Asked
    <2>1. PICK i \in DOMAIN asks : asks[i] = [read |-> r, type |-> "read"]
      BY <1>1 DEF Asked, Of
    <2> QED
      BY <2>1 DEF BeingRead
  <1>2. CASE r \in Answered
    <2>1. PICK i \in DOMAIN bus : bus[i] = [read |-> r, type |-> "answer"]
      BY <1>2 DEF Answered, Of
    <2> QED
      BY <2>1 DEF BeingRead
  <1>3. CASE r \in Of(ready)
    BY <1>3 DEF BeingRead, Of
  <1> QED
    BY <1>1, <1>2, <1>3 DEF InFlight

LEMMA AskAdds ==
  ASSUME TypeOK, NEW r \in Reads, NEW step \in {"props", "ies"}, Ask(r, step)
  PROVE  /\ [r EXCEPT !.step = step] \in Reads
         /\ Of(asks') = Of(asks) \cup
              {[read |-> [r EXCEPT !.step = step], type |-> "read"]}
         /\ Asked' = Asked \cup {[r EXCEPT !.step = step]}
  <1> DEFINE s == [r EXCEPT !.step = step]
  <1>1. s \in Reads /\ [read |-> s, type |-> "read"] \in Requests
    BY DEF Reads, Requests
  <1> HIDE DEF s
  <1>2. asks' = Append(asks, [read |-> s, type |-> "read"])
    BY DEF Ask, s
  <1>3. Of(asks') = Of(asks) \cup {[read |-> s, type |-> "read"]}
    BY <1>1, <1>2, Kinds, OfAppend
  <1>4. \A t \in Reads : [read |-> t, type |-> "read"] = [read |-> s, type |-> "read"]
                         <=> t = s
    OBVIOUS
  <1>5. Asked' = Asked \cup {s}
    BY <1>1, <1>3, <1>4 DEF Asked
  <1> QED
    BY <1>1, <1>3, <1>5 DEF s

LEMMA BusPopped ==
  ASSUME TypeOK, NEW type, Arrives(type), Received
  PROVE  /\ Head(bus) \in Messages /\ Head(bus) \in Of(bus) /\ Head(bus).type = type
         /\ Of(bus) = Of(bus') \cup {Head(bus)}
         /\ Answered' \subseteq Answered
         /\ type # "answer" => Answered' = Answered
         /\ type = "answer" =>
               /\ Head(bus).read \in Answered
               /\ Answered \subseteq Answered' \cup {Head(bus).read}
  <1>1. bus \in Seq(Messages) /\ bus # <<>> /\ bus' = Tail(bus) /\ Head(bus).type = type
    BY Kinds DEF Arrives, Received
  <1>2. /\ Head(bus) \in Messages /\ Head(bus) \in Of(bus)
        /\ Of(bus) = Of(bus') \cup {Head(bus)}
    BY <1>1, OfTail
  <1>3. Answered' \subseteq Answered
    BY <1>2 DEF Answered
  <1>4. ASSUME type # "answer" PROVE Answered' = Answered
    <2>1. \A r \in Reads : [read |-> r, type |-> "answer"] # Head(bus)
      BY <1>1, <1>4
    <2> QED
      BY <1>2, <2>1 DEF Answered
  <1>5. ASSUME type = "answer"
        PROVE  /\ Head(bus).read \in Answered
               /\ Answered \subseteq Answered' \cup {Head(bus).read}
    <2>1. /\ Head(bus).read \in Reads
          /\ Head(bus) = [read |-> Head(bus).read, type |-> "answer"]
      BY <1>1, <1>2, <1>5 DEF Messages, Signals, Answers, Listings
    <2>2. \A r \in Reads : [read |-> r, type |-> "answer"] = Head(bus) =>
                              r = Head(bus).read
      BY <2>1
    <2> QED
      BY <1>2, <2>1, <2>2 DEF Answered
  <1> QED
    BY <1>1, <1>2, <1>3, <1>4, <1>5

LEMMA ReadyPopped ==
  ASSUME TypeOK, NEW steps, Runs(steps), Ran
  PROVE  /\ Head(ready) \in Reads /\ Head(ready) \in Of(ready)
         /\ Of(ready) = Of(ready') \cup {Head(ready)}
         /\ pc \notin Ended /\ Head(ready).step \in steps
  BY Kinds, OfTail DEF Runs, Ran

LEMMA ReadyPushed ==
  ASSUME TypeOK, NEW r \in Reads, ready' = Append(ready, r)
  PROVE  Of(ready') = Of(ready) \cup {r}
  BY Kinds, OfAppend

LEMMA BusPushed ==
  ASSUME TypeOK, NEW m \in Messages, bus' = Append(bus, m) \/ bus' = bus \o <<m>>
  PROVE  /\ Of(bus') = Of(bus) \cup {m}
         /\ m.type # "answer" => Answered' = Answered
         /\ m.type = "answer" => m.read \in Reads /\ Answered' = Answered \cup {m.read}
  <1>1. Of(bus') = Of(bus) \cup {m}
    BY Kinds, OfAppend
  <1>2. ASSUME m.type # "answer" PROVE Answered' = Answered
    <2>1. \A r \in Reads : [read |-> r, type |-> "answer"] # m
      BY <1>2
    <2> QED
      BY <1>1, <2>1 DEF Answered
  <1>3. ASSUME m.type = "answer"
        PROVE  m.read \in Reads /\ Answered' = Answered \cup {m.read}
    <2>1. m.read \in Reads /\ m = [read |-> m.read, type |-> "answer"]
      BY <1>3 DEF Messages, Signals, Answers, Listings
    <2>2. \A r \in Reads : [read |-> r, type |-> "answer"] = m <=> r = m.read
      BY <2>1
    <2> QED
      BY <1>1, <2>1, <2>2 DEF Answered
  <1> QED
    BY <1>1, <1>2, <1>3

(* A request is served: a read is answered with what is in the air, or the *)
(* peers are listed.                                                       *)
LEMMA Served ==
  ASSUME TypeOK, Serve
  PROVE  \/ \E r \in Asked, s \in Reads :
               /\ s = IF r.step = "props" THEN [r EXCEPT !.name = air[r.path]] ELSE r
               /\ Asked \subseteq Asked' \cup {r} /\ Asked' \subseteq Asked
               /\ Of(asks') \subseteq Of(asks)
               /\ Answered' = Answered \cup {s}
               /\ Of(bus') = Of(bus) \cup {[read |-> s, type |-> "answer"]}
         \/ /\ Asked' = Asked /\ Of(asks') \subseteq Of(asks)
            /\ Answered' = Answered
            /\ \E m \in Of(asks) : m.type = "peers"
            /\ \E m \in Messages :
                  /\ m = [paths |-> {p \in Peers : air[p] # "absent"},
                          type |-> "listing"]
                  /\ Of(bus') = Of(bus) \cup {m}
  <1> DEFINE a == Head(asks)
  <1>1. /\ a \in Requests /\ a \in Of(asks) /\ Of(asks) = Of(asks') \cup {a}
    BY Kinds, OfTail DEF Serve
  <1>2. CASE a.type = "peers"
    <2> DEFINE m == [paths |-> {p \in Peers : air[p] # "absent"}, type |-> "listing"]
    <2>1. m \in Messages /\ m.type = "listing"
      BY DEF Messages, Listings
    <2>2. bus' = Append(bus, m)
      BY <1>2 DEF Serve
    <2> HIDE DEF m
    <2>3. Of(bus') = Of(bus) \cup {m} /\ Answered' = Answered
      BY <2>1, <2>2, BusPushed
    <2>4. Asked' = Asked
      <3>1. \A r \in Reads : [read |-> r, type |-> "read"] # a
        BY <1>2
      <3> QED
        BY <1>1, <3>1 DEF Asked
    <2> QED
      BY <1>1, <1>2, <2>1, <2>3, <2>4 DEF m
  <1>3. CASE a.type # "peers"
    <2>1. a.read \in Reads /\ a = [read |-> a.read, type |-> "read"]
      BY <1>1, <1>3 DEF Requests
    <2> DEFINE r == a.read
               s == IF r.step = "props" THEN [r EXCEPT !.name = air[r.path]] ELSE r
               m == [read |-> s, type |-> "answer"]
    <2>2. s \in Reads
      BY <2>1 DEF Reads, TypeOK
    <2>3. bus' = Append(bus, m)
      BY <1>3 DEF Serve
    <2>4. r \in Asked /\ Asked \subseteq Asked' \cup {r} /\ Asked' \subseteq Asked
      <3>1. \A t \in Reads : [read |-> t, type |-> "read"] = a => t = r
        BY <2>1
      <3> QED
        BY <1>1, <2>1, <3>1 DEF Asked
    <2> HIDE DEF s
    <2>5. m \in Messages /\ m.type = "answer" /\ m.read = s
      BY <2>2 DEF Messages, Answers
    <2>6. Of(bus') = Of(bus) \cup {m} /\ Answered' = Answered \cup {s}
      BY <2>3, <2>5, BusPushed
    <2> QED
      BY <1>1, <2>2, <2>4, <2>6 DEF s
  <1> QED
    BY <1>2, <1>3

-----------------------------------------------------------------------------
(* Over wpa_supplicant: no ghost but one that was overtaken.               *)

LEMMA GhostKept ==
  ASSUME GhostInv, UNCHANGED backend,
         \A p \in Peers : Forgotten(p)' => Forgotten(p),
         \A p \in Peers : peers'[p] # "absent" =>
            \/ peers[p] # "absent"
            \/ \E s \in InFlight : s.path = p /\ s.name # "absent",
         \A r \in InFlight' : r.name # "absent" =>
            \/ \E s \in InFlight : s.path = r.path /\ s.name # "absent"
            \/ air'[r.path] = r.name
  PROVE  GhostInv'
  <1> SUFFICES ASSUME backend = "supplicant", NEW p \in Peers, Forgotten(p)'
               PROVE  /\ peers'[p] = "absent"
                      /\ \A r \in InFlight' : r.path = p => r.name = "absent"
    BY DEF GhostInv
  <1>1. /\ peers[p] = "absent"
        /\ \A r \in InFlight : r.path = p => r.name = "absent"
    BY DEF GhostInv
  <1>2. air'[p] = "absent"
    BY DEF Forgotten
  <1> QED
    BY <1>1, <1>2

LEMMA MainGhost ==
  ASSUME TypeOK, GhostInv, Main \/ Leave \/ Expire
  PROVE  GhostInv'
  <1>1. /\ UNCHANGED <<backend, air, overtaken, bus, ready>>
        /\ \A p \in Peers : peers'[p] # "absent" => peers[p] # "absent"
    BY DEF Main, Prepare, FindSupplicant, FindNM, AddNext, AllAdded, FindStarted,
           SleepEnds, SeesPeer, GivesUp, StartsWaiting, Woken, WaitTimesOut, Stopped,
           Leave, Expire, Goto, Clear, fixed, table, queues
  <1>2. \A r \in Asked' : r \in Asked \/ r.name = "absent"
    <2>1. CASE FindNM
      <3>1. [type |-> "peers"] \in Requests
        BY DEF Requests
      <3>2. asks' = Append(asks, [type |-> "peers"])
        BY <2>1 DEF FindNM
      <3>3. Of(asks') = Of(asks) \cup {[type |-> "peers"]}
        BY <3>1, <3>2, Kinds, OfAppend
      <3>4. \A r \in Reads : [read |-> r, type |-> "read"] # [type |-> "peers"]
        <4>1. [type |-> "peers"].type = "peers"
          OBVIOUS
        <4> QED
          BY <4>1
      <3> QED
        BY <3>3, <3>4 DEF Asked
    <2>2. CASE AddNext
      <3>1. PICK p \in Peers : Ask(NewRead(p, "find"), "props")
        BY <2>2 DEF AddNext, TypeOK
      <3>2. NewRead(p, "find") \in Reads
        BY ReadType
      <3>3. Asked' = Asked \cup {[NewRead(p, "find") EXCEPT !.step = "props"]}
        BY <3>1, <3>2, AskAdds
      <3> QED
        BY <3>3 DEF NewRead
    <2>3. CASE UNCHANGED asks
      BY <2>3 DEF Asked
    <2> QED
      BY <2>1, <2>2, <2>3
      DEF Main, Prepare, FindSupplicant, AllAdded, FindStarted, SleepEnds, SeesPeer,
          GivesUp, StartsWaiting, Woken, WaitTimesOut, Stopped, Leave, Expire, Goto,
          queues
  <1>3. \A r \in InFlight' : r \in InFlight \/ r.name = "absent"
    BY <1>1, <1>2 DEF InFlight, Answered
  <1>4. \A p \in Peers : Forgotten(p)' => Forgotten(p)
    BY <1>1 DEF Forgotten
  <1> QED
    BY <1>1, <1>3, <1>4, GhostKept

LEMMA LostGhost ==
  ASSUME TypeOK, GhostInv, OnDeviceLost
  PROVE  GhostInv'
  <1> DEFINE q == Head(bus).path
  <1>1. /\ Arrives("lost") /\ Received
        /\ peers' = [peers EXCEPT ![q] = "absent"]
        /\ overtaken' = IF BeingRead(q) THEN overtaken \cup {q} ELSE overtaken \ {q}
        /\ UNCHANGED <<backend, air, asks, ready>>
    BY DEF OnDeviceLost, fixed
  <1>2. /\ Head(bus) \in Messages /\ Head(bus).type = "lost"
        /\ Of(bus) = Of(bus') \cup {Head(bus)} /\ Answered' = Answered
    BY <1>1, BusPopped
  <1>3. q \in Peers /\ Head(bus) = LostSignal(q)
    BY <1>2 DEF Messages, Signals, Answers, Listings, LostSignal
  <1>4. InFlight' = InFlight
    BY <1>1, <1>2 DEF InFlight, Asked
  <1> HIDE DEF q
  <1> SUFFICES ASSUME backend = "supplicant", NEW p \in Peers, Forgotten(p)'
               PROVE  /\ peers'[p] = "absent"
                      /\ \A r \in InFlight : r.path = p => r.name = "absent"
    BY <1>1, <1>4 DEF GhostInv
  <1>5. CASE p = q
    <2>1. ~BeingRead(q)
      BY <1>1, <1>5 DEF Forgotten
    <2>2. peers'[p] = "absent"
      BY <1>1, <1>3, <1>5 DEF TypeOK
    <2> QED
      BY <1>5, <2>1, <2>2, IsBeingRead
  <1>6. CASE p # q
    <2>1. LostSignal(p) # LostSignal(q)
      BY <1>6 DEF LostSignal
    <2>2. Forgotten(p)
      BY <1>1, <1>2, <1>3, <1>6, <2>1 DEF Forgotten
    <2> QED
      BY <1>1, <1>6, <2>2 DEF GhostInv, TypeOK
  <1> QED
    BY <1>5, <1>6

LEMMA HandlersGhost ==
  ASSUME TypeOK, GhostInv, OnDeviceFound \/ OnAnswer \/ OnListing
  PROVE  GhostInv'
  <1>1. PICK type \in {"found", "answer", "listing"} : Arrives(type) /\ Received
    BY DEF OnDeviceFound, OnAnswer, OnListing
  <1>2. /\ Head(bus) \in Messages /\ Head(bus).type = type
        /\ Of(bus) = Of(bus') \cup {Head(bus)} /\ Answered' \subseteq Answered
        /\ type = "answer" => Head(bus).read \in Answered
    BY <1>1, BusPopped
  <1>3. UNCHANGED <<backend, air, overtaken, peers, asks>>
    BY DEF OnDeviceFound, OnAnswer, OnListing, fixed, table
  <1>4. \A p \in Peers : LostSignal(p) \in Of(bus) => LostSignal(p) \in Of(bus')
    <2>1. \A p \in Peers : LostSignal(p).type = "lost"
      BY DEF LostSignal
    <2> QED
      BY <1>2, <2>1
  <1>5. \A p \in Peers : Forgotten(p)' => Forgotten(p)
    BY <1>3, <1>4 DEF Forgotten
  <1>6. \A r \in Of(ready)' : r \in InFlight \/ r.name = "absent"
    <2>1. CASE OnDeviceFound
      <3>1. Head(bus).path \in Peers
        BY <2>1, BusPopped DEF OnDeviceFound, Messages, Signals, Answers, Listings
      <3>2. Of(ready') = Of(ready) \cup {NewRead(Head(bus).path, "task")}
        BY <2>1, <3>1, ReadType, ReadyPushed DEF OnDeviceFound
      <3> QED
        BY <3>2 DEF InFlight, NewRead
    <2>2. CASE OnAnswer
      <3>1. Head(bus).read \in Answered
        BY <2>2, BusPopped DEF OnAnswer
      <3>2. Of(ready') = Of(ready) \cup {Head(bus).read}
        BY <2>2, <3>1, ReadyPushed DEF OnAnswer, Answered
      <3> QED
        BY <3>1, <3>2 DEF InFlight
    <2>3. CASE OnListing
      BY <2>3 DEF OnListing, InFlight
    <2> QED
      BY <2>1, <2>2, <2>3
  <1>7. \A r \in InFlight' : r \in InFlight \/ r.name = "absent"
    BY <1>2, <1>3, <1>6 DEF InFlight, Asked
  <1> QED
    BY <1>3, <1>5, <1>7, GhostKept

LEMMA TasksGhost ==
  ASSUME TypeOK, GhostInv, Tasks
  PROVE  GhostInv'
  <1> DEFINE h == Head(ready)
  <1>1. PICK steps \in {{"new"}, {"props"}, {"props", "ies"}} : Runs(steps) /\ Ran
    BY DEF Tasks, StartReading, ReadIEs, ReadFails, AddPeer
  <1>2. h \in Reads /\ h \in Of(ready) /\ Of(ready') \subseteq Of(ready)
    BY <1>1, ReadyPopped
  <1>3. UNCHANGED <<backend, air, overtaken, bus>>
    BY DEF Tasks, StartReading, ReadIEs, ReadFails, AddPeer, fixed, table
  <1>4. \A p \in Peers : peers'[p] # "absent" =>
          peers[p] # "absent" \/ (h.path = p /\ h.name # "absent")
    BY <1>2 DEF Tasks, StartReading, ReadIEs, ReadFails, AddPeer, table, TypeOK
  <1>5. \A r \in Asked' : r \in Asked \/ (r.path = h.path /\ r.name = h.name)
    <2>1. CASE \E step \in {"props", "ies"} : Ask(h, step)
      <3>1. PICK step \in {"props", "ies"} : Ask(h, step)
        BY <2>1
      <3>2. Asked' = Asked \cup {[h EXCEPT !.step = step]}
        BY <1>2, <3>1, AskAdds
      <3>3. [h EXCEPT !.step = step].path = h.path /\ [h EXCEPT !.step = step].name = h.name
        BY <1>2 DEF Reads
      <3> QED
        BY <3>2, <3>3
    <2>2. CASE UNCHANGED asks
      BY <2>2 DEF Asked
    <2> QED
      BY <2>1, <2>2 DEF Tasks, StartReading, ReadIEs, ReadFails, AddPeer
  <1> HIDE DEF h
  <1>6. \A r \in InFlight' : r \in InFlight \/ (r.path = h.path /\ r.name = h.name)
    BY <1>2, <1>3, <1>5 DEF InFlight, Answered
  <1>7. \A p \in Peers : Forgotten(p)' => Forgotten(p)
    BY <1>3 DEF Forgotten
  <1>8. h \in InFlight
    BY <1>2 DEF InFlight
  <1>9. \A p \in Peers : peers'[p] # "absent" =>
          peers[p] # "absent" \/ \E s \in InFlight : s.path = p /\ s.name # "absent"
    BY <1>4, <1>8
  <1>10. \A r \in InFlight' : r.name # "absent" =>
            \E s \in InFlight : s.path = r.path /\ s.name # "absent"
    BY <1>6, <1>8
  <1> QED
    BY <1>3, <1>7, <1>9, <1>10, GhostKept

LEMMA DaemonGhost ==
  ASSUME TypeOK, GhostInv, Daemon \/ Serve
  PROVE  GhostInv'
  <1>1. CASE Serve
    <2>1. UNCHANGED <<backend, air, overtaken, peers, ready>>
      BY <1>1 DEF Serve, fixed, table
    <2>2. /\ Of(bus) \subseteq Of(bus')
          /\ Asked' \subseteq Asked
          /\ \A s \in Answered' :
                \/ s \in Answered
                \/ \E r \in Asked : /\ s = [r EXCEPT !.name = air[r.path]] \/ s = r
                                    /\ r \in Reads
      BY <1>1, Served DEF Asked
    <2>3. \A r \in Reads : \A name : [r EXCEPT !.name = name].path = r.path
                                 /\ [r EXCEPT !.name = name].name = name
      BY DEF Reads
    <2>4. \A s \in Answered' : s.name # "absent" =>
            \/ \E r \in InFlight : r.path = s.path /\ r.name # "absent"
            \/ air'[s.path] = s.name
      <3> SUFFICES ASSUME NEW s \in Answered', s.name # "absent"
                   PROVE  \/ \E r \in InFlight : r.path = s.path /\ r.name # "absent"
                          \/ air'[s.path] = s.name
        OBVIOUS
      <3>1. CASE s \in InFlight
        BY <3>1
      <3>2. CASE s \notin InFlight
        <4>1. PICK r \in Reads : s = [r EXCEPT !.name = air[r.path]]
          BY <2>2, <3>2 DEF InFlight
        <4>2. s.path = r.path /\ s.name = air[r.path]
          BY <2>3, <4>1
        <4> QED
          BY <2>1, <4>2
      <3> QED
        BY <3>1, <3>2
    <2>5. \A r \in InFlight' : r \in Answered' \/ r \in InFlight
      BY <2>1, <2>2 DEF InFlight
    <2>6. \A p \in Peers : Forgotten(p)' => Forgotten(p)
      BY <2>1, <2>2 DEF Forgotten
    <2> QED
      BY <2>1, <2>4, <2>5, <2>6, GhostKept
  <1>2. ASSUME NEW p \in Peers, NEW name \in Seen, NEW m \in Signals,
               backend = "supplicant",
               Announces(p, name, <<m>>), name = "absent" => m = LostSignal(p)
        PROVE  GhostInv'
    <2>1. /\ UNCHANGED <<backend, peers, overtaken, asks, ready>>
          /\ air' = [air EXCEPT ![p] = name] /\ bus' = bus \o <<m>>
      BY <1>2 DEF Announces, table
    <2>2. m \in Messages /\ m.type # "answer"
      BY <1>2 DEF Messages, Signals
    <2>3. Of(bus') = Of(bus) \cup {m} /\ Answered' = Answered
      BY <2>1, <2>2, BusPushed
    <2>4. \A k \in Peers : Forgotten(k)' => Forgotten(k)
      <3>1. ~Forgotten(p)'
        BY <1>2, <2>1, <2>3 DEF Forgotten, TypeOK
      <3>2. \A k \in Peers : k # p => air'[k] = air[k]
        BY <2>1 DEF TypeOK
      <3> QED
        BY <2>1, <2>3, <3>1, <3>2 DEF Forgotten
    <2>5. InFlight' = InFlight
      BY <2>1, <2>3 DEF InFlight, Asked
    <2> QED
      BY <2>1, <2>4, <2>5, GhostKept
  <1>3. CASE Daemon /\ backend = "supplicant"
    <2>1. \A p \in Peers, t \in {"found", "lost"} : [path |-> p, type |-> t] \in Signals
      BY DEF Signals
    <2>2. "absent" \notin Names /\ Names \subseteq Seen /\ "absent" \in Seen
      BY DEF Names, Seen
    <2> QED
      BY <1>2, <1>3, <2>1, <2>2 DEF Daemon, Found, Renamed, Lost, LostSignal
  <1>4. CASE Daemon /\ backend # "supplicant"
    BY <1>4 DEF Daemon, Found, Renamed, Lost, Announces, GhostInv
  <1> QED
    BY <1>1, <1>3, <1>4

LEMMA GhostStep ==
  ASSUME TypeOK, GhostInv, [Next]_vars
  PROVE  GhostInv'
  <1>1. CASE UNCHANGED vars
    BY <1>1 DEF vars, fixed, table, queues, GhostInv, Forgotten, InFlight, Asked, Answered
  <1> QED
    BY <1>1, MainGhost, LostGhost, HandlersGhost, TasksGhost, DaemonGhost
    DEF Next, Handlers, Finished

-----------------------------------------------------------------------------
(* Over NetworkManager: every peer is listed, or will be.                  *)

LEMMA ListedKept ==
  ASSUME ListedInv, backend = "nm", UNCHANGED <<backend, todo>>,
         \A m \in Of(bus)' : m \in Of(bus) \/ m.type \notin {"lost", "listing"},
         \A m \in Of(asks)' : m \in Of(asks) \/ m.type # "peers",
         \A r \in Asked' : r \in Asked \/ r.step = "props",
         \A r \in InFlight' : r.by = "find" => \E s \in InFlight : s.by = "find",
         \A p \in Peers : air'[p] # "absent" =>
            Coming(p)' \/ (air[p] # "absent" /\ ~Coming(p)),
         pc \in Adding \cup Ended => pc' \in Adding \cup Ended,
         pc' \in Before => pc \in Before, pc' \in Adding => pc \in Adding,
         pc' \in Listed => pc \in Listed \/ todo = {}
  PROVE  ListedInv'
  <1>1. ASSUME NEW m \in Of(bus)', m.type = "listing" PROVE Covered(m.paths)'
    <2>1. m \in Of(bus)
      BY <1>1
    <2>2. Covered(m.paths)
      BY <1>1, <2>1 DEF ListedInv
    <2> QED
      BY <2>2 DEF Covered
  <1>2. ASSUME pc' \in Adding PROVE Covered(todo)'
    <2>1. Covered(todo)
      BY <1>2 DEF ListedInv
    <2> QED
      BY <2>1 DEF Covered
  <1>3. \A r \in InFlight' : r.by = "find" => pc' \in Adding \cup Ended
    BY DEF ListedInv
  <1>4. /\ \A m \in Of(bus)' : m.type # "lost"
        /\ \A r \in Asked' : r.step = "props"
        /\ pc' \in Before =>
              /\ \A m \in Of(asks)' : m.type # "peers"
              /\ \A m \in Of(bus)' : m.type # "listing"
        /\ pc' \in Listed => todo' = {}
    BY DEF ListedInv
  <1> QED
    BY <1>1, <1>2, <1>3, <1>4 DEF ListedInv

LEMMA FindListed ==
  ASSUME TypeOK, ListedInv, backend = "nm", FindNM
  PROVE  ListedInv'
  <1>1. /\ pc = "finding" /\ pc' = "listing"
        /\ asks' = Append(asks, [type |-> "peers"])
        /\ UNCHANGED <<backend, bus, ready>>
    BY DEF FindNM, fixed
  <1>2. [type |-> "peers"] \in Requests
    BY DEF Requests
  <1>3. Of(asks') = Of(asks) \cup {[type |-> "peers"]}
    BY <1>1, <1>2, Kinds, OfAppend
  <1>4. \A r \in Reads : [read |-> r, type |-> "read"] # [type |-> "peers"]
    <2>1. [type |-> "peers"].type = "peers"
      OBVIOUS
    <2> QED
      BY <2>1
  <1>5. Asked' = Asked /\ InFlight' = InFlight
    BY <1>1, <1>3, <1>4 DEF Asked, InFlight, Answered
  <1> QED
    BY <1>1, <1>5 DEF ListedInv, Adding, Listed, Ended, Before

LEMMA AddListed ==
  ASSUME TypeOK, ListedInv, backend = "nm", AddNext
  PROVE  ListedInv'
  <1>1. PICK p \in Peers :
          todo' = todo \ {p} /\ Ask(NewRead(p, "find"), "props")
    BY DEF AddNext, TypeOK
  <1>2. /\ pc = "adding" /\ pc' = "reading"
        /\ UNCHANGED <<backend, air, peers, bus, ready>>
    BY DEF AddNext, fixed, table
  <1> DEFINE r == [NewRead(p, "find") EXCEPT !.step = "props"]
  <1>3. Asked' = Asked \cup {r}
    BY <1>1, ReadType, AskAdds
  <1>4. r.path = p /\ r.step = "props"
    BY DEF NewRead
  <1> HIDE DEF r
  <1>5. Coming(p)' /\ \A k \in Peers : Coming(k) => Coming(k)'
    BY <1>2, <1>3, <1>4 DEF Coming, Answered
  <1>6. \A m \in Of(bus)' : m.type = "listing" => Covered(m.paths)'
    BY <1>2, <1>5 DEF ListedInv, Covered
  <1>7. Covered(todo)'
    <2>1. Covered(todo)
      BY <1>2 DEF ListedInv, Adding
    <2> QED
      BY <1>1, <1>2, <1>5, <2>1 DEF Covered
  <1>8. \A s \in Asked' : s.step = "props"
    BY <1>3, <1>4 DEF ListedInv
  <1> QED
    BY <1>2, <1>6, <1>7, <1>8 DEF ListedInv, Adding, Listed, Ended, Before

LEMMA MainListed ==
  ASSUME TypeOK, ListedInv, backend = "nm", Main \/ Leave \/ Expire
  PROVE  ListedInv'
  <1>1. CASE FindNM \/ AddNext
    BY <1>1, FindListed, AddListed
  <1>2. CASE ~(FindNM \/ AddNext)
    <2>1. UNCHANGED <<backend, air, peers, bus, asks, ready, todo>>
      BY <1>2
      DEF Main, Prepare, FindSupplicant, AllAdded, FindStarted, SleepEnds, SeesPeer,
          GivesUp, StartsWaiting, Woken, WaitTimesOut, Stopped, Leave, Expire, Goto,
          fixed, table, queues
    <2>2. /\ pc \in Adding \cup Ended => pc' \in Adding \cup Ended
          /\ pc' \in Before => pc \in Before
          /\ pc' \in Adding => pc \in Adding
          /\ pc' \in Listed => pc \in Listed \/ todo = {}
      BY <1>2
      DEF Main, Prepare, FindSupplicant, AllAdded, FindStarted, SleepEnds, SeesPeer,
          GivesUp, StartsWaiting, Woken, WaitTimesOut, Stopped, Leave, Expire, Goto,
          Adding, Listed, Ended, Before
    <2>3. UNCHANGED <<Asked, Answered, InFlight>> /\ \A p : Coming(p)' <=> Coming(p)
      BY <2>1 DEF Asked, Answered, InFlight, Coming
    <2> QED
      BY <2>1, <2>2, <2>3, ListedKept
  <1> QED
    BY <1>1, <1>2

LEMMA HandlersListed ==
  ASSUME TypeOK, ListedInv, backend = "nm", Handlers
  PROVE  ListedInv'
  <1>1. CASE OnDeviceFound
    <2> DEFINE q == Head(bus).path
               r == NewRead(q, "task")
    <2>1. /\ Head(bus) \in Messages /\ Head(bus).type = "found"
          /\ Of(bus) = Of(bus') \cup {Head(bus)} /\ Answered' = Answered
      BY <1>1, BusPopped DEF OnDeviceFound
    <2>2. q \in Peers /\ Head(bus) = FoundSignal(q)
      BY <2>1 DEF Messages, Signals, Answers, Listings, FoundSignal
    <2>3. Of(ready') = Of(ready) \cup {r}
      BY <1>1, <2>2, ReadType, ReadyPushed DEF OnDeviceFound
    <2>4. r.path = q /\ r.step = "new" /\ r.by = "task"
      BY DEF NewRead
    <2> HIDE DEF q, r
    <2>5. UNCHANGED <<backend, air, todo, pc, peers, asks>> /\ Asked' = Asked
      BY <1>1 DEF OnDeviceFound, fixed, main, table, Asked
    <2>6. \A p \in Peers : FoundSignal(p) = FoundSignal(q) => p = q
      BY DEF FoundSignal
    <2>7. \A p \in Peers : Coming(p) => Coming(p)'
      BY <2>1, <2>2, <2>3, <2>4, <2>5, <2>6 DEF Coming
    <2>8. \A s \in InFlight' : s.by = "find" => s \in InFlight
      BY <2>1, <2>3, <2>4, <2>5 DEF InFlight
    <2> QED
      BY <2>1, <2>5, <2>7, <2>8, ListedKept
  <1>2. CASE OnDeviceLost
    BY <1>2, BusPopped DEF OnDeviceLost, ListedInv
  <1>3. CASE OnAnswer
    <2> DEFINE r == Head(bus).read
    <2>1. /\ Head(bus).type = "answer" /\ Of(bus) = Of(bus') \cup {Head(bus)}
          /\ r \in Answered /\ Answered' \subseteq Answered
          /\ Answered \subseteq Answered' \cup {r}
      BY <1>3, BusPopped DEF OnAnswer
    <2>2. Of(ready') = Of(ready) \cup {r}
      BY <1>3, <2>1, ReadyPushed DEF OnAnswer, Answered
    <2> HIDE DEF r
    <2>3. UNCHANGED <<backend, air, todo, pc, peers, asks>> /\ Asked' = Asked
      BY <1>3 DEF OnAnswer, fixed, main, table, Asked
    <2>4. \A p \in Peers : FoundSignal(p).type = "found"
      BY DEF FoundSignal
    <2>5. \A p \in Peers : Coming(p) => Coming(p)'
      BY <2>1, <2>2, <2>3, <2>4 DEF Coming
    <2>6. InFlight' \subseteq InFlight
      BY <2>1, <2>2, <2>3 DEF InFlight
    <2> QED
      BY <2>1, <2>3, <2>5, <2>6, ListedKept
  <1>4. CASE OnListing
    <2>1. /\ Head(bus) \in Of(bus) /\ Head(bus).type = "listing"
          /\ Of(bus) = Of(bus') \cup {Head(bus)} /\ Answered' = Answered
      BY <1>4, BusPopped DEF OnListing
    <2>2. /\ UNCHANGED <<backend, air, peers, asks, ready>> /\ todo' = Head(bus).paths
          /\ pc' = "adding"
      BY <1>4 DEF OnListing, fixed, table
    <2>3. \A p \in Peers : FoundSignal(p).type = "found"
      BY DEF FoundSignal
    <2>4. UNCHANGED <<Asked, InFlight>> /\ \A p \in Peers : Coming(p) => Coming(p)'
      BY <2>1, <2>2, <2>3 DEF Coming, Asked, InFlight
    <2>5. \A m \in Of(bus) : m.type = "listing" => Covered(m.paths)'
      BY <2>2, <2>4 DEF ListedInv, Covered
    <2>6. Covered(todo)'
      <3>1. Covered(Head(bus).paths)
        BY <2>1 DEF ListedInv
      <3> QED
        BY <2>2, <2>4, <3>1 DEF Covered
    <2> QED
      BY <2>1, <2>2, <2>4, <2>5, <2>6 DEF ListedInv, Adding, Listed, Ended, Before
  <1> QED
    BY <1>1, <1>2, <1>3, <1>4 DEF Handlers

LEMMA TasksListed ==
  ASSUME TypeOK, ListedInv, backend = "nm", Tasks
  PROVE  ListedInv'
  <1> DEFINE h == Head(ready)
  <1>1. CASE StartReading
    <2>1. /\ h \in Reads /\ Of(ready) = Of(ready') \cup {h} /\ h \in Of(ready)
          /\ Ask(h, "props") /\ UNCHANGED <<backend, air, todo, pc, peers, bus>>
      BY <1>1, ReadyPopped DEF StartReading, fixed, main, table
    <2> DEFINE r == [h EXCEPT !.step = "props"]
    <2>2. /\ Asked' = Asked \cup {r}
          /\ Of(asks') = Of(asks) \cup {[read |-> r, type |-> "read"]}
      BY <2>1, AskAdds
    <2>3. r.path = h.path /\ r.step = "props" /\ r.by = h.by
      BY <2>1 DEF Reads
    <2> HIDE DEF r, h
    <2>4. \A p \in Peers : Coming(p) => Coming(p)'
      BY <2>1, <2>2, <2>3 DEF Coming, Answered
    <2>5. \A s \in InFlight' : s \in InFlight \/ s = r
      BY <2>1, <2>2 DEF InFlight, Answered
    <2>6. h \in InFlight
      BY <2>1 DEF InFlight
    <2>7. \A s \in InFlight' : s.by = "find" => \E t \in InFlight : t.by = "find"
      BY <2>3, <2>5, <2>6
    <2>8. \A m \in Of(asks)' : m \in Of(asks) \/ m.type # "peers"
      BY <2>2
    <2> QED
      BY <2>1, <2>2, <2>3, <2>4, <2>7, <2>8, ListedKept
  <1>2. CASE ReadIEs
    BY <1>2 DEF ReadIEs
  <1>3. CASE ReadFails \/ AddPeer
    <2>1. /\ h \in Reads /\ Of(ready) = Of(ready') \cup {h} /\ h \in Of(ready)
          /\ pc \notin Ended /\ h.step \in {"props", "ies"}
      <3>1. PICK steps \in {{"props"}, {"props", "ies"}} : Runs(steps) /\ Ran
        BY <1>3 DEF ReadFails, AddPeer
      <3> QED
        BY <3>1, ReadyPopped
    <2>2. /\ UNCHANGED <<backend, air, todo, asks, bus>>
          /\ FindResumes
          /\ \/ h.name = "absent" /\ peers' = peers
             \/ h.name # "absent" /\ peers' = [peers EXCEPT ![h.path] = h.name]
      BY <1>3 DEF ReadFails, AddPeer, fixed, table
    <2>3. pc' = IF h.by = "find" THEN "adding" ELSE pc
      BY <2>2 DEF FindResumes
    <2> HIDE DEF h
    <2>4. h \in InFlight /\ InFlight' \subseteq InFlight /\ UNCHANGED <<Asked, Answered>>
      BY <2>1, <2>2 DEF InFlight, Asked, Answered
    <2>5. \A p \in Peers : Coming(p) => Coming(p)'
      <3>1. CASE h.name = "absent"
        BY <2>1, <2>2, <2>4, <3>1 DEF Coming
      <3>2. CASE h.name # "absent"
        <4>1. /\ peers'[h.path] = h.name
              /\ \A p \in Peers : p # h.path => peers'[p] = peers[p]
          BY <2>1, <2>2, <3>2 DEF TypeOK, Reads
        <4> QED
          BY <2>1, <2>2, <2>4, <3>2, <4>1 DEF Coming
      <3> QED
        BY <3>1, <3>2
    <2>6. h.by = "find" => pc \in Adding
      BY <2>1, <2>4 DEF ListedInv
    <2>7. /\ pc \in Adding \cup Ended => pc' \in Adding \cup Ended
          /\ pc' \in Before => pc \in Before
          /\ pc' \in Adding => pc \in Adding
          /\ pc' \in Listed => pc \in Listed
      BY <2>3, <2>6 DEF Adding, Before, Listed
    <2> QED
      BY <2>2, <2>4, <2>5, <2>7, ListedKept
  <1> QED
    BY <1>1, <1>2, <1>3 DEF Tasks

LEMMA DaemonListed ==
  ASSUME TypeOK, ListedInv, backend = "nm", Daemon
  PROVE  ListedInv'
  <1>0. PICK p \in Peers, name \in Seen :
          \E signals \in {<<>>, <<FoundSignal(p)>>} :
             /\ Announces(p, name, signals)
             /\ signals = <<>> => air[p] # "absent"
    <2>1. Names \subseteq Seen /\ "absent" \in Seen
      BY DEF Seen
    <2> QED
      BY <2>1 DEF Daemon, Found, Renamed, Lost, FoundSignal
  <1>1. PICK signals \in {<<>>, <<FoundSignal(p)>>} :
          /\ Announces(p, name, signals)
          /\ signals = <<>> => air[p] # "absent"
    BY <1>0
  <1>2. /\ UNCHANGED <<backend, todo, pc, peers, asks, ready>>
        /\ air' = [air EXCEPT ![p] = name] /\ bus' = bus \o signals
    BY <1>1 DEF Announces, main, table
  <1>3. /\ Of(bus') = Of(bus) \cup (IF signals = <<>> THEN {} ELSE {FoundSignal(p)})
        /\ Answered' = Answered
    <2>1. CASE signals = <<>>
      <3>1. bus' = bus
        BY <1>2, <2>1, Kinds, OfAppend
      <3> QED
        BY <2>1, <3>1 DEF Answered
    <2>2. CASE signals # <<>>
      <3>1. signals = <<FoundSignal(p)>>
        BY <1>1, <2>2
      <3>2. FoundSignal(p) \in Messages /\ FoundSignal(p).type # "answer"
        BY DEF FoundSignal, Messages, Signals
      <3> QED
        BY <1>2, <2>2, <3>1, <3>2, BusPushed
    <2> QED
      BY <2>1, <2>2
  <1>4. UNCHANGED <<Asked, InFlight>> /\ \A k \in Peers : Coming(k) => Coming(k)'
    BY <1>2, <1>3 DEF Asked, InFlight, Coming
  <1>5. \A k \in Peers : air'[k] # "absent" =>
           Coming(k)' \/ (air[k] # "absent" /\ ~Coming(k))
    <2>1. \A k \in Peers : k # p => air'[k] = air[k]
      BY <1>2 DEF TypeOK
    <2>2. signals # <<>> => Coming(p)'
      BY <1>3 DEF Coming
    <2> QED
      BY <1>1, <1>4, <2>1, <2>2
  <1>6. FoundSignal(p).type = "found"
    BY DEF FoundSignal
  <1> QED
    BY <1>2, <1>3, <1>4, <1>5, <1>6, ListedKept

LEMMA ServeListed ==
  ASSUME TypeOK, ListedInv, backend = "nm", Serve
  PROVE  ListedInv'
  <1>1. UNCHANGED <<backend, air, todo, pc, peers, ready>>
    BY DEF Serve, fixed, main, table
  <1>2. ASSUME NEW r \in Asked, NEW s \in Reads,
               s = IF r.step = "props" THEN [r EXCEPT !.name = air[r.path]] ELSE r,
               Asked \subseteq Asked' \cup {r}, Asked' \subseteq Asked,
               Of(asks') \subseteq Of(asks), Answered' = Answered \cup {s},
               Of(bus') = Of(bus) \cup {[read |-> s, type |-> "answer"]}
        PROVE  ListedInv'
    <2>1. r \in Reads /\ r.step = "props"
      BY DEF ListedInv, Asked
    <2>2. s.path = r.path /\ s.name = air[r.path] /\ s.by = r.by
      BY <1>2, <2>1 DEF Reads
    <2>3. \A p \in Peers : air'[p] # "absent" =>
             Coming(p)' \/ (air[p] # "absent" /\ ~Coming(p))
      <3> SUFFICES ASSUME NEW p \in Peers, air[p] # "absent", Coming(p)
                   PROVE  Coming(p)'
        BY <1>1
      <3>1. CASE r.path = p
        <4>1. s \in Answered' /\ s.path = p /\ s.name # "absent"
          BY <1>2, <2>2, <3>1
        <4> QED
          BY <4>1 DEF Coming
      <3>2. CASE r.path # p
        BY <1>1, <1>2, <3>2 DEF Coming
      <3> QED
        BY <3>1, <3>2
    <2>4. \A t \in InFlight' : t \in InFlight \/ t = s
      BY <1>1, <1>2 DEF InFlight
    <2>5. \A t \in InFlight' : t.by = "find" => \E k \in InFlight : k.by = "find"
      BY <2>2, <2>4 DEF InFlight
    <2>6. \A m \in Of(bus)' : m \in Of(bus) \/ m.type \notin {"lost", "listing"}
      BY <1>2
    <2> QED
      BY <1>1, <1>2, <2>3, <2>5, <2>6, ListedKept
  <1>3. ASSUME Asked' = Asked, Of(asks') \subseteq Of(asks), Answered' = Answered,
               \E m \in Of(asks) : m.type = "peers",
               NEW m \in Messages,
               m = [paths |-> {p \in Peers : air[p] # "absent"}, type |-> "listing"],
               Of(bus') = Of(bus) \cup {m}
        PROVE  ListedInv'
    <2>1. pc \notin Before
      BY <1>3 DEF ListedInv
    <2>2. InFlight' = InFlight /\ \A p \in Peers : Coming(p) => Coming(p)'
      BY <1>1, <1>3 DEF InFlight, Coming
    <2>3. m.type = "listing" /\ Covered(m.paths)'
      BY <1>1, <1>3 DEF Covered
    <2>4. \A k \in Of(bus)' : k.type = "listing" => Covered(k.paths)'
      BY <1>1, <1>3, <2>2, <2>3 DEF ListedInv, Covered
    <2>5. pc' \in Adding => Covered(todo)'
      BY <1>1, <2>2 DEF ListedInv, Covered
    <2> QED
      BY <1>1, <1>3, <2>1, <2>2, <2>3, <2>4, <2>5 DEF ListedInv
  <1> QED
    BY <1>2, <1>3, Served

LEMMA ListedStep ==
  ASSUME TypeOK, ListedInv, [Next]_vars
  PROVE  ListedInv'
  <1>1. UNCHANGED backend
    BY DEF Next, Main, Prepare, FindSupplicant, FindNM, AddNext, AllAdded, FindStarted,
           SleepEnds, SeesPeer, GivesUp, StartsWaiting, Woken, WaitTimesOut, Stopped,
           Leave, Expire, Goto, Handlers, OnDeviceFound, OnDeviceLost, OnAnswer,
           OnListing, Tasks, StartReading, ReadIEs, ReadFails, AddPeer, Daemon, Found,
           Renamed, Lost, Announces, Serve, Finished, fixed, vars
  <1>2. CASE backend # "nm"
    BY <1>1, <1>2 DEF ListedInv
  <1>3. CASE backend = "nm" /\ UNCHANGED vars
    <2>1. UNCHANGED <<backend, air, pc, todo, peers, asks, bus, ready>>
      BY <1>3 DEF vars, fixed, main, table, queues
    <2>2. Asked' = Asked /\ Answered' = Answered
      BY <2>1 DEF Asked, Answered
    <2>3. InFlight' = InFlight
      BY <2>1, <2>2 DEF InFlight
    <2>4. \A p : Coming(p)' <=> Coming(p)
      BY <2>1, <2>2 DEF Coming
    <2>5. \A S : Covered(S)' <=> Covered(S)
      BY <2>1, <2>4 DEF Covered
    <2> QED
      BY <2>1, <2>2, <2>3, <2>5 DEF ListedInv
  <1> QED
    BY <1>2, <1>3, MainListed, HandlersListed, TasksListed, DaemonListed, ServeListed
    DEF Next, Finished

(* The inductive invariant behind TableCurrent.                            *)
THEOREM TableCorrect == Spec => []TableInv
  <1>1. ASSUME Init, TypeOK PROVE GhostInv /\ ListedInv
    <2>1. Of(asks) = {} /\ Of(bus) = {} /\ Of(ready) = {}
      BY <1>1 DEF Init, Of
    <2>2. InFlight = {} /\ Asked = {}
      BY <2>1 DEF InFlight, Asked, Answered
    <2> QED
      BY <1>1, <2>1, <2>2
      DEF Init, GhostInv, ListedInv, Adding, Listed, Ended, Covered
  <1>2. TypeOK /\ GhostInv /\ ListedInv /\ [Next]_vars => GhostInv' /\ ListedInv'
    BY GhostStep, ListedStep
  <1>3. TypeOK /\ GhostInv /\ ListedInv => TableInv
    BY DEF TableInv
  <1> QED
    BY <1>1, <1>2, <1>3, TypeCorrect, PTL DEF Spec

(* The table follows the daemon, in both backends and whichever comes      *)
(* first of signals, answers and the listing: no peer that wpa_supplicant  *)
(* has lost stays in it, but one whose loss overtook its reading, and none *)
(* that NetworkManager has falls between find's listing and the signals.   *)
THEOREM TableFollows == Spec => []TableCurrent
  <1>1. TableInv => GhostsOvertaken
    <2> SUFFICES ASSUME TableInv, backend = "supplicant", NEW p \in Peers,
                        peers[p] # "absent", air[p] = "absent", p \notin overtaken
                 PROVE  \E i \in DOMAIN bus : bus[i] = LostSignal(p)
      BY DEF GhostsOvertaken, LostSignal
    <2>1. LostSignal(p) \in Of(bus)
      BY DEF TableInv, GhostInv, Forgotten
    <2> QED
      BY <2>1 DEF Of
  <1>2. TableInv => PresentListed
    <2> SUFFICES ASSUME TableInv, backend = "nm", pc \in Listed, NEW p \in Peers,
                        air[p] # "absent", peers[p] = "absent",
                        FoundSignal(p) \notin Of(bus)
                 PROVE  BeingRead(p)
      BY DEF PresentListed, FoundSignal, Of
    <2>1. Covered(todo) /\ todo = {}
      BY DEF TableInv, ListedInv, Adding
    <2>2. Coming(p)
      BY <2>1 DEF Covered
    <2>3. PICK r \in InFlight : r.path = p
      BY <2>2 DEF Coming, InFlight
    <2> QED
      BY <2>3, IsBeingRead
  <1> QED
    BY <1>1, <1>2, TableCorrect, PTL DEF TableCurrent
=============================================================================
