---------------------------- MODULE P2PDiscovery ----------------------------
(***************************************************************************)
(* The search for a sink: find, wait_for_peer and the table of peers, over *)
(* wpa_supplicant (p2p/supplicant.py) and over NetworkManager (p2p/nm.py), *)
(* as cmd_scan and cmd_connect (__main__.py) drive it.                     *)
(*                                                                         *)
(* The daemon announces peers by signals, and answers the requests for     *)
(* their properties; announcements and answers share one bus, in order.    *)
(* A peer is read by a task of its own, which is suspended while it reads. *)
(***************************************************************************)
EXTENDS Naturals, Sequences

CONSTANTS
    Peers,    \* the object paths of peers
    MaxNews   \* bounds how often the daemon's view of the air changes

ASSUME MaxNewsAssumption == MaxNews \in Nat

Names == {"match", "other"}     \* contains the substring looked for, or not
Seen == Names \cup {"absent"}

VARIABLES
    backend,   \* which daemon: _make_backend
    command,   \* cmd_scan or cmd_connect
    pc,        \* where the command is
    todo,      \* NM: the paths find has still to add
    peers,     \* self.peers: the name listed for a path, if any
    event,     \* self._peer_found
    expired,   \* wait_for_peer's deadline is past
    asks,      \* requests on their way to the daemon
    bus,       \* signals and answers on their way to the program
    ready,     \* the _add_peer's that can run
    air,       \* the peers the daemon has, by name
    news,      \* the changes so far
    overtaken  \* history: paths lost while they were being read

fixed == <<backend, command, air, news>>     \* not the program's to change
main == <<pc, todo, expired>>
table == <<peers, event, overtaken>>
queues == <<asks, bus, ready>>
vars == <<fixed, main, table, queues>>

(* An _add_peer: what it last asked for, and the name it has read.         *)
Reads == [by : {"task", "find"}, name : Seen, path : Peers,
          step : {"new", "props", "ies"}]
Signals == [path : Peers, type : {"found", "lost"}]
Requests == [type : {"read"}, read : Reads] \cup [type : {"peers"}]
Answers == [read : Reads, type : {"answer"}]
Listings == [paths : SUBSET Peers, type : {"listing"}]

NewRead(p, who) == [by |-> who, name |-> "absent", path |-> p, step |-> "new"]
Ask(r, step) ==
    asks' = Append(asks, [read |-> [r EXCEPT !.step = step], type |-> "read"])

Ended == {"done", "timedout", "closed"}

Init ==
    /\ backend \in {"supplicant", "nm"} /\ command \in {"scan", "connect"}
    /\ pc = "open" /\ todo = {} /\ expired = FALSE
    /\ peers = [p \in Peers |-> "absent"] /\ event = FALSE
    /\ asks = <<>> /\ bus = <<>> /\ ready = <<>>
    /\ air \in [Peers -> Seen] /\ news = 0
    /\ overtaken = {}

-----------------------------------------------------------------------------
(* The command: prepare, find, then sleep or wait for the peer, stop.      *)

Goto(from, to) ==
    /\ pc = from /\ pc' = to
    /\ UNCHANGED <<fixed, table, queues, todo, expired>>

(* set_device_name and set_wfd_ie: over D-Bus, or nothing at all. *)
Prepare == Goto("open", "finding")

Clear == peers' = [p \in Peers |-> "absent"]

FindSupplicant ==
    /\ pc = "finding" /\ backend = "supplicant"
    /\ Clear
    /\ pc' = "calling"
    /\ UNCHANGED <<fixed, queues, todo, expired, event, overtaken>>

(* Mutant: find starts from an empty table, as over wpa_supplicant. *)
FindAfresh ==
    /\ pc = "finding" /\ backend = "nm"
    /\ Clear
    /\ pc' = "calling"
    /\ UNCHANGED <<fixed, queues, todo, expired, event, overtaken>>

(* NetworkManager is asked for the peers it has already, ... *)
FindNM ==
    /\ pc = "finding" /\ backend = "nm"
    /\ Clear
    /\ asks' = Append(asks, [type |-> "peers"])
    /\ pc' = "listing"
    /\ UNCHANGED <<fixed, todo, expired, event, bus, ready, overtaken>>

(* ... which are added one after the other, ... *)
AddNext ==
    /\ pc = "adding"
    /\ \E p \in todo :
          /\ todo' = todo \ {p}
          /\ Ask(NewRead(p, "find"), "props")
    /\ pc' = "reading"
    /\ UNCHANGED <<fixed, table, expired, bus, ready>>

(* ... and only then is the search started.                                *)
AllAdded == todo = {} /\ Goto("adding", "calling")

FindStarted ==
    \/ command = "scan" /\ Goto("calling", "sleeping")
    \/ command = "connect" /\ Goto("calling", "look")

SleepEnds == Goto("sleeping", "stopping")

(* wait_for_peer: one look at the table and what follows from it, without  *)
(* an await in between.                                                    *)
Matching == {p \in Peers : peers[p] = "match"}

SeesPeer == Matching # {} /\ Goto("look", "stopping")

GivesUp == Matching = {} /\ expired /\ Goto("look", "timedout")

StartsWaiting ==
    /\ pc = "look" /\ Matching = {} /\ ~expired
    /\ event' = FALSE
    /\ pc' = "waiting"
    /\ UNCHANGED <<fixed, queues, todo, expired, peers, overtaken>>

Woken == event /\ Goto("waiting", "look")

(* Mutant: the wait's timeout is taken for the end of the search. *)
TimeoutRaised == expired /\ Goto("waiting", "timedout")

(* Mutant: the wait has no timeout. *)
WaitsForEver == expired /\ event /\ Goto("waiting", "look")

WaitTimesOut == expired /\ Goto("waiting", "look")

(* Time passes.                                                            *)
Expire ==
    /\ pc \in {"look", "waiting"} /\ ~expired
    /\ expired' = TRUE
    /\ UNCHANGED <<fixed, table, queues, pc, todo>>

(* Then the table is printed, or the peer found is connected to: either    *)
(* way this is its last use.                                               *)
Stopped == Goto("stopping", "done")

(* Ctrl-C, or an error of the daemon at an await that does not swallow it. *)
Leave == pc \notin Ended /\ Goto(pc, "closed")

-----------------------------------------------------------------------------
(* What arrives on the bus.                                                *)

Arrives(type) == pc \notin Ended /\ bus # <<>> /\ Head(bus).type = type
Received == bus' = Tail(bus)

BeingRead(p) ==
    \/ \E i \in DOMAIN asks : asks[i].type = "read" /\ asks[i].read.path = p
    \/ \E i \in DOMAIN bus : bus[i].type = "answer" /\ bus[i].read.path = p
    \/ \E i \in DOMAIN ready : ready[i].path = p

(* Both backends only create the task. *)
OnDeviceFound ==
    /\ Arrives("found") /\ Received
    /\ ready' = Append(ready, NewRead(Head(bus).path, "task"))
    /\ UNCHANGED <<fixed, main, table, asks>>

(* Mutant: a lost peer stays listed. *)
KeepLost ==
    /\ Arrives("lost") /\ Received
    /\ LET p == Head(bus).path
       IN  overtaken' = IF BeingRead(p) THEN overtaken \cup {p} ELSE overtaken \ {p}
    /\ UNCHANGED <<fixed, main, peers, event, asks, ready>>

(* Only the supplicant backend subscribes to it. *)
OnDeviceLost ==
    /\ Arrives("lost") /\ Received
    /\ LET p == Head(bus).path
       IN  /\ peers' = [peers EXCEPT ![p] = "absent"]
           /\ overtaken' = IF BeingRead(p) THEN overtaken \cup {p}
                                           ELSE overtaken \ {p}
    /\ UNCHANGED <<fixed, main, event, asks, ready>>

OnAnswer ==
    /\ Arrives("answer") /\ Received
    /\ ready' = Append(ready, Head(bus).read)
    /\ UNCHANGED <<fixed, main, table, asks>>

OnListing ==
    /\ Arrives("listing") /\ Received
    /\ todo' = Head(bus).paths
    /\ pc' = "adding"
    /\ UNCHANGED <<fixed, table, expired, asks, ready>>

-----------------------------------------------------------------------------
(* _add_peer, from one await to the next.                                  *)

Runs(steps) == pc \notin Ended /\ ready # <<>> /\ Head(ready).step \in steps
Ran == ready' = Tail(ready)

StartReading ==
    /\ Runs({"new"}) /\ Ran
    /\ Ask(Head(ready), "props")
    /\ UNCHANGED <<fixed, main, table, bus>>

(* The WFD information element is a request of its own over wpa_supplicant *)
(* (NetworkManager's peer has it among its properties).                    *)
ReadIEs ==
    /\ Runs({"props"}) /\ Ran
    /\ Head(ready).name # "absent" /\ backend = "supplicant"
    /\ Ask(Head(ready), "ies")
    /\ UNCHANGED <<fixed, main, table, bus>>

(* find goes on with the next peer when it is its own that has been read.  *)
FindResumes == pc' = IF Head(ready).by = "find" THEN "adding" ELSE pc

(* Mutant: a peer that cannot be read is listed under a default name. *)
ListUnread ==
    /\ Runs({"props"}) /\ Ran
    /\ Head(ready).name = "absent"
    /\ peers' = [peers EXCEPT ![Head(ready).path] = "?"]
    /\ FindResumes
    /\ UNCHANGED <<fixed, todo, expired, event, asks, bus, overtaken>>

(* The peer has gone: its properties cannot be read.                       *)
ReadFails ==
    /\ Runs({"props"}) /\ Ran
    /\ Head(ready).name = "absent"
    /\ FindResumes
    /\ UNCHANGED <<fixed, table, todo, expired, asks, bus>>

(* Mutant: only a path not seen before wakes the waiter. *)
AnnounceNewOnly ==
    /\ Runs({"props", "ies"}) /\ Ran
    /\ Head(ready).name # "absent"
    /\ Head(ready).step = "ies" \/ backend = "nm"
    /\ peers' = [peers EXCEPT ![Head(ready).path] = Head(ready).name]
    /\ event' = (event \/ peers[Head(ready).path] = "absent")
    /\ FindResumes
    /\ UNCHANGED <<fixed, todo, expired, asks, bus, overtaken>>

(* All is read, or what fails is only the information element: the peer is *)
(* listed, gone or not, and the waiter woken.                              *)
AddPeer ==
    /\ Runs({"props", "ies"}) /\ Ran
    /\ Head(ready).name # "absent"
    /\ Head(ready).step = "ies" \/ backend = "nm"
    /\ peers' = [peers EXCEPT ![Head(ready).path] = Head(ready).name]
    /\ event' = TRUE
    /\ FindResumes
    /\ UNCHANGED <<fixed, todo, expired, asks, bus, overtaken>>

-----------------------------------------------------------------------------
(* The daemon.                                                             *)

Announces(p, name, signals) ==
    /\ pc \notin Ended /\ news < MaxNews
    /\ news' = news + 1
    /\ air' = [air EXCEPT ![p] = name]
    /\ bus' = bus \o signals
    /\ UNCHANGED <<main, table, backend, command, asks, ready>>

(* A peer comes, or is announced again under another name.                 *)
Found ==
    \E p \in Peers, name \in Names :
        Announces(p, name, <<[path |-> p, type |-> "found"]>>)

(* NetworkManager announces a peer once, whatever its name becomes.        *)
Renamed ==
    \E p \in Peers, name \in Names :
        backend = "nm" /\ air[p] # "absent" /\ Announces(p, name, <<>>)

Lost ==
    \E p \in Peers :
        /\ air[p] # "absent"
        /\ Announces(p, "absent", IF backend = "supplicant"
                                  THEN <<[path |-> p, type |-> "lost"]>> ELSE <<>>)

(* A request is answered from what the daemon has at that moment.          *)
Serve ==
    /\ pc \notin Ended /\ asks # <<>>
    /\ asks' = Tail(asks)
    /\ LET r == Head(asks)
           answer ==
             IF r.type = "peers"
             THEN [paths |-> {p \in Peers : air[p] # "absent"}, type |-> "listing"]
             ELSE [read |-> IF r.read.step = "props"
                            THEN [r.read EXCEPT !.name = air[r.read.path]] ELSE r.read,
                   type |-> "answer"]
       IN  bus' = Append(bus, answer)
    /\ UNCHANGED <<fixed, main, table, ready>>

Finished == pc \in Ended /\ UNCHANGED vars

-----------------------------------------------------------------------------
Main ==
    \/ Prepare \/ FindSupplicant \/ FindNM \/ AddNext \/ AllAdded \/ FindStarted
    \/ SleepEnds \/ SeesPeer \/ GivesUp \/ StartsWaiting \/ Woken \/ WaitTimesOut
    \/ Stopped
Handlers == OnDeviceFound \/ OnDeviceLost \/ OnAnswer \/ OnListing
Tasks == StartReading \/ ReadIEs \/ ReadFails \/ AddPeer
Daemon == Found \/ Renamed \/ Lost

Next == Main \/ Leave \/ Expire \/ Handlers \/ Tasks \/ Daemon \/ Serve \/ Finished

(* The event loop runs, the daemon answers and time passes; nothing says   *)
(* that a peer ever comes.                                                 *)
Spec ==
    /\ Init /\ [][Next]_vars
    /\ WF_vars(Main) /\ WF_vars(Handlers) /\ WF_vars(Tasks)
    /\ WF_vars(Serve) /\ WF_vars(Expire)

-----------------------------------------------------------------------------
(* Every variable has its type. *)
TypeOK ==
    /\ backend \in {"supplicant", "nm"} /\ command \in {"scan", "connect"}
    /\ pc \in {"open", "finding", "listing", "adding", "reading", "calling",
               "sleeping", "look", "waiting", "stopping"} \cup Ended
    /\ todo \subseteq Peers
    /\ peers \in [Peers -> Seen]
    /\ event \in BOOLEAN /\ expired \in BOOLEAN
    /\ asks \in Seq(Requests)
    /\ bus \in Seq(Signals \cup Answers \cup Listings)
    /\ ready \in Seq(Reads)
    /\ air \in [Peers -> Seen] /\ news \in 0..MaxNews
    /\ overtaken \subseteq Peers

(* The event is cleared after the look at the table and waited for: a peer *)
(* that is listed meanwhile, or that is listed again under the name looked *)
(* for, is not slept through.                                              *)
NoLostWakeup == pc = "waiting" /\ Matching # {} => event

GhostsOvertaken ==
    backend = "supplicant" =>
        \A p \in Peers :
            peers[p] # "absent" /\ air[p] = "absent" =>
                \/ p \in overtaken
                \/ \E i \in DOMAIN bus : bus[i] = [path |-> p, type |-> "lost"]

Listed == {"calling", "sleeping", "look", "waiting", "stopping"}

PresentListed ==
    backend = "nm" /\ pc \in Listed =>
        \A p \in Peers :
            air[p] # "absent" =>
                \/ peers[p] # "absent"
                \/ BeingRead(p)
                \/ \E i \in DOMAIN bus : bus[i] = [path |-> p, type |-> "found"]

(* The table follows the daemon.  A peer that wpa_supplicant has lost      *)
(* stays listed only until the signal arrives, unless the signal overtook  *)
(* the task that was reading it; and NetworkManager's peers are all listed *)
(* once find is through the ones it had: none falls between the snapshot   *)
(* and the signals, whichever comes first.                                 *)
TableCurrent == GhostsOvertaken /\ PresentListed

(* A peer of the name looked for that is listed during the wait is taken,  *)
(* even when its event comes together with the timeout: the search does    *)
(* not end in a timeout as long as it is listed.                           *)
ListedTaken ==
    \A p \in Peers :
        (pc \in {"look", "waiting"} /\ peers[p] = "match")
            ~> (pc \in {"stopping", "done", "closed"} \/ peers[p] # "match")

(* A search ends, with a peer or without, however little answers come.     *)
SearchEnds == pc = "calling" ~> pc \in Ended
=============================================================================
